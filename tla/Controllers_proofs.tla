-------------------------- MODULE Controllers_proofs --------------------------
(***************************************************************************)
(* The theorems about memory at boot and about the controllers, for any    *)
(* region, window and tables, any number of slots, functions and           *)
(* scratchpads.                                                            *)
(*                                                                         *)
(* First the pages: every step here is one of Pages' or leaves the memory  *)
(* alone, and PagesInv is an invariant of both.  That every page has one   *)
(* use (KeptApart, which says it of the pages reserved for the bitmap) is  *)
(* inductive once it is known that a page handed out was free              *)
(* (AllocateIs); OneUse follows where those are all pages of the bitmap.   *)
(* The other properties rest on the order in which the bitmap is searched: *)
(* the free pages are always those above some page (Lowest), so a page     *)
(* beyond the window goes out only when the window is used up, and the     *)
(* heap grows in one piece as long as no table is taken between two of its *)
(* pages (Mapping, HeapOnly).                                              *)
(*                                                                         *)
(* Of the controllers, that one is started in order is inductive only      *)
(* together with what each stage of xhci_init has established so far       *)
(* (Prepared) and with the scan: the controller it is at has not been      *)
(* started before, because started are exactly those the scan has passed   *)
(* (Scanned).                                                              *)
(***************************************************************************)
EXTENDS Controllers, FiniteSetTheorems, SequenceTheorems, TLAPS

-----------------------------------------------------------------------------
(* The inductive invariant of the pages. *)

\* Every page below a used one is used: the search runs upwards and nothing is
\* given back.
Lowest == \A p \in used, q \in Pages : q < p => q \in used

Types ==
  /\ region \in Regions /\ used \subseteq Pages
  /\ active \in BOOLEAN /\ todo \in Seq(Nat)

\* Nobody has a page before the bitmap is there, and nobody but VMM_Init while
\* boot maps the memory.
Untaken ==
  /\ pc \in {"pmm", "vmm", "map"} =>
       heap = <<>> /\ driver = {} /\ user = <<>> /\ kstack = Null
  /\ pc \in {"pmm", "vmm"} => pml4 = Null /\ tables = <<>> /\ leaf = <<>>
  /\ pc = "pmm" => used = {}
  /\ pc \notin {"pmm", "vmm", "astray"} => pml4 \in used

\* Each mapping has its tables, and a page of the region is mapped to itself.
Mapping ==
  \A v \in DOMAIN leaf :
    /\ Path(v) \subseteq DOMAIN tables
    /\ v \in Pages => leaf[v].page = v

\* Boot maps the window, and of the region nothing else but the heap.
WindowMapped ==
  /\ pc \in {"map", "heap"} => DOMAIN leaf \cap Pages \subseteq InWindow \cup used
  /\ pc = "map" => /\ Range(todo) \cap Pages \subseteq InWindow
                   /\ InWindow \subseteq DOMAIN leaf \cup Range(todo)
  /\ active => InWindow \subseteq DOMAIN leaf

\* While the heap grows, it has taken the last pages that were taken.
HeapOnly ==
  pc = "heap" =>
    /\ active /\ heap \in Seq(Pages) /\ Range(heap) \subseteq DOMAIN leaf
    /\ heap # <<>> => \A q \in Pages : q \in used <=> q < heap[1] + Len(heap)

\* What has been mapped for ring 3 so far.
ForUser ==
  /\ \A v \in DOMAIN leaf : leaf[v].user => v \in UserVas /\ leaf[v].page \in Range(user)
  /\ pc \in {"pmm", "vmm", "map", "heap", "drivers"} => user = <<>>
  /\ pc \in {"map code", "map data", "map stack"} => DOMAIN user = 1 .. 3
  /\ pc \in {"map data", "map stack", "map rsp0", "ring3"} => UserVa \in UserReaches
  /\ pc \in {"map stack", "map rsp0", "ring3"} => UserVa + 1 \in UserReaches
  /\ pc \in {"map rsp0", "ring3"} => UserVa + 2 \in UserReaches

\* The users of pages keep apart, and to pages that are not on offer.
Apart(holdings, u) ==
  /\ \A i, j \in DOMAIN holdings : i # j => holdings[i] \cap holdings[j] = {}
  /\ \A i \in DOMAIN holdings : holdings[i] \subseteq u

DistinctTables == \A j, k \in DOMAIN tables : j # k => tables[j] # tables[k]

KeptApart == pc # "pmm" => Apart(Holdings, used) /\ DistinctTables

PagesInv ==
  /\ Types /\ Lowest /\ KeptApart /\ Untaken /\ Mapping /\ WindowMapped /\ HeapOnly
  /\ ForUser /\ FaultsOnlyBeyondWindow /\ HeapInOnePiece

-----------------------------------------------------------------------------
(* Finite sets of numbers. *)

\* In a finite set of numbers every rank up to its size is the rank of a member,
\* and of one only: larger members have larger ranks.
LEMMA Ranks ==
  ASSUME NEW S \in SUBSET Nat, IsFiniteSet(S)
  PROVE  /\ \A r \in 1 .. Cardinality(S) :
              \E q \in S : Cardinality({x \in S : x <= q}) = r
         /\ \A q \in S : /\ Cardinality({x \in S : x <= q}) \in 1 .. Cardinality(S)
                         /\ \A p \in S : p < q => Cardinality({x \in S : x <= p})
                                                 < Cardinality({x \in S : x <= q})
<1> DEFINE upTo(q) == {x \in S : x <= q}
           rank == [q \in S |-> Cardinality(upTo(q))]
           n == Cardinality(S)
<1>1. n \in Nat
  BY FS_CardinalityType
<1>2. ASSUME NEW q \in S
      PROVE  IsFiniteSet(upTo(q)) /\ rank[q] \in 1 .. n
  <2>1. upTo(q) \in SUBSET S /\ q \in upTo(q)
    OBVIOUS
  <2>2. IsFiniteSet(upTo(q)) /\ Cardinality(upTo(q)) <= n
    BY <2>1, FS_Subset
  <2>3. Cardinality(upTo(q)) \in Nat /\ Cardinality(upTo(q)) # 0
    BY <2>1, <2>2, FS_CardinalityType, FS_EmptySet
  <2> QED BY <1>1, <2>2, <2>3
<1>3. ASSUME NEW p \in S, NEW q \in S, p < q
      PROVE  rank[p] < rank[q]
  <2>0. p \in Nat /\ q \in Nat /\ \A x \in S : x \in Nat
    OBVIOUS
  <2>a. \A x \in S : x <= p => x <= q
    BY <1>3, <2>0
  <2>1. upTo(p) \in SUBSET upTo(q) /\ q \in upTo(q) /\ q \notin upTo(p)
    <3>1. upTo(p) \subseteq upTo(q)
      BY <2>a
    <3>2. q \in upTo(q) /\ q \notin upTo(p)
      BY <1>3, <2>0
    <3> QED BY <3>1, <3>2
  <2>2. /\ Cardinality(upTo(p)) <= Cardinality(upTo(q))
        /\ Cardinality(upTo(q)) = Cardinality(upTo(p)) => upTo(q) = upTo(p)
    BY <1>2, <2>1, FS_Subset
  <2> QED BY <1>1, <1>2, <2>1, <2>2
<1>4. rank \in Injection(S, 1 .. n)
  <2>1. rank \in [S -> 1 .. n]
    BY <1>2
  <2>2. ASSUME NEW p \in S, NEW q \in S, rank[p] = rank[q] PROVE p = q
    <3>1. p \in Nat /\ q \in Nat /\ rank[p] \in Nat
      BY <1>2
    <3>2. ~(p < q) /\ ~(q < p)
      BY <1>2, <1>3, <2>2
    <3> QED BY <3>1, <3>2
  <2> HIDE DEF rank
  <2> QED BY <2>1, <2>2 DEF Injection, IsInjective
<1>5. rank \in Surjection(S, 1 .. n)
  <2>1. IsFiniteSet(1 .. n) /\ Cardinality(1 .. n) = n
    BY <1>1, FS_Interval
  <2> QED BY <1>4, <2>1, FS_Injection
<1>6. ASSUME NEW r \in 1 .. n PROVE \E q \in S : rank[q] = r
  BY <1>5 DEF Surjection
<1> QED BY <1>2, <1>3, <1>6

\* A finite set of numbers that is not empty has a least and a greatest member.
LEMMA Ends ==
  ASSUME NEW S \in SUBSET Nat, IsFiniteSet(S), S # {}
  PROVE  /\ Min(S) \in S /\ \A x \in S : Min(S) <= x
         /\ Max(S) \in S /\ \A x \in S : x <= Max(S)
<1>1. Cardinality(S) \in Nat /\ Cardinality(S) # 0
  BY FS_CardinalityType, FS_EmptySet
<1>2. PICK lo \in S : Cardinality({x \in S : x <= lo}) = 1
  BY <1>1, Ranks
<1>3. PICK hi \in S : Cardinality({x \in S : x <= hi}) = Cardinality(S)
  BY <1>1, Ranks
<1> DEFINE rank(q) == Cardinality({x \in S : x <= q})
<1>r. \A q \in S : /\ rank(q) \in 1 .. Cardinality(S)
                   /\ \A p \in S : p < q => rank(p) < rank(q)
  BY Ranks
<1>s. rank(lo) = 1 /\ rank(hi) = Cardinality(S) /\ \A x \in S : x \in Nat
  BY <1>2, <1>3
<1> HIDE DEF rank
<1>4. \A x \in S : lo <= x
  BY <1>1, <1>r, <1>s
<1>5. \A x \in S : x <= hi
  BY <1>1, <1>r, <1>s
<1>6. Min(S) \in S /\ \A x \in S : Min(S) <= x
  BY <1>4 DEF Min
<1>7. Max(S) \in S /\ \A x \in S : x <= Max(S)
  <2>1. \E x \in S : \A y \in S : x >= y
    BY <1>5
  <2> QED BY <2>1 DEF Max
<1> QED BY <1>6, <1>7

\* SetToSeq lists a finite set, each member once.
LEMMA Listed ==
  ASSUME NEW S, IsFiniteSet(S)
  PROVE  /\ SetToSeq(S) \in [1 .. Cardinality(S) -> S] /\ IsInjective(SetToSeq(S))
         /\ Cardinality(S) \in Nat
<1>1. Cardinality(S) \in Nat /\ ExistsBijection(1 .. Cardinality(S), S)
  BY FS_CardinalityType
<1>2. \E f \in [1 .. Cardinality(S) -> S] : IsInjective(f)
  BY <1>1 DEF ExistsBijection, Bijection, Injection
<1> QED BY <1>1, <1>2 DEF SetToSeq

-----------------------------------------------------------------------------
(* What PMM_AllocatePage returns. *)

Free(taken) == (Pages \ used) \ taken

LEMMA RegionFinite ==
  ASSUME region \in Regions
  PROVE  /\ region \in Nat \ {0} /\ Pages \subseteq Nat \ {0} /\ IsFiniteSet(Pages)
         /\ Null \notin Pages
<1>1. region \in Nat \ {0} /\ Base \in Nat \ {0}
  BY PagesAssumption
<1>2. IsFiniteSet(Pages)
  BY <1>1, FS_Interval DEF Pages
<1> QED BY <1>1, <1>2 DEF Pages, Null

\* The pages n calls return were free, and no free page below one of them is left.
LEMMA AllocateIs ==
  ASSUME region \in Regions, NEW n, n \in Nat, NEW taken
  PROVE  /\ Allocate(n, taken) \subseteq Free(taken)
         /\ IsFiniteSet(Allocate(n, taken)) /\ Allocate(n, taken) \in SUBSET Nat
         /\ \A p \in Allocate(n, taken), q \in Free(taken) : q < p => q \in Allocate(n, taken)
<1> DEFINE f == Free(taken)
           rank(p) == Cardinality({q \in f : q <= p})
<1>1. f \in SUBSET Nat /\ IsFiniteSet(f)
  <2>1. f \in SUBSET Pages
    BY DEF Free
  <2> QED BY <2>1, RegionFinite, FS_Subset
<1>2. Allocate(n, taken) = {p \in f : rank(p) <= n}
  BY DEF Allocate, Free
<1>3. \A q \in f : /\ rank(q) \in 1 .. Cardinality(f)
                   /\ \A p \in f : p < q => rank(p) < rank(q)
  <2> HIDE DEF f
  <2> QED BY <1>1, Ranks
<1>4. Cardinality(f) \in Nat
  BY <1>1, FS_CardinalityType
<1> HIDE DEF rank
<1>5. Allocate(n, taken) \in SUBSET f
  BY <1>2
<1>6. IsFiniteSet(Allocate(n, taken))
  BY <1>1, <1>5, FS_Subset
<1> HIDE DEF f
<1>7. ASSUME NEW p \in Allocate(n, taken), NEW q \in f, q < p
      PROVE  q \in Allocate(n, taken)
  <2>1. p \in f /\ rank(p) <= n
    BY <1>2
  <2>2. rank(q) < rank(p) /\ rank(q) \in Nat /\ rank(p) \in Nat
    BY <1>3, <1>4, <1>7, <2>1
  <2>3. rank(q) <= n
    BY <2>1, <2>2
  <2> QED BY <1>2, <2>3
<1> QED BY <1>1, <1>5, <1>6, <1>7 DEF f

\* One call returns the lowest free page, if there is one.
LEMMA AllocateOne ==
  ASSUME region \in Regions, NEW taken
  PROVE  /\ Free(taken) = {} => Allocate(1, taken) = {}
         /\ Free(taken) # {} =>
              /\ Allocate(1, taken) = {Min(Allocate(1, taken))}
              /\ Min(Allocate(1, taken)) \in Free(taken)
              /\ \A q \in Free(taken) : Min(Allocate(1, taken)) <= q
<1> DEFINE f == Free(taken)
           rank(p) == Cardinality({q \in f : q <= p})
<1>1. f \in SUBSET Nat /\ IsFiniteSet(f)
  <2>1. f \in SUBSET Pages
    BY DEF Free
  <2> QED BY <2>1, RegionFinite, FS_Subset
<1>2. Allocate(1, taken) = {p \in f : rank(p) <= 1}
  BY DEF Allocate, Free
<1>3. \A q \in f : /\ rank(q) \in 1 .. Cardinality(f)
                   /\ \A p \in f : p < q => rank(p) < rank(q)
  <2> HIDE DEF f
  <2> QED BY <1>1, Ranks
<1>4. Cardinality(f) \in Nat /\ (f # {} => Cardinality(f) # 0)
  BY <1>1, FS_CardinalityType, FS_EmptySet
<1>5. f # {} => \E m \in f : rank(m) = 1
  <2> HIDE DEF f
  <2> QED BY <1>1, <1>4, Ranks
<1> HIDE DEF rank, f
<1>6. CASE f = {}
  BY <1>2, <1>6 DEF f
<1>7. CASE f # {}
  <2>1. PICK m \in f : rank(m) = 1
    BY <1>5, <1>7
  <2>2. \A q \in f : m <= q
    <3> TAKE q \in f
    <3>1. q \in Nat /\ m \in Nat
      BY <1>1
    <3>2. q < m => rank(q) < 1 /\ rank(q) \in 1 .. Cardinality(f)
      BY <1>3, <2>1
    <3> QED BY <1>4, <3>1, <3>2
  <2>3. \A q \in f : rank(q) <= 1 => q = m
    <3> SUFFICES ASSUME NEW q \in f, rank(q) <= 1 PROVE q = m
      OBVIOUS
    <3>1. q \in Nat /\ m \in Nat /\ rank(q) \in 1 .. Cardinality(f)
      BY <1>1, <1>3
    <3>2. m < q => 1 < rank(q)
      BY <1>3, <2>1
    <3> QED BY <1>4, <2>2, <3>1, <3>2
  <2>4. Allocate(1, taken) = {m}
    BY <1>2, <2>1, <2>3
  <2>5. Min({m}) = m
    BY <1>1 DEF Min
  <2> QED BY <1>7, <2>2, <2>4, <2>5 DEF f
<1> QED BY <1>6, <1>7

-----------------------------------------------------------------------------
(* VMM_MapPage. *)

\* A page has one table on each level.
LEMMA PathShape ==
  ASSUME NEW v
  PROVE  /\ IsFiniteSet(Path(v))
         /\ \A k \in Path(v) : k[1] \in Levels
         /\ \A j, k \in Path(v) : j[1] = k[1] => j = k
<1> DEFINE key(l) == <<l, v \div Span(l)>>
<1>1. Path(v) = {key(1)} \cup {key(2)} \cup {key(3)}
  <2>1. Levels = {1, 2, 3}
    BY DEF Levels
  <2> QED BY <2>1 DEF Path
<1>2. \A l \in Levels : key(l)[1] = l
  OBVIOUS
<1>3. Path(v) = {key(l) : l \in Levels}
  BY DEF Path
<1> HIDE DEF key
<1>4. IsFiniteSet(Path(v))
  <2>1. IsFiniteSet({key(1)}) /\ IsFiniteSet({key(2)}) /\ IsFiniteSet({key(3)})
    BY FS_Singleton
  <2>2. IsFiniteSet({key(1)} \cup {key(2)})
    BY <2>1, FS_Union
  <2> QED BY <1>1, <2>1, <2>2, FS_Union, ZenonT(30)
<1> QED BY <1>2, <1>3, <1>4

\* The page that VMM_MapPage puts the missing table k in, when it gets the pages
\* of fresh: the tables are allocated from the root down.
Place(missing, fresh, k) ==
  CHOOSE q \in fresh : Cardinality({r \in fresh : r <= q})
                         = Cardinality({m \in missing : m[1] >= k[1]})

\* With enough pages every missing table gets one, and each its own.
LEMMA Places ==
  ASSUME NEW v, NEW missing \in SUBSET Path(v), NEW fresh \in SUBSET Nat, IsFiniteSet(fresh),
         Cardinality(missing) <= Cardinality(fresh)
  PROVE  /\ \A k \in missing : Place(missing, fresh, k) \in fresh
         /\ \A j, k \in missing :
              j # k => Place(missing, fresh, j) # Place(missing, fresh, k)
<1> DEFINE above(k) == {m \in missing : m[1] >= k[1]}
           rank(q) == Cardinality({r \in fresh : r <= q})
           need(k) == Cardinality(above(k))
<1>1. IsFiniteSet(missing) /\ Cardinality(missing) \in Nat /\ Cardinality(fresh) \in Nat
  BY PathShape, FS_Subset, FS_CardinalityType
<1>2. ASSUME NEW k \in missing
      PROVE  IsFiniteSet(above(k)) /\ need(k) \in 1 .. Cardinality(fresh)
  <2>1. above(k) \in SUBSET missing /\ k \in above(k)
    BY PathShape DEF Levels
  <2>2. IsFiniteSet(above(k)) /\ need(k) <= Cardinality(missing)
    BY <1>1, <2>1, FS_Subset
  <2>3. need(k) \in Nat /\ need(k) # 0
    BY <2>1, <2>2, FS_CardinalityType, FS_EmptySet
  <2> QED BY <1>1, <2>2, <2>3
<1>3. ASSUME NEW j \in missing, NEW k \in missing, j[1] < k[1]
      PROVE  need(j) # need(k)
  <2>1. \A m \in missing : m[1] \in Nat
    BY PathShape DEF Levels
  <2>2. \A m \in missing : m[1] >= k[1] => m[1] >= j[1]
    BY <1>3, <2>1
  <2>3. above(k) \subseteq above(j)
    BY <2>2
  <2>4. j \in above(j) /\ j \notin above(k)
    BY <1>3, <2>1
  <2>5. Cardinality(above(j)) = Cardinality(above(k)) => above(j) = above(k)
    BY <1>2, <2>3, FS_Subset
  <2> QED BY <2>4, <2>5
<1>4. \A r \in 1 .. Cardinality(fresh) : \E q \in fresh : rank(q) = r
  BY Ranks
<1>5. \A k \in missing : Place(missing, fresh, k) = CHOOSE q \in fresh : rank(q) = need(k)
  BY DEF Place
<1> HIDE DEF rank, need
<1>6. \A k \in missing : /\ Place(missing, fresh, k) \in fresh
                         /\ rank(Place(missing, fresh, k)) = need(k)
  BY <1>2, <1>4, <1>5
<1>7. \A j, k \in missing : j # k => need(j) # need(k)
  <2> SUFFICES ASSUME NEW j \in missing, NEW k \in missing, j # k PROVE need(j) # need(k)
    OBVIOUS
  <2>1. j[1] # k[1] /\ j[1] \in Nat /\ k[1] \in Nat
    BY PathShape DEF Levels
  <2>2. CASE j[1] < k[1]
    BY <1>3, <2>2
  <2>3. CASE k[1] < j[1]
    BY <1>3, <2>3
  <2> QED BY <2>1, <2>2, <2>3
<1> QED BY <1>6, <1>7

\* Pages that are handed out together leave no free page below them.
Closed(taken) ==
  /\ taken \subseteq Pages \ used
  /\ \A p \in taken, q \in Pages \ used : q < p => q \in taken

\* A page may be touched: boot's window is mapped once the tables are active.
Touched(q) == active => Mapped(q)

\* What a call does: the page it is for and the pages it takes for tables are the
\* next ones, and it stops, or the mapping and all its tables are there.
Maps(v, p, isUser, taken, next, fresh) ==
  /\ fresh \subseteq Free(taken)
  /\ \A a \in fresh, q \in Free(taken) : q < a => q \in fresh
  /\ used' = used \cup taken \cup fresh
  /\ \/ pc' = "astray" /\ UNCHANGED paging
     \/ /\ pc' = "fault" /\ UNCHANGED paging
        /\ active /\ \E q \in {pml4} \cup fresh \cup TablePages : ~Mapped(q)
     \/ /\ pc' = next /\ pml4' = pml4
        /\ \A q \in fresh : Touched(q)
        /\ Path(v) \subseteq DOMAIN tables => fresh = {}
        /\ DOMAIN tables' = DOMAIN tables \cup Path(v)
        /\ \A k \in DOMAIN tables : tables'[k] = tables[k]
        /\ \A k \in DOMAIN tables' \ DOMAIN tables : tables'[k] \in fresh
        /\ \A j, k \in DOMAIN tables' \ DOMAIN tables : j # k => tables'[j] # tables'[k]
        /\ forUser' = forUser \cup OpenedBy(v, isUser)
        /\ DOMAIN leaf' = DOMAIN leaf \cup {v}
        /\ leaf'[v] = [page |-> p, user |-> isUser]
        /\ \A w \in DOMAIN leaf \ {v} : leaf'[w] = leaf[w]

LEMMA MapPageMaps ==
  ASSUME region \in Regions, NEW v, NEW p, NEW isUser, NEW taken, NEW next,
         MapPage(v, p, isUser, taken, next)
  PROVE  \E fresh : Maps(v, p, isUser, taken, next, fresh)
<1> DEFINE missing == Path(v) \ DOMAIN tables
           fresh == Allocate(Cardinality(missing), taken)
<1>1. IsFiniteSet(missing) /\ Cardinality(missing) \in Nat
  BY PathShape, FS_Subset, FS_CardinalityType
<1>2. /\ fresh \subseteq Free(taken) /\ IsFiniteSet(fresh) /\ fresh \in SUBSET Nat
      /\ \A a \in fresh, q \in Free(taken) : q < a => q \in fresh
  BY <1>1, AllocateIs
<1>3. Cardinality(fresh) \in Nat
  BY <1>2, FS_CardinalityType
<1>4. CASE Cardinality(fresh) < Cardinality(missing)
  <2>1. Stop("astray", taken \cup fresh)
    BY <1>4 DEF MapPage
  <2>2. Maps(v, p, isUser, taken, next, fresh)
    BY <1>2, <2>1 DEF Maps, Stop
  <2> QED BY <2>2
<1>5. CASE /\ ~(Cardinality(fresh) < Cardinality(missing))
           /\ ~Touches({pml4} \cup fresh \cup {tables[k] : k \in Path(v) \ missing})
  <2>1. Stop("fault", taken \cup fresh)
    BY <1>5 DEF MapPage
  <2>2. active /\ \E q \in {pml4} \cup fresh \cup TablePages : ~Mapped(q)
    BY <1>5 DEF Touches, TablePages
  <2>3. Maps(v, p, isUser, taken, next, fresh)
    BY <1>2, <2>1, <2>2 DEF Maps, Stop
  <2> QED BY <2>3
<1>6. CASE /\ ~(Cardinality(fresh) < Cardinality(missing))
           /\ Touches({pml4} \cup fresh \cup {tables[k] : k \in Path(v) \ missing})
  <2>1. /\ pc' = next
        /\ used' = used \cup fresh \cup taken
        /\ tables' = [k \in DOMAIN tables \cup missing |->
                        IF k \in missing THEN Place(missing, fresh, k) ELSE tables[k]]
        /\ forUser' = forUser \cup OpenedBy(v, isUser)
        /\ leaf' = [w \in DOMAIN leaf \cup {v} |->
                      IF w = v THEN [page |-> p, user |-> isUser] ELSE leaf[w]]
        /\ UNCHANGED pml4
    BY <1>6 DEF MapPage, Place
  <2>2. /\ \A k \in missing : Place(missing, fresh, k) \in fresh
        /\ \A j, k \in missing : j # k => Place(missing, fresh, j) # Place(missing, fresh, k)
    <3>1. Cardinality(missing) <= Cardinality(fresh)
      BY <1>1, <1>3, <1>6
    <3>2. missing \in SUBSET Path(v)
      OBVIOUS
    <3> HIDE DEF missing, fresh
    <3> QED BY <1>2, <3>1, <3>2, Places
  <2>3. \A q \in fresh : Touched(q)
    BY <1>6 DEF Touches, Touched
  <2>4. Path(v) \subseteq DOMAIN tables => fresh = {}
    <3>1. ASSUME Path(v) \subseteq DOMAIN tables PROVE fresh = {}
      <4>1. Cardinality(missing) = 0
        <5>1. missing = {}
          BY <3>1
        <5> QED BY <5>1, FS_EmptySet
      <4>2. ASSUME NEW q \in fresh PROVE FALSE
        <5> DEFINE below == {r \in Free(taken) : r <= q}
        <5>1. q \in Free(taken) /\ Cardinality(below) <= 0
          BY <4>1 DEF Allocate, Free
        <5>2. Free(taken) \in SUBSET Pages /\ IsFiniteSet(Free(taken))
          BY RegionFinite, FS_Subset DEF Free
        <5>3. below \in SUBSET Free(taken) /\ q \in below
          BY <5>1, <5>2, RegionFinite
        <5>4. IsFiniteSet(below)
          BY <5>2, <5>3, FS_Subset
        <5>5. Cardinality(below) \in Nat /\ Cardinality(below) # 0
          BY <5>3, <5>4, FS_CardinalityType, FS_EmptySet
        <5> QED BY <5>1, <5>5
      <4> QED BY <4>2
    <3> QED BY <3>1
  <2>5. /\ DOMAIN tables' = DOMAIN tables \cup Path(v)
        /\ \A k \in DOMAIN tables : tables'[k] = tables[k]
        /\ \A k \in DOMAIN tables' \ DOMAIN tables : tables'[k] \in fresh
        /\ \A j, k \in DOMAIN tables' \ DOMAIN tables : j # k => tables'[j] # tables'[k]
    <3> HIDE DEF fresh
    <3> QED BY <2>1, <2>2
  <2>6. /\ DOMAIN leaf' = DOMAIN leaf \cup {v}
        /\ leaf'[v] = [page |-> p, user |-> isUser]
        /\ \A w \in DOMAIN leaf \ {v} : leaf'[w] = leaf[w]
    BY <2>1
  <2> HIDE DEF fresh
  <2>7. Maps(v, p, isUser, taken, next, fresh)
    BY <1>2, <2>1, <2>3, <2>4, <2>5, <2>6 DEF Maps
  <2> QED BY <2>7
<1> QED BY <1>4, <1>5, <1>6

-----------------------------------------------------------------------------
(* What every step that takes pages keeps. *)

\* The window is the lower part of the region.
LEMMA WindowBelow ==
  ASSUME region \in Regions
  PROVE  \A w \in InWindow : w \in Pages /\ \A q \in Pages \ InWindow : w < q
<1>1. region \in Nat \ {0} /\ Window \in Nat \ {0} /\ Base \in Nat
  BY PagesAssumption
<1>2. /\ Min({region, Window}) \in {region, Window}
      /\ Min({region, Window}) <= region
  <2>1. \E x \in {region, Window} : \A y \in {region, Window} : x <= y
    BY <1>1
  <2> QED BY <2>1 DEF Min
<1> DEFINE n == Min({region, Window})
<1>3. n \in Nat /\ n <= region
  BY <1>1, <1>2
<1> HIDE DEF n
<1> QED BY <1>1, <1>3 DEF InWindow, Pages, n

\* When a page that is not mapped is used, the window is used up.
LEMMA WindowUsedUp ==
  ASSUME region \in Regions, Mapping, WindowMapped, active,
         NEW u \in SUBSET Pages, \A p \in u, q \in Pages : q < p => q \in u,
         NEW a \in u, ~Mapped(a)
  PROVE  InWindow \subseteq u
<1>1. a \notin InWindow
  <2> SUFFICES ASSUME a \in InWindow PROVE FALSE
    OBVIOUS
  <2>1. a \in DOMAIN leaf /\ a \in Pages
    BY DEF WindowMapped
  <2> QED BY <2>1 DEF Mapping, Mapped
<1>2. ASSUME NEW w \in InWindow PROVE w \in u
  BY <1>1, WindowBelow
<1> QED BY <1>2

\* Taking the next free pages leaves the used ones below the free ones.
LEMMA StillLowest ==
  ASSUME Types, Lowest, NEW taken, Closed(taken), NEW fresh, fresh \subseteq Free(taken),
         \A a \in fresh, q \in Free(taken) : q < a => q \in fresh
  PROVE  /\ used \cup taken \cup fresh \subseteq Pages
         /\ \A p \in used \cup taken \cup fresh, q \in Pages :
              q < p => q \in used \cup taken \cup fresh
         /\ taken \cap fresh = {} /\ (taken \cup fresh) \cap used = {}
<1>1. used \cup taken \cup fresh \subseteq Pages
  BY DEF Types, Closed, Free
<1>2. ASSUME NEW p \in used \cup taken \cup fresh, NEW q \in Pages, q < p
      PROVE  q \in used \cup taken \cup fresh
  <2>1. CASE p \in used
    BY <1>2, <2>1 DEF Lowest
  <2>2. CASE p \in taken
    BY <1>2, <2>2 DEF Closed
  <2>3. CASE p \in fresh
    BY <1>2, <2>3 DEF Free
  <2> QED BY <2>1, <2>2, <2>3
<1>3. taken \cap fresh = {} /\ (taken \cup fresh) \cap used = {}
  BY DEF Closed, Free
<1> QED BY <1>1, <1>2, <1>3

\* The users keep to their own pages when one of them gets pages that were free,
\* and the tables get others.
LEMMA StillApart ==
  ASSUME NEW H, NEW G, DOMAIN H = 1 .. 7, DOMAIN G = 1 .. 7, NEW u, NEW taken, NEW fresh,
         Apart(H, u), taken \cap fresh = {}, (taken \cup fresh) \cap u = {},
         NEW i \in (1 .. 7) \ {3}, G[i] \subseteq H[i] \cup taken, G[3] \subseteq H[3] \cup fresh,
         \A j \in (1 .. 7) \ {i, 3} : G[j] = H[j]
  PROVE  Apart(G, u \cup taken \cup fresh)
<1> DEFINE new(j) == IF j = i THEN taken ELSE IF j = 3 THEN fresh ELSE {}
<1>1. \A j \in 1 .. 7 : G[j] \subseteq H[j] \cup new(j) /\ H[j] \subseteq u
  BY DEF Apart
<1>2. \A j \in 1 .. 7 : new(j) \cap u = {} /\ new(j) \subseteq taken \cup fresh
  OBVIOUS
<1>3. \A j, k \in 1 .. 7 : j # k => new(j) \cap new(k) = {}
  OBVIOUS
<1>4. \A j, k \in 1 .. 7 : j # k => H[j] \cap H[k] = {}
  BY DEF Apart
<1> HIDE DEF new
<1>5. ASSUME NEW j \in 1 .. 7, NEW k \in 1 .. 7, j # k PROVE G[j] \cap G[k] = {}
  <2>1. H[j] \cap H[k] = {} /\ new(j) \cap new(k) = {}
    BY <1>3, <1>4, <1>5
  <2>2. H[j] \cap new(k) = {} /\ new(j) \cap H[k] = {}
    BY <1>1, <1>2
  <2>3. G[j] \subseteq H[j] \cup new(j) /\ G[k] \subseteq H[k] \cup new(k)
    BY <1>1
  <2> QED BY <2>1, <2>2, <2>3
<1>6. ASSUME NEW j \in 1 .. 7 PROVE G[j] \subseteq u \cup taken \cup fresh
  <2>1. G[j] \subseteq H[j] \cup new(j) /\ H[j] \subseteq u /\ new(j) \subseteq taken \cup fresh
    BY <1>1, <1>2
  <2> QED BY <2>1
<1> QED BY <1>5, <1>6 DEF Apart

-----------------------------------------------------------------------------
(* One lemma for each step. *)

\* What a call of VMM_MapPage keeps, whatever it is made for.
MapKept(v, taken, next, fresh) ==
  /\ used' \subseteq Pages' /\ Lowest' /\ Mapping'
  /\ FaultsOnlyBeyondWindow' /\ HeapInOnePiece'
  /\ active' => InWindow' \subseteq DOMAIN leaf'
  /\ DistinctTables' /\ TablePages' \subseteq TablePages \cup fresh
  /\ pml4' = pml4 /\ pc' \in {"astray", "fault", next} /\ pml4 \in used'
  /\ DOMAIN leaf \subseteq DOMAIN leaf' /\ DOMAIN leaf' \subseteq DOMAIN leaf \cup {v}
  /\ taken \cap fresh = {} /\ (taken \cup fresh) \cap used = {}

LEMMA MapKeeps ==
  ASSUME PagesInv, region' = region, active' = active, NEW taken, Closed(taken),
         NEW v, NEW p, NEW isUser, NEW next, NEW fresh,
         Maps(v, p, isUser, taken, next, fresh), v \in Pages => p = v,
         pc \notin {"pmm", "vmm", "astray"},
         next \notin {"pmm", "vmm", "astray", "fault", "scattered"}
  PROVE  MapKept(v, taken, next, fresh)
<1> USE DEF MapKept
<1>1. Pages' = Pages /\ InWindow' = InWindow
  BY DEF Pages, InWindow
<1>2. Types /\ Lowest /\ Mapping /\ WindowMapped /\ region \in Regions
  BY DEF PagesInv, Types
<1>3. Apart(Holdings, used) /\ DistinctTables
  BY DEF PagesInv, KeptApart
<1>4. pml4 \in used /\ TablePages \subseteq used /\ used \subseteq Pages
  <2>1. TablePages \subseteq used
    BY <1>3 DEF Apart, Holdings
  <2> QED BY <2>1 DEF PagesInv, Untaken, Types
<1>5. /\ used' = used \cup taken \cup fresh
      /\ fresh \subseteq Free(taken)
      /\ \A a \in fresh, q \in Free(taken) : q < a => q \in fresh
  BY DEF Maps
<1>6. /\ used' \subseteq Pages
      /\ \A a \in used', q \in Pages : q < a => q \in used'
      /\ taken \cap fresh = {} /\ (taken \cup fresh) \cap used = {}
  <2> DEFINE u == used \cup taken \cup fresh
  <2>1. /\ u \subseteq Pages
        /\ \A a \in u, q \in Pages : q < a => q \in u
        /\ taken \cap fresh = {} /\ (taken \cup fresh) \cap used = {}
    BY <1>2, <1>5, StillLowest
  <2> HIDE DEF u
  <2> QED BY <1>5, <2>1 DEF u
<1>7. CASE pc' = "astray" /\ UNCHANGED paging
  <2>1. Mapping'
    BY <1>1, <1>2, <1>7 DEF Mapping, paging
  <2>2. DistinctTables' /\ TablePages' = TablePages
    BY <1>3, <1>7 DEF DistinctTables, TablePages, paging
  <2> QED BY <1>1, <1>2, <1>4, <1>5, <1>6, <1>7, <2>1, <2>2
          DEF Lowest, FaultsOnlyBeyondWindow, HeapInOnePiece, paging, WindowMapped
<1>8. CASE /\ pc' = "fault" /\ UNCHANGED paging
           /\ active /\ \E q \in {pml4} \cup fresh \cup TablePages : ~Mapped(q)
  <2>1. Mapping'
    BY <1>1, <1>2, <1>8 DEF Mapping, paging
  <2>2. DistinctTables' /\ TablePages' = TablePages
    BY <1>3, <1>8 DEF DistinctTables, TablePages, paging
  <2>3. PICK a \in {pml4} \cup fresh \cup TablePages : ~Mapped(a)
    BY <1>8
  <2>4. a \in used'
    BY <1>4, <1>5
  <2>5. InWindow \subseteq used'
    BY <1>2, <1>6, <1>8, <2>3, <2>4, WindowUsedUp
  <2> QED BY <1>1, <1>2, <1>4, <1>5, <1>6, <1>8, <2>1, <2>2, <2>5
          DEF Lowest, FaultsOnlyBeyondWindow, HeapInOnePiece, paging, WindowMapped
<1>9. CASE /\ pc' = next /\ pml4' = pml4
           /\ DOMAIN tables' = DOMAIN tables \cup Path(v)
           /\ \A k \in DOMAIN tables : tables'[k] = tables[k]
           /\ \A k \in DOMAIN tables' \ DOMAIN tables : tables'[k] \in fresh
           /\ \A j, k \in DOMAIN tables' \ DOMAIN tables : j # k => tables'[j] # tables'[k]
           /\ DOMAIN leaf' = DOMAIN leaf \cup {v}
           /\ leaf'[v] = [page |-> p, user |-> isUser]
           /\ \A w \in DOMAIN leaf \ {v} : leaf'[w] = leaf[w]
  <2>1. Mapping'
    <3>1. ASSUME NEW w \in DOMAIN leaf'
          PROVE  Path(w) \subseteq DOMAIN tables' /\ (w \in Pages => leaf'[w].page = w)
      <4>1. CASE w = v
        BY <1>9, <4>1
      <4>2. CASE w \in DOMAIN leaf \ {v}
        BY <1>2, <1>9, <4>2 DEF Mapping
      <4> QED BY <1>9, <4>1, <4>2
    <3>2. \A w : Path(w)' = Path(w)
      BY DEF Path
    <3> QED BY <1>1, <3>1, <3>2 DEF Mapping
  <2>2. TablePages' \subseteq TablePages \cup fresh
    BY <1>9 DEF TablePages
  <2>3. DistinctTables'
    <3> SUFFICES ASSUME NEW j \in DOMAIN tables', NEW k \in DOMAIN tables', j # k
                 PROVE  tables'[j] # tables'[k]
      BY DEF DistinctTables
    <3>1. \A m \in DOMAIN tables : tables[m] \in used
      BY <1>4 DEF TablePages
    <3>2. CASE j \in DOMAIN tables /\ k \in DOMAIN tables
      BY <1>3, <1>9, <3>2 DEF DistinctTables
    <3>3. CASE j \in DOMAIN tables /\ k \notin DOMAIN tables
      BY <1>6, <1>9, <3>1, <3>3
    <3>4. CASE j \notin DOMAIN tables /\ k \in DOMAIN tables
      BY <1>6, <1>9, <3>1, <3>4
    <3>5. CASE j \notin DOMAIN tables /\ k \notin DOMAIN tables
      BY <1>9, <3>5
    <3> QED BY <3>2, <3>3, <3>4, <3>5
  <2>4. active' => InWindow \subseteq DOMAIN leaf'
    BY <1>2, <1>9 DEF WindowMapped
  <2> QED BY <1>1, <1>4, <1>5, <1>6, <1>9, <2>1, <2>2, <2>3, <2>4
          DEF Lowest, FaultsOnlyBeyondWindow, HeapInOnePiece
<1> QED BY <1>7, <1>8, <1>9 DEF Maps

LEMMA MapPageKeeps ==
  ASSUME PagesInv, region' = region, active' = active, NEW taken, Closed(taken),
         NEW v, NEW p, NEW isUser, NEW next,
         MapPage(v, p, isUser, taken, next), v \in Pages => p = v,
         pc \notin {"pmm", "vmm", "astray"},
         next \notin {"pmm", "vmm", "astray", "fault", "scattered"}
  PROVE  \E fresh : Maps(v, p, isUser, taken, next, fresh) /\ MapKept(v, taken, next, fresh)
<1>1. PICK fresh : Maps(v, p, isUser, taken, next, fresh)
  BY MapPageMaps DEF PagesInv, Types
<1>2. MapKept(v, taken, next, fresh)
  BY <1>1, MapKeeps
<1> QED BY <1>1, <1>2

LEMMA AllocateClosed ==
  ASSUME region \in Regions
  PROVE  Closed({}) /\ \A n \in Nat : Closed(Allocate(n, {}))
<1>1. Closed({})
  BY DEF Closed
<1>2. ASSUME NEW n \in Nat PROVE Closed(Allocate(n, {}))
  <2>1. Free({}) = Pages \ used
    BY DEF Free
  <2> QED BY <2>1, AllocateIs DEF Closed
<1> QED BY <1>1, <1>2

\* Taking pages without a mapping; pages that were never mapped may be touched as
\* long as the window is not used up.
LEMMA TakeKeeps ==
  ASSUME PagesInv, UNCHANGED <<region, active, paging>>, NEW taken, Closed(taken),
         used' = used \cup taken
  PROVE  /\ used' \subseteq Pages' /\ Lowest' /\ Mapping'
         /\ active' => InWindow' \subseteq DOMAIN leaf'
         /\ active /\ (\E q \in taken : ~Mapped(q)) => InWindow' \subseteq used'
         /\ DistinctTables' = DistinctTables /\ TablePages' = TablePages
         /\ taken \cap used = {}
<1>1. Pages' = Pages /\ InWindow' = InWindow
  BY DEF Pages, InWindow
<1>2. Types /\ Lowest /\ Mapping /\ WindowMapped /\ region \in Regions
  BY DEF PagesInv, Types
<1>3. /\ used' \subseteq Pages
      /\ \A p \in used', q \in Pages : q < p => q \in used'
      /\ taken \cap used = {}
  <2> DEFINE u == used \cup taken \cup {}
  <2>1. /\ u \subseteq Pages
        /\ \A a \in u, q \in Pages : q < a => q \in u
        /\ (taken \cup {}) \cap used = {}
    BY <1>2, StillLowest
  <2>2. used' = u
    OBVIOUS
  <2> HIDE DEF u
  <2> QED BY <2>1, <2>2
<1>4. Mapping'
  BY <1>1, <1>2 DEF Mapping, paging
<1>5. DistinctTables' = DistinctTables /\ TablePages' = TablePages
  BY DEF DistinctTables, TablePages, paging
<1>6. active' => InWindow' \subseteq DOMAIN leaf'
  BY <1>1, <1>2 DEF WindowMapped, paging
<1>7. ASSUME active, NEW q \in taken, ~Mapped(q) PROVE InWindow \subseteq used'
  BY <1>2, <1>3, <1>7, WindowUsedUp
<1> QED BY <1>1, <1>3, <1>4, <1>5, <1>6, <1>7 DEF Lowest

\* Who holds what.
LEMMA HoldersAre ==
  /\ Holdings[1] = Reserved /\ Holdings[2] = {pml4} \ {Null} /\ Holdings[3] = TablePages
  /\ Holdings[4] = Range(heap) /\ Holdings[5] = driver /\ Holdings[6] = Range(user)
  /\ Holdings[7] = {kstack} \ {Null}
  /\ Holdings'[1] = Reserved' /\ Holdings'[2] = {pml4'} \ {Null} /\ Holdings'[3] = TablePages'
  /\ Holdings'[4] = Range(heap') /\ Holdings'[5] = driver' /\ Holdings'[6] = Range(user')
  /\ Holdings'[7] = {kstack'} \ {Null}
  BY DEF Holdings, Null

LEMMA Holders ==
  /\ \A j \in 1 .. 7 : j \in {1, 2, 3, 4, 5, 6, 7}
  /\ \A j \in {1, 2, 4, 5, 6, 7} : j \in (1 .. 7) \ {3}
  OBVIOUS

\* KeptApart after a step that gives pages to one of the users, other than the tables.
LEMMA ApartKept ==
  ASSUME PagesInv, pc # "pmm", NEW taken, NEW fresh, used' = used \cup taken \cup fresh,
         taken \cap fresh = {}, (taken \cup fresh) \cap used = {},
         NEW i \in (1 .. 7) \ {3}, Holdings'[i] \subseteq Holdings[i] \cup taken,
         TablePages' \subseteq TablePages \cup fresh, DistinctTables',
         \A j \in (1 .. 7) \ {i, 3} : Holdings'[j] = Holdings[j]
  PROVE  KeptApart'
<1>1. Apart(Holdings, used)
  BY DEF PagesInv, KeptApart
<1>2. DOMAIN Holdings = 1 .. 7 /\ DOMAIN Holdings' = 1 .. 7
  BY DEF Holdings
<1>3. Holdings[3] = TablePages /\ Holdings'[3] = TablePages'
  BY DEF Holdings
<1> DEFINE H == Holdings
           G == Holdings'
<1>4. /\ DOMAIN H = 1 .. 7 /\ DOMAIN G = 1 .. 7 /\ Apart(H, used)
      /\ G[i] \subseteq H[i] \cup taken /\ G[3] \subseteq H[3] \cup fresh
      /\ \A j \in (1 .. 7) \ {i, 3} : G[j] = H[j]
  BY <1>1, <1>2, <1>3
<1> HIDE DEF H, G
<1>5. Apart(G, used \cup taken \cup fresh)
  BY <1>4, StillApart
<1>6. Apart(Holdings', used')
  BY <1>5 DEF G
<1> QED BY <1>6 DEF KeptApart, Apart, DistinctTables

\* The entries for ring 3 after a step that maps one page.
LEMMA ForUserKept ==
  ASSUME PagesInv, user' = user, NEW v, NEW p, NEW isUser \in BOOLEAN, NEW taken, NEW next,
         NEW fresh, Maps(v, p, isUser, taken, next, fresh),
         isUser => v \in UserVas /\ p \in Range(user)
  PROVE  /\ \A w \in DOMAIN leaf' : leaf'[w].user => w \in UserVas /\ leaf'[w].page \in Range(user)
         /\ \A w \in UserReaches : w # v => w \in UserReaches'
         /\ isUser /\ pc' \notin {"astray", "fault"} => v \in UserReaches'
<1>1. ForUser
  BY DEF PagesInv
<1>2. \A w : Path(w)' = Path(w)
  BY DEF Path
<1>3. CASE UNCHANGED paging /\ pc' \in {"astray", "fault"}
  BY <1>1, <1>2, <1>3 DEF ForUser, UserReaches, paging
<1>4. CASE /\ forUser' = forUser \cup OpenedBy(v, isUser)
           /\ DOMAIN leaf' = DOMAIN leaf \cup {v}
           /\ leaf'[v] = [page |-> p, user |-> isUser]
           /\ \A w \in DOMAIN leaf \ {v} : leaf'[w] = leaf[w]
  <2>1. \A w \in DOMAIN leaf' : leaf'[w].user => w \in UserVas /\ leaf'[w].page \in Range(user)
    <3>1. leaf'[v].page = p /\ (leaf'[v].user <=> isUser)
      BY <1>4
    <3>2. \A w \in DOMAIN leaf \ {v} : leaf'[w].user => w \in UserVas /\ leaf'[w].page \in Range(user)
      BY <1>1, <1>4 DEF ForUser
    <3> QED BY <1>4, <3>1, <3>2, Zenon
  <2>2. \A w \in UserReaches : w # v => w \in UserReaches'
    BY <1>2, <1>4 DEF UserReaches
  <2>3. isUser => v \in UserReaches'
    BY <1>2, <1>4 DEF UserReaches, OpenedBy
  <2> QED BY <2>1, <2>2, <2>3
<1> QED BY <1>3, <1>4 DEF Maps

\* The kernel stops without having taken anything.
LEMMA StoppedKeeps ==
  ASSUME PagesInv, UNCHANGED <<boot, used, paging, active, takers>>,
         pc # "pmm", pc' \in {"astray", "noMemory", "over"},
         pc' # "astray" => pc \notin {"vmm", "astray"}
  PROVE  PagesInv'
<1> USE DEF boot, paging, takers
<1>1. Pages' = Pages /\ InWindow' = InWindow /\ Reserved' = Reserved /\ UserReaches' = UserReaches
  BY DEF Pages, InWindow, Reserved, UserReaches, Path
<1>2. Types' /\ Lowest' /\ Untaken'
  BY <1>1 DEF PagesInv, Types, Lowest, Untaken
<1>3. KeptApart'
  <2>1. Holdings' = Holdings
    BY <1>1 DEF Holdings, TablePages
  <2> QED BY <2>1 DEF PagesInv, KeptApart, Apart, DistinctTables
<1>4. Mapping' /\ WindowMapped' /\ HeapOnly'
  BY <1>1 DEF PagesInv, Mapping, WindowMapped, HeapOnly
<1>5. ForUser' /\ FaultsOnlyBeyondWindow' /\ HeapInOnePiece'
  BY <1>1 DEF PagesInv, ForUser, FaultsOnlyBeyondWindow, HeapInOnePiece
<1> QED BY <1>2, <1>3, <1>4, <1>5 DEF PagesInv

-----------------------------------------------------------------------------
(* The boot sequence. *)

LEMMA InitEstablishes == Init => PagesInv
<1> SUFFICES ASSUME Init PROVE PagesInv
  OBVIOUS
<1> USE DEF Init
<1>1. Types
  <2>1. active \in BOOLEAN
    BY Zenon
  <2>2. region \in Regions /\ used \subseteq Pages /\ todo \in Seq(Nat)
    OBVIOUS
  <2> QED BY <2>1, <2>2 DEF Types
<1>t. Lowest /\ KeptApart /\ Untaken
  BY DEF Lowest, KeptApart, Untaken
<1>2. Mapping /\ WindowMapped /\ HeapOnly /\ FaultsOnlyBeyondWindow /\ HeapInOnePiece
  BY DEF Mapping, WindowMapped, HeapOnly, FaultsOnlyBeyondWindow, HeapInOnePiece
<1>3. ForUser
  BY DEF ForUser
<1> QED BY <1>1, <1>2, <1>3, <1>t DEF PagesInv

\* The pages reserved for the bitmap lie in the region it describes.
LEMMA ReservedInRegion ==
  ASSUME region \in Regions
  PROVE  Reserved \subseteq Pages /\ \A p \in Reserved, q \in Pages : q < p => q \in Reserved
<1>1. /\ region \in Nat \ {0} /\ PageBytes \in Nat \ {0} /\ PerByte \in Nat \ {0}
      /\ Base \in Nat
  BY PagesAssumption
<1> DEFINE b == region \div PerByte
           n == PagesFor(b)
           P == PageBytes
<1>2. b \in Nat /\ b <= region
  <2>1. b \in Nat /\ PerByte * b <= region
    BY <1>1
  <2> HIDE DEF b
  <2>2. PerByte * b >= b
    BY <1>1, <2>1
  <2> QED BY <1>1, <2>1, <2>2
<1> HIDE DEF b
<1>3. n \in Nat /\ P * n <= b + P - 1
  <2>1. b + P - 1 \in Nat
    BY <1>1, <1>2
  <2> QED BY <1>1, <2>1 DEF PagesFor
<1>4. n <= b
  <2> HIDE DEF n, P
  <2> SUFFICES ASSUME n > b PROVE FALSE
    BY <1>2, <1>3
  <2>1. P \in Nat /\ P >= 1
    BY <1>1 DEF P
  <2>2. P * n >= P * (b + 1)
    BY <1>2, <1>3, <2>1
  <2>3. P * (b + 1) >= b + P
    BY <1>2, <2>1
  <2> QED BY <1>2, <1>3, <2>1, <2>2, <2>3
<1>5. Reserved = Base .. Base + (IF n = 0 THEN 1 ELSE n) - 1
  BY DEF Reserved, b
<1> HIDE DEF n
<1> QED BY <1>1, <1>2, <1>3, <1>4, <1>5 DEF Pages

LEMMA PmmInitKeeps == PagesInv /\ PmmInit => PagesInv'
<1> SUFFICES ASSUME PagesInv, PmmInit PROVE PagesInv'
  OBVIOUS
<1> USE DEF PmmInit, boot, paging, takers
<1>0. region \in Regions /\ Types /\ Untaken /\ Mapping /\ WindowMapped /\ ForUser
  BY DEF PagesInv, Types
<1>1. Pages' = Pages /\ InWindow' = InWindow /\ Reserved' = Reserved
  BY DEF Pages, InWindow, Reserved
<1>2. Types' /\ Lowest'
  BY <1>0, <1>1, ReservedInRegion DEF Types, Lowest
<1>3. Untaken'
  BY <1>0 DEF Untaken
<1>4. KeptApart'
  <2>1. /\ heap' = <<>> /\ driver' = {} /\ user' = <<>> /\ kstack' = Null
        /\ pml4' = Null /\ tables' = <<>> /\ used' = Reserved'
    BY <1>0, <1>1 DEF Untaken
  <2>2. Holdings' = <<Reserved', {}, {}, {}, {}, {}, {}>>
    BY <2>1 DEF Holdings, TablePages, Range
  <2>3. \A i \in DOMAIN Holdings' : Holdings'[i] = IF i = 1 THEN Reserved' ELSE {}
    BY <2>2
  <2>4. DOMAIN tables' = {}
    BY <2>1
  <2> QED BY <2>1, <2>3, <2>4 DEF KeptApart, Apart, DistinctTables
<1>5. Mapping'
  BY <1>0, <1>1 DEF Mapping
<1>6. WindowMapped' /\ HeapOnly' /\ FaultsOnlyBeyondWindow' /\ HeapInOnePiece'
  BY <1>0, <1>1 DEF WindowMapped, HeapOnly, FaultsOnlyBeyondWindow, HeapInOnePiece
<1>7. ForUser'
  BY <1>0 DEF ForUser, UserReaches
<1> QED BY <1>2, <1>3, <1>4, <1>5, <1>6, <1>7 DEF PagesInv

\* What boot maps to itself: the window, and nothing else of the region.
LEMMA BootPagesAre ==
  ASSUME region \in Regions
  PROVE  /\ BootPages \in Seq(Nat) /\ InWindow \subseteq Range(BootPages)
         /\ Range(BootPages) \cap Pages \subseteq InWindow
<1>1. /\ region \in Nat \ {0} /\ Window \in Nat \ {0} /\ Base \in Nat
      /\ Low \in 1 .. Base + Window
      /\ Others \subseteq Nat /\ IsFiniteSet(Others) /\ Others \cap Pages = {}
  BY PagesAssumption DEF Pages
<1> DEFINE n == Min({region, Window})
           low == From(0, Low)
           win == From(Base, n)
           oth == SetToSeq(Others)
<1>2. n \in Nat \ {0} /\ n \in {region, Window}
  <2>1. \E x \in {region, Window} : \A y \in {region, Window} : x <= y
    BY <1>1
  <2> QED BY <1>1, <2>1 DEF Min
<1>3. low \in Seq(Nat) /\ Len(low) = Low /\ \A i \in 1 .. Low : low[i] = i - 1
  BY <1>1 DEF From
<1>4. InWindow = Base .. Base + n - 1
  BY DEF InWindow
<1> HIDE DEF n
<1>5. win \in Seq(Nat) /\ Len(win) = n /\ \A i \in 1 .. n : win[i] = Base + i - 1
  BY <1>1, <1>2 DEF From
<1>6. oth \in Seq(Nat) /\ Len(oth) \in Nat /\ \A i \in 1 .. Len(oth) : oth[i] \in Others
  <2> DEFINE c == Cardinality(Others)
  <2>1. c \in Nat /\ oth \in [1 .. c -> Others]
    BY <1>1, Listed
  <2> HIDE DEF c, oth
  <2>2. oth \in [1 .. c -> Nat] /\ \A i \in 1 .. c : oth[i] \in Others
    BY <1>1, <2>1
  <2>3. oth \in Seq(Nat) /\ Len(oth) = c
    BY <2>1, <2>2
  <2> QED BY <2>1, <2>2, <2>3
<1>7. BootPages = low \o win \o oth
  BY DEF BootPages, n
<1> HIDE DEF low, win, oth
<1>8. /\ BootPages \in Seq(Nat) /\ Len(BootPages) = Low + n + Len(oth)
      /\ \A i \in 1 .. Low : BootPages[i] = i - 1
      /\ \A i \in 1 .. n : BootPages[Low + i] = Base + i - 1
      /\ \A i \in 1 .. Len(oth) : BootPages[Low + n + i] = oth[i]
  <2> DEFINE lw == low \o win
  <2>1. /\ lw \in Seq(Nat) /\ Len(lw) = Low + n
        /\ \A i \in 1 .. Low + n : lw[i] = IF i <= Low THEN low[i] ELSE win[i - Low]
    BY <1>3, <1>5, ConcatProperties
  <2>2. \A i \in 1 .. Low : lw[i] = i - 1
    BY <1>1, <1>2, <1>3, <2>1
  <2>3. \A i \in 1 .. n : lw[Low + i] = Base + i - 1
    <3> HIDE DEF lw
    <3>1. \A i \in 1 .. n : Low + i \in Low + 1 .. Low + n /\ Low + i - Low = i
      BY <1>1, <1>2
    <3>2. \A j \in Low + 1 .. Low + n : lw[j] = win[j - Low]
      BY <1>1, <1>2, <2>1
    <3>3. ASSUME NEW i \in 1 .. n PROVE lw[Low + i] = win[i]
      <4>1. Low + i \in Low + 1 .. Low + n /\ (Low + i) - Low = i
        BY <1>1, <1>2
      <4>2. lw[Low + i] = win[(Low + i) - Low]
        BY <3>2, <4>1
      <4> QED BY <4>1, <4>2
    <3> QED BY <1>5, <3>3
  <2>4. BootPages = lw \o oth
    BY <1>7
  <2> HIDE DEF lw
  <2>5. /\ BootPages \in Seq(Nat) /\ Len(BootPages) = Low + n + Len(oth)
        /\ \A i \in 1 .. Low + n + Len(oth) :
             BootPages[i] = IF i <= Low + n THEN lw[i] ELSE oth[i - (Low + n)]
    BY <1>6, <2>1, <2>4, ConcatProperties
  <2>6. \A i \in 1 .. Low + n : BootPages[i] = lw[i]
    BY <1>1, <1>2, <1>6, <2>5
  <2>7. \A i \in 1 .. Len(oth) : BootPages[Low + n + i] = oth[i]
    BY <1>1, <1>2, <1>6, <2>5
  <2>8. \A i \in 1 .. n : Low + i \in 1 .. Low + n
    BY <1>1, <1>2
  <2>9. \A i \in 1 .. Low : i \in 1 .. Low + n
    BY <1>1, <1>2
  <2> QED BY <2>2, <2>3, <2>5, <2>6, <2>7, <2>8, <2>9
<1>9. ASSUME NEW w \in InWindow PROVE w \in Range(BootPages)
  <2>1. w - Base + 1 \in 1 .. n
    BY <1>1, <1>2, <1>4
  <2>2. BootPages[Low + (w - Base + 1)] = Base + (w - Base + 1) - 1
    BY <1>8, <2>1
  <2>4. Low + (w - Base + 1) \in DOMAIN BootPages
    <3>1. DOMAIN BootPages = 1 .. Low + n + Len(oth)
      BY <1>8
    <3>2. Low \in Nat /\ n \in Nat /\ Len(oth) \in Nat
      BY <1>1, <1>2, <1>6
    <3> QED BY <2>1, <3>1, <3>2
  <2>3. Base + (w - Base + 1) - 1 = w
    BY <1>1, <1>2, <1>4
  <2> QED BY <2>2, <2>3, <2>4 DEF Range
<1>10. ASSUME NEW i \in DOMAIN BootPages, BootPages[i] \in Pages
       PROVE  BootPages[i] \in InWindow
  <2>1. i \in 1 .. Low + n + Len(oth)
    BY <1>1, <1>2, <1>6, <1>8
  <2>2. CASE i \in 1 .. Low
    <3>1. BootPages[i] \in Base .. Base + region - 1 /\ BootPages[i] < Base + Window
      BY <1>1, <1>8, <1>10, <2>2 DEF Pages
    <3> QED BY <1>1, <1>2, <1>4, <3>1
  <2>3. CASE i \in Low + 1 .. Low + n
    <3>1. i - Low \in 1 .. n /\ i = Low + (i - Low)
      BY <1>1, <1>2, <2>3
    <3>2. BootPages[i] = Base + (i - Low) - 1
      BY <1>8, <3>1
    <3> QED BY <1>1, <1>2, <1>4, <3>1, <3>2
  <2>4. CASE i \in Low + n + 1 .. Low + n + Len(oth)
    <3>1. i - Low - n \in 1 .. Len(oth) /\ i = Low + n + (i - Low - n)
      BY <1>1, <1>2, <1>6, <2>4
    <3>2. BootPages[i] \in Others
      BY <1>6, <1>8, <3>1
    <3> QED BY <1>1, <1>10, <3>2
  <2> QED BY <1>1, <1>2, <1>6, <2>1, <2>2, <2>3, <2>4
<1> QED BY <1>8, <1>9, <1>10 DEF Range

LEMMA VmmInitKeeps == PagesInv /\ VmmInit => PagesInv'
<1> SUFFICES ASSUME PagesInv, VmmInit PROVE PagesInv'
  OBVIOUS
<1> DEFINE root == Allocate(1, {})
<1>0. region \in Regions /\ Types /\ Lowest /\ Untaken /\ Mapping /\ WindowMapped /\ ForUser
  BY DEF PagesInv, Types
<1>1. Pages' = Pages /\ InWindow' = InWindow /\ Reserved' = Reserved
  BY DEF VmmInit, Pages, InWindow, Reserved
<1>2. /\ pc = "vmm" /\ UNCHANGED <<region, active, takers>>
      /\ UNCHANGED <<tables, forUser, leaf>>
      /\ \/ root = {} /\ pc' = "astray" /\ UNCHANGED <<pml4, used, todo>>
         \/ /\ root # {} /\ pc' \in {"map", "overlap"} /\ pml4' = Min(root)
            /\ used' = used \cup root
            /\ todo' = BootPages
  BY DEF VmmInit, Stop, paging
<1>3. root = {} \/ (root = {Min(root)} /\ Min(root) \in Pages \ used)
  BY <1>0, AllocateOne DEF Free
<1>4. pml4 = Null /\ tables = <<>> /\ leaf = <<>>
  BY <1>0, <1>2 DEF Untaken
<1>5. CASE root = {}
  <2>1. pc' = "astray" /\ UNCHANGED <<region, used, active, todo, paging, takers>>
    BY <1>2, <1>3, <1>5 DEF paging
  <2> USE DEF paging, takers
  <2>2. Types' /\ Lowest' /\ KeptApart' /\ Untaken'
    <3>1. Holdings' = Holdings /\ DistinctTables' = DistinctTables
      BY <1>1, <2>1 DEF Holdings, TablePages, Range, DistinctTables
    <3>2. KeptApart'
      BY <1>2, <2>1, <3>1 DEF PagesInv, KeptApart, Apart, DistinctTables
    <3> QED BY <1>0, <1>1, <2>1, <3>2 DEF PagesInv, Types, Lowest, Untaken
  <2>3. Mapping' /\ WindowMapped'
    BY <1>0, <1>1, <1>4, <2>1 DEF Mapping, WindowMapped
  <2>4. HeapOnly' /\ ForUser' /\ FaultsOnlyBeyondWindow' /\ HeapInOnePiece'
    BY <1>0, <1>4, <2>1 DEF HeapOnly, ForUser, FaultsOnlyBeyondWindow, HeapInOnePiece
  <2> QED BY <2>2, <2>3, <2>4 DEF PagesInv
<1>6. CASE root # {}
  <2>1. /\ pc' \in {"map", "overlap"}
        /\ pml4' = Min(root) /\ used' = used \cup root /\ todo' = BootPages
        /\ root = {Min(root)} /\ Min(root) \in Pages \ used
    BY <1>2, <1>3, <1>6
  <2>2. /\ used' \subseteq Pages
        /\ \A p \in used', q \in Pages : q < p => q \in used'
        /\ root \cap used = {}
    <3> DEFINE u == used \cup root \cup {}
    <3>1. Closed(root)
      BY <1>0, AllocateClosed
    <3>3. used' = u
      BY <2>1
    <3> HIDE DEF root
    <3>2. /\ u \subseteq Pages
          /\ \A a \in u, q \in Pages : q < a => q \in u
          /\ (root \cup {}) \cap used = {}
      BY <1>0, <3>1, StillLowest
    <3> HIDE DEF u
    <3> QED BY <3>2, <3>3
  <2> HIDE DEF root
  <2>3. Types' /\ Lowest'
    BY <1>0, <1>1, <1>2, <2>1, <2>2, BootPagesAre DEF Types, Lowest
  <2>4. KeptApart'
    <3>1. \A j \in (1 .. 7) \ {2, 3} : Holdings'[j] = Holdings[j]
      BY <1>1, <1>2, SMTT(30) DEF Holdings, Range, takers
    <3>2. Holdings'[2] \subseteq Holdings[2] \cup root
      BY <2>1 DEF Holdings
    <3>3. TablePages' = TablePages /\ DistinctTables' = DistinctTables
      BY <1>2 DEF TablePages, DistinctTables
    <3>4. DistinctTables
      BY <1>2 DEF PagesInv, KeptApart
    <3>5. used' = used \cup root \cup {} /\ root \cap {} = {} /\ (root \cup {}) \cap used = {}
      BY <2>1, <2>2
    <3>6. pc # "pmm" /\ DistinctTables' /\ TablePages' \subseteq TablePages \cup {}
          /\ 2 \in (1 .. 7) \ {3}
      BY <1>2, <3>3, <3>4
    <3> QED BY <3>1, <3>2, <3>5, <3>6, ApartKept
  <2>5. Untaken'
    BY <1>0, <1>2, <2>1 DEF Untaken, takers
  <2>6. Mapping'
    BY <1>2, <1>4 DEF Mapping
  <2>7. WindowMapped'
    BY <1>0, <1>1, <1>2, <1>4, <2>1, BootPagesAre DEF WindowMapped
  <2>8. HeapOnly' /\ FaultsOnlyBeyondWindow' /\ HeapInOnePiece'
    BY <2>1 DEF HeapOnly, FaultsOnlyBeyondWindow, HeapInOnePiece
  <2>9. ForUser'
    BY <1>0, <1>2, <1>4, <2>1 DEF ForUser, takers
  <2> QED BY <2>3, <2>4, <2>5, <2>6, <2>7, <2>8, <2>9 DEF PagesInv
<1> QED BY <1>5, <1>6

LEMMA MapNextKeeps == PagesInv /\ MapNext => PagesInv'
<1> SUFFICES ASSUME PagesInv, MapNext PROVE PagesInv'
  OBVIOUS
<1> DEFINE v == Head(todo)
<1>0. /\ region \in Regions /\ Types /\ Untaken /\ Mapping /\ WindowMapped /\ ForUser
  BY DEF PagesInv, Types
<1>1. Pages' = Pages /\ InWindow' = InWindow /\ Reserved' = Reserved
  BY DEF MapNext, Pages, InWindow, Reserved
<1>2. /\ pc = "map" /\ UNCHANGED <<region, active, takers>>
      /\ MapPage(v, v, FALSE, {}, "map")
      /\ todo # <<>> /\ todo' = Tail(todo)
  BY DEF MapNext
<1>3. /\ todo \in Seq(Nat) /\ todo' \in Seq(Nat)
      /\ Range(todo) \subseteq {v} \cup Range(todo') /\ Range(todo') \subseteq Range(todo)
      /\ v \in Range(todo)
  <2>1. todo \in Seq(Nat) /\ Len(todo) \in Nat \ {0} /\ v = todo[1]
    BY <1>0, <1>2 DEF Types
  <2>2. todo' \in Seq(Nat) /\ Len(todo') = Len(todo) - 1
        /\ \A i \in 1 .. Len(todo) - 1 : todo'[i] = todo[i + 1]
    BY <1>2, <2>1
  <2>3. ASSUME NEW i \in 2 .. Len(todo) PROVE todo[i] \in Range(todo')
    <3>1. i - 1 \in 1 .. Len(todo) - 1 /\ (i - 1) + 1 = i
      BY <2>1
    <3> QED BY <2>2, <3>1 DEF Range
  <2>4. \A i \in 1 .. Len(todo) - 1 : i + 1 \in 1 .. Len(todo)
    BY <2>1
  <2>5. Range(todo') \subseteq Range(todo)
    <3>1. ASSUME NEW i \in 1 .. Len(todo) - 1 PROVE todo'[i] \in Range(todo)
      <4>1. i + 1 \in DOMAIN todo
        BY <2>1, <2>4
      <4>2. todo'[i] = todo[i + 1]
        BY <2>2
      <4> QED BY <4>1, <4>2 DEF Range
    <3> QED BY <2>2, <3>1 DEF Range
  <2>6. Range(todo) \subseteq {v} \cup Range(todo')
    <3>1. \A i \in DOMAIN todo : i = 1 \/ i \in 2 .. Len(todo)
      BY <2>1
    <3> QED BY <2>1, <2>3, <3>1 DEF Range
  <2>7. v \in Range(todo)
    BY <2>1 DEF Range
  <2> QED BY <2>1, <2>2, <2>5, <2>6, <2>7
<1> HIDE DEF v
<1>4. PICK fresh : Maps(v, v, FALSE, {}, "map", fresh) /\ MapKept(v, {}, "map", fresh)
  <2>1. Closed({})
    BY <1>0, AllocateClosed
  <2>2. /\ region' = region /\ active' = active /\ pc \notin {"pmm", "vmm", "astray"}
        /\ "map" \notin {"pmm", "vmm", "astray", "fault", "scattered"}
        /\ v \in Pages => v = v
    BY <1>2
  <2> QED BY <1>2, <2>1, <2>2, MapPageKeeps
<1>5. MapKept(v, {}, "map", fresh)
  BY <1>4
<1> USE DEF MapKept
<1>6. Types'
  BY <1>0, <1>1, <1>2, <1>3, <1>5 DEF Types
<1>7. KeptApart'
  <2>4. UNCHANGED <<pml4, heap, driver, user, kstack>>
    BY <1>2, <1>5 DEF takers
  <2>1. \A j \in (1 .. 7) \ {1, 3} : Holdings'[j] = Holdings[j]
    BY <2>4, HoldersAre, Holders
  <2>5. pc # "pmm" /\ 1 \in (1 .. 7) \ {3}
    BY <1>2
  <2>2. Holdings'[1] \subseteq Holdings[1] \cup {}
    BY <1>1 DEF Holdings
  <2>3. used' = used \cup {} \cup fresh
    BY <1>4 DEF Maps
  <2> QED BY <1>5, <2>1, <2>2, <2>3, <2>5, ApartKept
<1>8. Untaken'
  BY <1>0, <1>2, <1>5 DEF Untaken, takers
<1>9. WindowMapped'
  <2>1. pc' = "map" => DOMAIN leaf' = DOMAIN leaf \cup {v}
    BY <1>4 DEF Maps
  <2>2. used \subseteq used'
    BY <1>4 DEF Maps
  <2> QED BY <1>0, <1>1, <1>2, <1>3, <1>5, <2>1, <2>2 DEF WindowMapped
<1>10. HeapOnly'
  BY <1>5 DEF HeapOnly
<1>11. ForUser'
  <2>1. user' = user /\ user = <<>>
    BY <1>0, <1>2 DEF ForUser, takers
  <2>2. \A w \in DOMAIN leaf' : leaf'[w].user => w \in UserVas /\ leaf'[w].page \in Range(user)
    BY <1>4, <2>1, ForUserKept
  <2> QED BY <1>5, <2>1, <2>2 DEF ForUser
<1> QED BY <1>5, <1>6, <1>7, <1>8, <1>9, <1>10, <1>11 DEF PagesInv

LEMMA ActivateKeeps == PagesInv /\ Activate => PagesInv'
<1> SUFFICES ASSUME PagesInv, Activate PROVE PagesInv'
  OBVIOUS
<1> USE DEF boot, paging, takers
<1>0. /\ region \in Regions /\ Types /\ Lowest /\ KeptApart /\ Untaken /\ Mapping
      /\ WindowMapped /\ ForUser
  BY DEF PagesInv, Types
<1>1. Pages' = Pages /\ InWindow' = InWindow /\ Reserved' = Reserved
  BY DEF Activate, Pages, InWindow, Reserved
<1>2. /\ pc = "map" /\ pc' = "heap" /\ todo = <<>> /\ active' = TRUE
      /\ UNCHANGED <<boot, used, paging, takers>>
  BY DEF Activate
<1>3. active' \in BOOLEAN /\ active'
  BY <1>2, Zenon
<1>4. Types' /\ Lowest' /\ Untaken'
  BY <1>0, <1>1, <1>2, <1>3 DEF Types, Lowest, Untaken
<1>5. KeptApart'
  <2>1. Holdings' = Holdings
    BY <1>1, <1>2 DEF Holdings, TablePages
  <2> QED BY <1>0, <1>2, <2>1 DEF KeptApart, Apart, DistinctTables
<1>6. Mapping' /\ WindowMapped'
  BY <1>0, <1>1, <1>2 DEF Mapping, WindowMapped, Range
<1>7. HeapOnly'
  BY <1>0, <1>2, <1>3 DEF HeapOnly, Untaken, Range
<1>8. ForUser' /\ FaultsOnlyBeyondWindow' /\ HeapInOnePiece'
  BY <1>0, <1>2 DEF ForUser, FaultsOnlyBeyondWindow, HeapInOnePiece
<1> QED BY <1>4, <1>5, <1>6, <1>7, <1>8 DEF PagesInv

\* The heap's next page is the one behind the last, and it needs no table: a page
\* of the window has them, and beyond the window a table would lie in a page that
\* is not mapped, which is the end.
LEMMA GrowHeapKeeps == PagesInv /\ GrowHeap => PagesInv'
<1> SUFFICES ASSUME PagesInv, GrowHeap PROVE PagesInv'
  OBVIOUS
<1> DEFINE got == Allocate(1, {})
           p == Min(got)
<1>0. /\ region \in Regions /\ Types /\ Lowest /\ Untaken /\ Mapping /\ WindowMapped
      /\ HeapOnly /\ ForUser
  BY DEF PagesInv, Types
<1>1. Pages' = Pages /\ InWindow' = InWindow /\ Reserved' = Reserved
  BY DEF GrowHeap, Pages, InWindow, Reserved, boot
<1>2. /\ pc = "heap" /\ UNCHANGED <<boot, active, driver, user, kstack>>
      /\ \/ got = {} /\ Stop("noMemory", got) /\ UNCHANGED heap
         \/ /\ got # {} /\ heap # <<>> /\ p # heap[1] + Len(heap)
            /\ Stop("scattered", got) /\ UNCHANGED heap
         \/ got # {} /\ MapPage(p, p, FALSE, got, "heap") /\ heap' = Append(heap, p)
  BY DEF GrowHeap
<1>3. got # {} => got = {p} /\ p \in Pages \ used /\ \A q \in Pages \ used : p <= q
  <2>1. Free({}) = Pages \ used
    BY DEF Free
  <2> QED BY <1>0, <2>1, AllocateOne
<1>4. Closed(got)
  BY <1>0, AllocateClosed
<1>5. Pages \subseteq Nat /\ active /\ heap \in Seq(Pages)
  BY <1>0, <1>2, RegionFinite DEF HeapOnly
<1> HIDE DEF got
<1>6. got # {} /\ heap # <<>> => p = heap[1] + Len(heap)
  <2> SUFFICES ASSUME got # {}, heap # <<>> PROVE p = heap[1] + Len(heap)
    OBVIOUS
  <2> HIDE DEF p
  <2> DEFINE h == heap[1] + Len(heap)
  <2>1. heap[1] \in Pages /\ Len(heap) \in Nat \ {0}
    BY <1>5
  <2>2. \A q \in Pages : q \in used <=> q < h
    BY <1>0, <1>2 DEF HeapOnly
  <2>3. /\ Base \in Nat /\ region \in Nat \ {0} /\ Pages = Base .. Base + region - 1
    BY <1>0, PagesAssumption DEF Pages
  <2>4. h \in Nat /\ Base <= h
    BY <2>1, <2>3
  <2> HIDE DEF h
  <2>5. p \in Nat /\ p \in Pages /\ h <= p
    BY <1>3, <2>2, <2>3, <2>4
  <2>6. h \in Pages
    BY <2>3, <2>4, <2>5
  <2>7. h \notin used
    BY <2>2, <2>4, <2>6
  <2>8. p <= h
    BY <1>3, <2>6, <2>7
  <2>9. p = h
    BY <2>4, <2>5, <2>8
  <2> QED BY <2>9 DEF h
<1>7. CASE got = {} /\ Stop("noMemory", got) /\ UNCHANGED heap
  <2>1. UNCHANGED <<boot, used, paging, active, takers>> /\ pc' = "noMemory"
    BY <1>2, <1>7 DEF Stop, takers
  <2> QED BY <1>2, <2>1, StoppedKeeps
<1>8. CASE got # {} /\ MapPage(p, p, FALSE, got, "heap") /\ heap' = Append(heap, p)
  <2> HIDE DEF p
  <2>1. PICK fresh : Maps(p, p, FALSE, got, "heap", fresh) /\ MapKept(p, got, "heap", fresh)
    <3>1. /\ region' = region /\ active' = active /\ pc \notin {"pmm", "vmm", "astray"}
          /\ "heap" \notin {"pmm", "vmm", "astray", "fault", "scattered"}
          /\ p \in Pages => p = p
      BY <1>2 DEF boot
    <3> QED BY <1>4, <1>8, <3>1, MapPageKeeps
  <2>2. MapKept(p, got, "heap", fresh)
    BY <2>1
  <2> USE DEF MapKept
  <2>3. /\ used' = used \cup got \cup fresh /\ fresh \subseteq Free(got)
        /\ pc' = "heap" => /\ \A q \in fresh : Touched(q)
                           /\ Path(p) \subseteq DOMAIN tables => fresh = {}
                           /\ p \in DOMAIN leaf'
    BY <2>1 DEF Maps
  <2>4. pc' = "heap" => fresh = {}
    <3> SUFFICES ASSUME pc' = "heap", fresh # {} PROVE FALSE
      OBVIOUS
    <3>1. PICK a \in fresh : a \in Pages /\ a \notin used /\ a # p /\ Mapped(a)
      BY <1>3, <1>5, <1>8, <2>3 DEF Free, Touched
    <3>2. a \in InWindow
      BY <1>0, <1>2, <3>1 DEF WindowMapped, Mapped
    <3>3. p \notin InWindow
      BY <1>0, <1>5, <2>3 DEF WindowMapped, Mapping
    <3>4. a < p
      BY <1>0, <1>3, <1>8, <3>2, <3>3, WindowBelow
    <3>5. p <= a
      BY <1>3, <1>8, <3>1
    <3>6. a \in Nat /\ p \in Nat
      BY <1>3, <1>5, <1>8, <3>1
    <3> QED BY <3>4, <3>5, <3>6
  <2>5. /\ heap' \in Seq(Pages) /\ Len(heap') = Len(heap) + 1 /\ Range(heap') = Range(heap) \cup {p}
        /\ heap'[1] = IF heap = <<>> THEN p ELSE heap[1]
    <3>1. p \in Pages
      BY <1>3, <1>8
    <3>2. /\ heap' \in Seq(Pages) /\ Len(heap') = Len(heap) + 1 /\ Len(heap) \in Nat
          /\ \A i \in 1 .. Len(heap) : heap'[i] = heap[i]
          /\ heap'[Len(heap) + 1] = p
      BY <1>5, <1>8, <3>1
    <3>3. heap = <<>> => Len(heap) = 0
      OBVIOUS
    <3>4. heap # <<>> => 1 \in 1 .. Len(heap)
      BY <1>5
    <3>5. DOMAIN heap = 1 .. Len(heap) /\ DOMAIN heap' = 1 .. Len(heap) \cup {Len(heap) + 1}
      BY <1>5, <3>2
    <3>6. Range(heap') = Range(heap) \cup {p}
      BY <3>2, <3>5 DEF Range
    <3> QED BY <3>2, <3>3, <3>4, <3>6
  <2>6. Types'
    BY <1>0, <1>1, <1>2, <2>2 DEF Types, boot
  <2>7. KeptApart'
    <3>1. UNCHANGED <<pml4, driver, user, kstack>> /\ Reserved' = Reserved
      BY <1>1, <1>2, <2>2
    <3> HIDE DEF MapKept
    <3>4. Holdings'[4] \subseteq Holdings[4] \cup got
      BY <1>3, <1>8, <2>5 DEF Holdings
    <3>5. pc # "pmm" /\ 4 \in (1 .. 7) \ {3}
      BY <1>2
    <3>6. \A j \in (1 .. 7) \ {4, 3} : Holdings'[j] = Holdings[j]
      BY <3>1, HoldersAre, Holders
    <3> QED BY <2>2, <2>3, <3>4, <3>5, <3>6, ApartKept, ZenonT(30) DEF MapKept
  <2>8. Untaken'
    BY <1>2, <2>2 DEF Untaken
  <2>9. WindowMapped'
    <3>1. p \in used' /\ used \subseteq used'
      BY <1>3, <1>8, <2>3
    <3> QED BY <1>0, <1>1, <1>2, <2>2, <3>1 DEF WindowMapped
  <2>10. HeapOnly'
    <3> SUFFICES ASSUME pc' = "heap"
                 PROVE  /\ active' /\ heap' \in Seq(Pages') /\ Range(heap') \subseteq DOMAIN leaf'
                        /\ \A q \in Pages : q \in used' <=> q < heap'[1] + Len(heap')
      BY <1>1 DEF HeapOnly
    <3>1. used' = used \cup {p} /\ p \in Pages /\ p \notin used
      BY <1>3, <1>8, <2>3, <2>4
    <3>2. Range(heap') \subseteq DOMAIN leaf'
      BY <1>0, <1>2, <2>2, <2>3, <2>5 DEF HeapOnly
    <3>3. ASSUME NEW q \in Pages PROVE q \in used <=> q < p
      <4>1. q \in Nat /\ p \in Nat
        BY <1>5, <3>1
      <4>2. q \in used /\ p < q => p \in used
        BY <1>0, <3>1 DEF Lowest
      <4>3. q \notin used => p <= q
        BY <1>3, <1>8
      <4> QED BY <3>1, <4>1, <4>2, <4>3
    <3>4. heap'[1] + Len(heap') = p + 1
      <4>1. CASE heap = <<>>
        BY <2>5, <4>1
      <4>2. CASE heap # <<>>
        <5>1. heap[1] \in Pages /\ Len(heap) \in Nat
          BY <1>5, <4>2
        <5>2. heap[1] \in Nat
          BY <1>5, <5>1
        <5> QED BY <1>6, <1>8, <2>5, <4>2, <5>1, <5>2
      <4> QED BY <4>1, <4>2
    <3>5. \A q \in Pages : q \in used' <=> q < p + 1
      BY <1>5, <3>1, <3>3
    <3>6. active' = active
      BY <1>2
    <3> QED BY <1>1, <1>5, <2>5, <3>2, <3>4, <3>5, <3>6
  <2>11. ForUser'
    <3>1. user' = user /\ user = <<>>
      BY <1>0, <1>2 DEF ForUser
    <3>2. \A w \in DOMAIN leaf' : leaf'[w].user => w \in UserVas /\ leaf'[w].page \in Range(user)
      BY <2>1, <3>1, ForUserKept
    <3> QED BY <2>2, <3>1, <3>2 DEF ForUser
  <2> QED BY <2>2, <2>6, <2>7, <2>8, <2>9, <2>10, <2>11 DEF PagesInv
<1> QED BY <1>2, <1>6, <1>7, <1>8

LEMMA HeapReadyKeeps == PagesInv /\ HeapReady => PagesInv'
<1> SUFFICES ASSUME PagesInv, HeapReady PROVE PagesInv'
  OBVIOUS
<1> USE DEF boot, paging, takers
<1>0. /\ region \in Regions /\ Types /\ Lowest /\ KeptApart /\ Untaken /\ Mapping
      /\ WindowMapped /\ HeapOnly /\ ForUser
  BY DEF PagesInv, Types
<1>1. Pages' = Pages /\ InWindow' = InWindow /\ Reserved' = Reserved /\ UserReaches' = UserReaches
  BY DEF HeapReady, Pages, InWindow, Reserved, UserReaches, Path
<1>2. /\ pc = "heap" /\ pc' = "drivers"
      /\ UNCHANGED <<boot, used, paging, active, takers>>
  <2>1. heap \in Seq(Pages) /\ Len(heap) \in Nat \ {0}
    BY <1>0, PagesAssumption DEF HeapReady, HeapOnly
  <2>2. heap[1] \in Pages /\ heap[1] \in DOMAIN leaf
    BY <1>0, <2>1 DEF HeapReady, HeapOnly, Range
  <2>3. Touches({heap[1]})
    BY <1>0, <2>2 DEF Touches, Mapped, Mapping
  <2> QED BY <2>3 DEF HeapReady
<1>3. Types' /\ Lowest' /\ Untaken'
  BY <1>0, <1>1, <1>2 DEF Types, Lowest, Untaken
<1>4. KeptApart'
  <2>1. Holdings' = Holdings
    BY <1>1, <1>2 DEF Holdings, TablePages
  <2> QED BY <1>0, <1>2, <2>1 DEF KeptApart, Apart, DistinctTables
<1>5. Mapping' /\ WindowMapped' /\ HeapOnly'
  BY <1>0, <1>1, <1>2 DEF Mapping, WindowMapped, HeapOnly
<1>6. ForUser' /\ FaultsOnlyBeyondWindow' /\ HeapInOnePiece'
  BY <1>0, <1>1, <1>2 DEF ForUser, FaultsOnlyBeyondWindow, HeapInOnePiece
<1> QED BY <1>3, <1>4, <1>5, <1>6 DEF PagesInv

-----------------------------------------------------------------------------
(* The drivers and the ring-3 task. *)

LEMMA TakePageKeeps ==
  ASSUME PagesInv, NEW cleared, TakePage(cleared) PROVE PagesInv'
<1> DEFINE got == Allocate(1, {})
<1>0. /\ region \in Regions /\ Types /\ Lowest /\ Untaken /\ Mapping /\ WindowMapped /\ ForUser
  BY DEF PagesInv, Types
<1>1. /\ pc = "drivers" /\ UNCHANGED <<boot, active, heap, user, kstack, paging>>
      /\ used' = used \cup got /\ driver' \subseteq driver \cup got
      /\ \/ got = {} /\ pc' = "astray" /\ UNCHANGED driver
         \/ pc' = "fault" /\ active /\ \E q \in got : ~Mapped(q)
         \/ pc' = "drivers"
  BY DEF TakePage, Stop, Touches
<1>2. Closed(got)
  BY <1>0, AllocateClosed
<1> HIDE DEF got
<1>3. CASE got = {} /\ pc' = "astray" /\ UNCHANGED driver
  <2>1. UNCHANGED <<boot, used, paging, active, takers>>
    BY <1>1, <1>3 DEF takers
  <2> QED BY <1>1, <1>3, <2>1, StoppedKeeps
<1>4. CASE \/ pc' = "fault" /\ active /\ \E q \in got : ~Mapped(q)
           \/ pc' = "drivers"
  <2>1. /\ used' \subseteq Pages' /\ Lowest' /\ Mapping'
        /\ active' => InWindow' \subseteq DOMAIN leaf'
        /\ active /\ (\E q \in got : ~Mapped(q)) => InWindow' \subseteq used'
        /\ DistinctTables' = DistinctTables /\ TablePages' = TablePages
        /\ got \cap used = {}
    <3>1. UNCHANGED <<region, active, paging>> /\ used' = used \cup got
      BY <1>1 DEF boot
    <3> QED BY <1>2, <3>1, TakeKeeps
  <2>2. Types'
    BY <1>0, <1>1, <2>1 DEF Types, boot
  <2>3. KeptApart'
    <3>1. UNCHANGED <<pml4, region, heap, user, kstack>>
      BY <1>1 DEF boot, paging
    <3>2. Reserved' = Reserved
      BY <3>1 DEF Reserved
    <3>5. \A j \in (1 .. 7) \ {5, 3} : Holdings'[j] = Holdings[j]
      BY <3>1, <3>2, HoldersAre, Holders
    <3>6. Holdings'[5] \subseteq Holdings[5] \cup got
      BY <1>1 DEF Holdings
    <3>7. pc # "pmm" /\ 5 \in (1 .. 7) \ {3} /\ DistinctTables'
      BY <1>1, <2>1 DEF PagesInv, KeptApart
    <3>8. /\ used' = used \cup got \cup {} /\ got \cap {} = {} /\ (got \cup {}) \cap used = {}
          /\ TablePages' \subseteq TablePages \cup {}
      BY <1>1, <2>1
    <3> QED BY <3>5, <3>6, <3>7, <3>8, ApartKept
  <2>4. Untaken'
    BY <1>0, <1>1, <1>4 DEF Untaken, paging
  <2>5. WindowMapped' /\ HeapOnly'
    BY <1>4, <2>1 DEF WindowMapped, HeapOnly
  <2>6. ForUser'
    BY <1>0, <1>1, <1>4 DEF ForUser, paging
  <2>7. FaultsOnlyBeyondWindow' /\ HeapInOnePiece'
    BY <1>4, <2>1 DEF FaultsOnlyBeyondWindow, HeapInOnePiece
  <2> QED BY <2>1, <2>2, <2>3, <2>4, <2>5, <2>6, <2>7 DEF PagesInv
<1> QED BY <1>1, <1>3, <1>4

LEMMA MapDeviceKeeps ==
  ASSUME PagesInv, NEW v, MapDevice(v) PROVE PagesInv'
<1>0. /\ region \in Regions /\ Types /\ Lowest /\ Untaken /\ Mapping /\ WindowMapped /\ ForUser
  BY DEF PagesInv, Types
<1>1. /\ pc = "drivers" /\ UNCHANGED <<boot, active, takers>>
      /\ MapPage(v, v, FALSE, {}, "drivers")
  BY DEF MapDevice
<1>2. PICK fresh : /\ Maps(v, v, FALSE, {}, "drivers", fresh)
                   /\ MapKept(v, {}, "drivers", fresh)
  <2>1. Closed({})
    BY <1>0, AllocateClosed
  <2>2. /\ region' = region /\ active' = active /\ pc \notin {"pmm", "vmm", "astray"}
        /\ "drivers" \notin {"pmm", "vmm", "astray", "fault", "scattered"}
        /\ v \in Pages => v = v
    BY <1>1 DEF boot
  <2> QED BY <1>1, <2>1, <2>2, MapPageKeeps
<1>3. /\ used' = used \cup {} \cup fresh
      /\ MapKept(v, {}, "drivers", fresh)
  BY <1>2 DEF Maps
<1>4. Types'
  BY <1>0, <1>1, <1>3 DEF Types, boot, MapKept
<1>5. KeptApart'
  <2>1. UNCHANGED <<pml4, heap, driver, user, kstack>>
    BY <1>1, <1>3 DEF takers, MapKept
  <2>4. \A j \in (1 .. 7) \ {1, 3} : Holdings'[j] = Holdings[j]
    BY <2>1, HoldersAre, Holders
  <2>5. Holdings'[1] \subseteq Holdings[1] \cup {}
    BY <1>1 DEF Holdings, Reserved, boot
  <2>6. pc # "pmm" /\ 1 \in (1 .. 7) \ {3}
    BY <1>1
  <2> QED BY <1>3, <2>4, <2>5, <2>6, ApartKept DEF MapKept
<1>6. Untaken'
  BY <1>3 DEF Untaken, MapKept
<1>7. WindowMapped' /\ HeapOnly'
  BY <1>3 DEF WindowMapped, HeapOnly, MapKept
<1>8. ForUser'
  <2>1. user' = user /\ user = <<>>
    BY <1>0, <1>1 DEF ForUser, takers
  <2>2. \A w \in DOMAIN leaf' : leaf'[w].user => w \in UserVas /\ leaf'[w].page \in Range(user)
    BY <1>2, <2>1, ForUserKept
  <2> QED BY <1>3, <2>1, <2>2 DEF ForUser, MapKept
<1> QED BY <1>3, <1>4, <1>5, <1>6, <1>7, <1>8 DEF PagesInv, MapKept

LEMMA LaunchKeeps == PagesInv /\ Launch => PagesInv'
<1> SUFFICES ASSUME PagesInv, Launch PROVE PagesInv'
  OBVIOUS
<1> DEFINE got == Allocate(3, {})
<1>0. /\ region \in Regions /\ Types /\ Lowest /\ Untaken /\ Mapping /\ WindowMapped /\ ForUser
  BY DEF PagesInv, Types
<1>1. /\ pc = "drivers" /\ UNCHANGED <<boot, active, heap, driver, kstack, paging>>
      /\ used' = used \cup got
      /\ \/ pc' = "over" /\ UNCHANGED user
         \/ /\ Cardinality(got) >= 3 /\ pc' = "map code"
            /\ user' = <<Min(got), Min(got \ {Min(got)}), Max(got)>>
  <2>1. IsFiniteSet(got)
    BY <1>0, AllocateIs
  <2>2. Cardinality(got) \in Nat
    BY <2>1, FS_CardinalityType
  <2> HIDE DEF got
  <2>3. ~(Cardinality(got) < 3) => Cardinality(got) >= 3
    BY <2>2
  <2> QED BY <2>3 DEF Launch, got
<1>2. Closed(got) /\ got \in SUBSET Nat /\ IsFiniteSet(got)
  BY <1>0, AllocateClosed, AllocateIs
<1> HIDE DEF got
<1>3. Range(user') \subseteq Range(user) \cup got /\ (pc' = "map code" => DOMAIN user' = 1 .. 3)
  <2>1. CASE pc' = "over" /\ UNCHANGED user
    BY <2>1 DEF Range
  <2>2. CASE /\ Cardinality(got) >= 3 /\ pc' = "map code"
             /\ user' = <<Min(got), Min(got \ {Min(got)}), Max(got)>>
    <3> DEFINE rest == got \ {Min(got)}
    <3>1. got # {}
      <4>1. got = {} => Cardinality(got) = 0
        BY FS_EmptySet
      <4>2. ~(0 >= 3)
        OBVIOUS
      <4>3. Cardinality(got) >= 3
        BY <2>2
      <4> QED BY <4>1, <4>2, <4>3
    <3>2. Min(got) \in got /\ Max(got) \in got
      BY <1>2, <3>1, Ends
    <3>3. IsFiniteSet(rest) /\ Cardinality(rest) = Cardinality(got) - 1
      BY <1>2, <3>2, FS_RemoveElement
    <3>4. rest # {}
      <4>1. Cardinality(got) \in Nat
        BY <1>2, FS_CardinalityType
      <4>2. rest = {} => Cardinality(rest) = 0
        BY FS_EmptySet
      <4> HIDE DEF rest
      <4>3. Cardinality(rest) >= 2
        <5>1. Cardinality(got) >= 3
          BY <2>2
        <5> QED BY <3>3, <4>1, <5>1
      <4>4. ~(0 >= 2)
        OBVIOUS
      <4> QED BY <4>2, <4>3, <4>4
    <3>5. Min(rest) \in rest
      <4>1. rest \in SUBSET Nat
        BY <1>2
      <4> HIDE DEF rest
      <4> QED BY <3>3, <3>4, <4>1, Ends
    <3>6. user' = <<Min(got), Min(rest), Max(got)>>
      BY <2>2
    <3>7. Min(rest) \in got
      BY <3>5
    <3> HIDE DEF rest
    <3>8. DOMAIN user' = 1 .. 3 /\ \A i \in 1 .. 3 : user'[i] \in got
      BY <3>2, <3>6, <3>7
    <3> QED BY <3>8 DEF Range
  <2> QED BY <1>1, <2>1, <2>2
<1>4. /\ used' \subseteq Pages' /\ Lowest' /\ Mapping'
      /\ active' => InWindow' \subseteq DOMAIN leaf'
      /\ DistinctTables' = DistinctTables /\ TablePages' = TablePages
      /\ got \cap used = {}
  <2>1. UNCHANGED <<region, active, paging>> /\ used' = used \cup got
    BY <1>1 DEF boot
  <2> QED BY <1>2, <2>1, TakeKeeps
<1>5. Types'
  BY <1>0, <1>1, <1>4 DEF Types, boot
<1>6. KeptApart'
  <2>1. UNCHANGED <<pml4, region, heap, driver, kstack>>
    BY <1>1 DEF boot, paging
  <2>2. Reserved' = Reserved
    BY <2>1 DEF Reserved
  <2>5. \A j \in (1 .. 7) \ {6, 3} : Holdings'[j] = Holdings[j]
    BY <2>1, <2>2, HoldersAre, Holders
  <2>6. Holdings'[6] \subseteq Holdings[6] \cup got
    BY <1>3 DEF Holdings
  <2>7. pc # "pmm" /\ 6 \in (1 .. 7) \ {3} /\ DistinctTables'
    <3>1. pc # "pmm"
      BY <1>1
    <3>2. DistinctTables
      BY <3>1 DEF PagesInv, KeptApart
    <3> QED BY <1>4, <3>1, <3>2
  <2>8. /\ used' = used \cup got \cup {} /\ got \cap {} = {} /\ (got \cup {}) \cap used = {}
        /\ TablePages' \subseteq TablePages \cup {}
    BY <1>1, <1>4
  <2> QED BY <2>5, <2>6, <2>7, <2>8, ApartKept
<1>7. Untaken'
  BY <1>0, <1>1 DEF Untaken, paging
<1>8. WindowMapped' /\ HeapOnly'
  BY <1>1, <1>4 DEF WindowMapped, HeapOnly
<1>9. ForUser'
  <2>1. user = <<>>
    BY <1>0, <1>1 DEF ForUser
  <2>2. \A w \in DOMAIN leaf' : ~leaf'[w].user
    <3>1. Range(user) = {} /\ leaf' = leaf
      <4>1. DOMAIN user = {}
        BY <2>1
      <4> QED BY <1>1, <4>1 DEF paging, Range
    <3>2. \A w \in DOMAIN leaf : leaf[w].user => leaf[w].page \in Range(user)
      BY <1>0 DEF ForUser
    <3> QED BY <3>1, <3>2
  <2> QED BY <1>1, <1>3, <2>2 DEF ForUser
<1>10. FaultsOnlyBeyondWindow' /\ HeapInOnePiece'
  BY <1>1 DEF FaultsOnlyBeyondWindow, HeapInOnePiece
<1> QED BY <1>4, <1>5, <1>6, <1>7, <1>8, <1>9, <1>10 DEF PagesInv

\* A page of the task, mapped where ring 3 expects it.
LEMMA UserMapKeeps ==
  ASSUME PagesInv, NEW v \in UserVas, NEW p \in Range(user), NEW next,
         MapPage(v, p, TRUE, {}, next), UNCHANGED <<boot, active, takers>>,
         pc \in {"map code", "map data", "map stack"},
         next \in {"map data", "map stack", "map rsp0"}
  PROVE  /\ Types' /\ Lowest' /\ KeptApart' /\ Untaken' /\ Mapping' /\ WindowMapped' /\ HeapOnly'
         /\ FaultsOnlyBeyondWindow' /\ HeapInOnePiece'
         /\ \A w \in DOMAIN leaf' : leaf'[w].user => w \in UserVas /\ leaf'[w].page \in Range(user')
         /\ \A w \in UserReaches : w # v => w \in UserReaches'
         /\ pc' \in {"astray", "fault"} \/ (pc' = next /\ v \in UserReaches')
<1>0. /\ region \in Regions /\ Types /\ Lowest /\ Untaken /\ Mapping /\ WindowMapped /\ ForUser
  BY DEF PagesInv, Types
<1>1. PICK fresh : /\ Maps(v, p, TRUE, {}, next, fresh)
                   /\ MapKept(v, {}, next, fresh)
  <2>1. Closed({})
    BY <1>0, AllocateClosed
  <2>2. /\ region' = region /\ active' = active /\ pc \notin {"pmm", "vmm", "astray"}
        /\ next \notin {"pmm", "vmm", "astray", "fault", "scattered"}
    BY DEF boot
  <2>3. v \in Pages => p = v
    BY <1>0, PagesAssumption DEF Pages
  <2> QED BY <2>1, <2>2, <2>3, MapPageKeeps
<1>2. /\ used' = used \cup {} \cup fresh
      /\ MapKept(v, {}, next, fresh)
  BY <1>1 DEF Maps
<1>3. Types'
  BY <1>0, <1>2 DEF Types, boot, MapKept
<1>4. KeptApart'
  <2>1. UNCHANGED <<pml4, heap, driver, user, kstack>>
    BY <1>2 DEF takers, MapKept
  <2>4. \A j \in (1 .. 7) \ {1, 3} : Holdings'[j] = Holdings[j]
    BY <2>1, HoldersAre, Holders
  <2>5. Holdings'[1] \subseteq Holdings[1] \cup {}
    BY HoldersAre DEF Reserved, boot
  <2>6. pc # "pmm" /\ 1 \in (1 .. 7) \ {3}
    BY Holders
  <2> QED BY <1>2, <2>4, <2>5, <2>6, ApartKept DEF MapKept
<1>5. Untaken'
  BY <1>2 DEF Untaken, MapKept
<1>6. WindowMapped' /\ HeapOnly'
  BY <1>2 DEF WindowMapped, HeapOnly, MapKept
<1>7. user' = user
  BY DEF takers
<1>8. /\ \A w \in DOMAIN leaf' : leaf'[w].user => w \in UserVas /\ leaf'[w].page \in Range(user)
      /\ \A w \in UserReaches : w # v => w \in UserReaches'
      /\ pc' \notin {"astray", "fault"} => v \in UserReaches'
  <2>1. TRUE \in BOOLEAN
    BY Zenon
  <2> QED BY <1>1, <1>7, <2>1, ForUserKept
<1>9. pc' \in {"astray", "fault", next}
  BY <1>2 DEF MapKept
<1> QED BY <1>2, <1>3, <1>4, <1>5, <1>6, <1>7, <1>8, <1>9 DEF MapKept

LEMMA LaunchMapKeeps == PagesInv /\ LaunchMap => PagesInv'
<1> SUFFICES ASSUME PagesInv, LaunchMap PROVE PagesInv'
  OBVIOUS
<1>0. ForUser /\ user' = user /\ UNCHANGED <<boot, active, takers>>
  BY DEF PagesInv, LaunchMap, takers
<1>1. UserVa \in Nat /\ UserVa \in UserVas /\ UserVa + 1 \in UserVas /\ UserVa + 2 \in UserVas
  BY PagesAssumption DEF UserVas
<1>2. pc \in {"map code", "map data", "map stack"} =>
        user[1] \in Range(user) /\ user[2] \in Range(user) /\ user[3] \in Range(user)
  <2>1. 1 \in 1 .. 3 /\ 2 \in 1 .. 3 /\ 3 \in 1 .. 3
    OBVIOUS
  <2> QED BY <1>0, <2>1 DEF ForUser, Range
<1>n. UserVa # UserVa + 1 /\ UserVa # UserVa + 2 /\ UserVa + 1 # UserVa + 2
  BY <1>1
<1>3. CASE pc = "map code" /\ MapPage(UserVa, user[1], TRUE, {}, "map data")
  <2>1. user[1] \in Range(user) /\ pc \in {"map code", "map data", "map stack"}
        /\ "map data" \in {"map data", "map stack", "map rsp0"}
    BY <1>2, <1>3
  <2>2. /\ Types' /\ Lowest' /\ KeptApart' /\ Untaken' /\ Mapping' /\ WindowMapped' /\ HeapOnly'
        /\ FaultsOnlyBeyondWindow' /\ HeapInOnePiece'
        /\ \A w \in DOMAIN leaf' : leaf'[w].user => w \in UserVas /\ leaf'[w].page \in Range(user')
        /\ pc' \in {"astray", "fault"} \/ (pc' = "map data" /\ UserVa \in UserReaches')
    BY <1>0, <1>1, <1>3, <2>1, UserMapKeeps
  <2>3. ForUser'
    BY <1>0, <1>3, <2>2 DEF ForUser
  <2> QED BY <2>2, <2>3 DEF PagesInv
<1>4. CASE pc = "map data" /\ MapPage(UserVa + 1, user[2], TRUE, {}, "map stack")
  <2>1. user[2] \in Range(user) /\ pc \in {"map code", "map data", "map stack"}
        /\ "map stack" \in {"map data", "map stack", "map rsp0"}
    BY <1>2, <1>4
  <2>2. /\ Types' /\ Lowest' /\ KeptApart' /\ Untaken' /\ Mapping' /\ WindowMapped' /\ HeapOnly'
        /\ FaultsOnlyBeyondWindow' /\ HeapInOnePiece'
        /\ \A w \in DOMAIN leaf' : leaf'[w].user => w \in UserVas /\ leaf'[w].page \in Range(user')
        /\ \A w \in UserReaches : w # UserVa + 1 => w \in UserReaches'
        /\ pc' \in {"astray", "fault"} \/ (pc' = "map stack" /\ UserVa + 1 \in UserReaches')
    BY <1>0, <1>1, <1>4, <2>1, UserMapKeeps
  <2>3. UserVa \in UserReaches'
    BY <1>0, <1>n, <1>4, <2>2 DEF ForUser
  <2>4. ForUser'
    BY <1>0, <1>4, <2>2, <2>3 DEF ForUser
  <2> QED BY <2>2, <2>4 DEF PagesInv
<1>5. CASE pc = "map stack" /\ MapPage(UserVa + 2, user[3], TRUE, {}, "map rsp0")
  <2>1. user[3] \in Range(user) /\ pc \in {"map code", "map data", "map stack"}
        /\ "map rsp0" \in {"map data", "map stack", "map rsp0"}
    BY <1>2, <1>5
  <2>2. /\ Types' /\ Lowest' /\ KeptApart' /\ Untaken' /\ Mapping' /\ WindowMapped' /\ HeapOnly'
        /\ FaultsOnlyBeyondWindow' /\ HeapInOnePiece'
        /\ \A w \in DOMAIN leaf' : leaf'[w].user => w \in UserVas /\ leaf'[w].page \in Range(user')
        /\ \A w \in UserReaches : w # UserVa + 2 => w \in UserReaches'
        /\ pc' \in {"astray", "fault"} \/ (pc' = "map rsp0" /\ UserVa + 2 \in UserReaches')
    BY <1>0, <1>1, <1>5, <2>1, UserMapKeeps
  <2>3. UserVa \in UserReaches' /\ UserVa + 1 \in UserReaches'
    BY <1>0, <1>n, <1>5, <2>2 DEF ForUser
  <2>4. ForUser'
    BY <1>0, <1>5, <2>2, <2>3 DEF ForUser
  <2> QED BY <2>2, <2>4 DEF PagesInv
<1> QED BY <1>3, <1>4, <1>5 DEF LaunchMap

LEMMA LaunchStackKeeps == PagesInv /\ LaunchStack => PagesInv'
<1> SUFFICES ASSUME PagesInv, LaunchStack PROVE PagesInv'
  OBVIOUS
<1> DEFINE got == Allocate(1, {})
           p == Min(got)
<1>0. /\ region \in Regions /\ Types /\ Lowest /\ Untaken /\ Mapping /\ WindowMapped /\ ForUser
  BY DEF PagesInv, Types
<1>1. /\ pc = "map rsp0" /\ UNCHANGED <<boot, active, heap, driver, user>>
      /\ \/ got = {} /\ Stop("over", got) /\ UNCHANGED kstack
         \/ got # {} /\ MapPage(p, p, FALSE, got, "ring3") /\ kstack' = p
  BY DEF LaunchStack
<1>2. Closed(got) /\ (got # {} => got = {p} /\ p \in Pages \ used)
  <2>1. Free({}) = Pages \ used
    BY DEF Free
  <2> QED BY <1>0, <2>1, AllocateOne, AllocateClosed
<1> HIDE DEF got
<1>3. CASE got = {} /\ Stop("over", got) /\ UNCHANGED kstack
  <2>1. UNCHANGED <<boot, used, paging, active, takers>> /\ pc' = "over"
    BY <1>1, <1>3 DEF Stop, takers
  <2> QED BY <1>1, <2>1, StoppedKeeps
<1>4. CASE got # {} /\ MapPage(p, p, FALSE, got, "ring3") /\ kstack' = p
  <2> HIDE DEF p
  <2>1. PICK fresh : /\ Maps(p, p, FALSE, got, "ring3", fresh)
                     /\ MapKept(p, got, "ring3", fresh)
    <3>1. /\ region' = region /\ active' = active /\ pc \notin {"pmm", "vmm", "astray"}
          /\ "ring3" \notin {"pmm", "vmm", "astray", "fault", "scattered"}
          /\ p \in Pages => p = p
      BY <1>1 DEF boot
    <3> QED BY <1>2, <1>4, <3>1, MapPageKeeps
  <2>2. /\ used' = used \cup got \cup fresh
        /\ MapKept(p, got, "ring3", fresh)
    BY <2>1 DEF Maps
  <2>3. Types'
    BY <1>0, <1>1, <2>2 DEF Types, boot, MapKept
  <2>4. KeptApart'
    <3>1. UNCHANGED <<pml4, region, heap, driver, user>>
      BY <1>1, <2>2 DEF boot, MapKept
    <3>2. Reserved' = Reserved
      BY <3>1 DEF Reserved
    <3>5. \A j \in (1 .. 7) \ {7, 3} : Holdings'[j] = Holdings[j]
      BY <3>1, <3>2, HoldersAre, Holders
    <3>6. Holdings'[7] \subseteq Holdings[7] \cup got
      BY <1>2, <1>4 DEF Holdings
    <3>7. pc # "pmm" /\ 7 \in (1 .. 7) \ {3}
      BY <1>1, Holders
    <3>8. /\ used' = used \cup got \cup fresh /\ got \cap fresh = {}
          /\ (got \cup fresh) \cap used = {} /\ DistinctTables'
          /\ TablePages' \subseteq TablePages \cup fresh
      BY <2>2 DEF MapKept
    <3> QED BY <3>5, <3>6, <3>7, <3>8, ApartKept, ZenonT(30)
  <2>5. Untaken'
    BY <2>2 DEF Untaken, MapKept
  <2>6. WindowMapped' /\ HeapOnly'
    BY <2>2 DEF WindowMapped, HeapOnly, MapKept
  <2>7. p \notin UserVas
    BY <1>0, <1>2, <1>4, PagesAssumption DEF Pages
  <2>8. user' = user /\ FALSE \in BOOLEAN
    BY <1>1, Zenon
  <2>9. /\ \A w \in DOMAIN leaf' : leaf'[w].user => w \in UserVas /\ leaf'[w].page \in Range(user)
        /\ \A w \in UserReaches : w # p => w \in UserReaches'
    BY <2>1, <2>8, ForUserKept
  <2>10. UserVa \in UserReaches' /\ UserVa + 1 \in UserReaches' /\ UserVa + 2 \in UserReaches'
    <3>1. UserVa \in UserVas /\ UserVa + 1 \in UserVas /\ UserVa + 2 \in UserVas
      BY PagesAssumption DEF UserVas
    <3>2. UserVa \in UserReaches /\ UserVa + 1 \in UserReaches /\ UserVa + 2 \in UserReaches
      BY <1>0, <1>1 DEF ForUser
    <3> QED BY <2>7, <2>9, <3>1, <3>2
  <2>11. ForUser'
    BY <2>2, <2>8, <2>9, <2>10 DEF ForUser, MapKept
  <2> QED BY <2>2, <2>3, <2>4, <2>5, <2>6, <2>11 DEF PagesInv, MapKept
<1> QED BY <1>1, <1>3, <1>4

\* Ring 3 reaches its own pages and no others.
LEMMA ReachesItsOwn == PagesInv => RingThreeSees
<1> SUFFICES ASSUME PagesInv PROVE RingThreeSees
  OBVIOUS
<1>1. ForUser
  BY DEF PagesInv
<1>2. UserVas = {UserVa, UserVa + 1, UserVa + 2}
  BY PagesAssumption DEF UserVas
<1> QED BY <1>1, <1>2 DEF RingThreeSees, UserReaches, ForUser

\* A step of somebody else.
LEMMA OthersKeep == PagesInv /\ UNCHANGED vars => PagesInv'
<1> SUFFICES ASSUME PagesInv, UNCHANGED vars PROVE PagesInv'
  OBVIOUS
<1> USE DEF vars, boot, paging, takers
<1>1. Pages' = Pages /\ InWindow' = InWindow /\ Reserved' = Reserved /\ UserReaches' = UserReaches
  BY DEF Pages, InWindow, Reserved, UserReaches, Path
<1>2. Types' /\ Lowest' /\ Untaken'
  BY <1>1 DEF PagesInv, Types, Lowest, Untaken
<1>3. KeptApart'
  <2>1. Holdings' = Holdings
    BY <1>1 DEF Holdings, TablePages
  <2> QED BY <2>1 DEF PagesInv, KeptApart, Apart, DistinctTables
<1>4. Mapping' /\ WindowMapped' /\ HeapOnly'
  BY <1>1 DEF PagesInv, Mapping, WindowMapped, HeapOnly
<1>5. ForUser' /\ FaultsOnlyBeyondWindow' /\ HeapInOnePiece'
  BY <1>1 DEF PagesInv, ForUser, FaultsOnlyBeyondWindow, HeapInOnePiece
<1> QED BY <1>2, <1>3, <1>4, <1>5 DEF PagesInv


-----------------------------------------------------------------------------
(* The inductive invariant of scan and controllers. *)

CtlType ==
  [run : BOOLEAN, halted : BOOLEAN, resetting : BOOLEAN, notReady : BOOLEAN, owned : BOOLEAN,
   asked : BOOLEAN, scratch : Nat, mem : Seq(Nat), reset : BOOLEAN, starts : Nat]

Stages == {"probe", "map", "handoff", "await firmware", "stop", "await halt", "await reset",
           "memory", "ports", "over"}

CTypes ==
  /\ machine \in Machines
  /\ at \in [slot : 0 .. LastSlot, func : 0 .. LastFunc]
  /\ stage \in Stages
  /\ ctl \in [Bases(machine) -> CtlType]

IsXhci(s, f) == machine[s].functions[f].class = "xhci"
RegsOf(s, f) == machine[s].functions[f].base

\* What the scan has passed, or has started where it is.
Passed(s, f) ==
  \/ stage = "over" \/ s < at.slot
  \/ s = at.slot /\ (f < at.func \/ (f = at.func /\ stage = "ports"))

\* Started are the controllers the scan has passed, each once.  Functions behind
\* the first are looked at where there may be some, and a device that answers for
\* all of them has none.
Scanned ==
  /\ \A s \in 0 .. LastSlot, f \in 0 .. LastFunc :
       IsXhci(s, f) => ctl[RegsOf(s, f)].starts = IF Passed(s, f) THEN 1 ELSE 0
  /\ at.func > 0 => machine[at.slot].multi \/ machine[at.slot].functions[0].class = "none"
  /\ stage \notin {"probe", "over"} => IsXhci(at.slot, at.func) /\ mmio = RegsOf(at.slot, at.func)

\* What the stages before have done to the controller the driver is at.
Prepared ==
  /\ stage = "await reset" => This.resetting \/ This.reset
  /\ stage = "memory" => This.reset /\ ~This.resetting /\ ~This.notReady

CtlInv == CTypes /\ Scanned /\ Prepared /\ StartedInOrder /\ MemoryOfItsOwn

-----------------------------------------------------------------------------
(* The pages. *)

\* What the driver does with the memory: nothing, or it takes a page or maps its
\* registers.
LEMMA DriverSteps ==
  Driver => \/ UNCHANGED vars
            \/ MapDevice(mmio)
            \/ \E cleared : TakePage(cleared)
<1> SUFFICES ASSUME Driver
             PROVE  UNCHANGED vars \/ MapDevice(mmio) \/ \E cleared : TakePage(cleared)
  OBVIOUS
<1>1. CASE Probe \/ Handoff \/ FirmwareAwaited \/ ClearRun
  BY <1>1 DEF Probe, Handoff, FirmwareAwaited, ClearRun
<1>2. CASE Reset \/ ResetAwaited \/ Run \/ Enumerated
  BY <1>2 DEF Reset, ResetAwaited, Run, Enumerated
<1>3. CASE MapRegisters
  BY <1>3 DEF MapRegisters
<1>4. CASE TakeMemory
  BY <1>4 DEF TakeMemory
<1>5. CASE Enumerate
  BY <1>5 DEF Enumerate
<1> QED BY <1>1, <1>2, <1>3, <1>4, <1>5 DEF Driver

LEMMA NextKeepsPages == PagesInv /\ [CNext]_cvars => PagesInv'
<1> SUFFICES ASSUME PagesInv, [CNext]_cvars PROVE PagesInv'
  OBVIOUS
<1>1. CASE Kernel
  BY <1>1, PmmInitKeeps, VmmInitKeeps, MapNextKeeps, ActivateKeeps, GrowHeapKeeps,
     HeapReadyKeeps, LaunchMapKeeps, LaunchStackKeeps DEF Kernel
<1>2. CASE Launch
  BY <1>2, LaunchKeeps
<1>3. CASE Driver
  BY <1>3, DriverSteps, MapDeviceKeeps, TakePageKeeps, OthersKeep
<1>4. CASE \E b \in DOMAIN ctl :
             FirmwareReleases(b) \/ Halts(b) \/ ResetEnds(b) \/ BecomesReady(b)
  <2>1. UNCHANGED vars
    BY <1>4 DEF FirmwareReleases, Halts, ResetEnds, BecomesReady
  <2> QED BY <2>1, OthersKeep
<1>5. CASE UNCHANGED cvars
  BY <1>5, OthersKeep DEF cvars
<1> QED BY <1>1, <1>2, <1>3, <1>4, <1>5 DEF CNext

THEOREM PagesInvariant == CSpec => []PagesInv
<1>1. CInit => PagesInv
  BY InitEstablishes DEF CInit
<1> QED BY <1>1, NextKeepsPages, PTL DEF CSpec

\* A page that is missing from the reservation goes to VMM_Init, which ends there.
Short ==
  /\ pc = "vmm" => used = Reserved
  /\ pc \notin {"pmm", "vmm"} => (pc = "overlap" <=> Bitmap # Reserved)
  /\ pc = "overlap" => Bitmap \ Reserved = {pml4}

\* Numbers that differ by no more than the divisor have quotients that differ by one
\* at most.
LEMMA Quotients ==
  ASSUME NEW d \in Nat \ {0}, NEW x \in Nat, NEW y \in Nat, x <= y, y <= x + d
  PROVE  /\ x \div d \in Nat /\ y \div d \in Nat
         /\ x \div d <= y \div d /\ y \div d <= x \div d + 1
<1> DEFINE p == x \div d
           q == y \div d
<1>1. p \in Nat /\ q \in Nat /\ d * p <= x /\ x < d * p + d /\ d * q <= y /\ y < d * q + d
  OBVIOUS
<1> HIDE DEF p, q
<1>2. p <= q
  <2> SUFFICES ASSUME q + 1 <= p PROVE FALSE
    BY <1>1
  <2>1. d * (q + 1) <= d * p
    BY <1>1
  <2> QED BY <1>1, <2>1
<1>3. q <= p + 1
  <2> SUFFICES ASSUME p + 2 <= q PROVE FALSE
    BY <1>1
  <2>1. d * (p + 2) <= d * q
    BY <1>1
  <2> QED BY <1>1, <2>1
<1> QED BY <1>1, <1>2, <1>3 DEF p, q

\* The reservation is the bitmap, or one page short of it.
LEMMA OnePageShort ==
  ASSUME region \in Regions, Bitmap # Reserved
  PROVE  \E p \in Pages : /\ Bitmap \ Reserved = {p} /\ Reserved \subseteq Bitmap
                          /\ \A q \in Pages : q < p <=> q \in Reserved
<1>1. /\ region \in Nat \ {0} /\ PageBytes \in Nat \ {0} /\ PerByte \in Nat \ {0}
      /\ Base \in Nat
  BY PagesAssumption
<1> DEFINE a == region \div PerByte
           b == (region + PerByte - 1) \div PerByte
           n == PagesFor(a)
           m == PagesFor(b)
<1>2. a \in Nat /\ b \in Nat /\ a <= b /\ b <= a + 1
  <2>1. region + PerByte - 1 \in Nat /\ region <= region + PerByte - 1
        /\ region + PerByte - 1 <= region + PerByte
    BY <1>1
  <2> QED BY <1>1, <2>1, Quotients
<1>3. 1 <= b /\ b <= region
  <2> DEFINE y == region + PerByte - 1
  <2>1. y \in Nat /\ y >= PerByte /\ PerByte * b <= y /\ y < PerByte * b + PerByte
    BY <1>1
  <2> HIDE DEF b
  <2>2. b # 0
    BY <1>1, <1>2, <2>1
  <2>3. CASE b >= region + 1
    <3>1. PerByte * b >= PerByte * (region + 1)
      BY <1>1, <1>2, <2>3
    <3>2. PerByte * (region + 1) >= region + PerByte
      BY <1>1
    <3> QED BY <1>1, <1>2, <2>1, <3>1, <3>2
  <2> QED BY <1>1, <1>2, <2>2, <2>3
<1> HIDE DEF a, b
<1>4. n \in Nat /\ m \in Nat /\ n <= m /\ m <= n + 1
  <2>1. a + PageBytes - 1 \in Nat /\ b + PageBytes - 1 \in Nat
        /\ a + PageBytes - 1 <= b + PageBytes - 1
        /\ b + PageBytes - 1 <= (a + PageBytes - 1) + PageBytes
    BY <1>1, <1>2
  <2> HIDE DEF PagesFor
  <2>2. n = (a + PageBytes - 1) \div PageBytes /\ m = (b + PageBytes - 1) \div PageBytes
    BY DEF PagesFor
  <2> HIDE DEF n, m
  <2> QED BY <1>1, <2>1, <2>2, Quotients
<1>5. 1 <= m /\ m <= b
  <2> DEFINE y == b + PageBytes - 1
  <2>1. y \in Nat /\ y >= PageBytes /\ PageBytes * m <= y /\ y < PageBytes * m + PageBytes
    BY <1>1, <1>2, <1>3 DEF PagesFor
  <2> HIDE DEF m
  <2>2. m # 0
    BY <1>1, <1>4, <2>1
  <2>3. CASE m >= b + 1
    <3>1. PageBytes * m >= PageBytes * (b + 1)
      BY <1>1, <1>2, <1>4, <2>3
    <3>2. PageBytes * (b + 1) >= b + PageBytes
      BY <1>1, <1>2
    <3> QED BY <1>1, <1>2, <1>4, <2>1, <3>1, <3>2
  <2> QED BY <1>2, <1>4, <2>2, <2>3
<1>6. /\ Bitmap = Base .. Base + m - 1
      /\ Reserved = Base .. Base + (IF n = 0 THEN 1 ELSE n) - 1
  BY DEF Bitmap, Reserved, a, b
<1> HIDE DEF n, m
<1>7. n # 0 /\ m = n + 1
  BY <1>1, <1>4, <1>5, <1>6
<1>8. Base + n \in Pages
  BY <1>1, <1>2, <1>3, <1>4, <1>5, <1>7 DEF Pages
<1>9. /\ Bitmap \ Reserved = {Base + n} /\ Reserved \subseteq Bitmap
      /\ \A q \in Pages : q < Base + n <=> q \in Reserved
  BY <1>1, <1>4, <1>6, <1>7 DEF Pages
<1> QED BY <1>8, <1>9

LEMMA ShortKept ==
  ASSUME PagesInv, Short, [CNext]_cvars
  PROVE  Short'
<1>0. region \in Regions
  BY DEF PagesInv, Types
<1> DEFINE Same == region' = region
           Between == pc \notin {"pmm", "vmm", "overlap"} /\ pc' \notin {"pmm", "vmm", "overlap"}
<1>1. CASE Same /\ Between
  <2>1. Bitmap' = Bitmap /\ Reserved' = Reserved
    BY <1>1 DEF Bitmap, Reserved
  <2> QED BY <1>1, <2>1 DEF Short
<1>2. CASE UNCHANGED vars
  <2>1. UNCHANGED <<pc, used, pml4>> /\ Bitmap' = Bitmap /\ Reserved' = Reserved
    BY <1>2 DEF vars, boot, paging, Bitmap, Reserved
  <2> QED BY <2>1 DEF Short
<1>3. CASE PmmInit
  <2>1. pc' = "vmm" /\ used' = Reserved /\ Reserved' = Reserved
    BY <1>3 DEF PmmInit, boot, Reserved
  <2> QED BY <2>1 DEF Short
<1>4. CASE VmmInit
  <2> DEFINE root == Allocate(1, {})
  <2>1. /\ pc = "vmm" /\ region' = region
        /\ root = {} => pc' = "astray"
        /\ root # {} => /\ pml4' = Min(root)
                        /\ pc' = IF root \cap Bitmap = {} THEN "map" ELSE "overlap"
    BY <1>4 DEF VmmInit, Stop
  <2>2. used = Reserved /\ Bitmap' = Bitmap /\ Reserved' = Reserved
    BY <2>1 DEF Short, Bitmap, Reserved
  <2>3. Free({}) = Pages \ Reserved
    BY <2>2 DEF Free
  <2>4. root = {} \/ (root = {Min(root)} /\ Min(root) \in Free({}))
    BY <1>0, AllocateOne
  <2> HIDE DEF root
  <2>5. CASE Bitmap = Reserved
    BY <2>1, <2>2, <2>3, <2>4, <2>5 DEF Short
  <2>6. CASE Bitmap # Reserved
    <3>1. PICK p \in Pages : /\ Bitmap \ Reserved = {p} /\ Reserved \subseteq Bitmap
                             /\ \A q \in Pages : q < p <=> q \in Reserved
      BY <1>0, <2>6, OnePageShort
    <3>2. p \in Free({})
      BY <2>3, <3>1
    <3>3. root = {Min(root)} /\ Min(root) \in Pages \ Reserved /\ Min(root) <= p
      BY <1>0, <2>3, <3>2, AllocateOne DEF root
    <3>4. Min(root) = p
      <4>1. p \in Nat /\ Min(root) \in Nat
        BY <1>0, <3>1, <3>3, RegionFinite
      <4> QED BY <3>1, <3>3, <4>1
    <3>5. root # {} /\ root \cap Bitmap # {}
      BY <3>1, <3>3, <3>4
    <3> QED BY <2>1, <2>2, <2>6, <3>1, <3>4, <3>5 DEF Short
  <2> QED BY <2>5, <2>6
<1>5. ASSUME NEW v, NEW p, NEW isUser, NEW taken, NEW next,
             MapPage(v, p, isUser, taken, next)
      PROVE  pc' \in {next, "astray", "fault"}
  BY <1>5 DEF MapPage, Stop
<1>6. CASE MapNext \/ Activate \/ GrowHeap \/ HeapReady
  <2>1. CASE MapNext
    <3>1. /\ pc = "map" /\ region' = region
          /\ MapPage(Head(todo), Head(todo), FALSE, {}, "map")
      BY <2>1 DEF MapNext
    <3>2. pc' \in {"map", "astray", "fault"}
      BY <3>1, <1>5, Zenon
    <3> QED BY <1>1, <3>1, <3>2
  <2>2. CASE Activate \/ HeapReady
    BY <1>1, <2>2 DEF Activate, HeapReady, boot
  <2>3. CASE GrowHeap
    <3> DEFINE got == Allocate(1, {})
    <3>1. /\ pc = "heap" /\ region' = region
          /\ pc' \in {"noMemory", "scattered"} \/ MapPage(Min(got), Min(got), FALSE, got, "heap")
      BY <2>3 DEF GrowHeap, Stop, boot
    <3>2. pc' \in {"noMemory", "scattered", "heap", "astray", "fault"}
      BY <3>1, <1>5, Zenon
    <3> QED BY <1>1, <3>1, <3>2
  <2> QED BY <1>6, <2>1, <2>2, <2>3
<1>7. CASE Launch \/ LaunchMap \/ LaunchStack
  <2>1. CASE Launch
    BY <1>1, <2>1 DEF Launch, boot
  <2>2. CASE LaunchMap
    <3>1. /\ pc \in {"map code", "map data", "map stack"} /\ region' = region
          /\ \/ MapPage(UserVa, user[1], TRUE, {}, "map data")
             \/ MapPage(UserVa + 1, user[2], TRUE, {}, "map stack")
             \/ MapPage(UserVa + 2, user[3], TRUE, {}, "map rsp0")
      BY <2>2 DEF LaunchMap, boot
    <3>2. pc' \in {"map data", "map stack", "map rsp0", "astray", "fault"}
      BY <3>1, <1>5, Zenon
    <3> QED BY <1>1, <3>1, <3>2
  <2>3. CASE LaunchStack
    <3> DEFINE got == Allocate(1, {})
    <3>1. /\ pc = "map rsp0" /\ region' = region
          /\ pc' = "over" \/ MapPage(Min(got), Min(got), FALSE, got, "ring3")
      BY <2>3 DEF LaunchStack, Stop, boot
    <3>2. pc' \in {"over", "ring3", "astray", "fault"}
      BY <3>1, <1>5, Zenon
    <3> QED BY <1>1, <3>1, <3>2
  <2> QED BY <1>7, <2>1, <2>2, <2>3
<1>8. CASE Driver
  <2>1. CASE MapDevice(mmio)
    <3>1. /\ pc = "drivers" /\ region' = region
          /\ MapPage(mmio, mmio, FALSE, {}, "drivers")
      BY <2>1 DEF MapDevice, boot
    <3>2. pc' \in {"drivers", "astray", "fault"}
      BY <3>1, <1>5, Zenon
    <3> QED BY <1>1, <3>1, <3>2
  <2>2. ASSUME NEW cleared, TakePage(cleared) PROVE Short'
    BY <1>1, <2>2 DEF TakePage, Stop, boot
  <2> QED BY <1>2, <1>8, <2>1, <2>2, DriverSteps
<1>9. CASE \E b \in DOMAIN ctl :
             FirmwareReleases(b) \/ Halts(b) \/ ResetEnds(b) \/ BecomesReady(b)
  <2>1. UNCHANGED vars
    BY <1>9 DEF FirmwareReleases, Halts, ResetEnds, BecomesReady
  <2> QED BY <1>2, <2>1
<1>10. CASE UNCHANGED cvars
  BY <1>2, <1>10 DEF cvars
<1> QED BY <1>3, <1>4, <1>6, <1>7, <1>8, <1>9, <1>10 DEF CNext, Kernel

\* Every page has one use, and none that is used is on offer again, but for the one
\* page of the bitmap that main.c may fail to reserve: that is the root table.
THEOREM EveryPageOneUse == CSpec => []OneUse
<1>1. CInit => Short
  BY DEF CInit, Init, Short
<1>2. PagesInv /\ Short /\ [CNext]_cvars => Short'
  BY ShortKept
<1>3. PagesInv /\ Short => OneUse
  BY DEF PagesInv, KeptApart, OneUse, Apart, DistinctTables, Short
<1> QED BY <1>1, <1>2, <1>3, PagesInvariant, PTL DEF CSpec

\* The kernel touches a page that is not mapped only when those that are have all
\* been taken.
THEOREM NoEarlyFault == CSpec => []FaultsOnlyBeyondWindow
<1>1. PagesInv => FaultsOnlyBeyondWindow
  BY DEF PagesInv
<1> QED BY <1>1, PagesInvariant, PTL

\* "FATAL: heap pages not contiguous" does not happen.
THEOREM HeapNeverScattered == CSpec => []HeapInOnePiece
<1>1. PagesInv => HeapInOnePiece
  BY DEF PagesInv
<1> QED BY <1>1, PagesInvariant, PTL

\* The ring-3 task reaches its own pages, and nothing of the kernel.
THEOREM KernelOutOfReach == CSpec => []RingThreeSees
<1>1. PagesInv => RingThreeSees
  BY ReachesItsOwn
<1> QED BY <1>1, PagesInvariant, PTL

-----------------------------------------------------------------------------
(* The controllers. *)

Ordered(c) ==
  c.starts > 0 => /\ c.run /\ c.reset /\ ~c.resetting /\ ~c.notReady
                  /\ Len(c.mem) >= Len(Wanted(c))

LEMMA OrderedIs == StartedInOrder <=> \A b \in DOMAIN ctl : Ordered(ctl[b])
  BY DEF StartedInOrder, Ordered

\* Functions and registers of a machine.
LEMMA MachineIs ==
  ASSUME machine \in Machines, NEW s \in 0 .. LastSlot, NEW f \in 0 .. LastFunc
  PROVE  /\ IsXhci(s, f) => /\ RegsOf(s, f) \in Bases(machine)
                            /\ RegsOf(s, f) = MmioBase(machine[s].functions[f])
         /\ ~machine[s].multi /\ f > 0 => ~IsXhci(s, f)
         /\ ~(machine[s].multi /\ machine[s].echoes)
         /\ \A t \in 0 .. LastSlot, g \in 0 .. LastFunc :
              IsXhci(s, f) /\ IsXhci(t, g) /\ RegsOf(s, f) = RegsOf(t, g) => s = t /\ f = g
<1>1. DOMAIN machine = 0 .. LastSlot /\ IsDevice(machine[s]) /\ ApartFrom(machine)
  BY ControllersAssumption
<1>2. IsXhci(s, f) => RegsOf(s, f) \in Mmio
  BY <1>1 DEF IsDevice, IsXhci, RegsOf
<1>3. IsXhci(s, f) => RegsOf(s, f) \in Bases(machine)
  BY <1>1, <1>2 DEF IsXhci, RegsOf, Bases
<1>4. IsXhci(s, f) => RegsOf(s, f) = MmioBase(machine[s].functions[f])
  BY <1>1 DEF IsDevice, IsXhci, RegsOf, MmioBase
<1>5. ~machine[s].multi /\ f > 0 => ~IsXhci(s, f)
  BY <1>1 DEF IsDevice, IsXhci, NoFunction
<1>6. ~(machine[s].multi /\ machine[s].echoes)
  BY <1>1 DEF IsDevice
<1>7. \A t \in 0 .. LastSlot, g \in 0 .. LastFunc :
        IsXhci(s, f) /\ IsXhci(t, g) /\ RegsOf(s, f) = RegsOf(t, g) => s = t /\ f = g
  BY <1>1 DEF ApartFrom, IsXhci, RegsOf
<1> QED BY <1>3, <1>4, <1>5, <1>6, <1>7

\* The controller the driver is at has not been started, until it is.
LEMMA Current ==
  ASSUME CtlInv, stage \notin {"probe", "over"}
  PROVE  /\ mmio \in DOMAIN ctl /\ This \in CtlType
         /\ This.starts = IF stage = "ports" THEN 1 ELSE 0
         /\ at.slot \in 0 .. LastSlot /\ at.func \in 0 .. LastFunc
         /\ IsXhci(at.slot, at.func) /\ mmio = RegsOf(at.slot, at.func)
<1>1. CTypes /\ Scanned
  BY DEF CtlInv
<1>2. /\ at.slot \in 0 .. LastSlot /\ at.func \in 0 .. LastFunc
      /\ IsXhci(at.slot, at.func) /\ mmio = RegsOf(at.slot, at.func)
  BY <1>1 DEF CTypes, Scanned
<1>3. mmio \in DOMAIN ctl /\ This \in CtlType
  BY <1>1, <1>2, MachineIs DEF CTypes, This
<1>4. Passed(at.slot, at.func) <=> stage = "ports"
  BY <1>2, ControllersAssumption DEF Passed
<1>5. This.starts = IF stage = "ports" THEN 1 ELSE 0
  BY <1>1, <1>2, <1>4 DEF Scanned, This
<1> QED BY <1>2, <1>3, <1>5

\* Steps that neither move the scan nor start a controller.
LEMMA ScanKept ==
  ASSUME CtlInv, UNCHANGED <<machine, at, mmio>>, stage' \in Stages,
         stage \in {"probe", "ports", "over"} \/ stage' \in {"probe", "ports", "over"}
           => stage' = stage,
         ctl' \in [Bases(machine) -> CtlType],
         \A b \in DOMAIN ctl : ctl'[b].starts = ctl[b].starts /\ Ordered(ctl'[b])
  PROVE  CTypes' /\ Scanned' /\ StartedInOrder'
<1>0. CTypes /\ Scanned /\ DOMAIN ctl' = DOMAIN ctl /\ DOMAIN ctl = Bases(machine)
  BY DEF CtlInv, CTypes
<1>1. CTypes'
  BY <1>0 DEF CTypes
<1>2. Scanned'
  <2>1. \A s, f : IsXhci(s, f)' = IsXhci(s, f) /\ RegsOf(s, f)' = RegsOf(s, f)
    BY DEF IsXhci, RegsOf
  <2>2. \A s, f : Passed(s, f)' <=> Passed(s, f)
    BY DEF Passed
  <2>3. ASSUME NEW s \in 0 .. LastSlot, NEW f \in 0 .. LastFunc, IsXhci(s, f)
        PROVE  ctl'[RegsOf(s, f)].starts = IF Passed(s, f) THEN 1 ELSE 0
    <3>1. RegsOf(s, f) \in DOMAIN ctl
      BY <1>0, <2>3, MachineIs DEF CTypes
    <3>2. ctl[RegsOf(s, f)].starts = IF Passed(s, f) THEN 1 ELSE 0
      BY <1>0, <2>3 DEF Scanned
    <3>a. \A b \in DOMAIN ctl : ctl'[b].starts = ctl[b].starts
      BY Zenon
    <3>3. ctl'[RegsOf(s, f)].starts = ctl[RegsOf(s, f)].starts
      BY <3>1, <3>a
    <3> QED BY <3>2, <3>3
  <2>4. \A s \in 0 .. LastSlot, f \in 0 .. LastFunc :
          IsXhci(s, f)' => ctl'[RegsOf(s, f)'].starts = IF Passed(s, f)' THEN 1 ELSE 0
    BY <2>1, <2>2, <2>3
  <2>5. stage' \notin {"probe", "over"} => stage \notin {"probe", "over"}
    OBVIOUS
  <2> QED BY <1>0, <2>1, <2>4, <2>5 DEF Scanned
<1>3. StartedInOrder'
  BY <1>0 DEF StartedInOrder, Ordered, Wanted
<1> QED BY <1>1, <1>2, <1>3

\* ... and give none memory.
LEMMA CtlKept ==
  ASSUME CtlInv, UNCHANGED <<machine, at, mmio>>, stage' \in Stages,
         stage \in {"probe", "ports", "over"} \/ stage' \in {"probe", "ports", "over"}
           => stage' = stage,
         ctl' \in [Bases(machine) -> CtlType],
         \A b \in DOMAIN ctl : /\ ctl'[b].starts = ctl[b].starts
                               /\ ctl'[b].mem = ctl[b].mem \/ ctl'[b].mem = <<>>
                               /\ Ordered(ctl'[b]),
         driver \subseteq driver', Prepared'
  PROVE  CtlInv'
<1>0. CTypes /\ MemoryOfItsOwn /\ DOMAIN ctl' = DOMAIN ctl /\ DOMAIN ctl = Bases(machine)
  BY DEF CtlInv, CTypes
<1>1. CTypes' /\ Scanned' /\ StartedInOrder'
  <2>1. \A b \in DOMAIN ctl : ctl'[b].starts = ctl[b].starts /\ Ordered(ctl'[b])
    BY Zenon
  <2> QED BY <2>1, ScanKept
<1>2. MemoryOfItsOwn'
  <2>1. ASSUME NEW b \in DOMAIN ctl
        PROVE  /\ IsInjective(ctl'[b].mem) /\ Range(ctl'[b].mem) \subseteq Range(ctl[b].mem)
    <3>1. IsInjective(ctl[b].mem)
      BY <1>0 DEF MemoryOfItsOwn
    <3>2. CASE ctl'[b].mem = ctl[b].mem
      BY <3>1, <3>2
    <3>3. CASE ctl'[b].mem = <<>>
      BY <3>3 DEF IsInjective, Range
    <3> QED BY <3>2, <3>3
  <2>2. \A b \in DOMAIN ctl : /\ Range(ctl[b].mem) \subseteq driver
                              /\ \A d \in DOMAIN ctl \ {b} : Range(ctl[b].mem) \cap Range(ctl[d].mem) = {}
    BY <1>0 DEF MemoryOfItsOwn
  <2>3. ASSUME NEW b \in DOMAIN ctl
        PROVE  /\ IsInjective(ctl'[b].mem) /\ Range(ctl'[b].mem) \subseteq driver'
               /\ \A d \in DOMAIN ctl \ {b} : Range(ctl'[b].mem) \cap Range(ctl'[d].mem) = {}
    BY <2>1, <2>2
  <2> QED BY <1>0, <2>3 DEF MemoryOfItsOwn
<1> QED BY <1>1, <1>2 DEF CtlInv

\* Steps that leave the controllers alone.
LEMMA SameControllers ==
  ASSUME CtlInv, UNCHANGED <<machine, at, mmio, ctl>>, stage' \in Stages,
         stage \in {"probe", "ports", "over"} \/ stage' \in {"probe", "ports", "over"}
           => stage' = stage,
         driver \subseteq driver', Prepared'
  PROVE  CtlInv'
<1>1. ctl' \in [Bases(machine) -> CtlType]
  BY DEF CtlInv, CTypes
<1>2. \A b \in DOMAIN ctl : Ordered(ctl'[b])
  BY OrderedIs DEF CtlInv
<1> QED BY <1>1, <1>2, CtlKept

\* What the driver takes is a page nobody had, if anything.
LEMMA DriverTakes ==
  ASSUME PagesInv, NEW cleared, TakePage(cleared)
  PROVE  /\ driver \subseteq driver' /\ driver \subseteq Nat
         /\ driver' \ driver = {} \/ \E p \in Nat : driver' \ driver = {p}
<1> DEFINE got == Allocate(1, {})
<1>1. region \in Regions
  BY DEF PagesInv, Types
<1>2. driver' = driver \/ driver' = driver \cup got
  BY DEF TakePage, Stop
<1>3. got = {} \/ (got = {Min(got)} /\ Min(got) \in Pages)
  BY <1>1, AllocateOne DEF Free
<1>4. driver \subseteq used /\ used \subseteq Pages /\ Pages \subseteq Nat
  <2>1. pc # "pmm"
    BY DEF TakePage
  <2>2. driver \subseteq used
    BY <2>1, HoldersAre DEF PagesInv, KeptApart, Apart, Holdings
  <2> QED BY <1>1, <2>2, RegionFinite DEF PagesInv, Types
<1> HIDE DEF got
<1>5. CASE driver' = driver \/ got = {}
  BY <1>2, <1>4, <1>5
<1>6. CASE driver' = driver \cup got /\ got = {Min(got)} /\ Min(got) \in Pages
  <2>1. driver' \ driver = {} \/ driver' \ driver = {Min(got)}
    BY <1>6
  <2> QED BY <1>4, <1>6, <2>1
<1> QED BY <1>2, <1>3, <1>5, <1>6

\* A sequence of pages after a page was given to it, or none.
LEMMA GivenIs ==
  ASSUME NEW mem \in Seq(Nat), NEW new, new = {} \/ \E p \in Nat : new = {p},
         IsInjective(mem), Range(mem) \cap new = {}
  PROVE  /\ mem \o SetToSeq(new) \in Seq(Nat)
         /\ Len(mem \o SetToSeq(new)) >= Len(mem)
         /\ IsInjective(mem \o SetToSeq(new))
         /\ Range(mem \o SetToSeq(new)) = Range(mem) \cup new
<1> DEFINE s == SetToSeq(new)
           n == Cardinality(new)
           r == mem \o s
<1>1. /\ IsFiniteSet(new) /\ n \in {0, 1}
  BY FS_EmptySet, FS_Singleton
<1>2. s \in [1 .. n -> new]
  BY <1>1, Listed
<1>3. new # {} => n = 1
  BY FS_Singleton
<1>4. new = {} => n = 0
  BY FS_EmptySet
<1> HIDE DEF n, s
<1>5. s \in Seq(Nat) /\ Len(s) = n
  <2>1. s \in [1 .. n -> Nat]
    BY <1>2
  <2> QED BY <1>1, <2>1
<1>6. /\ r \in Seq(Nat) /\ Len(r) = Len(mem) + n
      /\ \A i \in 1 .. Len(mem) + n : r[i] = IF i <= Len(mem) THEN mem[i] ELSE s[i - Len(mem)]
  BY <1>5, ConcatProperties
<1> HIDE DEF r
<1>7. Len(mem) \in Nat /\ DOMAIN mem = 1 .. Len(mem) /\ DOMAIN r = 1 .. Len(mem) + n
  BY <1>6
<1>8. CASE new = {}
  <2>1. n = 0
    BY <1>4, <1>8
  <2>2. /\ DOMAIN r = DOMAIN mem /\ Len(r) = Len(mem)
        /\ \A i \in DOMAIN r : r[i] = mem[i]
    BY <1>6, <1>7, <2>1
  <2>3. IsInjective(r) /\ Range(r) = Range(mem)
    BY <2>2 DEF IsInjective, Range
  <2>4. /\ r \in Seq(Nat) /\ Len(r) >= Len(mem) /\ IsInjective(r)
        /\ Range(r) = Range(mem) \cup new
    BY <1>6, <1>7, <1>8, <2>2, <2>3
  <2> QED BY <2>4 DEF r, s
<1>9. CASE new # {}
  <2>1. PICK p \in Nat : new = {p}
    BY <1>9
  <2>2. n = 1 /\ s[1] = p
    BY <1>2, <1>3, <1>9, <2>1
  <2>3. /\ \A i \in 1 .. Len(mem) : r[i] = mem[i]
        /\ r[Len(mem) + 1] = p
        /\ DOMAIN r = 1 .. Len(mem) \cup {Len(mem) + 1}
    <3>1. Len(mem) + 1 - Len(mem) = 1 /\ ~(Len(mem) + 1 <= Len(mem))
      BY <1>7
    <3> QED BY <1>6, <1>7, <2>2, <3>1
  <2>4. \A i \in 1 .. Len(mem) : mem[i] # p
    BY <1>7, <2>1 DEF Range
  <2>5. IsInjective(r)
    BY <1>7, <2>3, <2>4 DEF IsInjective
  <2>6. Range(r) = Range(mem) \cup {p}
    <3>1. ASSUME NEW i \in DOMAIN r PROVE r[i] \in Range(mem) \cup {p}
      BY <1>7, <2>3 DEF Range
    <3>2. ASSUME NEW i \in DOMAIN mem PROVE mem[i] \in Range(r)
      BY <1>7, <2>3 DEF Range
    <3>3. p \in Range(r)
      BY <2>3 DEF Range
    <3> QED BY <3>1, <3>2, <3>3 DEF Range
  <2>7. Len(r) >= Len(mem)
    BY <1>6, <1>7, <2>2
  <2> QED BY <1>6, <2>1, <2>5, <2>6, <2>7 DEF r, s
<1> QED BY <1>8, <1>9

\* The scan goes on: then it has passed the function it was at, and no controller
\* behind it on the same device is left out.
LEMMA OnwardPasses ==
  ASSUME CtlInv, Onward, machine' = machine, stage \in {"probe", "ports"}
  PROVE  /\ at' \in [slot : 0 .. LastSlot, func : 0 .. LastFunc] /\ stage' \in {"probe", "over"}
         /\ \A s \in 0 .. LastSlot, f \in 0 .. LastFunc :
              IsXhci(s, f) =>
                (Passed(s, f)' <=> s < at.slot \/ (s = at.slot /\ f <= at.func))
         /\ at'.func > 0 => machine[at'.slot].multi \/ machine[at'.slot].functions[0].class = "none"
<1>0. CTypes /\ Scanned /\ machine \in Machines /\ LastSlot \in Nat /\ LastFunc \in Nat
  BY ControllersAssumption DEF CtlInv, CTypes
<1> DEFINE S == at.slot
           F == at.func
           single == F = 0 /\ Seen.class # "none" /\ ~machine[S].multi
<1>1. S \in 0 .. LastSlot /\ F \in 0 .. LastFunc /\ at = [slot |-> S, func |-> F]
  BY <1>0 DEF CTypes
<1>2. Onward <=> IF ~single /\ F < LastFunc
                 THEN stage' = "probe" /\ at' = [at EXCEPT !.func = @ + 1]
                 ELSE NextSlot
  BY DEF Onward
<1>3. single => \A f \in 0 .. LastFunc : IsXhci(S, f) => f = 0
  BY <1>0, <1>1, MachineIs
<1>4. F = 0 /\ ~single => machine[S].multi \/ machine[S].functions[0].class = "none"
  BY DEF Seen
<1>5. F > 0 => machine[S].multi \/ machine[S].functions[0].class = "none"
  BY <1>0 DEF Scanned
<1>6. CASE ~single /\ F < LastFunc
  <2>1. stage' = "probe" /\ at' = [slot |-> S, func |-> F + 1]
    BY <1>1, <1>2, <1>6
  <2>2. machine[S].multi \/ machine[S].functions[0].class = "none"
    BY <1>1, <1>4, <1>5, <1>6
  <2> HIDE DEF single, S, F
  <2>3. at'.slot = S /\ at'.func = F + 1 /\ F + 1 \in 0 .. LastFunc
    BY <1>0, <1>1, <1>6, <2>1
  <2>4. ASSUME NEW s \in 0 .. LastSlot, NEW f \in 0 .. LastFunc
        PROVE  Passed(s, f)' <=> s < S \/ (s = S /\ f <= F)
    <3>1. Passed(s, f)' <=> s < S \/ (s = S /\ f < F + 1)
      BY <2>1, <2>3 DEF Passed
    <3>2. f < F + 1 <=> f <= F
      BY <1>0, <1>1
    <3> QED BY <3>1, <3>2
  <2> QED BY <1>1, <2>1, <2>2, <2>3, <2>4 DEF S, F
<1>7. CASE ~(~single /\ F < LastFunc) /\ S < LastSlot
  <2>1. stage' = "probe" /\ at' = [slot |-> S + 1, func |-> 0]
    BY <1>2, <1>7 DEF NextSlot
  <2>2. \A f \in 0 .. LastFunc : IsXhci(S, f) => f <= F
    BY <1>0, <1>1, <1>3, <1>7
  <2> HIDE DEF single, S, F
  <2>3. at'.slot = S + 1 /\ at'.func = 0 /\ S + 1 \in 0 .. LastSlot /\ 0 \in 0 .. LastFunc
    BY <1>0, <1>1, <1>7, <2>1
  <2>4. ASSUME NEW s \in 0 .. LastSlot, NEW f \in 0 .. LastFunc, IsXhci(s, f)
        PROVE  Passed(s, f)' <=> s < S \/ (s = S /\ f <= F)
    <3>1. Passed(s, f)' <=> s < S + 1
      <4>1. ~(f < 0)
        BY <1>0
      <4> QED BY <2>1, <2>3, <4>1 DEF Passed
    <3>2. s < S + 1 <=> s < S \/ s = S
      BY <1>0, <1>1
    <3>3. s = S => f <= F
      BY <2>2, <2>4
    <3> QED BY <3>1, <3>2, <3>3
  <2>5. ~(at'.func > 0)
    BY <2>3
  <2> QED BY <2>1, <2>3, <2>4, <2>5 DEF S, F
<1>8. CASE ~(~single /\ F < LastFunc) /\ ~(S < LastSlot)
  <2>1. stage' = "over" /\ at' = at
    BY <1>2, <1>8 DEF NextSlot
  <2>2. \A f \in 0 .. LastFunc : IsXhci(S, f) => f <= F
    BY <1>0, <1>1, <1>3, <1>8
  <2> HIDE DEF single, S, F
  <2>3. ASSUME NEW s \in 0 .. LastSlot, NEW f \in 0 .. LastFunc, IsXhci(s, f)
        PROVE  Passed(s, f)' <=> s < S \/ (s = S /\ f <= F)
    <3>1. Passed(s, f)'
      BY <2>1 DEF Passed
    <3>2. s < S \/ s = S
      BY <1>0, <1>1, <1>8
    <3>3. s = S => f <= F
      BY <2>2, <2>3
    <3> QED BY <3>1, <3>2, <3>3
  <2> QED BY <1>0, <1>5, <2>1, <2>3 DEF S, F, CTypes
<1> QED BY <1>6, <1>7, <1>8

\* The function configuration space shows is the one at the scan's position.
LEMMA SeenIs ==
  ASSUME CtlInv
  PROVE  /\ Seen.class = "xhci" <=> IsXhci(at.slot, at.func)
         /\ Seen.class = "xhci" => MmioBase(Seen) = RegsOf(at.slot, at.func)
<1>0. CTypes /\ Scanned /\ machine \in Machines
  BY DEF CtlInv, CTypes
<1> DEFINE S == at.slot
           F == at.func
<1>1. S \in 0 .. LastSlot /\ F \in 0 .. LastFunc /\ LastFunc \in Nat
  BY <1>0, ControllersAssumption DEF CTypes
<1>2. CASE ~machine[S].echoes \/ F = 0
  <2>1. Seen = machine[S].functions[F]
    BY <1>2 DEF Seen
  <2> QED BY <1>0, <1>1, <2>1, MachineIs DEF IsXhci
<1>3. CASE machine[S].echoes /\ F # 0
  <2>1. Seen = machine[S].functions[0] /\ F > 0
    BY <1>1, <1>3 DEF Seen
  <2>2. ~machine[S].multi
    BY <1>0, <1>1, <1>3, MachineIs
  <2>3. machine[S].functions[0].class = "none"
    BY <1>0, <2>1, <2>2 DEF Scanned
  <2>4. ~IsXhci(S, F)
    BY <1>0, <1>1, <2>1, <2>2, MachineIs
  <2> QED BY <2>1, <2>3, <2>4
<1> QED BY <1>2, <1>3

LEMMA ProbeKeeps == CtlInv /\ Probe => CtlInv'
<1> SUFFICES ASSUME CtlInv, Probe PROVE CtlInv'
  OBVIOUS
<1>0. /\ CTypes /\ Scanned /\ StartedInOrder /\ MemoryOfItsOwn /\ machine \in Machines
      /\ stage = "probe" /\ UNCHANGED <<machine, ctl, driver>>
      /\ at.slot \in 0 .. LastSlot /\ at.func \in 0 .. LastFunc
  BY DEF CtlInv, CTypes, Probe, vars, takers
<1>1. StartedInOrder' /\ MemoryOfItsOwn'
  BY <1>0 DEF StartedInOrder, Wanted, MemoryOfItsOwn
<1>2. \A s, f : IsXhci(s, f)' = IsXhci(s, f) /\ RegsOf(s, f)' = RegsOf(s, f)
  BY <1>0 DEF IsXhci, RegsOf
<1>3. Bases(machine)' = Bases(machine)
  BY <1>0
<1>4. CASE Seen.class = "xhci"
  <2>1. mmio' = MmioBase(Seen) /\ stage' = "map" /\ at' = at
    BY <1>4 DEF Probe
  <2>2. IsXhci(at.slot, at.func) /\ mmio' = RegsOf(at.slot, at.func)
    BY <1>4, <2>1, SeenIs
  <2>3. CTypes'
    BY <1>0, <1>3, <2>1 DEF CTypes, Stages
  <2>4. \A s, f : Passed(s, f)' <=> Passed(s, f)
    BY <1>0, <2>1 DEF Passed
  <2>5. \A s \in 0 .. LastSlot, f \in 0 .. LastFunc :
          IsXhci(s, f)' => ctl'[RegsOf(s, f)'].starts = IF Passed(s, f)' THEN 1 ELSE 0
    <3>1. \A s \in 0 .. LastSlot, f \in 0 .. LastFunc :
            IsXhci(s, f) => ctl[RegsOf(s, f)].starts = IF Passed(s, f) THEN 1 ELSE 0
      BY <1>0 DEF Scanned
    <3> QED BY <1>0, <1>2, <2>4, <3>1
  <2>6. Scanned'
    BY <1>0, <1>2, <2>1, <2>2, <2>5 DEF Scanned
  <2>7. Prepared'
    BY <2>1 DEF Prepared
  <2> QED BY <1>1, <2>3, <2>6, <2>7 DEF CtlInv
<1>5. CASE Seen.class # "xhci"
  <2>1. Onward
    BY <1>5 DEF Probe
  <2>2. /\ at' \in [slot : 0 .. LastSlot, func : 0 .. LastFunc] /\ stage' \in {"probe", "over"}
        /\ \A s \in 0 .. LastSlot, f \in 0 .. LastFunc :
             IsXhci(s, f) =>
               (Passed(s, f)' <=> s < at.slot \/ (s = at.slot /\ f <= at.func))
        /\ at'.func > 0 => machine[at'.slot].multi \/ machine[at'.slot].functions[0].class = "none"
    BY <1>0, <2>1, OnwardPasses
  <2>3. CTypes'
    BY <1>0, <1>3, <2>2 DEF CTypes, Stages
  <2>4. \A s \in 0 .. LastSlot, f \in 0 .. LastFunc :
          IsXhci(s, f)' => ctl'[RegsOf(s, f)'].starts = IF Passed(s, f)' THEN 1 ELSE 0
    <3> SUFFICES ASSUME NEW s \in 0 .. LastSlot, NEW f \in 0 .. LastFunc, IsXhci(s, f)
                 PROVE  ctl[RegsOf(s, f)].starts = IF Passed(s, f)' THEN 1 ELSE 0
      BY <1>0, <1>2
    <3>1. ctl[RegsOf(s, f)].starts = IF Passed(s, f) THEN 1 ELSE 0
      BY <1>0 DEF Scanned
    <3>2. ~(s = at.slot /\ f = at.func)
      BY <1>5, SeenIs
    <3>3. Passed(s, f) <=> s < at.slot \/ (s = at.slot /\ f < at.func)
      BY <1>0 DEF Passed
    <3>4. f < at.func <=> f <= at.func /\ f # at.func
      BY <1>0, ControllersAssumption
    <3>5. Passed(s, f)' <=> s < at.slot \/ (s = at.slot /\ f <= at.func)
      BY <2>2
    <3>6. Passed(s, f)' <=> Passed(s, f)
      BY <3>2, <3>3, <3>4, <3>5
    <3> QED BY <3>1, <3>6
  <2>5. Scanned'
    BY <1>0, <2>2, <2>4 DEF Scanned
  <2>6. Prepared'
    BY <2>2 DEF Prepared
  <2> QED BY <1>1, <2>3, <2>5, <2>6 DEF CtlInv
<1> QED BY <1>4, <1>5

LEMMA EnumeratedKeeps == CtlInv /\ Enumerated => CtlInv'
<1> SUFFICES ASSUME CtlInv, Enumerated PROVE CtlInv'
  OBVIOUS
<1>0. /\ CTypes /\ Scanned /\ StartedInOrder /\ MemoryOfItsOwn /\ machine \in Machines
      /\ stage = "ports" /\ UNCHANGED <<machine, ctl, driver>> /\ Onward
      /\ at.slot \in 0 .. LastSlot /\ at.func \in 0 .. LastFunc
  BY DEF CtlInv, CTypes, Enumerated, At, vars, takers
<1>1. StartedInOrder' /\ MemoryOfItsOwn'
  BY <1>0 DEF StartedInOrder, Wanted, MemoryOfItsOwn
<1>2. \A s, f : IsXhci(s, f)' = IsXhci(s, f) /\ RegsOf(s, f)' = RegsOf(s, f)
  BY <1>0 DEF IsXhci, RegsOf
<1>3. Bases(machine)' = Bases(machine)
  BY <1>0
<1>4. /\ at' \in [slot : 0 .. LastSlot, func : 0 .. LastFunc] /\ stage' \in {"probe", "over"}
      /\ \A s \in 0 .. LastSlot, f \in 0 .. LastFunc :
           IsXhci(s, f) =>
             (Passed(s, f)' <=> s < at.slot \/ (s = at.slot /\ f <= at.func))
      /\ at'.func > 0 => machine[at'.slot].multi \/ machine[at'.slot].functions[0].class = "none"
  BY <1>0, OnwardPasses
<1>5. CTypes'
  BY <1>0, <1>3, <1>4 DEF CTypes, Stages
<1>6. \A s \in 0 .. LastSlot, f \in 0 .. LastFunc :
        IsXhci(s, f)' => ctl'[RegsOf(s, f)'].starts = IF Passed(s, f)' THEN 1 ELSE 0
  <2> SUFFICES ASSUME NEW s \in 0 .. LastSlot, NEW f \in 0 .. LastFunc, IsXhci(s, f)
               PROVE  ctl[RegsOf(s, f)].starts = IF Passed(s, f)' THEN 1 ELSE 0
    BY <1>0, <1>2
  <2>1. ctl[RegsOf(s, f)].starts = IF Passed(s, f) THEN 1 ELSE 0
    BY <1>0 DEF Scanned
  <2>2. Passed(s, f) <=> s < at.slot \/ (s = at.slot /\ (f < at.func \/ f = at.func))
    BY <1>0 DEF Passed
  <2>3. f < at.func \/ f = at.func <=> f <= at.func
    BY <1>0, ControllersAssumption
  <2>4. Passed(s, f)' <=> s < at.slot \/ (s = at.slot /\ f <= at.func)
    BY <1>4
  <2>5. Passed(s, f)' <=> Passed(s, f)
    BY <2>2, <2>3, <2>4
  <2> QED BY <2>1, <2>5
<1>7. Scanned'
  BY <1>0, <1>4, <1>6 DEF Scanned
<1>8. Prepared'
  BY <1>4 DEF Prepared
<1> QED BY <1>1, <1>5, <1>7, <1>8 DEF CtlInv

\* Waits that end, and the steps of the rest of the kernel.
LEMMA WaitsKeep ==
  ASSUME CtlInv, MapRegisters \/ FirmwareAwaited \/ ResetAwaited PROVE CtlInv'
<1>1. UNCHANGED <<machine, at, mmio, ctl, driver>>
  BY DEF MapRegisters, FirmwareAwaited, ResetAwaited, Goto, MapDevice, takers, vars
<1>2. /\ stage \in {"map", "await firmware", "await reset"}
      /\ stage' \in {"handoff", "stop", "memory"} /\ stage' \in Stages
  BY DEF MapRegisters, FirmwareAwaited, ResetAwaited, Goto, At, Stages
<1>3. Prepared'
  <2>1. This' = This
    BY <1>1 DEF This
  <2>2. stage' = "memory" => stage = "await reset" /\ ~This.resetting /\ ~This.notReady
    BY DEF MapRegisters, FirmwareAwaited, ResetAwaited, Goto, At
  <2>3. stage = "await reset" => This.resetting \/ This.reset
    BY DEF CtlInv, Prepared
  <2> QED BY <1>2, <2>1, <2>2, <2>3 DEF Prepared
<1> QED BY <1>1, <1>2, <1>3, SameControllers

LEMMA KernelKeeps ==
  ASSUME CtlInv, Kernel \/ Launch, UNCHANGED pci PROVE CtlInv'
<1>1. UNCHANGED <<machine, at, stage, mmio, ctl>>
  BY DEF pci
<1>2. driver' = driver
  BY DEF Kernel, Launch, PmmInit, VmmInit, MapNext, Activate, GrowHeap, HeapReady, LaunchMap,
         LaunchStack, takers
<1>3. Prepared' /\ stage' \in Stages
  BY <1>1 DEF CtlInv, Prepared, This, CTypes
<1> QED BY <1>1, <1>2, <1>3, SameControllers

LEMMA Written ==
  ASSUME NEW d \in DOMAIN ctl, ctl \in [Bases(machine) -> CtlType], NEW e,
         ctl' = [ctl EXCEPT ![d] = e]
  PROVE  ctl'[d] = e
  OBVIOUS

\* Steps that write a register of the controller the driver is at.
LEMMA RegistersKeep ==
  ASSUME CtlInv, Handoff \/ ClearRun \/ Reset PROVE CtlInv'
<1>1. UNCHANGED <<machine, at, mmio, driver>>
  BY DEF Handoff, ClearRun, Reset, Goto, vars, takers
<1>2. /\ stage \in {"handoff", "stop", "await halt"}
      /\ stage' \in {"await firmware", "await halt", "await reset"} /\ stage' \in Stages
  BY DEF Handoff, ClearRun, Reset, Goto, At, Stages
<1>3. /\ mmio \in DOMAIN ctl /\ This \in CtlType /\ This.starts = 0
  BY <1>2, Current
<1>4. ctl \in [Bases(machine) -> CtlType] /\ \A b \in DOMAIN ctl : Ordered(ctl[b])
  BY OrderedIs DEF CtlInv, CTypes
<1>5. \/ ctl' = [ctl EXCEPT ![mmio] = [@ EXCEPT !.asked = TRUE]]
      \/ ctl' = [ctl EXCEPT ![mmio] = [@ EXCEPT !.run = FALSE]]
      \/ ctl' = [ctl EXCEPT ![mmio] = [@ EXCEPT !.resetting = TRUE, !.mem = <<>>]]
  BY DEF Handoff, ClearRun, Reset
<1> DEFINE c == ctl'[mmio]
<1>6. /\ c \in CtlType /\ c.starts = 0 /\ (c.mem = This.mem \/ c.mem = <<>>)
      /\ ctl' = [ctl EXCEPT ![mmio] = c]
  <2>0. <<>> \in Seq(Nat)
    OBVIOUS
  <2>1. CASE ctl' = [ctl EXCEPT ![mmio] = [@ EXCEPT !.asked = TRUE]]
    <3>1. c = [This EXCEPT !.asked = TRUE]
      BY <1>3, <1>4, <2>1, Written DEF This
    <3>2. ctl' = [ctl EXCEPT ![mmio] = c]
      BY <2>1, <3>1 DEF This
    <3> HIDE DEF c
    <3> QED BY <1>3, <3>1, <3>2 DEF CtlType
  <2>2. CASE ctl' = [ctl EXCEPT ![mmio] = [@ EXCEPT !.run = FALSE]]
    <3>1. c = [This EXCEPT !.run = FALSE]
      BY <1>3, <1>4, <2>2, Written DEF This
    <3>2. ctl' = [ctl EXCEPT ![mmio] = c]
      BY <2>2, <3>1 DEF This
    <3> HIDE DEF c
    <3> QED BY <1>3, <3>1, <3>2 DEF CtlType
  <2>3. CASE ctl' = [ctl EXCEPT ![mmio] = [@ EXCEPT !.resetting = TRUE, !.mem = <<>>]]
    <3>1. c = [This EXCEPT !.resetting = TRUE, !.mem = <<>>]
      BY <1>3, <1>4, <2>3, Written DEF This
    <3>2. ctl' = [ctl EXCEPT ![mmio] = c]
      BY <2>3, <3>1 DEF This
    <3> HIDE DEF c
    <3> QED BY <1>3, <2>0, <3>1, <3>2 DEF CtlType
  <2> QED BY <1>5, <2>1, <2>2, <2>3
<1>7. stage' = "await reset" => c.resetting
  <2>1. stage' = "await reset" => Reset
    BY DEF Handoff, ClearRun, Reset, Goto
  <2>2. Reset => c.resetting = TRUE
    BY <1>3, <1>4 DEF Reset, CtlType, This
  <2> QED BY <2>1, <2>2
<1> HIDE DEF c
<1>8. Ordered(c)
  BY <1>6 DEF Ordered
<1>9. ctl' \in [Bases(machine) -> CtlType]
  BY <1>4, <1>6
<1>10. \A b \in DOMAIN ctl : /\ ctl'[b].starts = ctl[b].starts
                             /\ ctl'[b].mem = ctl[b].mem \/ ctl'[b].mem = <<>>
                             /\ Ordered(ctl'[b])
  <2> SUFFICES ASSUME NEW b \in DOMAIN ctl
               PROVE  /\ ctl'[b].starts = ctl[b].starts
                      /\ ctl'[b].mem = ctl[b].mem \/ ctl'[b].mem = <<>>
                      /\ Ordered(ctl'[b])
    OBVIOUS
  <2>1. CASE b = mmio
    <3>1. ctl'[b] = c
      BY <1>3, <1>6, <2>1
    <3> QED BY <1>3, <1>6, <1>8, <2>1, <3>1 DEF This
  <2>2. CASE b # mmio
    <3>1. ctl'[b] = ctl[b]
      BY <1>6, <2>2
    <3> QED BY <1>4, <3>1
  <2> QED BY <2>1, <2>2
<1>11. Prepared'
  BY <1>1, <1>2, <1>7 DEF Prepared, This, c
<1> QED BY <1>1, <1>2, <1>9, <1>10, <1>11, CtlKept

\* Steps of a controller or of the firmware.
LEMMA HardwareKeeps ==
  ASSUME CtlInv, NEW d \in DOMAIN ctl,
         FirmwareReleases(d) \/ Halts(d) \/ ResetEnds(d) \/ BecomesReady(d)
  PROVE  CtlInv'
<1>1. UNCHANGED <<machine, at, stage, mmio, driver>>
  BY DEF FirmwareReleases, Halts, ResetEnds, BecomesReady, vars, takers
<1>4. /\ ctl \in [Bases(machine) -> CtlType] /\ \A b \in DOMAIN ctl : Ordered(ctl[b])
      /\ stage \in Stages /\ Prepared
  BY OrderedIs DEF CtlInv, CTypes
<1>5. \/ ctl' = [ctl EXCEPT ![d] = [@ EXCEPT !.owned = FALSE]]
      \/ ~ctl[d].run /\ ctl' = [ctl EXCEPT ![d] = [@ EXCEPT !.halted = TRUE]]
      \/ /\ ctl[d].resetting
         /\ ctl' = [ctl EXCEPT ![d] = [@ EXCEPT !.resetting = FALSE, !.notReady = TRUE,
                                                !.reset = TRUE]]
      \/ ctl[d].notReady /\ ctl' = [ctl EXCEPT ![d] = [@ EXCEPT !.notReady = FALSE]]
  BY DEF FirmwareReleases, Halts, ResetEnds, BecomesReady
<1> DEFINE c == ctl'[d]
<1>6. /\ c \in CtlType /\ c.starts = ctl[d].starts /\ c.mem = ctl[d].mem
      /\ c.scratch = ctl[d].scratch
      /\ ctl' = [ctl EXCEPT ![d] = c]
  <2>0. ctl[d] \in CtlType
    BY <1>4
  <2>1. CASE ctl' = [ctl EXCEPT ![d] = [@ EXCEPT !.owned = FALSE]]
    <3>1. c = [ctl[d] EXCEPT !.owned = FALSE]
      BY <1>4, <2>1, Written
    <3>2. ctl' = [ctl EXCEPT ![d] = c]
      BY <2>1, <3>1
    <3> HIDE DEF c
    <3> QED BY <2>0, <3>1, <3>2 DEF CtlType
  <2>2. CASE ctl' = [ctl EXCEPT ![d] = [@ EXCEPT !.halted = TRUE]]
    <3>1. c = [ctl[d] EXCEPT !.halted = TRUE]
      BY <1>4, <2>2, Written
    <3>2. ctl' = [ctl EXCEPT ![d] = c]
      BY <2>2, <3>1
    <3> HIDE DEF c
    <3> QED BY <2>0, <3>1, <3>2 DEF CtlType
  <2>3. CASE ctl' = [ctl EXCEPT ![d] = [@ EXCEPT !.resetting = FALSE, !.notReady = TRUE, !.reset = TRUE]]
    <3>1. c = [ctl[d] EXCEPT !.resetting = FALSE, !.notReady = TRUE, !.reset = TRUE]
      BY <1>4, <2>3, Written
    <3>2. ctl' = [ctl EXCEPT ![d] = c]
      BY <2>3, <3>1
    <3> HIDE DEF c
    <3> QED BY <2>0, <3>1, <3>2 DEF CtlType
  <2>4. CASE ctl' = [ctl EXCEPT ![d] = [@ EXCEPT !.notReady = FALSE]]
    <3>1. c = [ctl[d] EXCEPT !.notReady = FALSE]
      BY <1>4, <2>4, Written
    <3>2. ctl' = [ctl EXCEPT ![d] = c]
      BY <2>4, <3>1
    <3> HIDE DEF c
    <3> QED BY <2>0, <3>1, <3>2 DEF CtlType
  <2> QED BY <1>5, <2>1, <2>2, <2>3, <2>4
<1>7. /\ c.run <=> ctl[d].run
      /\ ctl[d].reset => c.reset
      /\ ctl[d].resetting => c.resetting \/ c.reset
      /\ ~ctl[d].resetting => ~c.resetting
      /\ ~ctl[d].resetting /\ ~ctl[d].notReady => ~c.notReady
  BY <1>4, <1>5, ZenonT(30) DEF CtlType
<1> HIDE DEF c
<1>8. Ordered(c)
  <2>1. Wanted(c) = Wanted(ctl[d])
    BY <1>6 DEF Wanted
  <2>2. Ordered(ctl[d])
    BY <1>4
  <2> QED BY <1>6, <1>7, <2>1, <2>2 DEF Ordered
<1>9. ctl' \in [Bases(machine) -> CtlType]
  BY <1>4, <1>6
<1>10. \A b \in DOMAIN ctl : /\ ctl'[b].starts = ctl[b].starts
                             /\ ctl'[b].mem = ctl[b].mem \/ ctl'[b].mem = <<>>
                             /\ Ordered(ctl'[b])
  <2> SUFFICES ASSUME NEW b \in DOMAIN ctl
               PROVE  /\ ctl'[b].starts = ctl[b].starts
                      /\ ctl'[b].mem = ctl[b].mem \/ ctl'[b].mem = <<>>
                      /\ Ordered(ctl'[b])
    OBVIOUS
  <2>1. CASE b = d
    <3>1. ctl'[b] = c
      BY <1>6, <2>1
    <3> QED BY <1>6, <1>8, <2>1, <3>1
  <2>2. CASE b # d
    <3>1. ctl'[b] = ctl[b]
      BY <1>6, <2>2
    <3> QED BY <1>4, <3>1
  <2> QED BY <2>1, <2>2
<1>11. Prepared'
  <2>1. CASE d = mmio
    <3>1. This' = c /\ This = ctl[d]
      BY <1>1, <2>1 DEF This, c
    <3> QED BY <1>1, <1>4, <1>7, <3>1 DEF Prepared
  <2>2. CASE d # mmio
    <3>1. stage \notin {"probe", "over"} => mmio \in DOMAIN ctl
      BY Current
    <3>2. stage \notin {"probe", "over"} => This' = This
      BY <1>1, <1>6, <2>2, <3>1 DEF This
    <3> QED BY <1>1, <1>4, <3>2 DEF Prepared
  <2> QED BY <2>1, <2>2
<1> QED BY <1>1, <1>4, <1>9, <1>10, <1>11, CtlKept

Purposes == {"contexts", "scratchpads", "scratchpad", "commands", "events", "segments"}

LEMMA WantedIs ==
  ASSUME NEW c, c.scratch \in Nat PROVE Wanted(c) \in Seq(Purposes)
<1> DEFINE pads == [i \in 1 .. c.scratch |-> "scratchpad"]
<1>1. pads \in Seq(Purposes)
  <2>1. pads \in [1 .. c.scratch -> Purposes]
    BY DEF Purposes
  <2> HIDE DEF pads
  <2> QED BY <2>1
<1> HIDE DEF pads
<1>2. "contexts" \in Purposes /\ "scratchpads" \in Purposes /\ "commands" \in Purposes
      /\ "events" \in Purposes /\ "segments" \in Purposes
  BY DEF Purposes
<1>3. <<"scratchpads">> \o pads \in Seq(Purposes)
  BY <1>1, <1>2
<1> DEFINE middle == IF c.scratch = 0 THEN <<>> ELSE <<"scratchpads">> \o pads
<1>4. middle \in Seq(Purposes)
  <2>1. <<>> \in Seq(Purposes)
    OBVIOUS
  <2> QED BY <1>3, <2>1
<1>5. Wanted(c) = <<"contexts">> \o middle \o <<"commands", "events", "segments">>
  BY DEF Wanted, pads
<1> HIDE DEF middle
<1> QED BY <1>2, <1>4, <1>5

\* The driver takes a page, if there is one, for the controller it is at.
LEMMA GiveKeeps ==
  ASSUME CtlInv, PagesInv, TakeMemory \/ Enumerate PROVE CtlInv'
<1> DEFINE new == driver' \ driver
           r == This.mem \o SetToSeq(new)
           c == [This EXCEPT !.mem = r]
<1>1. UNCHANGED <<machine, at, stage, mmio>> /\ stage \in {"memory", "ports"}
  BY DEF TakeMemory, Enumerate, Goto, At
<1>2. /\ mmio \in DOMAIN ctl /\ This \in CtlType
      /\ This.starts = IF stage = "ports" THEN 1 ELSE 0
  BY <1>1, Current
<1>3. /\ ctl \in [Bases(machine) -> CtlType] /\ \A b \in DOMAIN ctl : Ordered(ctl[b])
      /\ stage \in Stages /\ Prepared /\ MemoryOfItsOwn
  BY OrderedIs DEF CtlInv, CTypes
<1>4. \E cleared : TakePage(cleared)
  BY DEF TakeMemory, Enumerate
<1>5. /\ driver \subseteq driver' /\ driver \subseteq Nat
      /\ new = {} \/ \E p \in Nat : new = {p}
  BY <1>4, DriverTakes
<1>6. ctl' = [ctl EXCEPT ![mmio] = c]
  BY DEF TakeMemory, Enumerate, Give, This
<1>7. /\ This.mem \in Seq(Nat) /\ IsInjective(This.mem) /\ Range(This.mem) \subseteq driver
  BY <1>2, <1>3 DEF CtlType, MemoryOfItsOwn, This
<1> HIDE DEF new
<1>8. /\ r \in Seq(Nat) /\ Len(r) >= Len(This.mem) /\ IsInjective(r)
      /\ Range(r) = Range(This.mem) \cup new
  <2>1. Range(This.mem) \cap new = {}
    BY <1>7 DEF new
  <2> QED BY <1>5, <1>7, <2>1, GivenIs
<1> HIDE DEF r
<1>9. /\ c \in CtlType /\ c.mem = r /\ c.starts = This.starts /\ c.scratch = This.scratch
      /\ (c.run <=> This.run) /\ (c.reset <=> This.reset)
      /\ (c.resetting <=> This.resetting) /\ (c.notReady <=> This.notReady)
  BY <1>2, <1>8 DEF CtlType
<1> HIDE DEF c
<1>10. Ordered(c)
  <2>1. Wanted(c) = Wanted(This)
    BY <1>9 DEF Wanted
  <2>2. Ordered(This)
    BY <1>2, <1>3 DEF This
  <2>3. Len(Wanted(This)) \in Nat /\ Len(This.mem) \in Nat /\ Len(r) \in Nat
    <3>1. This.scratch \in Nat
      BY <1>2 DEF CtlType
    <3>2. Wanted(This) \in Seq(Purposes)
      BY <3>1, WantedIs
    <3> QED BY <1>7, <1>8, <3>2
  <2> QED BY <1>8, <1>9, <2>1, <2>2, <2>3 DEF Ordered
<1>11. ctl' \in [Bases(machine) -> CtlType] /\ DOMAIN ctl' = DOMAIN ctl
  BY <1>3, <1>6, <1>9
<1>12. \A b \in DOMAIN ctl : ctl'[b] = IF b = mmio THEN c ELSE ctl[b]
  BY <1>3, <1>6
<1>13. \A b \in DOMAIN ctl : ctl'[b].starts = ctl[b].starts /\ Ordered(ctl'[b])
  <2> SUFFICES ASSUME NEW b \in DOMAIN ctl
               PROVE  ctl'[b].starts = ctl[b].starts /\ Ordered(ctl'[b])
    OBVIOUS
  <2>1. CASE b = mmio
    BY <1>9, <1>10, <1>12, <2>1 DEF This
  <2>2. CASE b # mmio
    BY <1>3, <1>12, <2>2
  <2> QED BY <2>1, <2>2
<1>14. CTypes' /\ Scanned' /\ StartedInOrder'
  BY <1>1, <1>3, <1>11, <1>13, ScanKept
<1>15. MemoryOfItsOwn'
  <2> DEFINE Own(b) == Range(ctl[b].mem)
  <2>1. \A b \in DOMAIN ctl :
          /\ IsInjective(ctl[b].mem) /\ Own(b) \subseteq driver
          /\ \A d \in DOMAIN ctl \ {b} : Own(b) \cap Own(d) = {}
    BY <1>3 DEF MemoryOfItsOwn
  <2>2. ASSUME NEW b \in DOMAIN ctl
        PROVE  /\ IsInjective(ctl'[b].mem)
               /\ Range(ctl'[b].mem) = IF b = mmio THEN Own(b) \cup new ELSE Own(b)
    <3>1. CASE b = mmio
      BY <1>8, <1>9, <1>12, <3>1 DEF This
    <3>2. CASE b # mmio
      BY <1>12, <2>1, <3>2
    <3> QED BY <3>1, <3>2
  <2> HIDE DEF Own
  <2>3. new \subseteq driver' /\ new \cap driver = {}
    BY DEF new
  <2>4. ASSUME NEW b \in DOMAIN ctl
        PROVE  Range(ctl'[b].mem) \subseteq driver'
    BY <1>5, <2>1, <2>2, <2>3
  <2>5. ASSUME NEW b \in DOMAIN ctl, NEW d \in DOMAIN ctl \ {b}
        PROVE  Range(ctl'[b].mem) \cap Range(ctl'[d].mem) = {}
    <3>1. Own(b) \cap Own(d) = {} /\ Own(b) \cap new = {} /\ Own(d) \cap new = {}
      BY <2>1, <2>3
    <3>2. b # mmio \/ d # mmio
      OBVIOUS
    <3> QED BY <2>2, <3>1, <3>2
  <2> QED BY <1>11, <2>2, <2>4, <2>5 DEF MemoryOfItsOwn
<1>16. Prepared'
  <2>1. This' = c
    BY <1>1, <1>2, <1>12 DEF This
  <2> QED BY <1>1, <1>3, <1>9, <2>1 DEF Prepared
<1> QED BY <1>14, <1>15, <1>16 DEF CtlInv

\* A controller is started, once, with all it wants.
LEMMA RunKeeps ==
  ASSUME CtlInv, Run PROVE CtlInv'
<1> DEFINE c == [This EXCEPT !.run = TRUE, !.halted = FALSE, !.starts = @ + 1]
<1>1. /\ UNCHANGED <<machine, at, mmio, driver>> /\ stage = "memory" /\ stage' = "ports"
      /\ Len(This.mem) = Len(Wanted(This))
  BY DEF Run, Goto, At, vars, takers
<1>2. /\ mmio \in DOMAIN ctl /\ This \in CtlType /\ This.starts = 0
      /\ at.slot \in 0 .. LastSlot /\ at.func \in 0 .. LastFunc
      /\ IsXhci(at.slot, at.func) /\ mmio = RegsOf(at.slot, at.func)
  BY <1>1, Current
<1>3. /\ ctl \in [Bases(machine) -> CtlType] /\ \A b \in DOMAIN ctl : Ordered(ctl[b])
      /\ CTypes /\ Scanned /\ Prepared /\ MemoryOfItsOwn /\ machine \in Machines
  BY OrderedIs DEF CtlInv, CTypes
<1>4. ctl' = [ctl EXCEPT ![mmio] = c]
  BY DEF Run, This
<1>5. /\ c \in CtlType /\ c.starts = 1 /\ c.mem = This.mem /\ c.scratch = This.scratch
      /\ c.run /\ c.reset = This.reset
      /\ c.resetting = This.resetting /\ c.notReady = This.notReady
  <2>1. c = [This EXCEPT !.run = TRUE, !.halted = FALSE, !.starts = 1]
    BY <1>2
  <2> HIDE DEF c
  <2> QED BY <1>2, <2>1 DEF CtlType
<1> HIDE DEF c
<1>6. Ordered(c)
  <2>1. Wanted(c) = Wanted(This)
    BY <1>5 DEF Wanted
  <2>2. This.reset /\ ~This.resetting /\ ~This.notReady
    BY <1>1, <1>3 DEF Prepared
  <2>3. Len(This.mem) \in Nat
    BY <1>2 DEF CtlType
  <2> QED BY <1>1, <1>5, <2>1, <2>2, <2>3 DEF Ordered
<1>7. /\ ctl' \in [Bases(machine) -> CtlType] /\ DOMAIN ctl' = DOMAIN ctl
      /\ DOMAIN ctl = Bases(machine)
  BY <1>3, <1>4, <1>5
<1>8. \A b \in DOMAIN ctl : ctl'[b] = IF b = mmio THEN c ELSE ctl[b]
  BY <1>3, <1>4
<1>9. CTypes'
  BY <1>1, <1>3, <1>7 DEF CTypes, Stages
<1>10. Scanned'
  <2>1. \A s, f : IsXhci(s, f)' = IsXhci(s, f) /\ RegsOf(s, f)' = RegsOf(s, f)
    BY <1>1 DEF IsXhci, RegsOf
  <2>2. ASSUME NEW s \in 0 .. LastSlot, NEW f \in 0 .. LastFunc, IsXhci(s, f)
        PROVE  ctl'[RegsOf(s, f)].starts = IF Passed(s, f)' THEN 1 ELSE 0
    <3>1. RegsOf(s, f) \in DOMAIN ctl
      BY <1>3, <1>7, <2>2, MachineIs
    <3>2. ctl[RegsOf(s, f)].starts = IF Passed(s, f) THEN 1 ELSE 0
      BY <1>3, <2>2 DEF Scanned
    <3>3. CASE s = at.slot /\ f = at.func
      <4>1. Passed(s, f)'
        BY <1>1, <3>3 DEF Passed
      <4>2. ctl'[RegsOf(s, f)] = c
        BY <1>2, <1>8, <3>1, <3>3
      <4> QED BY <1>5, <4>1, <4>2
    <3>4. CASE ~(s = at.slot /\ f = at.func)
      <4>1. Passed(s, f)' <=> Passed(s, f)
        BY <1>1, <3>4 DEF Passed
      <4>2. RegsOf(s, f) # mmio
        BY <1>2, <1>3, <2>2, <3>4, MachineIs
      <4>3. ctl'[RegsOf(s, f)] = ctl[RegsOf(s, f)]
        BY <1>8, <3>1, <4>2
      <4> QED BY <3>2, <4>1, <4>3
    <3> QED BY <3>3, <3>4
  <2>3. \A s \in 0 .. LastSlot, f \in 0 .. LastFunc :
          IsXhci(s, f)' => ctl'[RegsOf(s, f)'].starts = IF Passed(s, f)' THEN 1 ELSE 0
    BY <2>1, <2>2
  <2>4. at'.func > 0 => machine'[at'.slot].multi \/ machine'[at'.slot].functions[0].class = "none"
    BY <1>1, <1>3 DEF Scanned
  <2> QED BY <1>1, <1>2, <2>1, <2>3, <2>4 DEF Scanned
<1>11. StartedInOrder'
  <2>1. ASSUME NEW b \in DOMAIN ctl PROVE Ordered(ctl'[b])
    <3>1. CASE b = mmio
      BY <1>6, <1>8, <3>1
    <3>2. CASE b # mmio
      BY <1>3, <1>8, <3>2
    <3> QED BY <3>1, <3>2
  <2> QED BY <1>7, <2>1 DEF StartedInOrder, Ordered, Wanted
<1>12. MemoryOfItsOwn'
  <2>1. \A b \in DOMAIN ctl : ctl'[b].mem = ctl[b].mem
    BY <1>5, <1>8 DEF This
  <2> QED BY <1>1, <1>3, <1>7, <2>1 DEF MemoryOfItsOwn
<1>13. Prepared'
  BY <1>1 DEF Prepared
<1> QED BY <1>9, <1>10, <1>11, <1>12, <1>13 DEF CtlInv

-----------------------------------------------------------------------------
LEMMA InitPrepares == CInit => CtlInv
<1> SUFFICES ASSUME CInit PROVE CtlInv
  OBVIOUS
<1>1. PICK running, owned \in BOOLEAN, n \in Scratchpads :
        ctl = [b \in Bases(machine) |->
                [run |-> running, halted |-> ~running, resetting |-> FALSE,
                 notReady |-> FALSE, owned |-> owned, asked |-> FALSE,
                 scratch |-> n, mem |-> <<>>, reset |-> FALSE, starts |-> 0]]
  BY DEF CInit
<1>2. machine \in Machines /\ at = [slot |-> 0, func |-> 0] /\ stage = "probe"
  BY DEF CInit
<1>3. n \in Nat /\ LastSlot \in Nat /\ LastFunc \in Nat
  BY ControllersAssumption
<1>4. <<>> \in Seq(Nat)
  OBVIOUS
<1>5. \A b \in Bases(machine) : ctl[b].starts = 0 /\ ctl[b].mem = <<>>
  BY <1>1
<1>6. DOMAIN ctl = Bases(machine)
  BY <1>1
<1>7. ctl \in [Bases(machine) -> CtlType]
  BY <1>1, <1>3, <1>4 DEF CtlType
<1>8. CTypes
  BY <1>2, <1>3, <1>7 DEF CTypes, Stages
<1>9. Scanned
  <2>1. ASSUME NEW s \in 0 .. LastSlot, NEW f \in 0 .. LastFunc, IsXhci(s, f)
        PROVE  ctl[RegsOf(s, f)].starts = IF Passed(s, f) THEN 1 ELSE 0
    <3>1. RegsOf(s, f) \in Bases(machine)
      BY <1>2, <2>1, MachineIs
    <3>2. ~Passed(s, f)
      BY <1>2, <1>3 DEF Passed
    <3> QED BY <1>5, <3>1, <3>2
  <2> QED BY <1>2, <2>1 DEF Scanned
<1>10. Prepared
  BY <1>2 DEF Prepared
<1>11. StartedInOrder
  BY <1>5, <1>6 DEF StartedInOrder
<1>12. MemoryOfItsOwn
  BY <1>5, <1>6 DEF MemoryOfItsOwn, IsInjective, Range
<1> QED BY <1>8, <1>9, <1>10, <1>11, <1>12 DEF CtlInv

LEMMA NextKeepsControllers == PagesInv /\ CtlInv /\ [CNext]_cvars => CtlInv'
<1> SUFFICES ASSUME PagesInv, CtlInv, [CNext]_cvars PROVE CtlInv'
  OBVIOUS
<1>1. CASE (Kernel \/ Launch) /\ UNCHANGED pci
  BY <1>1, KernelKeeps
<1>2. CASE Probe \/ Enumerated
  BY <1>2, ProbeKeeps, EnumeratedKeeps
<1>3. CASE MapRegisters \/ FirmwareAwaited \/ ResetAwaited
  BY <1>3, WaitsKeep
<1>4. CASE Handoff \/ ClearRun \/ Reset
  BY <1>4, RegistersKeep
<1>5. CASE TakeMemory \/ Enumerate
  BY <1>5, GiveKeeps
<1>6. CASE Run
  BY <1>6, RunKeeps
<1>7. CASE \E b \in DOMAIN ctl :
             FirmwareReleases(b) \/ Halts(b) \/ ResetEnds(b) \/ BecomesReady(b)
  BY <1>7, HardwareKeeps
<1>8. CASE UNCHANGED cvars
  <2>1. UNCHANGED <<machine, at, stage, mmio, ctl, driver>>
    BY <1>8 DEF cvars, pci, vars, takers
  <2>2. Prepared' /\ stage' \in Stages
    BY <2>1 DEF CtlInv, Prepared, This, CTypes
  <2> QED BY <2>1, <2>2, SameControllers
<1> QED BY <1>1, <1>2, <1>3, <1>4, <1>5, <1>6, <1>7, <1>8 DEF CNext, Driver

THEOREM ControllerInvariant == CSpec => []CtlInv
<1>1. CInit => CtlInv
  BY InitPrepares
<1>2. PagesInv /\ CtlInv /\ [CNext]_cvars => CtlInv'
  BY NextKeepsControllers
<1> QED BY <1>1, <1>2, PagesInvariant, PTL DEF CSpec

\* A controller runs only after a reset that has ended, with all the memory it
\* wants and of its own; none is started twice, and none is left out.
THEOREM ControllersSound == CSpec => []ControllersInv
<1>1. CtlInv => ControllersInv
  <2> SUFFICES ASSUME CtlInv PROVE StartedOnce
    BY DEF CtlInv, ControllersInv
  <2>1. CTypes /\ Scanned /\ DOMAIN ctl = Bases(machine)
    BY DEF CtlInv, CTypes
  <2>2. ASSUME NEW b \in DOMAIN ctl
        PROVE  ctl[b].starts <= 1 /\ (stage = "over" => ctl[b].starts = 1)
    <3>1. DOMAIN machine = 0 .. LastSlot
      BY <2>1, ControllersAssumption DEF CTypes
    <3>2. PICK s \in 0 .. LastSlot, f \in 0 .. LastFunc : IsXhci(s, f) /\ RegsOf(s, f) = b
      BY <2>1, <3>1 DEF Bases, IsXhci, RegsOf
    <3>3. ctl[b].starts = IF Passed(s, f) THEN 1 ELSE 0
      BY <2>1, <3>2 DEF Scanned
    <3>4. stage = "over" => Passed(s, f)
      BY DEF Passed
    <3> QED BY <3>3, <3>4
  <2> QED BY <2>2 DEF StartedOnce
<1> QED BY <1>1, ControllerInvariant, PTL

=============================================================================
