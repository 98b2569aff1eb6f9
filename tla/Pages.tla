-------------------------------- MODULE Pages --------------------------------
(***************************************************************************)
(* Physical pages and page tables: the bitmap allocator mem/pmm.c, the     *)
(* four-level page tables of mem/vmm.c, and those who use them: the boot   *)
(* sequence (core/main.c), which maps memory page by page and then grows   *)
(* the heap, the drivers, which take pages for their rings and map device  *)
(* registers, and the launch of the ring-3 task (core/usermode.c).         *)
(*                                                                         *)
(* The three depend on each other in a circle: the bitmap lies in the      *)
(* region it describes, a mapping takes pages for its tables, and a table  *)
(* can only be written where it is mapped.                                 *)
(*                                                                         *)
(* The steps of the driver that takes the pages are in Controllers, which  *)
(* also has the next-state relation.                                       *)
(*                                                                         *)
(* Abstractions: addresses are page numbers; a table has Fan entries; a    *)
(* step is one call of VMM_MapPage, with the allocation it is for.         *)
(***************************************************************************)
EXTENDS Naturals, FiniteSets, FiniteSetsExt, Sequences, SequencesExt

CONSTANTS
  Regions,      \* sizes the free region may have, in pages
  Base,         \* LargestFreeRegion.Base
  PageBytes,    \* bytes of a page (4096)
  PerByte,      \* pages that one byte of the bitmap describes (8)
  Fan,          \* entries of a table (512)
  Low,          \* pages of the identity map of low memory (128 MiB)
  Window,       \* most pages of the region that boot maps (256 MiB)
  Others,       \* framebuffer, kernel image and stack: pages outside the region
  HeapPages,    \* pages of the kernel heap
  Mmio,         \* the registers of the devices
  UserVa        \* the code page of the ring-3 task; data and stack follow

UserVas == UserVa .. UserVa + 2

ASSUME PagesAssumption ==
  /\ Regions \subseteq Nat \ {0} /\ PageBytes \in Nat \ {0} /\ Fan \in Nat \ {0, 1}
  /\ PerByte \in Nat \ {0} /\ Window \in Nat \ {0} /\ HeapPages \in Nat \ {0}
  /\ Base \in Nat \ {0} /\ Low \in 1 .. Base + Window
  /\ Others \subseteq Nat /\ IsFiniteSet(Others) /\ Mmio \subseteq Nat /\ UserVa \in Nat
  /\ \A r \in Regions : (Others \cup Mmio \cup UserVas) \cap (Base .. Base + r - 1) = {}
  /\ UserVas \cap (0 .. Low - 1 \cup Others \cup Mmio) = {}

VARIABLES
  region,    \* number of pages of the region
  used,      \* pages of the region whose bit in the bitmap is set
  pc,        \* where the kernel is
  todo,      \* the pages boot still has to map
  pml4,      \* kernel_pml4: the page of the root table
  tables,    \* the pages of the other tables, by level and part of the space
  forUser,   \* the tables whose parent entry has PAGE_USER
  leaf,      \* page table entries: the page, and whether PAGE_USER is set
  active,    \* whether the CPU uses these tables (before, it has the loader's)
  heap,      \* the pages of the heap
  driver,    \* pages drivers have taken; none is given back
  user,      \* the code, data and stack page of the ring-3 task
  kstack     \* its page for TSS.rsp0

boot   == <<region, todo>>
paging == <<pml4, tables, forUser, leaf>>
takers == <<heap, driver, user, kstack>>
vars   == <<boot, used, pc, paging, active, takers>>

Null  == 0                                   \* no page of the region
Pages == Base .. Base + region - 1
InWindow == Base .. Base + Min({region, Window}) - 1

Init ==
  /\ region \in Regions /\ used = {} /\ pc = "pmm" /\ todo = <<>>
  /\ pml4 = Null /\ tables = <<>> /\ forUser = {} /\ leaf = <<>> /\ active = FALSE
  /\ heap = <<>> /\ driver = {} /\ user = <<>> /\ kstack = Null

-----------------------------------------------------------------------------
(* mem/pmm.c *)

\* Seeded fault: the search runs down from the top.
AllocateTop(n, taken) ==
  LET f == (Pages \ used) \ taken
  IN {p \in f : Cardinality({q \in f : q >= p}) <= n}

\* The pages n calls of PMM_AllocatePage return after those that returned taken:
\* the lowest with a clear bit, fewer than n if there are no more.
Allocate(n, taken) ==
  LET f == (Pages \ used) \ taken
  IN {p \in f : Cardinality({q \in f : q <= p}) <= n}

PagesFor(bytes) == (bytes + PageBytes - 1) \div PageBytes

\* The pages PMM_Init puts the bitmap in: a last byte may describe fewer pages.
Bitmap == Base .. Base + PagesFor((region + PerByte - 1) \div PerByte) - 1

\* The pages main.c reserves for it: without that byte, but at least one.
Reserved ==
  LET n == PagesFor(region \div PerByte)
  IN Base .. Base + (IF n = 0 THEN 1 ELSE n) - 1

\* Seeded fault: the pages of the bitmap are handed out too.
PmmInitAll ==
  /\ pc = "pmm" /\ pc' = "vmm"
  /\ used' = {}
  /\ UNCHANGED <<boot, paging, active, takers>>

\* PMM_Init marks every page, PMM_FreePages frees what is behind the reserved ones.
PmmInit ==
  /\ pc = "pmm" /\ pc' = "vmm"
  /\ used' = Reserved
  /\ UNCHANGED <<boot, paging, active, takers>>

-----------------------------------------------------------------------------
(* mem/vmm.c *)

Levels  == 1 .. 3      \* page table, page directory, page directory pointers
Span(l) == Fan ^ l
Path(v) == {<<l, v \div Span(l)>> : l \in Levels}

Mapped(p) == p \in DOMAIN leaf /\ leaf[p].page = p
Touches(S) == active => \A p \in S : Mapped(p)

Stop(how, taken) == pc' = how /\ used' = used \cup taken /\ UNCHANGED paging

\* Seeded fault: only new entries get PAGE_USER.
OpenedByNew(v, isUser) == IF isUser THEN Path(v) \ DOMAIN tables ELSE {}

\* New entries get PAGE_USER from the mapping, existing ones are upgraded.
OpenedBy(v, isUser) == IF isUser THEN Path(v) ELSE {}

\* The kernel maps v to p and goes on at next; taken is what this step has
\* allocated before.  Missing tables are allocated from the root down; nobody
\* looks at whether there was a page, and without one the table is laid over
\* page 0.  Writing a table that is not mapped is a page fault.
MapPage(v, p, isUser, taken, next) ==
  LET missing == Path(v) \ DOMAIN tables
      fresh   == Allocate(Cardinality(missing), taken)
      place(k) == CHOOSE q \in fresh :
                    Cardinality({r \in fresh : r <= q})
                      = Cardinality({m \in missing : m[1] >= k[1]})
  IN IF Cardinality(fresh) < Cardinality(missing)
     THEN Stop("astray", taken \cup fresh)
     ELSE IF ~Touches({pml4} \cup fresh \cup {tables[k] : k \in Path(v) \ missing})
     THEN Stop("fault", taken \cup fresh)
     ELSE /\ pc' = next
          /\ used' = used \cup fresh \cup taken
          /\ tables' = [k \in DOMAIN tables \cup missing |->
                          IF k \in missing THEN place(k) ELSE tables[k]]
          /\ forUser' = forUser \cup OpenedBy(v, isUser)
          /\ leaf' = [w \in DOMAIN leaf \cup {v} |->
                        IF w = v THEN [page |-> p, user |-> isUser] ELSE leaf[w]]
          /\ UNCHANGED pml4

-----------------------------------------------------------------------------
(* The boot sequence of core/main.c. *)

From(a, n) == [i \in 1 .. n |-> a + i - 1]

\* Seeded fault: the region itself is not mapped.
BootPagesNoRegion == From(0, Low) \o SetToSeq(Others)

\* What boot maps to itself: low memory, the region, the rest.
BootPages ==
  From(0, Low) \o From(Base, Min({region, Window})) \o SetToSeq(Others)

\* VMM_Init clears the page it gets.  One that holds the end of the bitmap is from
\* now on both, and what the two do to each other is not followed any further.
VmmInit ==
  /\ pc = "vmm"
  /\ LET root == Allocate(1, {})
     IN IF root = {}
        THEN Stop("astray", root) /\ UNCHANGED todo
        ELSE /\ pml4' = Min(root) /\ used' = used \cup root
             /\ pc' = IF root \cap Bitmap = {} THEN "map" ELSE "overlap"
             /\ todo' = BootPages
             /\ UNCHANGED <<tables, forUser, leaf>>
  /\ UNCHANGED <<region, active, takers>>

MapNext ==
  /\ pc = "map" /\ todo # <<>>
  /\ MapPage(Head(todo), Head(todo), FALSE, {}, "map")
  /\ todo' = Tail(todo)
  /\ UNCHANGED <<region, active, takers>>

Activate ==
  /\ pc = "map" /\ todo = <<>>
  /\ active' = TRUE /\ pc' = "heap"
  /\ UNCHANGED <<boot, used, paging, takers>>

\* The heap grows page by page; each page has to follow the one before it.
GrowHeap ==
  /\ pc = "heap" /\ Len(heap) < HeapPages
  /\ LET got == Allocate(1, {})
         p   == Min(got)
     IN IF got = {}
        THEN Stop("noMemory", got) /\ UNCHANGED heap
        ELSE IF heap # <<>> /\ p # heap[1] + Len(heap)
        THEN Stop("scattered", got) /\ UNCHANGED heap
        ELSE MapPage(p, p, FALSE, got, "heap") /\ heap' = Append(heap, p)
  /\ UNCHANGED <<boot, active, driver, user, kstack>>

\* Heap_Init writes the first header.
HeapReady ==
  /\ pc = "heap" /\ Len(heap) = HeapPages
  /\ pc' = IF Touches({heap[1]}) THEN "drivers" ELSE "fault"
  /\ UNCHANGED <<boot, used, paging, active, takers>>

-----------------------------------------------------------------------------
(* Drivers take pages and map registers; later the user may start the task. *)

\* A page for a ring, a context or a buffer is cleared through its own address; a
\* scratchpad page is only passed on.  xhci_init does not look at what it got.
TakePage(cleared) ==
  /\ pc = "drivers"
  /\ LET got == Allocate(1, {})
     IN IF got = {} THEN Stop("astray", got) /\ UNCHANGED driver
        ELSE IF cleared /\ ~Touches(got) THEN Stop("fault", got) /\ UNCHANGED driver
        ELSE /\ used' = used \cup got /\ driver' = driver \cup got
             /\ UNCHANGED <<pc, paging>>
  /\ UNCHANGED <<boot, active, heap, user, kstack>>

MapDevice(v) ==
  /\ pc = "drivers"
  /\ MapPage(v, v, FALSE, {}, "drivers")
  /\ UNCHANGED <<boot, active, takers>>

\* usermode_launch: three pages, or none and the task is over.
Launch ==
  /\ pc = "drivers"
  /\ LET got == Allocate(3, {})
     IN /\ used' = used \cup got
        /\ IF Cardinality(got) < 3
           THEN pc' = "over" /\ UNCHANGED user
           ELSE pc' = "map code" /\ user' = <<Min(got), Min(got \ {Min(got)}), Max(got)>>
  /\ UNCHANGED <<boot, paging, active, heap, driver, kstack>>

LaunchMap ==
  /\ \/ pc = "map code"  /\ MapPage(UserVa, user[1], TRUE, {}, "map data")
     \/ pc = "map data"  /\ MapPage(UserVa + 1, user[2], TRUE, {}, "map stack")
     \/ pc = "map stack" /\ MapPage(UserVa + 2, user[3], TRUE, {}, "map rsp0")
  /\ UNCHANGED <<boot, active, takers>>

\* The stack for TSS.rsp0, mapped wherever it lies.
LaunchStack ==
  /\ pc = "map rsp0"
  /\ LET got == Allocate(1, {})
     IN IF got = {}
        THEN Stop("over", got) /\ UNCHANGED kstack
        ELSE MapPage(Min(got), Min(got), FALSE, got, "ring3") /\ kstack' = Min(got)
  /\ UNCHANGED <<boot, active, heap, driver, user>>

-----------------------------------------------------------------------------
(* Properties. *)

TablePages == {tables[k] : k \in DOMAIN tables}

Holdings == <<Reserved, {pml4} \ {Null}, TablePages, Range(heap), driver, Range(user),
              {kstack} \ {Null}>>

\* Every page has one use -- reserved for the bitmap, a table, the heap, a driver,
\* the task -- whichever of them asked in which order, and none is ever on offer
\* again.  What main.c reserves is the bitmap, except where the last byte of the
\* bitmap describes fewer pages than a byte can and is the first byte of a page
\* (but not of the first): that one page is free, and the first allocation of all
\* makes it the root table, bitmap that it is.
OneUse ==
  pc # "pmm" =>
    /\ \A i, j \in DOMAIN Holdings : i # j => Holdings[i] \cap Holdings[j] = {}
    /\ \A j, k \in DOMAIN tables : j # k => tables[j] # tables[k]
    /\ \A i \in DOMAIN Holdings : Holdings[i] \subseteq used
    /\ pc # "vmm" => (pc = "overlap" <=> Bitmap # Reserved)
    /\ pc = "overlap" => Bitmap \ Reserved = {pml4}

\* The kernel touches a page it has not mapped only when every page of the
\* region that boot mapped is taken: the part of a region beyond the window is
\* handed out last, although nothing in the drivers or in VMM_MapPage asks
\* whether a page they got is mapped.
FaultsOnlyBeyondWindow == pc = "fault" => InWindow \subseteq used

\* The heap is in one piece: VMM_MapPage, called between two allocations of the
\* loop, never takes the page that has to come next ("FATAL: heap pages not
\* contiguous" does not happen).
HeapInOnePiece == pc # "scattered"

\* What ring 3 can reach: user entries on all four levels.
UserReaches == {v \in DOMAIN leaf : leaf[v].user /\ Path(v) \subseteq forUser}

\* The ring-3 task reaches its own three pages, all of them once it runs, and
\* nothing of the kernel, although its tables are shared with kernel mappings
\* and the entries that lead to them are opened to ring 3.
RingThreeSees ==
  /\ \A v \in UserReaches : v \in UserVas /\ leaf[v].page \in Range(user)
  /\ pc = "ring3" => UserVas \subseteq UserReaches
==============================================================================
