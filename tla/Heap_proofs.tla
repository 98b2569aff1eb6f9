------------------------------ MODULE Heap_proofs ------------------------------
(***************************************************************************)
(* Proofs about the kernel heap, for every heap size, header size and set  *)
(* of requested sizes, and about those who call it (KernelHeap), for every *)
(* framebuffer, stack and set of files.                                    *)
(*                                                                         *)
(* The inductive invariant is HeapInv: the nodes tile the heap, every      *)
(* block lies in a node of its own, and what the walk in progress has      *)
(* passed is as the end of the walk needs it.  The last part is needed     *)
(* because kfree leaves neighbours unmerged until its walk reaches them.   *)
(* The last part is about the PNG decoder: the filters of the standard are *)
(* undone, row after row, by recursive functions.  Climb is the induction. *)
(***************************************************************************)
EXTENDS KernelHeap, SequenceTheorems, WellFoundedInduction, TLAPS

\* Heap_Init makes one free node of the whole heap.
LEMMA HeapInit == Init => HeapInv
<1> SUFFICES ASSUME Init PROVE HeapInv
  OBVIOUS
<1> USE HeapAssumption DEF Init, Addrs, Null
<1>1. TypeOK
  BY DEF TypeOK
<1>2. Tiles
  BY DEF Tiles, End
<1>3. BlocksOwned
  BY DEF BlocksOwned
<1>4. WalkInv
  BY DEF WalkInv, Mergeable
<1> QED BY <1>1, <1>2, <1>3, <1>4 DEF HeapInv

\* Calls and steps that leave the list and the blocks alone.
LEMMA CallMallocInv == ASSUME HeapInv, NEW n \in Nat, CallMalloc(n) PROVE HeapInv'
<1> USE HeapAssumption DEF HeapInv, CallMalloc, list
<1>1. TypeOK'
  BY DEF TypeOK, Tiles
<1>2. Tiles' /\ BlocksOwned'
  BY DEF Tiles, End, BlocksOwned
<1>3. WalkInv'
  BY DEF WalkInv, Passed, Fits, Mergeable, Null, TypeOK, Addrs
<1> QED BY <1>1, <1>2, <1>3

\* What lies before the successor of a node is the node or lies before it.
LEMMA Between ==
  ASSUME TypeOK, Tiles, NEW a \in nodes, NEW b \in nodes,
         next[a] = Null \/ b < next[a]
  PROVE  b <= a
<1> USE HeapAssumption DEF TypeOK, Addrs, Null, End
<1>1. SUFFICES ASSUME a < b PROVE FALSE
  OBVIOUS
<1>2. End(a) <= b
  BY <1>1 DEF Tiles
<1>3. CASE next[a] = Null
  BY <1>2, <1>3 DEF Tiles
<1>4. CASE next[a] # Null
  BY <1>2, <1>4 DEF Tiles
<1> QED BY <1>3, <1>4

\* Passing over a node that does not fit.
LEMMA MallocSkipInv == HeapInv /\ MallocSkip => HeapInv'
<1> SUFFICES ASSUME HeapInv, MallocSkip PROVE HeapInv'
  OBVIOUS
<1> USE HeapAssumption DEF HeapInv, MallocSkip, list
<1>1. TypeOK'
  BY DEF TypeOK
<1>2. Tiles' /\ BlocksOwned'
  BY DEF Tiles, End, BlocksOwned
<1>3. ASSUME NEW a \in nodes, Passed(a)' PROVE ~Fits(a)
  <2>1. current \in nodes
    BY DEF TypeOK
  <2>2. a <= current
    BY <1>3, <2>1, Between DEF Passed
  <2>3. CASE a = current
    BY <2>3
  <2>4. CASE a < current
    BY <2>4 DEF WalkInv, Passed
  <2> QED BY <2>1, <2>2, <2>3, <2>4 DEF TypeOK, Addrs
<1>4. WalkInv'
  BY <1>3 DEF WalkInv, Fits, Mergeable
<1> QED BY <1>1, <1>2, <1>4

\* The end of the list: no memory.
LEMMA MallocFailInv == HeapInv /\ MallocFail => HeapInv'
<1> SUFFICES ASSUME HeapInv, MallocFail PROVE HeapInv'
  OBVIOUS
<1> USE DEF HeapInv, MallocFail, list, Return
<1>1. TypeOK'
  BY DEF TypeOK
<1>2. Tiles' /\ BlocksOwned'
  BY DEF Tiles, End, BlocksOwned
<1>3. WalkInv'
  BY DEF WalkInv, Mergeable
<1> QED BY <1>1, <1>2, <1>3

\* What a split does to the list, node by node.
LEMMA SplitFacts ==
  ASSUME HeapInv, current \in nodes, free[current], arg \in Nat, Split
  PROVE  /\ Rest \in Addrs /\ Rest \notin nodes /\ nodes' = nodes \cup {Rest}
         /\ size' \in [nodes' -> Nat]
         /\ size'[current] = arg /\ next'[current] = Rest /\ ~free'[current]
         /\ Rest = current + Header + arg
         /\ Rest + Header + size'[Rest] = End(current)
         /\ next'[Rest] = next[current] /\ free'[Rest]
         /\ Rest + Header <= End(current)
         /\ \A a \in nodes \ {current} :
              size'[a] = size[a] /\ next'[a] = next[a] /\ free'[a] = free[a]
<1> USE HeapAssumption DEF HeapInv, TypeOK, Addrs, Null, End
<1>1. Rest \in Nat /\ current < Rest /\ Rest + Header <= End(current)
  BY DEF Split, Rest
<1>2. End(current) <= HeapSize
  <2>1. CASE next[current] = Null
    BY <2>1 DEF Tiles
  <2>2. CASE next[current] # Null
    BY <2>2 DEF Tiles
  <2> QED BY <2>1, <2>2
<1>3. Rest \in Addrs
  BY <1>1, <1>2
<1>4. Rest \notin nodes
  BY <1>1 DEF Tiles
<1>5. size[current] - arg - Header \in Nat
  BY DEF Split
<1>6. nodes' = nodes \cup {Rest}
  BY DEF Split
<1>7. size' \in [nodes' -> Nat]
  BY <1>5 DEF Split
<1>8. /\ size'[Rest] = size[current] - arg - Header
      /\ next'[Rest] = next[current] /\ free'[Rest]
  BY <1>6 DEF Split
<1>9. /\ size'[current] = arg /\ next'[current] = Rest /\ ~free'[current]
  <2>1. current # Rest /\ current \in nodes'
    BY <1>1, <1>6
  <2>2. size'[current] = arg /\ next'[current] = Rest
    BY <2>1 DEF Split
  <2>3. ~free'[current]
    BY <2>1, Zenon DEF Split
  <2> QED BY <2>2, <2>3
<1>10. \A a \in nodes \ {current} :
          size'[a] = size[a] /\ next'[a] = next[a] /\ free'[a] = free[a]
  BY <1>4, <1>6 DEF Split
<1>11. /\ Rest = current + Header + arg
       /\ Rest + Header + size'[Rest] = End(current)
  BY <1>8 DEF Rest
<1> QED BY <1>1, <1>3, <1>4, <1>6, <1>7, <1>8, <1>9, <1>10, <1>11

\* Splitting a node keeps the heap tiled.
LEMMA SplitTiles ==
  ASSUME HeapInv, current \in nodes, free[current], arg \in Nat, Split
  PROVE  Tiles'
<1> USE HeapAssumption, SplitFacts DEF HeapInv, TypeOK, Addrs, Null
<1>1. 0 \in nodes'
  BY DEF Tiles
<1>2. ASSUME NEW a \in nodes'
      PROVE  IF next'[a] = Null THEN a + Header + size'[a] = HeapSize
                                ELSE next'[a] = a + Header + size'[a]
  <2>1. CASE a = current
    BY <2>1
  <2>2. CASE a = Rest
    BY <2>2 DEF Tiles, End
  <2>3. CASE a # current /\ a # Rest
    <3>1. a \in nodes /\ size'[a] = size[a] /\ next'[a] = next[a]
      BY <2>3
    <3> QED BY <3>1 DEF Tiles, End
  <2> QED BY <2>1, <2>2, <2>3
<1>3. ASSUME NEW a \in nodes', NEW b \in nodes', a < b
      PROVE  a + Header + size'[a] <= b
  <2>1. CASE a \in nodes /\ b \in nodes
    <3>1. a + Header + size[a] <= b
      BY <1>3, <2>1 DEF Tiles, End
    <3>2. CASE a = current
      BY <3>1, <3>2 DEF End
    <3> QED BY <2>1, <3>1, <3>2
  <2>2. CASE a = Rest /\ b \in nodes
    <3>1. current < b
      BY <1>3, <2>2
    <3>2. End(current) <= b
      BY <2>2, <3>1 DEF Tiles
    <3> QED BY <2>2, <3>2
  <2>3. CASE a \in nodes /\ b = Rest
    <3>1. CASE a = current
      BY <2>3, <3>1
    <3>2. CASE a < current
      <4>1. a + Header + size[a] <= current
        BY <2>3, <3>2 DEF Tiles, End
      <4> QED BY <2>3, <3>2, <4>1
    <3>3. CASE a > current
      <4>1. End(current) <= a
        BY <2>3, <3>3 DEF Tiles
      <4> QED BY <1>3, <2>3, <4>1 DEF End
    <3> QED BY <2>3, <3>1, <3>2, <3>3
  <2>4. CASE a = Rest /\ b = Rest
    BY <1>3, <2>4
  <2> QED BY <2>1, <2>2, <2>3, <2>4
<1> QED BY <1>1, <1>2, <1>3 DEF Tiles, End

\* Taking a node that fits, split or whole.
LEMMA MallocTakeInv == HeapInv /\ MallocTake => HeapInv'
<1> SUFFICES ASSUME HeapInv, MallocTake PROVE HeapInv'
  OBVIOUS
<1>0. /\ current \in nodes /\ free[current] /\ size[current] >= arg /\ arg \in Nat
      /\ ret' = current + Header /\ op' = "idle" /\ current' = Null /\ arg' = 0
      /\ blocks' = blocks \cup {[ptr |-> ret', len |-> arg]}
  BY DEF HeapInv, TypeOK, MallocTake, Fits, Return
<1>1. \A a \in nodes : ~Mergeable(a)
  BY DEF MallocTake, HeapInv, WalkInv
<1> USE HeapAssumption DEF HeapInv, TypeOK, Addrs, Null
<1>2. ASSUME NEW b \in blocks PROVE b.ptr - Header # current
  BY <1>0 DEF BlocksOwned
<1>3. CASE Split
  <2> USE SplitFacts
  <2>1. /\ nodes' \subseteq Addrs
        /\ next' \in [nodes' -> nodes' \cup {Null}]
        /\ free' \in [nodes' -> BOOLEAN]
    BY <1>0, <1>3 DEF Split
  <2>2. TypeOK'
    BY <1>0, <1>3, <2>1
  <2>3. Tiles'
    BY <1>0, <1>3, SplitTiles
  <2>4. BlocksOwned'
    <3> SUFFICES ASSUME NEW b \in blocks'
                 PROVE  /\ b.ptr - Header \in nodes' /\ ~free'[b.ptr - Header]
                        /\ b.len <= size'[b.ptr - Header]
                        /\ \A c \in blocks' : c.ptr = b.ptr => c = b
      BY DEF BlocksOwned
    <3>1. CASE b \in blocks
      BY <1>0, <1>2, <1>3, <3>1 DEF BlocksOwned
    <3>2. CASE b = [ptr |-> ret', len |-> arg]
      BY <1>0, <1>2, <1>3, <3>2 DEF BlocksOwned
    <3> QED BY <1>0, <3>1, <3>2
  <2>5. ASSUME NEW a \in nodes' PROVE ~Mergeable(a)'
    <3>1. CASE a = current
      BY <1>0, <1>3, <3>1 DEF Mergeable
    <3>2. CASE a = Rest
      BY <1>0, <1>1, <1>3, <3>2 DEF Mergeable, Tiles, End
    <3>3. CASE a # current /\ a # Rest
      BY <1>0, <1>1, <1>3, <3>3 DEF Mergeable
    <3> QED BY <3>1, <3>2, <3>3
  <2>6. WalkInv'
    BY <1>0, <2>5 DEF WalkInv
  <2> QED BY <2>2, <2>3, <2>4, <2>6
<1>4. CASE Whole
  <2>1. TypeOK'
    BY <1>0, <1>4 DEF Whole
  <2>2. Tiles'
    BY <1>4 DEF Whole, Tiles, End
  <2>3. BlocksOwned'
    <3> SUFFICES ASSUME NEW b \in blocks'
                 PROVE  /\ b.ptr - Header \in nodes' /\ ~free'[b.ptr - Header]
                        /\ b.len <= size'[b.ptr - Header]
                        /\ \A c \in blocks' : c.ptr = b.ptr => c = b
      BY DEF BlocksOwned
    <3>1. CASE b \in blocks
      BY <1>0, <1>2, <1>4, <3>1 DEF BlocksOwned, Whole
    <3>2. CASE b = [ptr |-> ret', len |-> arg]
      BY <1>0, <1>2, <1>4, <3>2 DEF BlocksOwned, Whole
    <3> QED BY <1>0, <3>1, <3>2
  <2>4. WalkInv'
    BY <1>0, <1>1, <1>4 DEF Whole, WalkInv, Mergeable
  <2> QED BY <2>1, <2>2, <2>3, <2>4
<1> QED BY <1>3, <1>4 DEF MallocTake

\* Marking the node of a block free, before the walk.
LEMMA CallFreeInv == ASSUME HeapInv, NEW b \in blocks, CallFree(b) PROVE HeapInv'
<1> USE HeapAssumption DEF HeapInv, TypeOK, Addrs, Null, CallFree
<1>1. arg' \in nodes /\ \A c \in blocks' : c.ptr - Header # arg'
  BY DEF BlocksOwned
<1>2. TypeOK'
  BY <1>1 DEF Tiles
<1>3. Tiles'
  BY DEF Tiles, End
<1>4. BlocksOwned'
  BY <1>1 DEF BlocksOwned
<1>5. WalkInv'
  BY DEF WalkInv, Passed
<1> QED BY <1>2, <1>3, <1>4, <1>5

\* What a merge needs to know about the two neighbours.
LEMMA MergeFacts ==
  ASSUME HeapInv, current \in nodes, Mergeable(current)
  PROVE  LET gone == next[current]
         IN /\ gone \in nodes /\ free[gone] /\ gone = End(current) /\ current < gone
            /\ next[gone] # gone
            /\ \A a \in nodes : next[a] = gone => a = current
<1> USE HeapAssumption DEF HeapInv, TypeOK, Addrs, Null, End
<1> DEFINE gone == next[current]
<1>1. gone \in nodes /\ free[gone] /\ gone = End(current)
  BY DEF Mergeable, Tiles
<1>2. current < gone
  BY <1>1
<1>3. next[gone] # gone
  BY <1>1 DEF Tiles
<1>4. ASSUME NEW a \in nodes, next[a] = gone PROVE a = current
  <2>1. End(a) = gone
    BY <1>1, <1>4 DEF Tiles
  <2>2. ~ (a < current)
    BY <1>2, <2>1 DEF Tiles
  <2>3. ~ (current < a)
    BY <1>1, <2>1 DEF Tiles
  <2> QED BY <2>2, <2>3
<1> QED BY <1>1, <1>2, <1>3, <1>4

\* A merge keeps the heap tiled, and does not touch what the walk has passed.
LEMMA FreeMergeInv == HeapInv /\ FreeMerge => HeapInv'
<1> SUFFICES ASSUME HeapInv, FreeMerge PROVE HeapInv'
  OBVIOUS
<1> DEFINE gone == next[current]
<1>0. current \in nodes /\ Mergeable(current)
  BY DEF HeapInv, TypeOK, FreeMerge
<1>1. /\ gone \in nodes /\ free[gone] /\ gone = End(current) /\ current < gone
      /\ next[gone] # gone
      /\ \A a \in nodes : next[a] = gone => a = current
  BY <1>0, MergeFacts
<1> USE HeapAssumption DEF HeapInv, TypeOK, Addrs, Null, FreeMerge, call
<1>2. /\ nodes' = nodes \ {gone}
      /\ size'[current] = size[current] + size[gone] + Header
      /\ next'[current] = next[gone]
      /\ \A a \in nodes' : free'[a] = free[a]
      /\ \A a \in nodes' : a # current => size'[a] = size[a] /\ next'[a] = next[a]
  BY <1>0, <1>1 DEF Merge
<1>3. /\ size' \in [nodes' -> Nat] /\ free' \in [nodes' -> BOOLEAN]
      /\ next' \in [nodes' -> nodes' \cup {Null}]
  <2>0. ASSUME NEW a \in nodes' PROVE size'[a] \in Nat
    <3>1. size[current] \in Nat /\ size[gone] \in Nat
      BY <1>0, <1>1
    <3>2. CASE a = current
      BY <1>2, <3>1, <3>2
    <3>3. CASE a # current
      BY <1>2, <3>3
    <3> QED BY <3>2, <3>3
  <2>1. size' \in [nodes' -> Nat]
    BY <2>0 DEF Merge
  <2>2. free' \in [nodes' -> BOOLEAN]
    BY DEF Merge
  <2>3. ASSUME NEW a \in nodes' PROVE next'[a] \in nodes' \cup {Null}
    <3>1. \A b \in nodes : next[b] \in nodes \cup {Null}
      BY DEF TypeOK
    <3>2. CASE a = current
      BY <1>0, <1>1, <1>2, <3>1, <3>2
    <3>3. CASE a # current
      <4>1. a \in nodes /\ next[a] # gone /\ next'[a] = next[a]
        BY <1>1, <1>2, <2>3, <3>3
      <4> QED BY <1>2, <3>1, <4>1
    <3> QED BY <3>2, <3>3
  <2>4. next' \in [nodes' -> nodes' \cup {Null}]
    BY <2>3 DEF Merge
  <2> QED BY <2>1, <2>2, <2>4
<1>4. TypeOK'
  BY <1>0, <1>1, <1>2, <1>3
<1>5. Tiles'
  <2>1. 0 \in nodes'
    BY <1>1, <1>0, <1>2 DEF Tiles
  <2>2. ASSUME NEW a \in nodes'
        PROVE  IF next'[a] = Null THEN a + Header + size'[a] = HeapSize
                                  ELSE next'[a] = a + Header + size'[a]
    <3>1. CASE a = current
      BY <1>0, <1>1, <1>2, <3>1 DEF Tiles, End
    <3>2. CASE a # current
      BY <1>2, <3>2 DEF Tiles, End
    <3> QED BY <3>1, <3>2
  <2>3. ASSUME NEW a \in nodes', NEW b \in nodes', a < b
        PROVE  a + Header + size'[a] <= b
    <3>1. CASE a = current
      <4>1. b # gone /\ ~ (b < gone)
        <5>1. End(current) <= b
          BY <1>0, <1>2, <2>3, <3>1 DEF Tiles
        <5> QED BY <1>1, <1>2, <5>1 DEF End
      <4>2. gone < b
        BY <1>1, <1>2, <4>1 DEF End
      <4>3. End(gone) <= b
        BY <1>1, <1>2, <4>2 DEF Tiles
      <4> QED BY <1>0, <1>1, <1>2, <3>1, <4>3 DEF End
    <3>2. CASE a # current
      BY <1>2, <2>3, <3>2 DEF Tiles, End
    <3> QED BY <3>1, <3>2
  <2> QED BY <2>1, <2>2, <2>3 DEF Tiles, End
<1>6. BlocksOwned'
  <2>1. ASSUME NEW b \in blocks
        PROVE  b.ptr - Header \in nodes' /\ b.ptr - Header # current
    BY <1>0, <1>1, <1>2 DEF BlocksOwned, Mergeable
  <2> QED BY <1>2, <2>1 DEF BlocksOwned
<1>7. WalkInv'
  <2>1. ASSUME NEW a \in nodes', Passed(a)' PROVE ~Mergeable(a)'
    <3>1. a # current /\ Passed(a)
      BY <1>0, <2>1 DEF Passed
    <3>2. ~Mergeable(a) /\ next'[a] = next[a] /\ next[a] # gone
      BY <1>1, <1>2, <3>1 DEF WalkInv
    <3> QED BY <1>2, <3>2 DEF Mergeable
  <2> QED BY <1>0, <2>1 DEF WalkInv
<1> QED BY <1>4, <1>5, <1>6, <1>7

\* The walk of kfree moves on when there is nothing to merge.
LEMMA FreeNextInv == HeapInv /\ FreeNext => HeapInv'
<1> SUFFICES ASSUME HeapInv, FreeNext PROVE HeapInv'
  OBVIOUS
<1> USE HeapAssumption DEF HeapInv, FreeNext, list
<1>1. TypeOK'
  BY DEF TypeOK
<1>2. Tiles' /\ BlocksOwned'
  BY DEF Tiles, End, BlocksOwned
<1>3. ASSUME NEW a \in nodes, Passed(a)' PROVE ~Mergeable(a)
  <2>1. current \in nodes
    BY DEF TypeOK
  <2>2. a <= current
    BY <1>3, <2>1, Between DEF Passed
  <2>3. CASE a = current
    BY <2>3
  <2>4. CASE a < current
    BY <2>4 DEF WalkInv, Passed
  <2> QED BY <2>1, <2>2, <2>3, <2>4 DEF TypeOK, Addrs
<1>4. WalkInv'
  BY <1>3 DEF WalkInv, Mergeable
<1> QED BY <1>1, <1>2, <1>4

\* At the end of its walk kfree has merged everything.
LEMMA FreeDoneInv == HeapInv /\ FreeDone => HeapInv'
<1> SUFFICES ASSUME HeapInv, FreeDone PROVE HeapInv'
  OBVIOUS
<1> USE DEF HeapInv, FreeDone, list, Return
<1>1. TypeOK'
  BY DEF TypeOK
<1>2. Tiles' /\ BlocksOwned'
  BY DEF Tiles, End, BlocksOwned
<1>3. WalkInv'
  BY DEF WalkInv, Passed, Mergeable
<1> QED BY <1>1, <1>2, <1>3

\* A step of the heap, whoever calls it, for whatever size.
HeapMove == (\E n \in Nat : CallMalloc(n)) \/ (\E b \in blocks : CallFree(b)) \/ Walk

LEMMA NextMoves == [Next]_vars => [HeapMove]_vars
BY HeapAssumption DEF Next, HeapMove

\* No step leaves the invariant.
LEMMA HeapStep == HeapInv /\ [HeapMove]_vars => HeapInv'
<1> SUFFICES ASSUME HeapInv, [HeapMove]_vars PROVE HeapInv'
  OBVIOUS
<1>1. CASE \E n \in Nat : CallMalloc(n)
  BY <1>1, CallMallocInv
<1>2. CASE \E b \in blocks : CallFree(b)
  BY <1>2, CallFreeInv
<1>3. CASE Walk
  BY <1>3, MallocSkipInv, MallocFailInv, MallocTakeInv, FreeMergeInv, FreeNextInv,
     FreeDoneInv DEF Walk
<1>4. CASE UNCHANGED vars
  BY <1>4 DEF vars, list, call, HeapInv, TypeOK, Tiles, End, BlocksOwned, WalkInv,
              Passed, Fits, Mergeable
<1> QED BY <1>1, <1>2, <1>3, <1>4 DEF HeapMove

\* The nodes tile the heap and every block is in a node of its own, after every
\* turn of the loops of kmalloc and kfree.
THEOREM HeapInvariant == Spec => []HeapInv
<1> QED BY HeapInit, HeapStep, NextMoves, PTL DEF Spec

\* Between calls no two neighbours are free.
THEOREM AlwaysCoalesced == Spec => []Coalesced
<1>1. HeapInv => Coalesced
  BY DEF HeapInv, WalkInv, Coalesced
<1> QED BY <1>1, HeapInvariant, PTL

LEMMA FailureStep ==
  HeapInv /\ [HeapMove]_vars =>
    [op = "malloc" /\ op' = "idle" /\ ret' = Null
      => \A a \in nodes : free[a] => size[a] < arg]_vars
<1> SUFFICES ASSUME HeapInv, HeapMove, op = "malloc", op' = "idle", ret' = Null
             PROVE  \A a \in nodes : free[a] => size[a] < arg
  OBVIOUS
<1>1. ~MallocTake
  <2> SUFFICES ASSUME MallocTake PROVE FALSE
    OBVIOUS
  <2>1. ret' = current + Header /\ current \in Nat
    BY DEF MallocTake, HeapInv, TypeOK, Addrs
  <2> QED BY <2>1, HeapAssumption DEF Null
<1>2. MallocFail
  BY <1>1 DEF HeapMove, Walk, CallMalloc, CallFree, MallocSkip, FreeMerge, FreeNext, FreeDone
<1>3. \A a \in nodes : ~Fits(a)
  BY <1>2 DEF MallocFail, HeapInv, WalkInv, Passed
<1> QED BY <1>3 DEF Fits, HeapInv, TypeOK

\* kmalloc fails only when no free node is large enough: first fit overlooks none.
THEOREM FailureIsHonest == Spec => FailsOnlyWhenFull
BY FailureStep, NextMoves, HeapInvariant, PTL DEF Spec, FailsOnlyWhenFull

BlocksApart ==
  \A b \in blocks :
    /\ Alloc!BytesOf(b) \subseteq Addrs
    /\ \A c \in blocks \ {b} :
         c.ptr # b.ptr /\ Alloc!BytesOf(b) \cap Alloc!BytesOf(c) = {}

\* Two blocks that callers hold share no byte, and none reaches out of the heap.
LEMMA BlocksDisjoint == HeapInv => BlocksApart
<1> SUFFICES ASSUME HeapInv, NEW b \in blocks
             PROVE  /\ Alloc!BytesOf(b) \subseteq Addrs
                    /\ \A c \in blocks \ {b} :
                         /\ c.ptr # b.ptr
                         /\ Alloc!BytesOf(b) \cap Alloc!BytesOf(c) = {}
  BY DEF BlocksApart
<1> USE HeapAssumption DEF HeapInv, TypeOK, Addrs, Null, Alloc!BytesOf
<1> DEFINE node(x) == x.ptr - Header
<1>1. \A x \in blocks : node(x) \in nodes /\ x.ptr + x.len <= End(node(x))
  BY DEF BlocksOwned, End
<1>2. \A a \in nodes : End(a) <= HeapSize
  <2> TAKE a \in nodes
  <2>1. CASE next[a] = Null
    BY <2>1 DEF Tiles, End
  <2>2. CASE next[a] # Null
    BY <2>2 DEF Tiles, End
  <2> QED BY <2>1, <2>2
<1>3. Alloc!BytesOf(b) \subseteq Addrs
  BY <1>1, <1>2 DEF End
<1>4. ASSUME NEW c \in blocks \ {b}
      PROVE  c.ptr # b.ptr /\ Alloc!BytesOf(b) \cap Alloc!BytesOf(c) = {}
  <2>1. c.ptr # b.ptr
    BY DEF BlocksOwned
  <2>2. CASE node(b) < node(c)
    <3>1. End(node(b)) <= node(c)
      BY <1>1, <2>2 DEF Tiles
    <3> QED BY <1>1, <2>1, <3>1 DEF End
  <2>3. CASE node(c) < node(b)
    <3>1. End(node(c)) <= node(b)
      BY <1>1, <2>3 DEF Tiles
    <3> QED BY <1>1, <2>1, <3>1 DEF End
  <2> QED BY <1>1, <2>1, <2>2, <2>3
<1> QED BY <1>3, <1>4

\* The same of the next state.
LEMMA BlocksDisjointNext == HeapInv' => BlocksApart'
BY BlocksDisjoint, PTL

LEMMA AllocatorStep == HeapInv /\ [HeapMove]_vars => [Alloc!AllocatorNext]_blocks
<1> SUFFICES ASSUME HeapInv, [HeapMove]_vars PROVE [Alloc!AllocatorNext]_blocks
  OBVIOUS
<1>0. HeapInv'
  BY HeapStep
<1>1. CASE MallocTake
  <2> DEFINE b == [ptr |-> ret', len |-> arg]
  <2>1. b \in blocks' /\ blocks' = blocks \cup {b}
    BY <1>1 DEF MallocTake
  <2>2. b \notin blocks
    <3>1. free[current] /\ b.ptr - Header = current
      BY <1>1, HeapAssumption DEF MallocTake, Fits, HeapInv, TypeOK, Addrs
    <3> QED BY <3>1 DEF HeapInv, BlocksOwned
  <2>3. /\ Alloc!BytesOf(b) \subseteq Addrs
        /\ \A c \in blocks' \ {b} :
             c.ptr # b.ptr /\ Alloc!BytesOf(b) \cap Alloc!BytesOf(c) = {}
    <3>1. BlocksApart'
      BY <1>0, BlocksDisjointNext
    <3> QED BY <2>1, <3>1 DEF BlocksApart, Alloc!BytesOf
  <2>4. Alloc!Alloc(b)
    BY <2>1, <2>2, <2>3 DEF Alloc!Alloc
  <2> QED BY <2>1, <2>4 DEF Alloc!AllocatorNext
<1>2. CASE \E b \in blocks : CallFree(b)
  BY <1>2 DEF CallFree, Alloc!Free, Alloc!AllocatorNext
<1>3. CASE (\E n \in Nat : CallMalloc(n)) \/ MallocSkip \/ MallocFail
           \/ FreeMerge \/ FreeNext \/ FreeDone \/ UNCHANGED vars
  BY <1>3 DEF CallMalloc, MallocSkip, MallocFail, FreeMerge, FreeNext, FreeDone, vars, list
<1> QED BY <1>1, <1>2, <1>3 DEF HeapMove, Walk

\* The heap implements the abstract allocator: a block is handed out where no
\* other lies, and nothing but kmalloc and kfree changes who owns what.
THEOREM HeapIsAllocator == Spec => ImplementsAllocator
<1>1. Init => Alloc!AllocatorInit
  BY DEF Init, Alloc!AllocatorInit
<1> QED BY <1>1, AllocatorStep, NextMoves, HeapInvariant, PTL
        DEF Spec, ImplementsAllocator, Alloc!AllocatorSpec


-----------------------------------------------------------------------------
(* The callers of kmalloc and kfree in the kernel. *)

\* The caller at p asked for n bytes and gets them or nothing.
Granted(p, n) ==
  pc = p => IF op = "idle" THEN ret # Null => Block(ret, n) \in blocks
                           ELSE op = "malloc" /\ arg = n

Grants ==
  /\ Granted("wizard", Fb) /\ Granted("back", Fb) /\ Granted("bg", Fb)
  /\ Granted("stack", Stack) /\ Granted("copy", Files[file].size)

\* Which pointers are set where: when a buffer is freed, no other is held.
Early ==
  /\ pc \in {"any", "boot", "wizard", "setup", "desktop"} =>
       bgbuf = Null /\ stack = Null /\ ram.data = Null
  /\ pc = "any" => backbuf = Null

AtFile ==
  /\ asked \in Nat
  /\ pc \in {"read", "copy", "decode", "grow"} => file \in DOMAIN Files

KernelInv == HeapInv /\ PointersHeld /\ Grants /\ Early /\ AtFile

\* The first call finds no pointer set.
LEMMA KernelStarts == KInit => KernelInv
<1> SUFFICES ASSUME KInit PROVE KernelInv
  OBVIOUS
<1>1. HeapInv
  BY HeapInit DEF KInit
<1>2. PointersHeld
  BY DEF KInit, NoEntry, PointersHeld, Block
<1>3. Grants /\ Early /\ AtFile
  BY DEF KInit, NoEntry, Grants, Granted, Early, AtFile
<1> QED BY <1>1, <1>2, <1>3 DEF KernelInv

\* What is asked of kmalloc is a size, so the steps of the callers are steps of
\* the heap.
LEMMA KernelMoves == KernelInv /\ [KNext]_kvars => [HeapMove]_vars
<1> SUFFICES ASSUME KernelInv, KNext PROVE [HeapMove]_vars
  BY DEF kvars
<1> USE KernelHeapAssumption DEF HeapMove
<1>1. CASE Walk
  BY <1>1
<1>2. CASE Next
  BY <1>2, NextMoves
<1>3. CASE Wizard \/ DesktopInit \/ DesktopBack \/ Launch
  BY <1>3 DEF Wizard, DesktopInit, DesktopBack, Launch, Ask
<1>4. CASE WizardEnds
  BY <1>4 DEF WizardEnds, CallFree
<1>5. CASE WizardRuns \/ DesktopBg \/ Launched \/ WallCopied \/ DecodeGot \/ WallDrawn
  BY <1>5 DEF WizardRuns, DesktopBg, Launched, WallCopied, DecodeGot, WallDrawn
<1>6. ASSUME NEW f \in DOMAIN Files, Wall(f) PROVE HeapMove
  BY <1>6, AsksAssumption DEF Wall, Ask
<1>7. CASE WallRead
  <2>1. Files[file].size \in Nat
    BY <1>7, AsksAssumption DEF WallRead, Back, KernelInv, AtFile
  <2> QED BY <1>7, <2>1 DEF WallRead, Ask
<1>8. CASE DecodeAsk
  <2>1. Asks \in Seq(Nat) /\ asked + 1 \in 1 .. Len(Asks)
    BY <1>8, AsksAssumption DEF DecodeAsk, Back, KernelInv, AtFile, Asks
  <2>2. Asks[asked + 1] \in Nat
    BY <2>1
  <2> QED BY <1>8, <2>2 DEF DecodeAsk, Ask
<1> QED BY <1>1, <1>2, <1>3, <1>4, <1>5, <1>6, <1>7, <1>8 DEF KNext, Kernel

\* A turn of a loop of the heap takes no block away.
LEMMA WalkKeeps == Walk => blocks \subseteq blocks'
BY DEF Walk, MallocSkip, MallocFail, MallocTake, FreeMerge, FreeNext, FreeDone

\* When the walk of kmalloc ends, its caller gets a block of the size it asked
\* for, or nothing.
LEMMA WalkGrants ==
  ASSUME KernelInv, Walk, UNCHANGED kernel, NEW n,
         pc # "any", op = "malloc", arg = n
  PROVE  IF op' = "idle" THEN ret' # Null => Block(ret', n) \in blocks'
                         ELSE op' = "malloc" /\ arg' = n
<1>1. MallocSkip \/ MallocFail \/ MallocTake
  BY DEF Walk, FreeMerge, FreeNext, FreeDone
<1>2. CASE MallocSkip
  BY <1>2 DEF MallocSkip
<1>3. CASE MallocFail
  BY <1>3 DEF MallocFail, Return
<1>4. CASE MallocTake
  BY <1>4 DEF MallocTake, Return, Block
<1> QED BY <1>1, <1>2, <1>3, <1>4

\* A walk that goes on under a caller.
LEMMA KernelWalk == KernelInv /\ Walk /\ UNCHANGED kernel => PointersHeld' /\ Grants'
<1> SUFFICES ASSUME KernelInv, Walk, UNCHANGED kernel PROVE PointersHeld' /\ Grants'
  OBVIOUS
<1>1. PointersHeld'
  BY WalkKeeps DEF KernelInv, PointersHeld, kernel, Block
<1>2. op # "idle"
  BY DEF Walk, MallocSkip, MallocFail, MallocTake, FreeMerge, FreeNext, FreeDone
<1>3. ASSUME NEW p \in {"wizard", "back", "bg", "stack", "copy"}, NEW n, Granted(p, n), pc = p
      PROVE  IF op' = "idle" THEN ret' # Null => Block(ret', n) \in blocks'
                             ELSE op' = "malloc" /\ arg' = n
  <2>1. op = "malloc" /\ arg = n /\ pc # "any"
    BY <1>2, <1>3 DEF Granted
  <2> QED BY <2>1, WalkGrants
<1>4. pc' = pc /\ file' = file
  BY DEF kernel
<1>5. Granted("wizard", Fb)' /\ Granted("back", Fb)' /\ Granted("bg", Fb)'
  BY <1>3, <1>4 DEF Granted, KernelInv, Grants
<1>6. Granted("stack", Stack)' /\ Granted("copy", Files[file].size)'
  BY <1>3, <1>4 DEF Granted, KernelInv, Grants
<1> QED BY <1>1, <1>5, <1>6 DEF Grants


\* The pointers of the kernel, one by one.
Held(b) == b.ptr # Null => b \in blocks

LEMMA HeldOneByOne ==
  PointersHeld <=> /\ Held(Block(backbuf, Fb)) /\ Held(Block(bgbuf, Fb))
                   /\ Held(Block(stack, Stack)) /\ Held(Block(ram.data, ram.size))
BY DEF PointersHeld, Held, Block

LEMMA HeldOneByOneNext ==
  PointersHeld' <=> /\ Held(Block(backbuf, Fb))' /\ Held(Block(bgbuf, Fb))'
                    /\ Held(Block(stack, Stack))' /\ Held(Block(ram.data, ram.size))'
BY DEF PointersHeld, Held, Block

\* A step of a caller: it keeps what it was given, at the size it asked for.
LEMMA KernelHolds == KernelInv /\ Kernel => PointersHeld'
<1> SUFFICES ASSUME KernelInv, Kernel PROVE PointersHeld'
  OBVIOUS
<1>1. CASE WizardEnds
  <2>1. bgbuf' = Null /\ stack' = Null /\ ram'.data = Null /\ backbuf' = Null
    BY <1>1 DEF WizardEnds, Back, KernelInv, Early
  <2> QED BY <2>1, HeldOneByOneNext DEF Held, Block
<1>2. CASE UNCHANGED blocks
  <2>1. CASE UNCHANGED <<backbuf, bgbuf, stack, ram>>
    BY <1>2, <2>1 DEF KernelInv, PointersHeld, Block
  <2>2. CASE WizardRuns \/ DesktopBack
    <3>1. Held(Block(ret, Fb)) /\ backbuf' = ret /\ UNCHANGED <<bgbuf, stack, ram>>
      BY <2>2 DEF WizardRuns, DesktopBack, Back, KernelInv, Grants, Granted, Held, Block
    <3> QED BY <1>2, <3>1, HeldOneByOne, HeldOneByOneNext DEF KernelInv, Held, Block
  <2>3. CASE DesktopInit
    <3>1. backbuf' = Null /\ bgbuf' = Null /\ UNCHANGED <<stack, ram>>
      BY <2>3 DEF DesktopInit
    <3> QED BY <1>2, <3>1, HeldOneByOne, HeldOneByOneNext DEF KernelInv, Held, Block
  <2>4. CASE DesktopBg
    <3>1. Held(Block(ret, Fb)) /\ bgbuf' = ret /\ UNCHANGED <<backbuf, stack, ram>>
      BY <2>4 DEF DesktopBg, Back, KernelInv, Grants, Granted, Held, Block
    <3> QED BY <1>2, <3>1, HeldOneByOne, HeldOneByOneNext DEF KernelInv, Held, Block
  <2>5. CASE Launched
    <3>1. Held(Block(ret, Stack)) /\ stack' = ret /\ UNCHANGED <<backbuf, bgbuf, ram>>
      BY <2>5 DEF Launched, Back, KernelInv, Grants, Granted, Held, Block
    <3> QED BY <1>2, <3>1, HeldOneByOne, HeldOneByOneNext DEF KernelInv, Held, Block
  <2>6. CASE WallCopied
    <3>1. Held(Block(ret, Files[file].size)) /\ UNCHANGED <<backbuf, bgbuf, stack>>
      BY <2>6 DEF WallCopied, Back, KernelInv, Grants, Granted, Held, Block
    <3>2. CASE ret = Null
      <4>1. ram' = ram
        BY <2>6, <3>2 DEF WallCopied
      <4> QED BY <1>2, <3>1, <4>1 DEF KernelInv, PointersHeld, Block
    <3>3. CASE ret # Null
      <4>1. ram'.data = ret /\ ram'.size = Files[file].size
        BY <2>6, <3>3 DEF WallCopied
      <4> QED BY <1>2, <3>1, <4>1, HeldOneByOne, HeldOneByOneNext DEF KernelInv, Held, Block
    <3> QED BY <3>2, <3>3
  <2>7. Wizard \/ Launch \/ (\E f \in DOMAIN Files : Wall(f)) \/ WallRead \/ DecodeAsk
        \/ DecodeGot \/ WallDrawn => UNCHANGED <<backbuf, bgbuf, stack, ram>>
    BY DEF Wizard, Launch, Wall, WallRead, DecodeAsk, DecodeGot, WallDrawn
  <2> QED BY <1>1, <2>1, <2>2, <2>3, <2>4, <2>5, <2>6, <2>7, HeldOneByOneNext DEF Kernel, Held, Block
<1>3. ~WizardEnds => UNCHANGED blocks
  BY DEF Kernel, Wizard, WizardRuns, DesktopInit, DesktopBack, DesktopBg, Launch, Launched,
         Wall, WallRead, WallCopied, DecodeAsk, DecodeGot, WallDrawn, Ask, CallMalloc, vars
<1> QED BY <1>1, <1>2, <1>3

LEMMA KernelGrants == KernelInv /\ Kernel => Grants' /\ Early' /\ AtFile'
<1> SUFFICES ASSUME KernelInv, Kernel PROVE Grants' /\ Early' /\ AtFile'
  OBVIOUS
<1> USE DEF Ask, Back, CallMalloc
<1>1. Grants'
  <2>1. CASE Wizard \/ DesktopInit \/ DesktopBack \/ Launch
    BY <2>1 DEF Grants, Granted, Wizard, DesktopInit, DesktopBack, Launch
  <2>2. ASSUME NEW f \in DOMAIN Files, Wall(f) PROVE Grants'
    BY <2>2 DEF Wall, Grants, Granted
  <2>3. CASE WallRead
    BY <2>3 DEF WallRead, WallOver, Grants, Granted
  <2>4. CASE DecodeAsk \/ DecodeGot \/ WallDrawn
    BY <2>4 DEF DecodeAsk, DecodeGot, WallDrawn, WallOver, Grants, Granted
  <2>5. CASE WizardRuns \/ WizardEnds \/ DesktopBg \/ Launched \/ WallCopied
    BY <2>5 DEF WizardRuns, WizardEnds, DesktopBg, Launched, WallCopied, Grants, Granted
  <2> QED BY <2>1, <2>2, <2>3, <2>4, <2>5 DEF Kernel
<1>2. Early'
  <2>1. CASE WizardEnds
    BY <2>1 DEF WizardEnds, Early, KernelInv
  <2>2. CASE Wizard \/ WizardRuns
    BY <2>2 DEF Wizard, WizardRuns, Early, KernelInv
  <2>3. ~WizardEnds /\ ~Wizard /\ ~WizardRuns
        => pc' \in {"back", "bg", "loop", "stack", "read", "copy", "decode", "grow"}
    BY DEF Kernel, DesktopInit, DesktopBack, DesktopBg, Launch, Launched, Wall, WallRead,
           WallCopied, DecodeAsk, DecodeGot, WallDrawn, WallOver
  <2> QED BY <2>1, <2>2, <2>3 DEF Early
<1>3. AtFile'
  <2>1. CASE Wizard \/ WizardRuns \/ WizardEnds \/ DesktopInit \/ DesktopBack \/ DesktopBg
             \/ Launch \/ Launched
    BY <2>1 DEF Wizard, WizardRuns, WizardEnds, DesktopInit, DesktopBack, DesktopBg, Launch,
                Launched, AtFile, KernelInv
  <2>2. ASSUME NEW f \in DOMAIN Files, Wall(f) PROVE AtFile'
    BY <2>2 DEF Wall, AtFile, KernelInv
  <2>3. CASE WallRead \/ WallCopied \/ DecodeAsk \/ DecodeGot \/ WallDrawn
    BY <2>3 DEF WallRead, WallCopied, DecodeAsk, DecodeGot, WallDrawn, WallOver, AtFile, KernelInv
  <2> QED BY <2>1, <2>2, <2>3 DEF Kernel
<1> QED BY <1>1, <1>2, <1>3

LEMMA KernelStep == KernelInv /\ [KNext]_kvars => KernelInv'
<1> SUFFICES ASSUME KernelInv, [KNext]_kvars PROVE KernelInv'
  OBVIOUS
<1>1. HeapInv'
  BY KernelMoves, HeapStep DEF KernelInv
<1>2. PointersHeld' /\ Grants' /\ Early' /\ AtFile'
  <2>1. CASE Walk /\ UNCHANGED kernel
    <3>1. Early' /\ AtFile'
      BY <2>1 DEF kernel, KernelInv, Early, AtFile
    <3> QED BY <2>1, <3>1, KernelWalk
  <2>2. CASE pc = "any" /\ UNCHANGED kernel
    BY <2>2 DEF kernel, KernelInv, Early, AtFile, Grants, Granted, PointersHeld, Block
  <2>3. CASE Kernel
    BY <2>3, KernelHolds, KernelGrants
  <2>4. CASE UNCHANGED kvars
    BY <2>4 DEF kvars, vars, list, call, kernel, KernelInv, Early, AtFile, Grants, Granted,
                PointersHeld, Block
  <2> QED BY <2>1, <2>2, <2>3, <2>4 DEF KNext
<1> QED BY <1>1, <1>2 DEF KernelInv

LEMMA KernelInvariant == KSpec => []KernelInv
BY KernelStarts, KernelStep, PTL DEF KSpec

\* What wizard, desktop, ring-3 task and RAM file system hold on to are blocks of
\* their own, of the sizes they think, however the calls of kmalloc before them failed.
THEOREM PointersStayGood == KSpec => []PointersHeld
<1>1. KernelInv => PointersHeld
  BY DEF KernelInv
<1> QED BY <1>1, KernelInvariant, PTL

\* Under these callers, too, the heap stays tiled,
THEOREM KernelHeapInvariant == KSpec => []HeapInv
<1>1. KernelInv => HeapInv
  BY DEF KernelInv
<1> QED BY <1>1, KernelInvariant, PTL

\* is merged whenever no call is in progress,
THEOREM KernelHeapCoalesced == KSpec => []Coalesced
<1>1. HeapInv => Coalesced
  BY DEF HeapInv, WalkInv, Coalesced
<1> QED BY <1>1, KernelHeapInvariant, PTL

\* refuses memory only when no free node is large enough,
THEOREM KernelFailureIsHonest == KSpec => FailsOnlyWhenFull
<1>1. KernelInv => HeapInv
  BY DEF KernelInv
<1> QED BY <1>1, FailureStep, KernelMoves, KernelInvariant, PTL DEF KSpec, FailsOnlyWhenFull

\* and implements the allocator.
THEOREM KernelHeapIsAllocator == KSpec => ImplementsAllocator
<1>1. KInit => Alloc!AllocatorInit
  BY DEF KInit, Init, Alloc!AllocatorInit
<1>2. KernelInv => HeapInv
  BY DEF KernelInv
<1> QED BY <1>1, <1>2, AllocatorStep, KernelMoves, KernelInvariant, PTL
        DEF KSpec, ImplementsAllocator, Alloc!AllocatorSpec

-----------------------------------------------------------------------------
(* What the PNG decoder makes of the bytes of a picture. *)

\* A set of numbers that has 0, and with each number the next, has them all:
\* induction, for what recursive functions compute.
LEMMA Climb ==
  ASSUME NEW T \in SUBSET Nat, 0 \in T, \A n \in T : n + 1 \in T
  PROVE  T = Nat
<1> DEFINE R == OpToRel(<, Nat)
<1>1. IsWellFoundedOn(R, Nat)
  BY NatLessThanWellFounded
<1>2. \A x, y \in Nat : y < x => <<y, x>> \in R
  BY Zenon DEF OpToRel
<1> HIDE DEF R
<1>3. SUFFICES ASSUME Nat \ T # {} PROVE FALSE
  OBVIOUS
<1>4. PICK x \in Nat \ T : \A y \in Nat \ T : <<y, x>> \notin R
  BY <1>1, <1>3, WFMin
<1>5. x # 0 /\ x - 1 \in Nat /\ x - 1 < x
  BY <1>4
<1>6. x - 1 \in T
  BY <1>2, <1>4, <1>5
<1> QED BY <1>4, <1>5, <1>6

\* The decoder guesses what the standard does, a byte.
LEMMA Guessed ==
  ASSUME NEW f \in 0 .. 4, NEW a \in Byte, NEW b \in Byte, NEW c \in Byte
  PROVE  Predictor(f, a, b, c) = Guess(f, a, b, c) /\ Guess(f, a, b, c) \in Byte
<1>1. Paeth(a, b, c) = Nearest(a, b, c) /\ Nearest(a, b, c) \in Byte
  <2> DEFINE p    == a + b - c
             d(x) == IF p > x THEN p - x ELSE x - p
  <2>1. /\ Paeth(a, b, c) = IF d(a) <= d(b) /\ d(a) <= d(c) THEN a
                           ELSE IF d(b) <= d(c) THEN b ELSE c
        /\ Nearest(a, b, c) = IF d(b) < d(a) THEN IF d(c) < d(b) THEN c ELSE b
                                             ELSE IF d(c) < d(a) THEN c ELSE a
    <3>1. \A x : Distance(p, x) = d(x)
      BY Zenon DEF Distance
    <3>2. Nearest(a, b, c) = IF d(b) < d(a) THEN IF d(c) < d(b) THEN c ELSE b
                                            ELSE IF d(c) < d(a) THEN c ELSE a
      BY Zenon DEF Nearest
    <3>3. Paeth(a, b, c) = IF Distance(p, a) <= Distance(p, b) /\ Distance(p, a) <= Distance(p, c)
                           THEN a ELSE IF Distance(p, b) <= Distance(p, c) THEN b ELSE c
      BY Zenon DEF Paeth
    <3> HIDE DEF p, d
    <3> QED BY ONLY <3>1, <3>2, <3>3, Zenon
  <2>2. d(a) \in Int /\ d(b) \in Int /\ d(c) \in Int
    BY DEF Byte
  <2> HIDE DEF d
  <2> QED BY <2>1, <2>2
<1>2. (a + b) \div 2 \in Byte
  BY DEF Byte
<1> QED BY <1>1, <1>2 DEF Predictor, Guess, Byte

\* A byte is found again from how far it is from the guess.
LEMMA FoundAgain ==
  ASSUME NEW x \in Byte, NEW g \in Byte
  PROVE  (((x + 256 - g) % 256) + g) % 256 = x
<1>1. CASE x >= g
  <2>1. (x + 256 - g) % 256 = x - g
    BY <1>1 DEF Byte
  <2> QED BY <2>1 DEF Byte
<1>2. CASE x < g
  <2>1. (x + 256 - g) % 256 = x + 256 - g
    BY <1>2 DEF Byte
  <2> QED BY <2>1 DEF Byte
<1> QED BY <1>1, <1>2 DEF Byte

\* Byte i of a row, in the way of unfilter_scanline.
LeftOf(s, i, bpp) == IF i > bpp THEN s[i - bpp] ELSE 0

\* The bytes of src are how far those of row are from what the filter guesses.
FilteredBy(filter, src, bpp, prev, row) ==
  \A i \in DOMAIN src :
    src[i] = (row[i] + 256 - Guess(filter, LeftOf(row, i, bpp), prev[i],
                                   LeftOf(prev, i, bpp))) % 256

\* unfilter_scanline undoes the filter: the row is what it was.
LEMMA Unfiltered ==
  ASSUME NEW n \in Nat, NEW bpp \in {3, 4}, NEW filter \in 0 .. 4,
         NEW src, DOMAIN src = 1 .. n, NEW prev \in [1 .. n -> Byte], NEW row \in [1 .. n -> Byte],
         FilteredBy(filter, src, bpp, prev, row)
  PROVE  Unfilter(src, bpp, prev, filter) = row
<1> DEFINE Once(s) ==
      [i \in DOMAIN src |->
         (src[i] + Predictor(filter, LeftOf(s, i, bpp), prev[i], LeftOf(prev, i, bpp))) % 256]
<1>1. ASSUME NEW s, NEW i \in 1 .. n, LeftOf(s, i, bpp) = LeftOf(row, i, bpp)
      PROVE  Once(s)[i] = row[i]
  <2> DEFINE g == Guess(filter, LeftOf(row, i, bpp), prev[i], LeftOf(prev, i, bpp))
  <2>1. LeftOf(row, i, bpp) \in Byte /\ prev[i] \in Byte /\ LeftOf(prev, i, bpp) \in Byte
    <3>1. i > bpp => i - bpp \in 1 .. n
      OBVIOUS
    <3>2. 0 \in Byte
      BY DEF Byte
    <3>3. \A j \in 1 .. n : row[j] \in Byte /\ prev[j] \in Byte
      OBVIOUS
    <3> QED BY ONLY <3>1, <3>2, <3>3, i \in 1 .. n, Zenon DEF LeftOf
  <2>2. g \in Byte /\ Predictor(filter, LeftOf(row, i, bpp), prev[i], LeftOf(prev, i, bpp)) = g
    BY <2>1, Guessed
  <2>3. Once(s)[i] = (src[i] + g) % 256
    BY <1>1, <2>2
  <2>4. src[i] = (row[i] + 256 - g) % 256
    BY DEF FilteredBy
  <2>5. row[i] \in Byte
    OBVIOUS
  <2> HIDE DEF g, Once
  <2> QED BY <2>2, <2>3, <2>4, <2>5, FoundAgain
<1>2. Once(row) = row
  <2>1. \A i \in 1 .. n : Once(row)[i] = row[i]
    BY <1>1
  <2> QED BY <2>1
<1>3. ASSUME NEW dst, dst = Once(dst) PROVE dst = row
  <2> DEFINE T == {k \in Nat : \A i \in 1 .. n : i <= k => dst[i] = row[i]}
  <2> HIDE DEF Once
  <2>1. 0 \in T
    OBVIOUS
  <2>2. ASSUME NEW k \in T PROVE k + 1 \in T
    <3> SUFFICES ASSUME NEW i \in 1 .. n, i = k + 1 PROVE dst[i] = row[i]
      BY <2>2
    <3>1. LeftOf(dst, i, bpp) = LeftOf(row, i, bpp)
      BY <2>2 DEF LeftOf
    <3> QED BY <1>1, <1>3, <3>1
  <2>3. T = Nat
    <3>1. T \in SUBSET Nat
      OBVIOUS
    <3> HIDE DEF T
    <3> QED BY ONLY <2>1, <2>2, <3>1, Climb
  <2>4. \A i \in 1 .. n : dst[i] = row[i]
    <3> SUFFICES ASSUME NEW i \in 1 .. n PROVE dst[i] = row[i]
      OBVIOUS
    <3>1. i \in Nat
      OBVIOUS
    <3>2. i \in T
      BY ONLY <2>3, <3>1, Zenon
    <3> QED BY <3>2
  <2>5. dst = [i \in 1 .. n |-> dst[i]]
    BY <1>3 DEF Once
  <2> QED BY <2>4, <2>5
<1>4. Unfilter(src, bpp, prev, filter) = CHOOSE dst : dst = Once(dst)
  BY DEF Unfilter, LeftOf
<1> HIDE DEF Once
<1> QED BY <1>2, <1>3, <1>4

\* Where byte k of pixel x of a row is.
LEMMA PixelBytes ==
  ASSUME NEW bpp \in {3, 4}, NEW w \in Nat
  PROVE  /\ \A i \in 1 .. w * bpp : /\ ((i - 1) \div bpp) + 1 \in 1 .. w
                                    /\ ((i - 1) % bpp) + 1 \in 1 .. 4
         /\ \A x \in 1 .. w : \A k \in 1 .. bpp :
              /\ (x - 1) * bpp + k \in 1 .. w * bpp
              /\ ((((x - 1) * bpp + k) - 1) \div bpp) + 1 = x
              /\ ((((x - 1) * bpp + k) - 1) % bpp) + 1 = k
<1>1. CASE bpp = 3
  BY <1>1
<1>2. CASE bpp = 4
  BY <1>2
<1> QED BY <1>1, <1>2

RowOf(picture, hd, y) ==
  [i \in 1 .. hd.w * Bpp(hd) |-> ByteOf(picture, Bpp(hd), y, i)]

LEMMA RowTypes ==
  ASSUME NEW raw, NEW hd, NEW picture, Holds(raw, hd, picture), NEW y \in 0 .. hd.h
  PROVE  RowOf(picture, hd, y) \in [1 .. hd.w * Bpp(hd) -> Byte]
<1>1. SUFFICES ASSUME NEW i \in 1 .. hd.w * Bpp(hd) PROVE ByteOf(picture, Bpp(hd), y, i) \in Byte
  BY DEF RowOf
<1>2. /\ hd.w \in Nat /\ hd.h \in Nat /\ Bpp(hd) \in {3, 4}
      /\ picture \in [1 .. hd.h -> [1 .. hd.w -> Colour]]
  BY DEF Holds, Bpp
<1>3. CASE y = 0
  BY <1>3 DEF ByteOf, Byte
<1>4. CASE y # 0
  <2> DEFINE x == ((i - 1) \div Bpp(hd)) + 1
             k == ((i - 1) % Bpp(hd)) + 1
  <2>1. x \in 1 .. hd.w /\ k \in 1 .. 4
    BY <1>2, PixelBytes
  <2> HIDE DEF x, k
  <2>2. picture[y][x] \in Colour
    BY <1>2, <1>4, <2>1
  <2>3. picture[y][x][k] \in Byte
    BY <2>1, <2>2 DEF Colour
  <2>4. i >= 1 /\ i \in Int
    BY <1>2
  <2> QED BY <1>4, <2>3, <2>4 DEF ByteOf, x, k
<1> QED BY <1>3, <1>4

\* A row of the file, with the row above it, becomes the row of the picture.
LEMMA RowFound ==
  ASSUME NEW raw, NEW hd, NEW picture, Holds(raw, hd, picture), NEW y \in 1 .. hd.h
  PROVE  LET stride == hd.w * Bpp(hd)
             at     == (y - 1) * (1 + stride) + 1
         IN Unfilter(SubSeq(raw, at + 1, at + stride), Bpp(hd), RowOf(picture, hd, y - 1), raw[at])
              = RowOf(picture, hd, y)
<1> DEFINE stride == hd.w * Bpp(hd)
           at     == (y - 1) * (1 + stride) + 1
           src    == SubSeq(raw, at + 1, at + stride)
           row    == RowOf(picture, hd, y)
           prev   == RowOf(picture, hd, y - 1)
           bpp    == Bpp(hd)
<1>1. hd.w \in Nat /\ hd.h \in Nat /\ bpp \in {3, 4}
  BY DEF Holds, Bpp
<1>2. stride \in Nat /\ y - 1 \in Nat
  BY <1>1
<1>3. (y - 1) * (1 + stride) \in Nat
  <2> HIDE DEF stride
  <2> QED BY <1>2
<1>4. at \in Nat
  BY <1>3
<1>5. raw[at] \in 0 .. 4
      /\ \A i \in 1 .. stride :
           raw[at + i] = (ByteOf(picture, bpp, y, i) + 256
                           - Guess(raw[at], ByteOf(picture, bpp, y, i - bpp),
                                   ByteOf(picture, bpp, y - 1, i),
                                   ByteOf(picture, bpp, y - 1, i - bpp))) % 256
  BY DEF Holds
<1>6. row \in [1 .. stride -> Byte] /\ prev \in [1 .. stride -> Byte]
  BY <1>1, RowTypes
<1>7. \A i \in 1 .. stride :
        /\ row[i] = ByteOf(picture, bpp, y, i)
        /\ prev[i] = ByteOf(picture, bpp, y - 1, i)
  BY DEF RowOf
<1>8. \A i \in 1 .. stride :
        /\ LeftOf(row, i, bpp) = ByteOf(picture, bpp, y, i - bpp)
        /\ LeftOf(prev, i, bpp) = ByteOf(picture, bpp, y - 1, i - bpp)
  <2> SUFFICES ASSUME NEW i \in 1 .. stride
               PROVE  /\ LeftOf(row, i, bpp) = ByteOf(picture, bpp, y, i - bpp)
                      /\ LeftOf(prev, i, bpp) = ByteOf(picture, bpp, y - 1, i - bpp)
    OBVIOUS
  <2> HIDE DEF stride, row, prev, bpp
  <2>1. CASE i > bpp
    <3>1. i - bpp \in 1 .. stride
      BY <1>1, <1>2, <2>1
    <3> QED BY <1>7, <2>1, <3>1 DEF LeftOf
  <2>2. CASE ~(i > bpp)
    <3>1. i - bpp < 1
      BY <1>1, <1>2, <2>2
    <3> QED BY <2>2, <3>1 DEF LeftOf, ByteOf
  <2> QED BY <2>1, <2>2
<1>9. /\ DOMAIN src = 1 .. stride
      /\ \A i \in 1 .. stride : src[i] = raw[at + i]
  <2> DEFINE S == {raw[i] : i \in Int}
  <2> HIDE DEF stride, at
  <2>1. \A i \in (at + 1) .. (at + stride) : raw[i] \in S
    BY <1>2, <1>4
  <2>2. at + 1 \in Int /\ at + stride \in Int
    BY <1>2, <1>4
  <2> HIDE DEF S
  <2>3. /\ src \in Seq(S)
        /\ Len(src) = IF at + 1 <= at + stride THEN (at + stride) - (at + 1) + 1 ELSE 0
        /\ \A i \in 1 .. (at + stride) - (at + 1) + 1 : src[i] = raw[(at + 1) + i - 1]
    BY <2>1, <2>2, SubSeqProperties
  <2>4. Len(src) = stride /\ (at + stride) - (at + 1) + 1 = stride
    BY <1>2, <1>4, <2>3
  <2>5. DOMAIN src = 1 .. stride
    BY <2>3, <2>4
  <2>6. \A i \in 1 .. stride : (at + 1) + i - 1 = at + i
    BY <1>2, <1>4
  <2> QED BY <2>3, <2>4, <2>5, <2>6
<1>10. \A i \in 1 .. stride :
         src[i] = (row[i] + 256 - Guess(raw[at], LeftOf(row, i, bpp), prev[i],
                                        LeftOf(prev, i, bpp))) % 256
  <2> HIDE DEF stride, at, src, row, prev, bpp
  <2> QED BY <1>5, <1>7, <1>8, <1>9
<1>11. Unfilter(src, bpp, prev, raw[at]) = row
  <2>0. bpp \in {3, 4} /\ stride \in Nat /\ raw[at] \in 0 .. 4
    BY <1>1, <1>2, <1>5
  <2>1. DOMAIN src = 1 .. stride
    BY <1>9
  <2> DEFINE filter == raw[at]
  <2>2. filter \in 0 .. 4
    BY <2>0
  <2>3. FilteredBy(filter, src, bpp, prev, row)
    <3> HIDE DEF stride, at, src, row, prev, bpp
    <3> QED BY <1>10, <2>1 DEF FilteredBy
  <2> HIDE DEF filter, stride, at, src, row, prev, bpp
  <2>4. Unfilter(src, bpp, prev, filter) = row
    BY ONLY <2>0, <2>1, <2>2, <2>3, <1>6, Unfiltered
  <2> QED BY <2>4 DEF filter
<1> QED BY <1>11

\* The rows the decoder makes are those of the picture.
LEMMA RowsFound ==
  ASSUME NEW raw, NEW hd, NEW picture, Holds(raw, hd, picture)
  PROVE  Rows(raw, hd) = [y \in 1 .. hd.h |-> RowOf(picture, hd, y)]
<1> DEFINE stride == hd.w * Bpp(hd)
           at(y)  == (y - 1) * (1 + stride) + 1
           Made(s, y) == Unfilter(SubSeq(raw, at(y) + 1, at(y) + stride), Bpp(hd),
                                 s[y - 1], raw[at(y)])
           Once(s) == [y \in 0 .. hd.h |->
                         IF y = 0 THEN [i \in 1 .. stride |-> 0] ELSE Made(s, y)]
           rows == [y \in 0 .. hd.h |-> RowOf(picture, hd, y)]
<1>1. hd.h \in Nat
  BY DEF Holds
<1>2. [i \in 1 .. stride |-> 0] = RowOf(picture, hd, 0)
  BY DEF RowOf, ByteOf
<1>3. ASSUME NEW s, NEW y \in 1 .. hd.h, s[y - 1] = RowOf(picture, hd, y - 1)
      PROVE  Made(s, y) = RowOf(picture, hd, y)
  BY <1>3, RowFound
<1> HIDE DEF Made
<1>4. Once(rows) = rows
  <2>1. \A y \in 0 .. hd.h : Once(rows)[y] = rows[y]
    <3> SUFFICES ASSUME NEW y \in 0 .. hd.h PROVE Once(rows)[y] = rows[y]
      OBVIOUS
    <3>1. CASE y = 0
      BY <1>2, <3>1
    <3>2. CASE y # 0
      <4>1. y \in 1 .. hd.h /\ y - 1 \in 0 .. hd.h
        BY <1>1, <3>2
      <4> QED BY <1>3, <3>2, <4>1
    <3> QED BY <3>1, <3>2
  <2> QED BY <2>1
<1>5. ASSUME NEW s, s = Once(s) PROVE s = rows
  <2> DEFINE T == {k \in Nat : k <= hd.h => s[k] = RowOf(picture, hd, k)}
  <2>0. /\ hd.h >= 0 => s[0] = [i \in 1 .. stride |-> 0]
        /\ \A y \in 1 .. hd.h : s[y] = Made(s, y)
    <3>1. /\ hd.h >= 0 => Once(s)[0] = [i \in 1 .. stride |-> 0]
          /\ \A y \in 1 .. hd.h : Once(s)[y] = Made(s, y)
      BY <1>1
    <3> HIDE DEF Once
    <3> QED BY <1>5, <3>1
  <2>1. 0 \in T
    BY <1>1, <1>2, <2>0
  <2>2. ASSUME NEW k \in T PROVE k + 1 \in T
    <3> SUFFICES ASSUME k + 1 <= hd.h PROVE s[k + 1] = RowOf(picture, hd, k + 1)
      OBVIOUS
    <3>1. k + 1 \in 1 .. hd.h /\ (k + 1) - 1 = k /\ s[k] = RowOf(picture, hd, k)
      BY <1>1
    <3> QED BY <1>3, <2>0, <3>1
  <2>3. T = Nat
    <3>1. T \in SUBSET Nat
      OBVIOUS
    <3> HIDE DEF T
    <3> QED BY ONLY <2>1, <2>2, <3>1, Climb
  <2>4. \A y \in 0 .. hd.h : s[y] = RowOf(picture, hd, y)
    <3> SUFFICES ASSUME NEW y \in 0 .. hd.h PROVE s[y] = RowOf(picture, hd, y)
      OBVIOUS
    <3>1. y \in Nat /\ y <= hd.h
      BY <1>1
    <3>2. y \in T
      BY ONLY <2>3, <3>1, Zenon
    <3> QED BY <3>1, <3>2
  <2>5. s = [y \in 0 .. hd.h |-> s[y]]
    BY <1>5
  <2> QED BY <2>4, <2>5
<1>6. Rows(raw, hd) = LET row == CHOOSE s : s = Once(s) IN [y \in 1 .. hd.h |-> row[y]]
  BY DEF Rows, Made
<1> HIDE DEF Once
<1>7. (CHOOSE s : s = Once(s)) = rows
  BY <1>4, <1>5
<1> QED BY <1>1, <1>6, <1>7

LEMMA PictureFound ==
  ASSUME NEW raw, NEW hd, NEW picture, Holds(raw, hd, picture)
  PROVE  Picture(raw, hd) = picture
<1> DEFINE bpp == Bpp(hd)
<1>1. /\ hd.w \in Nat /\ hd.h \in Nat /\ bpp \in {3, 4}
      /\ picture \in [1 .. hd.h -> [1 .. hd.w -> Colour]]
      /\ bpp = 3 => \A y \in 1 .. hd.h : \A x \in 1 .. hd.w : picture[y][x][4] = 255
  BY DEF Holds, Bpp
<1>2. ASSUME NEW y \in 1 .. hd.h, NEW x \in 1 .. hd.w
      PROVE  Pixel(RowOf(picture, hd, y), x, bpp) = picture[y][x]
  <2> DEFINE p == picture[y][x]
             r == RowOf(picture, hd, y)
  <2>1. p \in Colour
    BY <1>1
  <2>2. p = <<p[1], p[2], p[3], p[4]>>
    BY <2>1 DEF Colour
  <2>3. ASSUME NEW k \in 1 .. bpp PROVE r[(x - 1) * bpp + k] = p[k]
    <3> DEFINE i == (x - 1) * bpp + k
    <3>1. i \in 1 .. hd.w * bpp /\ ((i - 1) \div bpp) + 1 = x /\ ((i - 1) % bpp) + 1 = k
      <4>1. bpp \in {3, 4} /\ hd.w \in Nat
        BY <1>1
      <4> HIDE DEF bpp
      <4> QED BY <4>1, PixelBytes
    <3>2. r[i] = ByteOf(picture, bpp, y, i)
      BY <3>1 DEF RowOf
    <3>3. i >= 1 /\ y # 0 /\ i \in Int
      BY <1>1, <3>1
    <3> HIDE DEF i
    <3> QED BY <3>1, <3>2, <3>3 DEF ByteOf, i
  <2>4. r[(x - 1) * bpp + 1] = p[1] /\ r[(x - 1) * bpp + 2] = p[2] /\ r[(x - 1) * bpp + 3] = p[3]
    BY <1>1, <2>3
  <2>5. (IF bpp = 4 THEN r[x * bpp] ELSE 255) = p[4]
    <3>1. CASE bpp = 4
      <4>1. x * bpp = (x - 1) * bpp + 4 /\ 4 \in 1 .. bpp
        BY <1>1, <3>1
      <4> QED BY <2>3, <3>1, <4>1
    <3>2. CASE bpp = 3
      BY <1>1, <3>2
    <3> QED BY <1>1, <3>1, <3>2
  <2> HIDE DEF r, p, bpp
  <2>6. Pixel(r, x, bpp) = <<p[1], p[2], p[3], p[4]>>
    BY <2>4, <2>5 DEF Pixel
  <2> QED BY <2>2, <2>6 DEF r, p
<1>3. Picture(raw, hd) =
        [y \in 1 .. hd.h |-> [x \in 1 .. hd.w |-> Pixel(RowOf(picture, hd, y), x, bpp)]]
  <2>1. Picture(raw, hd) =
          [y \in 1 .. hd.h |-> [x \in 1 .. hd.w |-> Pixel(Rows(raw, hd)[y], x, bpp)]]
    BY DEF Picture
  <2>2. \A y \in 1 .. hd.h : Rows(raw, hd)[y] = RowOf(picture, hd, y)
    <3>1. Rows(raw, hd) = [y \in 1 .. hd.h |-> RowOf(picture, hd, y)]
      BY RowsFound
    <3> QED BY <3>1
  <2> HIDE DEF bpp
  <2> QED BY <2>1, <2>2
<1>4. \A y \in 1 .. hd.h :
        [x \in 1 .. hd.w |-> Pixel(RowOf(picture, hd, y), x, bpp)] = picture[y]
  BY <1>1, <1>2
<1>5. picture = [y \in 1 .. hd.h |-> picture[y]]
  BY <1>1
<1> HIDE DEF bpp
<1> QED BY <1>3, <1>4, <1>5

\* What the decoder makes of a file, if it makes a picture of it, is what it holds.
LEMMA PictureIsHeld ==
  ASSUME FilesHold, NEW f \in DOMAIN Files, Decoded[f].picture # NoPicture
  PROVE  Decoded[f].picture = Files[f].holds
<1> DEFINE raw == Inflated(Stream(Files[f])).bytes
           hd  == HeaderOf(Files[f])
<1>1. Decoded[f].picture \in {NoPicture, Picture(raw, hd)}
  BY DEF Decoded, Decode
<1>2. Holds(raw, hd, Files[f].holds)
  BY DEF FilesHold
<1> HIDE DEF raw, hd
<1>3. Picture(raw, hd) = Files[f].holds
  BY <1>2, PictureFound
<1> QED BY <1>1, <1>3

\* The background changes only to the picture that the bytes of the file stand for, whole
\* and with every pixel right: pictures of any size, opaque or not, with any of the five
\* filters on each row, and kmalloc failing at any request.  That chunks and blocks give
\* these bytes is the hypothesis, which TLC evaluates for the files of its run.
THEOREM WallIsPicture == FilesHold => (KSpec => WallShows)
<1> SUFFICES ASSUME FilesHold PROVE KSpec => WallShows
  OBVIOUS
<1>1. KernelInv /\ [KNext]_kvars => [shown' # shown => shown' = Files[file].holds]_kvars
  <2> SUFFICES ASSUME KernelInv, KNext, shown' # shown PROVE shown' = Files[file].holds
    BY DEF kvars
  <2>1. WallDrawn
    BY DEF KNext, Kernel, kernel, Wizard, WizardRuns, WizardEnds, DesktopInit, DesktopBack,
           DesktopBg, Launch, Launched, Wall, WallRead, WallCopied, DecodeAsk, DecodeGot
  <2>2. Decoded[file].picture # NoPicture /\ shown' = Decoded[file].picture
    BY <2>1 DEF WallDrawn
  <2>3. file \in DOMAIN Files
    BY <2>1 DEF WallDrawn, Back, KernelInv, AtFile
  <2> QED BY <2>2, <2>3, PictureIsHeld
<1> QED BY <1>1, KernelInvariant, PTL DEF KSpec, WallShows
=============================================================================
