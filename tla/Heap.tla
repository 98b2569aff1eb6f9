--------------------------------- MODULE Heap ---------------------------------
(***************************************************************************)
(* The kernel heap, src/kernel/mem/heap.c: a list of nodes, each a header  *)
(* in the heap itself followed by the bytes it describes.  kmalloc takes   *)
(* the first free node that is large enough and splits it; kfree marks a   *)
(* node free and walks the whole list to merge neighbours.                 *)
(*                                                                         *)
(* A step is one turn of the loop of kmalloc or of kfree.                  *)
(***************************************************************************)
EXTENDS Integers

CONSTANTS
  HeapSize,   \* bytes given to Heap_Init
  Header,     \* sizeof(HeapNode) (24)
  Slack,      \* a split must leave more than this many bytes (16)
  Sizes       \* the sizes callers ask for

ASSUME HeapAssumption ==
  /\ Header \in Nat \ {0} /\ Slack \in Nat
  /\ HeapSize \in Nat /\ HeapSize >= Header
  /\ Sizes \subseteq Nat

Null  == -1
Addrs == 0 .. HeapSize - 1

VARIABLES
  nodes,              \* the addresses of the headers on the list
  size, next, free,   \* their fields; elsewhere the heap holds callers' bytes
  op,                 \* the call in progress: "malloc", "free" or "idle"
  arg,                \* its argument: a size, or the node to be freed
  current,            \* where its walk of the list is
  ret,                \* what the last kmalloc returned
  blocks              \* history: the blocks callers hold

list == <<nodes, size, next, free>>
call == <<op, arg, current>>
vars == <<list, call, ret, blocks>>

\* Heap_Init
Init ==
  /\ nodes = {0}
  /\ size = [a \in nodes |-> HeapSize - Header]
  /\ next = [a \in nodes |-> Null]
  /\ free = [a \in nodes |-> TRUE]
  /\ op = "idle" /\ arg = 0 /\ current = Null /\ ret = Null
  /\ blocks = {}

Return == op' = "idle" /\ arg' = 0 /\ current' = Null

-----------------------------------------------------------------------------
(* kmalloc *)

CallMalloc(n) ==
  /\ op = "idle"
  /\ op' = "malloc" /\ arg' = n /\ current' = 0
  /\ UNCHANGED <<list, ret, blocks>>

\* Seeded fault: a node of exactly the size asked for is passed over.
FitsStrict(a) == free[a] /\ size[a] > arg

Fits(a) == free[a] /\ size[a] >= arg

\* A node that does not fit is passed over; at the end of the list, no memory.
MallocSkip ==
  /\ op = "malloc" /\ current # Null /\ ~Fits(current)
  /\ current' = next[current]
  /\ UNCHANGED <<list, op, arg, ret, blocks>>

MallocFail ==
  /\ op = "malloc" /\ current = Null
  /\ ret' = Null /\ Return
  /\ UNCHANGED <<list, blocks>>

\* Where the header of the rest goes when the node is split.
Rest == current + Header + arg

\* Seeded fault: the rest is as large as if it had no header.
SplitNoHeader ==
  /\ size[current] > arg + Header + Slack
  /\ nodes' = nodes \cup {Rest}
  /\ size' = [a \in nodes' |-> IF a = Rest THEN size[current] - arg
                               ELSE IF a = current THEN arg ELSE size[a]]
  /\ next' = [a \in nodes' |-> IF a = Rest THEN next[current]
                               ELSE IF a = current THEN Rest ELSE next[a]]
  /\ free' = [a \in nodes' |-> a = Rest \/ (a # current /\ free[a])]

Split ==
  /\ size[current] > arg + Header + Slack
  /\ nodes' = nodes \cup {Rest}
  /\ size' = [a \in nodes' |-> IF a = Rest THEN size[current] - arg - Header
                               ELSE IF a = current THEN arg ELSE size[a]]
  /\ next' = [a \in nodes' |-> IF a = Rest THEN next[current]
                               ELSE IF a = current THEN Rest ELSE next[a]]
  /\ free' = [a \in nodes' |-> a = Rest \/ (a # current /\ free[a])]

Whole ==
  /\ size[current] <= arg + Header + Slack
  /\ free' = [free EXCEPT ![current] = FALSE]
  /\ UNCHANGED <<nodes, size, next>>

MallocTake ==
  /\ op = "malloc" /\ current # Null /\ Fits(current)
  /\ Split \/ Whole
  /\ ret' = current + Header
  /\ blocks' = blocks \cup {[ptr |-> ret', len |-> arg]}
  /\ Return

-----------------------------------------------------------------------------
(* kfree *)

\* A caller frees a block it holds; the node is marked at once.
CallFree(b) ==
  /\ op = "idle" /\ b \in blocks
  /\ op' = "free" /\ arg' = b.ptr - Header /\ current' = 0
  /\ free' = [free EXCEPT ![arg'] = TRUE]
  /\ blocks' = blocks \ {b}
  /\ UNCHANGED <<nodes, size, next, ret>>

Mergeable(a) == free[a] /\ next[a] # Null /\ free[next[a]]

\* current takes over its successor.
Merge ==
  LET gone == next[current]
  IN /\ nodes' = nodes \ {gone}
     /\ size' = [a \in nodes' |-> IF a = current THEN size[a] + size[gone] + Header
                                                 ELSE size[a]]
     /\ next' = [a \in nodes' |-> IF a = current THEN next[gone] ELSE next[a]]
     /\ free' = [a \in nodes' |-> free[a]]

\* Seeded fault: after a merge the walk moves on.
FreeMergeOnce ==
  /\ op = "free" /\ current # Null /\ Mergeable(current)
  /\ Merge
  /\ current' = next'[current]
  /\ UNCHANGED <<op, arg, ret, blocks>>

\* Two free neighbours become one node; the walk looks at it again.
FreeMerge ==
  /\ op = "free" /\ current # Null /\ Mergeable(current)
  /\ Merge
  /\ UNCHANGED <<call, ret, blocks>>

\* Seeded fault: the walk stays where it is once there is nothing to merge.
FreeStay ==
  /\ op = "free" /\ current # Null /\ ~Mergeable(current)
  /\ current' = IF free[current] THEN current ELSE next[current]
  /\ UNCHANGED <<list, op, arg, ret, blocks>>

FreeNext ==
  /\ op = "free" /\ current # Null /\ ~Mergeable(current)
  /\ current' = next[current]
  /\ UNCHANGED <<list, op, arg, ret, blocks>>

FreeDone ==
  /\ op = "free" /\ current = Null
  /\ Return
  /\ UNCHANGED <<list, ret, blocks>>

-----------------------------------------------------------------------------

Walk ==
  \/ MallocSkip \/ MallocFail \/ MallocTake
  \/ FreeMerge \/ FreeNext \/ FreeDone

Next ==
  \/ \E n \in Sizes : CallMalloc(n)
  \/ \E b \in blocks : CallFree(b)
  \/ Walk

\* A call that was made runs on; nobody is obliged to call.
Spec == Init /\ [][Next]_vars /\ WF_vars(Walk)

-----------------------------------------------------------------------------
(* Properties. *)

End(a) == a + Header + size[a]

\* Types of the variables.
TypeOK ==
  /\ nodes \subseteq Addrs
  /\ size \in [nodes -> Nat]
  /\ next \in [nodes -> nodes \cup {Null}]
  /\ free \in [nodes -> BOOLEAN]
  /\ op \in {"idle", "malloc", "free"} /\ arg \in Nat
  /\ current \in nodes \cup {Null} /\ ret \in Nat \cup {Null}
  /\ blocks \subseteq [ptr : Nat, len : Nat]

\* The list tiles the heap: each node ends where its successor starts, the last
\* one where the heap ends, and no two nodes overlap.  This holds after every
\* turn of both loops, and it is what keeps a header out of a caller's block.
Tiles ==
  /\ 0 \in nodes
  /\ \A a \in nodes :
       IF next[a] = Null THEN End(a) = HeapSize
                         ELSE next[a] = End(a)
  /\ \A a, b \in nodes : a < b => End(a) <= b

\* Every block a caller holds lies in a node of its own that is not free.
BlocksOwned ==
  \A b \in blocks :
    /\ b.ptr - Header \in nodes /\ ~free[b.ptr - Header]
    /\ b.len <= size[b.ptr - Header]
    /\ \A c \in blocks : c.ptr = b.ptr => c = b

\* Between calls no two neighbours are free: freeing loses nothing to
\* fragmentation that merging could win back.
Coalesced ==
  op = "idle" => \A a \in nodes : ~Mergeable(a)

\* kmalloc reports no memory only when no free node is large enough.
FailsOnlyWhenFull ==
  [][op = "malloc" /\ op' = "idle" /\ ret' = Null
     => \A a \in nodes : free[a] => size[a] < arg]_vars

\* The blocks callers hold are theirs alone.
Alloc == INSTANCE Allocator WITH Bytes <- Addrs
ImplementsAllocator == Alloc!AllocatorSpec

\* Every call returns: neither walk runs in circles.
CallsReturn == op # "idle" ~> op = "idle"

-----------------------------------------------------------------------------
(* The inductive invariant: what the walks have established so far. *)

Passed(a) == current = Null \/ a < current

WalkInv ==
  /\ op = "idle" => current = Null
  /\ op = "malloc" => \A a \in nodes : Passed(a) => ~Fits(a)
  /\ op # "free" => \A a \in nodes : ~Mergeable(a)
  /\ op = "free" => \A a \in nodes : Passed(a) => ~Mergeable(a)

HeapInv == TypeOK /\ Tiles /\ BlocksOwned /\ WalkInv
===============================================================================
