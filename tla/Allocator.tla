------------------------------ MODULE Allocator ------------------------------
(***************************************************************************)
(* What kmalloc and kfree promise their callers: the bytes of a block are  *)
(* the caller's alone from the moment it gets them until it frees them.    *)
(***************************************************************************)
EXTENDS Integers

CONSTANT Bytes      \* the addresses of the bytes of the heap

VARIABLE blocks     \* the blocks callers hold: where they start, how long they are

BytesOf(b) == b.ptr .. b.ptr + b.len - 1

AllocatorInit == blocks = {}

Alloc(b) ==
  /\ BytesOf(b) \subseteq Bytes
  /\ \A c \in blocks : c.ptr # b.ptr /\ BytesOf(b) \cap BytesOf(c) = {}
  /\ blocks' = blocks \cup {b}

Free(b) == b \in blocks /\ blocks' = blocks \ {b}

AllocatorNext ==
  \/ \E b \in blocks' : Alloc(b)
  \/ \E b \in blocks : Free(b)

AllocatorSpec == AllocatorInit /\ [][AllocatorNext]_blocks
==============================================================================
