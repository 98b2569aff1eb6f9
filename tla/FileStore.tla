------------------------------ MODULE FileStore ------------------------------
(***************************************************************************)
(* What the storage layer of the kernel promises the desktop: a map from   *)
(* file names to the save whose bytes a reader gets back.                  *)
(*                                                                         *)
(* A save is not atomic.  From the moment its directory entry reaches the  *)
(* disk until the call returns 1 the name is Pending: the reader is        *)
(* promised nothing about it.  It stays Pending after a power failure or   *)
(* a failed call, until a later save of the same name returns 1.  What IS  *)
(* promised is that no step ever touches another name, except formatting,  *)
(* which first puts every name in doubt and then forgets it.               *)
(***************************************************************************)
EXTENDS Naturals

CONSTANTS
  Names,     \* the file names
  Saves,     \* what a save can put in a file
  Absent,    \* not in Saves: the name is not in the directory
  Pending    \* not in Saves: no promise about the name

VARIABLE content     \* content[n]: the save a reader of n gets

StoreTypeOK == content \in [Names -> Saves \cup {Absent, Pending}]

\* The directory entry of a new save of n reaches the disk.
Doubt(n) == content' = [content EXCEPT ![n] = Pending]

\* A save of n is over: n now holds it.
Settle(n, v) ==
  /\ content[n] = Pending
  /\ content' = [content EXCEPT ![n] = v]

\* Formatting starts: every name in the directory is in doubt.
DoubtAll ==
  content' = [n \in Names |-> IF content[n] = Absent THEN Absent ELSE Pending]

\* Formatting erases one sector of the directory.
Forget(S) ==
  /\ \A n \in S : content[n] = Pending
  /\ content' = [n \in Names |-> IF n \in S THEN Absent ELSE content[n]]

StoreInit == StoreTypeOK

\* A step changes a file: what changes none is not seen.
StoreNext ==
  /\ content' # content
  /\ \/ \E n \in Names : Doubt(n)
     \/ \E n \in Names, v \in Saves : Settle(n, v)
     \/ DoubtAll
     \/ \E S \in SUBSET Names : Forget(S)

StoreSpec == StoreInit /\ [][StoreNext]_content
==============================================================================
