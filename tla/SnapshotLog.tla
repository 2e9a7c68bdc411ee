----------------------------- MODULE SnapshotLog -----------------------------
(***************************************************************************)
(* What the staging directory and its drains promise together: books enter *)
(* the database in batches, each of which takes everything older that is   *)
(* still waiting, leave the directory only after that, and are stored once *)
(* more at most for every fault.                                           *)
(***************************************************************************)
EXTENDS Naturals

CONSTANT Books   \* numbered in the order they are staged

VARIABLES
  waiting,   \* books in the directory
  gone,      \* books that have left it
  copies,    \* rows of each book
  faults

log == <<waiting, gone, copies, faults>>

Init ==
  /\ waiting = {} /\ gone = {}
  /\ copies = [b \in Books |-> 0] /\ faults = 0

Stage(b) ==
  /\ \A c \in waiting \cup gone : c < b
  /\ waiting' = waiting \cup {b}
  /\ UNCHANGED <<gone, copies, faults>>

Store(batch) ==
  /\ \A b \in batch, c \in waiting : c < b => c \in batch
  /\ \A b \in batch : copies[b] <= faults
  /\ copies' = [b \in Books |-> IF b \in batch THEN copies[b] + 1 ELSE copies[b]]
  /\ UNCHANGED <<waiting, gone, faults>>

Leave(b) ==
  /\ copies[b] > 0
  /\ waiting' = waiting \ {b} /\ gone' = gone \cup {b}
  /\ UNCHANGED <<copies, faults>>

Fault == faults' = faults + 1 /\ UNCHANGED <<waiting, gone, copies>>

Next ==
  \/ \E b \in Books : Stage(b)
  \/ \E batch \in SUBSET waiting : Store(batch)
  \/ \E b \in waiting : Leave(b)
  \/ Fault

Spec == Init /\ [][Next]_log
=============================================================================
