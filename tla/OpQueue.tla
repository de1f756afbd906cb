------------------------------- MODULE OpQueue -------------------------------
(***************************************************************************)
(* What the operation array of an enclave promises to its two users: the   *)
(* application thread hands over operations, the helper thread receives    *)
(* them in the same order, each once and each whole.  Nothing is said of   *)
(* when, or whether, an operation is received.                             *)
(***************************************************************************)
EXTENDS Naturals, Sequences

CONSTANT Op              \* the operations that may be handed over

VARIABLES inserted,      \* every operation handed over, in order
          removed        \* every operation the helper received, in order

Init == inserted = << >> /\ removed = << >>

Insert == /\ \E op \in Op : inserted' = Append(inserted, op)
          /\ UNCHANGED removed

Remove == /\ Len(removed) < Len(inserted)
          /\ removed' = Append(removed, inserted[Len(removed) + 1])
          /\ UNCHANGED inserted

Next == Insert \/ Remove

Spec == Init /\ [][Next]_<<inserted, removed>>
=============================================================================
