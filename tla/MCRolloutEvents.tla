-------------------------- MODULE MCRolloutEvents --------------------------
(* Small instances of RolloutEvents for TLC.                              *)
EXTENDS RolloutEvents, TLC

CONSTANTS p1, p2, w1, w2, r1

\* One writer on each pod.
WriterPods == [w \in Writers |-> IF w = w1 THEN p1 ELSE p2]

\* The reader wants everything.
Froms == [r \in Readers |-> 0]
============================================================================
