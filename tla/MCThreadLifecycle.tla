------------------------ MODULE MCThreadLifecycle ------------------------
(* Small instances of ThreadLifecycle for TLC.                            *)
EXTENDS ThreadLifecycle, TLC

CONSTANTS p1, p2, t1, t2, i1, i2, i3, n1

OneTenant == [t \in Threads |-> n1]

AllOnT1 == [r \in Rows |-> t1]

\* The third input is for a thread of its own; the other rows are for t1.
ThirdOnT2 == [r \in Rows |-> IF r = i3 THEN t2 ELSE t1]

Symmetric == Permutations(Callers) \cup Permutations(Sessions) \cup Permutations(Pods)

\* For runs with one pod.
SymmetricCallers == Permutations(Callers) \cup Permutations(Sessions)

\* For runs with one pod and one caller.
SymmetricSessions == Permutations(Sessions)
===========================================================================
