------------------------------ MODULE EventLog ------------------------------
(***************************************************************************)
(* What the event stream of a thread promises its readers: one log, only   *)
(* ever extended by whole blocks, of which every reader sees a contiguous  *)
(* stretch from where it asked to start, each event exactly once and in    *)
(* order, however often it loses its connection.                           *)
(***************************************************************************)
EXTENDS Integers, Sequences

CONSTANTS
  Writers,   \* who appends to the log
  Readers,
  First,     \* the position each reader asked to start from
  MaxBlock   \* bound on the events appended at once

VARIABLES
  log,       \* the writer of every event
  view       \* what each reader has seen

vars == <<log, view>>

Init ==
  /\ log = <<>>
  /\ view = [r \in Readers |-> <<>>]

\* A writer extends the log by a block of n events, all at once.
Extend(w, n) ==
  /\ log' = log \o [k \in 1..n |-> w]
  /\ UNCHANGED view

\* A reader sees the event after the last one it saw.
See(r) ==
  LET k == First[r] + Len(view[r]) IN
  /\ k \in DOMAIN log
  /\ view' = [view EXCEPT ![r] = Append(@, log[k])]
  /\ UNCHANGED log

Next ==
  \/ \E w \in Writers, n \in 1..MaxBlock : Extend(w, n)
  \/ \E r \in Readers : See(r)

Spec == Init /\ [][Next]_vars
============================================================================
