------------------------------- MODULE Collector -------------------------------
(***************************************************************************)
(* The console's collector (src/console/internal/collector) and its direct *)
(* connections (directconn): reconcile starts and stops one loop per       *)
(* target, a loop collects directly or through the gateway, and the direct *)
(* ones share one pool per datasource with the connection test.  A         *)
(* datasource has a loop per kind; all behave alike and one is modelled.   *)
(***************************************************************************)
EXTENDS Naturals, FiniteSets

CONSTANTS
  Ds,          \* datasources, numbered in the order of creation
  Conns,       \* connectors
  Loops,       \* collection loops
  Testers,     \* requests for a connection test
  Pools,       \* connection pools
  PageSize,    \* datasources per page of the listing (200 in the code)
  MaxSecret,   \* bound: how often a credential is rotated
  Backoff, BackoffLimit,   \* seconds
  None

VARIABLES
  home,        \* "absent", "direct", a connector, or "gone"
  secret,      \* version of the stored credential
  pass,        \* the reconciliation under way
  loops,       \* Collector.loops
  loop,        \* the goroutines
  pools,       \* Manager.pools
  pool,        \* the pools: None, or the version of the credential they use
  use          \* calls of poolFor

collVars == <<home, secret, pass, loops, loop, pools, pool, use>>
rows == <<home, secret>>

\* A goroutine is a loop or a request; None is neither a row nor a version; there are
\* finitely many rows; the first backoff, like all, is below twice the limit.
CollectorAssumption ==
  /\ Loops \cap Testers = {} /\ Ds \subseteq Nat /\ (Ds # {} => \E d \in Ds : \A e \in Ds : e <= d)
  /\ None \notin Nat \cup Loops \cup Pools \cup Conns \cup {"direct"}
  /\ MaxSecret \in Nat /\ Backoff \in Nat /\ BackoffLimit \in Nat /\ Backoff < 2 * BackoffLimit /\ PageSize \in Nat \ {0}

Users == Loops \cup Testers
Unused == [pc |-> "none", d |-> None, secret |-> 0, pool |-> None]
Ended == [pc |-> "ended", d |-> None, mode |-> None, cancelled |-> FALSE, backoff |-> Backoff]

TypeOK ==
  /\ home \in [Ds -> {"absent", "direct", "gone"} \cup Conns] /\ secret \in [Ds -> 0..MaxSecret]
  /\ pass.pc \in {"wait", "list", "apply", "stopped"} /\ pass.next \in Nat
  /\ loops \in [Ds -> Loops \cup {None}]
  /\ \A l \in Loops : loop[l].pc \in {"ended", "wait", "collect"} /\ loop[l].backoff < 2 * BackoffLimit
  /\ pools \in [Ds -> Pools \cup {None}] /\ pool \in [Pools -> 0..MaxSecret \cup {None}]
  /\ \A u \in Users : use[u].pc \in {"none", "lookup", "read", "built", "query"} /\ use[u].pool \in Pools \cup {None}

-----------------------------------------------------------------------------
(* The administrator.                                                      *)

\* Mode and connector are chosen once: no patch names another.
CreateDatasource(d) ==
  /\ home[d] = "absent" /\ \A e \in Ds : e < d => home[e] # "absent"
  /\ \E h \in {"direct"} \cup Conns : home' = [home EXCEPT ![d] = h]
  /\ UNCHANGED <<secret, pass, loops, loop, pools, pool, use>>

\* Neither a rotation nor a deletion touches the pools.
RotateCredential(d) ==
  /\ home[d] = "direct" /\ secret[d] < MaxSecret /\ secret' = [secret EXCEPT ![d] = @ + 1]
  /\ UNCHANGED <<home, pass, loops, loop, pools, pool, use>>

DeleteDatasource(d) ==
  /\ home[d] \notin {"absent", "gone"} /\ home' = [home EXCEPT ![d] = "gone"]
  /\ UNCHANGED <<secret, pass, loops, loop, pools, pool, use>>

-----------------------------------------------------------------------------
(* reconcile.                                                              *)

\* channelFor: what has a channel is collected.
Collected(d) == home[d] \in {"direct"} \cup Conns

BeginReconcile ==
  /\ pass.pc = "wait" /\ pass' = [pc |-> "list", next |-> 1, want |-> [d \in Ds |-> None]]
  /\ UNCHANGED <<rows, loops, loop, pools, pool, use>>

\* listTargets reads page by page, each page at its own moment.
ListPage ==
  /\ pass.pc = "list"
  /\ LET rest == {d \in Ds : d >= pass.next /\ home[d] \notin {"absent", "gone"}}
         page == {d \in rest : Cardinality({e \in rest : e < d}) < PageSize}
         want == [d \in Ds |-> IF d \in page /\ Collected(d) THEN home[d] ELSE pass.want[d]]
     IN  pass' = IF Cardinality(page) < PageSize THEN [pass EXCEPT !.pc = "apply", !.want = want]
                 ELSE [pass EXCEPT !.next = 1 + CHOOSE d \in page : \A e \in page : e <= d, !.want = want]
  /\ UNCHANGED <<rows, loops, loop, pools, pool, use>>

\* An error is logged, and what has been listed so far counts as everything.
ListFails ==
  /\ pass.pc = "list" /\ pass' = [pass EXCEPT !.pc = "apply"]
  /\ UNCHANGED <<rows, loops, loop, pools, pool, use>>

\* By key alone.
Startable(d) == pass.want[d] # None /\ loops[d] = None

Stoppable(d) == pass.want[d] = None /\ loops[d] # None

\* Under the mutex; every new loop is a goroutine of its own.
Reconcile ==
  /\ pass.pc = "apply"
  /\ LET new == {d \in Ds : Startable(d)}
         old == {loops[d] : d \in {e \in Ds : Stoppable(e)}}
     IN  \E l \in [new -> {k \in Loops : loop[k].pc = "ended"}] :
           /\ \A d, e \in new : d # e => l[d] # l[e]
           /\ loops' = [d \in Ds |-> IF d \in new THEN l[d] ELSE IF Stoppable(d) THEN None ELSE loops[d]]
           /\ loop' = [k \in Loops |->
                IF \E d \in new : l[d] = k
                  THEN LET d == CHOOSE d \in new : l[d] = k
                       IN  [Ended EXCEPT !.pc = "wait", !.d = d, !.mode = pass.want[d]]
                  ELSE [loop[k] EXCEPT !.cancelled = @ \/ k \in old]]
  /\ pass' = [pass EXCEPT !.pc = "wait", !.want = [d \in Ds |-> None], !.next = 1]
  /\ UNCHANGED <<rows, pools, pool, use>>

\* Run ends between two reconciliations.
StopAll ==
  /\ pass.pc = "wait" /\ pass' = [pass EXCEPT !.pc = "stopped"]
  /\ loops' = [d \in Ds |-> None]
  /\ loop' = [l \in Loops |-> [loop[l] EXCEPT !.cancelled = loop[l].pc # "ended"]]
  /\ UNCHANGED <<rows, pools, pool, use>>

-----------------------------------------------------------------------------
(* loop.                                                                   *)

LoopEnds(l) ==
  /\ loop[l].pc = "wait" /\ loop[l].cancelled
  /\ loop' = [loop EXCEPT ![l] = Ended]
  /\ UNCHANGED <<rows, pass, loops, pools, pool, use>>

\* The timer, which may win against a cancellation.
LoopFires(l) ==
  /\ loop[l].pc = "wait"
  /\ loop' = [loop EXCEPT ![l].pc = "collect"]
  /\ use' = IF loop[l].mode = "direct" THEN [use EXCEPT ![l] = [Unused EXCEPT !.pc = "lookup", !.d = loop[l].d]] ELSE use
  /\ UNCHANGED <<rows, pass, loops, pools, pool>>

\* Success resets the backoff, failure doubles it while it is below the limit.
Collected1(l, ok) ==
  loop' = [loop EXCEPT ![l].pc = "wait",
                       ![l].backoff = IF ok THEN Backoff ELSE IF @ < BackoffLimit THEN 2 * @ ELSE @]

\* TriggerCollect through the gateway.
TriggerCollect(l) ==
  /\ loop[l].pc = "collect" /\ loop[l].mode # "direct"
  /\ \E ok \in BOOLEAN : Collected1(l, ok)
  /\ UNCHANGED <<rows, pass, loops, pools, pool, use>>

\* TestConnection, from a request.
TestConnection(t) ==
  /\ use[t].pc = "none"
  /\ \E d \in Ds : home[d] # "absent" /\ use' = [use EXCEPT ![t] = [Unused EXCEPT !.pc = "lookup", !.d = d]]
  /\ UNCHANGED <<rows, pass, loops, loop, pools, pool>>

-----------------------------------------------------------------------------
(* poolFor.                                                                *)

Querying(u, p) == use' = [use EXCEPT ![u].pc = "query", ![u].pool = p, ![u].secret = 0]

Lookup(u) ==
  /\ use[u].pc = "lookup"
  /\ IF pools[use[u].d] # None THEN Querying(u, pools[use[u].d]) ELSE use' = [use EXCEPT ![u].pc = "read"]
  /\ UNCHANGED <<rows, pass, loops, loop, pools, pool>>

\* A user that cannot go on, or is done.
Done(u, ok) ==
  /\ use' = [use EXCEPT ![u] = Unused]
  /\ IF u \in Loops THEN Collected1(u, ok) ELSE UNCHANGED loop

\* GetDirectConnInfo and buildPool: reading the credential comes before the mutex.
BuildPool(u) ==
  /\ use[u].pc = "read" /\ home[use[u].d] = "direct"
  /\ \E p \in Pools :
       /\ pool[p] = None /\ \A v \in Users : use[v].pool # p
       /\ \A q \in Pools : q < p => pool[q] # None \/ \E v \in Users : use[v].pool = q
       /\ pool' = [pool EXCEPT ![p] = secret[use[u].d]]
       /\ use' = [use EXCEPT ![u].pc = "built", ![u].pool = p]
  /\ UNCHANGED <<rows, pass, loops, loop, pools>>

BuildFails(u) ==
  /\ use[u].pc = "read" /\ Done(u, FALSE)
  /\ UNCHANGED <<rows, pass, loops, pools, pool>>

\* Mutant: the table is not looked at again.
RegisterBlindly(u) ==
  /\ use[u].pc = "built"
  /\ pools' = [pools EXCEPT ![use[u].d] = use[u].pool] /\ pool' = pool /\ Querying(u, use[u].pool)
  /\ UNCHANGED <<rows, pass, loops, loop>>

\* Two may have built one: the first stays, the other closes its own.
RegisterPool(u) ==
  /\ use[u].pc = "built"
  /\ LET d == use[u].d
     IN  IF pools[d] = None
           THEN pools' = [pools EXCEPT ![d] = use[u].pool] /\ pool' = pool /\ Querying(u, use[u].pool)
           ELSE pools' = pools /\ pool' = [pool EXCEPT ![use[u].pool] = None] /\ Querying(u, pools[d])
  /\ UNCHANGED <<rows, pass, loops, loop>>

\* An open pool may answer, also with connections made under an older credential.
Query(u) ==
  /\ use[u].pc = "query" /\ pool[use[u].pool] # None /\ Done(u, TRUE)
  /\ UNCHANGED <<rows, pass, loops, pools, pool>>

\* A failed collection, or a test that timed out, leaves the pool where it is.
QueryFails(u) ==
  /\ use[u].pc = "query" /\ Done(u, FALSE)
  /\ UNCHANGED <<rows, pass, loops, pools, pool>>

\* Destroy: whatever pool is registered now.
DestroyPool(t) ==
  /\ t \in Testers /\ use[t].pc = "query"
  /\ pools' = [pools EXCEPT ![use[t].d] = None]
  /\ pool' = [p \in Pools |-> IF p = pools[use[t].d] THEN None ELSE pool[p]]
  /\ Done(t, FALSE)
  /\ UNCHANGED <<rows, pass, loops>>

Init ==
  /\ home = [d \in Ds |-> "absent"] /\ secret = [d \in Ds |-> 0]
  /\ pass = [pc |-> "wait", next |-> 1, want |-> [d \in Ds |-> None]]
  /\ loops = [d \in Ds |-> None] /\ loop = [l \in Loops |-> Ended]
  /\ pools = [d \in Ds |-> None] /\ pool = [p \in Pools |-> None]
  /\ use = [u \in Users |-> Unused]

Next ==
  \/ \E d \in Ds : CreateDatasource(d) \/ RotateCredential(d) \/ DeleteDatasource(d)
  \/ BeginReconcile \/ ListPage \/ ListFails \/ Reconcile \/ StopAll
  \/ \E l \in Loops : LoopEnds(l) \/ LoopFires(l) \/ TriggerCollect(l)
  \/ \E t \in Testers : TestConnection(t) \/ DestroyPool(t)
  \/ \E u \in Users : Lookup(u) \/ BuildPool(u) \/ BuildFails(u) \/ RegisterPool(u) \/ Query(u) \/ QueryFails(u)

Spec == Init /\ [][Next]_collVars

\* The ticker ticks, goroutines go on, and every collection and query comes to an end.
FairSpec ==
  /\ Spec
  /\ WF_collVars(BeginReconcile \/ ListPage \/ Reconcile)
  /\ \A l \in Loops : WF_collVars(LoopEnds(l) \/ LoopFires(l) \/ TriggerCollect(l))
  /\ \A u \in Users : WF_collVars(Lookup(u) \/ BuildPool(u) \/ BuildFails(u) \/ RegisterPool(u)
                                   \/ Query(u) \/ QueryFails(u))

-----------------------------------------------------------------------------
(* Properties.                                                             *)

\* reconcile, poolFor: nothing runs on that nobody can stop: each loop that has not
\* been cancelled is the one in the table, each open pool is in the table or still
\* with the call that built it, and no table holds a closed pool.
Accounted ==
  /\ \A l \in Loops : loop[l].pc # "ended" /\ ~loop[l].cancelled => loops[loop[l].d] = l
  /\ \A p \in Pools : pool[p] # None => \/ \E d \in Ds : pools[d] = p
                                        \/ \E u \in Users : use[u].pc = "built" /\ use[u].pool = p
  /\ \A d \in Ds : pools[d] # None => pool[pools[d]] # None

\* Destroy, ReapIdle: while the console runs, a deleted datasource does not keep its
\* connections for good (directconn.go:126, spec-1.17:76 and :123 say so; the code
\* calls neither on a deletion).
DeletedPoolsAreClosed ==
  \A d \in Ds : home[d] = "gone" ~> pools[d] = None \/ pass.pc = "stopped"
=============================================================================
