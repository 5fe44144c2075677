-------------------------- MODULE ThreadLifecycle --------------------------
(***************************************************************************)
(* The life of an agent thread across the pods of agent-runtime: its row   *)
(* in agent_threads (claim, heartbeat, release), its durable input queue,  *)
(* the live sessions the pods run for it, the per-tenant turn limiter,     *)
(* draining, crashes and orphan recovery.                                  *)
(*                                                                         *)
(* A pod runs any number of goroutines.  Callers are the ones that enter   *)
(* the engine from outside (HTTP handlers and the queue sweeper); every    *)
(* live session has a pump goroutine of its own, named by the session.     *)
(* Both kinds run the same feed loop, with no lock around it.              *)
(***************************************************************************)
EXTENDS Integers, Sequences, FiniteSets

CONSTANTS
  Pods,              \* agent-runtime processes, named by POD_NAME
  Threads,           \* agent_threads rows
  Tenants,
  TenantOf,          \* the tenant each thread belongs to
  Inputs,            \* user inputs, each submitted at most once
  Interrupts,        \* interrupt requests, each made at most once
  Deletes,           \* threads that clients may delete
  ThreadOf,          \* the thread each queue row is for
  Poison,            \* inputs that the core refuses to admit
  Callers,           \* goroutines entering the engine: handlers, sweeper
  Sessions,          \* liveThread objects (reused once nothing refers to them)
  None,              \* the nil pointer / SQL NULL
  MaxTurns,          \* AIRUSH_AGENT_MAX_CONCURRENT_TURNS; 0 means no limit
  MaxEvents,         \* room in a core session's event queue
  MaxStops,          \* bound on crashes and graceful stops together
  Resumes,           \* whether clients call ResumeThread
  StoreFaults,       \* whether single database calls may fail
  CoreFaults,        \* whether the core may fail to start or die by itself
  HeartbeatsTimely   \* whether a live holder always refreshes in time

Rows == Inputs \cup Interrupts
Feeders == Callers \cup Sessions

ASSUME ConstantsAssumption ==
  /\ TenantOf \in [Threads -> Tenants]
  /\ ThreadOf \in [Rows -> Threads]
  /\ Inputs \cap Interrupts = {}
  /\ Callers \cap Sessions = {}
  /\ Poison \subseteq Inputs
  /\ Deletes \subseteq Threads
  /\ None \notin Pods \cup Sessions \cup Threads \cup Rows
  /\ MaxTurns \in Nat
  /\ MaxStops \in Nat
  /\ MaxEvents \in Nat \ {0}
  /\ Resumes \in BOOLEAN
  /\ StoreFaults \in BOOLEAN
  /\ CoreFaults \in BOOLEAN
  /\ HeartbeatsTimely \in BOOLEAN

VARIABLES
  thr,        \* agent_threads: status, running_pod, heartbeat age, last_seq = 0
  queue,      \* agent_thread_queue rows not yet admitted, in insertion order
  pod,        \* process state of each pod, with the state of its Drain
  live,       \* Engine.live of each pod
  slots,      \* TenantLimiter.cur of each pod
  sess,       \* liveThread objects with the core session they wrap
  call,       \* where each caller goroutine is
  feed,       \* where each feeder is in feed()
  sent,       \* history: inputs whose enqueue committed
  delivered,  \* history: inputs the core accepted at least once
  admitted,   \* inputs whose queue row has admitted_turn_id set
  stops       \* crashes and graceful stops so far

vars == <<thr, queue, pod, live, slots, sess, call, feed, sent, delivered,
          admitted, stops>>

-----------------------------------------------------------------------------
(* The thread row: one operator per SQL statement of pgstore/runtime.go.    *)

NewRow == [status |-> "idle", pod |-> None, hb |-> "none", new |-> TRUE]

\* Mutant: the WHERE clause lets a running thread be claimed again.
ClaimableRunning(r) == r.status # "deleted"

Claimable(r) == r.status \in {"idle", "interrupted"}

ClaimTurn(r, p) == [r EXCEPT !.status = "running", !.pod = p, !.hb = "fresh"]

\* Mutant: a release that forgets to take the row out of 'running'.
ReleaseTurnKeepsStatus(r, to) == r

\* The WHERE clause tests the status alone, not who holds the row.
ReleaseTurn(r, to) ==
  IF r.status = "running"
  THEN [r EXCEPT !.status = to, !.pod = None, !.hb = "none"]
  ELSE r

MarkIdle(r) ==
  IF r.status = "interrupted"
  THEN [r EXCEPT !.status = "idle", !.pod = None, !.hb = "none"]
  ELSE r

\* Mutant: a recovery scan that does not look at the heartbeat's age.
MarkAnyRunning(r) ==
  IF r.status = "running"
  THEN [r EXCEPT !.status = "interrupted", !.pod = None, !.hb = "none"]
  ELSE r

MarkStale(r) ==
  IF r.status = "running" /\ r.hb \in {"none", "stale"}
  THEN [r EXCEPT !.status = "interrupted", !.pod = None, !.hb = "none"]
  ELSE r

-----------------------------------------------------------------------------
(* The tenant limiter of one pod.                                           *)

CanAcquire(cur, n) == MaxTurns = 0 \/ cur[n] < MaxTurns

Acquire(cur, n) == IF MaxTurns = 0 THEN cur ELSE [cur EXCEPT ![n] = @ + 1]

Release(cur, n) ==
  IF MaxTurns = 0 \/ cur[n] = 0 THEN cur ELSE [cur EXCEPT ![n] = @ - 1]

-----------------------------------------------------------------------------
(* Processes.                                                               *)

PodStates == {"up", "draining", "exited", "crashed"}

FreshPod == [st |-> "up", recovered |-> FALSE, snap |-> {}, cur |-> None]

Up(p) == pod[p].st \in {"up", "draining"}

Draining(p) == pod[p].st = "draining"

IdleCall == [pc |-> "idle", pod |-> None, thread |-> None, input |-> None,
             new |-> FALSE, sess |-> None]

IdleFeed == [pc |-> "off", todo |-> <<>>, admitted |-> FALSE]

ClosedSession ==
  [pc |-> "closed", thread |-> None, pod |-> None, to |-> "idle",
   turn |-> FALSE, intr |-> FALSE, dead |-> FALSE, evq |-> <<>>,
   running |-> FALSE]

\* The liveThread a feeder feeds: a pump its own, a caller the one it found.
FedSession(f) == IF f \in Sessions THEN f ELSE call[f].sess

\* A liveThread object that no goroutine can reach any more.
Unreferenced(s) ==
  /\ sess[s].pc = "closed"
  /\ feed[s].pc = "off"
  /\ \A c \in Callers : call[c].sess # s
  /\ \A p \in Pods : s \notin pod[p].snap /\ pod[p].cur # s

Goto(c, pc) == call' = [call EXCEPT ![c].pc = pc]

Return(c) == call' = [call EXCEPT ![c] = IdleCall]

Init ==
  /\ thr = [t \in Threads |-> NewRow]
  /\ queue = [t \in Threads |-> <<>>]
  /\ pod = [p \in Pods |-> FreshPod]
  /\ live = [p \in Pods |-> [t \in Threads |-> None]]
  /\ slots = [p \in Pods |-> [n \in Tenants |-> 0]]
  /\ sess = [s \in Sessions |-> ClosedSession]
  /\ call = [c \in Callers |-> IdleCall]
  /\ feed = [f \in Feeders |-> IdleFeed]
  /\ sent = {}
  /\ delivered = {}
  /\ admitted = {}
  /\ stops = 0

-----------------------------------------------------------------------------
(* Entering the engine.                                                     *)

\* SubmitTurn up to GetThreadInfo: the row, last_seq included, is read here
\* and the copy is used for the rest of the call.
BeginSubmit(c, p, i) ==
  /\ call[c].pc = "idle"
  /\ Up(p)
  /\ i \notin sent
  /\ \A d \in Callers : call[d].input # i
  /\ thr[ThreadOf[i]].status # "deleted"
  /\ call' = [call EXCEPT ![c] =
                [pc |-> "enqueue", pod |-> p, thread |-> ThreadOf[i],
                 input |-> i, new |-> thr[ThreadOf[i]].new, sess |-> None]]
  /\ UNCHANGED <<thr, queue, pod, live, slots, sess, feed, sent, delivered,
                 admitted, stops>>

\* The first half of dispatch(): liveFor, then the Draining test.  No lock is
\* held afterwards.
Dispatch(c, p, t, new) ==
  LET at(pc, s) == [pc |-> pc, pod |-> p, thread |-> t, input |-> None,
                    new |-> new, sess |-> s]
  IN
  \/ /\ live[p][t] # None
     /\ call' = [call EXCEPT ![c] = at("feed", live[p][t])]
     /\ feed' = [feed EXCEPT ![c].pc = "read"]
  \/ /\ live[p][t] = None /\ ~Draining(p)
     /\ call' = [call EXCEPT ![c] = at("claim", None)]
     /\ UNCHANGED feed
  \/ /\ live[p][t] = None /\ Draining(p)
     /\ Return(c)
     /\ UNCHANGED feed

\* EnqueueInput: the durable insert, refused when the thread was deleted.
Enqueue(c) ==
  LET t == call[c].thread IN
  /\ call[c].pc = "enqueue"
  /\ IF thr[t].status = "deleted"
     THEN /\ Return(c)
          /\ UNCHANGED <<queue, sent, feed>>
     ELSE /\ queue' = [queue EXCEPT ![t] = Append(@, call[c].input)]
          /\ sent' = sent \cup {call[c].input}
          /\ Dispatch(c, call[c].pod, t, call[c].new)
  /\ UNCHANGED <<thr, pod, live, slots, sess, delivered, admitted, stops>>

\* The sweeper lists a thread with unadmitted rows and calls Dispatch on it.
BeginSweep(c, p, t) ==
  /\ call[c].pc = "idle"
  /\ pod[p].st = "up"
  /\ queue[t] # <<>>
  /\ thr[t].status # "deleted"
  /\ Dispatch(c, p, t, thr[t].new)
  /\ UNCHANGED <<thr, queue, pod, live, slots, sess, sent, delivered, admitted,
                 stops>>

\* ResumeThread: an interrupted row goes back to idle, then dispatch.
BeginResume(c, p, t) ==
  /\ Resumes
  /\ call[c].pc = "idle"
  /\ Up(p)
  /\ thr[t].status # "deleted"
  /\ thr' = [thr EXCEPT ![t] = MarkIdle(@)]
  /\ Dispatch(c, p, t, thr[t].new)
  /\ UNCHANGED <<queue, pod, live, slots, sess, sent, delivered, admitted, stops>>

\* Interrupt: straight to the core when the session is here, queued when some
\* other pod runs the thread, nothing when nobody does.
Interrupt(p, r) ==
  LET t == ThreadOf[r] IN
  /\ Up(p)
  /\ r \notin sent
  /\ thr[t].status # "deleted"
  /\ sent' = sent \cup {r}
  /\ \/ /\ live[p][t] # None
        /\ sess' = [sess EXCEPT ![live[p][t]].intr = TRUE]
        /\ UNCHANGED queue
     \/ /\ live[p][t] = None
        /\ queue' = IF thr[t].status = "running"
                    THEN [queue EXCEPT ![t] = Append(@, r)]
                    ELSE queue
        /\ UNCHANGED sess
  /\ UNCHANGED <<thr, pod, live, slots, call, feed, delivered, admitted, stops>>

\* DeleteThreads: the row is marked and its queue emptied, running or not.
DeleteThread(t) ==
  /\ thr[t].status # "deleted"
  /\ thr' = [thr EXCEPT ![t].status = "deleted"]
  /\ queue' = [queue EXCEPT ![t] = <<>>]
  /\ UNCHANGED <<pod, live, slots, sess, call, feed, sent, delivered, admitted,
                 stops>>

-----------------------------------------------------------------------------
(* The second half of dispatch(): claim the thread and start a session.     *)

\* ClaimTurn, then TryAcquire on this pod's limiter.
Claim(c) ==
  LET p == call[c].pod
      t == call[c].thread
      n == TenantOf[t]
  IN
  /\ call[c].pc = "claim"
  /\ \/ /\ ~Claimable(thr[t]) \/ StoreFaults
        /\ Return(c)
        /\ UNCHANGED <<thr, slots>>
     \/ /\ Claimable(thr[t]) /\ CanAcquire(slots[p], n)
        /\ thr' = [thr EXCEPT ![t] = ClaimTurn(@, p)]
        /\ slots' = [slots EXCEPT ![p] = Acquire(@, n)]
        /\ Goto(c, "start")
     \/ /\ Claimable(thr[t]) /\ ~CanAcquire(slots[p], n)
        /\ thr' = [thr EXCEPT ![t] = ClaimTurn(@, p)]
        /\ Goto(c, "unclaim")
        /\ UNCHANGED slots
  /\ UNCHANGED <<queue, pod, live, sess, feed, sent, delivered, admitted, stops>>

\* startLive: a new liveThread enters Engine.live and its pump starts.
StartLive(c) ==
  LET p == call[c].pod
      t == call[c].thread
  IN
  /\ call[c].pc = "start"
  /\ \E s \in Sessions :
       /\ Unreferenced(s)
       /\ sess' = [sess EXCEPT ![s] =
                     [ClosedSession EXCEPT !.pc = "open", !.thread = t,
                                           !.pod = p]]
       /\ live' = [live EXCEPT ![p][t] = s]
       /\ call' = [call EXCEPT ![c].pc = "feed", ![c].sess = s]
  /\ feed' = [feed EXCEPT ![c].pc = "read"]
  /\ UNCHANGED <<thr, queue, pod, slots, sent, delivered, admitted, stops>>

\* startLive failed: the slot goes back, then the claim.
StartLiveFails(c) ==
  /\ CoreFaults
  /\ call[c].pc = "start"
  /\ slots' = [slots EXCEPT ![call[c].pod] = Release(@, TenantOf[call[c].thread])]
  /\ Goto(c, "unclaim")
  /\ UNCHANGED <<thr, queue, pod, live, sess, feed, sent, delivered, admitted,
                 stops>>

\* The ReleaseTurn(idle) of both failure paths; its error is ignored.
Unclaim(c) ==
  /\ call[c].pc = "unclaim"
  /\ \/ thr' = [thr EXCEPT ![call[c].thread] = ReleaseTurn(@, "idle")]
     \/ StoreFaults /\ UNCHANGED thr
  /\ Return(c)
  /\ UNCHANGED <<queue, pod, live, slots, sess, feed, sent, delivered, admitted,
                 stops>>

-----------------------------------------------------------------------------
(* release(): the steps a liveThread takes on its way out.  relOnce makes   *)
(* the first caller run them; the rest of the process waits for `released`. *)

\* Out of Engine.live, unless a newer session already took its place.
Unlinked(s) ==
  [live EXCEPT ![sess[s].pod][sess[s].thread] = IF @ = s THEN None ELSE @]

Leaving(r, to) == [r EXCEPT !.pc = "leaving", !.to = to]

BeginRelease(s, to) ==
  /\ sess' = [sess EXCEPT ![s] = Leaving(@, to)]
  /\ live' = Unlinked(s)

ReleaseRow(s) ==
  /\ sess[s].pc = "leaving"
  /\ \/ thr' = [thr EXCEPT ![sess[s].thread] = ReleaseTurn(@, sess[s].to)]
     \/ StoreFaults /\ UNCHANGED thr
  /\ sess' = [sess EXCEPT ![s].pc = "unslot"]
  /\ UNCHANGED <<queue, pod, live, slots, call, feed, sent, delivered, admitted,
                 stops>>

\* Mutant: a release that never gives the tenant its slot back.
ReleaseSlotForgotten(s) ==
  /\ sess[s].pc = "unslot"
  /\ sess' = [sess EXCEPT ![s].pc = "shutdown"]
  /\ UNCHANGED <<thr, queue, pod, live, slots, call, feed, sent, delivered,
                 admitted, stops>>

ReleaseSlot(s) ==
  /\ sess[s].pc = "unslot"
  /\ slots' = [slots EXCEPT ![sess[s].pod] = Release(@, TenantOf[sess[s].thread])]
  /\ sess' = [sess EXCEPT ![s].pc = "shutdown"]
  /\ UNCHANGED <<thr, queue, pod, live, call, feed, sent, delivered, admitted,
                 stops>>

\* codex.Shutdown ends whatever turn still runs; the context is cancelled and
\* `released` closed.
ShutdownSession(s) ==
  /\ sess[s].pc = "shutdown"
  /\ sess' = [sess EXCEPT ![s] = ClosedSession]
  /\ UNCHANGED <<thr, queue, pod, live, slots, call, feed, sent, delivered,
                 admitted, stops>>

-----------------------------------------------------------------------------
(* feed(): hand the queued rows to the core, one by one.                    *)

\* Mutant: the loop returns without dropping its snapshot.
EndFeedKeepsSnapshot(f, any) ==
  /\ UNCHANGED feed
  /\ IF f \in Callers
     THEN Return(f) /\ UNCHANGED <<sess, live>>
     ELSE UNCHANGED <<call, sess, live>>

\* A pump that admitted nothing releases the thread; a caller just returns.
EndFeed(f, any) ==
  /\ feed' = [feed EXCEPT ![f] = IdleFeed]
  /\ IF f \in Callers
     THEN Return(f) /\ UNCHANGED <<sess, live>>
     ELSE /\ UNCHANGED call
          /\ IF any \/ sess[f].pc # "open"
             THEN UNCHANGED <<sess, live>>
             ELSE BeginRelease(f, "idle")

\* Mutant: the rows are taken newest first.
PendingInputsReversed(t) == [k \in DOMAIN queue[t] |->
                               queue[t][Len(queue[t]) + 1 - k]]

PendingInputs(t) == queue[t]

\* Mutant: the rows are taken out of the queue when they are read.
FeedReadDequeues(f) ==
  LET s == FedSession(f) IN
  /\ feed[f].pc = "read"
  /\ sess[s].pc # "closed"
  /\ feed' = [feed EXCEPT ![f].pc = "submit",
                          ![f].todo = PendingInputs(sess[s].thread)]
  /\ queue' = [queue EXCEPT ![sess[s].thread] = <<>>]
  /\ UNCHANGED <<thr, pod, live, slots, sess, call, sent, delivered, admitted,
                 stops>>

FeedRead(f) ==
  LET s == FedSession(f) IN
  /\ feed[f].pc = "read"
  /\ \/ /\ sess[s].pc = "closed" \/ StoreFaults
        /\ EndFeed(f, FALSE)
     \/ /\ sess[s].pc # "closed"
        /\ feed' = [feed EXCEPT ![f].pc = "submit",
                                ![f].todo = PendingInputs(sess[s].thread)]
        /\ UNCHANGED <<sess, live, call>>
  /\ UNCHANGED <<thr, queue, pod, slots, sent, delivered, admitted, stops>>

FeedDone(f) ==
  /\ feed[f].pc = "submit"
  /\ feed[f].todo = <<>>
  /\ EndFeed(f, feed[f].admitted)
  /\ UNCHANGED <<thr, queue, pod, slots, sent, delivered, admitted, stops>>

\* Mutant: the statement leaves out the row id and clears the thread's rows.
WithoutAny(t, r) == <<>>

\* The thread's rows that are still pending once row r is not.
Without(t, r) ==
  LET q == queue[t]
      at == {k \in DOMAIN q : q[k] = r}
      k0 == CHOOSE k \in at : TRUE
  IN IF at = {} THEN q
     ELSE SubSeq(q, 1, k0 - 1) \o SubSeq(q, k0 + 1, Len(q))

\* A queued interrupt goes to the core and its row is deleted; on a closed
\* session both calls fail and the row stays.
FeedInterrupt(f) ==
  LET s == FedSession(f)
      r == Head(feed[f].todo)
  IN
  /\ feed[f].pc = "submit"
  /\ feed[f].todo # <<>>
  /\ r \in Interrupts
  /\ IF sess[s].pc = "closed"
     THEN UNCHANGED <<sess, queue>>
     ELSE /\ sess' = [sess EXCEPT ![s].intr = TRUE]
          /\ queue' = [queue EXCEPT ![ThreadOf[r]] = Without(ThreadOf[r], r)]
  /\ feed' = [feed EXCEPT ![f].todo = Tail(@)]
  /\ UNCHANGED <<thr, pod, live, slots, call, sent, delivered, admitted, stops>>

\* What the core does with an accepted message: steer the running turn or
\* start one.  markAdmission sets lt.running either way.
CoreAccepts(x) ==
  [x EXCEPT !.turn = TRUE, !.running = TRUE,
            !.evq = IF x.turn THEN @ ELSE Append(@, "started")]

\* SubmitUserMessage: a closed or dead core ends the loop, a refused message
\* is skipped, an accepted one is next recorded by AdmitInput.
FeedSubmit(f) ==
  LET s == FedSession(f)
      r == Head(feed[f].todo)
  IN
  /\ feed[f].pc = "submit"
  /\ feed[f].todo # <<>>
  /\ r \in Inputs
  /\ \/ /\ sess[s].pc = "closed" \/ sess[s].dead
        /\ EndFeed(f, feed[f].admitted)
        /\ UNCHANGED <<thr, delivered>>
     \/ /\ sess[s].pc # "closed" /\ ~sess[s].dead
        /\ r \in Poison
        /\ feed' = [feed EXCEPT ![f].todo = Tail(@)]
        /\ UNCHANGED <<thr, sess, live, call, delivered>>
     \/ /\ sess[s].pc # "closed" /\ ~sess[s].dead
        /\ r \notin Poison
        /\ sess' = [sess EXCEPT ![s] = CoreAccepts(@)]
        /\ thr' = [thr EXCEPT ![ThreadOf[r]].new = FALSE]
        /\ delivered' = delivered \cup {r}
        /\ feed' = [feed EXCEPT ![f].pc = "admit"]
        /\ UNCHANGED <<live, call>>
  /\ UNCHANGED <<queue, pod, slots, sent, admitted, stops>>

\* AdmitInput runs under the session's context: once that is cancelled it
\* fails, the failure is logged and the row stays pending.
FeedAdmit(f) ==
  LET s == FedSession(f)
      r == Head(feed[f].todo)
  IN
  /\ feed[f].pc = "admit"
  /\ \/ /\ sess[s].pc # "closed"
        /\ queue' = [queue EXCEPT ![ThreadOf[r]] = Without(ThreadOf[r], r)]
        /\ admitted' = admitted \cup {r}
     \/ /\ sess[s].pc = "closed" \/ StoreFaults
        /\ UNCHANGED <<queue, admitted>>
  /\ feed' = [feed EXCEPT ![f] = [pc |-> "submit", todo |-> Tail(@.todo),
                                  admitted |-> TRUE]]
  /\ UNCHANGED <<thr, pod, live, slots, sess, call, sent, delivered, stops>>

-----------------------------------------------------------------------------
(* The core session (codexgo, external) and the pump that reads its events. *)

\* A turn that cannot write its end event blocks until the pump reads one.
CoreAlive(s) == sess[s].pc # "closed" /\ ~sess[s].dead

TurnCompletes(s) ==
  /\ CoreAlive(s)
  /\ sess[s].turn
  /\ Len(sess[s].evq) < MaxEvents
  /\ sess' = [sess EXCEPT ![s].turn = FALSE, ![s].evq = Append(@, "complete")]
  /\ UNCHANGED <<thr, queue, pod, live, slots, call, feed, sent, delivered,
                 admitted, stops>>

\* OpInterrupt is read from the submission queue some time later; it aborts
\* the turn that runs then, if any.
InterruptArrives(s) ==
  /\ CoreAlive(s)
  /\ sess[s].intr
  /\ Len(sess[s].evq) < MaxEvents
  /\ sess' = [sess EXCEPT ![s].intr = FALSE, ![s].turn = FALSE,
                          ![s].evq = IF sess[s].turn THEN Append(@, "aborted")
                                                     ELSE @]
  /\ UNCHANGED <<thr, queue, pod, live, slots, call, feed, sent, delivered,
                 admitted, stops>>

CoreDies(s) ==
  /\ CoreFaults
  /\ CoreAlive(s)
  /\ sess' = [sess EXCEPT ![s].dead = TRUE, ![s].turn = FALSE]
  /\ UNCHANGED <<thr, queue, pod, live, slots, call, feed, sent, delivered,
                 admitted, stops>>

\* NextEvent fails once the core is gone: release to idle.
PumpFails(s) ==
  /\ sess[s].pc = "open" /\ feed[s].pc = "off"
  /\ sess[s].dead /\ sess[s].evq = <<>>
  /\ BeginRelease(s, "idle")
  /\ UNCHANGED <<thr, queue, pod, slots, call, feed, sent, delivered, admitted,
                 stops>>

\* One event.  The end of a turn while draining releases the thread, as
\* interrupted if the turn was aborted; otherwise the queue is fed again.
PumpEvent(s) ==
  LET ev == Head(sess[s].evq)
      rest == [sess[s] EXCEPT !.evq = Tail(@), !.running = (ev = "started")]
  IN
  /\ sess[s].pc = "open" /\ feed[s].pc = "off"
  /\ sess[s].evq # <<>>
  /\ \/ /\ ev = "started"
        /\ sess' = [sess EXCEPT ![s] = rest]
        /\ UNCHANGED <<live, feed>>
     \/ /\ ev # "started" /\ Draining(sess[s].pod)
        /\ sess' = [sess EXCEPT ![s] =
                      Leaving(rest, IF ev = "aborted" THEN "interrupted"
                                                      ELSE "idle")]
        /\ live' = Unlinked(s)
        /\ UNCHANGED feed
     \/ /\ ev # "started" /\ ~Draining(sess[s].pod)
        /\ sess' = [sess EXCEPT ![s] = rest]
        /\ feed' = [feed EXCEPT ![s].pc = "read"]
        /\ UNCHANGED live
  /\ UNCHANGED <<thr, queue, pod, slots, call, sent, delivered, admitted, stops>>

-----------------------------------------------------------------------------
(* Heartbeats, ageing and orphan recovery.                                  *)

\* The goroutines that hold thread t: callers between ClaimTurn and startLive
\* (or the undoing ReleaseTurn) and sessions up to their ReleaseTurn.
CallHolds(c, t) == call[c].pc \in {"start", "unclaim"} /\ call[c].thread = t

SessionHolds(s, t) == sess[s].pc \in {"open", "leaving"} /\ sess[s].thread = t

Heartbeat(s) ==
  LET t == sess[s].thread IN
  /\ sess[s].pc # "closed"
  /\ thr[t].status = "running" /\ thr[t].pod = sess[s].pod
  /\ thr[t].hb = "stale"
  /\ thr' = [thr EXCEPT ![t].hb = "fresh"]
  /\ UNCHANGED <<queue, pod, live, slots, sess, call, feed, sent, delivered,
                 admitted, stops>>

\* Two heartbeat intervals pass without a refresh.
HeartbeatAges(t) ==
  /\ thr[t].hb = "fresh"
  /\ HeartbeatsTimely => /\ \A c \in Callers : ~CallHolds(c, t)
                         /\ \A s \in Sessions : ~SessionHolds(s, t)
  /\ thr' = [thr EXCEPT ![t].hb = "stale"]
  /\ UNCHANGED <<queue, pod, live, slots, sess, call, feed, sent, delivered,
                 admitted, stops>>

\* Maintain runs Recover until it succeeds once in the life of the process;
\* SIGTERM cancels its context.
Recover(p) ==
  /\ pod[p].st = "up"
  /\ ~pod[p].recovered
  /\ thr' = [t \in Threads |-> MarkStale(thr[t])]
  /\ pod' = [pod EXCEPT ![p].recovered = TRUE]
  /\ UNCHANGED <<queue, live, slots, sess, call, feed, sent, delivered, admitted,
                 stops>>

-----------------------------------------------------------------------------
(* Draining, crashing and starting again.                                   *)

\* Drain: stop claiming and remember the sessions that are live now.
DrainStart(p) ==
  /\ pod[p].st = "up"
  /\ stops < MaxStops
  /\ stops' = stops + 1
  /\ pod' = [pod EXCEPT ![p].st = "draining",
                        ![p].snap = {live[p][t] : t \in Threads} \ {None}]
  /\ UNCHANGED <<thr, queue, live, slots, sess, call, feed, sent, delivered,
                 admitted>>

\* The deadline passed: interruptForDrain takes the sessions one at a time.
\* A running turn is asked to abort first, an idle session is released.
DrainInterrupt(p, s) ==
  /\ Draining(p)
  /\ pod[p].cur = None
  /\ s \in pod[p].snap
  /\ sess[s].pc = "open"
  /\ pod' = [pod EXCEPT ![p].cur = s]
  /\ \/ /\ sess[s].running
        /\ sess' = [sess EXCEPT ![s].intr = TRUE]
        /\ UNCHANGED live
     \/ /\ ~sess[s].running
        /\ BeginRelease(s, "interrupted")
  /\ UNCHANGED <<thr, queue, slots, call, feed, sent, delivered, admitted, stops>>

\* Mutant: the grace period has no end.
DrainForceNever(p) == FALSE

\* The core did not react within drainAbortGrace: the runtime writes
\* turn_aborted itself and releases the thread.
DrainForce(p) ==
  /\ Draining(p)
  /\ pod[p].cur # None
  /\ sess[pod[p].cur].pc = "open"
  /\ BeginRelease(pod[p].cur, "interrupted")
  /\ UNCHANGED <<thr, queue, pod, slots, call, feed, sent, delivered, admitted,
                 stops>>

DrainNext(p) ==
  /\ Draining(p)
  /\ pod[p].cur # None
  /\ sess[pod[p].cur].pc = "closed"
  /\ pod' = [pod EXCEPT ![p].cur = None, ![p].snap = @ \ {pod[p].cur}]
  /\ UNCHANGED <<thr, queue, live, slots, sess, call, feed, sent, delivered,
                 admitted, stops>>

\* Everything a process keeps in memory goes with it.
ProcessEnds(p, how) ==
  LET gone(f) == IF f \in Sessions THEN sess[f].pod = p ELSE call[f].pod = p IN
  /\ pod' = [pod EXCEPT ![p] = [FreshPod EXCEPT !.st = how]]
  /\ live' = [live EXCEPT ![p] = [t \in Threads |-> None]]
  /\ slots' = [slots EXCEPT ![p] = [n \in Tenants |-> 0]]
  /\ sess' = [s \in Sessions |-> IF gone(s) THEN ClosedSession ELSE sess[s]]
  /\ call' = [c \in Callers |-> IF gone(c) THEN IdleCall ELSE call[c]]
  /\ feed' = [f \in Feeders |-> IF gone(f) THEN IdleFeed ELSE feed[f]]
  /\ UNCHANGED <<thr, queue, sent, delivered, admitted>>

\* Drain returned, http.Server.Shutdown waited for the handlers, main returns.
Exit(p) ==
  /\ Draining(p)
  /\ pod[p].cur = None
  /\ \A s \in pod[p].snap : sess[s].pc = "closed"
  /\ \A c \in Callers : call[c].pod # p
  /\ ProcessEnds(p, "exited")
  /\ UNCHANGED stops

Crash(p) ==
  /\ Up(p)
  /\ stops < MaxStops
  /\ stops' = stops + 1
  /\ ProcessEnds(p, "crashed")

Restart(p) ==
  /\ ~Up(p)
  /\ pod' = [pod EXCEPT ![p] = FreshPod]
  /\ UNCHANGED <<thr, queue, live, slots, sess, call, feed, sent, delivered,
                 admitted, stops>>

-----------------------------------------------------------------------------
CallerStep(c) ==
  Enqueue(c) \/ Claim(c) \/ StartLive(c) \/ Unclaim(c)

FeedStep(f) ==
  FeedRead(f) \/ FeedDone(f) \/ FeedInterrupt(f) \/ FeedSubmit(f) \/ FeedAdmit(f)

PumpStep(s) == PumpFails(s) \/ PumpEvent(s)

ReleaseStep(s) == ReleaseRow(s) \/ ReleaseSlot(s) \/ ShutdownSession(s)

DrainStep(p) ==
  (\E s \in Sessions : DrainInterrupt(p, s)) \/ DrainForce(p) \/ DrainNext(p)
  \/ Exit(p)

ClientStep ==
  \/ \E p \in Pods, c \in Callers, i \in Inputs : BeginSubmit(c, p, i)
  \/ \E p \in Pods, c \in Callers, t \in Threads : BeginResume(c, p, t)
  \/ \E p \in Pods, r \in Interrupts : Interrupt(p, r)
  \/ \E t \in Deletes : DeleteThread(t)

Sweep(p, t) == \E c \in Callers : BeginSweep(c, p, t)

Next ==
  \/ ClientStep
  \/ \E p \in Pods, t \in Threads : Sweep(p, t)
  \/ \E c \in Callers : CallerStep(c) \/ StartLiveFails(c)
  \/ \E f \in Feeders : FeedStep(f)
  \/ \E s \in Sessions : \/ PumpStep(s) \/ ReleaseStep(s)
                         \/ TurnCompletes(s) \/ InterruptArrives(s)
                         \/ CoreDies(s) \/ Heartbeat(s)
  \/ \E t \in Threads : HeartbeatAges(t)
  \/ \E p \in Pods : \/ Recover(p) \/ DrainStart(p) \/ DrainStep(p)
                     \/ Crash(p) \/ Restart(p)

Spec == Init /\ [][Next]_vars

\* The goroutines, the core's turns, the database clock and the restarting of
\* pods make progress; clients, crashes and SIGTERMs need not happen.  The
\* sweeper is a goroutine of its own, so a busy pool of callers must not
\* starve it: strong fairness.
Fairness ==
  /\ \A c \in Callers : WF_vars(CallerStep(c))
  /\ \A f \in Feeders : WF_vars(FeedStep(f))
  /\ \A s \in Sessions : /\ WF_vars(PumpStep(s))
                         /\ WF_vars(ReleaseStep(s))
                         /\ WF_vars(TurnCompletes(s))
                         /\ WF_vars(InterruptArrives(s))
                         /\ WF_vars(Heartbeat(s))
  /\ \A t \in Threads : WF_vars(HeartbeatAges(t))
  /\ \A p \in Pods : /\ WF_vars(Recover(p))
                     /\ WF_vars(DrainStep(p))
                     /\ WF_vars(Restart(p))
                     /\ \A t \in Threads : SF_vars(Sweep(p, t))

FairSpec == Spec /\ Fairness

\* The same without any promise that the core ever ends a turn by itself.
StubbornCoreSpec ==
  /\ Spec
  /\ \A c \in Callers : WF_vars(CallerStep(c))
  /\ \A f \in Feeders : WF_vars(FeedStep(f))
  /\ \A s \in Sessions : WF_vars(PumpStep(s)) /\ WF_vars(ReleaseStep(s))
  /\ \A p \in Pods : WF_vars(DrainStep(p))

-----------------------------------------------------------------------------
(* Properties.                                                              *)

Statuses == {"idle", "running", "interrupted", "deleted"}

RowType == [status : Statuses, pod : Pods \cup {None},
            hb : {"none", "fresh", "stale"}, new : BOOLEAN]

PodType == [st : PodStates, recovered : BOOLEAN, snap : SUBSET Sessions,
            cur : Sessions \cup {None}]

SessionType ==
  [pc : {"closed", "open", "leaving", "unslot", "shutdown"},
   thread : Threads \cup {None}, pod : Pods \cup {None},
   to : {"idle", "interrupted"}, turn : BOOLEAN, intr : BOOLEAN,
   dead : BOOLEAN, evq : Seq({"started", "complete", "aborted"}),
   running : BOOLEAN]

CallType ==
  [pc : {"idle", "enqueue", "claim", "start", "unclaim", "feed"},
   pod : Pods \cup {None}, thread : Threads \cup {None},
   input : Inputs \cup {None}, new : BOOLEAN, sess : Sessions \cup {None}]

FeedType == [pc : {"off", "read", "submit", "admit"}, todo : Seq(Rows),
             admitted : BOOLEAN]

\* Every variable has its type, and a goroutine that is doing something has
\* the pod, the thread and the session it does it with.
TypeOK ==
  /\ thr \in [Threads -> RowType]
  /\ queue \in [Threads -> Seq(Rows)]
  /\ pod \in [Pods -> PodType]
  /\ live \in [Pods -> [Threads -> Sessions \cup {None}]]
  /\ slots \in [Pods -> [Tenants -> Nat]]
  /\ sess \in [Sessions -> SessionType]
  /\ call \in [Callers -> CallType]
  /\ feed \in [Feeders -> FeedType]
  /\ sent \subseteq Rows
  /\ delivered \subseteq Inputs
  /\ admitted \subseteq Inputs
  /\ stops \in 0..MaxStops
  /\ \A s \in Sessions : sess[s].pc # "closed" =>
       sess[s].thread \in Threads /\ sess[s].pod \in Pods
  /\ \A c \in Callers : call[c].pc # "idle" =>
       call[c].thread \in Threads /\ call[c].pod \in Pods
  /\ \A c \in Callers : call[c].pc = "feed" => call[c].sess \in Sessions
  /\ \A c \in Callers : call[c].pc = "enqueue" => call[c].input \in Inputs
  /\ \A c \in Callers : feed[c].pc # "off" => call[c].pc = "feed"
  /\ \A f \in Feeders : feed[f].pc = "admit" =>
       feed[f].todo # <<>> /\ Head(feed[f].todo) \in Inputs

\* ClaimTurn makes a thread exclusive: at no time do two goroutines, on one
\* pod or on two, hold the same thread.
OneHolderPerThread ==
  \A t \in Threads :
    /\ \A c, d \in Callers : CallHolds(c, t) /\ CallHolds(d, t) => c = d
    /\ \A s, r \in Sessions : SessionHolds(s, t) /\ SessionHolds(r, t) => s = r
    /\ \A c \in Callers, s \in Sessions : ~(CallHolds(c, t) /\ SessionHolds(s, t))

\* Whoever holds a thread is the pod named by its running row, whose heartbeat
\* is fresh (unless the thread was deleted under it): nobody else's release,
\* resume or recovery scan has taken the claim away.
HolderOwnsRow ==
  \A t \in Threads :
    LET owns(p) == \/ thr[t].status = "deleted"
                   \/ /\ thr[t].status = "running" /\ thr[t].pod = p
                      /\ thr[t].hb = "fresh"
    IN /\ \A c \in Callers : CallHolds(c, t) => owns(call[c].pod)
       /\ \A s \in Sessions : SessionHolds(s, t) => owns(sess[s].pod)

\* The goroutines of pod p that occupy one of tenant n's slots.
SlotHolders(p, n) ==
  {c \in Callers : call[c].pc = "start" /\ call[c].pod = p
                   /\ TenantOf[call[c].thread] = n}
  \cup
  {s \in Sessions : sess[s].pc \in {"open", "leaving", "unslot"}
                    /\ sess[s].pod = p /\ TenantOf[sess[s].thread] = n}

\* The limiter's counter is exactly the number of goroutines that will give a
\* slot back: none leaks, none is returned twice, the limit bounds sessions.
SlotAccounting ==
  MaxTurns > 0 =>
    \A p \in Pods, n \in Tenants :
      /\ slots[p][n] = Cardinality(SlotHolders(p, n))
      /\ slots[p][n] <= MaxTurns

\* The session a pod would steer, interrupt or drain is the one that holds
\* the thread: an open session is always reachable through Engine.live.
OpenSessionIsLive ==
  \A s \in Sessions :
    sess[s].pc = "open" => live[sess[s].pod][sess[s].thread] = s

\* An input whose enqueue committed is still queued, or it reached the core
\* and its row says so, whatever fails or crashes, unless its thread was
\* deleted: "进程死在中间 = 至少一次重投，不丢" (turns.go, SubmitTurn).
NoInputLost ==
  \A i \in Inputs \cap sent :
    \/ thr[ThreadOf[i]].status = "deleted"
    \/ \E k \in DOMAIN queue[ThreadOf[i]] : queue[ThreadOf[i]][k] = i
    \/ i \in admitted /\ i \in delivered

\* The core first sees the inputs of a thread in the order they were queued:
\* when one is delivered for the first time, no acceptable earlier one waits.
FirstDeliveryInOrder ==
  [][\A i \in delivered' \ delivered :
       LET q == queue[ThreadOf[i]] IN
       \A k \in DOMAIN q : q[k] = i =>
         \A j \in 1..(k - 1) :
           q[j] \in delivered \cup Poison \cup Interrupts]_vars

\* Every queued input that the core accepts is eventually given to it.
PendingEventuallyDelivered ==
  \A i \in Inputs \ Poison :
    i \in sent ~> i \in delivered \/ thr[ThreadOf[i]].status = "deleted"

\* Drain comes to an end even if the core never stops by itself.
DrainTerminates == \A p \in Pods : Draining(p) ~> ~Draining(p)

\* "一个线程同一时刻只被一个 pod 持有" (scheduler.go) without assuming that a
\* slow holder keeps its heartbeat fresh.
ClaimIsExclusive == OneHolderPerThread

\* A session released because its turn ended has no turn left to cut short.
NoTurnCutShort ==
  [][\A s \in Sessions :
       ShutdownSession(s) /\ sess[s].to = "idle" => ~sess[s].turn]_vars

\* A session is started on an empty history only if the thread has none.
HistoryIsResumed ==
  [][\A c \in Callers : StartLive(c) /\ call[c].new
       => thr[call[c].thread].new]_vars

\* A pod that drained leaves no thread claimed in its name.
DrainLeavesNoClaim ==
  \A p \in Pods, t \in Threads :
    pod[p].st = "exited" => ~(thr[t].status = "running" /\ thr[t].pod = p)

\* A live session ends: it lasts from the claim to the last pending input.
SessionsAreReleased == \A s \in Sessions : sess[s].pc = "open" ~> sess[s].pc = "closed"
============================================================================
