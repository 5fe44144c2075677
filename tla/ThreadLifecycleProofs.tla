---------------------- MODULE ThreadLifecycleProofs ----------------------
(***************************************************************************)
(* Proofs about ThreadLifecycle that hold for every value of its           *)
(* constants: types; a thread has one holder; the tenant's slots are       *)
(* counted exactly; an open session is the one its pod would find; no      *)
(* input is lost; the core sees the inputs of a thread in the order they   *)
(* were queued.                                                            *)
(***************************************************************************)
EXTENDS ThreadLifecycle, FiniteSetTheorems, SequenceTheorems, TLAPS

\* The part of TypeOK that is about the goroutines entering the engine.
CallsTyped ==
  /\ call \in [Callers -> CallType]
  /\ feed \in [Feeders -> FeedType]
  /\ \A c \in Callers : call[c].pc # "idle" =>
       call[c].thread \in Threads /\ call[c].pod \in Pods
  /\ \A c \in Callers : call[c].pc = "feed" => call[c].sess \in Sessions
  /\ \A c \in Callers : call[c].pc = "enqueue" => call[c].input \in Inputs
  /\ \A c \in Callers : feed[c].pc # "off" => call[c].pc = "feed"
  /\ \A f \in Feeders : feed[f].pc = "admit" =>
       feed[f].todo # <<>> /\ Head(feed[f].todo) \in Inputs

\* The part about live sessions.
SessionsTyped ==
  /\ sess \in [Sessions -> SessionType]
  /\ \A s \in Sessions : sess[s].pc # "closed" =>
       sess[s].thread \in Threads /\ sess[s].pod \in Pods

\* The part about the database and the processes.
StoreTyped ==
  /\ thr \in [Threads -> RowType]
  /\ queue \in [Threads -> Seq(Rows)]
  /\ sent \subseteq Rows
  /\ delivered \subseteq Inputs
  /\ admitted \subseteq Inputs

PodsTyped ==
  /\ pod \in [Pods -> PodType]
  /\ live \in [Pods -> [Threads -> Sessions \cup {None}]]
  /\ slots \in [Pods -> [Tenants -> Nat]]
  /\ stops \in 0..MaxStops

\* TypeOK is the conjunction of its four parts.
LEMMA TypeParts ==
  /\ TypeOK <=> CallsTyped /\ SessionsTyped /\ StoreTyped /\ PodsTyped
  /\ TypeOK' <=> CallsTyped' /\ SessionsTyped' /\ StoreTyped' /\ PodsTyped'
BY DEF TypeOK, CallsTyped, SessionsTyped, StoreTyped, PodsTyped

\* Steps that leave all the variables of a part alone keep the part.
LEMMA PartsUnchanged ==
  /\ CallsTyped /\ UNCHANGED <<call, feed>> => CallsTyped'
  /\ SessionsTyped /\ UNCHANGED sess => SessionsTyped'
  /\ StoreTyped /\ UNCHANGED <<thr, queue, sent, delivered, admitted>> => StoreTyped'
  /\ PodsTyped /\ UNCHANGED <<pod, live, slots, stops>> => PodsTyped'
BY DEF CallsTyped, SessionsTyped, StoreTyped, PodsTyped

\* The SQL statements on a thread row return a row.
LEMMA RowOps ==
  \A r \in RowType :
    /\ \A p \in Pods : ClaimTurn(r, p) \in RowType
    /\ \A to \in {"idle", "interrupted"} : ReleaseTurn(r, to) \in RowType
    /\ MarkIdle(r) \in RowType
    /\ MarkStale(r) \in RowType
BY DEF RowType, Statuses, ClaimTurn, ReleaseTurn, MarkIdle, MarkStale

\* TryAcquire and Release return a counter for every tenant.
LEMMA LimiterOps ==
  ASSUME NEW cur \in [Tenants -> Nat], NEW n \in Tenants
  PROVE  /\ Acquire(cur, n) \in [Tenants -> Nat]
         /\ Release(cur, n) \in [Tenants -> Nat]
BY DEF Acquire, Release

\* The values a process starts from have their types.
LEMMA FreshValues ==
  /\ NewRow \in RowType
  /\ FreshPod \in PodType
  /\ IdleCall \in CallType
  /\ IdleFeed \in FeedType
  /\ ClosedSession \in SessionType
BY DEF NewRow, FreshPod, IdleCall, IdleFeed, ClosedSession, RowType, PodType,
   CallType, FeedType, SessionType, Statuses, PodStates

\* A session record replaced by one that keeps its place.
LEMMA SessionUpdate ==
  ASSUME SessionsTyped, NEW s \in Sessions, NEW v \in SessionType,
         v.pc # "closed" => v.thread \in Threads /\ v.pod \in Pods,
         sess' = [sess EXCEPT ![s] = v]
  PROVE  SessionsTyped'
BY DEF SessionsTyped

\* Setting a session's pending-interrupt flag keeps its type and its place.
LEMMA SessionFlag ==
  ASSUME SessionsTyped, NEW s \in Sessions, sess' = [sess EXCEPT ![s].intr = TRUE]
  PROVE  SessionsTyped'
<1> DEFINE v == [sess[s] EXCEPT !.intr = TRUE]
<1>1. v \in SessionType
  BY DEF SessionsTyped, SessionType
<1>2. v.pc # "closed" => v.thread \in Threads /\ v.pod \in Pods
  BY DEF SessionsTyped, SessionType
<1>3. sess' = [sess EXCEPT ![s] = v]
  OBVIOUS
<1>4. HIDE DEF v
<1>5. QED BY <1>1, <1>2, <1>3, SessionUpdate

\* A caller that returns from the engine leaves the callers well typed.
LEMMA ReturnTyped ==
  ASSUME CallsTyped, NEW c \in Callers, Return(c),
         feed' = [feed EXCEPT ![c] = IdleFeed] \/ (UNCHANGED feed /\ feed[c].pc = "off")
  PROVE  CallsTyped'
<1>1. call' \in [Callers -> CallType]
  BY FreshValues DEF CallsTyped, Return
<1>2. feed' \in [Feeders -> FeedType]
  BY FreshValues DEF CallsTyped
<1>3. /\ call'[c].pc = "idle"
      /\ \A d \in Callers \ {c} : call'[d] = call[d]
  BY DEF CallsTyped, Return, IdleCall
<1>4. /\ feed'[c].pc = "off"
      /\ \A f \in Feeders \ {c} : feed'[f] = feed[f]
  BY DEF CallsTyped, IdleFeed, Feeders
<1>5. QED
  BY <1>1, <1>2, <1>3, <1>4 DEF CallsTyped, Feeders

\* A caller that moves on to another point of dispatch() stays well typed.
LEMMA GotoTyped ==
  ASSUME CallsTyped, NEW c \in Callers, UNCHANGED feed, feed[c].pc = "off",
         Goto(c, "start") \/ Goto(c, "unclaim"), call[c].pc # "idle"
  PROVE  CallsTyped'
<1>1. PICK pc \in {"start", "unclaim"} : call' = [call EXCEPT ![c].pc = pc]
  BY DEF Goto
<1>2. [call[c] EXCEPT !.pc = pc] \in CallType
  BY DEF CallsTyped, CallType
<1>3. call' \in [Callers -> CallType]
  BY <1>1, <1>2 DEF CallsTyped
<1>4. QED
  BY <1>1, <1>3 DEF CallsTyped, CallType, Feeders

\* The first half of dispatch() leaves callers and feeders well typed.
LEMMA DispatchTyped ==
  ASSUME CallsTyped, PodsTyped, NEW c \in Callers, NEW p \in Pods, NEW t \in Threads,
         NEW new \in BOOLEAN, Dispatch(c, p, t, new), call[c].pc # "feed"
  PROVE  CallsTyped'
<1>1. feed[c].pc = "off"
  BY DEF CallsTyped, FeedType, Feeders
<1>2. CASE Return(c) /\ UNCHANGED feed
  BY <1>1, <1>2, ReturnTyped
<1>3. CASE /\ call' = [call EXCEPT ![c] = [pc |-> "claim", pod |-> p, thread |-> t, input |-> None,
                    new |-> new, sess |-> None]]
           /\ UNCHANGED feed
  BY <1>1, <1>3 DEF CallsTyped, CallType, FeedType, Feeders
<1>4. CASE /\ live[p][t] # None
           /\ call' = [call EXCEPT ![c] = [pc |-> "feed", pod |-> p, thread |-> t, input |-> None,
                    new |-> new, sess |-> live[p][t]]]
           /\ feed' = [feed EXCEPT ![c].pc = "read"]
  <2>1. live[p][t] \in Sessions
    BY <1>4 DEF PodsTyped
  <2>2. call' \in [Callers -> CallType]
    BY <1>4, <2>1 DEF CallsTyped, CallType
  <2>3. feed' \in [Feeders -> FeedType]
    BY <1>4, <2>1 DEF CallsTyped, FeedType, Feeders
  <2>4. QED BY <1>1, <1>4, <2>1, <2>2, <2>3 DEF CallsTyped, CallType, FeedType, Feeders
<1>5. QED
  BY <1>2, <1>3, <1>4 DEF Dispatch

\* The engine starts well typed.
LEMMA InitType == Init => TypeOK
BY ConstantsAssumption DEF Init, TypeOK, NewRow, FreshPod, IdleCall, IdleFeed, ClosedSession, RowType,
   PodType, SessionType, CallType, FeedType, Statuses, PodStates, Feeders

-----------------------------------------------------------------------------
(* Type correctness, one lemma per group of actions.                        *)

\* Submitting, resuming, interrupting and deleting keep the types.
LEMMA ClientType ==
  ASSUME TypeOK, ClientStep
  PROVE  TypeOK'
<1>a. CallsTyped /\ SessionsTyped /\ StoreTyped /\ PodsTyped
  BY TypeParts
<1>1. ASSUME NEW p \in Pods, NEW c \in Callers, NEW i \in Inputs, BeginSubmit(c, p, i)
      PROVE TypeOK'
  <2>1. CallsTyped'
    <3>1. ThreadOf[i] \in Threads /\ thr[ThreadOf[i]].new \in BOOLEAN
      BY <1>a, ConstantsAssumption DEF Rows, StoreTyped, RowType
    <3>2. [pc |-> "enqueue", pod |-> p, thread |-> ThreadOf[i],
           input |-> i, new |-> thr[ThreadOf[i]].new, sess |-> None] \in CallType
      BY <3>1 DEF CallType
    <3>3. call' \in [Callers -> CallType]
      BY <1>a, <1>1, <3>2 DEF BeginSubmit, CallsTyped
    <3>4. QED BY <1>a, <1>1, <3>1, <3>3 DEF BeginSubmit, CallsTyped
  <2>2. QED BY <1>a, <1>1, <2>1, TypeParts, PartsUnchanged DEF BeginSubmit
<1>2. ASSUME NEW p \in Pods, NEW c \in Callers, NEW t \in Threads, BeginResume(c, p, t)
      PROVE TypeOK'
  <2>1. CallsTyped'
    <3>1. thr[t].new \in BOOLEAN
      BY <1>a DEF StoreTyped, RowType
    <3>2. Dispatch(c, p, t, thr[t].new) /\ call[c].pc # "feed"
      BY <1>2 DEF BeginResume
    <3>3. QED BY <1>a, <3>1, <3>2, DispatchTyped
  <2>2. StoreTyped'
    <3>1. MarkIdle(thr[t]) \in RowType
      BY <1>a, ConstantsAssumption, RowOps DEF StoreTyped
    <3>2. thr' = [thr EXCEPT ![t] = MarkIdle(thr[t])]
      BY <1>2 DEF BeginResume
    <3>3. UNCHANGED <<queue, sent, delivered, admitted>>
      BY <1>2 DEF BeginResume
    <3>4. QED BY <1>a, ConstantsAssumption, <3>1, <3>2, <3>3 DEF StoreTyped
  <2>3. QED BY <1>a, <1>2, <2>1, <2>2, TypeParts, PartsUnchanged DEF BeginResume
<1>3. ASSUME NEW p \in Pods, NEW r \in Interrupts, Interrupt(p, r)
      PROVE TypeOK'
  <2>0. r \in Rows /\ ThreadOf[r] \in Threads
    BY ConstantsAssumption DEF Rows
  <2>1. StoreTyped'
    <3>1. queue' \in [Threads -> Seq(Rows)]
      <4>1. Append(queue[ThreadOf[r]], r) \in Seq(Rows)
        BY <1>a, <2>0 DEF StoreTyped
      <4>2. QED BY <1>a, <1>3, <2>0, <4>1 DEF Interrupt, StoreTyped
    <3>2. sent' \subseteq Rows
      BY <1>a, <1>3, <2>0 DEF Interrupt, StoreTyped
    <3>3. QED BY <1>a, <1>3, <3>1, <3>2 DEF Interrupt, StoreTyped
  <2>2. SessionsTyped'
    <3>1. CASE UNCHANGED sess
      BY <1>a, <3>1, PartsUnchanged
    <3>2. CASE live[p][ThreadOf[r]] # None /\ sess' = [sess EXCEPT ![live[p][ThreadOf[r]]].intr = TRUE]
      <4>1. live[p][ThreadOf[r]] \in Sessions
        BY <1>a, <2>0, <3>2 DEF PodsTyped
      <4>2. QED BY <1>a, <3>2, <4>1, SessionFlag
    <3>3. QED BY <1>3, <3>1, <3>2 DEF Interrupt
  <2>3. QED BY <1>a, <1>3, <2>1, <2>2, TypeParts, PartsUnchanged DEF Interrupt
<1>4. ASSUME NEW t \in Deletes, DeleteThread(t)
      PROVE TypeOK'
  <2>0. t \in Threads
    BY ConstantsAssumption
  <2>1. StoreTyped'
    <3>1. thr' \in [Threads -> RowType]
      BY <1>a, <1>4, <2>0 DEF DeleteThread, StoreTyped, RowType, Statuses
    <3>2. queue' \in [Threads -> Seq(Rows)]
      BY <1>a, <1>4, <2>0 DEF DeleteThread, StoreTyped
    <3>3. QED BY <1>a, <1>4, <3>1, <3>2 DEF DeleteThread, StoreTyped
  <2>2. QED BY <1>a, <1>4, <2>1, TypeParts, PartsUnchanged DEF DeleteThread
<1>5. QED
  BY <1>1, <1>2, <1>3, <1>4 DEF ClientStep

\* The second half of dispatch() (claim, start, undo) keeps the types.
LEMMA CallerType ==
  ASSUME TypeOK, NEW c \in Callers, CallerStep(c) \/ StartLiveFails(c)
  PROVE  TypeOK'
<1>a. CallsTyped /\ SessionsTyped /\ StoreTyped /\ PodsTyped
  BY TypeParts
<1>0. feed[c].pc # "off" => call[c].pc = "feed"
  BY <1>a DEF CallsTyped
<1>1. CASE Enqueue(c)
  <2>1. /\ call[c].thread \in Threads /\ call[c].pod \in Pods /\ call[c].input \in Inputs
        /\ call[c].new \in BOOLEAN
    BY <1>a, ConstantsAssumption, <1>1 DEF Enqueue, CallsTyped, CallType
  <2>2. CallsTyped'
    BY <1>a, ConstantsAssumption, <1>0, <1>1, <2>1, DispatchTyped, ReturnTyped DEF Enqueue
  <2>3. StoreTyped'
    <3>1. queue' \in [Threads -> Seq(Rows)]
      <4>1. Append(queue[call[c].thread], call[c].input) \in Seq(Rows)
        BY <1>a, <2>1 DEF StoreTyped, Rows
      <4>2. QED BY <1>a, <1>1, <2>1, <4>1 DEF Enqueue, StoreTyped
    <3>2. sent' \subseteq Rows
      BY <1>a, <1>1, <2>1 DEF Enqueue, StoreTyped, Rows
    <3>3. QED BY <1>a, <1>1, <3>1, <3>2 DEF Enqueue, StoreTyped
  <2>4. QED BY <1>a, <1>1, <2>2, <2>3, TypeParts, PartsUnchanged DEF Enqueue
<1>2. CASE Claim(c)
  <2>1. /\ call[c].thread \in Threads /\ call[c].pod \in Pods
        /\ TenantOf[call[c].thread] \in Tenants
    BY <1>a, ConstantsAssumption, <1>2 DEF Claim, CallsTyped
  <2>2. CallsTyped'
    <3>1. CASE Return(c) BY <1>a, ConstantsAssumption, <1>0, <1>2, <3>1, ReturnTyped DEF Claim
    <3>2. CASE Goto(c, "start") \/ Goto(c, "unclaim")
      BY <1>a, <1>0, <1>2, <3>2, GotoTyped DEF Claim
    <3>3. QED BY <1>a, ConstantsAssumption, <1>2, <3>1, <3>2 DEF Claim
  <2>3. StoreTyped'
    <3>1. thr[call[c].thread] \in RowType
      BY <1>a, <2>1 DEF StoreTyped
    <3>2. ClaimTurn(thr[call[c].thread], call[c].pod) \in RowType
      BY <2>1, <3>1, RowOps
    <3>3. thr' \in [Threads -> RowType]
      BY <1>a, <1>2, <2>1, <3>2 DEF Claim, StoreTyped
    <3>4. QED BY <1>a, <1>2, <3>3 DEF Claim, StoreTyped
  <2>4. PodsTyped'
    BY <1>a, ConstantsAssumption, <1>2, <2>1, LimiterOps DEF Claim, PodsTyped
  <2>5. QED BY <1>a, <1>2, <2>2, <2>3, <2>4, TypeParts, PartsUnchanged DEF Claim
<1>3. CASE StartLive(c)
  <2>1. /\ call[c].thread \in Threads /\ call[c].pod \in Pods
    BY <1>a, ConstantsAssumption, <1>3 DEF StartLive, CallsTyped
  <2>2. PICK s \in Sessions :
          /\ sess' = [sess EXCEPT ![s] =
                        [ClosedSession EXCEPT !.pc = "open", !.thread = call[c].thread,
                                              !.pod = call[c].pod]]
          /\ live' = [live EXCEPT ![call[c].pod][call[c].thread] = s]
          /\ call' = [call EXCEPT ![c].pc = "feed", ![c].sess = s]
    BY <1>a, ConstantsAssumption, <1>3 DEF StartLive
  <2>3. CallsTyped'
    <3>1. call' \in [Callers -> CallType]
      <4>1. [call[c] EXCEPT !.pc = "feed", !.sess = s] \in CallType
        BY <1>a DEF CallsTyped, CallType
      <4>2. QED BY <1>a, <2>2, <4>1 DEF CallsTyped
    <3>2. feed' \in [Feeders -> FeedType]
      <4>1. [feed[c] EXCEPT !.pc = "read"] \in FeedType
        BY <1>a DEF CallsTyped, Feeders, FeedType
      <4>2. QED BY <1>a, <1>3, <4>1 DEF StartLive, CallsTyped
    <3>3. QED
      BY <1>a, <1>0, <1>3, <2>1, <2>2, <3>1, <3>2 DEF StartLive, CallsTyped, CallType, Feeders, FeedType
  <2>4. SessionsTyped'
    <3>1. [ClosedSession EXCEPT !.pc = "open", !.thread = call[c].thread, !.pod = call[c].pod] \in SessionType
      BY <2>1, FreshValues DEF SessionType
    <3>2. sess' \in [Sessions -> SessionType]
      BY <1>a, <2>2, <3>1 DEF SessionsTyped
    <3>3. QED BY <1>a, <2>1, <2>2, <3>2 DEF SessionsTyped, ClosedSession
  <2>5. PodsTyped'
    BY <1>a, ConstantsAssumption, <1>3, <2>1, <2>2 DEF StartLive, PodsTyped
  <2>6. QED BY <1>a, <1>3, <2>3, <2>4, <2>5, TypeParts, PartsUnchanged DEF StartLive
<1>4. CASE Unclaim(c)
  <2>1. CallsTyped'
    BY <1>a, ConstantsAssumption, <1>0, <1>4, ReturnTyped DEF Unclaim
  <2>2. StoreTyped'
    <3>1. call[c].thread \in Threads
      BY <1>a, ConstantsAssumption, <1>4 DEF Unclaim, CallsTyped
    <3>2. ReleaseTurn(thr[call[c].thread], "idle") \in RowType
      BY <1>a, <3>1, RowOps DEF StoreTyped
    <3>3. thr' \in [Threads -> RowType]
      BY <1>a, <1>4, <3>1, <3>2 DEF Unclaim, StoreTyped
    <3>4. QED BY <1>a, <1>4, <3>3 DEF Unclaim, StoreTyped
  <2>3. QED BY <1>a, <1>4, <2>1, <2>2, TypeParts, PartsUnchanged DEF Unclaim
<1>5. CASE StartLiveFails(c)
  <2>1. /\ call[c].thread \in Threads /\ call[c].pod \in Pods
        /\ TenantOf[call[c].thread] \in Tenants
    BY <1>a, <1>5, ConstantsAssumption DEF StartLiveFails, CallsTyped
  <2>2. CallsTyped'
    BY <1>a, <1>0, <1>5, GotoTyped DEF StartLiveFails
  <2>3. PodsTyped'
    BY <1>a, ConstantsAssumption, <1>5, <2>1, LimiterOps DEF StartLiveFails, PodsTyped
  <2>4. QED BY <1>a, <1>5, <2>2, <2>3, TypeParts, PartsUnchanged DEF StartLiveFails
<1>6. QED
  BY <1>1, <1>2, <1>3, <1>4, <1>5 DEF CallerStep

\* The queue sweeper keeps the types.
LEMMA SweepType ==
  ASSUME TypeOK, NEW p \in Pods, NEW t \in Threads, Sweep(p, t)
  PROVE  TypeOK'
<1>1. PICK c \in Callers : BeginSweep(c, p, t)
  BY DEF Sweep
<1>2. CallsTyped'
  <2>1. thr[t].new \in BOOLEAN
    BY TypeParts DEF StoreTyped, RowType
  <2>2. Dispatch(c, p, t, thr[t].new) /\ call[c].pc # "feed"
    BY <1>1 DEF BeginSweep
  <2>3. QED BY <2>1, <2>2, DispatchTyped, TypeParts
<1>3. QED
  BY <1>1, <1>2, TypeParts, PartsUnchanged DEF BeginSweep

LiveType == [Pods -> [Threads -> Sessions \cup {None}]]

\* Taking a session out of Engine.live leaves the map well typed.
LEMMA UnlinkedTyped ==
  ASSUME PodsTyped, SessionsTyped, NEW s \in Sessions, sess[s].pc # "closed"
  PROVE  Unlinked(s) \in LiveType
<1>1. sess[s].pod \in Pods /\ sess[s].thread \in Threads
  BY DEF SessionsTyped
<1>2. QED
  BY <1>1 DEF Unlinked, PodsTyped, LiveType

\* Entering release() keeps sessions and Engine.live well typed.
LEMMA BeginReleaseTyped ==
  ASSUME PodsTyped, SessionsTyped, NEW s \in Sessions, sess[s].pc # "closed",
         NEW to \in {"idle", "interrupted"}, BeginRelease(s, to)
  PROVE  SessionsTyped' /\ live' \in LiveType
<1> DEFINE v == Leaving(sess[s], to)
<1>1. v \in SessionType
  BY DEF SessionsTyped, SessionType, Leaving
<1>2. v.thread \in Threads /\ v.pod \in Pods
  BY DEF SessionsTyped, SessionType, Leaving
<1>3. sess' = [sess EXCEPT ![s] = v]
  BY DEF BeginRelease
<1>4. HIDE DEF v
<1>5. SessionsTyped'
  BY <1>1, <1>2, <1>3, SessionUpdate
<1>6. QED BY <1>5, UnlinkedTyped DEF BeginRelease

\* Leaving feed() keeps sessions, Engine.live, callers and feeders well typed.
LEMMA EndFeedTyped ==
  ASSUME CallsTyped, SessionsTyped, PodsTyped, NEW f \in Feeders, NEW any, EndFeed(f, any)
  PROVE  CallsTyped' /\ SessionsTyped' /\ live' \in LiveType
<1>1. CASE f \in Callers
  <2>1. Return(f) /\ UNCHANGED <<sess, live>> /\ feed' = [feed EXCEPT ![f] = IdleFeed]
    BY <1>1 DEF EndFeed
  <2>2. CallsTyped'
    BY <1>1, <2>1, ReturnTyped
  <2>3. QED BY <2>1, <2>2, PartsUnchanged DEF PodsTyped, LiveType
<1>2. CASE f \in Sessions \ Callers
  <2>1. CallsTyped'
    <3>1. feed' = [feed EXCEPT ![f] = IdleFeed] /\ UNCHANGED call
      BY <1>2 DEF EndFeed
    <3>2. feed' \in [Feeders -> FeedType]
      BY <3>1, FreshValues DEF CallsTyped
    <3>3. feed'[f].pc = "off" /\ \A g \in Feeders \ {f} : feed'[g] = feed[g]
      BY <3>1 DEF CallsTyped, IdleFeed
    <3>4. \A c \in Callers : c \in Feeders \ {f}
      BY <1>2 DEF Feeders
    <3>5. QED BY <3>1, <3>2, <3>3, <3>4 DEF CallsTyped
  <2>2. SessionsTyped' /\ live' \in LiveType
    <3>1. CASE UNCHANGED <<sess, live>>
      BY <3>1, PartsUnchanged DEF PodsTyped, LiveType
    <3>2. CASE sess[f].pc = "open" /\ BeginRelease(f, "idle")
      BY <1>2, <3>2, BeginReleaseTyped
    <3>3. QED BY <1>2, <3>1, <3>2 DEF EndFeed
  <2>3. QED BY <2>1, <2>2
<1>3. QED BY <1>1, <1>2 DEF Feeders

\* A feeder at work has a session.
LEMMA FedSessionTyped ==
  ASSUME CallsTyped, NEW f \in Feeders, feed[f].pc # "off"
  PROVE  FedSession(f) \in Sessions
BY DEF CallsTyped, FedSession, Feeders

\* Taking one row out of a thread's queue leaves a queue of rows.
LEMMA WithoutTyped ==
  ASSUME StoreTyped, NEW t \in Threads, NEW r
  PROVE  Without(t, r) \in Seq(Rows)
<1> DEFINE q == queue[t]
           at == {k \in DOMAIN q : q[k] = r}
           k0 == CHOOSE k \in at : TRUE
<1>1. q \in Seq(Rows)
  BY DEF StoreTyped
<1>2. CASE at = {}
  BY <1>1, <1>2 DEF Without
<1>3. CASE at # {}
  <2>1. k0 \in 1..Len(q)
    BY <1>1, <1>3
  <2>2. SubSeq(q, 1, k0 - 1) \in Seq(Rows) /\ SubSeq(q, k0 + 1, Len(q)) \in Seq(Rows)
    <3> HIDE DEF k0, at, q
    <3>1. QED BY <1>1, <2>1
  <2>3. QED BY <1>3, <2>2 DEF Without
<1>4. QED BY <1>2, <1>3

\* The steps of release() keep the types.
LEMMA ReleaseType ==
  ASSUME TypeOK, NEW s \in Sessions, ReleaseStep(s)
  PROVE  TypeOK'
<1>a. CallsTyped /\ SessionsTyped /\ StoreTyped /\ PodsTyped
  BY TypeParts
<1>b. sess[s].pc # "closed" /\ sess[s].thread \in Threads /\ sess[s].pod \in Pods
  BY <1>a DEF ReleaseStep, ReleaseRow, ReleaseSlot, ShutdownSession, SessionsTyped
<1>c. ASSUME NEW pc \in {"unslot", "shutdown"}, sess' = [sess EXCEPT ![s].pc = pc]
      PROVE  SessionsTyped'
  <2> DEFINE v == [sess[s] EXCEPT !.pc = pc]
  <2>1. v \in SessionType /\ v.thread \in Threads /\ v.pod \in Pods
    BY <1>a, <1>b DEF SessionsTyped, SessionType
  <2>2. sess' = [sess EXCEPT ![s] = v]
    BY <1>c
  <2>3. HIDE DEF v
  <2>4. QED BY <1>a, <2>1, <2>2, SessionUpdate
<1>1. CASE ReleaseRow(s)
  <2>1. StoreTyped'
    <3>1. sess[s].to \in {"idle", "interrupted"}
      BY <1>a DEF SessionsTyped, SessionType
    <3>2. ReleaseTurn(thr[sess[s].thread], sess[s].to) \in RowType
      BY <1>a, <1>b, <3>1, RowOps DEF StoreTyped
    <3>3. thr' \in [Threads -> RowType]
      BY <1>a, <1>b, <1>1, <3>2 DEF ReleaseRow, StoreTyped
    <3>4. QED BY <1>a, <1>1, <3>3 DEF ReleaseRow, StoreTyped
  <2>2. SessionsTyped'
    BY <1>1, <1>c DEF ReleaseRow
  <2>3. QED BY <1>a, <1>1, <2>1, <2>2, TypeParts, PartsUnchanged DEF ReleaseRow
<1>2. CASE ReleaseSlot(s)
  <2>1. PodsTyped'
    <3>1. Release(slots[sess[s].pod], TenantOf[sess[s].thread]) \in [Tenants -> Nat]
      BY <1>a, <1>b, LimiterOps, ConstantsAssumption DEF PodsTyped
    <3>2. slots' \in [Pods -> [Tenants -> Nat]]
      BY <1>a, <1>b, <1>2, <3>1 DEF ReleaseSlot, PodsTyped
    <3>3. QED BY <1>a, <1>2, <3>2 DEF ReleaseSlot, PodsTyped
  <2>2. SessionsTyped'
    BY <1>2, <1>c DEF ReleaseSlot
  <2>3. QED BY <1>a, <1>2, <2>1, <2>2, TypeParts, PartsUnchanged DEF ReleaseSlot
<1>3. CASE ShutdownSession(s)
  <2>1. SessionsTyped'
    BY <1>a, <1>3, FreshValues, SessionUpdate DEF ShutdownSession, ClosedSession
  <2>2. QED BY <1>a, <1>3, <2>1, TypeParts, PartsUnchanged DEF ShutdownSession
<1>4. QED BY <1>1, <1>2, <1>3 DEF ReleaseStep

\* A feeder moves on within feed().
LEMMA FeedUpdate ==
  ASSUME CallsTyped, NEW f \in Feeders, feed[f].pc # "off", NEW v \in FeedType,
         v.pc = "admit" => v.todo # <<>> /\ Head(v.todo) \in Inputs,
         feed' = [feed EXCEPT ![f] = v], UNCHANGED call
  PROVE  CallsTyped'
<1>1. feed' \in [Feeders -> FeedType]
  BY DEF CallsTyped
<1>2. feed'[f] = v /\ \A g \in Feeders \ {f} : feed'[g] = feed[g]
  BY DEF CallsTyped
<1>3. \A c \in Callers : feed'[c].pc # "off" => feed[c].pc # "off"
  BY <1>2 DEF Feeders
<1>4. QED BY <1>1, <1>2, <1>3 DEF CallsTyped

\* The steps of feed() keep the types.
LEMMA FeederType ==
  ASSUME TypeOK, NEW f \in Feeders, FeedStep(f)
  PROVE  TypeOK'
<1> DEFINE s == FedSession(f)
           r == Head(feed[f].todo)
<1>a. CallsTyped /\ SessionsTyped /\ StoreTyped /\ PodsTyped
  BY TypeParts
<1>b. feed[f].pc # "off" /\ feed[f] \in FeedType /\ feed[f].todo \in Seq(Rows)
  BY <1>a DEF FeedStep, FeedRead, FeedDone, FeedInterrupt, FeedSubmit, FeedAdmit, CallsTyped, FeedType
<1>c. s \in Sessions
  BY <1>a, <1>b, FedSessionTyped
<1>d. sess[s].pc # "closed" => sess[s].thread \in Threads
  BY <1>a, <1>c DEF SessionsTyped
<1>e. ASSUME feed[f].todo # <<>>
      PROVE  r \in Rows /\ Tail(feed[f].todo) \in Seq(Rows) /\ ThreadOf[r] \in Threads
  BY <1>b, <1>e, ConstantsAssumption
<1> HIDE DEF s, r
<1>1. CASE FeedRead(f)
  <2>1. CASE EndFeed(f, FALSE)
    BY <1>a, <1>1, <2>1, EndFeedTyped, TypeParts, PartsUnchanged DEF FeedRead, PodsTyped, LiveType
  <2>2. CASE /\ sess[s].pc # "closed" /\ UNCHANGED <<sess, live, call>>
             /\ feed' = [feed EXCEPT ![f].pc = "submit",
                                     ![f].todo = PendingInputs(sess[s].thread)]
    <3>1. PendingInputs(sess[s].thread) \in Seq(Rows)
      BY <1>a, <1>d, <2>2 DEF StoreTyped, PendingInputs
    <3> DEFINE v == [feed[f] EXCEPT !.pc = "submit", !.todo = PendingInputs(sess[s].thread)]
    <3>2. v \in FeedType /\ v.pc # "admit"
      BY <1>b, <3>1 DEF FeedType
    <3>3. feed' = [feed EXCEPT ![f] = v]
      BY <2>2
    <3>4. HIDE DEF v
    <3>5. CallsTyped'
      BY <1>a, <1>b, <2>2, <3>2, <3>3, FeedUpdate
    <3>6. QED BY <1>a, <1>1, <2>2, <3>5, TypeParts, PartsUnchanged DEF FeedRead
  <2>3. QED BY <1>1, <2>1, <2>2 DEF FeedRead, s
<1>2. CASE FeedDone(f)
  BY <1>a, <1>2, EndFeedTyped, TypeParts, PartsUnchanged DEF FeedDone, PodsTyped, LiveType
<1>3. CASE FeedInterrupt(f)
  <2>0. feed[f].todo # <<>>
    BY <1>3 DEF FeedInterrupt
  <2>1. CallsTyped'
    <3> DEFINE v == [feed[f] EXCEPT !.todo = Tail(feed[f].todo)]
    <3>1. v \in FeedType /\ v.pc # "admit"
      BY <1>b, <1>e, <1>3, <2>0 DEF FeedType, FeedInterrupt
    <3>2. feed' = [feed EXCEPT ![f] = v] /\ UNCHANGED call
      BY <1>3 DEF FeedInterrupt
    <3>3. HIDE DEF v
    <3>4. QED BY <1>a, <1>b, <3>1, <3>2, FeedUpdate
  <2>2. SessionsTyped'
    BY <1>a, <1>c, <1>3, SessionFlag, PartsUnchanged DEF FeedInterrupt, s
  <2>3. StoreTyped'
    <3>1. Without(ThreadOf[r], r) \in Seq(Rows)
      BY <1>a, <1>e, <2>0, WithoutTyped
    <3>2. queue' \in [Threads -> Seq(Rows)]
      BY <1>a, <1>e, <1>3, <2>0, <3>1 DEF FeedInterrupt, StoreTyped, r
    <3>3. QED BY <1>a, <1>3, <3>2 DEF FeedInterrupt, StoreTyped
  <2>4. QED BY <1>a, <1>3, <2>1, <2>2, <2>3, TypeParts, PartsUnchanged DEF FeedInterrupt
<1>4. CASE FeedSubmit(f)
  <2>0. feed[f].todo # <<>> /\ r \in Inputs /\ feed[f].pc = "submit"
    BY <1>4 DEF FeedSubmit, r
  <2>1. CASE EndFeed(f, feed[f].admitted) /\ UNCHANGED <<thr, delivered>>
    <3>1. CallsTyped' /\ SessionsTyped' /\ live' \in LiveType
      BY <1>a, <2>1, EndFeedTyped
    <3>2. UNCHANGED <<queue, pod, slots, sent, admitted, stops>>
      BY <1>4 DEF FeedSubmit
    <3>3. QED BY <1>a, <2>1, <3>1, <3>2, TypeParts, PartsUnchanged DEF PodsTyped, LiveType
  <2>2. CASE /\ feed' = [feed EXCEPT ![f].todo = Tail(@)]
             /\ UNCHANGED <<thr, sess, live, call, delivered>>
    <3> DEFINE v == [feed[f] EXCEPT !.todo = Tail(feed[f].todo)]
    <3>1. v \in FeedType /\ v.pc # "admit"
      BY <1>b, <1>e, <2>0 DEF FeedType
    <3>2. feed' = [feed EXCEPT ![f] = v]
      BY <2>2
    <3>3. HIDE DEF v
    <3>4. CallsTyped'
      BY <1>a, <1>b, <2>2, <3>1, <3>2, FeedUpdate
    <3>5. QED BY <1>a, <1>4, <2>2, <3>4, TypeParts, PartsUnchanged DEF FeedSubmit
  <2>3. CASE /\ sess[s].pc # "closed"
             /\ sess' = [sess EXCEPT ![s] = CoreAccepts(@)]
             /\ thr' = [thr EXCEPT ![ThreadOf[r]].new = FALSE]
             /\ delivered' = delivered \cup {r}
             /\ feed' = [feed EXCEPT ![f].pc = "admit"]
             /\ UNCHANGED <<live, call>>
    <3>1. CallsTyped'
      <4> DEFINE v == [feed[f] EXCEPT !.pc = "admit"]
      <4>1. v \in FeedType /\ v.todo # <<>> /\ Head(v.todo) \in Inputs
        BY <1>b, <2>0 DEF FeedType, r
      <4>2. feed' = [feed EXCEPT ![f] = v]
        BY <2>3
      <4>3. HIDE DEF v
      <4>4. QED BY <1>a, <1>b, <2>3, <4>1, <4>2, FeedUpdate
    <3>2. SessionsTyped'
      <4>1. sess[s] \in SessionType
        BY <1>a, <1>c DEF SessionsTyped
      <4>2. CoreAccepts(sess[s]) \in SessionType
        <5>1. sess[s].evq \in Seq({"started", "complete", "aborted"})
          BY <4>1 DEF SessionType
        <5>2. (IF sess[s].turn THEN sess[s].evq ELSE Append(sess[s].evq, "started"))
                \in Seq({"started", "complete", "aborted"})
          BY <5>1
        <5>3. QED BY <4>1, <5>2 DEF CoreAccepts, SessionType
      <4>3. CoreAccepts(sess[s]).thread \in Threads /\ CoreAccepts(sess[s]).pod \in Pods
        BY <1>a, <1>c, <2>3, <4>1 DEF CoreAccepts, SessionsTyped, SessionType
      <4>4. sess' = [sess EXCEPT ![s] = CoreAccepts(sess[s])]
        BY <2>3
      <4>5. QED BY <1>a, <1>c, <4>2, <4>3, <4>4, SessionUpdate
    <3>3. StoreTyped'
      <4>0. thr[ThreadOf[r]] \in RowType
        BY <1>a, <1>e, <2>0 DEF StoreTyped
      <4>1. [thr[ThreadOf[r]] EXCEPT !.new = FALSE] \in RowType
        BY <4>0 DEF RowType
      <4>2. thr' \in [Threads -> RowType]
        BY <1>a, <1>e, <2>0, <2>3, <4>1 DEF StoreTyped
      <4>3. QED BY <1>a, <1>4, <2>0, <2>3, <4>2 DEF FeedSubmit, StoreTyped
    <3>4. QED BY <1>a, <1>4, <2>3, <3>1, <3>2, <3>3, TypeParts, PartsUnchanged DEF FeedSubmit
  <2>4. QED BY <1>4, <2>1, <2>2, <2>3 DEF FeedSubmit, s, r
<1>5. CASE FeedAdmit(f)
  <2>0. feed[f].todo # <<>> /\ r \in Inputs
    BY <1>a, <1>5 DEF FeedAdmit, CallsTyped, r
  <2>1. CallsTyped'
    <3> DEFINE v == [pc |-> "submit", todo |-> Tail(feed[f].todo), admitted |-> TRUE]
    <3>1. v \in FeedType /\ v.pc # "admit"
      BY <1>e, <2>0 DEF FeedType
    <3>2. feed' = [feed EXCEPT ![f] = v] /\ UNCHANGED call
      BY <1>5 DEF FeedAdmit
    <3>3. HIDE DEF v
    <3>4. QED BY <1>a, <1>b, <3>1, <3>2, FeedUpdate
  <2>2. StoreTyped'
    <3>1. Without(ThreadOf[r], r) \in Seq(Rows)
      BY <1>a, <1>e, <2>0, WithoutTyped
    <3>2. queue' \in [Threads -> Seq(Rows)]
      BY <1>a, <1>e, <1>5, <2>0, <3>1 DEF FeedAdmit, StoreTyped, r
    <3>3. admitted' \subseteq Inputs
      BY <1>a, <1>5, <2>0 DEF FeedAdmit, StoreTyped, r
    <3>4. QED BY <1>a, <1>5, <3>2, <3>3 DEF FeedAdmit, StoreTyped
  <2>3. QED BY <1>a, <1>5, <2>1, <2>2, TypeParts, PartsUnchanged DEF FeedAdmit
<1>6. QED BY <1>1, <1>2, <1>3, <1>4, <1>5 DEF FeedStep

Events == {"started", "complete", "aborted"}

\* What the core does to the session it runs in.
LEMMA CoreType ==
  ASSUME TypeOK, NEW s \in Sessions,
         TurnCompletes(s) \/ InterruptArrives(s) \/ CoreDies(s)
  PROVE  TypeOK'
<1>a. CallsTyped /\ SessionsTyped /\ StoreTyped /\ PodsTyped
  BY TypeParts
<1>b. sess[s] \in SessionType /\ sess[s].evq \in Seq(Events)
  BY <1>a DEF SessionsTyped, SessionType, Events
<1>c. sess[s].pc # "closed" /\ sess[s].thread \in Threads /\ sess[s].pod \in Pods
  BY <1>a DEF TurnCompletes, InterruptArrives, CoreDies, CoreAlive, SessionsTyped
<1>d. UNCHANGED <<thr, queue, pod, live, slots, call, feed, sent, delivered, admitted, stops>>
  BY DEF TurnCompletes, InterruptArrives, CoreDies
<1>1. CASE TurnCompletes(s)
  <2> DEFINE v == [sess[s] EXCEPT !.turn = FALSE, !.evq = Append(sess[s].evq, "complete")]
  <2>1. Append(sess[s].evq, "complete") \in Seq(Events)
    BY <1>b DEF Events
  <2>2. v \in SessionType
    BY <1>b, <2>1 DEF SessionType, Events
  <2>3. v.thread \in Threads /\ v.pod \in Pods
    BY <1>b, <1>c DEF SessionType
  <2>4. sess' = [sess EXCEPT ![s] = v]
    BY <1>1 DEF TurnCompletes
  <2>5. HIDE DEF v
  <2>6. SessionsTyped'
    BY <1>a, <2>2, <2>3, <2>4, SessionUpdate
  <2>7. QED BY <1>a, <1>d, <2>6, TypeParts, PartsUnchanged
<1>2. CASE InterruptArrives(s)
  <2> DEFINE q == IF sess[s].turn THEN Append(sess[s].evq, "aborted") ELSE sess[s].evq
             v == [sess[s] EXCEPT !.intr = FALSE, !.turn = FALSE, !.evq = q]
  <2>1. q \in Seq(Events)
    BY <1>b DEF Events
  <2>2. sess' = [sess EXCEPT ![s] = v]
    BY <1>2 DEF InterruptArrives
  <2>3. HIDE DEF q
  <2>4. v \in SessionType
    BY <1>b, <2>1 DEF SessionType, Events
  <2>5. v.thread \in Threads /\ v.pod \in Pods
    BY <1>b, <1>c DEF SessionType
  <2>6. HIDE DEF v
  <2>7. SessionsTyped'
    BY <1>a, <2>2, <2>4, <2>5, SessionUpdate
  <2>8. QED BY <1>a, <1>d, <2>7, TypeParts, PartsUnchanged
<1>3. CASE CoreDies(s)
  <2> DEFINE v == [sess[s] EXCEPT !.dead = TRUE, !.turn = FALSE]
  <2>1. v \in SessionType
    BY <1>b DEF SessionType
  <2>2. v.thread \in Threads /\ v.pod \in Pods
    BY <1>b, <1>c DEF SessionType
  <2>3. sess' = [sess EXCEPT ![s] = v]
    BY <1>3 DEF CoreDies
  <2>4. HIDE DEF v
  <2>5. SessionsTyped'
    BY <1>a, <2>1, <2>2, <2>3, SessionUpdate
  <2>6. QED BY <1>a, <1>d, <2>5, TypeParts, PartsUnchanged
<1>4. QED BY <1>1, <1>2, <1>3

\* The pump's handling of an event, or of a dead core, keeps the types.
LEMMA PumpType ==
  ASSUME TypeOK, NEW s \in Sessions, PumpStep(s)
  PROVE  TypeOK'
<1>a. CallsTyped /\ SessionsTyped /\ StoreTyped /\ PodsTyped
  BY TypeParts
<1>b. sess[s] \in SessionType /\ sess[s].evq \in Seq(Events)
  BY <1>a DEF SessionsTyped, SessionType, Events
<1>c. sess[s].pc = "open" /\ sess[s].thread \in Threads /\ sess[s].pod \in Pods
  BY <1>a DEF PumpStep, PumpFails, PumpEvent, SessionsTyped
<1>1. CASE PumpFails(s)
  <2>1. SessionsTyped' /\ live' \in LiveType
    BY <1>a, <1>c, <1>1, BeginReleaseTyped DEF PumpFails
  <2>2. QED
    BY <1>a, <1>1, <2>1, TypeParts, PartsUnchanged DEF PumpFails, PodsTyped, LiveType
<1>2. CASE PumpEvent(s)
  <2> DEFINE ev == Head(sess[s].evq)
             rest == [sess[s] EXCEPT !.evq = Tail(sess[s].evq), !.running = (ev = "started")]
             to == IF ev = "aborted" THEN "interrupted" ELSE "idle"
  <2>1. Tail(sess[s].evq) \in Seq(Events)
    BY <1>b, <1>2 DEF PumpEvent
  <2>2. (ev = "started") \in BOOLEAN
    OBVIOUS
  <2>3. rest \in SessionType
    BY <1>b, <2>1, <2>2 DEF SessionType, Events
  <2>4. rest.thread \in Threads /\ rest.pod \in Pods
    BY <1>b, <1>c DEF SessionType
  <2>5. Leaving(rest, to) \in SessionType
    BY <2>3 DEF Leaving, SessionType
  <2>6. Leaving(rest, to).thread \in Threads /\ Leaving(rest, to).pod \in Pods
    BY <2>3, <2>4 DEF Leaving, SessionType
  <2>7. \/ /\ sess' = [sess EXCEPT ![s] = rest]
           /\ UNCHANGED live
           /\ UNCHANGED feed \/ feed' = [feed EXCEPT ![s].pc = "read"]
        \/ /\ sess' = [sess EXCEPT ![s] = Leaving(rest, to)]
           /\ live' = Unlinked(s)
           /\ UNCHANGED feed
    BY <1>2 DEF PumpEvent
  <2>8. UNCHANGED <<thr, queue, pod, slots, call, sent, delivered, admitted, stops>>
    BY <1>2 DEF PumpEvent
  <2> HIDE DEF rest, to
  <2>9. SessionsTyped'
    BY <1>a, <2>3, <2>4, <2>5, <2>6, <2>7, SessionUpdate
  <2>10. live' \in LiveType
    BY <1>a, <1>c, <2>7, UnlinkedTyped DEF PodsTyped, LiveType
  <2>11. CallsTyped'
    <3>1. CASE UNCHANGED feed
      BY <1>a, <2>8, <3>1, PartsUnchanged
    <3>2. CASE feed' = [feed EXCEPT ![s].pc = "read"]
      <4>1. s \in Feeders /\ [feed[s] EXCEPT !.pc = "read"] \in FeedType
        BY <1>a DEF CallsTyped, FeedType, Feeders
      <4>2. feed' \in [Feeders -> FeedType]
        BY <1>a, <3>2, <4>1 DEF CallsTyped
      <4>3. feed'[s].pc = "read" /\ \A g \in Feeders \ {s} : feed'[g] = feed[g]
        BY <1>a, <3>2, <4>1 DEF CallsTyped, FeedType
      <4>4. \A c \in Callers : c \in Feeders \ {s}
        BY ConstantsAssumption DEF Feeders
      <4>5. QED BY <1>a, <2>8, <4>2, <4>3, <4>4 DEF CallsTyped
    <3>3. QED BY <2>7, <3>1, <3>2
  <2>12. QED
    BY <1>a, <2>8, <2>9, <2>10, <2>11, TypeParts, PartsUnchanged DEF PodsTyped, LiveType
<1>3. QED BY <1>1, <1>2 DEF PumpStep

\* Heartbeats, their ageing and the recovery scan keep the types.
LEMMA StaleType ==
  ASSUME TypeOK,
         \/ \E s \in Sessions : Heartbeat(s)
         \/ \E t \in Threads : HeartbeatAges(t)
         \/ \E p \in Pods : Recover(p)
  PROVE  TypeOK'
<1>a. CallsTyped /\ SessionsTyped /\ StoreTyped /\ PodsTyped
  BY TypeParts
<1>b. ASSUME NEW t \in Threads, NEW hb \in {"fresh", "stale"},
             thr' = [thr EXCEPT ![t].hb = hb],
             UNCHANGED <<queue, sent, delivered, admitted>>
      PROVE  StoreTyped'
  <2>1. thr[t] \in RowType
    BY <1>a DEF StoreTyped
  <2>2. [thr[t] EXCEPT !.hb = hb] \in RowType
    BY <2>1 DEF RowType
  <2>3. thr' \in [Threads -> RowType]
    BY <1>a, <1>b, <2>2 DEF StoreTyped
  <2>4. QED BY <1>a, <1>b, <2>3 DEF StoreTyped
<1>1. ASSUME NEW s \in Sessions, Heartbeat(s)
      PROVE  TypeOK'
  <2>1. sess[s].thread \in Threads
    BY <1>a, <1>1 DEF Heartbeat, SessionsTyped
  <2>2. QED BY <1>a, <1>b, <1>1, <2>1, TypeParts, PartsUnchanged DEF Heartbeat
<1>2. ASSUME NEW t \in Threads, HeartbeatAges(t)
      PROVE  TypeOK'
  BY <1>a, <1>b, <1>2, TypeParts, PartsUnchanged DEF HeartbeatAges
<1>3. ASSUME NEW p \in Pods, Recover(p)
      PROVE  TypeOK'
  <2>1. StoreTyped'
    <3>1. \A t \in Threads : MarkStale(thr[t]) \in RowType
      BY <1>a, RowOps DEF StoreTyped
    <3>2. thr' \in [Threads -> RowType]
      BY <1>3, <3>1 DEF Recover
    <3>3. QED BY <1>a, <1>3, <3>2 DEF Recover, StoreTyped
  <2>2. PodsTyped'
    <3>1. [pod[p] EXCEPT !.recovered = TRUE] \in PodType
      BY <1>a DEF PodsTyped, PodType
    <3>2. pod' \in [Pods -> PodType]
      BY <1>a, <1>3, <3>1 DEF Recover, PodsTyped
    <3>3. QED BY <1>a, <1>3, <3>2 DEF Recover, PodsTyped
  <2>3. QED BY <1>a, <1>3, <2>1, <2>2, TypeParts, PartsUnchanged DEF Recover
<1>4. QED BY <1>1, <1>2, <1>3

\* A process that ends leaves everything well typed.
LEMMA ProcessEndsTyped ==
  ASSUME TypeOK, NEW p \in Pods, NEW how \in PodStates, ProcessEnds(p, how),
         stops' \in 0..MaxStops
  PROVE  TypeOK'
<1>a. CallsTyped /\ SessionsTyped /\ StoreTyped /\ PodsTyped
  BY TypeParts
<1>1. StoreTyped'
  BY <1>a, PartsUnchanged DEF ProcessEnds
<1>2. PodsTyped'
  <2>1. [FreshPod EXCEPT !.st = how] \in PodType
    BY FreshValues DEF PodType
  <2>2. pod' \in [Pods -> PodType]
    BY <1>a, <2>1 DEF ProcessEnds, PodsTyped
  <2>3. live' \in [Pods -> [Threads -> Sessions \cup {None}]]
    BY <1>a DEF ProcessEnds, PodsTyped
  <2>4. slots' \in [Pods -> [Tenants -> Nat]]
    BY <1>a DEF ProcessEnds, PodsTyped
  <2>5. QED BY <2>2, <2>3, <2>4 DEF PodsTyped
<1>3. SessionsTyped'
  <2>1. \A s \in Sessions : sess'[s] = ClosedSession \/ sess'[s] = sess[s]
    BY DEF ProcessEnds
  <2>2. sess' \in [Sessions -> SessionType]
    BY <1>a, <2>1, FreshValues DEF ProcessEnds, SessionsTyped
  <2>3. ClosedSession.pc = "closed"
    BY DEF ClosedSession
  <2>4. QED BY <1>a, <2>1, <2>2, <2>3 DEF SessionsTyped
<1>4. CallsTyped'
  <2>1. call' = [c \in Callers |-> IF call[c].pod = p THEN IdleCall ELSE call[c]]
    BY ConstantsAssumption DEF ProcessEnds
  <2>2. \A c \in Callers : feed'[c] = IF call[c].pod = p THEN IdleFeed ELSE feed[c]
    BY ConstantsAssumption DEF ProcessEnds, Feeders
  <2>3. \A f \in Feeders : feed'[f] = IdleFeed \/ feed'[f] = feed[f]
    BY DEF ProcessEnds
  <2>4. feed' \in [Feeders -> FeedType]
    BY <1>a, <2>3, FreshValues DEF ProcessEnds, CallsTyped
  <2>5. call' \in [Callers -> CallType]
    BY <1>a, <2>1, FreshValues DEF CallsTyped
  <2>6. IdleFeed.pc = "off" /\ IdleCall.pc = "idle"
    BY DEF IdleFeed, IdleCall
  <2>7. \A c \in Callers : /\ call'[c].pc # "idle" => call'[c].thread \in Threads /\ call'[c].pod \in Pods
                           /\ call'[c].pc = "feed" => call'[c].sess \in Sessions
                           /\ call'[c].pc = "enqueue" => call'[c].input \in Inputs
    BY <1>a, <2>1, <2>6 DEF CallsTyped
  <2>8. \A c \in Callers : feed'[c].pc # "off" => call'[c].pc = "feed"
    BY <1>a, <2>1, <2>2, <2>6 DEF CallsTyped
  <2>9. \A f \in Feeders : feed'[f].pc = "admit" => feed'[f].todo # <<>> /\ Head(feed'[f].todo) \in Inputs
    BY <1>a, <2>3, <2>6 DEF CallsTyped
  <2>10. QED BY <2>4, <2>5, <2>7, <2>8, <2>9 DEF CallsTyped
<1>5. QED BY <1>1, <1>2, <1>3, <1>4, TypeParts

\* A pod record replaced by another pod record keeps the part of the pods.
LEMMA PodUpdate ==
  ASSUME PodsTyped, NEW p \in Pods, NEW v \in PodType, pod' = [pod EXCEPT ![p] = v],
         live' \in LiveType, UNCHANGED slots, stops' \in 0..MaxStops
  PROVE  PodsTyped'
<1>1. pod' \in [Pods -> PodType]
  BY DEF PodsTyped
<1>2. QED BY <1>1 DEF PodsTyped, LiveType

\* Draining, exiting, crashing and restarting keep the types.
LEMMA ProcessType ==
  ASSUME TypeOK, NEW p \in Pods, DrainStart(p) \/ DrainStep(p) \/ Crash(p) \/ Restart(p)
  PROVE  TypeOK'
<1>a. CallsTyped /\ SessionsTyped /\ StoreTyped /\ PodsTyped
  BY TypeParts
<1>b. pod[p] \in PodType /\ live \in LiveType /\ stops \in 0..MaxStops
  BY <1>a DEF PodsTyped, LiveType
<1>c. stops < MaxStops => stops + 1 \in 0..MaxStops
  BY <1>b, ConstantsAssumption
<1>1. CASE DrainStart(p)
  <2> DEFINE snap == {live[p][t] : t \in Threads} \ {None}
             v == [pod[p] EXCEPT !.st = "draining", !.snap = snap]
  <2>1. snap \subseteq Sessions
    BY <1>b DEF LiveType
  <2>2. pod' = [pod EXCEPT ![p] = v]
    BY <1>1 DEF DrainStart
  <2>3. HIDE DEF snap
  <2>4. v \in PodType
    BY <1>b, <2>1 DEF PodType, PodStates
  <2>5. HIDE DEF v
  <2>6. PodsTyped'
    BY <1>a, <1>b, <1>c, <1>1, <2>2, <2>4, PodUpdate DEF DrainStart
  <2>7. QED BY <1>a, <1>1, <2>6, TypeParts, PartsUnchanged DEF DrainStart
<1>2. ASSUME NEW s \in Sessions, DrainInterrupt(p, s)
      PROVE  TypeOK'
  <2>1. SessionsTyped' /\ live' \in LiveType
    <3>1. CASE sess' = [sess EXCEPT ![s].intr = TRUE] /\ UNCHANGED live
      BY <1>a, <1>b, <3>1, SessionFlag
    <3>2. CASE BeginRelease(s, "interrupted")
      <4>1. sess[s].pc # "closed"
        BY <1>2 DEF DrainInterrupt
      <4>2. QED BY <1>a, <3>2, <4>1, BeginReleaseTyped
    <3>3. QED BY <1>2, <3>1, <3>2 DEF DrainInterrupt
  <2>2. [pod[p] EXCEPT !.cur = s] \in PodType
    BY <1>b DEF PodType
  <2>3. PodsTyped'
    BY <1>a, <1>b, <1>2, <2>1, <2>2, PodUpdate DEF DrainInterrupt
  <2>4. QED BY <1>a, <1>2, <2>1, <2>3, TypeParts, PartsUnchanged DEF DrainInterrupt
<1>3. CASE DrainForce(p)
  <2>1. pod[p].cur \in Sessions /\ sess[pod[p].cur].pc # "closed"
    BY <1>b, <1>3 DEF DrainForce, PodType
  <2>2. SessionsTyped' /\ live' \in LiveType
    BY <1>a, <1>3, <2>1, BeginReleaseTyped DEF DrainForce
  <2>3. QED
    BY <1>a, <1>3, <2>2, TypeParts, PartsUnchanged DEF DrainForce, PodsTyped, LiveType
<1>4. CASE DrainNext(p)
  <2>1. [pod[p] EXCEPT !.cur = None, !.snap = pod[p].snap \ {pod[p].cur}] \in PodType
    BY <1>b DEF PodType
  <2>2. PodsTyped'
    BY <1>a, <1>b, <1>4, <2>1, PodUpdate DEF DrainNext
  <2>3. QED BY <1>a, <1>4, <2>2, TypeParts, PartsUnchanged DEF DrainNext
<1>5. CASE Exit(p)
  BY <1>b, <1>5, ProcessEndsTyped DEF Exit, PodStates
<1>6. CASE Crash(p)
  BY <1>c, <1>6, ProcessEndsTyped DEF Crash, PodStates
<1>7. CASE Restart(p)
  <2>1. PodsTyped'
    BY <1>a, <1>b, <1>7, FreshValues, PodUpdate DEF Restart
  <2>2. QED BY <1>a, <1>7, <2>1, TypeParts, PartsUnchanged DEF Restart
<1>8. QED BY <1>1, <1>2, <1>3, <1>4, <1>5, <1>6, <1>7 DEF DrainStep

\* Every step of the engine keeps the types.
LEMMA NextType == TypeOK /\ [Next]_vars => TypeOK'
<1> SUFFICES ASSUME TypeOK, [Next]_vars PROVE TypeOK'
  OBVIOUS
<1>1. CASE UNCHANGED vars
  BY <1>1 DEF vars, TypeOK
<1>2. CASE Next
  BY <1>2, ClientType, SweepType, CallerType, FeederType, PumpType, ReleaseType, CoreType,
     StaleType, ProcessType DEF Next
<1>3. QED BY <1>1, <1>2

\* In every behaviour of the pods, the clients and the core, every variable
\* has its type and a goroutine at work has its pod, thread and session.
THEOREM TypeCorrect == Spec => []TypeOK
<1>1. Init => TypeOK
  BY InitType
<1>2. TypeOK /\ [Next]_vars => TypeOK'
  BY NextType
<1>3. QED BY <1>1, <1>2, PTL DEF Spec

-----------------------------------------------------------------------------
(* Exclusive claims.  Neither half of the invariant is inductive alone: two  *)
(* holders are excluded because a held row is running, hence not claimable,  *)
(* and a held row stays running because only its one holder releases it.     *)

\* A step gives no thread a new holder ...
NoNewCallHolder ==
  \A c \in Callers, t \in Threads :
    CallHolds(c, t)' => CallHolds(c, t) /\ call'[c].pod = call[c].pod

NoNewSessionHolder ==
  \A s \in Sessions, t \in Threads :
    SessionHolds(s, t)' => SessionHolds(s, t) /\ sess'[s].pod = sess[s].pod

\* ... and leaves the claim in a row that is held after the step as it was.
HeldRowsKept ==
  \A t \in Threads :
    (\E c \in Callers : CallHolds(c, t)') \/ (\E s \in Sessions : SessionHolds(s, t)')
      => \/ thr'[t].status = "deleted"
         \/ /\ thr'[t].status = thr[t].status
            /\ thr'[t].pod = thr[t].pod
            /\ thr'[t].hb = thr[t].hb

ClaimInv == OneHolderPerThread /\ HolderOwnsRow

\* A step that keeps the held rows and makes no new holder keeps ClaimInv.
LEMMA QuietStep ==
  ASSUME ClaimInv, NoNewCallHolder, NoNewSessionHolder, HeldRowsKept
  PROVE  ClaimInv'
<1>1. OneHolderPerThread'
  BY DEF ClaimInv, OneHolderPerThread, NoNewCallHolder, NoNewSessionHolder
<1>2. ASSUME NEW t \in Threads, NEW c \in Callers, CallHolds(c, t)'
      PROVE  \/ thr'[t].status = "deleted"
             \/ /\ thr'[t].status = "running" /\ thr'[t].pod = call'[c].pod
                /\ thr'[t].hb = "fresh"
  BY <1>2 DEF ClaimInv, HolderOwnsRow, NoNewCallHolder, HeldRowsKept
<1>3. ASSUME NEW t \in Threads, NEW s \in Sessions, SessionHolds(s, t)'
      PROVE  \/ thr'[t].status = "deleted"
             \/ /\ thr'[t].status = "running" /\ thr'[t].pod = sess'[s].pod
                /\ thr'[t].hb = "fresh"
  BY <1>3 DEF ClaimInv, HolderOwnsRow, NoNewSessionHolder, HeldRowsKept
<1>4. HolderOwnsRow'
  BY <1>2, <1>3 DEF HolderOwnsRow
<1>5. QED BY <1>1, <1>4 DEF ClaimInv

\* A step that changes neither rows, callers nor sessions makes no new holder.
LEMMA QuietParts ==
  /\ UNCHANGED call => NoNewCallHolder
  /\ UNCHANGED sess => NoNewSessionHolder
  /\ UNCHANGED thr => HeldRowsKept
BY DEF NoNewCallHolder, NoNewSessionHolder, HeldRowsKept, CallHolds, SessionHolds

\* A caller that stops, or moves to a point where it holds nothing, is no new holder.
LEMMA QuietCall ==
  ASSUME CallsTyped, NEW c \in Callers, NEW v, call' = [call EXCEPT ![c] = v],
         v.pc \notin {"start", "unclaim"}
  PROVE  NoNewCallHolder
BY DEF CallsTyped, NoNewCallHolder, CallHolds

\* The first half of dispatch() makes no caller a holder.
LEMMA QuietDispatch ==
  ASSUME CallsTyped, NEW c \in Callers, NEW p, NEW t, NEW new, Dispatch(c, p, t, new)
  PROVE  NoNewCallHolder
<1>1. CASE Return(c)
  BY <1>1, QuietCall DEF Return, IdleCall
<1>2. ASSUME NEW pc \in {"feed", "claim"}, NEW s,
             call' = [call EXCEPT ![c] = [pc |-> pc, pod |-> p, thread |-> t,
                                          input |-> None, new |-> new, sess |-> s]]
      PROVE  NoNewCallHolder
  BY <1>2, QuietCall
<1>3. QED BY <1>1, <1>2 DEF Dispatch

\* A session that keeps its thread and pod, or stops holding, is no new holder.
LEMMA QuietSession ==
  ASSUME SessionsTyped, NEW s \in Sessions, NEW v, sess' = [sess EXCEPT ![s] = v],
         \/ v.pc \notin {"open", "leaving"}
         \/ /\ sess[s].pc \in {"open", "leaving"}
            /\ v.thread = sess[s].thread /\ v.pod = sess[s].pod
  PROVE  NoNewSessionHolder
BY DEF SessionsTyped, NoNewSessionHolder, SessionHolds

\* Setting a session's pending-interrupt flag makes no new holder.
LEMMA QuietFlag ==
  ASSUME SessionsTyped, NEW s \in Sessions, sess' = [sess EXCEPT ![s].intr = TRUE]
  PROVE  NoNewSessionHolder
BY DEF SessionsTyped, SessionType, NoNewSessionHolder, SessionHolds

\* Submitting, resuming, interrupting and deleting keep the claims exclusive.
LEMMA ClientClaims ==
  ASSUME TypeOK, ClaimInv, ClientStep
  PROVE  ClaimInv'
<1>a. CallsTyped /\ SessionsTyped /\ StoreTyped /\ PodsTyped
  BY TypeParts
<1>1. ASSUME NEW p \in Pods, NEW c \in Callers, NEW i \in Inputs, BeginSubmit(c, p, i)
      PROVE  ClaimInv'
  <2>1. NoNewCallHolder
    BY <1>a, <1>1, QuietCall DEF BeginSubmit
  <2>2. QED BY <1>1, <2>1, QuietParts, QuietStep DEF BeginSubmit
<1>2. ASSUME NEW p \in Pods, NEW c \in Callers, NEW t \in Threads, BeginResume(c, p, t)
      PROVE  ClaimInv'
  <2>1. NoNewCallHolder
    BY <1>a, <1>2, QuietDispatch DEF BeginResume
  <2>2. NoNewSessionHolder
    BY <1>2, QuietParts DEF BeginResume
  <2>3. ASSUME NEW u \in Threads,
               (\E d \in Callers : CallHolds(d, u)') \/ (\E s \in Sessions : SessionHolds(s, u)')
        PROVE  thr'[u] = thr[u]
    <3>1. thr[u].status # "interrupted"
      BY <2>1, <2>2, <2>3 DEF ClaimInv, HolderOwnsRow, NoNewCallHolder, NoNewSessionHolder
    <3>2. QED BY <1>a, <1>2, <3>1 DEF BeginResume, MarkIdle, StoreTyped
  <2>4. HeldRowsKept
    BY <2>3 DEF HeldRowsKept
  <2>5. QED BY <2>1, <2>2, <2>4, QuietStep
<1>3. ASSUME NEW p \in Pods, NEW r \in Interrupts, Interrupt(p, r)
      PROVE  ClaimInv'
  <2>1. NoNewSessionHolder
    <3>1. CASE UNCHANGED sess
      BY <3>1, QuietParts
    <3>2. CASE live[p][ThreadOf[r]] # None /\ sess' = [sess EXCEPT ![live[p][ThreadOf[r]]].intr = TRUE]
      <4>1. ThreadOf[r] \in Threads
        BY ConstantsAssumption DEF Rows
      <4>2. live[p][ThreadOf[r]] \in Sessions
        BY <1>a, <3>2, <4>1 DEF PodsTyped
      <4>3. QED BY <1>a, <3>2, <4>2, QuietFlag
    <3>3. QED BY <1>3, <3>1, <3>2 DEF Interrupt
  <2>2. QED BY <1>3, <2>1, QuietParts, QuietStep DEF Interrupt
<1>4. ASSUME NEW t \in Deletes, DeleteThread(t)
      PROVE  ClaimInv'
  <2>1. t \in Threads
    BY ConstantsAssumption
  <2>2. \A u \in Threads : thr'[u] = thr[u] \/ thr'[u].status = "deleted"
    BY <1>a, <1>4, <2>1 DEF DeleteThread, StoreTyped, RowType
  <2>3. HeldRowsKept
    BY <2>2 DEF HeldRowsKept
  <2>4. QED BY <1>4, <2>3, QuietParts, QuietStep DEF DeleteThread
<1>5. QED BY <1>1, <1>2, <1>3, <1>4 DEF ClientStep

\* Claiming, starting a session and undoing a claim keep the claims exclusive.
LEMMA CallerClaims ==
  ASSUME TypeOK, ClaimInv, NEW c \in Callers, CallerStep(c) \/ StartLiveFails(c)
  PROVE  ClaimInv'
<1>a. CallsTyped /\ SessionsTyped /\ StoreTyped /\ PodsTyped
  BY TypeParts
<1>1. CASE Enqueue(c)
  <2>1. NoNewCallHolder
    BY <1>a, <1>1, QuietDispatch, QuietCall DEF Enqueue, Return, IdleCall
  <2>2. QED BY <1>1, <2>1, QuietParts, QuietStep DEF Enqueue
<1>2. CASE Claim(c)
  <2> DEFINE t == call[c].thread
             p == call[c].pod
  <2>1. t \in Threads /\ p \in Pods /\ call[c] \in CallType /\ call[c].pc = "claim"
    BY <1>a, <1>2 DEF Claim, CallsTyped
  <2>2. CASE Return(c) /\ UNCHANGED thr
    <3>1. NoNewCallHolder
      BY <1>a, <2>2, QuietCall DEF Return, IdleCall
    <3>2. QED BY <1>2, <2>2, <3>1, QuietParts, QuietStep DEF Claim
  <2>3. CASE /\ Claimable(thr[t])
             /\ thr' = [thr EXCEPT ![t] = ClaimTurn(@, p)]
             /\ Goto(c, "start") \/ Goto(c, "unclaim")
    <3>1. /\ \A d \in Callers : ~CallHolds(d, t)
          /\ \A s \in Sessions : ~SessionHolds(s, t)
      BY <2>1, <2>3 DEF Claimable, ClaimInv, HolderOwnsRow
    <3>2. UNCHANGED sess
      BY <1>2 DEF Claim
    <3>3. \A d \in Callers \ {c} : call'[d] = call[d]
      BY <1>a, <2>3 DEF Goto, CallsTyped
    <3>4. /\ call'[c].thread = t /\ call'[c].pod = p
      BY <1>a, <2>1, <2>3 DEF Goto, CallsTyped, CallType
    <3>5. \A d \in Callers, u \in Threads :
            CallHolds(d, u)' => (CallHolds(d, u) /\ call'[d] = call[d] /\ u # t) \/ (d = c /\ u = t)
      BY <3>1, <3>3, <3>4 DEF CallHolds
    <3>6. \A s \in Sessions, u \in Threads :
            SessionHolds(s, u)' => SessionHolds(s, u) /\ u # t
      BY <3>1, <3>2 DEF SessionHolds
    <3>7. OneHolderPerThread'
      BY <3>5, <3>6 DEF ClaimInv, OneHolderPerThread
    <3>8. thr'[t].status = "running" /\ thr'[t].pod = p /\ thr'[t].hb = "fresh"
      BY <1>a, <2>1, <2>3 DEF StoreTyped, RowType, ClaimTurn
    <3>9. \A u \in Threads \ {t} : thr'[u] = thr[u]
      BY <1>a, <2>1, <2>3 DEF StoreTyped
    <3>10. ASSUME NEW u \in Threads, NEW d \in Callers, CallHolds(d, u)'
           PROVE  \/ thr'[u].status = "deleted"
                  \/ thr'[u].status = "running" /\ thr'[u].pod = call'[d].pod /\ thr'[u].hb = "fresh"
      <4>1. CASE d = c /\ u = t
        BY <3>4, <3>8, <4>1
      <4>2. CASE CallHolds(d, u) /\ call'[d] = call[d] /\ u # t
        BY <3>9, <4>2 DEF ClaimInv, HolderOwnsRow
      <4>3. QED BY <3>5, <3>10, <4>1, <4>2
    <3>11. ASSUME NEW u \in Threads, NEW s \in Sessions, SessionHolds(s, u)'
           PROVE  \/ thr'[u].status = "deleted"
                  \/ thr'[u].status = "running" /\ thr'[u].pod = sess'[s].pod /\ thr'[u].hb = "fresh"
      BY <3>2, <3>6, <3>9, <3>11 DEF ClaimInv, HolderOwnsRow
    <3>12. HolderOwnsRow'
      BY <3>10, <3>11 DEF HolderOwnsRow
    <3>13. QED BY <3>7, <3>12 DEF ClaimInv
  <2>4. QED BY <1>2, <2>2, <2>3 DEF Claim
<1>3. CASE StartLive(c)
  <2> DEFINE t == call[c].thread
             p == call[c].pod
  <2>1. t \in Threads /\ p \in Pods /\ call[c] \in CallType /\ CallHolds(c, t)
    BY <1>a, <1>3 DEF StartLive, CallsTyped, CallHolds
  <2>2. PICK s \in Sessions :
          /\ sess[s].pc = "closed"
          /\ sess' = [sess EXCEPT ![s] =
                        [ClosedSession EXCEPT !.pc = "open", !.thread = call[c].thread,
                                              !.pod = call[c].pod]]
          /\ call' = [call EXCEPT ![c].pc = "feed", ![c].sess = s]
    BY <1>3 DEF StartLive, Unreferenced
  <2>3. \A d \in Callers \ {c} : call'[d] = call[d]
    BY <1>a, <2>2 DEF CallsTyped
  <2>4. call'[c].pc = "feed"
    BY <1>a, <2>1, <2>2 DEF CallsTyped, CallType
  <2>5. /\ \A r \in Sessions \ {s} : sess'[r] = sess[r]
        /\ sess'[s].thread = t /\ sess'[s].pod = p
    BY <1>a, <2>2 DEF SessionsTyped, ClosedSession
  <2>6. \A d \in Callers, u \in Threads : CallHolds(d, u)' => CallHolds(d, u) /\ d # c /\ call'[d] = call[d]
    BY <2>3, <2>4 DEF CallHolds
  <2>7. \A r \in Sessions, u \in Threads :
          SessionHolds(r, u)' => (SessionHolds(r, u) /\ r # s /\ sess'[r] = sess[r]) \/ (r = s /\ u = t)
    BY <2>5 DEF SessionHolds
  <2>8. OneHolderPerThread'
    BY <2>1, <2>6, <2>7 DEF ClaimInv, OneHolderPerThread
  <2>9. UNCHANGED thr
    BY <1>3 DEF StartLive
  <2>10. ASSUME NEW u \in Threads, NEW d \in Callers, CallHolds(d, u)'
         PROVE  \/ thr'[u].status = "deleted"
                \/ thr'[u].status = "running" /\ thr'[u].pod = call'[d].pod /\ thr'[u].hb = "fresh"
    BY <2>6, <2>9, <2>10 DEF ClaimInv, HolderOwnsRow
  <2>11. ASSUME NEW u \in Threads, NEW r \in Sessions, SessionHolds(r, u)'
         PROVE  \/ thr'[u].status = "deleted"
                \/ thr'[u].status = "running" /\ thr'[u].pod = sess'[r].pod /\ thr'[u].hb = "fresh"
    <3>1. CASE r = s /\ u = t
      BY <2>1, <2>5, <2>9, <3>1 DEF ClaimInv, HolderOwnsRow
    <3>2. CASE SessionHolds(r, u) /\ sess'[r] = sess[r]
      BY <2>9, <3>2 DEF ClaimInv, HolderOwnsRow
    <3>3. QED BY <2>7, <2>11, <3>1, <3>2
  <2>12. HolderOwnsRow'
    BY <2>10, <2>11 DEF HolderOwnsRow
  <2>13. QED BY <2>8, <2>12 DEF ClaimInv
<1>4. CASE Unclaim(c)
  <2>0. PICK t \in Threads : t = call[c].thread
    BY <1>a, <1>4 DEF Unclaim, CallsTyped
  <2>1. CallHolds(c, t)
    BY <1>4, <2>0 DEF Unclaim, CallHolds
  <2>2. /\ call'[c].pc = "idle"
        /\ \A d \in Callers \ {c} : call'[d] = call[d]
        /\ UNCHANGED sess
    BY <1>a, <1>4 DEF Unclaim, Return, IdleCall, CallsTyped
  <2>3. NoNewCallHolder /\ NoNewSessionHolder
    BY <2>2 DEF NoNewCallHolder, NoNewSessionHolder, CallHolds, SessionHolds
  <2>4. \A d \in Callers : ~CallHolds(d, t)'
    BY <2>1, <2>2 DEF ClaimInv, OneHolderPerThread, CallHolds
  <2>5. \A s \in Sessions : ~SessionHolds(s, t)'
    BY <2>1, <2>2 DEF ClaimInv, OneHolderPerThread, SessionHolds
  <2>6. \A u \in Threads \ {t} : thr'[u] = thr[u]
    BY <1>a, <1>4, <2>0 DEF Unclaim, StoreTyped
  <2>7. HeldRowsKept
    BY <2>4, <2>5, <2>6 DEF HeldRowsKept
  <2>8. QED BY <2>3, <2>7, QuietStep
<1>5. CASE StartLiveFails(c)
  <2>1. call[c] \in CallType /\ call[c].pc = "start" /\ UNCHANGED <<sess, thr>>
    BY <1>a, <1>5 DEF StartLiveFails, CallsTyped
  <2>2. /\ call'[c].thread = call[c].thread /\ call'[c].pod = call[c].pod
        /\ \A d \in Callers \ {c} : call'[d] = call[d]
    BY <1>a, <1>5, <2>1 DEF StartLiveFails, Goto, CallsTyped, CallType
  <2>3. NoNewCallHolder
    BY <2>1, <2>2 DEF NoNewCallHolder, CallHolds
  <2>4. QED BY <2>1, <2>3, QuietParts, QuietStep
<1>6. QED BY <1>1, <1>2, <1>3, <1>4, <1>5 DEF CallerStep

\* Entering release() makes no new holder.
LEMMA BeginReleaseQuiet ==
  ASSUME SessionsTyped, NEW s \in Sessions, NEW to, sess[s].pc = "open", BeginRelease(s, to)
  PROVE  NoNewSessionHolder
<1>1. /\ Leaving(sess[s], to).thread = sess[s].thread
      /\ Leaving(sess[s], to).pod = sess[s].pod
  BY DEF Leaving, SessionsTyped, SessionType
<1>2. QED BY <1>1, QuietSession DEF BeginRelease

\* The steps of feed() keep the claims exclusive.
LEMMA FeedClaims ==
  ASSUME TypeOK, ClaimInv, NEW f \in Feeders, FeedStep(f)
  PROVE  ClaimInv'
<1> DEFINE s == FedSession(f)
<1>a. CallsTyped /\ SessionsTyped /\ StoreTyped /\ PodsTyped
  BY TypeParts
<1>b. s \in Sessions
  BY <1>a, FedSessionTyped DEF FeedStep, FeedRead, FeedDone, FeedInterrupt, FeedSubmit, FeedAdmit
<1>c. ASSUME NEW any, EndFeed(f, any)
      PROVE  NoNewCallHolder /\ NoNewSessionHolder
  <2>1. CASE Return(f) /\ UNCHANGED sess /\ f \in Callers
    BY <1>a, <2>1, QuietCall, QuietParts DEF Return, IdleCall
  <2>2. CASE UNCHANGED <<call, sess>>
    BY <2>2, QuietParts
  <2>3. CASE UNCHANGED call /\ f \in Sessions /\ sess[f].pc = "open" /\ BeginRelease(f, "idle")
    BY <1>a, <2>3, BeginReleaseQuiet, QuietParts
  <2>4. QED BY <1>c, <2>1, <2>2, <2>3 DEF EndFeed, Feeders
<1> HIDE DEF s
<1>1. CASE FeedRead(f)
  <2>1. UNCHANGED thr
    BY <1>1 DEF FeedRead
  <2>2. NoNewCallHolder /\ NoNewSessionHolder
    BY <1>c, <1>1, QuietParts DEF FeedRead
  <2>3. QED BY <2>1, <2>2, QuietParts, QuietStep
<1>2. CASE FeedDone(f)
  BY <1>c, <1>2, QuietParts, QuietStep DEF FeedDone
<1>3. CASE FeedInterrupt(f)
  <2>1. NoNewSessionHolder
    BY <1>a, <1>b, <1>3, QuietFlag, QuietParts DEF FeedInterrupt, s
  <2>2. QED BY <1>3, <2>1, QuietParts, QuietStep DEF FeedInterrupt
<1>4. CASE FeedSubmit(f)
  <2>1. CASE EndFeed(f, feed[f].admitted) /\ UNCHANGED thr
    BY <1>c, <2>1, QuietParts, QuietStep
  <2>2. CASE UNCHANGED <<thr, sess, call>>
    BY <2>2, QuietParts, QuietStep
  <2>3. CASE /\ sess' = [sess EXCEPT ![s] = CoreAccepts(@)]
             /\ \E r \in Inputs : thr' = [thr EXCEPT ![ThreadOf[r]].new = FALSE]
             /\ UNCHANGED call
    <3>1. /\ CoreAccepts(sess[s]).pc = sess[s].pc
          /\ CoreAccepts(sess[s]).thread = sess[s].thread
          /\ CoreAccepts(sess[s]).pod = sess[s].pod
      BY <1>a, <1>b DEF CoreAccepts, SessionsTyped, SessionType
    <3>2. NoNewSessionHolder
      BY <1>a, <1>b, <2>3, <3>1, QuietSession
    <3>3. HeldRowsKept
      <4>1. PICK r \in Inputs : thr' = [thr EXCEPT ![ThreadOf[r]].new = FALSE]
        BY <2>3
      <4>2. ThreadOf[r] \in Threads
        BY ConstantsAssumption DEF Rows
      <4>3. \A u \in Threads : thr'[u].status = thr[u].status /\ thr'[u].pod = thr[u].pod
                               /\ thr'[u].hb = thr[u].hb
        BY <1>a, <4>1, <4>2 DEF StoreTyped, RowType
      <4>4. QED BY <4>3 DEF HeldRowsKept
    <3>4. QED BY <2>3, <3>2, <3>3, QuietParts, QuietStep
  <2>4. QED BY <1>4, <2>1, <2>2, <2>3 DEF FeedSubmit, s
<1>5. CASE FeedAdmit(f)
  BY <1>5, QuietParts, QuietStep DEF FeedAdmit
<1>6. QED BY <1>1, <1>2, <1>3, <1>4, <1>5 DEF FeedStep

\* The pump, release() and the core keep the claims exclusive.
LEMMA SessionClaims ==
  ASSUME TypeOK, ClaimInv, NEW s \in Sessions,
         \/ PumpStep(s) \/ ReleaseStep(s) \/ TurnCompletes(s) \/ InterruptArrives(s)
         \/ CoreDies(s) \/ Heartbeat(s)
  PROVE  ClaimInv'
<1>a. CallsTyped /\ SessionsTyped /\ StoreTyped /\ PodsTyped
  BY TypeParts
<1>b. sess[s] \in SessionType
  BY <1>a DEF SessionsTyped
<1>c. ASSUME /\ sess'[s].pc \in {"open", "leaving"} => sess[s].pc \in {"open", "leaving"}
             /\ sess'[s].thread = sess[s].thread /\ sess'[s].pod = sess[s].pod
             /\ \A r \in Sessions \ {s} : sess'[r] = sess[r]
      PROVE  NoNewSessionHolder
  BY <1>c DEF NoNewSessionHolder, SessionHolds
<1>1. CASE PumpFails(s)
  <2>1. NoNewSessionHolder
    BY <1>a, <1>1, BeginReleaseQuiet DEF PumpFails
  <2>2. QED BY <1>1, <2>1, QuietParts, QuietStep DEF PumpFails
<1>2. CASE PumpEvent(s)
  <2> DEFINE rest == [sess[s] EXCEPT !.evq = Tail(@), !.running = (Head(sess[s].evq) = "started")]
  <2>1. rest.thread = sess[s].thread /\ rest.pod = sess[s].pod /\ rest.pc = "open"
    BY <1>b, <1>2 DEF PumpEvent, SessionType
  <2>2. ASSUME NEW to PROVE /\ Leaving(rest, to).thread = sess[s].thread
                            /\ Leaving(rest, to).pod = sess[s].pod
    BY <1>b DEF Leaving, SessionType
  <2>3. \/ sess' = [sess EXCEPT ![s] = rest]
        \/ \E to \in {"idle", "interrupted"} : sess' = [sess EXCEPT ![s] = Leaving(rest, to)]
    BY <1>2 DEF PumpEvent
  <2>4. sess[s].pc \in {"open", "leaving"}
    BY <1>2 DEF PumpEvent
  <2> HIDE DEF rest
  <2>5. NoNewSessionHolder
    BY <1>a, <2>1, <2>2, <2>3, <2>4, QuietSession
  <2>6. QED BY <1>2, <2>5, QuietParts, QuietStep DEF PumpEvent
<1>3. CASE ReleaseRow(s)
  <2>0. PICK t \in Threads : t = sess[s].thread
    BY <1>a, <1>3 DEF ReleaseRow, SessionsTyped
  <2>1. SessionHolds(s, t)
    BY <1>3, <2>0 DEF ReleaseRow, SessionHolds
  <2>2. /\ sess'[s].pc = "unslot" /\ \A r \in Sessions \ {s} : sess'[r] = sess[r]
        /\ UNCHANGED call
    BY <1>a, <1>b, <1>3 DEF ReleaseRow, SessionsTyped, SessionType
  <2>3. NoNewCallHolder /\ NoNewSessionHolder
    BY <2>2 DEF NoNewCallHolder, NoNewSessionHolder, CallHolds, SessionHolds
  <2>4. \A d \in Callers : ~CallHolds(d, t)'
    BY <2>1, <2>2 DEF ClaimInv, OneHolderPerThread, CallHolds
  <2>5. \A r \in Sessions : ~SessionHolds(r, t)'
    BY <2>1, <2>2 DEF ClaimInv, OneHolderPerThread, SessionHolds
  <2>6. \A u \in Threads \ {t} : thr'[u] = thr[u]
    BY <1>a, <1>3, <2>0 DEF ReleaseRow, StoreTyped
  <2>7. HeldRowsKept
    BY <2>4, <2>5, <2>6 DEF HeldRowsKept
  <2>8. QED BY <2>3, <2>7, QuietStep
<1>4. CASE ReleaseSlot(s)
  <2>1. NoNewSessionHolder
    BY <1>a, <1>b, <1>c, <1>4 DEF ReleaseSlot, SessionsTyped, SessionType
  <2>2. QED BY <1>4, <2>1, QuietParts, QuietStep DEF ReleaseSlot
<1>5. CASE ShutdownSession(s)
  <2>1. NoNewSessionHolder
    BY <1>a, <1>5, QuietSession DEF ShutdownSession, ClosedSession
  <2>2. QED BY <1>5, <2>1, QuietParts, QuietStep DEF ShutdownSession
<1>6. CASE TurnCompletes(s)
  <2>1. NoNewSessionHolder
    BY <1>a, <1>b, <1>c, <1>6 DEF TurnCompletes, SessionsTyped, SessionType
  <2>2. QED BY <1>6, <2>1, QuietParts, QuietStep DEF TurnCompletes
<1>7. CASE InterruptArrives(s)
  <2>1. NoNewSessionHolder
    BY <1>a, <1>b, <1>c, <1>7 DEF InterruptArrives, SessionsTyped, SessionType
  <2>2. QED BY <1>7, <2>1, QuietParts, QuietStep DEF InterruptArrives
<1>8. CASE CoreDies(s)
  <2>1. NoNewSessionHolder
    BY <1>a, <1>b, <1>c, <1>8 DEF CoreDies, SessionsTyped, SessionType
  <2>2. QED BY <1>8, <2>1, QuietParts, QuietStep DEF CoreDies
<1>9. CASE Heartbeat(s)
  <2>0. PICK t \in Threads : t = sess[s].thread
    BY <1>a, <1>9 DEF Heartbeat, SessionsTyped
  <2>1. /\ thr[t].status = "running" /\ thr[t].hb = "stale"
        /\ UNCHANGED <<call, sess>>
    BY <1>9, <2>0 DEF Heartbeat
  <2>2. /\ \A c \in Callers : ~CallHolds(c, t)'
        /\ \A r \in Sessions : ~SessionHolds(r, t)'
    BY <2>1 DEF ClaimInv, HolderOwnsRow, CallHolds, SessionHolds
  <2>3. \A u \in Threads \ {t} : thr'[u] = thr[u]
    BY <1>a, <1>9, <2>0 DEF Heartbeat, StoreTyped
  <2>4. HeldRowsKept
    BY <2>2, <2>3 DEF HeldRowsKept
  <2>5. QED BY <2>1, <2>4, QuietParts, QuietStep
<1>10. QED
  BY <1>1, <1>2, <1>3, <1>4, <1>5, <1>6, <1>7, <1>8, <1>9 DEF PumpStep, ReleaseStep

\* With timely heartbeats, ageing and the recovery scan take no claim from a holder.
LEMMA StaleClaims ==
  ASSUME TypeOK, ClaimInv, HeartbeatsTimely,
         \/ \E t \in Threads : HeartbeatAges(t)
         \/ \E p \in Pods : Recover(p)
  PROVE  ClaimInv'
<1>a. StoreTyped
  BY TypeParts
<1>1. ASSUME NEW t \in Threads, HeartbeatAges(t)
      PROVE  ClaimInv'
  <2>1. /\ UNCHANGED <<call, sess>>
        /\ \A u \in Threads \ {t} : thr'[u] = thr[u]
    BY <1>a, <1>1 DEF HeartbeatAges, StoreTyped
  <2>2. /\ \A c \in Callers : ~CallHolds(c, t)'
        /\ \A s \in Sessions : ~SessionHolds(s, t)'
    BY <1>1, <2>1 DEF HeartbeatAges, CallHolds, SessionHolds
  <2>3. HeldRowsKept
    BY <2>1, <2>2 DEF HeldRowsKept
  <2>4. QED BY <2>1, <2>3, QuietParts, QuietStep
<1>2. ASSUME NEW p \in Pods, Recover(p)
      PROVE  ClaimInv'
  <2>1. UNCHANGED <<call, sess>>
    BY <1>2 DEF Recover
  <2>2. ASSUME NEW t \in Threads,
               (\E c \in Callers : CallHolds(c, t)') \/ (\E s \in Sessions : SessionHolds(s, t)')
        PROVE  thr'[t] = thr[t]
    <3>1. (\E c \in Callers : CallHolds(c, t)) \/ (\E s \in Sessions : SessionHolds(s, t))
      BY <2>1, <2>2 DEF CallHolds, SessionHolds
    <3>2. thr[t].status = "deleted" \/ thr[t].hb = "fresh"
      BY <3>1 DEF ClaimInv, HolderOwnsRow
    <3>3. QED BY <1>2, <3>2 DEF Recover, MarkStale
  <2>3. HeldRowsKept
    BY <2>2 DEF HeldRowsKept
  <2>4. QED BY <2>1, <2>3, QuietParts, QuietStep
<1>3. QED BY <1>1, <1>2

\* Draining, exiting, crashing and restarting keep the claims exclusive.
LEMMA ProcessClaims ==
  ASSUME TypeOK, ClaimInv, NEW p \in Pods,
         DrainStart(p) \/ DrainStep(p) \/ Crash(p) \/ Restart(p)
  PROVE  ClaimInv'
<1>a. CallsTyped /\ SessionsTyped /\ StoreTyped /\ PodsTyped
  BY TypeParts
<1>b. ASSUME NEW how, ProcessEnds(p, how)
      PROVE  ClaimInv'
  <2>1. \A c \in Callers : call'[c] = IdleCall \/ call'[c] = call[c]
    BY <1>b DEF ProcessEnds
  <2>2. \A s \in Sessions : sess'[s] = ClosedSession \/ sess'[s] = sess[s]
    BY <1>b DEF ProcessEnds
  <2>3. IdleCall.pc = "idle" /\ ClosedSession.pc = "closed"
    BY DEF IdleCall, ClosedSession
  <2>4. NoNewCallHolder
    BY <2>1, <2>3 DEF NoNewCallHolder, CallHolds
  <2>5. NoNewSessionHolder
    BY <2>2, <2>3 DEF NoNewSessionHolder, SessionHolds
  <2>6. UNCHANGED thr
    BY <1>b DEF ProcessEnds
  <2>7. QED BY <2>4, <2>5, <2>6, QuietParts, QuietStep
<1>1. CASE DrainStart(p)
  BY <1>1, QuietParts, QuietStep DEF DrainStart
<1>2. ASSUME NEW s \in Sessions, DrainInterrupt(p, s)
      PROVE  ClaimInv'
  <2>1. NoNewSessionHolder
    BY <1>a, <1>2, QuietFlag, BeginReleaseQuiet DEF DrainInterrupt
  <2>2. QED BY <1>2, <2>1, QuietParts, QuietStep DEF DrainInterrupt
<1>3. CASE DrainForce(p)
  <2>1. pod[p].cur \in Sessions
    BY <1>a, <1>3 DEF DrainForce, PodsTyped, PodType
  <2>2. NoNewSessionHolder
    BY <1>a, <1>3, <2>1, BeginReleaseQuiet DEF DrainForce
  <2>3. QED BY <1>3, <2>2, QuietParts, QuietStep DEF DrainForce
<1>4. CASE DrainNext(p)
  BY <1>4, QuietParts, QuietStep DEF DrainNext
<1>5. CASE Exit(p)
  BY <1>b, <1>5 DEF Exit
<1>6. CASE Crash(p)
  BY <1>b, <1>6 DEF Crash
<1>7. CASE Restart(p)
  BY <1>7, QuietParts, QuietStep DEF Restart
<1>8. QED BY <1>1, <1>2, <1>3, <1>4, <1>5, <1>6, <1>7 DEF DrainStep

\* Every step of the engine keeps the claims exclusive.
LEMMA NextClaims ==
  ASSUME HeartbeatsTimely, TypeOK, ClaimInv, [Next]_vars
  PROVE  ClaimInv'
<1>1. CASE UNCHANGED vars
  BY <1>1, QuietParts, QuietStep DEF vars
<1>2. ASSUME NEW p \in Pods, NEW t \in Threads, Sweep(p, t)
      PROVE  ClaimInv'
  <2>1. PICK c \in Callers : BeginSweep(c, p, t)
    BY <1>2 DEF Sweep
  <2>2. NoNewCallHolder
    BY <2>1, QuietDispatch, TypeParts DEF BeginSweep
  <2>3. QED BY <2>1, <2>2, QuietParts, QuietStep DEF BeginSweep
<1>3. CASE Next
  BY <1>2, <1>3, ClientClaims, CallerClaims, FeedClaims, SessionClaims, StaleClaims,
     ProcessClaims DEF Next
<1>4. QED BY <1>1, <1>3

\* No thread is held when the engine starts.
LEMMA InitClaims == Init => ClaimInv
<1> SUFFICES ASSUME Init PROVE ClaimInv
  OBVIOUS
<1>1. \A c \in Callers : call[c].pc = "idle"
  BY DEF Init, IdleCall
<1>2. \A s \in Sessions : sess[s].pc = "closed"
  BY DEF Init, ClosedSession
<1>3. QED BY <1>1, <1>2 DEF ClaimInv, OneHolderPerThread, HolderOwnsRow, CallHolds, SessionHolds

\* ClaimInv is an invariant when holders refresh their heartbeats in time.
LEMMA ClaimInvariant ==
  ASSUME HeartbeatsTimely
  PROVE  Spec => [](TypeOK /\ ClaimInv)
<1>1. Init => TypeOK /\ ClaimInv
  BY InitType, InitClaims
<1>2. TypeOK /\ ClaimInv /\ [Next]_vars => (TypeOK /\ ClaimInv)'
  BY NextType, NextClaims
<1>3. QED BY <1>1, <1>2, PTL DEF Spec

\* As long as no live holder lets its heartbeat go stale, ClaimTurn makes a
\* thread exclusive: whatever pods crash, drain, recover or restart, and
\* whatever the database or the core refuses, no two goroutines hold it.
THEOREM ClaimExclusion ==
  ASSUME HeartbeatsTimely
  PROVE  Spec => []OneHolderPerThread
<1>1. TypeOK /\ ClaimInv => OneHolderPerThread
  BY DEF ClaimInv
<1>2. QED BY <1>1, ClaimInvariant, PTL

\* Under the same assumption the row keeps naming the pod of its holder: no
\* release, resume or recovery scan by anyone else takes the claim away.
THEOREM HolderKeepsRow ==
  ASSUME HeartbeatsTimely
  PROVE  Spec => []HolderOwnsRow
<1>1. TypeOK /\ ClaimInv => HolderOwnsRow
  BY DEF ClaimInv
<1>2. QED BY <1>1, ClaimInvariant, PTL

-----------------------------------------------------------------------------
(* Steps that neither take nor give a slot.                                *)

Slotted == {"open", "leaving", "unslot"}

\* A session that goes from x to y keeps, or goes on without, its slot.
KeepsSlot(x, y) ==
  /\ x.pc \in Slotted <=> y.pc \in Slotted
  /\ x.pc \in Slotted => x.pod = y.pod /\ x.thread = y.thread

CallsStay ==
  \A c \in Callers : call[c].pc = "start" \/ call'[c].pc = "start" => call'[c] = call[c]

SessionsStay == \A s \in Sessions : KeepsSlot(sess[s], sess'[s])

\* Open sessions were open, in the same place, and stay in Engine.live.
LiveStay ==
  \A s \in Sessions : sess'[s].pc = "open" =>
    /\ sess[s].pc = "open" /\ sess'[s].pod = sess[s].pod /\ sess'[s].thread = sess[s].thread
    /\ live[sess[s].pod][sess[s].thread] = s => live'[sess[s].pod][sess[s].thread] = s

Steady == CallsStay /\ SessionsStay /\ LiveStay /\ UNCHANGED slots

\* What a step that leaves the variables alone keeps.
LEMMA SteadyParts ==
  /\ UNCHANGED call => CallsStay
  /\ UNCHANGED sess => SessionsStay
  /\ UNCHANGED <<sess, live>> => LiveStay
BY DEF CallsStay, SessionsStay, KeepsSlot, LiveStay

\* A caller that is not starting a session, before or after.
LEMMA SteadyCall ==
  ASSUME CallsTyped, NEW c \in Callers, NEW v, call' = [call EXCEPT ![c] = v],
         call[c].pc # "start", v.pc # "start"
  PROVE  CallsStay
BY DEF CallsTyped, CallsStay

\* A caller that leaves the engine, not from startLive.
LEMMA SteadyReturn ==
  ASSUME CallsTyped, NEW c \in Callers, Return(c), call[c].pc # "start"
  PROVE  CallsStay
<1>1. call' = [call EXCEPT ![c] = IdleCall] /\ IdleCall.pc # "start"
  BY DEF Return, IdleCall
<1>2. QED BY <1>1, SteadyCall

\* The first half of dispatch().
LEMMA SteadyDispatch ==
  ASSUME CallsTyped, NEW c \in Callers, NEW p, NEW t, NEW new, Dispatch(c, p, t, new),
         call[c].pc # "start"
  PROVE  CallsStay
<1>1. CASE Return(c)
  BY <1>1, SteadyReturn
<1>2. ASSUME NEW pc \in {"feed", "claim"}, NEW s,
             call' = [call EXCEPT ![c] = [pc |-> pc, pod |-> p, thread |-> t,
                                          input |-> None, new |-> new, sess |-> s]]
      PROVE  CallsStay
  <2> DEFINE v == [pc |-> pc, pod |-> p, thread |-> t, input |-> None, new |-> new, sess |-> s]
  <2>1. call' = [call EXCEPT ![c] = v] /\ v.pc # "start"
    BY <1>2
  <2> HIDE DEF v
  <2>2. QED BY <2>1, SteadyCall
<1>3. QED BY <1>1, <1>2 DEF Dispatch

\* One session goes on to v in the same place.
LEMMA SteadySession ==
  ASSUME SessionsTyped, NEW s \in Sessions, NEW v, sess' = [sess EXCEPT ![s] = v],
         v.pc = sess[s].pc, v.pod = sess[s].pod, v.thread = sess[s].thread
  PROVE  SessionsStay /\ (UNCHANGED live => LiveStay)
BY DEF SessionsTyped, SessionsStay, KeepsSlot, LiveStay

\* Setting a session's pending-interrupt flag.
LEMMA SteadyFlag ==
  ASSUME SessionsTyped, NEW s \in Sessions, sess' = [sess EXCEPT ![s].intr = TRUE]
  PROVE  SessionsStay /\ (UNCHANGED live => LiveStay)
<1>1. sess' = [sess EXCEPT ![s] = [sess[s] EXCEPT !.intr = TRUE]]
  OBVIOUS
<1>2. /\ [sess[s] EXCEPT !.intr = TRUE].pc = sess[s].pc
      /\ [sess[s] EXCEPT !.intr = TRUE].pod = sess[s].pod
      /\ [sess[s] EXCEPT !.intr = TRUE].thread = sess[s].thread
  BY DEF SessionsTyped, SessionType
<1>3. QED BY <1>1, <1>2, SteadySession

\* release() takes its own session out of Engine.live, and no other.
LEMMA SteadyRelease ==
  ASSUME PodsTyped, SessionsTyped, NEW s \in Sessions, sess[s].pc = "open",
         NEW x, x.pc = "open", x.pod = sess[s].pod, x.thread = sess[s].thread, x \in SessionType,
         NEW to, sess' = [sess EXCEPT ![s] = Leaving(x, to)], live' = Unlinked(s)
  PROVE  SessionsStay /\ LiveStay
<1>1. /\ Leaving(x, to).pc = "leaving" /\ Leaving(x, to).pod = sess[s].pod
      /\ Leaving(x, to).thread = sess[s].thread
  BY DEF Leaving, SessionType
<1>2. /\ sess'[s] = Leaving(x, to) /\ \A r \in Sessions \ {s} : sess'[r] = sess[r]
  BY DEF SessionsTyped
<1>3. SessionsStay
  BY <1>1, <1>2 DEF SessionsStay, KeepsSlot, Slotted
<1>4. \A p \in Pods, t \in Threads : live'[p][t] = live[p][t] \/ live[p][t] = s
  <2>1. sess[s].pod \in Pods /\ sess[s].thread \in Threads
    BY DEF SessionsTyped
  <2>2. QED BY <2>1 DEF Unlinked, PodsTyped
<1>5. \A r \in Sessions : sess[r].pc = "open" => sess[r].pod \in Pods /\ sess[r].thread \in Threads
  BY DEF SessionsTyped
<1>6. LiveStay
  BY <1>1, <1>2, <1>4, <1>5 DEF LiveStay
<1>7. QED BY <1>3, <1>6

\* Entering release().
LEMMA SteadyBeginRelease ==
  ASSUME PodsTyped, SessionsTyped, NEW s \in Sessions, sess[s].pc = "open", NEW to,
         BeginRelease(s, to)
  PROVE  SessionsStay /\ LiveStay
BY SteadyRelease DEF BeginRelease, SessionsTyped

\* Clients and the sweeper.
LEMMA ClientSteady ==
  ASSUME TypeOK, ClientStep \/ \E p \in Pods, t \in Threads : Sweep(p, t)
  PROVE  Steady
<1>a. CallsTyped /\ SessionsTyped /\ StoreTyped /\ PodsTyped
  BY TypeParts
<1>1. ASSUME NEW p \in Pods, NEW c \in Callers, NEW i \in Inputs, BeginSubmit(c, p, i)
      PROVE  Steady
  <2> DEFINE v == [pc |-> "enqueue", pod |-> p, thread |-> ThreadOf[i],
                   input |-> i, new |-> thr[ThreadOf[i]].new, sess |-> None]
  <2>1. call' = [call EXCEPT ![c] = v] /\ v.pc # "start" /\ call[c].pc # "start"
    BY <1>1 DEF BeginSubmit
  <2> HIDE DEF v
  <2>2. CallsStay
    BY <1>a, <2>1, SteadyCall
  <2>3. QED BY <1>1, <2>2, SteadyParts DEF BeginSubmit, Steady
<1>2. ASSUME NEW p \in Pods, NEW c \in Callers, NEW t \in Threads,
             BeginResume(c, p, t) \/ BeginSweep(c, p, t)
      PROVE  Steady
  <2>1. CallsStay
    BY <1>a, <1>2, SteadyDispatch DEF BeginResume, BeginSweep
  <2>2. QED BY <1>2, <2>1, SteadyParts DEF BeginResume, BeginSweep, Steady
<1>3. ASSUME NEW p \in Pods, NEW r \in Interrupts, Interrupt(p, r)
      PROVE  Steady
  <2>1. SessionsStay /\ LiveStay
    <3>1. CASE UNCHANGED sess
      BY <1>3, <3>1, SteadyParts DEF Interrupt
    <3>2. CASE live[p][ThreadOf[r]] # None /\ sess' = [sess EXCEPT ![live[p][ThreadOf[r]]].intr = TRUE]
      <4>1. ThreadOf[r] \in Threads
        BY ConstantsAssumption DEF Rows
      <4>2. live[p][ThreadOf[r]] \in Sessions
        BY <1>a, <3>2, <4>1 DEF PodsTyped
      <4>3. QED BY <1>a, <1>3, <3>2, <4>2, SteadyFlag DEF Interrupt
    <3>3. QED BY <1>3, <3>1, <3>2 DEF Interrupt
  <2>2. QED BY <1>3, <2>1, SteadyParts DEF Interrupt, Steady
<1>4. ASSUME NEW t \in Deletes, DeleteThread(t)
      PROVE  Steady
  BY <1>4, SteadyParts DEF DeleteThread, Steady
<1>5. QED BY <1>1, <1>2, <1>3, <1>4 DEF ClientStep, Sweep

\* The feed loop.
LEMMA FeedSteady ==
  ASSUME TypeOK, NEW f \in Feeders, FeedStep(f)
  PROVE  Steady
<1> DEFINE s == FedSession(f)
<1>a. CallsTyped /\ SessionsTyped /\ StoreTyped /\ PodsTyped
  BY TypeParts
<1>b. feed[f].pc # "off"
  BY DEF FeedStep, FeedRead, FeedDone, FeedInterrupt, FeedSubmit, FeedAdmit
<1>c. s \in Sessions
  BY <1>a, <1>b, FedSessionTyped
<1>d. ASSUME NEW any, EndFeed(f, any)
      PROVE  CallsStay /\ SessionsStay /\ LiveStay
  <2>1. CASE Return(f) /\ UNCHANGED <<sess, live>> /\ f \in Callers
    <3>1. call[f].pc = "feed"
      BY <1>a, <1>b, <2>1 DEF CallsTyped
    <3>2. CallsStay
      BY <1>a, <2>1, <3>1, SteadyReturn
    <3>3. QED BY <2>1, <3>2, SteadyParts
  <2>2. CASE UNCHANGED <<call, sess, live>>
    BY <2>2, SteadyParts
  <2>3. CASE UNCHANGED call /\ f \in Sessions /\ sess[f].pc = "open" /\ BeginRelease(f, "idle")
    BY <1>a, <2>3, SteadyBeginRelease, SteadyParts
  <2>4. QED BY <1>d, <2>1, <2>2, <2>3 DEF EndFeed, Feeders
<1> HIDE DEF s
<1>1. CASE FeedRead(f)
  <2>1. CASE \E any : EndFeed(f, any)
    BY <1>d, <1>1, <2>1 DEF FeedRead, Steady
  <2>2. CASE UNCHANGED <<sess, live, call>>
    BY <1>1, <2>2, SteadyParts DEF FeedRead, Steady
  <2>3. QED BY <1>1, <2>1, <2>2 DEF FeedRead
<1>2. CASE FeedDone(f)
  BY <1>d, <1>2 DEF FeedDone, Steady
<1>3. CASE FeedInterrupt(f)
  <2>1. SessionsStay /\ LiveStay
    BY <1>a, <1>c, <1>3, SteadyFlag, SteadyParts DEF FeedInterrupt, s
  <2>2. QED BY <1>3, <2>1, SteadyParts DEF FeedInterrupt, Steady
<1>4. CASE FeedSubmit(f)
  <2>1. CASE EndFeed(f, feed[f].admitted)
    BY <1>d, <1>4, <2>1 DEF FeedSubmit, Steady
  <2>2. CASE UNCHANGED <<sess, live, call>>
    BY <1>4, <2>2, SteadyParts DEF FeedSubmit, Steady
  <2>3. CASE sess' = [sess EXCEPT ![s] = CoreAccepts(@)] /\ UNCHANGED <<live, call>>
    <3>1. /\ CoreAccepts(sess[s]).pc = sess[s].pc
          /\ CoreAccepts(sess[s]).thread = sess[s].thread
          /\ CoreAccepts(sess[s]).pod = sess[s].pod
      BY <1>a, <1>c DEF CoreAccepts, SessionsTyped, SessionType
    <3>2. SessionsStay /\ LiveStay
      BY <1>a, <1>c, <2>3, <3>1, SteadySession
    <3>3. QED BY <1>4, <2>3, <3>2, SteadyParts DEF FeedSubmit, Steady
  <2>4. QED BY <1>4, <2>1, <2>2, <2>3 DEF FeedSubmit, s
<1>5. CASE FeedAdmit(f)
  BY <1>5, SteadyParts DEF FeedAdmit, Steady
<1>6. QED BY <1>1, <1>2, <1>3, <1>4, <1>5 DEF FeedStep

\* dispatch() outside the part between a successful claim and startLive.
LEMMA CallerSteady ==
  ASSUME TypeOK, NEW c \in Callers,
         Enqueue(c) \/ (Claim(c) /\ UNCHANGED slots /\ call'[c].pc # "start") \/ Unclaim(c)
  PROVE  Steady
<1>a. CallsTyped /\ SessionsTyped /\ StoreTyped /\ PodsTyped
  BY TypeParts
<1>1. CASE Enqueue(c)
  <2>1. CallsStay
    BY <1>a, <1>1, SteadyReturn, SteadyDispatch DEF Enqueue
  <2>2. QED BY <1>1, <2>1, SteadyParts DEF Enqueue, Steady
<1>2. CASE Claim(c) /\ UNCHANGED slots /\ call'[c].pc # "start"
  <2>1. CallsStay
    <3>1. CASE Return(c)
      BY <1>a, <1>2, <3>1, SteadyReturn DEF Claim
    <3>2. CASE Goto(c, "start") \/ Goto(c, "unclaim")
      <4>1. \A d \in Callers \ {c} : call'[d] = call[d]
        BY <1>a, <3>2 DEF Goto, CallsTyped
      <4>2. call[c].pc # "start" /\ call'[c].pc # "start"
        BY <1>2 DEF Claim
      <4>3. QED BY <4>1, <4>2 DEF CallsStay
    <3>3. QED BY <1>2, <3>1, <3>2 DEF Claim
  <2>2. QED BY <1>2, <2>1, SteadyParts DEF Claim, Steady
<1>3. CASE Unclaim(c)
  <2>1. CallsStay
    BY <1>a, <1>3, SteadyReturn DEF Unclaim
  <2>2. QED BY <1>3, <2>1, SteadyParts DEF Unclaim, Steady
<1>4. QED BY <1>1, <1>2, <1>3

\* A session that is closed or on its way out goes on.
LEMMA SteadyMove ==
  ASSUME SessionsTyped, NEW s \in Sessions, NEW v, sess' = [sess EXCEPT ![s] = v],
         KeepsSlot(sess[s], v), v.pc # "open"
  PROVE  SessionsStay /\ (UNCHANGED live => LiveStay)
<1>1. sess'[s] = v /\ \A r \in Sessions \ {s} : sess'[r] = sess[r]
  BY DEF SessionsTyped
<1>2. SessionsStay
  BY <1>1 DEF SessionsStay, KeepsSlot
<1>3. UNCHANGED live => LiveStay
  BY <1>1 DEF LiveStay
<1>4. QED BY <1>2, <1>3

\* The core, the pump, heartbeats, and release() but for the slot.
LEMMA SessionSteady ==
  ASSUME TypeOK, NEW s \in Sessions,
         \/ PumpStep(s) \/ ReleaseRow(s) \/ ShutdownSession(s)
         \/ TurnCompletes(s) \/ InterruptArrives(s) \/ CoreDies(s) \/ Heartbeat(s)
  PROVE  Steady
<1>a. CallsTyped /\ SessionsTyped /\ StoreTyped /\ PodsTyped /\ sess[s] \in SessionType
  BY TypeParts DEF SessionsTyped
<1>b. ASSUME NEW v, sess' = [sess EXCEPT ![s] = v], v.pc = sess[s].pc, v.pod = sess[s].pod,
             v.thread = sess[s].thread, UNCHANGED <<live, call, slots>>
      PROVE  Steady
  BY <1>a, <1>b, SteadySession, SteadyParts DEF Steady
<1>1. CASE PumpFails(s)
  BY <1>a, <1>1, SteadyBeginRelease, SteadyParts DEF PumpFails, Steady
<1>2. CASE PumpEvent(s)
  <2> DEFINE rest == [sess[s] EXCEPT !.evq = Tail(@), !.running = (Head(sess[s].evq) = "started")]
             to == IF Head(sess[s].evq) = "aborted" THEN "interrupted" ELSE "idle"
  <2>1. /\ rest.pc = sess[s].pc /\ rest.pod = sess[s].pod /\ rest.thread = sess[s].thread
        /\ sess[s].pc = "open"
        /\ UNCHANGED <<call, slots>>
        /\ \/ sess' = [sess EXCEPT ![s] = rest] /\ UNCHANGED live
           \/ sess' = [sess EXCEPT ![s] = Leaving(rest, to)] /\ live' = Unlinked(s)
    BY <1>a, <1>2 DEF PumpEvent, SessionType
  <2>2. rest \in SessionType
    <3>1. Tail(sess[s].evq) \in Seq({"started", "complete", "aborted"})
      BY <1>a, <1>2 DEF PumpEvent, SessionType
    <3>2. QED BY <1>a, <3>1 DEF SessionType
  <2> HIDE DEF rest, to
  <2>3. CASE sess' = [sess EXCEPT ![s] = rest] /\ UNCHANGED live
    BY <1>b, <2>1, <2>3
  <2>4. CASE sess' = [sess EXCEPT ![s] = Leaving(rest, to)] /\ live' = Unlinked(s)
    <3>1. SessionsStay /\ LiveStay
      BY <1>a, <2>1, <2>2, <2>4, SteadyRelease
    <3>2. QED BY <2>1, <3>1, SteadyParts DEF Steady
  <2>5. QED BY <2>1, <2>3, <2>4
<1>3. CASE ReleaseRow(s)
  <2> DEFINE v == [sess[s] EXCEPT !.pc = "unslot"]
  <2>1. sess' = [sess EXCEPT ![s] = v] /\ KeepsSlot(sess[s], v) /\ v.pc # "open"
    BY <1>a, <1>3 DEF ReleaseRow, KeepsSlot, Slotted, SessionType
  <2> HIDE DEF v
  <2>2. QED BY <1>a, <1>3, <2>1, SteadyMove, SteadyParts DEF ReleaseRow, Steady
<1>4. CASE ShutdownSession(s)
  <2>1. sess' = [sess EXCEPT ![s] = ClosedSession] /\ ClosedSession.pc = "closed"
        /\ sess[s].pc = "shutdown"
    BY <1>4 DEF ShutdownSession, ClosedSession
  <2>2. KeepsSlot(sess[s], ClosedSession)
    BY <2>1 DEF KeepsSlot, Slotted
  <2>3. QED BY <1>a, <1>4, <2>1, <2>2, SteadyMove, SteadyParts DEF ShutdownSession, Steady
<1>5. CASE TurnCompletes(s)
  <2> DEFINE v == [sess[s] EXCEPT !.turn = FALSE, !.evq = Append(@, "complete")]
  <2>1. /\ sess' = [sess EXCEPT ![s] = v]
        /\ v.pc = sess[s].pc /\ v.pod = sess[s].pod /\ v.thread = sess[s].thread
    BY <1>a, <1>5 DEF TurnCompletes, SessionType
  <2> HIDE DEF v
  <2>2. QED BY <1>5, <1>b, <2>1 DEF TurnCompletes
<1>6. CASE InterruptArrives(s)
  <2> DEFINE v == [sess[s] EXCEPT !.intr = FALSE, !.turn = FALSE,
                     !.evq = IF sess[s].turn THEN Append(@, "aborted") ELSE @]
  <2>1. /\ sess' = [sess EXCEPT ![s] = v]
        /\ v.pc = sess[s].pc /\ v.pod = sess[s].pod /\ v.thread = sess[s].thread
    BY <1>a, <1>6 DEF InterruptArrives, SessionType
  <2> HIDE DEF v
  <2>2. QED BY <1>6, <1>b, <2>1 DEF InterruptArrives
<1>7. CASE CoreDies(s)
  <2> DEFINE v == [sess[s] EXCEPT !.dead = TRUE, !.turn = FALSE]
  <2>1. /\ sess' = [sess EXCEPT ![s] = v]
        /\ v.pc = sess[s].pc /\ v.pod = sess[s].pod /\ v.thread = sess[s].thread
    BY <1>a, <1>7 DEF CoreDies, SessionType
  <2> HIDE DEF v
  <2>2. QED BY <1>7, <1>b, <2>1 DEF CoreDies
<1>8. CASE Heartbeat(s)
  BY <1>8, SteadyParts DEF Heartbeat, Steady
<1>9. QED BY <1>1, <1>2, <1>3, <1>4, <1>5, <1>6, <1>7, <1>8 DEF PumpStep

\* Recovery, draining and restarting.
LEMMA ProcessSteady ==
  ASSUME TypeOK, NEW p \in Pods,
         \/ Recover(p) \/ DrainStart(p) \/ DrainForce(p) \/ DrainNext(p) \/ Restart(p)
         \/ \E s \in Sessions : DrainInterrupt(p, s)
  PROVE  Steady
<1>a. CallsTyped /\ SessionsTyped /\ StoreTyped /\ PodsTyped
  BY TypeParts
<1>1. ASSUME NEW s \in Sessions, DrainInterrupt(p, s)
      PROVE  Steady
  <2>1. SessionsStay /\ LiveStay
    <3>1. CASE sess' = [sess EXCEPT ![s].intr = TRUE] /\ UNCHANGED live
      BY <1>a, <3>1, SteadyFlag
    <3>2. CASE BeginRelease(s, "interrupted")
      <4>1. sess[s].pc = "open"
        BY <1>1 DEF DrainInterrupt
      <4>2. QED BY <1>a, <3>2, <4>1, SteadyBeginRelease
    <3>3. QED BY <1>1, <3>1, <3>2 DEF DrainInterrupt
  <2>2. QED BY <1>1, <2>1, SteadyParts DEF DrainInterrupt, Steady
<1>2. CASE DrainForce(p)
  <2>1. pod[p].cur \in Sessions /\ sess[pod[p].cur].pc = "open"
    BY <1>a, <1>2 DEF DrainForce, PodsTyped, PodType
  <2>2. SessionsStay /\ LiveStay
    BY <1>a, <1>2, <2>1, SteadyBeginRelease DEF DrainForce
  <2>3. QED BY <1>2, <2>2, SteadyParts DEF DrainForce, Steady
<1>3. CASE UNCHANGED <<call, sess, live, slots>>
  BY <1>3, SteadyParts DEF Steady
<1>4. QED
  BY <1>1, <1>2, <1>3 DEF Recover, DrainStart, DrainNext, Restart

-----------------------------------------------------------------------------
(* The tenant's slots.                                                      *)

\* What is known about the slots of one tenant on one pod.
SlotsOf(p, n) ==
  /\ IsFiniteSet(SlotHolders(p, n))
  /\ slots[p][n] = Cardinality(SlotHolders(p, n))
  /\ slots[p][n] <= MaxTurns

\* SlotAccounting, and that the goroutines counted are finitely many.
SlotInv == MaxTurns > 0 => \A p \in Pods, n \in Tenants : SlotsOf(p, n)

\* A caller that holds one of the slots of tenant n on pod p.
HoldsSlot(c, p, n) == call[c].pc = "start" /\ call[c].pod = p /\ TenantOf[call[c].thread] = n

\* A session that does.
OccupiesSlot(s, p, n) == sess[s].pc \in Slotted /\ sess[s].pod = p /\ TenantOf[sess[s].thread] = n

\* The holders of a slot, by what they are.
LEMMA HoldersAre ==
  ASSUME NEW p, NEW n
  PROVE  /\ SlotHolders(p, n) = {c \in Callers : HoldsSlot(c, p, n)} \cup {s \in Sessions : OccupiesSlot(s, p, n)}
         /\ SlotHolders(p, n)' = {c \in Callers : HoldsSlot(c, p, n)'} \cup {s \in Sessions : OccupiesSlot(s, p, n)'}
BY DEF SlotHolders, HoldsSlot, OccupiesSlot, Slotted

\* A tenant whose holders and counter stay the same.
LEMMA SlotsKept ==
  ASSUME NEW p, NEW n, SlotsOf(p, n), SlotHolders(p, n)' = SlotHolders(p, n), slots'[p][n] = slots[p][n]
  PROVE  SlotsOf(p, n)'
BY DEF SlotsOf

\* Steady steps change no count.
LEMMA SteadySlots ==
  ASSUME SlotInv, Steady
  PROVE  SlotInv'
<1> SUFFICES ASSUME MaxTurns > 0, NEW p \in Pods, NEW n \in Tenants
             PROVE  SlotsOf(p, n)'
  BY DEF SlotInv
<1>1. \A c \in Callers : HoldsSlot(c, p, n)' <=> HoldsSlot(c, p, n)
  BY DEF Steady, CallsStay, HoldsSlot
<1>2. \A s \in Sessions : OccupiesSlot(s, p, n)' <=> OccupiesSlot(s, p, n)
  BY DEF Steady, SessionsStay, KeepsSlot, OccupiesSlot
<1>3. SlotHolders(p, n)' = SlotHolders(p, n)
  BY <1>1, <1>2, HoldersAre
<1>4. QED BY <1>3, SlotsKept DEF SlotInv, Steady

\* TryAcquire succeeded: one caller more, one slot more.
LEMMA ClaimSlots ==
  ASSUME TypeOK, SlotInv, MaxTurns > 0, NEW c \in Callers, Claim(c), ~UNCHANGED slots,
         NEW p \in Pods, NEW n \in Tenants
  PROVE  SlotsOf(p, n)'
<1> DEFINE p0 == call[c].pod
           n0 == TenantOf[call[c].thread]
<1>a. CallsTyped /\ SessionsTyped /\ StoreTyped /\ PodsTyped
  BY TypeParts
<1>1. /\ call[c].pc = "claim"
      /\ slots' = [slots EXCEPT ![p0] = Acquire(slots[p0], n0)]
      /\ CanAcquire(slots[p0], n0)
      /\ Goto(c, "start")
      /\ UNCHANGED sess
  BY DEF Claim
<1>2. p0 \in Pods /\ n0 \in Tenants
  BY <1>a, <1>1, ConstantsAssumption DEF CallsTyped
<1>3. /\ call'[c].pc = "start" /\ call'[c].pod = p0 /\ call'[c].thread = call[c].thread
      /\ \A d \in Callers \ {c} : call'[d] = call[d]
  BY <1>a, <1>1 DEF Goto, CallsTyped, CallType
<1>4. \A d \in Callers : HoldsSlot(d, p, n)' <=> HoldsSlot(d, p, n) \/ (d = c /\ p = p0 /\ n = n0)
  BY <1>1, <1>3 DEF HoldsSlot
<1>5. \A s \in Sessions : OccupiesSlot(s, p, n)' <=> OccupiesSlot(s, p, n)
  BY <1>1 DEF OccupiesSlot
<1>6. SlotsOf(p, n) /\ slots[p] \in [Tenants -> Nat] /\ slots[p][n] \in Nat /\ MaxTurns \in Nat
  BY <1>a, ConstantsAssumption DEF SlotInv, PodsTyped
<1> DEFINE H == SlotHolders(p, n)
<1>7. CASE p = p0 /\ n = n0
  <2>1. H' = H \cup {c}
    BY <1>4, <1>5, <1>7, HoldersAre
  <2>2. c \notin H
    BY <1>1, ConstantsAssumption DEF SlotHolders
  <2>3. slots'[p][n] = slots[p][n] + 1
    BY <1>a, <1>1, <1>2, <1>6, <1>7 DEF PodsTyped, Acquire
  <2>4. slots[p][n] < MaxTurns
    BY <1>1, <1>7 DEF CanAcquire
  <2> HIDE DEF H
  <2>5. IsFiniteSet(H) /\ slots[p][n] = Cardinality(H)
    BY <1>6 DEF SlotsOf, H
  <2>6. IsFiniteSet(H') /\ Cardinality(H') = Cardinality(H) + 1
    BY <2>1, <2>2, <2>5, FS_AddElement
  <2>7. slots'[p][n] <= MaxTurns
    BY <1>6, <2>3, <2>4
  <2>8. QED BY <2>3, <2>5, <2>6, <2>7 DEF SlotsOf, H
<1>8. CASE ~(p = p0 /\ n = n0)
  <2>1. H' = H
    BY <1>4, <1>5, <1>8, HoldersAre
  <2>2. slots'[p][n] = slots[p][n]
    BY <1>a, <1>1, <1>2, <1>6, <1>8 DEF PodsTyped, Acquire
  <2>3. QED BY <1>6, <2>1, <2>2, SlotsKept
<1>9. QED BY <1>7, <1>8

\* startLive: the caller's slot becomes the new session's.
LEMMA StartSlots ==
  ASSUME TypeOK, SlotInv, MaxTurns > 0, NEW c \in Callers, StartLive(c),
         NEW p \in Pods, NEW n \in Tenants
  PROVE  SlotsOf(p, n)'
<1> DEFINE H == SlotHolders(p, n)
<1>a. CallsTyped /\ SessionsTyped /\ StoreTyped /\ PodsTyped
  BY TypeParts
<1>1. PICK s \in Sessions :
        /\ sess[s].pc = "closed"
        /\ sess' = [sess EXCEPT ![s] =
                      [ClosedSession EXCEPT !.pc = "open", !.thread = call[c].thread,
                                            !.pod = call[c].pod]]
        /\ call' = [call EXCEPT ![c].pc = "feed", ![c].sess = s]
  BY DEF StartLive, Unreferenced
<1>2. call[c].pc = "start" /\ UNCHANGED slots
  BY DEF StartLive
<1>3. /\ call'[c].pc = "feed"
      /\ \A d \in Callers \ {c} : call'[d] = call[d]
  BY <1>a, <1>1 DEF CallsTyped, CallType
<1>4. /\ sess'[s].pc = "open" /\ sess'[s].thread = call[c].thread /\ sess'[s].pod = call[c].pod
      /\ \A r \in Sessions \ {s} : sess'[r] = sess[r]
  BY <1>a, <1>1 DEF SessionsTyped, ClosedSession
<1>5. \A d \in Callers : HoldsSlot(d, p, n)' <=> HoldsSlot(d, p, n) /\ d # c
  BY <1>3 DEF HoldsSlot
<1>6. \A r \in Sessions : OccupiesSlot(r, p, n)' <=> OccupiesSlot(r, p, n) \/ (r = s /\ HoldsSlot(c, p, n))
  BY <1>1, <1>2, <1>4 DEF OccupiesSlot, HoldsSlot, Slotted
<1>7. SlotsOf(p, n)
  BY DEF SlotInv
<1>8. CASE HoldsSlot(c, p, n)
  <2>1. c \in H /\ s \notin H
    BY <1>1, <1>8, HoldersAre, ConstantsAssumption DEF OccupiesSlot, Slotted
  <2>2. H' = (H \ {c}) \cup {s}
    BY <1>5, <1>6, <1>8, HoldersAre, ConstantsAssumption
  <2> DEFINE G == H \ {c}
  <2>3. IsFiniteSet(H) /\ slots[p][n] = Cardinality(H) /\ slots[p][n] <= MaxTurns
    BY <1>7 DEF SlotsOf
  <2> HIDE DEF H
  <2>4. IsFiniteSet(G) /\ Cardinality(G) = Cardinality(H) - 1
    BY <2>1, <2>3, FS_RemoveElement
  <2>5. s \notin G /\ H' = G \cup {s}
    BY <2>1, <2>2
  <2> HIDE DEF G
  <2>6. IsFiniteSet(H') /\ Cardinality(H') = Cardinality(G) + 1
    BY <2>4, <2>5, FS_AddElement
  <2>7. Cardinality(H) \in Nat
    BY <2>3, FS_CardinalityType
  <2>8. Cardinality(H') = Cardinality(H)
    BY <2>4, <2>6, <2>7
  <2>9. IsFiniteSet(H') /\ slots'[p][n] = Cardinality(H') /\ slots'[p][n] <= MaxTurns
    BY <1>2, <2>3, <2>6, <2>8
  <2>10. QED BY <2>9 DEF SlotsOf, H
<1>9. CASE ~HoldsSlot(c, p, n)
  <2>1. H' = H
    <3>1. \A d \in Callers : HoldsSlot(d, p, n)' <=> HoldsSlot(d, p, n)
      BY <1>5, <1>9
    <3>2. \A r \in Sessions : OccupiesSlot(r, p, n)' <=> OccupiesSlot(r, p, n)
      BY <1>6, <1>9
    <3>3. QED BY <3>1, <3>2, HoldersAre
  <2>2. QED BY <1>2, <1>7, <2>1, SlotsKept
<1>10. QED BY <1>8, <1>9

\* TenantLimiter.Release by one of the holders: one holder less, one slot less.
LEMMA ReturnedSlots ==
  ASSUME TypeOK, SlotInv, MaxTurns > 0, NEW p0 \in Pods, NEW n0 \in Tenants, NEW x,
         slots' = [slots EXCEPT ![p0] = Release(slots[p0], n0)],
         x \in SlotHolders(p0, n0),
         SlotHolders(p0, n0)' = SlotHolders(p0, n0) \ {x},
         NEW p \in Pods, NEW n \in Tenants,
         ~(p = p0 /\ n = n0) => SlotHolders(p, n)' = SlotHolders(p, n)
  PROVE  SlotsOf(p, n)'
<1> DEFINE H == SlotHolders(p, n)
<1>a. PodsTyped
  BY TypeParts
<1>1. SlotsOf(p, n) /\ slots[p] \in [Tenants -> Nat] /\ slots[p][n] \in Nat /\ MaxTurns \in Nat
  BY <1>a, ConstantsAssumption DEF SlotInv, PodsTyped
<1>2. CASE p = p0 /\ n = n0
  <2>1. x \in H /\ H' = H \ {x}
    BY <1>2
  <2>2. IsFiniteSet(H) /\ slots[p][n] = Cardinality(H) /\ slots[p][n] <= MaxTurns
    BY <1>1 DEF SlotsOf
  <2> HIDE DEF H
  <2>3. IsFiniteSet(H') /\ Cardinality(H') = Cardinality(H) - 1
    BY <2>1, <2>2, FS_RemoveElement
  <2>4. Cardinality(H') \in Nat
    BY <2>3, FS_CardinalityType
  <2>5. slots[p][n] # 0
    BY <1>1, <2>2, <2>3, <2>4
  <2>6. slots'[p][n] = slots[p][n] - 1
    BY <1>a, <1>1, <1>2, <2>5 DEF PodsTyped, Release
  <2>7. slots'[p][n] <= MaxTurns
    BY <1>1, <2>2, <2>6
  <2>8. QED BY <2>2, <2>3, <2>6, <2>7 DEF SlotsOf, H
<1>3. CASE ~(p = p0 /\ n = n0)
  <2>1. slots'[p][n] = slots[p][n]
    BY <1>a, <1>1, <1>3 DEF PodsTyped, Release
  <2>2. QED BY <1>1, <1>3, <2>1, SlotsKept
<1>4. QED BY <1>2, <1>3

\* startLive failed, or release() reached its TenantLimiter.Release.
LEMMA ReleaseSlots ==
  ASSUME TypeOK, SlotInv,
         (\E c \in Callers : StartLiveFails(c)) \/ (\E s \in Sessions : ReleaseSlot(s))
  PROVE  SlotInv'
<1> SUFFICES ASSUME MaxTurns > 0, NEW p \in Pods, NEW n \in Tenants
             PROVE  SlotsOf(p, n)'
  BY DEF SlotInv
<1>a. CallsTyped /\ SessionsTyped /\ StoreTyped /\ PodsTyped
  BY TypeParts
<1>1. ASSUME NEW c \in Callers, StartLiveFails(c)
      PROVE  SlotsOf(p, n)'
  <2>1. /\ call[c].pc = "start" /\ UNCHANGED sess
        /\ slots' = [slots EXCEPT ![call[c].pod] = Release(@, TenantOf[call[c].thread])]
    BY <1>1 DEF StartLiveFails
  <2>2. PICK p0 \in Pods, n0 \in Tenants : p0 = call[c].pod /\ n0 = TenantOf[call[c].thread]
    BY <1>a, <2>1, ConstantsAssumption DEF CallsTyped
  <2>3. call'[c].pc = "unclaim" /\ \A d \in Callers \ {c} : call'[d] = call[d]
    BY <1>a, <1>1 DEF StartLiveFails, Goto, CallsTyped, CallType
  <2>4. \A q, m : \A d \in Callers : HoldsSlot(d, q, m)' <=> HoldsSlot(d, q, m) /\ d # c
    BY <2>3 DEF HoldsSlot
  <2>5. \A q, m : \A s \in Sessions : OccupiesSlot(s, q, m)' <=> OccupiesSlot(s, q, m)
    BY <2>1 DEF OccupiesSlot
  <2>6. c \in SlotHolders(p0, n0) /\ SlotHolders(p0, n0)' = SlotHolders(p0, n0) \ {c}
    <3>1. HoldsSlot(c, p0, n0)
      BY <2>1, <2>2 DEF HoldsSlot
    <3>2. \A d \in Callers : HoldsSlot(d, p0, n0)' <=> HoldsSlot(d, p0, n0) /\ d # c
      BY <2>4
    <3>3. \A s \in Sessions : s # c /\ (OccupiesSlot(s, p0, n0)' <=> OccupiesSlot(s, p0, n0))
      BY <2>5, ConstantsAssumption
    <3>4. QED BY <3>1, <3>2, <3>3, HoldersAre
  <2>7. ~(p = p0 /\ n = n0) => SlotHolders(p, n)' = SlotHolders(p, n)
    <3>1. ASSUME ~(p = p0 /\ n = n0)
          PROVE  ~HoldsSlot(c, p, n)
      BY <2>2, <3>1 DEF HoldsSlot
    <3>2. ASSUME ~(p = p0 /\ n = n0)
          PROVE  \A d \in Callers : HoldsSlot(d, p, n)' <=> HoldsSlot(d, p, n)
      BY <2>4, <3>1, <3>2
    <3>3. \A s \in Sessions : OccupiesSlot(s, p, n)' <=> OccupiesSlot(s, p, n)
      BY <2>5
    <3>4. QED BY <3>2, <3>3, HoldersAre
  <2>8. slots' = [slots EXCEPT ![p0] = Release(slots[p0], n0)]
    BY <2>1, <2>2
  <2>9. QED BY <2>2, <2>6, <2>7, <2>8, ReturnedSlots
<1>2. ASSUME NEW s \in Sessions, ReleaseSlot(s)
      PROVE  SlotsOf(p, n)'
  <2>1. /\ sess[s].pc = "unslot" /\ UNCHANGED call
        /\ slots' = [slots EXCEPT ![sess[s].pod] = Release(@, TenantOf[sess[s].thread])]
    BY <1>2 DEF ReleaseSlot
  <2>2. PICK p0 \in Pods, n0 \in Tenants : p0 = sess[s].pod /\ n0 = TenantOf[sess[s].thread]
    BY <1>a, <2>1, ConstantsAssumption DEF SessionsTyped
  <2>3. sess'[s].pc = "shutdown" /\ \A r \in Sessions \ {s} : sess'[r] = sess[r]
    BY <1>a, <1>2 DEF ReleaseSlot, SessionsTyped, SessionType
  <2>4. \A q, m : \A c \in Callers : HoldsSlot(c, q, m)' <=> HoldsSlot(c, q, m)
    BY <2>1 DEF HoldsSlot
  <2>5. \A q, m : \A r \in Sessions : OccupiesSlot(r, q, m)' <=> OccupiesSlot(r, q, m) /\ r # s
    BY <2>3 DEF OccupiesSlot, Slotted
  <2>6. s \in SlotHolders(p0, n0) /\ SlotHolders(p0, n0)' = SlotHolders(p0, n0) \ {s}
    <3>1. OccupiesSlot(s, p0, n0)
      BY <2>1, <2>2 DEF OccupiesSlot, Slotted
    <3>2. \A c \in Callers : c # s /\ (HoldsSlot(c, p0, n0)' <=> HoldsSlot(c, p0, n0))
      BY <2>4, ConstantsAssumption
    <3>3. \A r \in Sessions : OccupiesSlot(r, p0, n0)' <=> OccupiesSlot(r, p0, n0) /\ r # s
      BY <2>5
    <3>4. QED BY <3>1, <3>2, <3>3, HoldersAre
  <2>7. ~(p = p0 /\ n = n0) => SlotHolders(p, n)' = SlotHolders(p, n)
    <3>1. ASSUME ~(p = p0 /\ n = n0)
          PROVE  ~OccupiesSlot(s, p, n)
      BY <2>2, <3>1 DEF OccupiesSlot
    <3>2. ASSUME ~(p = p0 /\ n = n0)
          PROVE  \A r \in Sessions : OccupiesSlot(r, p, n)' <=> OccupiesSlot(r, p, n)
      BY <2>5, <3>1, <3>2
    <3>3. \A c \in Callers : HoldsSlot(c, p, n)' <=> HoldsSlot(c, p, n)
      BY <2>4
    <3>4. QED BY <3>2, <3>3, HoldersAre
  <2>8. slots' = [slots EXCEPT ![p0] = Release(slots[p0], n0)]
    BY <2>1, <2>2
  <2>9. QED BY <2>2, <2>6, <2>7, <2>8, ReturnedSlots
<1>3. QED BY <1>1, <1>2

\* A process that ends gives all its slots back with its memory.
LEMMA ProcessEndsSlots ==
  ASSUME TypeOK, SlotInv, NEW p0 \in Pods, NEW how, ProcessEnds(p0, how)
  PROVE  SlotInv'
<1> SUFFICES ASSUME MaxTurns > 0, NEW p \in Pods, NEW n \in Tenants
             PROVE  SlotsOf(p, n)'
  BY DEF SlotInv
<1>a. CallsTyped /\ SessionsTyped /\ StoreTyped /\ PodsTyped
  BY TypeParts
<1>1. call' = [c \in Callers |-> IF call[c].pod = p0 THEN IdleCall ELSE call[c]]
  BY ConstantsAssumption DEF ProcessEnds
<1>2. sess' = [s \in Sessions |-> IF sess[s].pod = p0 THEN ClosedSession ELSE sess[s]]
  BY DEF ProcessEnds
<1>3. IdleCall.pc = "idle" /\ ClosedSession.pc = "closed"
  BY DEF IdleCall, ClosedSession
<1>4. CASE p = p0
  <2>1. \A c \in Callers : ~HoldsSlot(c, p, n)'
    BY <1>1, <1>3, <1>4 DEF HoldsSlot
  <2>2. \A s \in Sessions : ~OccupiesSlot(s, p, n)'
    BY <1>2, <1>3, <1>4 DEF OccupiesSlot, Slotted
  <2>3. SlotHolders(p, n)' = {}
    BY <2>1, <2>2, HoldersAre
  <2>4. slots'[p][n] = 0
    BY <1>a, <1>4 DEF ProcessEnds, PodsTyped
  <2>5. IsFiniteSet({}) /\ Cardinality({}) = 0
    BY FS_EmptySet
  <2>6. QED BY <2>3, <2>4, <2>5, ConstantsAssumption DEF SlotsOf
<1>5. CASE p # p0
  <2>1. \A c \in Callers : HoldsSlot(c, p, n)' <=> HoldsSlot(c, p, n)
    BY <1>1, <1>3, <1>5 DEF HoldsSlot
  <2>2. \A s \in Sessions : OccupiesSlot(s, p, n)' <=> OccupiesSlot(s, p, n)
    BY <1>2, <1>3, <1>5 DEF OccupiesSlot, Slotted
  <2>3. SlotHolders(p, n)' = SlotHolders(p, n)
    BY <2>1, <2>2, HoldersAre
  <2>4. slots'[p][n] = slots[p][n]
    BY <1>a, <1>5 DEF ProcessEnds, PodsTyped
  <2>5. QED BY <2>3, <2>4, SlotsKept DEF SlotInv
<1>6. QED BY <1>4, <1>5

\* Every step but these is steady.
LEMMA StepKinds ==
  ASSUME TypeOK, [Next]_vars
  PROVE  \/ Steady
         \/ \E c \in Callers : \/ Claim(c) /\ ~UNCHANGED slots
                               \/ Claim(c) /\ UNCHANGED slots /\ call'[c].pc = "start"
                               \/ StartLive(c)
                               \/ StartLiveFails(c)
         \/ \E s \in Sessions : ReleaseSlot(s)
         \/ \E p \in Pods, how \in PodStates : ProcessEnds(p, how)
<1>1. CASE UNCHANGED vars
  BY <1>1, SteadyParts DEF vars, Steady
<1>2. CASE ClientStep \/ \E p \in Pods, t \in Threads : Sweep(p, t)
  BY <1>2, ClientSteady
<1>3. ASSUME NEW c \in Callers, CallerStep(c) \/ StartLiveFails(c)
      PROVE  Steady \/ (Claim(c) /\ ~UNCHANGED slots) \/ (Claim(c) /\ UNCHANGED slots /\ call'[c].pc = "start")
             \/ StartLive(c) \/ StartLiveFails(c)
  BY <1>3, CallerSteady DEF CallerStep
<1>4. CASE \E f \in Feeders : FeedStep(f)
  BY <1>4, FeedSteady
<1>5. ASSUME NEW s \in Sessions,
             \/ PumpStep(s) \/ ReleaseStep(s)
             \/ TurnCompletes(s) \/ InterruptArrives(s) \/ CoreDies(s) \/ Heartbeat(s)
      PROVE  Steady \/ ReleaseSlot(s)
  BY <1>5, SessionSteady DEF ReleaseStep
<1>6. ASSUME NEW p \in Pods, Recover(p) \/ DrainStart(p) \/ DrainStep(p) \/ Crash(p) \/ Restart(p)
      PROVE  Steady \/ \E how \in PodStates : ProcessEnds(p, how)
  BY <1>6, ProcessSteady DEF DrainStep, Exit, Crash, PodStates
<1>7. ASSUME NEW t \in Threads, HeartbeatAges(t)
      PROVE  Steady
  BY <1>7, SteadyParts DEF HeartbeatAges, Steady
<1>8. QED BY <1>1, <1>2, <1>3, <1>4, <1>5, <1>6, <1>7 DEF Next

\* Without a limit nothing is counted.
LEMMA UnlimitedClaim ==
  ASSUME TypeOK, MaxTurns > 0, NEW c \in Callers, Claim(c), UNCHANGED slots
  PROVE  call'[c].pc # "start"
<1>a. CallsTyped /\ PodsTyped
  BY TypeParts
<1>1. call[c].pod \in Pods /\ TenantOf[call[c].thread] \in Tenants
  BY <1>a, ConstantsAssumption DEF Claim, CallsTyped
<1>2. slots[call[c].pod] \in [Tenants -> Nat] /\ MaxTurns \in Nat
  BY <1>a, <1>1, ConstantsAssumption DEF PodsTyped
<1>3. slots[call[c].pod][TenantOf[call[c].thread]] \in Nat
  BY <1>1, <1>2
<1>4. slots' # [slots EXCEPT ![call[c].pod] = Acquire(@, TenantOf[call[c].thread])]
  BY <1>a, <1>1, <1>2, <1>3 DEF Acquire, PodsTyped
<1>5. Return(c) \/ Goto(c, "unclaim")
  BY <1>4 DEF Claim
<1>6. QED BY <1>a, <1>5 DEF Return, Goto, IdleCall, CallsTyped, CallType

\* Every step keeps the count.
LEMMA NextSlots == TypeOK /\ SlotInv /\ [Next]_vars => SlotInv'
<1> SUFFICES ASSUME TypeOK, SlotInv, [Next]_vars, MaxTurns > 0
             PROVE  SlotInv'
  BY DEF SlotInv
<1>1. ASSUME NEW c \in Callers, Claim(c), ~UNCHANGED slots
      PROVE  SlotInv'
  BY <1>1, ClaimSlots DEF SlotInv
<1>2. ASSUME NEW c \in Callers, StartLive(c)
      PROVE  SlotInv'
  BY <1>2, StartSlots DEF SlotInv
<1>3. QED
  BY <1>1, <1>2, StepKinds, SteadySlots, UnlimitedClaim, ReleaseSlots, ProcessEndsSlots

\* No slot is taken when the engine starts.
LEMMA InitSlots == Init => SlotInv
<1> SUFFICES ASSUME Init, MaxTurns > 0, NEW p \in Pods, NEW n \in Tenants
             PROVE  SlotsOf(p, n)
  BY DEF SlotInv
<1>1. SlotHolders(p, n) = {}
  BY DEF Init, SlotHolders, IdleCall, ClosedSession
<1>2. IsFiniteSet({}) /\ Cardinality({}) = 0
  BY FS_EmptySet
<1>3. slots[p][n] = 0
  BY DEF Init
<1>4. QED BY <1>1, <1>2, <1>3, ConstantsAssumption DEF SlotsOf

\* The limiter's counter of a tenant on a pod is exactly the number of
\* goroutines there that will give a slot back, and never above the limit:
\* whatever crashes, drains, fails or is deleted, no slot leaks and none is
\* returned twice.
THEOREM SlotsAreCounted == Spec => []SlotAccounting
<1>1. Init => TypeOK /\ SlotInv
  BY InitType, InitSlots
<1>2. TypeOK /\ SlotInv /\ [Next]_vars => (TypeOK /\ SlotInv)'
  BY NextType, NextSlots
<1>3. TypeOK /\ SlotInv => SlotAccounting
  BY DEF SlotInv, SlotsOf, SlotAccounting
<1>4. QED BY <1>1, <1>2, <1>3, PTL DEF Spec

-----------------------------------------------------------------------------
(* Open sessions and Engine.live.                                           *)

\* Steady steps keep open sessions in Engine.live.
LEMMA SteadyOpen ==
  ASSUME OpenSessionIsLive, Steady
  PROVE  OpenSessionIsLive'
BY DEF OpenSessionIsLive, Steady, LiveStay

\* startLive replaces no other open session: the caller alone held the thread.
LEMMA StartOpen ==
  ASSUME TypeOK, ClaimInv, OpenSessionIsLive, NEW c \in Callers, StartLive(c)
  PROVE  OpenSessionIsLive'
<1>a. CallsTyped /\ SessionsTyped /\ StoreTyped /\ PodsTyped
  BY TypeParts
<1>1. PICK p \in Pods, t \in Threads : p = call[c].pod /\ t = call[c].thread
  BY <1>a DEF StartLive, CallsTyped
<1>2. PICK s \in Sessions :
        /\ sess' = [sess EXCEPT ![s] = [ClosedSession EXCEPT !.pc = "open", !.thread = t, !.pod = p]]
        /\ live' = [live EXCEPT ![p][t] = s]
  BY <1>1 DEF StartLive
<1>3. /\ sess'[s].thread = t /\ sess'[s].pod = p
      /\ \A r \in Sessions \ {s} : sess'[r] = sess[r]
  BY <1>a, <1>2 DEF SessionsTyped, ClosedSession
<1>4. live'[p][t] = s
  BY <1>a, <1>2 DEF PodsTyped
<1>5. CallHolds(c, t)
  BY <1>1 DEF StartLive, CallHolds
<1>6. ASSUME NEW r \in Sessions \ {s}, sess'[r].pc = "open"
      PROVE  live'[sess'[r].pod][sess'[r].thread] = r
  <2>1. sess[r].pc = "open" /\ sess[r].pod \in Pods /\ sess[r].thread \in Threads
    BY <1>a, <1>3, <1>6 DEF SessionsTyped
  <2>2. sess[r].thread # t
    BY <1>5, <2>1 DEF ClaimInv, OneHolderPerThread, SessionHolds
  <2>3. live'[sess[r].pod][sess[r].thread] = live[sess[r].pod][sess[r].thread]
    BY <1>a, <1>2, <2>1, <2>2 DEF PodsTyped
  <2>4. QED BY <1>3, <1>6, <2>1, <2>3 DEF OpenSessionIsLive
<1>7. QED BY <1>3, <1>4, <1>6 DEF OpenSessionIsLive

\* Every step keeps open sessions in Engine.live.
LEMMA NextOpen ==
  ASSUME TypeOK, ClaimInv, OpenSessionIsLive, [Next]_vars
  PROVE  OpenSessionIsLive'
<1>a. CallsTyped /\ SessionsTyped /\ StoreTyped /\ PodsTyped
  BY TypeParts
<1>1. CASE Steady
  BY <1>1, SteadyOpen
<1>2. ASSUME NEW c \in Callers, Claim(c) \/ StartLiveFails(c)
      PROVE  OpenSessionIsLive'
  BY <1>2 DEF Claim, StartLiveFails, OpenSessionIsLive
<1>3. ASSUME NEW s \in Sessions, ReleaseSlot(s)
      PROVE  OpenSessionIsLive'
  <2>1. sess'[s].pc = "shutdown" /\ \A r \in Sessions \ {s} : sess'[r] = sess[r]
    BY <1>a, <1>3 DEF ReleaseSlot, SessionsTyped, SessionType
  <2>2. UNCHANGED live
    BY <1>3 DEF ReleaseSlot
  <2>3. QED BY <2>1, <2>2 DEF OpenSessionIsLive
<1>4. ASSUME NEW p \in Pods, NEW how \in PodStates, ProcessEnds(p, how)
      PROVE  OpenSessionIsLive'
  <2>1. \A s \in Sessions : sess'[s] = IF sess[s].pod = p THEN ClosedSession ELSE sess[s]
    BY <1>4 DEF ProcessEnds
  <2>2. \A q \in Pods \ {p} : live'[q] = live[q]
    BY <1>a, <1>4 DEF ProcessEnds, PodsTyped
  <2>3. ASSUME NEW s \in Sessions, sess'[s].pc = "open"
        PROVE  sess[s].pc = "open" /\ sess'[s] = sess[s] /\ sess[s].pod \in Pods \ {p}
    BY <1>a, <2>1, <2>3 DEF SessionsTyped, ClosedSession
  <2>4. QED BY <2>2, <2>3 DEF OpenSessionIsLive
<1>5. QED BY <1>1, <1>2, <1>3, <1>4, StartOpen, StepKinds

\* While holders keep their heartbeats fresh, the session a pod would steer,
\* interrupt or drain for a thread is the open one: startLive never hides an
\* open session behind a second one, and release() removes only its own.
THEOREM OpenSessionsAreReachable ==
  ASSUME HeartbeatsTimely
  PROVE  Spec => []OpenSessionIsLive
<1>1. Init => OpenSessionIsLive
  BY DEF Init, OpenSessionIsLive, ClosedSession
<1>2. OpenSessionIsLive /\ TypeOK /\ ClaimInv /\ [Next]_vars => OpenSessionIsLive'
  BY NextOpen
<1>3. QED BY <1>1, <1>2, ClaimInvariant, PTL DEF Spec

-----------------------------------------------------------------------------
(* Rows of a queue, and snapshots of it.                                    *)

\* Rows q of the queue of thread t were sent, each for t and each once.
QueueOf(t, q, sentRows) ==
  \A k \in DOMAIN q : /\ q[k] \in sentRows /\ ThreadOf[q[k]] = t
                      /\ \A j \in 1..(k - 1) : q[j] # q[k]

\* A row of q stands before the m-th row of the snapshot, or it is in `seen'.
Passed(x, todo, m, seen) == x \in seen \/ \E n \in DOMAIN todo : n < m /\ todo[n] = x

\* A snapshot keeps the order of the queue, but for rows in `seen'.
InOrder(todo, q, seen) ==
  \A m \in DOMAIN todo, k \in DOMAIN q :
    q[k] = todo[m] => \A j \in 1..(k - 1) : Passed(q[j], todo, m, seen)

\* Sequence w is q with some rows left out.
PartOf(w, q) ==
  /\ \A k \in DOMAIN w : \E i \in DOMAIN q : q[i] = w[k]
  /\ \A k \in DOMAIN w : \A j \in 1..(k - 1) :
       \E i \in DOMAIN q : \E h \in 1..(i - 1) : q[i] = w[k] /\ q[h] = w[j]

\* A snapshot of the queue itself.
LEMMA InOrderSame ==
  ASSUME NEW q \in Seq(Rows), NEW t, NEW r, NEW seen, QueueOf(t, q, r)
  PROVE  InOrder(q, q, seen)
<1> SUFFICES ASSUME NEW m \in DOMAIN q, NEW k \in DOMAIN q, q[k] = q[m], NEW j \in 1..(k - 1)
             PROVE  Passed(q[j], q, m, seen)
  BY DEF InOrder
<1>1. m \in Nat /\ k \in Nat /\ DOMAIN q = 1..Len(q) /\ Len(q) \in Nat
  OBVIOUS
<1>2. k = m
  BY <1>1 DEF QueueOf
<1>3. j \in DOMAIN q /\ j < m
  BY <1>1, <1>2
<1>4. QED BY <1>3 DEF Passed

\* What has been seen grows.
LEMMA InOrderMore ==
  ASSUME NEW todo, NEW q, NEW seen, NEW more, InOrder(todo, q, seen), seen \subseteq more
  PROVE  InOrder(todo, q, more)
BY DEF InOrder, Passed

\* Rows appended to the queue are not in an older snapshot.
LEMMA InOrderAppend ==
  ASSUME NEW todo, NEW q \in Seq(Rows), NEW x \in Rows, NEW seen, InOrder(todo, q, seen),
         \A m \in DOMAIN todo : todo[m] # x
  PROVE  InOrder(todo, Append(q, x), seen)
<1> DEFINE a == Append(q, x)
<1>1. /\ DOMAIN a = 1..(Len(q) + 1) /\ DOMAIN q = 1..Len(q) /\ Len(q) \in Nat
      /\ a[Len(q) + 1] = x
      /\ \A k \in 1..Len(q) : a[k] = q[k]
  OBVIOUS
<1> HIDE DEF a
<1>2. SUFFICES ASSUME NEW m \in DOMAIN todo, NEW k \in DOMAIN a, a[k] = todo[m], NEW j \in 1..(k - 1)
               PROVE  Passed(a[j], todo, m, seen)
  BY DEF InOrder, a
<1>3. k \in 1..Len(q) /\ j \in 1..Len(q)
  BY <1>1, <1>2
<1>4. q[k] = todo[m] /\ a[j] = q[j]
  BY <1>1, <1>2, <1>3
<1>5. QED BY <1>1, <1>2, <1>3, <1>4 DEF InOrder

\* Rows are left out of the queue.
LEMMA InOrderPart ==
  ASSUME NEW todo, NEW q, NEW w, NEW seen, InOrder(todo, q, seen), PartOf(w, q)
  PROVE  InOrder(todo, w, seen)
BY DEF InOrder, PartOf

\* The first row of the snapshot has been dealt with.
LEMMA InOrderTail ==
  ASSUME NEW todo \in Seq(Rows), todo # <<>>, NEW q, NEW seen, InOrder(todo, q, seen),
         Head(todo) \in seen
  PROVE  InOrder(Tail(todo), q, seen)
<1> DEFINE a == Tail(todo)
           n == Len(todo)
<1>1. /\ DOMAIN a = 1..(n - 1) /\ DOMAIN todo = 1..n /\ n \in Nat \ {0}
      /\ todo[1] = Head(todo)
      /\ \A m \in 1..(n - 1) : a[m] = todo[m + 1]
  OBVIOUS
<1> HIDE DEF a, n
<1>2. SUFFICES ASSUME NEW m \in DOMAIN a, NEW k \in DOMAIN q, q[k] = a[m], NEW j \in 1..(k - 1)
               PROVE  Passed(q[j], a, m, seen)
  BY DEF InOrder, a
<1>3. m \in Nat /\ m + 1 \in DOMAIN todo /\ q[k] = todo[m + 1]
  BY <1>1, <1>2
<1>4. Passed(q[j], todo, m + 1, seen)
  BY <1>2, <1>3 DEF InOrder
<1>5. CASE q[j] \in seen
  BY <1>5 DEF Passed
<1>6. ASSUME NEW i \in DOMAIN todo, i < m + 1, todo[i] = q[j]
      PROVE  Passed(q[j], a, m, seen)
  <2>1. CASE i = 1
    BY <1>1, <1>6, <2>1 DEF Passed
  <2>2. CASE i # 1
    <3>1. i - 1 \in DOMAIN a /\ i - 1 < m /\ a[i - 1] = todo[i]
      BY <1>1, <1>3, <1>6, <2>2
    <3>2. QED BY <1>6, <3>1 DEF Passed
  <2>3. QED BY <2>1, <2>2
<1>7. QED BY <1>4, <1>5, <1>6 DEF Passed

\* A queue with rows left out, and one with a new row.
LEMMA QueueOfPart ==
  ASSUME NEW t, NEW q, NEW w, NEW r, QueueOf(t, q, r), PartOf(w, q)
  PROVE  QueueOf(t, w, r)
BY DEF QueueOf, PartOf

LEMMA QueueOfAppend ==
  ASSUME NEW t, NEW q \in Seq(Rows), NEW x \in Rows, NEW r, QueueOf(t, q, r),
         x \notin r, ThreadOf[x] = t
  PROVE  QueueOf(t, Append(q, x), r \cup {x})
<1> DEFINE a == Append(q, x)
<1>1. /\ DOMAIN a = 1..(Len(q) + 1) /\ DOMAIN q = 1..Len(q) /\ Len(q) \in Nat
      /\ a[Len(q) + 1] = x
      /\ \A k \in 1..Len(q) : a[k] = q[k]
  OBVIOUS
<1> HIDE DEF a
<1>2. \A k \in 1..Len(q) : q[k] \in r /\ ThreadOf[q[k]] = t /\ \A j \in 1..(k - 1) : q[j] # q[k]
  BY <1>1 DEF QueueOf
<1>3. SUFFICES ASSUME NEW k \in DOMAIN a
               PROVE  /\ a[k] \in r \cup {x} /\ ThreadOf[a[k]] = t
                      /\ \A j \in 1..(k - 1) : a[j] # a[k]
  BY DEF QueueOf, a
<1>4. CASE k \in 1..Len(q)
  <2>1. \A j \in 1..(k - 1) : j \in 1..Len(q)
    BY <1>1, <1>4
  <2>2. QED BY <1>1, <1>2, <1>4, <2>1
<1>5. CASE k = Len(q) + 1
  <2>1. \A j \in 1..(k - 1) : j \in 1..Len(q)
    BY <1>1, <1>5
  <2>2. QED BY <1>1, <1>2, <1>5, <2>1
<1>6. QED BY <1>1, <1>3, <1>4, <1>5

\* Admitting or deleting one row leaves the others, in their order.
LEMMA WithoutRow ==
  ASSUME StoreTyped, NEW t \in Threads, NEW r
  PROVE  /\ PartOf(Without(t, r), queue[t])
         /\ \A k \in DOMAIN queue[t] : queue[t][k] # r =>
              \E i \in DOMAIN Without(t, r) : Without(t, r)[i] = queue[t][k]
<1> DEFINE q == queue[t]
           at == {k \in DOMAIN q : q[k] = r}
           k0 == CHOOSE k \in at : TRUE
           n == Len(q)
           a == SubSeq(q, 1, k0 - 1)
           b == SubSeq(q, k0 + 1, n)
           w == a \o b
           from(i) == IF i < k0 THEN i ELSE i + 1
<1>1. q \in Seq(Rows) /\ n \in Nat /\ DOMAIN q = 1..n
  BY DEF StoreTyped
<1>2. CASE at = {}
  <2>1. Without(t, r) = q
    BY <1>2 DEF Without
  <2>2. PartOf(q, q)
    <3> HIDE DEF q
    <3>1. QED BY DEF PartOf
  <2>3. QED BY <2>1, <2>2
<1>3. CASE at # {}
  <2>1. Without(t, r) = w
    BY <1>3 DEF Without
  <2>2. k0 \in 1..n /\ q[k0] = r
    BY <1>1, <1>3
  <2> HIDE DEF q, n, k0, at
  <2>3. /\ a \in Seq(Rows) /\ Len(a) = k0 - 1
        /\ \A i \in 1..(k0 - 1) : a[i] = q[i]
    BY <1>1, <2>2
  <2>4. /\ b \in Seq(Rows) /\ Len(b) = n - k0
        /\ \A i \in 1..(n - k0) : b[i] = q[i + k0]
    BY <1>1, <2>2
  <2> HIDE DEF a, b
  <2>5. /\ DOMAIN w = 1..(n - 1)
        /\ \A i \in 1..(n - 1) : w[i] = q[from(i)] /\ from(i) \in 1..n
    <3>1. /\ w \in Seq(Rows) /\ Len(w) = n - 1
          /\ \A i \in 1..(n - 1) : w[i] = IF i <= k0 - 1 THEN a[i] ELSE b[i - (k0 - 1)]
      BY <1>1, <2>2, <2>3, <2>4, ConcatProperties
    <3> HIDE DEF w
    <3>2. ASSUME NEW i \in 1..(n - 1)
          PROVE  w[i] = q[from(i)] /\ from(i) \in 1..n
      <4>1. CASE i < k0
        BY <1>1, <2>2, <2>3, <3>1, <4>1
      <4>2. CASE i >= k0
        <5>1. i - (k0 - 1) \in 1..(n - k0) /\ (i - (k0 - 1)) + k0 = i + 1
          BY <1>1, <2>2, <4>2
        <5>2. b[i - (k0 - 1)] = q[i + 1]
          BY <2>4, <5>1
        <5>3. QED BY <1>1, <2>2, <3>1, <4>2, <5>2
      <4>3. QED BY <1>1, <2>2, <4>1, <4>2
    <3>3. QED BY <3>1, <3>2
  <2> HIDE DEF w
  <2>6. \A k \in DOMAIN w : \E i \in DOMAIN q : q[i] = w[k]
    BY <1>1, <2>5
  <2>7. ASSUME NEW k \in DOMAIN w, NEW j \in 1..(k - 1)
        PROVE  \E i \in DOMAIN q : \E h \in 1..(i - 1) : q[i] = w[k] /\ q[h] = w[j]
    <3>1. j \in 1..(n - 1) /\ k \in 1..(n - 1) /\ j < k
      BY <1>1, <2>5, <2>7
    <3>2. from(j) \in 1..(from(k) - 1) /\ from(k) \in DOMAIN q
      BY <1>1, <2>2, <2>5, <3>1
    <3>3. QED BY <2>5, <3>1, <3>2
  <2>8. ASSUME NEW k \in DOMAIN q, q[k] # r
        PROVE  \E i \in DOMAIN w : w[i] = q[k]
    <3>1. k # k0 /\ k \in 1..n
      BY <1>1, <2>2, <2>8
    <3>2. CASE k < k0
      BY <1>1, <2>2, <2>5, <3>1, <3>2
    <3>3. CASE k > k0
      <4>1. k - 1 \in 1..(n - 1) /\ from(k - 1) = k
        BY <1>1, <2>2, <3>1, <3>3
      <4>2. QED BY <2>5, <4>1
    <3>4. QED BY <1>1, <2>2, <3>1, <3>2, <3>3
  <2>9. QED BY <2>1, <2>6, <2>7, <2>8 DEF PartOf, q
<1>4. QED BY <1>2, <1>3

-----------------------------------------------------------------------------
(* Every input is queued once, in its thread, and keeps its place.          *)

\* Rows that no first delivery has to wait for.
Seen == delivered \cup Poison \cup Interrupts

\* An input on its way into the queue is for its thread, new and no one else's.
Aimed ==
  /\ \A c \in Callers : call[c].pc = "enqueue" =>
       call[c].thread = ThreadOf[call[c].input] /\ call[c].input \notin sent
  /\ \A c, d \in Callers : call[c].pc = "enqueue" /\ call[d].pc = "enqueue" /\ c # d =>
       call[c].input # call[d].input

\* AdmitInput follows a delivery.
Owed == \A f \in Feeders : feed[f].pc = "admit" => Head(feed[f].todo) \in delivered

Queued == \A t \in Threads : QueueOf(t, queue[t], sent)

\* The rows a feeder has read keep the order of what is still queued.
Snapshots ==
  \A f \in Feeders : /\ \A m \in DOMAIN feed[f].todo : feed[f].todo[m] \in sent
                     /\ \A t \in Threads : InOrder(feed[f].todo, queue[t], Seen)

InputInv == NoInputLost /\ Aimed /\ Owed /\ Queued /\ Snapshots

StayDeleted == \A t \in Threads : thr[t].status = "deleted" => thr'[t].status = "deleted"

NoNewInput == \A c \in Callers : call'[c].pc = "enqueue" => call'[c] = call[c]

\* Snapshots are kept or dropped, and no delivery is new.
FeedsStay ==
  \A f \in Feeders :
    /\ feed'[f].todo = feed[f].todo \/ feed'[f].todo = <<>>
    /\ feed'[f].pc = "admit" => feed[f].pc = "admit" /\ feed'[f].todo = feed[f].todo

\* A step that has nothing to do with the queue.
Calm == StayDeleted /\ NoNewInput /\ FeedsStay /\ UNCHANGED <<queue, sent, delivered, admitted>>

\* A snapshot of nothing.
LEMMA InOrderEmpty ==
  ASSUME NEW q, NEW seen
  PROVE  InOrder(<<>>, q, seen) /\ InOrder(q, <<>>, seen)
BY DEF InOrder

\* Snapshots of the same queue, or of none.
LEMMA SnapshotsStay ==
  ASSUME Snapshots, FeedsStay, UNCHANGED queue, sent \subseteq sent', delivered \subseteq delivered'
  PROVE  Snapshots'
<1> SUFFICES ASSUME NEW f \in Feeders
             PROVE  /\ \A m \in DOMAIN feed'[f].todo : feed'[f].todo[m] \in sent'
                    /\ \A t \in Threads : InOrder(feed'[f].todo, queue'[t], Seen')
  BY DEF Snapshots
<1>1. CASE feed'[f].todo = feed[f].todo
  <2>1. Seen \subseteq Seen'
    BY DEF Seen
  <2>2. \A t \in Threads : InOrder(feed[f].todo, queue[t], Seen)
    BY DEF Snapshots
  <2>3. \A t \in Threads : InOrder(feed[f].todo, queue[t], Seen')
    BY <2>1, <2>2, InOrderMore
  <2>4. QED BY <1>1, <2>3 DEF Snapshots
<1>2. CASE feed'[f].todo = <<>>
  BY <1>2, InOrderEmpty
<1>3. QED BY <1>1, <1>2 DEF FeedsStay

\* Calm steps change nothing for the inputs.
LEMMA CalmInputs ==
  ASSUME InputInv, Calm
  PROVE  InputInv'
<1>1. NoInputLost'
  <2>1. \A i \in Inputs : i \in sent => ThreadOf[i] \in Threads
    BY ConstantsAssumption DEF Rows
  <2>2. QED BY <2>1 DEF InputInv, Calm, StayDeleted, NoInputLost
<1>2. Aimed'
  BY DEF InputInv, Calm, NoNewInput, Aimed
<1>3. Owed'
  BY DEF InputInv, Calm, FeedsStay, Owed
<1>4. Queued'
  BY DEF InputInv, Calm, Queued
<1>5. Snapshots'
  BY SnapshotsStay DEF InputInv, Calm
<1>6. QED BY <1>1, <1>2, <1>3, <1>4, <1>5 DEF InputInv

\* What a step that leaves the variables alone keeps.
LEMMA CalmParts ==
  /\ UNCHANGED thr => StayDeleted
  /\ UNCHANGED call => NoNewInput
  /\ UNCHANGED feed => FeedsStay
BY DEF StayDeleted, NoNewInput, FeedsStay

\* One thread's row changes, by a statement that leaves deleted rows alone.
LEMMA CalmRow ==
  ASSUME StoreTyped, NEW t \in Threads, NEW v, thr' = [thr EXCEPT ![t] = v],
         thr[t].status = "deleted" => v.status = "deleted"
  PROVE  StayDeleted
BY DEF StoreTyped, StayDeleted

\* None of the SQL statements brings a deleted row back.
LEMMA DeletedRow ==
  ASSUME NEW r, r.status = "deleted"
  PROVE  /\ \A to : ReleaseTurn(r, to) = r
         /\ MarkIdle(r) = r /\ MarkStale(r) = r /\ ~Claimable(r)
BY DEF ReleaseTurn, MarkIdle, MarkStale, Claimable

\* A caller that moves to another place than EnqueueInput.
LEMMA CalmCall ==
  ASSUME CallsTyped, NEW c \in Callers, NEW v, call' = [call EXCEPT ![c] = v], v.pc # "enqueue"
  PROVE  NoNewInput
BY DEF CallsTyped, NoNewInput

LEMMA CalmReturn ==
  ASSUME CallsTyped, NEW c \in Callers, Return(c)
  PROVE  NoNewInput
<1>1. call' = [call EXCEPT ![c] = IdleCall] /\ IdleCall.pc # "enqueue"
  BY DEF Return, IdleCall
<1>2. QED BY <1>1, CalmCall

\* A feeder that keeps or drops its snapshot.
LEMMA CalmFeed ==
  ASSUME CallsTyped, NEW f \in Feeders, NEW v, feed' = [feed EXCEPT ![f] = v],
         v.pc # "admit", v.todo = feed[f].todo \/ v.todo = <<>>
  PROVE  FeedsStay
BY DEF CallsTyped, FeedsStay

LEMMA CalmRead ==
  ASSUME CallsTyped, NEW f \in Feeders, feed' = [feed EXCEPT ![f].pc = "read"]
  PROVE  FeedsStay
<1> DEFINE v == [feed[f] EXCEPT !.pc = "read"]
<1>1. feed' = [feed EXCEPT ![f] = v] /\ v.pc # "admit" /\ v.todo = feed[f].todo
  BY DEF CallsTyped, FeedType
<1> HIDE DEF v
<1>2. QED BY <1>1, CalmFeed

\* The first half of dispatch().
LEMMA CalmDispatch ==
  ASSUME CallsTyped, NEW c \in Callers, NEW p, NEW t, NEW new, Dispatch(c, p, t, new)
  PROVE  NoNewInput /\ FeedsStay
<1>1. CASE Return(c) /\ UNCHANGED feed
  BY <1>1, CalmReturn, CalmParts
<1>2. ASSUME NEW pc \in {"feed", "claim"}, NEW s,
             call' = [call EXCEPT ![c] = [pc |-> pc, pod |-> p, thread |-> t,
                                          input |-> None, new |-> new, sess |-> s]]
      PROVE  NoNewInput
  <2> DEFINE v == [pc |-> pc, pod |-> p, thread |-> t, input |-> None, new |-> new, sess |-> s]
  <2>1. call' = [call EXCEPT ![c] = v] /\ v.pc # "enqueue"
    BY <1>2
  <2> HIDE DEF v
  <2>2. QED BY <2>1, CalmCall
<1>3. FeedsStay
  BY CalmRead, CalmParts DEF Dispatch, Feeders
<1>4. QED BY <1>1, <1>2, <1>3 DEF Dispatch

\* Leaving feed().
LEMMA CalmEndFeed ==
  ASSUME CallsTyped, NEW f \in Feeders, NEW any, EndFeed(f, any)
  PROVE  NoNewInput /\ FeedsStay
<1>1. IdleFeed.pc # "admit" /\ IdleFeed.todo = <<>>
  BY DEF IdleFeed
<1>2. FeedsStay
  BY <1>1, CalmFeed DEF EndFeed
<1>3. NoNewInput
  BY CalmReturn, CalmParts DEF EndFeed
<1>4. QED BY <1>2, <1>3

\* EnqueueInput, or the queueing of an interrupt: one new row, at the end.
LEMMA RowSent ==
  ASSUME TypeOK, InputInv, NEW r \in Rows, r \notin sent, sent' = sent \cup {r},
         \/ queue' = [queue EXCEPT ![ThreadOf[r]] = Append(@, r)]
         \/ UNCHANGED queue /\ r \notin Inputs,
         UNCHANGED <<thr, delivered, admitted>>, FeedsStay, Aimed'
  PROVE  InputInv'
<1>a. StoreTyped /\ CallsTyped
  BY TypeParts
<1>b. \A x \in Rows : ThreadOf[x] \in Threads
  BY ConstantsAssumption
<1>1. \A t \in Threads : queue[t] \in Seq(Rows)
  BY <1>a DEF StoreTyped
<1>2. \A t \in Threads : queue'[t] = queue[t] \/ (queue'[t] = Append(queue[t], r) /\ ThreadOf[r] = t)
  BY <1>a, <1>b DEF StoreTyped
<1>3. Owed'
  BY DEF InputInv, FeedsStay, Owed
<1>4. Queued'
  <2> SUFFICES ASSUME NEW t \in Threads PROVE QueueOf(t, queue'[t], sent')
    BY DEF Queued
  <2>1. QueueOf(t, queue[t], sent)
    BY DEF InputInv, Queued
  <2>2. CASE queue'[t] = queue[t]
    BY <2>1, <2>2 DEF QueueOf
  <2>3. CASE queue'[t] = Append(queue[t], r) /\ ThreadOf[r] = t
    BY <1>1, <2>1, <2>3, QueueOfAppend
  <2>4. QED BY <1>2, <2>2, <2>3
<1>5. Snapshots'
  <2> SUFFICES ASSUME NEW f \in Feeders
               PROVE  /\ \A m \in DOMAIN feed'[f].todo : feed'[f].todo[m] \in sent'
                      /\ \A t \in Threads : InOrder(feed'[f].todo, queue'[t], Seen')
    BY DEF Snapshots
  <2>1. CASE feed'[f].todo = <<>>
    BY <2>1, InOrderEmpty
  <2>2. CASE feed'[f].todo = feed[f].todo
    <3>1. /\ \A m \in DOMAIN feed[f].todo : feed[f].todo[m] \in sent
          /\ \A t \in Threads : InOrder(feed[f].todo, queue[t], Seen)
      BY DEF InputInv, Snapshots
    <3>2. Seen' = Seen
      BY DEF Seen
    <3>3. \A m \in DOMAIN feed[f].todo : feed[f].todo[m] # r
      BY <3>1
    <3>4. ASSUME NEW t \in Threads
          PROVE  InOrder(feed[f].todo, Append(queue[t], r), Seen)
      BY <1>1, <3>1, <3>3, InOrderAppend
    <3>5. QED BY <1>2, <2>2, <3>1, <3>2, <3>4
  <2>3. QED BY <2>1, <2>2 DEF FeedsStay
<1>6. NoInputLost'
  <2> SUFFICES ASSUME NEW i \in Inputs, i \in sent'
               PROVE  \/ thr'[ThreadOf[i]].status = "deleted"
                      \/ \E k \in DOMAIN queue'[ThreadOf[i]] : queue'[ThreadOf[i]][k] = i
                      \/ i \in admitted' /\ i \in delivered'
    BY DEF NoInputLost
  <2>1. PICK t \in Threads : t = ThreadOf[i]
    BY <1>b DEF Rows
  <2>2. \A k \in DOMAIN queue[t] : k \in DOMAIN queue'[t] /\ queue'[t][k] = queue[t][k]
    <3>1. \A q \in Seq(Rows) : \A k \in DOMAIN q :
            k \in DOMAIN Append(q, r) /\ Append(q, r)[k] = q[k]
      OBVIOUS
    <3>2. queue[t] \in Seq(Rows) /\ (queue'[t] = queue[t] \/ queue'[t] = Append(queue[t], r))
      BY <1>1, <1>2
    <3>3. QED BY <3>1, <3>2
  <2>3. CASE i \in sent
    BY <2>1, <2>2, <2>3 DEF InputInv, NoInputLost
  <2>4. CASE i = r
    <3>1. queue'[t] = Append(queue[t], r)
      BY <1>a, <2>1, <2>4 DEF StoreTyped
    <3>2. Len(queue[t]) + 1 \in DOMAIN Append(queue[t], r) /\ Append(queue[t], r)[Len(queue[t]) + 1] = r
      BY <1>1
    <3>3. QED BY <2>1, <2>4, <3>1, <3>2
  <2>5. QED BY <2>3, <2>4
<1>7. QED BY <1>3, <1>4, <1>5, <1>6 DEF InputInv

\* The first row of a snapshot was dealt with: taken out of the queue, or left.
LEMMA RowTaken ==
  ASSUME TypeOK, InputInv, NEW f \in Feeders, feed[f].todo # <<>>,
         NEW r, r = Head(feed[f].todo), r \in Seen,
         feed'[f].todo = Tail(feed[f].todo), feed'[f].pc # "admit",
         \A g \in Feeders \ {f} : feed'[g] = feed[g],
         \/ UNCHANGED queue
         \/ /\ queue' = [queue EXCEPT ![ThreadOf[r]] = Without(ThreadOf[r], r)]
            /\ r \in Inputs => r \in admitted' /\ r \in delivered,
         admitted \subseteq admitted', UNCHANGED <<thr, call, sent, delivered>>
  PROVE  InputInv'
<1>a. StoreTyped /\ CallsTyped
  BY TypeParts
<1>b. \A x \in Rows : ThreadOf[x] \in Threads
  BY ConstantsAssumption
<1>c. feed[f].todo \in Seq(Rows) /\ r \in Rows
  BY <1>a DEF CallsTyped, FeedType
<1>1. Aimed' /\ Owed'
  BY DEF InputInv, Aimed, Owed
<1>2. \A t \in Threads : \/ queue'[t] = queue[t]
                         \/ queue'[t] = Without(t, r) /\ (r \in Inputs => r \in admitted' /\ r \in delivered)
  BY <1>a, <1>b, <1>c DEF StoreTyped
<1>3. \A t \in Threads :
        /\ PartOf(queue'[t], queue[t])
        /\ \A k \in DOMAIN queue[t] :
             \/ \E i \in DOMAIN queue'[t] : queue'[t][i] = queue[t][k]
             \/ queue[t][k] = r /\ (r \in Inputs => r \in admitted' /\ r \in delivered)
  <2>1. SUFFICES ASSUME NEW t \in Threads
                 PROVE  /\ PartOf(queue'[t], queue[t])
                        /\ \A k \in DOMAIN queue[t] :
                             \/ \E i \in DOMAIN queue'[t] : queue'[t][i] = queue[t][k]
                             \/ queue[t][k] = r /\ (r \in Inputs => r \in admitted' /\ r \in delivered)
    OBVIOUS
  <2>2. CASE queue'[t] = queue[t]
    <3>1. PartOf(queue[t], queue[t])
      BY DEF PartOf
    <3>2. QED BY <2>2, <3>1
  <2>3. CASE queue'[t] = Without(t, r) /\ (r \in Inputs => r \in admitted' /\ r \in delivered)
    BY <1>a, <2>3, WithoutRow
  <2>4. QED BY <1>2, <2>2, <2>3
<1>4. Queued'
  <2>1. ASSUME NEW t \in Threads PROVE QueueOf(t, queue'[t], sent)
    <3>1. QueueOf(t, queue[t], sent) /\ PartOf(queue'[t], queue[t])
      BY <1>3 DEF InputInv, Queued
    <3>2. QED BY <3>1, QueueOfPart
  <2>2. QED BY <2>1 DEF Queued
<1>5. Snapshots'
  <2> SUFFICES ASSUME NEW g \in Feeders
               PROVE  /\ \A m \in DOMAIN feed'[g].todo : feed'[g].todo[m] \in sent'
                      /\ \A t \in Threads : InOrder(feed'[g].todo, queue'[t], Seen')
    BY DEF Snapshots
  <2>1. Seen' = Seen
    BY DEF Seen
  <2>2. /\ \A m \in DOMAIN feed[g].todo : feed[g].todo[m] \in sent
        /\ \A t \in Threads : InOrder(feed[g].todo, queue[t], Seen)
    BY DEF InputInv, Snapshots
  <2>3. /\ \A m \in DOMAIN feed'[g].todo : feed'[g].todo[m] \in sent
        /\ \A t \in Threads : InOrder(feed'[g].todo, queue[t], Seen)
    <3>1. CASE g # f
      BY <2>2, <3>1
    <3>2. CASE g = f
      <4>1. \A m \in DOMAIN Tail(feed[f].todo) :
              m + 1 \in DOMAIN feed[f].todo /\ Tail(feed[f].todo)[m] = feed[f].todo[m + 1]
        BY <1>c
      <4>2. \A t \in Threads : InOrder(Tail(feed[f].todo), queue[t], Seen)
        BY <1>c, <2>2, <3>2, InOrderTail
      <4>3. \A m \in DOMAIN Tail(feed[f].todo) : Tail(feed[f].todo)[m] \in sent
        BY <2>2, <3>2, <4>1
      <4>4. feed'[g].todo = Tail(feed[f].todo)
        BY <3>2
      <4>5. QED BY <4>2, <4>3, <4>4
    <3>3. QED BY <3>1, <3>2
  <2>4. ASSUME NEW t \in Threads
        PROVE  InOrder(feed'[g].todo, queue'[t], Seen)
    BY <1>3, <2>3, InOrderPart
  <2>5. QED BY <2>1, <2>3, <2>4
<1>6. NoInputLost'
  <2> SUFFICES ASSUME NEW i \in Inputs, i \in sent
               PROVE  \/ thr[ThreadOf[i]].status = "deleted"
                      \/ \E k \in DOMAIN queue'[ThreadOf[i]] : queue'[ThreadOf[i]][k] = i
                      \/ i \in admitted' /\ i \in delivered
    BY DEF NoInputLost
  <2>1. PICK t \in Threads : t = ThreadOf[i]
    BY <1>b DEF Rows
  <2>2. CASE \E k \in DOMAIN queue[t] : queue[t][k] = i
    BY <1>3, <2>1, <2>2
  <2>3. CASE thr[t].status = "deleted" \/ (i \in admitted /\ i \in delivered)
    BY <2>1, <2>3
  <2>4. QED BY <2>1, <2>2, <2>3 DEF InputInv, NoInputLost
<1>7. QED BY <1>1, <1>4, <1>5, <1>6 DEF InputInv

\* Clients and the sweeper.
LEMMA ClientInputs ==
  ASSUME TypeOK, InputInv, ClientStep \/ \E p \in Pods, t \in Threads : Sweep(p, t)
  PROVE  InputInv'
<1>a. CallsTyped /\ SessionsTyped /\ StoreTyped /\ PodsTyped
  BY TypeParts
<1>b. \A x \in Rows : ThreadOf[x] \in Threads
  BY ConstantsAssumption
<1>1. ASSUME NEW p \in Pods, NEW c \in Callers, NEW i \in Inputs, BeginSubmit(c, p, i)
      PROVE  InputInv'
  <2>1. /\ call'[c].pc = "enqueue" /\ call'[c].thread = ThreadOf[i] /\ call'[c].input = i
        /\ i \notin sent /\ \A d \in Callers : call[d].input # i
        /\ \A d \in Callers \ {c} : call'[d] = call[d]
    BY <1>a, <1>1 DEF BeginSubmit, CallsTyped
  <2>2. UNCHANGED <<thr, queue, feed, sent, delivered, admitted>>
    BY <1>1 DEF BeginSubmit
  <2>3. Aimed'
    BY <2>1, <2>2 DEF InputInv, Aimed
  <2>4. NoInputLost' /\ Owed' /\ Queued'
    BY <2>2 DEF InputInv, NoInputLost, Owed, Queued
  <2>5. Snapshots'
    BY <2>2, SnapshotsStay, CalmParts DEF InputInv
  <2>6. QED BY <2>3, <2>4, <2>5 DEF InputInv
<1>2. ASSUME NEW p \in Pods, NEW c \in Callers, NEW t \in Threads, BeginResume(c, p, t)
      PROVE  InputInv'
  <2>1. StayDeleted
    BY <1>a, <1>2, CalmRow, DeletedRow DEF BeginResume
  <2>2. NoNewInput /\ FeedsStay
    BY <1>a, <1>2, CalmDispatch DEF BeginResume
  <2>3. QED BY <1>2, <2>1, <2>2, CalmInputs DEF BeginResume, Calm
<1>3. ASSUME NEW p \in Pods, NEW c \in Callers, NEW t \in Threads, BeginSweep(c, p, t)
      PROVE  InputInv'
  <2>1. NoNewInput /\ FeedsStay
    BY <1>a, <1>3, CalmDispatch DEF BeginSweep
  <2>2. QED BY <1>3, <2>1, CalmParts, CalmInputs DEF BeginSweep, Calm
<1>4. ASSUME NEW p \in Pods, NEW r \in Interrupts, Interrupt(p, r)
      PROVE  InputInv'
  <2>1. r \in Rows /\ r \notin Inputs
    BY ConstantsAssumption DEF Rows
  <2>2. /\ r \notin sent /\ sent' = sent \cup {r}
        /\ UNCHANGED <<thr, call, feed, delivered, admitted>>
        /\ queue' = [queue EXCEPT ![ThreadOf[r]] = Append(@, r)] \/ UNCHANGED queue
    BY <1>4 DEF Interrupt
  <2>3. Aimed'
    <3>1. \A c \in Callers : call[c].pc = "enqueue" => call[c].input # r
      BY <1>a, <2>1 DEF CallsTyped
    <3>2. QED BY <2>2, <3>1 DEF InputInv, Aimed
  <2>4. QED BY <2>1, <2>2, <2>3, CalmParts, RowSent
<1>5. ASSUME NEW t \in Deletes, DeleteThread(t)
      PROVE  InputInv'
  <2>0. t \in Threads
    BY ConstantsAssumption
  <2>1. /\ thr'[t].status = "deleted" /\ queue'[t] = <<>>
        /\ \A u \in Threads \ {t} : thr'[u] = thr[u] /\ queue'[u] = queue[u]
        /\ UNCHANGED <<call, feed, sent, delivered, admitted>>
    BY <1>a, <1>5, <2>0 DEF DeleteThread, StoreTyped, RowType
  <2>2. Aimed' /\ Owed'
    BY <2>1 DEF InputInv, Aimed, Owed
  <2>3. Queued'
    BY <2>1 DEF InputInv, Queued, QueueOf
  <2>4. Snapshots'
    <3>1. Seen' = Seen
      BY <2>1 DEF Seen
    <3>2. ASSUME NEW f \in Feeders, NEW u \in Threads
          PROVE  InOrder(feed[f].todo, queue'[u], Seen)
      BY <2>1, InOrderEmpty DEF InputInv, Snapshots
    <3>3. QED BY <2>1, <3>1, <3>2 DEF InputInv, Snapshots
  <2>5. NoInputLost'
    <3> SUFFICES ASSUME NEW i \in Inputs, i \in sent
                 PROVE  \/ thr'[ThreadOf[i]].status = "deleted"
                        \/ \E k \in DOMAIN queue'[ThreadOf[i]] : queue'[ThreadOf[i]][k] = i
                        \/ i \in admitted' /\ i \in delivered'
      BY <2>1 DEF NoInputLost
    <3>1. ThreadOf[i] \in Threads
      BY <1>b DEF Rows
    <3>2. QED BY <2>1, <3>1 DEF InputInv, NoInputLost
  <2>6. QED BY <2>2, <2>3, <2>4, <2>5 DEF InputInv
<1>6. QED BY <1>1, <1>2, <1>3, <1>4, <1>5 DEF ClientStep, Sweep

\* EnqueueInput and the second half of dispatch().
LEMMA CallerInputs ==
  ASSUME TypeOK, InputInv, NEW c \in Callers, CallerStep(c) \/ StartLiveFails(c)
  PROVE  InputInv'
<1>a. CallsTyped /\ SessionsTyped /\ StoreTyped /\ PodsTyped
  BY TypeParts
<1>b. call[c] \in CallType
  BY <1>a DEF CallsTyped
<1>c. ASSUME NEW pc \in {"start", "unclaim"}, Goto(c, pc)
      PROVE  NoNewInput
  <2> DEFINE v == [call[c] EXCEPT !.pc = pc]
  <2>1. call' = [call EXCEPT ![c] = v] /\ v.pc # "enqueue"
    BY <1>b, <1>c DEF Goto, CallType
  <2> HIDE DEF v
  <2>2. QED BY <1>a, <2>1, CalmCall
<1>1. CASE Enqueue(c)
  <2>1. CASE UNCHANGED <<queue, sent, feed>> /\ Return(c)
    BY <1>a, <1>1, <2>1, CalmReturn, CalmParts, CalmInputs DEF Enqueue, Calm
  <2>2. CASE /\ queue' = [queue EXCEPT ![call[c].thread] = Append(@, call[c].input)]
             /\ sent' = sent \cup {call[c].input}
             /\ Dispatch(c, call[c].pod, call[c].thread, call[c].new)
    <3>1. PICK r \in Inputs : r = call[c].input
      BY <1>a, <1>1 DEF Enqueue, CallsTyped
    <3>2. r \in Rows /\ r \notin sent /\ call[c].thread = ThreadOf[r] /\ call[c].pc = "enqueue"
      BY <1>1, <3>1 DEF Enqueue, InputInv, Aimed, Rows
    <3>3. NoNewInput /\ FeedsStay
      BY <1>a, <2>2, CalmDispatch
    <3>4. call'[c].pc # "enqueue"
      BY <1>a, <2>2 DEF Dispatch, Return, IdleCall, CallsTyped
    <3>5. \A d \in Callers : call'[d].pc = "enqueue" => d # c /\ call'[d] = call[d] /\ call[d].input # r
      BY <3>1, <3>2, <3>3, <3>4 DEF NoNewInput, InputInv, Aimed
    <3>6. Aimed'
      BY <2>2, <3>1, <3>5 DEF InputInv, Aimed
    <3>7. UNCHANGED <<thr, delivered, admitted>>
      BY <1>1 DEF Enqueue
    <3>8. QED BY <2>2, <3>1, <3>2, <3>3, <3>6, <3>7, RowSent
  <2>3. QED BY <1>1, <2>1, <2>2 DEF Enqueue
<1>2. CASE Claim(c)
  <2>1. NoNewInput
    BY <1>a, <1>2, <1>c, CalmReturn DEF Claim
  <2>2. StayDeleted
    <3>1. CASE UNCHANGED thr
      BY <3>1, CalmParts
    <3>2. CASE Claimable(thr[call[c].thread]) /\ thr' = [thr EXCEPT ![call[c].thread] = ClaimTurn(@, call[c].pod)]
      <4>1. call[c].thread \in Threads
        BY <1>a, <1>2 DEF Claim, CallsTyped
      <4>2. QED BY <1>a, <3>2, <4>1, CalmRow, DeletedRow
    <3>3. QED BY <1>2, <3>1, <3>2 DEF Claim
  <2>3. QED BY <1>2, <2>1, <2>2, CalmParts, CalmInputs DEF Claim, Calm
<1>3. CASE StartLive(c)
  <2>1. PICK s \in Sessions : call' = [call EXCEPT ![c].pc = "feed", ![c].sess = s]
    BY <1>3 DEF StartLive
  <2>2. NoNewInput
    <3> DEFINE v == [call[c] EXCEPT !.pc = "feed", !.sess = s]
    <3>1. call' = [call EXCEPT ![c] = v] /\ v.pc # "enqueue"
      BY <1>a, <1>b, <2>1 DEF CallsTyped, CallType
    <3> HIDE DEF v
    <3>2. QED BY <1>a, <3>1, CalmCall
  <2>3. FeedsStay
    BY <1>a, <1>3, CalmRead DEF StartLive, Feeders
  <2>4. QED BY <1>3, <2>2, <2>3, CalmParts, CalmInputs DEF StartLive, Calm
<1>4. CASE Unclaim(c)
  <2>1. StayDeleted
    <3>1. call[c].thread \in Threads
      BY <1>a, <1>4 DEF Unclaim, CallsTyped
    <3>2. QED BY <1>a, <1>4, <3>1, CalmRow, CalmParts, DeletedRow DEF Unclaim
  <2>2. NoNewInput
    BY <1>a, <1>4, CalmReturn DEF Unclaim
  <2>3. QED BY <1>4, <2>1, <2>2, CalmParts, CalmInputs DEF Unclaim, Calm
<1>5. CASE StartLiveFails(c)
  BY <1>5, <1>c, CalmParts, CalmInputs DEF StartLiveFails, Calm
<1>6. QED BY <1>1, <1>2, <1>3, <1>4, <1>5 DEF CallerStep

\* The feed loop.
LEMMA FeedInputs ==
  ASSUME TypeOK, InputInv, NEW f \in Feeders, FeedStep(f)
  PROVE  InputInv'
<1> DEFINE s == FedSession(f)
           h == Head(feed[f].todo)
<1>a. CallsTyped /\ SessionsTyped /\ StoreTyped /\ PodsTyped
  BY TypeParts
<1>b. feed[f].pc # "off" /\ feed[f] \in FeedType
  BY <1>a DEF FeedStep, FeedRead, FeedDone, FeedInterrupt, FeedSubmit, FeedAdmit, CallsTyped
<1>c. s \in Sessions
  BY <1>a, <1>b, FedSessionTyped
<1>d. ASSUME NEW any, EndFeed(f, any), UNCHANGED <<thr, queue, sent, delivered, admitted>>
      PROVE  InputInv'
  BY <1>a, <1>d, CalmEndFeed, CalmParts, CalmInputs DEF Calm
<1>e. ASSUME NEW v, feed' = [feed EXCEPT ![f] = v]
      PROVE  feed'[f] = v /\ \A g \in Feeders \ {f} : feed'[g] = feed[g]
  BY <1>a, <1>e DEF CallsTyped
<1>f. ASSUME feed' = [feed EXCEPT ![f].todo = Tail(@)], feed[f].pc = "submit"
      PROVE  /\ feed'[f].todo = Tail(feed[f].todo) /\ feed'[f].pc # "admit"
             /\ \A g \in Feeders \ {f} : feed'[g] = feed[g]
  BY <1>a, <1>f DEF CallsTyped, FeedType
<1>1. CASE FeedRead(f)
  <2>1. CASE EndFeed(f, FALSE)
    BY <1>d, <1>1, <2>1 DEF FeedRead
  <2>2. CASE /\ sess[s].pc # "closed"
             /\ feed' = [feed EXCEPT ![f].pc = "submit", ![f].todo = PendingInputs(sess[s].thread)]
             /\ UNCHANGED <<sess, live, call>>
    <3>1. PICK t \in Threads : t = sess[s].thread
      BY <1>a, <1>c, <2>2 DEF SessionsTyped
    <3>2. /\ feed'[f].todo = queue[t] /\ feed'[f].pc = "submit"
          /\ \A g \in Feeders \ {f} : feed'[g] = feed[g]
      BY <1>a, <2>2, <3>1 DEF CallsTyped, FeedType, PendingInputs
    <3>3. UNCHANGED <<thr, queue, sent, delivered, admitted>>
      BY <1>1 DEF FeedRead
    <3>4. NoInputLost' /\ Aimed' /\ Queued'
      BY <2>2, <3>3 DEF InputInv, NoInputLost, Aimed, Queued
    <3>5. Owed'
      BY <3>2, <3>3 DEF InputInv, Owed
    <3>6. Seen' = Seen
      BY <3>3 DEF Seen
    <3>7. ASSUME NEW u \in Threads
          PROVE  InOrder(queue[t], queue[u], Seen)
      <4>1. QueueOf(t, queue[t], sent) /\ QueueOf(u, queue[u], sent) /\ queue[t] \in Seq(Rows)
        BY <1>a DEF InputInv, Queued, StoreTyped
      <4>2. CASE t = u
        BY <4>1, <4>2, InOrderSame
      <4>3. CASE t # u
        BY <4>1, <4>3 DEF QueueOf, InOrder
      <4>4. QED BY <4>2, <4>3
    <3>8. \A m \in DOMAIN queue[t] : queue[t][m] \in sent
      BY DEF InputInv, Queued, QueueOf
    <3>9. Snapshots'
      BY <3>2, <3>3, <3>6, <3>7, <3>8 DEF InputInv, Snapshots
    <3>10. QED BY <3>4, <3>5, <3>9 DEF InputInv
  <2>3. QED BY <1>1, <2>1, <2>2 DEF FeedRead
<1>2. CASE FeedDone(f)
  BY <1>d, <1>2 DEF FeedDone
<1>3. CASE FeedInterrupt(f)
  <2>1. PICK r : r = h
    OBVIOUS
  <2>2. feed[f].todo # <<>> /\ r \in Interrupts /\ r \notin Inputs /\ r \in Seen
    BY <1>3, <2>1, ConstantsAssumption DEF FeedInterrupt, Seen
  <2>3. UNCHANGED queue \/ queue' = [queue EXCEPT ![ThreadOf[r]] = Without(ThreadOf[r], r)]
    BY <1>3, <2>1 DEF FeedInterrupt
  <2>4. UNCHANGED <<thr, call, sent, delivered, admitted>>
    BY <1>3 DEF FeedInterrupt
  <2>5. /\ feed'[f].todo = Tail(feed[f].todo) /\ feed'[f].pc # "admit"
        /\ \A g \in Feeders \ {f} : feed'[g] = feed[g]
    BY <1>f, <1>3 DEF FeedInterrupt
  <2>6. QED BY <2>1, <2>2, <2>3, <2>4, <2>5, RowTaken
<1>4. CASE FeedSubmit(f)
  <2>1. CASE EndFeed(f, feed[f].admitted) /\ UNCHANGED <<thr, delivered>>
    BY <1>d, <1>4, <2>1 DEF FeedSubmit
  <2>2. CASE /\ h \in Poison
             /\ feed' = [feed EXCEPT ![f].todo = Tail(@)]
             /\ UNCHANGED <<thr, sess, live, call, delivered>>
    <3>1. PICK r : r = h
      OBVIOUS
    <3>2. feed[f].todo # <<>> /\ r \in Seen /\ UNCHANGED <<queue, sent, admitted>>
      BY <1>4, <2>2, <3>1 DEF FeedSubmit, Seen
    <3>3. /\ feed'[f].todo = Tail(feed[f].todo) /\ feed'[f].pc # "admit"
          /\ \A g \in Feeders \ {f} : feed'[g] = feed[g]
      BY <1>f, <1>4, <2>2 DEF FeedSubmit
    <3>4. QED BY <2>2, <3>1, <3>2, <3>3, RowTaken
  <2>3. CASE /\ thr' = [thr EXCEPT ![ThreadOf[h]].new = FALSE]
             /\ delivered' = delivered \cup {h}
             /\ feed' = [feed EXCEPT ![f].pc = "admit"]
             /\ UNCHANGED <<live, call>>
    <3>1. /\ feed'[f].todo = feed[f].todo
          /\ \A g \in Feeders \ {f} : feed'[g] = feed[g]
      BY <1>a, <2>3 DEF CallsTyped, FeedType
    <3>2. UNCHANGED <<queue, sent, admitted>>
      BY <1>4 DEF FeedSubmit
    <3>3. \A t \in Threads : thr'[t].status = thr[t].status
      BY <1>a, <2>3 DEF StoreTyped, RowType
    <3>4. Aimed' /\ Queued'
      BY <2>3, <3>2 DEF InputInv, Aimed, Queued
    <3>5. Owed'
      BY <2>3, <3>1 DEF InputInv, Owed
    <3>6. NoInputLost'
      <4>1. \A i \in Inputs : ThreadOf[i] \in Threads
        BY ConstantsAssumption DEF Rows
      <4>2. QED BY <2>3, <3>2, <3>3, <4>1 DEF InputInv, NoInputLost
    <3>7. Snapshots'
      <4>1. Seen \subseteq Seen'
        BY <2>3 DEF Seen
      <4>2. \A g \in Feeders : feed'[g].todo = feed[g].todo
        BY <3>1
      <4>3. ASSUME NEW g \in Feeders, NEW t \in Threads
            PROVE  InOrder(feed[g].todo, queue[t], Seen')
        <5>1. InOrder(feed[g].todo, queue[t], Seen)
          BY DEF InputInv, Snapshots
        <5>2. QED BY <4>1, <5>1, InOrderMore
      <4>4. QED BY <3>2, <4>2, <4>3 DEF InputInv, Snapshots
    <3>8. QED BY <3>4, <3>5, <3>6, <3>7 DEF InputInv
  <2>4. QED BY <1>4, <2>1, <2>2, <2>3 DEF FeedSubmit
<1>5. CASE FeedAdmit(f)
  <2>1. PICK r : r = h
    OBVIOUS
  <2>2. feed[f].pc = "admit" /\ feed[f].todo # <<>> /\ r \in delivered /\ r \in Seen
    BY <1>a, <1>5, <2>1 DEF FeedAdmit, CallsTyped, InputInv, Owed, Seen
  <2>3. \/ /\ queue' = [queue EXCEPT ![ThreadOf[r]] = Without(ThreadOf[r], r)]
           /\ admitted' = admitted \cup {r}
        \/ UNCHANGED <<queue, admitted>>
    BY <1>5, <2>1 DEF FeedAdmit
  <2>4. UNCHANGED <<thr, call, sent, delivered>>
    BY <1>5 DEF FeedAdmit
  <2> DEFINE v == [pc |-> "submit", todo |-> Tail(feed[f].todo), admitted |-> TRUE]
  <2>5. feed' = [feed EXCEPT ![f] = v] /\ v.todo = Tail(feed[f].todo) /\ v.pc # "admit"
    BY <1>5 DEF FeedAdmit
  <2> HIDE DEF v
  <2>6. /\ feed'[f].todo = Tail(feed[f].todo) /\ feed'[f].pc # "admit"
        /\ \A g \in Feeders \ {f} : feed'[g] = feed[g]
    BY <1>e, <2>5
  <2>7. admitted \subseteq admitted'
    BY <2>3
  <2>8. QED BY <2>1, <2>2, <2>3, <2>4, <2>6, <2>7, RowTaken
<1>6. QED BY <1>1, <1>2, <1>3, <1>4, <1>5 DEF FeedStep

\* The core, the pump, release() and heartbeats.
LEMMA SessionInputs ==
  ASSUME TypeOK, InputInv, NEW s \in Sessions,
         \/ PumpStep(s) \/ ReleaseStep(s)
         \/ TurnCompletes(s) \/ InterruptArrives(s) \/ CoreDies(s) \/ Heartbeat(s)
  PROVE  InputInv'
<1>a. CallsTyped /\ SessionsTyped /\ StoreTyped /\ PodsTyped
  BY TypeParts
<1>1. CASE PumpFails(s)
  BY <1>1, CalmParts, CalmInputs DEF PumpFails, Calm
<1>2. CASE PumpEvent(s)
  <2>1. FeedsStay
    BY <1>a, <1>2, CalmRead, CalmParts DEF PumpEvent, Feeders
  <2>2. QED BY <1>2, <2>1, CalmParts, CalmInputs DEF PumpEvent, Calm
<1>3. CASE ReleaseRow(s)
  <2>1. StayDeleted
    <3>1. sess[s].thread \in Threads
      BY <1>a, <1>3 DEF ReleaseRow, SessionsTyped
    <3>2. QED BY <1>a, <1>3, <3>1, CalmRow, CalmParts, DeletedRow DEF ReleaseRow
  <2>2. QED BY <1>3, <2>1, CalmParts, CalmInputs DEF ReleaseRow, Calm
<1>4. CASE ReleaseSlot(s) \/ ShutdownSession(s)
  BY <1>4, CalmParts, CalmInputs DEF ReleaseSlot, ShutdownSession, Calm
<1>5. CASE TurnCompletes(s) \/ InterruptArrives(s) \/ CoreDies(s)
  BY <1>5, CalmParts, CalmInputs DEF TurnCompletes, InterruptArrives, CoreDies, Calm
<1>6. CASE Heartbeat(s)
  <2>1. StayDeleted
    BY <1>a, <1>6 DEF Heartbeat, StoreTyped, StayDeleted
  <2>2. QED BY <1>6, <2>1, CalmParts, CalmInputs DEF Heartbeat, Calm
<1>7. QED BY <1>1, <1>2, <1>3, <1>4, <1>5, <1>6 DEF PumpStep, ReleaseStep

\* Recovery, draining, exiting, crashing and restarting.
LEMMA ProcessInputs ==
  ASSUME TypeOK, InputInv, NEW p \in Pods,
         Recover(p) \/ DrainStart(p) \/ DrainStep(p) \/ Crash(p) \/ Restart(p)
  PROVE  InputInv'
<1>a. CallsTyped /\ SessionsTyped /\ StoreTyped /\ PodsTyped
  BY TypeParts
<1>1. CASE Recover(p)
  <2>1. StayDeleted
    BY <1>1, DeletedRow DEF Recover, StayDeleted
  <2>2. QED BY <1>1, <2>1, CalmParts, CalmInputs DEF Recover, Calm
<1>2. CASE DrainStart(p) \/ DrainForce(p) \/ DrainNext(p) \/ Restart(p) \/ \E s \in Sessions : DrainInterrupt(p, s)
  BY <1>2, CalmParts, CalmInputs DEF DrainStart, DrainForce, DrainNext, Restart, DrainInterrupt, Calm
<1>3. ASSUME NEW how, ProcessEnds(p, how)
      PROVE  InputInv'
  <2>1. NoNewInput
    BY <1>3 DEF ProcessEnds, NoNewInput, IdleCall
  <2>2. FeedsStay
    <3>1. \A f \in Feeders : feed'[f] = IdleFeed \/ feed'[f] = feed[f]
      BY <1>3 DEF ProcessEnds
    <3>2. IdleFeed.pc = "off" /\ IdleFeed.todo = <<>>
      BY DEF IdleFeed
    <3>3. QED BY <3>1, <3>2 DEF FeedsStay
  <2>3. QED BY <1>3, <2>1, <2>2, CalmParts, CalmInputs DEF ProcessEnds, Calm
<1>4. QED BY <1>1, <1>2, <1>3 DEF DrainStep, Exit, Crash

\* Every step keeps the inputs and their order.
LEMMA NextInputs == TypeOK /\ InputInv /\ [Next]_vars => InputInv'
<1> SUFFICES ASSUME TypeOK, InputInv, [Next]_vars
             PROVE  InputInv'
  OBVIOUS
<1>1. CASE UNCHANGED vars
  BY <1>1, CalmParts, CalmInputs DEF vars, Calm
<1>2. ASSUME NEW t \in Threads, HeartbeatAges(t)
      PROVE  InputInv'
  <2>1. StayDeleted
    BY <1>2, TypeParts DEF HeartbeatAges, StoreTyped, RowType, StayDeleted
  <2>2. QED BY <1>2, <2>1, CalmParts, CalmInputs DEF HeartbeatAges, Calm
<1>3. QED BY <1>1, <1>2, ClientInputs, CallerInputs, FeedInputs, SessionInputs, ProcessInputs DEF Next

\* Nothing is queued when the engine starts.
LEMMA InitInputs == Init => InputInv
<1> SUFFICES ASSUME Init PROVE InputInv
  OBVIOUS
<1>1. \A f \in Feeders : feed[f].pc = "off" /\ feed[f].todo = <<>>
  BY DEF Init, IdleFeed
<1>2. NoInputLost /\ Aimed /\ Owed
  BY <1>1 DEF Init, NoInputLost, Aimed, Owed, IdleCall
<1>3. Queued
  BY DEF Init, Queued, QueueOf
<1>4. Snapshots
  BY <1>1, InOrderEmpty DEF Snapshots
<1>5. QED BY <1>2, <1>3, <1>4 DEF InputInv

\* InputInv is an invariant.
LEMMA InputInvariant == Spec => [](TypeOK /\ InputInv)
<1>1. Init => TypeOK /\ InputInv
  BY InitType, InitInputs
<1>2. TypeOK /\ InputInv /\ [Next]_vars => (TypeOK /\ InputInv)'
  BY NextType, NextInputs
<1>3. QED BY <1>1, <1>2, PTL DEF Spec

\* An input that EnqueueInput stored is queued until the core has accepted it
\* and its row says so, unless its thread is deleted: no crash, failed call,
\* second pod or second feeder of the same queue ever loses one.
THEOREM InputsAreKept == Spec => []NoInputLost
<1>1. TypeOK /\ InputInv => NoInputLost
  BY DEF InputInv
<1>2. QED BY <1>1, InputInvariant, PTL

\* Only SubmitUserMessage delivers.
LEMMA OnlySubmitDelivers ==
  ASSUME [Next]_vars, ~UNCHANGED delivered
  PROVE  \E f \in Feeders : FeedSubmit(f)
BY DEF Next, ClientStep, BeginSubmit, BeginResume, Interrupt, DeleteThread, Sweep, BeginSweep,
   CallerStep, Enqueue, Claim, StartLive, Unclaim, StartLiveFails, FeedStep, FeedRead, FeedDone,
   FeedInterrupt, FeedAdmit, PumpStep, PumpFails, PumpEvent, ReleaseStep, ReleaseRow, ReleaseSlot,
   ShutdownSession, TurnCompletes, InterruptArrives, CoreDies, Heartbeat, HeartbeatAges, Recover,
   DrainStart, DrainStep, DrainInterrupt, DrainForce, DrainNext, Exit, Crash, ProcessEnds, Restart, vars

\* What FirstDeliveryInOrder says of one step.
FirstInOrder ==
  \A i \in delivered' \ delivered :
    LET q == queue[ThreadOf[i]] IN
    \A k \in DOMAIN q : q[k] = i =>
      \A j \in 1..(k - 1) : q[j] \in delivered \cup Poison \cup Interrupts

\* The row given to the core is the first of a snapshot in the queue's order.
LEMMA StepInOrder == TypeOK /\ InputInv /\ [Next]_vars => FirstInOrder
<1> SUFFICES ASSUME TypeOK, InputInv, [Next]_vars, NEW i \in delivered' \ delivered
             PROVE  LET q == queue[ThreadOf[i]] IN
                    \A k \in DOMAIN q : q[k] = i =>
                      \A j \in 1..(k - 1) : q[j] \in delivered \cup Poison \cup Interrupts
  BY DEF FirstInOrder
<1>1. PICK f \in Feeders : FeedSubmit(f)
  BY OnlySubmitDelivers
<1>2. feed[f].todo # <<>> /\ i = Head(feed[f].todo) /\ i \in Inputs
  BY <1>1 DEF FeedSubmit
<1>3. PICK t \in Threads : t = ThreadOf[i]
  BY <1>2, ConstantsAssumption DEF Rows
<1>4. feed[f].todo \in Seq(Rows)
  BY TypeParts DEF CallsTyped, FeedType
<1>5. 1 \in DOMAIN feed[f].todo /\ feed[f].todo[1] = i /\ \A n \in DOMAIN feed[f].todo : ~(n < 1)
  BY <1>2, <1>4
<1>6. InOrder(feed[f].todo, queue[t], Seen)
  BY DEF InputInv, Snapshots
<1>7. ASSUME NEW k \in DOMAIN queue[t], queue[t][k] = i, NEW j \in 1..(k - 1)
      PROVE  queue[t][j] \in Seen
  BY <1>5, <1>6, <1>7 DEF InOrder, Passed
<1>8. QED BY <1>3, <1>7 DEF Seen

\* The core sees the inputs of a thread first in the order they were queued:
\* two feeders with old snapshots, a retry after a crash or an interrupt in
\* between never let a later input overtake one that was not given yet.
THEOREM FirstDeliveries == Spec => FirstDeliveryInOrder
<1>1. TypeOK /\ InputInv /\ [Next]_vars => [FirstInOrder]_vars
  BY StepInOrder
<1>2. Spec => [][FirstInOrder]_vars
  BY <1>1, InputInvariant, PTL DEF Spec
<1>3. QED BY <1>2 DEF FirstInOrder, FirstDeliveryInOrder

=============================================================================
