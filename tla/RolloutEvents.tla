--------------------------- MODULE RolloutEvents ---------------------------
(***************************************************************************)
(* The event stream of one thread: agent_rollout_events and last_seq in    *)
(* the database, the transactions that append to them, the notifier of     *)
(* each pod, and the tails that feed Server-Sent-Events connections.       *)
(*                                                                         *)
(* Writers are the goroutines that append (the core's rollout recorder,    *)
(* the approval recorder, the drain); each works on a pod.  A reader is a  *)
(* client that connects to any pod, and connects again with Last-Event-ID. *)
(***************************************************************************)
EXTENDS Integers, Sequences, FiniteSets

CONSTANTS
  Pods,
  Writers,
  Readers,
  PodOf,         \* the pod each writer works on
  FromSeq,       \* the from_seq each reader asks for (0 or absent: all)
  EventBatch,    \* rows one tail read returns at most
  OutCap,        \* room in the channel between tail and SSE handler
  MaxBlock,      \* bound on the items of one append
  MaxSeq,        \* bound on the length of the log
  MaxConnects,   \* bound on the connections each reader makes
  Faults,        \* whether appends and reads may fail and pods crash
  Deletable,     \* whether the thread may be deleted
  None

ASSUME ConstantsAssumption ==
  /\ PodOf \in [Writers -> Pods]
  /\ FromSeq \in [Readers -> Nat]
  /\ EventBatch \in Nat \ {0}
  /\ OutCap \in Nat \ {0}
  /\ MaxBlock \in Nat
  /\ MaxSeq \in Nat
  /\ MaxConnects \in Nat
  /\ Faults \in BOOLEAN
  /\ Deletable \in BOOLEAN
  /\ None \notin Writers \cup Pods

VARIABLES
  rows,      \* committed agent_rollout_events: a set, seq is not a key of it
  last,      \* agent_threads.last_seq
  deleted,   \* agent_threads.status = 'deleted'
  lock,      \* the writer whose transaction holds the thread row, or None
  tx,        \* where each writer is
  conn,      \* each reader's connection: its tail, channel and wake-up flag
  tries,     \* connections each reader has made
  got        \* history: the rows each reader received, over all connections

vars == <<rows, last, deleted, lock, tx, conn, tries, got>>

IdleTx == [pc |-> "idle", base |-> 0, n |-> 0]

NoConn == [pc |-> "off", pod |-> None, next |-> 1, n |-> 0, page |-> {},
           out |-> <<>>, wake |-> FALSE, sub |-> FALSE]

Init ==
  /\ rows = {}
  /\ last = 0
  /\ deleted = FALSE
  /\ lock = None
  /\ tx = [w \in Writers |-> IdleTx]
  /\ conn = [r \in Readers |-> NoConn]
  /\ tries = [r \in Readers |-> 0]
  /\ got = [r \in Readers |-> <<>>]

-----------------------------------------------------------------------------
(* appendEvents inside InTenantTx.                                          *)

\* Mutant: last_seq is read without FOR UPDATE.
TxBeginUnlocked(w, n) ==
  /\ tx[w].pc = "idle"
  /\ ~deleted
  /\ last + n <= MaxSeq
  /\ tx' = [tx EXCEPT ![w] = [pc |-> "append", base |-> last, n |-> n]]
  /\ lock' = w
  /\ UNCHANGED <<rows, last, deleted, conn, tries, got>>

\* SELECT last_seq ... FOR UPDATE: waits for the row, then reads it.
TxBegin(w, n) ==
  /\ tx[w].pc = "idle"
  /\ lock = None
  /\ ~deleted
  /\ last + n <= MaxSeq
  /\ tx' = [tx EXCEPT ![w] = [pc |-> "append", base |-> last, n |-> n]]
  /\ lock' = w
  /\ UNCHANGED <<rows, last, deleted, conn, tries, got>>

Block(w) == {[seq |-> tx[w].base + k, by |-> w] : k \in 1..tx[w].n}

\* Mutant: the rows are committed before last_seq is advanced.
TxCommitRowsOnly(w) ==
  /\ tx[w].pc = "append"
  /\ rows' = rows \cup Block(w)
  /\ lock' = None
  /\ tx' = [tx EXCEPT ![w].pc = "notify"]
  /\ UNCHANGED <<last, deleted, conn, tries, got>>

\* The inserts and the new last_seq become visible together.
TxCommit(w) ==
  /\ tx[w].pc = "append"
  /\ rows' = rows \cup Block(w)
  /\ last' = tx[w].base + tx[w].n
  /\ lock' = None
  /\ tx' = [tx EXCEPT ![w].pc = "notify"]
  /\ UNCHANGED <<deleted, conn, tries, got>>

\* An item that cannot be encoded, or a database error: nothing is written.
TxAbort(w) ==
  /\ Faults
  /\ tx[w].pc = "append"
  /\ lock' = None
  /\ tx' = [tx EXCEPT ![w] = IdleTx]
  /\ UNCHANGED <<rows, last, deleted, conn, tries, got>>

\* Mutant: a channel without room for one signal wakes only a tail that is
\* waiting at this moment.
NotifyWaiting(w) ==
  /\ tx[w].pc = "notify"
  /\ tx' = [tx EXCEPT ![w] = IdleTx]
  /\ conn' = [r \in Readers |->
                IF conn[r].pod = PodOf[w] /\ conn[r].pc = "wait"
                THEN [conn[r] EXCEPT !.wake = TRUE] ELSE conn[r]]
  /\ UNCHANGED <<rows, last, deleted, lock, tries, got>>

\* notifier.Notify after the commit: one signal is kept per subscriber.
Notify(w) ==
  /\ tx[w].pc = "notify"
  /\ tx' = [tx EXCEPT ![w] = IdleTx]
  /\ conn' = [r \in Readers |->
                IF conn[r].pod = PodOf[w] /\ conn[r].sub
                THEN [conn[r] EXCEPT !.wake = TRUE] ELSE conn[r]]
  /\ UNCHANGED <<rows, last, deleted, lock, tries, got>>

DeleteThread ==
  /\ Deletable
  /\ ~deleted
  /\ lock = None
  /\ deleted' = TRUE
  /\ UNCHANGED <<rows, last, lock, tx, conn, tries, got>>

-----------------------------------------------------------------------------
(* The tail of one connection: Events, tail, forward and the SSE handler.   *)

Max2(a, b) == IF a >= b THEN a ELSE b

\* Where a reader starts: tail replaces a from_seq below 1 by 1.
First == [r \in Readers |-> Max2(1, FromSeq[r])]

\* Mutant: Last-Event-ID is taken as the next event instead of the last one.
StartSeqRepeats(r) ==
  IF got[r] = <<>> THEN First[r] ELSE Max2(1, got[r][Len(got[r])].seq)

\* fromSeq: the header of a reconnecting client wins over the parameter.
StartSeq(r) ==
  IF got[r] = <<>> THEN First[r] ELSE Max2(1, got[r][Len(got[r])].seq + 1)

\* Events: GetThreadInfo, the channel, and a goroutine for the tail.
Connect(r, p) ==
  /\ conn[r].pc = "off"
  /\ tries[r] < MaxConnects
  /\ ~deleted
  /\ tries' = [tries EXCEPT ![r] = @ + 1]
  /\ conn' = [conn EXCEPT ![r] = [NoConn EXCEPT !.pc = "subscribe", !.pod = p,
                                                !.next = StartSeq(r)]]
  /\ UNCHANGED <<rows, last, deleted, lock, tx, got>>

\* The subscription comes before the first read.
Subscribe(r) ==
  /\ conn[r].pc = "subscribe"
  /\ conn' = [conn EXCEPT ![r].pc = "read", ![r].sub = TRUE]
  /\ UNCHANGED <<rows, last, deleted, lock, tx, tries, got>>

\* ORDER BY seq LIMIT: the rows from `from` on with fewer than EventBatch
\* of them before.
Page(from) ==
  {e \in rows : e.seq >= from /\
     Cardinality({d \in rows : d.seq >= from /\ d.seq < e.seq}) < EventBatch}

\* ReadEvents: an error or a deleted thread ends the tail, which closes the
\* channel and unsubscribes.
ReadEvents(r) ==
  /\ conn[r].pc = "read"
  /\ \/ /\ ~deleted
        /\ conn' = [conn EXCEPT ![r].pc = "push", ![r].n = 0,
                                ![r].page = Page(conn[r].next)]
     \/ /\ deleted \/ Faults
        /\ conn' = [conn EXCEPT ![r].pc = "closed", ![r].sub = FALSE]
  /\ UNCHANGED <<rows, last, deleted, lock, tx, tries, got>>

\* forward: the rows of the page go into the channel in order, blocking
\* while it is full.
Push(r) ==
  LET page == conn[r].page IN
  /\ conn[r].pc = "push"
  /\ Len(conn[r].out) < OutCap
  /\ \E e \in page :
       /\ \A d \in page : e.seq <= d.seq
       /\ conn' = [conn EXCEPT ![r].page = page \ {e}, ![r].n = @ + 1,
                               ![r].out = Append(@, e)]
  /\ UNCHANGED <<rows, last, deleted, lock, tx, tries, got>>

\* Mutant: a full page is not followed by another read, and `next` moves to
\* the end of the page that was asked for.
EndForwardSkips(r) ==
  /\ conn[r].pc = "push"
  /\ conn[r].page = {}
  /\ conn' = [conn EXCEPT ![r].next = @ + EventBatch, ![r].pc = "wait"]
  /\ UNCHANGED <<rows, last, deleted, lock, tx, tries, got>>

\* `next` advances by the number of rows pushed; a full page is followed by
\* another read at once.
EndForward(r) ==
  /\ conn[r].pc = "push"
  /\ conn[r].page = {}
  /\ conn' = [conn EXCEPT ![r].next = @ + conn[r].n,
                          ![r].pc = IF conn[r].n = EventBatch THEN "read"
                                                              ELSE "wait"]
  /\ UNCHANGED <<rows, last, deleted, lock, tx, tries, got>>

\* A kept signal ends the wait ...
Wake(r) ==
  /\ conn[r].pc = "wait"
  /\ conn[r].wake
  /\ conn' = [conn EXCEPT ![r].pc = "read", ![r].wake = FALSE]
  /\ UNCHANGED <<rows, last, deleted, lock, tx, tries, got>>

\* Mutant: no polling, so that only writers of the same pod wake a tail.
TickNever(r) == FALSE

\* ... and so does the poll ticker.
Tick(r) ==
  /\ conn[r].pc = "wait"
  /\ conn' = [conn EXCEPT ![r].pc = "read"]
  /\ UNCHANGED <<rows, last, deleted, lock, tx, tries, got>>

\* The SSE handler writes one event, whose id is its seq, to the client.
Deliver(r) ==
  /\ conn[r].out # <<>>
  /\ got' = [got EXCEPT ![r] = Append(@, Head(conn[r].out))]
  /\ conn' = [conn EXCEPT ![r].out = Tail(@)]
  /\ UNCHANGED <<rows, last, deleted, lock, tx, tries>>

\* The handler returns once the closed channel is empty.
Finish(r) ==
  /\ conn[r].pc = "closed"
  /\ conn[r].out = <<>>
  /\ conn' = [conn EXCEPT ![r] = NoConn]
  /\ UNCHANGED <<rows, last, deleted, lock, tx, tries, got>>

\* The connection breaks: what was under way to the client is lost.
Disconnect(r) ==
  /\ conn[r].pc # "off"
  /\ conn' = [conn EXCEPT ![r] = NoConn]
  /\ UNCHANGED <<rows, last, deleted, lock, tx, tries, got>>

\* A pod dies: its transactions roll back and its connections break.
Crash(p) ==
  /\ Faults
  /\ tx' = [w \in Writers |-> IF PodOf[w] = p THEN IdleTx ELSE tx[w]]
  /\ lock' = IF lock \in Writers /\ PodOf[lock] = p THEN None ELSE lock
  /\ conn' = [r \in Readers |-> IF conn[r].pod = p THEN NoConn ELSE conn[r]]
  /\ UNCHANGED <<rows, last, deleted, tries, got>>

-----------------------------------------------------------------------------
TxStep(w) == TxCommit(w) \/ Notify(w)

TailStep(r) == \/ Subscribe(r) \/ ReadEvents(r) \/ Push(r) \/ EndForward(r)
               \/ Wake(r) \/ Tick(r)

Next ==
  \/ \E w \in Writers : \/ \E n \in 1..MaxBlock : TxBegin(w, n)
                        \/ TxStep(w) \/ TxAbort(w)
  \/ DeleteThread
  \/ \E r \in Readers : \/ \E p \in Pods : Connect(r, p)
                        \/ TailStep(r) \/ Deliver(r) \/ Finish(r)
                        \/ Disconnect(r)
  \/ \E p \in Pods : Crash(p)

Spec == Init /\ [][Next]_vars

\* Transactions end, tails run, the ticker ticks and the handlers write;
\* nobody has to append, to connect or to stay connected.
Fairness ==
  /\ \A w \in Writers : WF_vars(TxStep(w))
  /\ \A r \in Readers : WF_vars(TailStep(r)) /\ WF_vars(Deliver(r))

FairSpec == Spec /\ Fairness

-----------------------------------------------------------------------------
(* Properties.                                                              *)

RowType == [seq : Nat \ {0}, by : Writers]

TxType == [pc : {"idle", "append", "notify"}, base : Nat, n : Nat]

ConnType ==
  [pc : {"off", "subscribe", "read", "push", "wait", "closed"},
   pod : Pods \cup {None}, next : Nat \ {0}, n : Nat, page : SUBSET RowType,
   out : Seq(RowType), wake : BOOLEAN, sub : BOOLEAN]

\* Every variable has its type, the channel is within its capacity, and the
\* row is locked exactly by the transaction that is appending.
TypeOK ==
  /\ rows \subseteq RowType
  /\ last \in Nat
  /\ deleted \in BOOLEAN
  /\ lock \in Writers \cup {None}
  /\ tx \in [Writers -> TxType]
  /\ conn \in [Readers -> ConnType]
  /\ tries \in [Readers -> Nat]
  /\ got \in [Readers -> Seq(RowType)]
  /\ \A w \in Writers : tx[w].pc = "append" <=> lock = w
  /\ \A r \in Readers : Len(conn[r].out) <= OutCap

\* The log has no gaps and no duplicates: exactly one row for every sequence
\* number up to last_seq, although the table itself enforces neither (seq is
\* unique only together with created_at).
LogDense ==
  /\ {e.seq : e \in rows} = 1..last
  /\ \A d, e \in rows : d.seq = e.seq => d = e

\* "`from_seq` 回放 + 实时衔接无缝无重" (spec-1.8, T15): over all its connections
\* a reader receives the committed rows from where it started, one by one,
\* without a gap, a repetition or a row that was rolled back.
StreamIsSeamless ==
  \A r \in Readers : \A k \in DOMAIN got[r] :
    got[r][k] \in rows /\ got[r][k].seq = First[r] + k - 1

\* A tail that waits without a signal has missed no row whose writer, on the
\* same pod, has finished notifying: the poll is for other pods only.
NoLostWakeup ==
  \A r \in Readers : conn[r].pc = "wait" /\ ~conn[r].wake =>
    \A e \in rows : e.seq >= conn[r].next =>
      PodOf[e.by] # conn[r].pod \/ tx[e.by].pc = "notify"

\* A reader that stays connected to a thread that is not deleted receives
\* every committed row from where it started, also those of other pods.
ConnectedReaderCatchesUp ==
  \A r \in Readers : \A k \in 1..MaxSeq :
    (k <= last /\ First[r] <= k /\ conn[r].pc # "off")
      ~> (Len(got[r]) > k - First[r] \/ conn[r].pc \in {"closed", "off"})

\* The stream implements the log its readers are promised.
Log == INSTANCE EventLog WITH
  log  <- [k \in 1..last |-> (CHOOSE e \in rows : e.seq = k).by],
  view <- [r \in Readers |-> [k \in DOMAIN got[r] |-> got[r][k].by]]

ImplementsEventLog == Log!Spec
============================================================================
