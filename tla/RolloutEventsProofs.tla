------------------------ MODULE RolloutEventsProofs ------------------------
(***************************************************************************)
(* RolloutEvents for every number of pods, writers and readers, every page *)
(* and channel size: types, the dense log, the seamless stream, and the    *)
(* implementation of EventLog.                                             *)
(***************************************************************************)
EXTENDS RolloutEvents, FiniteSetTheorems, SequenceTheorems, TLAPS

-----------------------------------------------------------------------------
(* Types.                                                                   *)

\* TypeOK in three parts: the log, the writers' transactions, the readers.
LogTyped ==
  /\ rows \subseteq RowType
  /\ last \in Nat
  /\ deleted \in BOOLEAN

TxTyped ==
  /\ lock \in Writers \cup {None}
  /\ tx \in [Writers -> TxType]
  /\ \A w \in Writers : tx[w].pc = "append" <=> lock = w

ReadersTyped ==
  /\ conn \in [Readers -> ConnType]
  /\ tries \in [Readers -> Nat]
  /\ got \in [Readers -> Seq(RowType)]
  /\ \A r \in Readers : Len(conn[r].out) <= OutCap

\* TypeOK is the conjunction of its parts.
LEMMA TypeParts ==
  /\ TypeOK <=> LogTyped /\ TxTyped /\ ReadersTyped
  /\ TypeOK' <=> LogTyped' /\ TxTyped' /\ ReadersTyped'
BY DEF TypeOK, LogTyped, TxTyped, ReadersTyped

\* Steps that leave the variables of a part alone keep the part.
LEMMA PartsUnchanged ==
  /\ LogTyped /\ UNCHANGED <<rows, last, deleted>> => LogTyped'
  /\ TxTyped /\ UNCHANGED <<lock, tx>> => TxTyped'
  /\ ReadersTyped /\ UNCHANGED <<conn, tries, got>> => ReadersTyped'
BY DEF LogTyped, TxTyped, ReadersTyped

\* A connection starts, and ends, well typed.
LEMMA NoConnTyped == NoConn \in ConnType /\ Len(NoConn.out) <= OutCap
<1>1. <<>> \in Seq(RowType) /\ Len(<<>>) = 0
  BY EmptySeq
<1>2. QED BY <1>1, ConstantsAssumption DEF NoConn, ConnType

\* One connection changes to another well typed one.
LEMMA ConnUpdate ==
  ASSUME ReadersTyped, NEW r \in Readers, NEW c \in ConnType,
         Len(c.out) <= OutCap, conn' = [conn EXCEPT ![r] = c],
         UNCHANGED <<tries, got>>
  PROVE  ReadersTyped'
BY DEF ReadersTyped

\* A reader starts at a position of the log, not below the one it asked for.
LEMMA StartTyped ==
  ASSUME ReadersTyped, NEW r \in Readers
  PROVE  First[r] \in Nat \ {0} /\ StartSeq(r) \in Nat \ {0}
<1>1. First[r] \in Nat \ {0}
  BY ConstantsAssumption DEF First, Max2
<1>2. CASE got[r] = <<>>
  BY <1>1, <1>2 DEF StartSeq
<1>3. CASE got[r] # <<>>
  <2>1. got[r] \in Seq(RowType)
    BY DEF ReadersTyped
  <2>2. Len(got[r]) \in DOMAIN got[r]
    BY <1>3, <2>1
  <2>3. got[r][Len(got[r])] \in RowType
    BY <2>1, <2>2
  <2>4. QED BY <1>1, <1>3, <2>3 DEF StartSeq, Max2, RowType
<1>4. QED BY <1>2, <1>3

\* The thread starts well typed.
LEMMA InitType == Init => TypeOK
<1> SUFFICES ASSUME Init PROVE TypeOK
  OBVIOUS
<1>1. LogTyped
  BY DEF Init, LogTyped
<1>2. TxTyped
  BY ConstantsAssumption DEF Init, TxTyped, IdleTx, TxType
<1>3. ReadersTyped
  BY NoConnTyped, EmptySeq DEF Init, ReadersTyped
<1>4. QED BY <1>1, <1>2, <1>3, TypeParts

\* The rows an append inserts are rows.
LEMMA BlockTyped ==
  ASSUME TxTyped, NEW w \in Writers
  PROVE  Block(w) \subseteq RowType
BY DEF TxTyped, TxType, Block, RowType

\* Appending, notifying and deleting keep the types.
LEMMA WriterType ==
  ASSUME TypeOK,
         \/ \E w \in Writers : \/ \E n \in 1..MaxBlock : TxBegin(w, n)
                               \/ TxStep(w) \/ TxAbort(w)
         \/ DeleteThread
  PROVE  TypeOK'
<1>a. LogTyped /\ TxTyped /\ ReadersTyped
  BY TypeParts
<1>1. ASSUME NEW w \in Writers, NEW n \in 1..MaxBlock, TxBegin(w, n)
      PROVE  TypeOK'
  <2>1. [pc |-> "append", base |-> last, n |-> n] \in TxType
    BY <1>a, ConstantsAssumption DEF LogTyped, TxType
  <2>2. TxTyped'
    BY <1>a, <1>1, <2>1, ConstantsAssumption DEF TxTyped, TxBegin
  <2>3. QED BY <1>a, <1>1, <2>2, TypeParts, PartsUnchanged DEF TxBegin
<1>2. ASSUME NEW w \in Writers, TxCommit(w)
      PROVE  TypeOK'
  <2>1. tx[w] \in TxType /\ [tx[w] EXCEPT !.pc = "notify"] \in TxType
    BY <1>a DEF TxTyped, TxType
  <2>2. TxTyped'
    BY <1>a, <1>2, <2>1, ConstantsAssumption DEF TxTyped, TxCommit
  <2>3. LogTyped'
    BY <1>a, <1>2, <2>1, BlockTyped DEF LogTyped, TxCommit, TxType
  <2>4. QED BY <1>a, <1>2, <2>2, <2>3, TypeParts, PartsUnchanged DEF TxCommit
<1>3. ASSUME NEW w \in Writers, Notify(w)
      PROVE  TypeOK'
  <2>1. TxTyped'
    BY <1>a, <1>3 DEF TxTyped, Notify, IdleTx, TxType
  <2>2. \A r \in Readers : /\ [conn[r] EXCEPT !.wake = TRUE] \in ConnType
                           /\ [conn[r] EXCEPT !.wake = TRUE].out = conn[r].out
    BY <1>a DEF ReadersTyped, ConnType
  <2>3. ReadersTyped'
    BY <1>a, <1>3, <2>2 DEF ReadersTyped, Notify
  <2>4. QED BY <1>a, <1>3, <2>1, <2>3, TypeParts, PartsUnchanged DEF Notify
<1>4. ASSUME NEW w \in Writers, TxAbort(w)
      PROVE  TypeOK'
  <2>1. TxTyped'
    BY <1>a, <1>4, ConstantsAssumption DEF TxTyped, TxAbort, IdleTx, TxType
  <2>2. QED BY <1>a, <1>4, <2>1, TypeParts, PartsUnchanged DEF TxAbort
<1>5. CASE DeleteThread
  <2>1. LogTyped'
    BY <1>a, <1>5 DEF LogTyped, DeleteThread
  <2>2. QED BY <1>a, <1>5, <2>1, TypeParts, PartsUnchanged DEF DeleteThread
<1>6. QED BY <1>1, <1>2, <1>3, <1>4, <1>5 DEF TxStep

\* A page is a set of rows.
LEMMA PageTyped ==
  ASSUME LogTyped, NEW from
  PROVE  Page(from) \subseteq rows /\ Page(from) \subseteq RowType
BY DEF Page, LogTyped

\* What a reader's connection does keeps the types.
LEMMA ReaderType ==
  ASSUME TypeOK, NEW r \in Readers,
         \/ \E p \in Pods : Connect(r, p)
         \/ TailStep(r) \/ Deliver(r) \/ Finish(r) \/ Disconnect(r)
  PROVE  TypeOK'
<1>a. LogTyped /\ TxTyped /\ ReadersTyped
  BY TypeParts
<1>b. /\ conn[r] \in ConnType /\ Len(conn[r].out) <= OutCap
      /\ conn[r].out \in Seq(RowType) /\ conn[r].page \subseteq RowType
  BY <1>a DEF ReadersTyped, ConnType
<1>1. ASSUME NEW p \in Pods, Connect(r, p)
      PROVE  TypeOK'
  <2> DEFINE c == [NoConn EXCEPT !.pc = "subscribe", !.pod = p, !.next = StartSeq(r)]
  <2>1. c \in ConnType /\ c.out = NoConn.out
    BY <1>a, NoConnTyped, StartTyped DEF NoConn, ConnType
  <2>2. conn' = [conn EXCEPT ![r] = c]
    BY <1>1 DEF Connect
  <2> HIDE DEF c
  <2>3. tries' \in [Readers -> Nat]
    <3>1. tries \in [Readers -> Nat] /\ tries[r] + 1 \in Nat
      BY <1>a DEF ReadersTyped
    <3>2. tries' = [tries EXCEPT ![r] = tries[r] + 1]
      BY <1>1, <3>1 DEF Connect
    <3>3. QED BY <3>1, <3>2
  <2>4. ReadersTyped'
    BY <1>a, <1>1, <2>1, <2>2, <2>3, NoConnTyped DEF ReadersTyped, Connect
  <2>5. QED BY <1>a, <1>1, <2>4, TypeParts, PartsUnchanged DEF Connect
<1>2. CASE Subscribe(r)
  <2>1. [conn[r] EXCEPT !.pc = "read", !.sub = TRUE] \in ConnType
    BY <1>b DEF ConnType
  <2>2. ReadersTyped'
    BY <1>a, <1>b, <1>2, <2>1 DEF ReadersTyped, Subscribe
  <2>3. QED BY <1>a, <1>2, <2>2, TypeParts, PartsUnchanged DEF Subscribe
<1>3. CASE ReadEvents(r)
  <2> DEFINE c == [conn[r] EXCEPT !.pc = "push", !.n = 0, !.page = Page(conn[r].next)]
             d == [conn[r] EXCEPT !.pc = "closed", !.sub = FALSE]
  <2>1. Page(conn[r].next) \subseteq RowType
    BY <1>a, PageTyped
  <2>2. c \in ConnType /\ c.out = conn[r].out
    BY <1>b, <2>1 DEF ConnType
  <2>3. d \in ConnType /\ d.out = conn[r].out
    BY <1>b DEF ConnType
  <2>4. conn' = [conn EXCEPT ![r] = c] \/ conn' = [conn EXCEPT ![r] = d]
    BY <1>a, <1>3 DEF ReadEvents, ReadersTyped
  <2> HIDE DEF c, d
  <2>5. ReadersTyped'
    BY <1>a, <1>b, <1>3, <2>2, <2>3, <2>4, ConnUpdate DEF ReadEvents
  <2>6. QED BY <1>a, <1>3, <2>5, TypeParts, PartsUnchanged DEF ReadEvents
<1>4. CASE Push(r)
  <2>1. PICK e \in conn[r].page :
          conn' = [conn EXCEPT ![r].page = conn[r].page \ {e}, ![r].n = @ + 1,
                               ![r].out = Append(@, e)]
    BY <1>4 DEF Push
  <2> DEFINE c == [conn[r] EXCEPT !.page = conn[r].page \ {e}, !.n = conn[r].n + 1,
                                  !.out = Append(conn[r].out, e)]
  <2>2. /\ Append(conn[r].out, e) \in Seq(RowType)
        /\ Len(Append(conn[r].out, e)) = Len(conn[r].out) + 1
    BY <1>b, <2>1, AppendProperties
  <2>3. c \in ConnType /\ c.out = Append(conn[r].out, e)
    <3>1. conn[r].page \ {e} \in SUBSET RowType /\ conn[r].n + 1 \in Nat
      BY <1>b DEF ConnType
    <3>2. c \in ConnType
      BY <1>b, <2>2, <3>1 DEF ConnType
    <3>3. c.out = Append(conn[r].out, e)
      BY <1>b DEF ConnType
    <3>4. QED BY <3>2, <3>3
  <2>4. Len(c.out) <= OutCap
    BY <1>b, <1>4, <2>2, <2>3, ConstantsAssumption, LenProperties DEF Push
  <2>5. conn' = [conn EXCEPT ![r] = c]
    BY <1>a, <2>1 DEF ReadersTyped
  <2> HIDE DEF c
  <2>6. ReadersTyped'
    BY <1>a, <1>4, <2>3, <2>4, <2>5, ConnUpdate DEF Push
  <2>7. QED BY <1>a, <1>4, <2>6, TypeParts, PartsUnchanged DEF Push
<1>5. CASE EndForward(r)
  <2> DEFINE c == [conn[r] EXCEPT !.next = conn[r].next + conn[r].n,
                     !.pc = IF conn[r].n = EventBatch THEN "read" ELSE "wait"]
  <2>1. c \in ConnType /\ c.out = conn[r].out
    <3>1. conn[r].next + conn[r].n \in Nat \ {0}
      BY <1>b DEF ConnType
    <3>2. c \in ConnType
      BY <1>b, <3>1 DEF ConnType
    <3>3. c.out = conn[r].out
      BY <1>b DEF ConnType
    <3>4. QED BY <3>2, <3>3
  <2>2. conn' = [conn EXCEPT ![r] = c]
    BY <1>a, <1>5 DEF EndForward, ReadersTyped
  <2> HIDE DEF c
  <2>3. ReadersTyped'
    BY <1>a, <1>b, <1>5, <2>1, <2>2, ConnUpdate DEF EndForward
  <2>4. QED BY <1>a, <1>5, <2>3, TypeParts, PartsUnchanged DEF EndForward
<1>6. CASE Wake(r) \/ Tick(r)
  <2> DEFINE c == [conn[r] EXCEPT !.pc = "read", !.wake = FALSE]
             d == [conn[r] EXCEPT !.pc = "read"]
  <2>1. c \in ConnType /\ d \in ConnType
    BY <1>b DEF ConnType
  <2>2. c.out = conn[r].out /\ d.out = conn[r].out
    BY <1>b DEF ConnType
  <2>3. conn' = [conn EXCEPT ![r] = c] \/ conn' = [conn EXCEPT ![r] = d]
    BY <1>a, <1>6 DEF Wake, Tick, ReadersTyped
  <2> HIDE DEF c, d
  <2>4. ReadersTyped'
    BY <1>a, <1>b, <1>6, <2>1, <2>2, <2>3, ConnUpdate DEF Wake, Tick
  <2>5. QED BY <1>a, <1>6, <2>4, TypeParts, PartsUnchanged DEF Wake, Tick
<1>7. CASE Deliver(r)
  <2> DEFINE c == [conn[r] EXCEPT !.out = Tail(conn[r].out)]
  <2>1. /\ Head(conn[r].out) \in RowType /\ Tail(conn[r].out) \in Seq(RowType)
        /\ Len(Tail(conn[r].out)) = Len(conn[r].out) - 1
    BY <1>b, <1>7, HeadTailProperties DEF Deliver
  <2>2. c \in ConnType /\ Len(c.out) <= OutCap
    <3>1. c \in ConnType
      BY <1>b, <2>1 DEF ConnType
    <3>2. c.out = Tail(conn[r].out)
      BY <1>b DEF ConnType
    <3>3. Len(conn[r].out) \in Nat /\ OutCap \in Nat
      BY <1>b, LenProperties, ConstantsAssumption
    <3> HIDE DEF c
    <3>4. QED BY <1>b, <2>1, <3>1, <3>2, <3>3
  <2>3. conn' = [conn EXCEPT ![r] = c]
    BY <1>a, <1>7 DEF Deliver, ReadersTyped
  <2>4. Append(got[r], Head(conn[r].out)) \in Seq(RowType)
    BY <1>a, <2>1, AppendProperties DEF ReadersTyped
  <2>5. got' \in [Readers -> Seq(RowType)]
    BY <1>a, <1>7, <2>4 DEF ReadersTyped, Deliver
  <2> HIDE DEF c
  <2>6. ReadersTyped'
    BY <1>a, <1>7, <2>2, <2>3, <2>5 DEF ReadersTyped, Deliver
  <2>7. QED BY <1>a, <1>7, <2>6, TypeParts, PartsUnchanged DEF Deliver
<1>8. CASE Finish(r) \/ Disconnect(r)
  <2>1. ReadersTyped'
    BY <1>a, <1>8, NoConnTyped, ConnUpdate DEF Finish, Disconnect
  <2>2. QED BY <1>a, <1>8, <2>1, TypeParts, PartsUnchanged DEF Finish, Disconnect
<1>9. QED BY <1>1, <1>2, <1>3, <1>4, <1>5, <1>6, <1>7, <1>8 DEF TailStep

\* A dying pod keeps the types.
LEMMA CrashType ==
  ASSUME TypeOK, NEW p \in Pods, Crash(p)
  PROVE  TypeOK'
<1>a. LogTyped /\ TxTyped /\ ReadersTyped
  BY TypeParts
<1>1. TxTyped'
  <2>1. tx' \in [Writers -> TxType]
    BY <1>a DEF Crash, TxTyped, IdleTx, TxType
  <2>2. lock' \in Writers \cup {None}
    BY <1>a DEF Crash, TxTyped
  <2>3. \A w \in Writers : tx'[w].pc = "append" <=> lock' = w
    BY <1>a, ConstantsAssumption DEF Crash, TxTyped, IdleTx
  <2>4. QED BY <2>1, <2>2, <2>3 DEF TxTyped
<1>2. ReadersTyped'
  BY <1>a, NoConnTyped DEF Crash, ReadersTyped
<1>3. QED BY <1>a, <1>1, <1>2, TypeParts, PartsUnchanged DEF Crash

\* Every step keeps the types.
LEMMA NextType == TypeOK /\ [Next]_vars => TypeOK'
<1> SUFFICES ASSUME TypeOK, [Next]_vars PROVE TypeOK'
  OBVIOUS
<1>1. CASE UNCHANGED vars
  BY <1>1 DEF vars, TypeOK
<1>2. CASE Next
  BY <1>2, WriterType, ReaderType, CrashType DEF Next
<1>3. QED BY <1>1, <1>2

\* In every behaviour each variable has its type, no channel is over its
\* capacity, and the row is locked exactly by the transaction that appends.
THEOREM TypeCorrect == Spec => []TypeOK
<1>1. Init => TypeOK
  BY InitType
<1>2. TypeOK /\ [Next]_vars => TypeOK'
  BY NextType
<1>3. QED BY <1>1, <1>2, PTL DEF Spec

-----------------------------------------------------------------------------
(* The log.                                                                 *)

\* What a transaction read under the row lock is still last_seq, and it has
\* something to append.
BaseIsLast ==
  \A w \in Writers : tx[w].pc = "append" =>
    tx[w].base = last /\ tx[w].n \in 1..MaxBlock

DenseInv == TypeOK /\ LogDense /\ BaseIsLast

\* The log starts empty.
LEMMA InitDense == Init => LogDense /\ BaseIsLast
BY DEF Init, LogDense, BaseIsLast, IdleTx

\* Each number of the log is that of a row, and no other row has it.
LEMMA DenseRows ==
  ASSUME TypeOK, LogDense
  PROVE  /\ \A e \in rows : e.seq \in 1..last
         /\ \A m \in 1..last : \E e \in rows : e.seq = m
BY DEF LogDense

\* A commit continues the log where it ended.
LEMMA CommitExtends ==
  ASSUME DenseInv, NEW w \in Writers, TxCommit(w)
  PROVE  LogDense' /\ BaseIsLast'
<1>1. /\ last \in Nat /\ tx[w] \in TxType /\ tx \in [Writers -> TxType]
      /\ tx[w].base = last /\ tx[w].n \in Nat
      /\ lock = w /\ \A v \in Writers : tx[v].pc = "append" => lock = v
  BY DEF DenseInv, TypeOK, TxCommit, BaseIsLast, TxType
<1>2. /\ rows' = rows \cup Block(w)
      /\ last' = last + tx[w].n
      /\ \A e \in Block(w) : e.seq \in (last + 1)..(last + tx[w].n)
      /\ \A m \in (last + 1)..(last + tx[w].n) : [seq |-> m, by |-> w] \in Block(w)
      /\ \A e \in Block(w) : e = [seq |-> e.seq, by |-> w]
  <2>1. \A m \in (last + 1)..(last + tx[w].n) : [seq |-> m, by |-> w] \in Block(w)
    <3>1. TAKE m \in (last + 1)..(last + tx[w].n)
    <3>2. m - last \in 1..tx[w].n /\ m = tx[w].base + (m - last)
      BY <1>1
    <3>3. QED BY <3>2 DEF Block
  <2>2. QED BY <1>1, <2>1 DEF TxCommit, Block
<1>3. \A e \in rows : e.seq \in 1..last
  BY DenseRows DEF DenseInv
<1>4. \A m \in 1..last' : \E e \in rows' : e.seq = m
  <2>1. TAKE m \in 1..last'
  <2>2. CASE m \in 1..last
    BY <1>2, <2>2, DenseRows DEF DenseInv
  <2>3. CASE m \notin 1..last
    <3>1. m \in (last + 1)..(last + tx[w].n)
      BY <1>1, <1>2, <2>3
    <3>2. QED BY <1>2, <3>1
  <2>4. QED BY <2>2, <2>3
<1>5. \A e \in rows' : e.seq \in 1..last'
  BY <1>1, <1>2, <1>3
<1>6. \A d, e \in rows' : d.seq = e.seq => d = e
  <2>1. \A d, e \in rows : d.seq = e.seq => d = e
    BY DEF DenseInv, LogDense
  <2>2. \A d \in rows, e \in Block(w) : d.seq # e.seq
    BY <1>1, <1>2, <1>3
  <2>3. \A d, e \in Block(w) : d.seq = e.seq => d = e
    BY <1>2
  <2>4. QED BY <1>2, <2>1, <2>2, <2>3
<1>7. LogDense'
  BY <1>4, <1>5, <1>6 DEF LogDense
<1>8. BaseIsLast'
  <2>1. \A v \in Writers : tx'[v].pc # "append"
    BY <1>1 DEF TxCommit
  <2>2. QED BY <2>1 DEF BaseIsLast
<1>9. QED BY <1>7, <1>8

\* Every step keeps the log dense.
LEMMA NextDense == DenseInv /\ [Next]_vars => DenseInv'
<1> SUFFICES ASSUME DenseInv, [Next]_vars PROVE DenseInv'
  OBVIOUS
<1>1. TypeOK'
  BY NextType DEF DenseInv
<1>2. LogDense' /\ BaseIsLast'
  <2>a. tx \in [Writers -> TxType] /\ last \in Nat
    BY DEF DenseInv, TypeOK
  <2>b. ASSUME UNCHANGED <<rows, last>>, UNCHANGED tx PROVE LogDense' /\ BaseIsLast'
    BY <2>b DEF DenseInv, LogDense, BaseIsLast
  <2>c. ASSUME UNCHANGED <<rows, last>>,
               \A w \in Writers : tx'[w].pc = "append" =>
                 tx'[w] = tx[w] \/ (tx'[w].base = last /\ tx'[w].n \in 1..MaxBlock)
        PROVE  LogDense' /\ BaseIsLast'
    BY <2>c DEF DenseInv, LogDense, BaseIsLast
  <2>1. CASE UNCHANGED vars
    BY <2>1, <2>b DEF vars
  <2>2. ASSUME NEW w \in Writers, NEW n \in 1..MaxBlock, TxBegin(w, n)
        PROVE  LogDense' /\ BaseIsLast'
    BY <2>a, <2>2, <2>c DEF TxBegin
  <2>3. ASSUME NEW w \in Writers, TxCommit(w)
        PROVE  LogDense' /\ BaseIsLast'
    BY <2>3, CommitExtends
  <2>4. ASSUME NEW w \in Writers, Notify(w) \/ TxAbort(w)
        PROVE  LogDense' /\ BaseIsLast'
    BY <2>a, <2>4, <2>c DEF Notify, TxAbort, IdleTx
  <2>5. CASE DeleteThread
    BY <2>5, <2>b DEF DeleteThread
  <2>6. ASSUME NEW r \in Readers,
               \/ \E p \in Pods : Connect(r, p)
               \/ TailStep(r) \/ Deliver(r) \/ Finish(r) \/ Disconnect(r)
        PROVE  LogDense' /\ BaseIsLast'
    <3>1. UNCHANGED <<rows, last>> /\ UNCHANGED tx
      BY <2>6 DEF Connect, TailStep, Subscribe, ReadEvents, Push, EndForward,
                  Wake, Tick, Deliver, Finish, Disconnect
    <3>2. QED BY <2>b, <3>1
  <2>7. ASSUME NEW p \in Pods, Crash(p)
        PROVE  LogDense' /\ BaseIsLast'
    BY <2>a, <2>7, <2>c DEF Crash, IdleTx
  <2>8. QED BY <2>1, <2>2, <2>3, <2>4, <2>5, <2>6, <2>7 DEF Next, TxStep
<1>3. QED BY <1>1, <1>2 DEF DenseInv

\* The invariant behind the theorems about the log and its readers.
LEMMA DenseInvariant == Spec => []DenseInv
<1>1. Init => DenseInv
  BY InitType, InitDense DEF DenseInv
<1>2. DenseInv /\ [Next]_vars => DenseInv'
  BY NextDense
<1>3. QED BY <1>1, <1>2, PTL DEF Spec

\* Whatever writers, pods, failures and crashes there are, the log has one
\* row for every number up to last_seq: appends are serialised by the row lock.
THEOREM LogIsDense == Spec => []LogDense
<1>1. DenseInv => LogDense
  BY DEF DenseInv
<1>2. QED BY <1>1, DenseInvariant, PTL

-----------------------------------------------------------------------------
(* The stream.  A connection c of reader r, who has received g, against the *)
(* committed rows R.                                                        *)

\* The number after the last one that the reader has or that lies in the
\* channel.
Ahead(c, g, r) == First[r] + Len(g) + Len(c.out)

\* The channel continues what the reader has.
Carried(c, g, r, R) ==
  \A k \in DOMAIN c.out :
    c.out[k] \in R /\ c.out[k].seq = First[r] + Len(g) + k - 1

\* Between two pages the tail stands where its channel ends.
Placed(c, g, r) ==
  c.pc \in {"subscribe", "read", "wait"} => c.next = Ahead(c, g, r)

\* Within a page, what is left of it continues the channel without a gap.
Paging(c, g, r, R) ==
  c.pc = "push" =>
    /\ c.next + c.n = Ahead(c, g, r)
    /\ c.page \subseteq R
    /\ \A e \in c.page :
         /\ e.seq >= Ahead(c, g, r)
         /\ \A m \in Ahead(c, g, r)..e.seq : \E d \in c.page : d.seq = m

InStep(c, g, r, R) ==
  /\ Carried(c, g, r, R)
  /\ Placed(c, g, r)
  /\ Paging(c, g, r, R)
  /\ c.pc = "off" => c.out = <<>>

StreamInv ==
  /\ StreamIsSeamless
  /\ \A r \in Readers : InStep(conn[r], got[r], r, rows)

\* What holds against some rows holds against more.
LEMMA InStepGrows ==
  ASSUME NEW c, NEW g, NEW r, NEW R, NEW S, R \subseteq S, InStep(c, g, r, R)
  PROVE  InStep(c, g, r, S)
BY DEF InStep, Carried, Placed, Paging

\* No connection is in step with everything.
LEMMA NoConnInStep ==
  ASSUME NEW g, NEW r, NEW R
  PROVE  InStep(NoConn, g, r, R)
BY DEF InStep, Carried, Placed, Paging, NoConn

\* No reader has anything at first.
LEMMA InitStream == Init => StreamInv
<1> SUFFICES ASSUME Init PROVE StreamInv
  OBVIOUS
<1>1. StreamIsSeamless
  BY DEF Init, StreamIsSeamless
<1>2. \A r \in Readers : InStep(conn[r], got[r], r, rows)
  BY NoConnInStep DEF Init
<1>3. QED BY <1>1, <1>2 DEF StreamInv

\* What writers do leaves the readers in step: rows are only added.
LEMMA RowsStream ==
  ASSUME StreamInv, rows \subseteq rows', got' = got,
         \A r \in Readers : \/ conn'[r] = conn[r]
                            \/ conn'[r] = [conn[r] EXCEPT !.wake = TRUE]
                            \/ conn'[r] = NoConn
  PROVE  StreamInv'
<1>1. StreamIsSeamless'
  BY DEF StreamInv, StreamIsSeamless
<1>2. ASSUME NEW r \in Readers
      PROVE  InStep(conn'[r], got'[r], r, rows')
  <2>1. InStep(conn[r], got[r], r, rows')
    BY InStepGrows DEF StreamInv
  <2>2. InStep([conn[r] EXCEPT !.wake = TRUE], got[r], r, rows')
    BY <2>1 DEF InStep, Carried, Placed, Paging, Ahead
  <2>3. QED BY <2>1, <2>2, NoConnInStep
<1>3. QED BY <1>1, <1>2 DEF StreamInv

\* One connection goes on to another one in step.
LEMMA ConnStream ==
  ASSUME StreamInv, conn \in [Readers -> ConnType], NEW r \in Readers, NEW c,
         conn' = [conn EXCEPT ![r] = c], UNCHANGED <<rows, got>>,
         InStep(c, got[r], r, rows)
  PROVE  StreamInv'
<1>1. StreamIsSeamless'
  BY DEF StreamInv, StreamIsSeamless
<1>2. \A q \in Readers : InStep(conn'[q], got'[q], q, rows')
  BY DEF StreamInv
<1>3. QED BY <1>1, <1>2 DEF StreamInv

\* A dense log is finite.
LEMMA RowsFinite ==
  ASSUME TypeOK, LogDense
  PROVE  IsFiniteSet(rows)
<1> DEFINE f == [e \in rows |-> e.seq]
<1>1. f \in Injection(rows, 1..last)
  BY DenseRows DEF LogDense, Injection, IsInjective
<1>2. IsFiniteSet(1..last)
  BY FS_Interval DEF TypeOK
<1>3. QED BY <1>1, <1>2, FS_Injection

\* A page begins at the number asked for and has no gap.
LEMMA PageDense ==
  ASSUME TypeOK, LogDense, NEW from \in Nat \ {0}, NEW e \in Page(from)
  PROVE  /\ e.seq >= from
         /\ \A m \in from..e.seq : \E d \in Page(from) : d.seq = m
<1> DEFINE below(k) == {d \in rows : d.seq >= from /\ d.seq < k}
<1>1. e \in rows /\ e.seq >= from /\ Cardinality(below(e.seq)) < EventBatch
  BY DEF Page
<1>2. ASSUME NEW m \in from..e.seq
      PROVE  \E d \in Page(from) : d.seq = m
  <2>1. e.seq \in 1..last
    BY <1>1, DenseRows
  <2>2. m \in 1..last /\ m >= from
    BY <2>1 DEF TypeOK
  <2>3. PICK d \in rows : d.seq = m
    BY <2>2, DenseRows
  <2>4. below(m) \subseteq below(e.seq)
    <3>1. \A x \in rows : x.seq \in Nat
      BY DenseRows DEF TypeOK
    <3>2. QED BY <2>1, <3>1
  <2>5. IsFiniteSet(below(e.seq))
    BY RowsFinite, FS_Subset
  <2>6. /\ Cardinality(below(m)) <= Cardinality(below(e.seq))
        /\ Cardinality(below(m)) \in Nat /\ Cardinality(below(e.seq)) \in Nat
    BY <2>4, <2>5, FS_Subset, FS_CardinalityType
  <2>7. Cardinality(below(d.seq)) < EventBatch
    BY <1>1, <2>3, <2>6, ConstantsAssumption
  <2>8. QED BY <2>2, <2>3, <2>7 DEF Page
<1>3. QED BY <1>1, <1>2

\* A reader that connects asks for the number after its last one.
LEMMA StartInStep ==
  ASSUME TypeOK, StreamInv, NEW r \in Readers
  PROVE  StartSeq(r) = First[r] + Len(got[r])
<1>1. ReadersTyped
  BY TypeParts
<1>2. First[r] \in Nat \ {0}
  BY <1>1, StartTyped
<1>3. CASE got[r] = <<>>
  BY <1>2, <1>3 DEF StartSeq
<1>4. CASE got[r] # <<>>
  <2>1. got[r] \in Seq(RowType) /\ Len(got[r]) \in Nat \ {0} /\ Len(got[r]) \in DOMAIN got[r]
    BY <1>1, <1>4 DEF ReadersTyped
  <2>2. got[r][Len(got[r])].seq = First[r] + Len(got[r]) - 1
    BY <2>1 DEF StreamInv, StreamIsSeamless
  <2>3. QED BY <1>2, <1>4, <2>1, <2>2 DEF StartSeq, Max2
<1>5. QED BY <1>3, <1>4

\* What a reader's connection does keeps it in step.
LEMMA ReaderStream ==
  ASSUME TypeOK, LogDense, StreamInv, NEW r \in Readers,
         \/ \E p \in Pods : Connect(r, p)
         \/ TailStep(r) \/ Deliver(r) \/ Finish(r) \/ Disconnect(r)
  PROVE  StreamInv'
<1>a. /\ conn \in [Readers -> ConnType] /\ got \in [Readers -> Seq(RowType)]
      /\ conn[r] \in ConnType /\ conn[r].out \in Seq(RowType)
      /\ got[r] \in Seq(RowType) /\ Len(got[r]) \in Nat
      /\ Len(conn[r].out) \in Nat
      /\ conn[r].next \in Nat \ {0} /\ conn[r].n \in Nat
      /\ First[r] \in Nat \ {0}
  <2>1. ReadersTyped
    BY TypeParts
  <2>2. conn[r] \in ConnType /\ conn[r].out \in Seq(RowType) /\ got[r] \in Seq(RowType)
    BY <2>1 DEF ReadersTyped, ConnType
  <2>3. conn[r].next \in Nat \ {0} /\ conn[r].n \in Nat
    BY <2>2 DEF ConnType
  <2>4. QED BY <2>1, <2>2, <2>3, StartTyped DEF ReadersTyped
<1>b. InStep(conn[r], got[r], r, rows)
  BY DEF StreamInv
<1> DEFINE n == Len(got[r])
           l == Len(conn[r].out)
<1>c. First[r] \in Nat /\ n \in Nat /\ l \in Nat
  BY <1>a
<1>d. Ahead(conn[r], got[r], r) = First[r] + n + l
  BY DEF Ahead
<1> HIDE DEF n, l
<1>1. ASSUME NEW p \in Pods, Connect(r, p)
      PROVE  StreamInv'
  <2> DEFINE c == [NoConn EXCEPT !.pc = "subscribe", !.pod = p, !.next = StartSeq(r)]
  <2>1. c.pc = "subscribe" /\ c.out = <<>> /\ c.next = First[r] + Len(got[r])
    BY StartInStep DEF NoConn
  <2>2. conn' = [conn EXCEPT ![r] = c] /\ UNCHANGED <<rows, got>>
    BY <1>1 DEF Connect
  <2> HIDE DEF c
  <2>3. InStep(c, got[r], r, rows)
    BY <1>a, <2>1 DEF InStep, Carried, Placed, Paging, Ahead
  <2>4. QED BY <1>a, <2>2, <2>3, ConnStream
<1>2. CASE Subscribe(r)
  <2> DEFINE c == [conn[r] EXCEPT !.pc = "read", !.sub = TRUE]
  <2>1. c.pc = "read" /\ c.out = conn[r].out /\ c.next = conn[r].next
    BY <1>a DEF ConnType
  <2>2. conn' = [conn EXCEPT ![r] = c] /\ UNCHANGED <<rows, got>>
    BY <1>a, <1>2 DEF Subscribe
  <2> HIDE DEF c
  <2>3. InStep(c, got[r], r, rows)
    BY <1>b, <1>2, <2>1 DEF Subscribe, InStep, Carried, Placed, Paging, Ahead
  <2>4. QED BY <1>a, <2>2, <2>3, ConnStream
<1>3. CASE ReadEvents(r)
  <2> DEFINE from == conn[r].next
             c == [conn[r] EXCEPT !.pc = "push", !.n = 0, !.page = Page(from)]
             d == [conn[r] EXCEPT !.pc = "closed", !.sub = FALSE]
  <2>1. /\ c.pc = "push" /\ c.out = conn[r].out /\ c.next = from
        /\ c.n = 0 /\ c.page = Page(from)
    BY <1>a DEF ConnType
  <2>2. d.pc = "closed" /\ d.out = conn[r].out
    BY <1>a DEF ConnType
  <2>3. /\ conn' = [conn EXCEPT ![r] = c] \/ conn' = [conn EXCEPT ![r] = d]
        /\ UNCHANGED <<rows, got>>
    BY <1>a, <1>3 DEF ReadEvents
  <2>4. from = Ahead(conn[r], got[r], r)
    BY <1>b, <1>3 DEF ReadEvents, InStep, Placed
  <2>5. \A e \in Page(from) :
          e.seq >= from /\ \A m \in from..e.seq : \E x \in Page(from) : x.seq = m
    BY <1>a, PageDense
  <2>6. Page(from) \subseteq rows
    BY DEF Page
  <2> HIDE DEF c, d, from
  <2>7. InStep(c, got[r], r, rows)
    <3>1. Carried(c, got[r], r, rows) /\ Placed(c, got[r], r)
      BY <1>b, <2>1 DEF InStep, Carried, Placed
    <3>2. Ahead(c, got[r], r) = from
      BY <2>1, <2>4 DEF Ahead
    <3>3. from \in Nat
      BY <1>a DEF from
    <3>4. Paging(c, got[r], r, rows)
      BY <2>1, <2>5, <2>6, <3>2, <3>3 DEF Paging
    <3>5. QED BY <2>1, <3>1, <3>4 DEF InStep
  <2>8. InStep(d, got[r], r, rows)
    BY <1>b, <2>2 DEF InStep, Carried, Placed, Paging
  <2>9. QED BY <1>a, <2>3, <2>7, <2>8, ConnStream
<1>4. CASE Push(r)
  <2> DEFINE page == conn[r].page
             at == Ahead(conn[r], got[r], r)
  <2>1. PICK e \in page :
          /\ \A x \in page : e.seq <= x.seq
          /\ conn' = [conn EXCEPT ![r].page = page \ {e}, ![r].n = @ + 1,
                                  ![r].out = Append(@, e)]
          /\ UNCHANGED <<rows, got>>
    BY <1>4 DEF Push
  <2>2. /\ conn[r].next + conn[r].n = at /\ page \subseteq rows
        /\ \A x \in page : /\ x.seq >= at
                           /\ \A m \in at..x.seq : \E y \in page : y.seq = m
    BY <1>b, <1>4 DEF Push, InStep, Paging
  <2>3. at \in Nat /\ \A x \in page : x.seq \in Nat
    BY <1>a, <2>2, DenseRows DEF Ahead, TypeOK
  <2>4. e.seq = at
    <3>1. at \in at..e.seq
      BY <2>1, <2>2, <2>3
    <3>2. PICK y \in page : y.seq = at
      BY <2>1, <2>2, <3>1
    <3>3. QED BY <2>1, <2>2, <2>3, <3>2
  <2> DEFINE c == [conn[r] EXCEPT !.page = page \ {e}, !.n = conn[r].n + 1,
                                  !.out = Append(conn[r].out, e)]
  <2>5. /\ c.pc = "push" /\ c.out = Append(conn[r].out, e)
        /\ c.next = conn[r].next /\ c.n = conn[r].n + 1 /\ c.page = page \ {e}
    BY <1>a, <1>4 DEF ConnType, Push
  <2>6. conn' = [conn EXCEPT ![r] = c]
    BY <1>a, <2>1
  <2> HIDE DEF c
  <2>7. e \in RowType /\ e \in rows
    BY <2>2 DEF TypeOK
  <2>8. /\ Len(c.out) = Len(conn[r].out) + 1
        /\ \A k \in DOMAIN conn[r].out : c.out[k] = conn[r].out[k]
        /\ c.out[Len(conn[r].out) + 1] = e
        /\ DOMAIN conn[r].out = 1..Len(conn[r].out)
        /\ DOMAIN c.out = 1..(Len(conn[r].out) + 1)
    BY <1>a, <2>5, <2>7, AppendProperties, LenProperties
  <2>9. Ahead(c, got[r], r) = at + 1
    <3>1. Len(c.out) = l + 1
      BY <2>8 DEF l
    <3>2. Ahead(c, got[r], r) = First[r] + n + (l + 1)
      BY <3>1 DEF Ahead, n
    <3>3. QED BY <1>c, <1>d, <3>2
  <2>10. Carried(c, got[r], r, rows)
    <3>1. ASSUME NEW k \in DOMAIN c.out
          PROVE  c.out[k] \in rows /\ c.out[k].seq = First[r] + Len(got[r]) + k - 1
      <4>1. CASE k \in DOMAIN conn[r].out
        BY <1>b, <2>8, <4>1 DEF InStep, Carried
      <4>2. CASE k = Len(conn[r].out) + 1
        BY <1>a, <2>4, <2>7, <2>8, <4>2 DEF Ahead
      <4>3. QED BY <1>a, <2>8, <3>1, <4>1, <4>2
    <3>2. QED BY <3>1 DEF Carried
  <2>11. Paging(c, got[r], r, rows)
    <3>1. c.next + c.n = at + 1
      BY <1>a, <2>2, <2>5
    <3>2. ASSUME NEW x \in page \ {e}
          PROVE  x.seq >= at + 1 /\ \A m \in (at + 1)..x.seq :
                                      \E y \in page \ {e} : y.seq = m
      <4>1. x.seq # e.seq
        BY <2>1, <2>2, <3>2 DEF LogDense
      <4>2. x.seq >= at + 1
        BY <2>2, <2>3, <2>4, <4>1
      <4>3. \A m \in (at + 1)..x.seq : m \in at..x.seq /\ m # e.seq
        BY <2>3, <2>4
      <4>4. QED BY <2>2, <4>2, <4>3
    <3>3. QED BY <2>2, <2>5, <2>9, <3>1, <3>2 DEF Paging
  <2>12. InStep(c, got[r], r, rows)
    BY <2>5, <2>10, <2>11 DEF InStep, Placed
  <2>13. QED BY <1>a, <2>1, <2>6, <2>12, ConnStream
<1>5. CASE EndForward(r)
  <2> DEFINE c == [conn[r] EXCEPT !.next = conn[r].next + conn[r].n,
                     !.pc = IF conn[r].n = EventBatch THEN "read" ELSE "wait"]
  <2>1. /\ c.pc \in {"read", "wait"} /\ c.out = conn[r].out
        /\ c.next = conn[r].next + conn[r].n
    BY <1>a DEF ConnType
  <2>2. conn' = [conn EXCEPT ![r] = c] /\ UNCHANGED <<rows, got>>
    BY <1>a, <1>5 DEF EndForward
  <2> HIDE DEF c
  <2>3. InStep(c, got[r], r, rows)
    BY <1>b, <1>5, <2>1 DEF EndForward, InStep, Carried, Placed, Paging, Ahead
  <2>4. QED BY <1>a, <2>2, <2>3, ConnStream
<1>6. CASE Wake(r) \/ Tick(r)
  <2> DEFINE c == [conn[r] EXCEPT !.pc = "read", !.wake = FALSE]
             d == [conn[r] EXCEPT !.pc = "read"]
  <2>1. /\ c.pc = "read" /\ c.out = conn[r].out /\ c.next = conn[r].next
        /\ d.pc = "read" /\ d.out = conn[r].out /\ d.next = conn[r].next
    BY <1>a DEF ConnType
  <2>2. /\ conn' = [conn EXCEPT ![r] = c] \/ conn' = [conn EXCEPT ![r] = d]
        /\ conn[r].pc = "wait" /\ UNCHANGED <<rows, got>>
    BY <1>a, <1>6 DEF Wake, Tick
  <2> HIDE DEF c, d
  <2>3. InStep(c, got[r], r, rows) /\ InStep(d, got[r], r, rows)
    BY <1>b, <2>1, <2>2 DEF InStep, Carried, Placed, Paging, Ahead
  <2>4. QED BY <1>a, <2>2, <2>3, ConnStream
<1>8. CASE Finish(r) \/ Disconnect(r)
  <2>1. conn' = [conn EXCEPT ![r] = NoConn] /\ UNCHANGED <<rows, got>>
    BY <1>8 DEF Finish, Disconnect
  <2>2. QED BY <1>a, <2>1, NoConnInStep, ConnStream
<1>9. CASE Deliver(r)
  <2> DEFINE out == conn[r].out
             g == Append(got[r], Head(out))
             c == [conn[r] EXCEPT !.out = Tail(out)]
  <2>1. /\ out # <<>> /\ UNCHANGED rows
        /\ got' = [got EXCEPT ![r] = g] /\ conn' = [conn EXCEPT ![r] = c]
    BY <1>a, <1>9 DEF Deliver
  <2>2. /\ Head(out) = out[1] /\ Head(out) \in RowType /\ 1 \in DOMAIN out
        /\ Len(Tail(out)) = Len(out) - 1 /\ DOMAIN Tail(out) = 1..(Len(out) - 1)
        /\ \A k \in 1..(Len(out) - 1) : Tail(out)[k] = out[k + 1] /\ k + 1 \in DOMAIN out
    BY <1>a, <2>1, HeadTailProperties, LenProperties
  <2>3. /\ Len(g) = Len(got[r]) + 1 /\ DOMAIN g = 1..(Len(got[r]) + 1)
        /\ \A k \in 1..Len(got[r]) : g[k] = got[r][k]
        /\ g[Len(got[r]) + 1] = out[1]
    BY <1>a, <2>2, AppendProperties, LenProperties
  <2>4. out[1] \in rows /\ out[1].seq = First[r] + Len(got[r])
    BY <1>a, <1>b, <2>2 DEF InStep, Carried
  <2>5. /\ c.pc = conn[r].pc /\ c.out = Tail(out) /\ c.next = conn[r].next
        /\ c.n = conn[r].n /\ c.page = conn[r].page
    BY <1>a DEF ConnType
  <2> HIDE DEF c, g
  <2>6. InStep(c, g, r, rows)
    <3>1. Ahead(c, g, r) = Ahead(conn[r], got[r], r)
      <4>1. Len(g) = n + 1 /\ Len(c.out) = l - 1
        BY <2>2, <2>3, <2>5 DEF n, l
      <4>2. Ahead(c, g, r) = First[r] + (n + 1) + (l - 1)
        BY <4>1 DEF Ahead
      <4>3. QED BY <1>c, <1>d, <4>2
    <3>2. Carried(c, g, r, rows)
      <4>1. ASSUME NEW k \in DOMAIN c.out
            PROVE  c.out[k] \in rows /\ c.out[k].seq = First[r] + Len(g) + k - 1
        <5>1. k \in 1..(l - 1) /\ c.out[k] = out[k + 1] /\ k + 1 \in DOMAIN out
          BY <2>2, <2>5, <4>1 DEF l
        <5>2. /\ out[k + 1] \in rows
              /\ out[k + 1].seq = First[r] + Len(got[r]) + (k + 1) - 1
          BY <1>b, <5>1 DEF InStep, Carried
        <5>3. Len(g) = n + 1
          BY <2>3 DEF n
        <5>4. First[r] + n + (k + 1) - 1 = First[r] + Len(g) + k - 1
          BY <1>c, <5>1, <5>3
        <5>5. QED BY <5>1, <5>2, <5>4 DEF n
      <4>2. QED BY <4>1 DEF Carried
    <3>3. Placed(c, g, r) /\ Paging(c, g, r, rows)
      BY <1>b, <2>5, <3>1 DEF InStep, Placed, Paging
    <3>4. c.pc # "off"
      BY <1>b, <2>1, <2>5 DEF InStep
    <3>5. QED BY <3>2, <3>3, <3>4 DEF InStep
  <2>7. StreamIsSeamless'
    <3>1. ASSUME NEW q \in Readers, NEW k \in DOMAIN got'[q]
          PROVE  got'[q][k] \in rows' /\ got'[q][k].seq = First[q] + k - 1
      <4>1. CASE q # r
        BY <1>a, <2>1, <3>1, <4>1 DEF StreamInv, StreamIsSeamless
      <4>2. CASE q = r
        <5>1. got'[q] = g /\ k \in 1..(Len(got[r]) + 1)
          BY <1>a, <2>1, <2>3, <3>1, <4>2
        <5>2. CASE k \in 1..Len(got[r])
          <6>1. k \in DOMAIN got[r]
            BY <1>a, <5>2, LenProperties
          <6>2. QED BY <2>1, <2>3, <4>2, <5>1, <5>2, <6>1
                    DEF StreamInv, StreamIsSeamless
        <5>3. CASE k = Len(got[r]) + 1
          BY <1>a, <2>1, <2>3, <2>4, <4>2, <5>1, <5>3
        <5>4. QED BY <1>a, <5>1, <5>2, <5>3
      <4>3. QED BY <4>1, <4>2
    <3>2. QED BY <3>1 DEF StreamIsSeamless, First
  <2>8. \A q \in Readers : InStep(conn'[q], got'[q], q, rows')
    BY <1>a, <2>1, <2>6 DEF StreamInv
  <2>9. QED BY <2>7, <2>8 DEF StreamInv
<1>10. QED BY <1>1, <1>2, <1>3, <1>4, <1>5, <1>6, <1>8, <1>9 DEF TailStep

\* Every step keeps the readers in step.
LEMMA NextStream == TypeOK /\ LogDense /\ StreamInv /\ [Next]_vars => StreamInv'
<1> SUFFICES ASSUME TypeOK, LogDense, StreamInv, [Next]_vars PROVE StreamInv'
  OBVIOUS
<1>1. ASSUME UNCHANGED <<conn, got>>, rows \subseteq rows' PROVE StreamInv'
  BY <1>1, RowsStream
<1>2. CASE UNCHANGED vars
  BY <1>1, <1>2 DEF vars
<1>3. ASSUME NEW w \in Writers, NEW n \in 1..MaxBlock, TxBegin(w, n)
      PROVE  StreamInv'
  BY <1>1, <1>3 DEF TxBegin
<1>4. ASSUME NEW w \in Writers, TxCommit(w) \/ TxAbort(w)
      PROVE  StreamInv'
  BY <1>1, <1>4 DEF TxCommit, TxAbort
<1>5. ASSUME NEW w \in Writers, Notify(w)
      PROVE  StreamInv'
  BY <1>5, RowsStream DEF Notify
<1>6. CASE DeleteThread
  BY <1>1, <1>6 DEF DeleteThread
<1>7. ASSUME NEW p \in Pods, Crash(p)
      PROVE  StreamInv'
  BY <1>7, RowsStream DEF Crash
<1>8. ASSUME NEW r \in Readers,
             \/ \E p \in Pods : Connect(r, p)
             \/ TailStep(r) \/ Deliver(r) \/ Finish(r) \/ Disconnect(r)
      PROVE  StreamInv'
  BY <1>8, ReaderStream
<1>9. QED BY <1>2, <1>3, <1>4, <1>5, <1>6, <1>7, <1>8 DEF Next, TxStep

\* However many readers connect, lose their connection and come back, to any
\* pod and at any moment, each receives a gapless stretch of the log: counting
\* the rows pushed, as forward does, never loses or repeats one.
THEOREM SeamlessStream == Spec => []StreamIsSeamless
<1>1. Init => StreamInv
  BY InitStream
<1>2. DenseInv /\ StreamInv /\ [Next]_vars => StreamInv'
  BY NextStream DEF DenseInv
<1>3. StreamInv => StreamIsSeamless
  BY DEF StreamInv
<1>4. QED BY <1>1, <1>2, <1>3, DenseInvariant, PTL DEF Spec

-----------------------------------------------------------------------------
(* The abstract log.                                                        *)

\* The row with number k.
At(R, k) == CHOOSE e \in R : e.seq = k

\* What the refinement mapping makes of the state.
LogImage == [k \in 1..last |-> At(rows, k).by]

ViewImage == [r \in Readers |-> [k \in DOMAIN got[r] |-> got[r][k].by]]

\* A function on 1..n is a sequence of length n.
LEMMA FunctionIsSeq ==
  ASSUME NEW S, NEW n \in Nat, NEW f \in [1..n -> S]
  PROVE  f \in Seq(S) /\ Len(f) = n
<1>1. f \in Seq(S)
  BY SeqDef
<1>2. Len(f) \in Nat /\ DOMAIN f = 1..Len(f)
  BY <1>1, LenProperties
<1>3. 1..Len(f) = 1..n
  BY <1>2
<1>4. Len(f) = n
  BY <1>2, <1>3
<1>5. QED BY <1>1, <1>4

\* In a dense log there is exactly one row to find.
LEMMA RowFound ==
  ASSUME NEW R, NEW n \in Nat, {e.seq : e \in R} = 1..n,
         \A d, e \in R : d.seq = e.seq => d = e, NEW k \in 1..n
  PROVE  /\ At(R, k) \in R /\ At(R, k).seq = k
         /\ \A e \in R : e.seq = k => e = At(R, k)
<1>1. PICK e \in R : e.seq = k
  OBVIOUS
<1>2. At(R, k) \in R /\ At(R, k).seq = k
  BY <1>1 DEF At
<1>3. QED BY <1>2

\* A commit extends the abstract log by one block.
LEMMA CommitImage ==
  ASSUME DenseInv, NEW w \in Writers, TxCommit(w)
  PROVE  /\ tx[w].n \in 1..MaxBlock
         /\ LogImage' = LogImage \o [k \in 1..tx[w].n |-> w]
<1> DEFINE n == tx[w].n
           s == LogImage
           t == [k \in 1..n |-> w]
           u == LogImage'
<1>1. /\ n \in 1..MaxBlock /\ n \in Nat /\ last \in Nat
      /\ tx[w].base = last /\ last' = last + n /\ last' \in Nat
      /\ rows' = rows \cup Block(w)
  BY ConstantsAssumption DEF DenseInv, TypeOK, BaseIsLast, TxCommit
<1>2. TypeOK' /\ LogDense'
  <2>1. Next
    BY DEF Next, TxStep
  <2>2. QED BY <2>1, NextDense DEF DenseInv
<1>3. \A k \in 1..last :
        /\ At(rows, k) \in rows /\ At(rows, k).seq = k
  BY <1>1, RowFound DEF DenseInv, LogDense
<1>4. \A k \in 1..last' :
        /\ At(rows', k) \in rows' /\ At(rows', k).seq = k
        /\ \A e \in rows' : e.seq = k => e = At(rows', k)
  <2> DEFINE R == rows'
             m == last'
  <2>1. {e.seq : e \in R} = 1..m /\ \A d, e \in R : d.seq = e.seq => d = e
    BY <1>2 DEF LogDense
  <2>2. m \in Nat
    BY <1>1
  <2> HIDE DEF R, m
  <2>3. \A k \in 1..m : /\ At(R, k) \in R /\ At(R, k).seq = k
                        /\ \A e \in R : e.seq = k => e = At(R, k)
    BY <2>1, <2>2, RowFound
  <2>4. QED BY <2>3 DEF R, m
<1>5. \A e \in rows \cup rows' : e.by \in Writers
  BY <1>2 DEF DenseInv, TypeOK, RowType
<1>6. s \in Seq(Writers) /\ Len(s) = last
  <2>1. LogImage \in [1..last -> Writers]
    BY <1>3, <1>5 DEF LogImage
  <2>2. QED BY <1>1, <2>1, FunctionIsSeq
<1>7. u \in Seq(Writers) /\ Len(u) = last'
  <2>1. LogImage' \in [1..last' -> Writers]
    BY <1>4, <1>5 DEF LogImage
  <2>2. QED BY <1>1, <2>1, FunctionIsSeq
<1>8. t \in Seq(Writers) /\ Len(t) = n
  <2>1. t \in [1..n -> Writers]
    OBVIOUS
  <2>2. QED BY <1>1, <2>1, FunctionIsSeq
<1>9. ASSUME NEW k \in 1..last
      PROVE  u[k] = s[k]
  <2>1. k \in 1..last'
    BY <1>1
  <2>2. At(rows, k) = At(rows', k)
    BY <1>1, <1>3, <1>4, <2>1
  <2>3. QED BY <2>1, <2>2 DEF LogImage
<1>10. ASSUME NEW k \in (last + 1)..(last + n)
       PROVE  u[k] = w
  <2>1. k \in 1..last' /\ k - last \in 1..n /\ k = tx[w].base + (k - last)
    BY <1>1
  <2>2. [seq |-> k, by |-> w] \in rows'
    BY <1>1, <2>1 DEF Block
  <2>3. At(rows', k) = [seq |-> k, by |-> w]
    BY <1>4, <2>1, <2>2
  <2>4. QED BY <2>1, <2>3 DEF LogImage
<1>11. \A k \in 1..(last + n) : t[k - last] = w \/ k \in 1..last
  BY <1>1
<1> HIDE DEF n, s, t, u
<1>12. /\ s \o t \in Seq(Writers) /\ Len(s \o t) = last + n
       /\ \A k \in 1..(last + n) : (s \o t)[k] = IF k <= last THEN s[k] ELSE t[k - last]
  BY <1>6, <1>8, ConcatProperties
<1>13. \A k \in 1..(last + n) : u[k] = (s \o t)[k]
  BY <1>1, <1>9, <1>10, <1>11, <1>12
<1>14. u = s \o t
  BY <1>1, <1>7, <1>12, <1>13, SeqEqual
<1>15. QED BY <1>1, <1>14 DEF n, s, t, u

\* The writers of a longer list of rows.
LEMMA WritersAppend ==
  ASSUME NEW g \in Seq(RowType), NEW e \in RowType
  PROVE  LET v == [k \in DOMAIN g |-> g[k].by]
             h == Append(g, e)
         IN Len(v) = Len(g) /\ [k \in DOMAIN h |-> h[k].by] = Append(v, e.by)
<1> DEFINE v == [k \in DOMAIN g |-> g[k].by]
           h == Append(g, e)
           x == [k \in DOMAIN h |-> h[k].by]
           l == Len(g)
<1>1. /\ l \in Nat /\ DOMAIN g = 1..l /\ \A k \in 1..l : g[k] \in RowType
      /\ h \in Seq(RowType) /\ Len(h) = l + 1
      /\ \A k \in 1..l : h[k] = g[k]
      /\ h[l + 1] = e
  BY AppendProperties, LenProperties
<1>2. DOMAIN h = 1..(l + 1) /\ \A k \in 1..(l + 1) : h[k] \in RowType
  BY <1>1, LenProperties
<1>3. v \in Seq(Writers) /\ Len(v) = l
  <2>1. v \in [1..l -> Writers]
    BY <1>1 DEF RowType
  <2>2. QED BY <1>1, <2>1, FunctionIsSeq
<1>4. x \in Seq(Writers) /\ Len(x) = l + 1
  <2>1. x \in [1..(l + 1) -> Writers]
    BY <1>2 DEF RowType
  <2>2. QED BY <1>1, <2>1, FunctionIsSeq
<1>5. \A k \in 1..(l + 1) : x[k] = IF k \in 1..l THEN v[k] ELSE e.by
  BY <1>1, <1>2
<1>6. e.by \in Writers
  BY DEF RowType
<1> HIDE DEF v, x, l
<1>7. /\ Append(v, e.by) \in Seq(Writers) /\ Len(Append(v, e.by)) = l + 1
      /\ \A k \in 1..l : Append(v, e.by)[k] = v[k]
      /\ Append(v, e.by)[l + 1] = e.by
  BY <1>3, <1>6, AppendProperties
<1>8. \A k \in 1..(l + 1) : x[k] = Append(v, e.by)[k]
  BY <1>1, <1>5, <1>7
<1>9. x = Append(v, e.by)
  BY <1>4, <1>7, <1>8, SeqEqual
<1>10. QED BY <1>3, <1>9 DEF v, x, l

\* A delivery shows the reader the next event of the abstract log.
LEMMA DeliverImage ==
  ASSUME DenseInv, StreamInv, NEW r \in Readers, Deliver(r)
  PROVE  LET k == First[r] + Len(ViewImage[r])
         IN /\ k \in DOMAIN LogImage
            /\ ViewImage' = [ViewImage EXCEPT ![r] = Append(@, LogImage[k])]
<1> DEFINE g == got[r]
           e == Head(conn[r].out)
           k == First[r] + Len(g)
<1>1. /\ got \in [Readers -> Seq(RowType)] /\ g \in Seq(RowType)
      /\ conn[r].out \in Seq(RowType) /\ conn[r].out # <<>>
      /\ got' = [got EXCEPT ![r] = Append(g, e)]
  BY DEF DenseInv, TypeOK, ConnType, Deliver
<1>2. e = conn[r].out[1] /\ 1 \in DOMAIN conn[r].out
  BY <1>1, HeadTailProperties, LenProperties
<1>3. First[r] \in Nat /\ Len(g) \in Nat
  BY <1>1, StartTyped, TypeParts DEF DenseInv
<1>4. e \in rows /\ e.seq = k + 1 - 1
  BY <1>2 DEF StreamInv, InStep, Carried
<1> HIDE DEF g, e
<1>5. e.seq = k
  BY <1>3, <1>4
<1> HIDE DEF k
<1>6. e \in RowType /\ k \in 1..last /\ last \in Nat
  BY <1>4, <1>5, DenseRows DEF DenseInv, TypeOK
<1>7. e = At(rows, k)
  BY <1>4, <1>5, <1>6, RowFound DEF DenseInv, LogDense
<1>8. DOMAIN LogImage = 1..last /\ LogImage[k] = e.by
  BY <1>6, <1>7 DEF LogImage
<1>9. /\ ViewImage[r] = [j \in DOMAIN g |-> g[j].by]
      /\ Len(ViewImage[r]) = Len(g)
  BY <1>1, <1>6, WritersAppend DEF ViewImage, g
<1>10. ViewImage' = [ViewImage EXCEPT ![r] = Append(@, e.by)]
  <2>1. ViewImage'[r] = Append(ViewImage[r], e.by)
    <3>1. got'[r] = Append(g, e)
      BY <1>1
    <3>2. ViewImage'[r] = [j \in DOMAIN Append(g, e) |-> Append(g, e)[j].by]
      BY <3>1 DEF ViewImage
    <3>3. QED BY <1>1, <1>6, <1>9, <3>2, WritersAppend
  <2>2. \A q \in Readers : q # r => ViewImage'[q] = ViewImage[q]
    BY <1>1 DEF ViewImage
  <2>3. QED BY <2>1, <2>2 DEF ViewImage
<1>11. First[r] + Len(ViewImage[r]) = k
  BY <1>9 DEF k
<1>12. QED BY <1>6, <1>8, <1>10, <1>11

\* Every step is a step of the abstract log or invisible in it.
LEMMA StepImage ==
  ASSUME DenseInv, StreamInv, [Next]_vars
  PROVE  [Log!Next]_Log!vars
<1>a. ASSUME UNCHANGED <<rows, last, got>> PROVE UNCHANGED Log!vars
  BY <1>a DEF Log!vars
<1>1. CASE UNCHANGED vars
  BY <1>1, <1>a DEF vars
<1>2. ASSUME NEW w \in Writers, TxCommit(w)
      PROVE  Log!Next
  <2>1. UNCHANGED ViewImage
    BY <1>2 DEF TxCommit, ViewImage
  <2>2. PICK n \in 1..MaxBlock : LogImage' = LogImage \o [k \in 1..n |-> w]
    BY <1>2, CommitImage
  <2>3. Log!Extend(w, n)
    BY <2>1, <2>2 DEF Log!Extend, LogImage, ViewImage, At
  <2>4. QED BY <2>3 DEF Log!Next
<1>3. ASSUME NEW r \in Readers, Deliver(r)
      PROVE  Log!Next
  <2>1. UNCHANGED LogImage
    BY <1>3 DEF Deliver, LogImage
  <2>2. Log!See(r)
    BY <1>3, <2>1, DeliverImage DEF Log!See, LogImage, ViewImage, At
  <2>3. QED BY <2>2 DEF Log!Next
<1>4. ASSUME NEW w \in Writers,
             (\E n \in 1..MaxBlock : TxBegin(w, n)) \/ Notify(w) \/ TxAbort(w)
      PROVE  UNCHANGED Log!vars
  <2>1. UNCHANGED <<rows, last, got>>
    BY <1>4 DEF TxBegin, Notify, TxAbort
  <2>2. QED BY <1>a, <2>1
<1>5. ASSUME NEW r \in Readers,
             \/ \E p \in Pods : Connect(r, p)
             \/ TailStep(r) \/ Finish(r) \/ Disconnect(r)
      PROVE  UNCHANGED Log!vars
  <2>1. UNCHANGED <<rows, last, got>>
    BY <1>5 DEF Connect, TailStep, Subscribe, ReadEvents, Push, EndForward,
                Wake, Tick, Finish, Disconnect
  <2>2. QED BY <1>a, <2>1
<1>6. CASE DeleteThread \/ \E p \in Pods : Crash(p)
  <2>1. UNCHANGED <<rows, last, got>>
    BY <1>6 DEF DeleteThread, Crash
  <2>2. QED BY <1>a, <2>1
<1>7. QED BY <1>1, <1>2, <1>3, <1>4, <1>5, <1>6 DEF Next, TxStep

\* The thread starts with an empty log that nobody has seen.
LEMMA InitImage == Init => Log!Init
<1> SUFFICES ASSUME Init PROVE Log!Init
  OBVIOUS
<1>1. LogImage = <<>>
  BY DEF Init, LogImage
<1>2. \A r \in Readers : got[r] = <<>> /\ DOMAIN got[r] = {}
  BY DEF Init
<1>3. \A r \in Readers : [k \in DOMAIN got[r] |-> got[r][k].by] = <<>>
  BY <1>2
<1>4. ViewImage = [r \in Readers |-> <<>>]
  BY <1>3 DEF ViewImage
<1>5. QED BY <1>1, <1>4 DEF Log!Init, LogImage, ViewImage, At

\* Transactions, wake-ups, pages, channels and reconnections together are
\* nothing but one log that grows by whole blocks and readers that see the
\* next event of it.
THEOREM StreamImplementsLog == Spec => ImplementsEventLog
<1>1. Init => Log!Init
  BY InitImage
<1>2. DenseInv /\ StreamInv /\ [Next]_vars => [Log!Next]_Log!vars
  BY StepImage
<1>3. Init => StreamInv
  BY InitStream
<1>4. DenseInv /\ StreamInv /\ [Next]_vars => StreamInv'
  BY NextStream DEF DenseInv
<1>5. QED BY <1>1, <1>2, <1>3, <1>4, DenseInvariant, PTL
          DEF Spec, ImplementsEventLog, Log!Spec
-----------------------------------------------------------------------------
(* Wake-ups.  A connection c against the committed rows R and the           *)
(* transactions t.                                                          *)

\* A row the writer has told its pod about, when the connection is on it.
Told(e, c, t) == PodOf[e.by] = c.pod /\ t[e.by].pc # "notify"

\* Where the page that c is pushing ends.
PageEnd(c) == c.next + EventBatch

\* What is left of a page continues it, within the batch.
PageAhead(c, R) ==
  /\ c.n <= EventBatch /\ c.page \subseteq R
  /\ \A e \in c.page :
       /\ c.next + c.n <= e.seq /\ e.seq < PageEnd(c)
       /\ \A m \in (c.next + c.n)..e.seq : \E d \in c.page : d.seq = m

\* The page is full: the tail will read again at once.
PageFull(c) == \A m \in (c.next + c.n)..(PageEnd(c) - 1) : \E d \in c.page : d.seq = m

\* While a tail pushes without a signal, a row it was told about is behind it,
\* on its page, or beyond a full one; when it waits, all of them are behind it.
Notified(c, R, t) ==
  /\ c.pc \in {"read", "push", "wait"} => c.sub
  /\ c.pc = "push" => PageAhead(c, R)
  /\ c.pc = "push" /\ ~c.wake =>
       \A e \in R : Told(e, c, t) /\ e.seq >= c.next + c.n =>
         e \in c.page \/ (e.seq >= PageEnd(c) /\ PageFull(c))
  /\ c.pc = "wait" /\ ~c.wake => \A e \in R : Told(e, c, t) => e.seq < c.next

WakeupInv == \A r \in Readers : Notified(conn[r], rows, tx)

\* The rows between two numbers of the log are counted by their distance.
LEMMA BetweenCount ==
  ASSUME TypeOK, LogDense, NEW from \in Nat \ {0}, NEW k \in 1..last, from <= k
  PROVE  Cardinality({d \in rows : d.seq >= from /\ d.seq < k}) = k - from
<1> DEFINE S == {d \in rows : d.seq >= from /\ d.seq < k}
           T == from..(k - 1)
           f == [d \in S |-> d.seq]
<1>1. last \in Nat /\ \A e \in rows : e.seq \in 1..last
  BY DenseRows DEF TypeOK
<1>2. f \in Injection(S, T)
  BY <1>1 DEF LogDense, Injection, IsInjective
<1>3. f \in Surjection(S, T)
  <2>1. ASSUME NEW m \in T PROVE \E d \in S : f[d] = m
    <3>1. PICK d \in rows : d.seq = m
      BY <1>1, DenseRows
    <3>2. QED BY <1>1, <3>1
  <2>2. QED BY <1>2, <2>1 DEF Surjection, Injection
<1>4. IsFiniteSet(T) /\ Cardinality(T) = k - from
  <2>1. from \in Int /\ k - 1 \in Int
    BY <1>1
  <2>2. QED BY <1>1, <2>1, FS_Interval
<1> HIDE DEF f, S, T
<1>5. Cardinality(S) = Cardinality(T)
  BY <1>2, <1>3, <1>4, FS_Injection
<1>6. QED BY <1>4, <1>5 DEF S

\* A page is the rows of a batch of numbers, from the one asked for.
LEMMA PageRange ==
  ASSUME TypeOK, LogDense, NEW from \in Nat \ {0}
  PROVE  Page(from) = {e \in rows : from <= e.seq /\ e.seq < from + EventBatch}
<1>1. last \in Nat /\ \A e \in rows : e.seq \in 1..last
  BY DenseRows DEF TypeOK
<1>2. ASSUME NEW e \in rows, from <= e.seq
      PROVE  Cardinality({d \in rows : d.seq >= from /\ d.seq < e.seq}) = e.seq - from
  BY <1>1, <1>2, BetweenCount
<1>3. ASSUME NEW e \in rows
      PROVE  e \in Page(from) <=> from <= e.seq /\ e.seq < from + EventBatch
  <2>1. CASE from <= e.seq
    <3>1. e \in Page(from) <=> e.seq - from < EventBatch
      BY <1>1, <1>2, <2>1 DEF Page
    <3>2. QED BY <1>1, <2>1, <3>1, ConstantsAssumption
  <2>2. CASE ~(from <= e.seq)
    BY <1>1, <2>2 DEF Page
  <2>3. QED BY <2>1, <2>2
<1>4. QED BY <1>3 DEF Page

\* A connection stays notified when it is told about no other row.
LEMMA NotifiedMore ==
  ASSUME NEW c, NEW R, NEW S, NEW t, NEW u, R \subseteq S, Notified(c, R, t),
         \A e \in S : Told(e, c, u) => e \in R /\ Told(e, c, t)
  PROVE  Notified(c, S, u)
BY DEF Notified, PageAhead

\* A closed connection, and one that is kept a signal, are notified.
LEMMA NotifiedTrivially ==
  ASSUME NEW R, NEW t
  PROVE  /\ Notified(NoConn, R, t)
         /\ \A c \in ConnType : \A u :
              Notified(c, R, u) => Notified([c EXCEPT !.wake = TRUE], R, t)
<1>1. Notified(NoConn, R, t)
  BY DEF Notified, NoConn
<1>2. ASSUME NEW c \in ConnType, NEW u, Notified(c, R, u)
      PROVE  Notified([c EXCEPT !.wake = TRUE], R, t)
  <2> DEFINE d == [c EXCEPT !.wake = TRUE]
  <2>1. /\ d.pc = c.pc /\ d.sub = c.sub /\ d.next = c.next /\ d.n = c.n /\ d.page = c.page
        /\ d.wake = TRUE
    BY DEF ConnType
  <2> HIDE DEF d
  <2>2. Notified(d, R, t)
    BY <1>2, <2>1 DEF Notified, PageAhead, PageEnd
  <2>3. QED BY <2>2 DEF d
<1>3. QED BY <1>1, <1>2

\* One connection goes on to another one that is notified.
LEMMA ConnNotified ==
  ASSUME WakeupInv, conn \in [Readers -> ConnType], NEW r \in Readers, NEW c,
         conn' = [conn EXCEPT ![r] = c], UNCHANGED <<rows, tx>>,
         Notified(c, rows, tx)
  PROVE  WakeupInv'
BY DEF WakeupInv

\* Writers: a committed row is announced to the connections of the pod before
\* its writer does anything else.
LEMMA WriterWakeup ==
  ASSUME TypeOK, WakeupInv,
         \/ \E w \in Writers : \/ \E n \in 1..MaxBlock : TxBegin(w, n)
                               \/ TxStep(w) \/ TxAbort(w)
         \/ DeleteThread
  PROVE  WakeupInv'
<1>a. /\ tx \in [Writers -> TxType] /\ conn \in [Readers -> ConnType]
      /\ \A e \in rows : e.by \in Writers
  BY DEF TypeOK, RowType
<1>1. ASSUME conn' = conn, rows \subseteq rows',
             \A r \in Readers : \A e \in rows' : Told(e, conn[r], tx') => e \in rows /\ Told(e, conn[r], tx)
      PROVE  WakeupInv'
  BY <1>1, NotifiedMore DEF WakeupInv
<1>2. ASSUME NEW w \in Writers, NEW n \in 1..MaxBlock, TxBegin(w, n)
      PROVE  WakeupInv'
  BY <1>a, <1>1, <1>2 DEF TxBegin, Told
<1>3. ASSUME NEW w \in Writers, TxCommit(w)
      PROVE  WakeupInv'
  <2>1. tx'[w].pc = "notify" /\ \A v \in Writers \ {w} : tx'[v] = tx[v]
    BY <1>a, <1>3 DEF TxCommit, TxType
  <2>2. rows' = rows \cup Block(w) /\ \A e \in Block(w) : e.by = w
    BY <1>3 DEF TxCommit, Block
  <2>3. QED BY <1>a, <1>1, <1>3, <2>1, <2>2 DEF TxCommit, Told
<1>4. ASSUME NEW w \in Writers, Notify(w)
      PROVE  WakeupInv'
  <2>1. \A v \in Writers \ {w} : tx'[v] = tx[v]
    BY <1>a, <1>4 DEF Notify
  <2>2. rows' = rows
    BY <1>4 DEF Notify
  <2>3. ASSUME NEW r \in Readers PROVE Notified(conn'[r], rows', tx')
    <3>1. Notified(conn[r], rows, tx) /\ conn[r] \in ConnType
      BY <1>a DEF WakeupInv
    <3>2. CASE conn[r].pod = PodOf[w] /\ conn[r].sub
      <4>1. conn'[r] = [conn[r] EXCEPT !.wake = TRUE]
        BY <1>4, <3>2 DEF Notify
      <4>2. Notified([conn[r] EXCEPT !.wake = TRUE], rows, tx')
        BY <3>1, NotifiedTrivially
      <4>3. QED BY <2>2, <4>1, <4>2
    <3>3. CASE conn[r].pod # PodOf[w]
      <4>1. conn'[r] = conn[r]
        BY <1>4, <3>3 DEF Notify
      <4>2. \A e \in rows' : Told(e, conn[r], tx') => e \in rows /\ Told(e, conn[r], tx)
        BY <1>a, <2>1, <2>2, <3>3 DEF Told
      <4>3. QED BY <2>2, <3>1, <4>1, <4>2, NotifiedMore
    <3>4. CASE ~conn[r].sub
      <4>1. conn'[r] = conn[r]
        BY <1>4, <3>4 DEF Notify
      <4>2. QED BY <3>1, <3>4, <4>1 DEF Notified
    <3>5. QED BY <3>2, <3>3, <3>4
  <2>4. QED BY <2>3 DEF WakeupInv
<1>5. ASSUME NEW w \in Writers, TxAbort(w)
      PROVE  WakeupInv'
  <2>1. tx[w].pc = "append" /\ \A v \in Writers \ {w} : tx'[v] = tx[v]
    BY <1>a, <1>5 DEF TxAbort
  <2>2. QED BY <1>a, <1>1, <1>5, <2>1 DEF TxAbort, Told
<1>6. CASE DeleteThread
  BY <1>1, <1>6 DEF DeleteThread, Told
<1>7. QED BY <1>2, <1>3, <1>4, <1>5, <1>6 DEF TxStep

\* Reading, pushing and waiting.
LEMMA ReaderWakeup ==
  ASSUME TypeOK, LogDense, WakeupInv, NEW r \in Readers,
         \/ \E p \in Pods : Connect(r, p)
         \/ TailStep(r) \/ Deliver(r) \/ Finish(r) \/ Disconnect(r)
  PROVE  WakeupInv'
<1>a. /\ conn \in [Readers -> ConnType] /\ conn[r] \in ConnType
      /\ conn[r].next \in Nat \ {0} /\ conn[r].n \in Nat
      /\ \A e \in rows : e.seq \in Nat
      /\ EventBatch \in Nat \ {0}
  BY ConstantsAssumption DEF TypeOK, ConnType, RowType
<1>b. Notified(conn[r], rows, tx)
  BY DEF WakeupInv
<1>1. ASSUME NEW p \in Pods, Connect(r, p)
      PROVE  WakeupInv'
  <2> DEFINE c == [NoConn EXCEPT !.pc = "subscribe", !.pod = p, !.next = StartSeq(r)]
  <2>1. c.pc = "subscribe"
    BY DEF NoConn
  <2>2. conn' = [conn EXCEPT ![r] = c] /\ UNCHANGED <<rows, tx>>
    BY <1>1 DEF Connect
  <2> HIDE DEF c
  <2>3. Notified(c, rows, tx)
    BY <2>1 DEF Notified
  <2>4. QED BY <1>a, <2>2, <2>3, ConnNotified
<1>2. CASE Subscribe(r)
  <2> DEFINE c == [conn[r] EXCEPT !.pc = "read", !.sub = TRUE]
  <2>1. c.pc = "read" /\ c.sub = TRUE
    BY <1>a DEF ConnType
  <2>2. conn' = [conn EXCEPT ![r] = c] /\ UNCHANGED <<rows, tx>>
    BY <1>2 DEF Subscribe
  <2> HIDE DEF c
  <2>3. Notified(c, rows, tx)
    BY <2>1 DEF Notified
  <2>4. QED BY <1>a, <2>2, <2>3, ConnNotified
<1>3. CASE ReadEvents(r)
  <2> DEFINE from == conn[r].next
             c == [conn[r] EXCEPT !.pc = "push", !.n = 0, !.page = Page(from)]
             d == [conn[r] EXCEPT !.pc = "closed", !.sub = FALSE]
  <2>1. /\ c.pc = "push" /\ c.sub = conn[r].sub /\ c.next = from
        /\ c.n = 0 /\ c.page = Page(from)
        /\ d.pc = "closed"
    BY <1>a DEF ConnType
  <2>2. /\ conn' = [conn EXCEPT ![r] = c] \/ conn' = [conn EXCEPT ![r] = d]
        /\ conn[r].pc = "read" /\ UNCHANGED <<rows, tx>>
    BY <1>3 DEF ReadEvents
  <2>3. Page(from) = {e \in rows : from <= e.seq /\ e.seq < from + EventBatch}
    BY <1>a, PageRange
  <2>4. \A e \in rows : e.seq >= from => \A m \in from..e.seq : \E x \in rows : x.seq = m
    <3>1. last \in Nat /\ from \in Nat \ {0}
      BY <1>a DEF TypeOK
    <3>2. QED BY <3>1, DenseRows
  <2>5. from \in Nat
    BY <1>a
  <2> HIDE DEF c, d, from
  <2>6. PageAhead(c, rows)
    <3>1. ASSUME NEW e \in Page(from), NEW m \in from..e.seq
          PROVE  \E x \in Page(from) : x.seq = m
      <4>1. e \in rows /\ e.seq \in Nat /\ from <= e.seq /\ e.seq < from + EventBatch
        BY <1>a, <2>3
      <4>2. PICK x \in rows : x.seq = m
        BY <2>4, <2>5, <4>1
      <4>3. QED BY <1>a, <2>3, <2>5, <4>1, <4>2
    <3>2. from + 0 = from
      BY <2>5
    <3>3. QED BY <1>a, <2>1, <2>3, <3>1, <3>2 DEF PageAhead, PageEnd
  <2>7. ASSUME NEW e \in rows, e.seq >= from, e \notin Page(from)
        PROVE  e.seq >= from + EventBatch /\ PageFull(c)
    <3>1. e.seq >= from + EventBatch
      BY <1>a, <2>3, <2>5, <2>7
    <3>2. ASSUME NEW m \in from..(from + EventBatch - 1)
          PROVE  \E x \in Page(from) : x.seq = m
      <4>1. m \in from..e.seq /\ from <= m /\ m < from + EventBatch
        BY <1>a, <2>5, <3>1
      <4>2. PICK x \in rows : x.seq = m
        BY <2>4, <2>7, <4>1
      <4>3. QED BY <2>3, <4>1, <4>2
    <3>3. c.next + c.n = from /\ PageEnd(c) = from + EventBatch
      BY <2>1, <2>5 DEF PageEnd
    <3>4. PageFull(c)
      <4> SUFFICES ASSUME NEW m \in (c.next + c.n)..(PageEnd(c) - 1)
                   PROVE  \E x \in c.page : x.seq = m
        BY DEF PageFull
      <4>1. m \in from..(from + EventBatch - 1)
        BY <1>a, <2>5, <3>3
      <4>2. QED BY <2>1, <3>2, <4>1
    <3>5. QED BY <3>1, <3>4
  <2>8. Notified(c, rows, tx)
    <3>1. c.next + c.n = from
      BY <2>1, <2>5
    <3>2. c.sub
      BY <1>b, <2>1, <2>2 DEF Notified
    <3>3. QED BY <2>1, <2>6, <2>7, <3>1, <3>2 DEF Notified, PageEnd
  <2>9. Notified(d, rows, tx)
    BY <2>1 DEF Notified
  <2>10. QED BY <1>a, <2>2, <2>8, <2>9, ConnNotified
<1>4. CASE Push(r)
  <2> DEFINE page == conn[r].page
             at == conn[r].next + conn[r].n
  <2>1. PICK e \in page :
          /\ \A x \in page : e.seq <= x.seq
          /\ conn' = [conn EXCEPT ![r].page = page \ {e}, ![r].n = @ + 1,
                                  ![r].out = Append(@, e)]
          /\ UNCHANGED <<rows, tx>>
    BY <1>4 DEF Push
  <2>2. PageAhead(conn[r], rows) /\ conn[r].sub /\ conn[r].pc = "push"
    BY <1>b, <1>4 DEF Push, Notified
  <2>3. at \in Nat /\ \A x \in page : x.seq \in Nat
    BY <1>a DEF ConnType, RowType
  <2>4. /\ conn[r].n <= EventBatch /\ page \subseteq rows
        /\ \A x \in page : /\ at <= x.seq /\ x.seq < conn[r].next + EventBatch
                           /\ \A m \in at..x.seq : \E y \in page : y.seq = m
    BY <2>2 DEF PageAhead, PageEnd
  <2>5. e.seq = at
    <3>1. at \in at..e.seq
      BY <2>1, <2>3, <2>4
    <3>2. PICK y \in page : y.seq = at
      BY <2>1, <2>4, <3>1
    <3>3. QED BY <2>1, <2>3, <2>4, <3>2
  <2>6. \A x \in page \ {e} : x.seq # at
    <3>1. \A x, y \in page : x.seq = y.seq => x = y
      BY <2>4 DEF LogDense
    <3>2. QED BY <2>1, <2>5, <3>1
  <2> DEFINE c == [conn[r] EXCEPT !.page = page \ {e}, !.n = conn[r].n + 1,
                                  !.out = Append(conn[r].out, e)]
  <2>7. /\ c.pc = "push" /\ c.sub /\ c.pod = conn[r].pod /\ c.wake = conn[r].wake
        /\ c.next = conn[r].next /\ c.n = conn[r].n + 1 /\ c.page = page \ {e}
    BY <1>a, <2>2 DEF ConnType
  <2>8. conn' = [conn EXCEPT ![r] = c]
    BY <2>1
  <2>9. c.next + c.n = at + 1
    BY <1>a, <2>7
  <2> HIDE DEF c
  <2>10. \A m : m \in (at + 1)..(PageEnd(c) - 1) /\ (\E y \in page : y.seq = m)
                  => \E y \in page \ {e} : y.seq = m
    BY <2>3, <2>5
  <2>11. PageAhead(c, rows)
    <3>1. conn[r].n + 1 <= EventBatch
      BY <1>a, <2>1, <2>4, <2>5
    <3>2. ASSUME NEW x \in page \ {e}
          PROVE  /\ at + 1 <= x.seq /\ x.seq < conn[r].next + EventBatch
                 /\ \A m \in (at + 1)..x.seq : \E y \in page \ {e} : y.seq = m
      <4>1. x.seq >= at + 1 /\ x.seq < conn[r].next + EventBatch
        BY <2>3, <2>4, <2>6
      <4>2. \A m \in (at + 1)..x.seq : m \in at..x.seq /\ m # at
        BY <2>3
      <4>3. QED BY <2>4, <2>5, <4>1, <4>2
    <3>3. PageEnd(c) = conn[r].next + EventBatch
      BY <2>7 DEF PageEnd
    <3>4. QED BY <2>4, <2>7, <2>9, <3>1, <3>2, <3>3 DEF PageAhead
  <2>12. ASSUME ~c.wake, NEW x \in rows, Told(x, c, tx), x.seq >= at + 1
         PROVE  x \in c.page \/ (x.seq >= PageEnd(c) /\ PageFull(c))
    <3>1. Told(x, conn[r], tx) /\ x.seq >= at /\ x # e
      BY <1>a, <2>3, <2>5, <2>7, <2>12 DEF Told
    <3>2. x \in page \/ (x.seq >= PageEnd(conn[r]) /\ PageFull(conn[r]))
      BY <1>b, <2>2, <2>7, <2>12, <3>1 DEF Notified
    <3>3. PageEnd(c) = PageEnd(conn[r])
      BY <2>7 DEF PageEnd
    <3>4. CASE x \in page
      BY <2>7, <3>1, <3>4
    <3>5. CASE x.seq >= PageEnd(conn[r]) /\ PageFull(conn[r])
      <4>1. PageEnd(c) \in Nat
        BY <1>a, <2>7 DEF PageEnd
      <4>2. ASSUME NEW m \in (at + 1)..(PageEnd(c) - 1)
            PROVE  \E y \in page \ {e} : y.seq = m
        <5>1. m \in at..(PageEnd(conn[r]) - 1)
          BY <2>3, <3>3, <4>1
        <5>2. \E y \in page : y.seq = m
          BY <3>5, <5>1 DEF PageFull
        <5>3. QED BY <2>10, <5>2
      <4>3. PageFull(c)
        BY <2>7, <2>9, <4>2 DEF PageFull
      <4>4. QED BY <3>3, <3>5, <4>3
    <3>6. QED BY <3>2, <3>4, <3>5
  <2>13. Notified(c, rows, tx)
    BY <2>7, <2>9, <2>11, <2>12 DEF Notified
  <2>14. QED BY <1>a, <2>1, <2>8, <2>13, ConnNotified
<1>5. CASE EndForward(r)
  <2> DEFINE c == [conn[r] EXCEPT !.next = conn[r].next + conn[r].n,
                     !.pc = IF conn[r].n = EventBatch THEN "read" ELSE "wait"]
  <2>1. /\ c.pc = (IF conn[r].n = EventBatch THEN "read" ELSE "wait")
        /\ c.next = conn[r].next + conn[r].n
        /\ c.sub = conn[r].sub /\ c.wake = conn[r].wake /\ c.pod = conn[r].pod
    BY <1>a DEF ConnType
  <2>2. /\ conn' = [conn EXCEPT ![r] = c] /\ UNCHANGED <<rows, tx>>
        /\ conn[r].pc = "push" /\ conn[r].page = {}
    BY <1>5 DEF EndForward
  <2> HIDE DEF c
  <2>3. conn[r].sub /\ conn[r].n <= EventBatch
    BY <1>b, <2>2 DEF Notified, PageAhead
  <2>4. ASSUME conn[r].n # EventBatch, ~c.wake, NEW e \in rows, Told(e, c, tx)
        PROVE  e.seq < c.next
    <3>1. PageEnd(conn[r]) - 1 \in (conn[r].next + conn[r].n)..(PageEnd(conn[r]) - 1)
      BY <1>a, <2>3, <2>4 DEF PageEnd
    <3>2. ~PageFull(conn[r])
      BY <2>2, <3>1 DEF PageFull
    <3>3. Told(e, conn[r], tx)
      BY <2>1, <2>4 DEF Told
    <3>4. ~(e.seq >= conn[r].next + conn[r].n)
      BY <1>b, <2>1, <2>2, <2>4, <3>2, <3>3 DEF Notified
    <3>5. QED BY <1>a, <2>1, <3>4
  <2>5. Notified(c, rows, tx)
    BY <2>1, <2>3, <2>4 DEF Notified
  <2>6. QED BY <1>a, <2>2, <2>5, ConnNotified
<1>6. CASE Wake(r) \/ Tick(r)
  <2> DEFINE c == [conn[r] EXCEPT !.pc = "read", !.wake = FALSE]
             d == [conn[r] EXCEPT !.pc = "read"]
  <2>1. c.pc = "read" /\ d.pc = "read" /\ c.sub = conn[r].sub /\ d.sub = conn[r].sub
    BY <1>a DEF ConnType
  <2>2. /\ conn' = [conn EXCEPT ![r] = c] \/ conn' = [conn EXCEPT ![r] = d]
        /\ conn[r].pc = "wait" /\ UNCHANGED <<rows, tx>>
    BY <1>6 DEF Wake, Tick
  <2> HIDE DEF c, d
  <2>3. Notified(c, rows, tx) /\ Notified(d, rows, tx)
    BY <1>b, <2>1, <2>2 DEF Notified
  <2>4. QED BY <1>a, <2>2, <2>3, ConnNotified
<1>7. CASE Finish(r) \/ Disconnect(r)
  <2>1. conn' = [conn EXCEPT ![r] = NoConn] /\ UNCHANGED <<rows, tx>>
    BY <1>7 DEF Finish, Disconnect
  <2>2. QED BY <1>a, <2>1, NotifiedTrivially, ConnNotified
<1>8. CASE Deliver(r)
  <2> DEFINE c == [conn[r] EXCEPT !.out = Tail(conn[r].out)]
  <2>1. /\ c.pc = conn[r].pc /\ c.sub = conn[r].sub /\ c.next = conn[r].next /\ c.n = conn[r].n
        /\ c.page = conn[r].page /\ c.wake = conn[r].wake /\ c.pod = conn[r].pod
    BY <1>a DEF ConnType
  <2>2. conn' = [conn EXCEPT ![r] = c] /\ UNCHANGED <<rows, tx>>
    BY <1>8 DEF Deliver
  <2> HIDE DEF c
  <2>3. Notified(c, rows, tx)
    BY <1>b, <2>1 DEF Notified, Told, PageAhead, PageFull, PageEnd
  <2>4. QED BY <1>a, <2>2, <2>3, ConnNotified
<1>9. QED BY <1>1, <1>2, <1>3, <1>4, <1>5, <1>6, <1>7, <1>8 DEF TailStep

\* A pod takes its writers and its connections with it.
LEMMA CrashWakeup ==
  ASSUME TypeOK, WakeupInv, NEW p \in Pods, Crash(p)
  PROVE  WakeupInv'
<1>1. ASSUME NEW r \in Readers PROVE Notified(conn'[r], rows', tx')
  <2>1. CASE conn[r].pod = p
    BY <2>1, NotifiedTrivially DEF Crash
  <2>2. CASE conn[r].pod # p
    <3>1. conn'[r] = conn[r] /\ rows' = rows
      BY <2>2 DEF Crash
    <3>2. \A e \in rows : e.by \in Writers
      BY DEF TypeOK, RowType
    <3>3. \A e \in rows' : Told(e, conn[r], tx') => e \in rows /\ Told(e, conn[r], tx)
      BY <2>2, <3>1, <3>2 DEF Crash, Told
    <3>4. Notified(conn[r], rows, tx)
      BY DEF WakeupInv
    <3>5. QED BY <3>1, <3>3, <3>4, NotifiedMore
  <2>3. QED BY <2>1, <2>2
<1>2. QED BY <1>1 DEF WakeupInv

\* Every step keeps the connections notified.
LEMMA NextWakeup == TypeOK /\ LogDense /\ WakeupInv /\ [Next]_vars => WakeupInv'
<1> SUFFICES ASSUME TypeOK, LogDense, WakeupInv, [Next]_vars PROVE WakeupInv'
  OBVIOUS
<1>1. CASE UNCHANGED vars
  BY <1>1 DEF vars, WakeupInv
<1>2. CASE Next
  BY <1>2, WriterWakeup, ReaderWakeup, CrashWakeup DEF Next
<1>3. QED BY <1>1, <1>2

\* A tail waits without a signal only when no row of its own pod's writers is
\* left to read: the one-place signal of the notifier loses no wake-up, and the
\* poll is there for the other pods only.
THEOREM WakeupsAreKept == Spec => []NoLostWakeup
<1>1. Init => WakeupInv
  BY NotifiedTrivially DEF Init, WakeupInv
<1>2. TypeOK /\ WakeupInv => NoLostWakeup
  <2> SUFFICES ASSUME TypeOK, WakeupInv, NEW r \in Readers, conn[r].pc = "wait", ~conn[r].wake,
                      NEW e \in rows, e.seq >= conn[r].next
               PROVE  PodOf[e.by] # conn[r].pod \/ tx[e.by].pc = "notify"
    BY DEF NoLostWakeup
  <2>1. e.seq \in Nat /\ conn[r].next \in Nat
    BY DEF TypeOK, RowType, ConnType
  <2>2. QED BY <2>1 DEF WakeupInv, Notified, Told
<1>3. QED BY <1>1, <1>2, TypeCorrect, LogIsDense, NextWakeup, PTL DEF Spec

============================================================================
