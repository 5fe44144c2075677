------------------------ MODULE GatewaySessionProofs ------------------------
(***************************************************************************)
(* GatewaySession for every number of streams and commands, every channel  *)
(* size and every number of faults: types, the registry follows the        *)
(* sessions, a waiter in a session is a caller that waits, and "ok" means  *)
(* stored.                                                                 *)
(***************************************************************************)
EXTENDS GatewaySession, SequenceTheorems, TLAPS

-----------------------------------------------------------------------------
(* Types.                                                                  *)

Pcs == {"done", "hello", "add", "offline", "remove"} \cup Serving

SessType == [pc : Pcs, drain : BOOLEAN, cmds : Seq(Commands), pending : SUBSET Commands,
             degrade : {"armed", "spent"}]

DownFrame == Commands \cup {"ack", "drain"}

CallerType == [pc : {"idle", "send", "wait", "done"}, s : Streams \cup {None},
               sig : {None, "ok", "failed"}, res : {None, "ok", "failed"}]

\* TypeOK in parts: the console's row and the fault counters, the gateway's
\* sessions, the streams, the connector, the requests in Dispatch.
RowTyped ==
  /\ row \in Statuses /\ late \subseteq Reports
  /\ consoleFaults \in 0 .. MaxConsoleFaults /\ crashes \in 0 .. MaxCrashes

SessTyped == registry \in Streams \cup {None} /\ sess \in [Streams -> SessType]

WireTyped ==
  /\ link \in [Streams -> {"open", "silent", "closed"}]
  /\ up \in [Streams -> Seq(UpFrame)]
  /\ down \in [Streams -> Seq(DownFrame)]

ClientTyped ==
  /\ client \in [pc : {"down", "hello", "up", "stopped"}, s : Streams \cup {None}]
  /\ client.s # None <=> client.pc \in {"hello", "up"}

CallersTyped ==
  /\ caller \in [Commands -> CallerType]
  /\ \A d \in Commands : caller[d].s # None <=> caller[d].pc \in {"send", "wait"}
  /\ stored \subseteq Commands

\* TypeOK is the conjunction of its parts.
LEMMA TypeParts ==
  /\ TypeOK <=> RowTyped /\ SessTyped /\ WireTyped /\ ClientTyped /\ CallersTyped
  /\ TypeOK' <=> RowTyped' /\ SessTyped' /\ WireTyped' /\ ClientTyped' /\ CallersTyped'
BY DEF TypeOK, RowTyped, SessTyped, WireTyped, ClientTyped, CallersTyped, SessType, Pcs,
       DownFrame, CallerType

\* Steps that leave the variables of a part alone keep the part.
LEMMA PartsUnchanged ==
  /\ RowTyped /\ UNCHANGED <<row, late, consoleFaults, crashes>> => RowTyped'
  /\ SessTyped /\ UNCHANGED <<registry, sess>> => SessTyped'
  /\ WireTyped /\ UNCHANGED <<link, up, down>> => WireTyped'
  /\ ClientTyped /\ UNCHANGED client => ClientTyped'
  /\ CallersTyped /\ UNCHANGED <<caller, stored>> => CallersTyped'
BY DEF RowTyped, SessTyped, WireTyped, ClientTyped, CallersTyped

\* A report, in time, failed or late, keeps the row typed.
LEMMA ReportTyped ==
  ASSUME RowTyped, NEW st \in Reports, SetStatus(st), UNCHANGED crashes
  PROVE  RowTyped'
<1>1. row' \in Statuses
  BY DEF RowTyped, SetStatus, UpdateConnectorStatus, Reports, Statuses
<1>2. late' \subseteq Reports
  BY DEF RowTyped, SetStatus
<1>3. consoleFaults' \in 0 .. MaxConsoleFaults
  BY SessionAssumption DEF RowTyped, SetStatus
<1>4. QED BY <1>1, <1>2, <1>3 DEF RowTyped

\* A session object with one field set to a value of its type is one.
LEMMA SessFields ==
  ASSUME NEW x \in SessType
  PROVE  /\ \A pc \in Pcs : [x EXCEPT !.pc = pc] \in SessType
         /\ \A b \in BOOLEAN : [x EXCEPT !.drain = b] \in SessType
         /\ \A q \in Seq(Commands) : [x EXCEPT !.cmds = q] \in SessType
         /\ \A P \in SUBSET Commands : [x EXCEPT !.pending = P] \in SessType
         /\ \A g \in {"armed", "spent"} : [x EXCEPT !.degrade = g] \in SessType
BY DEF SessType

\* A new session object is well typed.
LEMMA NewSessionTyped == \A pc \in Pcs : NewSession(pc) \in SessType
BY EmptySeq DEF NewSession, SessType

\* A program counter is set.
LEMMA PcTyped ==
  ASSUME SessTyped, NEW s \in Streams, NEW pc \in Pcs
  PROVE  [sess EXCEPT ![s].pc = pc] \in [Streams -> SessType]
BY SessFields DEF SessTyped

\* A signal sent into a session's drain channel.
LEMMA DrainTyped ==
  ASSUME SessTyped, NEW s \in Streams
  PROVE  SignalDrain(sess, s) \in [Streams -> SessType]
BY SessFields DEF SessTyped, SignalDrain

\* The streams stay typed when the gateway sends.
LEMMA SendTyped ==
  ASSUME WireTyped, NEW s \in Streams, NEW f \in DownFrame, Send(s, f), UNCHANGED <<link, up>>
  PROVE  WireTyped'
<1>1. down[s] \in Seq(DownFrame)
  BY DEF WireTyped
<1>2. Append(down[s], f) \in Seq(DownFrame)
  BY <1>1, AppendProperties
<1>3. down' \in [Streams -> Seq(DownFrame)]
  BY <1>2 DEF WireTyped, Send
<1>4. QED BY <1>3 DEF WireTyped

\* A frame the gateway has read leaves the stream.
LEMMA ReadTyped ==
  ASSUME WireTyped, NEW s \in Streams, up[s] # <<>>, up' = [up EXCEPT ![s] = Tail(@)]
  PROVE  up' \in [Streams -> Seq(UpFrame)] /\ Head(up[s]) \in UpFrame
<1>1. up[s] \in Seq(UpFrame)
  BY DEF WireTyped
<1>2. Tail(up[s]) \in Seq(UpFrame) /\ Head(up[s]) \in UpFrame
  BY <1>1, HeadTailProperties
<1>3. QED BY <1>2 DEF WireTyped

\* The same for a frame the connector has read.
LEMMA TakenTyped ==
  ASSUME WireTyped, NEW s \in Streams, down[s] # <<>>, down' = [down EXCEPT ![s] = Tail(@)]
  PROVE  down' \in [Streams -> Seq(DownFrame)]
<1>1. down[s] \in Seq(DownFrame)
  BY DEF WireTyped
<1>2. Tail(down[s]) \in Seq(DownFrame)
  BY <1>1, HeadTailProperties
<1>3. QED BY <1>2 DEF WireTyped

\* Whatever is not a heartbeat answers a command.
LEMMA AnswerFrame ==
  ASSUME NEW f \in UpFrame, f.t # "beat"
  PROVE  f.d \in Commands
BY DEF UpFrame

\* A handler that returned leaves typed sessions and streams.
LEMMA FinishedTyped ==
  ASSUME SessTyped, WireTyped, NEW s \in Streams, Finished(s),
         registry' \in Streams \cup {None}
  PROVE  SessTyped' /\ WireTyped'
<1>1. sess' \in [Streams -> SessType]
  BY NewSessionTyped DEF SessTyped, Finished, Pcs
<1>2. <<>> \in Seq(UpFrame) /\ <<>> \in Seq(DownFrame)
  BY EmptySeq
<1>3. QED BY <1>1, <1>2 DEF SessTyped, WireTyped, Finished

\* An answer given to the waiter, if there is one.
LEMMA SignalTyped ==
  ASSUME CallersTyped, NEW ss \in [Streams -> SessType], NEW s \in Streams, NEW d \in Commands,
         NEW r \in {"ok", "failed"}, SignalCommand(ss, s, d, r)
  PROVE  /\ sess' \in [Streams -> SessType]
         /\ caller' \in [Commands -> CallerType]
         /\ \A c \in Commands : caller'[c].s = caller[c].s /\ caller'[c].pc = caller[c].pc
<1>1. ss[s].pending \ {d} \in SUBSET Commands
  BY DEF SessType
<1>2. [ss[s] EXCEPT !.pending = ss[s].pending \ {d}] \in SessType
  BY <1>1, SessFields
<1>3. sess' \in [Streams -> SessType]
  BY <1>2 DEF SignalCommand
<1>4. [caller[d] EXCEPT !.sig = r] \in CallerType
  BY DEF CallersTyped, CallerType
<1>5. caller' \in [Commands -> CallerType]
  BY <1>4 DEF CallersTyped, SignalCommand
<1>6. \A c \in Commands : caller'[c].s = caller[c].s /\ caller'[c].pc = caller[c].pc
  BY DEF CallersTyped, CallerType, SignalCommand
<1>7. QED BY <1>3, <1>5, <1>6

\* The model starts well typed.
LEMMA InitType == Init => TypeOK
<1> SUFFICES ASSUME Init PROVE TypeOK
  OBVIOUS
<1>1. RowTyped
  BY SessionAssumption DEF Init, RowTyped, Statuses
<1>2. SessTyped
  BY NewSessionTyped DEF Init, SessTyped, Pcs
<1>3. WireTyped
  BY EmptySeq DEF Init, WireTyped
<1>4. ClientTyped
  BY DEF Init, ClientTyped
<1>5. CallersTyped
  BY DEF Init, CallersTyped, CallerType
<1>6. QED BY <1>1, <1>2, <1>3, <1>4, <1>5, TypeParts

\* The handshake, the registration and the report that follow a new stream.
LEMMA HandshakeType ==
  ASSUME TypeOK, NEW s \in Streams, Handshake(s) \/ Register(s) \/ Announce(s)
  PROVE  TypeOK'
<1>a. RowTyped /\ SessTyped /\ WireTyped /\ ClientTyped /\ CallersTyped
  BY TypeParts
<1>1. CASE Handshake(s)
  <2>1. RowTyped'
    BY <1>a, <1>1, SessionAssumption DEF RowTyped, Handshake
  <2>2. SessTyped' /\ WireTyped'
    <3>1. CASE Finished(s)
      BY <1>a, <1>1, <3>1, FinishedTyped DEF Handshake, SessTyped
    <3>2. CASE sess' = [sess EXCEPT ![s].pc = "add"] /\ UNCHANGED <<link, up, down>>
      BY <1>a, <1>1, <3>2, PcTyped, PartsUnchanged DEF Handshake, SessTyped, Pcs
    <3>3. QED BY <1>1, <3>1, <3>2 DEF Handshake
  <2>3. QED BY <1>a, <1>1, <2>1, <2>2, TypeParts, PartsUnchanged DEF Handshake
<1>2. CASE Register(s)
  <2>1. PICK ss \in [Streams -> SessType] : sess' = [ss EXCEPT ![s].pc = "announce"]
    BY <1>a, <1>2, DrainTyped DEF Register, Add, SessTyped
  <2>2. [ss[s] EXCEPT !.pc = "announce"] \in SessType
    BY SessFields DEF Pcs, Serving
  <2>3. sess' \in [Streams -> SessType]
    BY <2>1, <2>2
  <2>4. SessTyped'
    BY <1>2, <2>3 DEF SessTyped, Register, Add
  <2>5. QED BY <1>a, <1>2, <2>4, TypeParts, PartsUnchanged DEF Register
<1>3. CASE Announce(s)
  <2>1. RowTyped'
    BY <1>a, <1>3, ReportTyped DEF Announce, Reports
  <2>2. SessTyped'
    BY <1>a, <1>3, PcTyped DEF SessTyped, Announce, Pcs, Serving
  <2>3. WireTyped'
    BY <1>a, <1>3, SendTyped DEF Announce, DownFrame
  <2>4. QED BY <1>a, <1>3, <2>1, <2>2, <2>3, TypeParts, PartsUnchanged DEF Announce
<1>4. QED BY <1>1, <1>2, <1>3

\* The cases of the select that end the loop or move a timer.
LEMMA LoopEndType ==
  ASSUME TypeOK, NEW s \in Streams,
         LoopDrain(s) \/ LoopClosed(s) \/ LoopDegrade(s) \/ LoopOffline(s)
  PROVE  TypeOK'
<1>a. RowTyped /\ SessTyped /\ WireTyped /\ ClientTyped /\ CallersTyped
  BY TypeParts
<1>1. CASE LoopDrain(s)
  <2>1. [[sess[s] EXCEPT !.pc = "offline"] EXCEPT !.drain = FALSE] \in SessType
    BY <1>a, SessFields DEF SessTyped, Pcs
  <2>2. SessTyped'
    BY <1>a, <1>1, <2>1 DEF SessTyped, LoopDrain
  <2>3. WireTyped'
    BY <1>a, <1>1, SendTyped DEF LoopDrain, DownFrame
  <2>4. QED BY <1>a, <1>1, <2>2, <2>3, TypeParts, PartsUnchanged DEF LoopDrain
<1>2. CASE LoopClosed(s)
  <2>1. SessTyped'
    BY <1>a, <1>2, PcTyped DEF SessTyped, LoopClosed, Pcs
  <2>2. QED BY <1>a, <1>2, <2>1, TypeParts, PartsUnchanged DEF LoopClosed
<1>3. CASE LoopDegrade(s)
  <2>1. RowTyped'
    BY <1>a, <1>3, ReportTyped DEF LoopDegrade, Reports
  <2>2. SessTyped'
    BY <1>a, <1>3, SessFields DEF SessTyped, LoopDegrade
  <2>3. QED BY <1>a, <1>3, <2>1, <2>2, TypeParts, PartsUnchanged DEF LoopDegrade
<1>4. CASE LoopOffline(s)
  <2>1. RowTyped'
    BY <1>a, <1>4, ReportTyped DEF LoopOffline, Reports
  <2>2. SessTyped'
    BY <1>a, <1>4, PcTyped DEF SessTyped, LoopOffline, Pcs
  <2>3. QED BY <1>a, <1>4, <2>1, <2>2, TypeParts, PartsUnchanged DEF LoopOffline
<1>5. QED BY <1>1, <1>2, <1>3, <1>4

\* The cases that carry a command, a heartbeat or an answer.
LEMMA LoopFrameType ==
  ASSUME TypeOK, NEW s \in Streams, LoopCommand(s) \/ LoopBeat(s) \/ LoopUpload(s)
  PROVE  TypeOK'
<1>a. RowTyped /\ SessTyped /\ WireTyped /\ ClientTyped /\ CallersTyped
  BY TypeParts
<1>1. CASE LoopCommand(s)
  <2> DEFINE d  == Head(sess[s].cmds)
             ss == [sess EXCEPT ![s].cmds = Tail(@)]
  <2>1. sess[s] \in SessType /\ sess[s].cmds \in Seq(Commands)
    BY <1>a DEF SessTyped, SessType
  <2>2. d \in Commands /\ Tail(sess[s].cmds) \in Seq(Commands)
    BY <1>1, <2>1, HeadTailProperties DEF LoopCommand
  <2>3. ss \in [Streams -> SessType]
    BY <1>a, <2>1, <2>2, SessFields DEF SessTyped
  <2>4. Send(s, d) /\ (SignalCommand(ss, s, d, "failed") \/ (sess' = ss /\ UNCHANGED caller))
    BY <1>1, Zenon DEF LoopCommand
  <2>5. WireTyped'
    BY <1>a, <1>1, <2>2, <2>4, SendTyped DEF LoopCommand, DownFrame
  <2> HIDE DEF d, ss
  <2>6. CASE SignalCommand(ss, s, d, "failed")
    <3>1. SessTyped' /\ CallersTyped'
      BY <1>a, <1>1, <2>2, <2>3, <2>6, SignalTyped DEF SessTyped, CallersTyped, LoopCommand
    <3>2. QED BY <1>a, <1>1, <2>5, <3>1, TypeParts, PartsUnchanged DEF LoopCommand
  <2>7. CASE sess' = ss /\ UNCHANGED caller
    <3>1. SessTyped'
      BY <1>a, <1>1, <2>3, <2>7 DEF SessTyped, LoopCommand
    <3>2. QED BY <1>a, <1>1, <2>5, <2>7, <3>1, TypeParts, PartsUnchanged DEF LoopCommand
  <2>8. QED BY <2>4, <2>6, <2>7
<1>2. CASE LoopBeat(s)
  <2>1. RowTyped'
    BY <1>a, <1>2, ReportTyped DEF LoopBeat, Reports
  <2>2. SessTyped'
    BY <1>a, <1>2, SessFields DEF SessTyped, LoopBeat
  <2>3. WireTyped'
    BY <1>a, <1>2, ReadTyped DEF LoopBeat, WireTyped
  <2>4. QED BY <1>a, <1>2, <2>1, <2>2, <2>3, TypeParts, PartsUnchanged DEF LoopBeat
<1>3. CASE LoopUpload(s)
  <2> DEFINE f == Head(up[s])
  <2>1. f \in UpFrame /\ WireTyped'
    BY <1>a, <1>3, ReadTyped DEF LoopUpload, WireTyped
  <2>2. f.d \in Commands
    BY <1>3, <2>1, AnswerFrame DEF LoopUpload
  <2>3. PICK r \in {"ok", "failed"} : Upload(f, r) /\ SignalCommand(sess, s, f.d, r)
    BY <1>3 DEF LoopUpload
  <2> HIDE DEF f
  <2>4. /\ sess' \in [Streams -> SessType] /\ caller' \in [Commands -> CallerType]
        /\ \A c \in Commands : caller'[c].s = caller[c].s /\ caller'[c].pc = caller[c].pc
    BY <1>a, <2>2, <2>3, SignalTyped DEF SessTyped
  <2>5. stored' \subseteq Commands
    BY <1>a, <2>2, <2>3 DEF Upload, CallersTyped
  <2>6. SessTyped' /\ CallersTyped'
    BY <1>a, <1>3, <2>4, <2>5 DEF SessTyped, CallersTyped, LoopUpload
  <2>7. QED BY <1>a, <1>3, <2>1, <2>6, TypeParts, PartsUnchanged DEF LoopUpload
<1>4. QED BY <1>1, <1>2, <1>3

\* The deferred calls, the drain of every session, and the crash.
LEMMA EndType ==
  ASSUME TypeOK,
         \/ \E s \in Streams : DeferredOffline(s) \/ DeferredRemove(s)
         \/ DrainAll \/ GatewayCrash
  PROVE  TypeOK'
<1>a. RowTyped /\ SessTyped /\ WireTyped /\ ClientTyped /\ CallersTyped
  BY TypeParts
<1>1. ASSUME NEW s \in Streams, DeferredOffline(s) PROVE TypeOK'
  <2>1. RowTyped'
    BY <1>a, <1>1, ReportTyped DEF DeferredOffline, Reports
  <2>2. SessTyped'
    BY <1>a, <1>1, PcTyped DEF SessTyped, DeferredOffline, Pcs
  <2>3. QED BY <1>a, <1>1, <2>1, <2>2, TypeParts, PartsUnchanged DEF DeferredOffline
<1>2. ASSUME NEW s \in Streams, DeferredRemove(s) PROVE TypeOK'
  <2>1. registry' \in Streams \cup {None}
    BY <1>a, <1>2 DEF SessTyped, DeferredRemove, Remove
  <2>2. SessTyped' /\ WireTyped'
    BY <1>a, <1>2, <2>1, FinishedTyped DEF DeferredRemove
  <2>3. QED BY <1>a, <1>2, <2>2, TypeParts, PartsUnchanged DEF DeferredRemove
<1>3. CASE DrainAll
  <2>1. SessTyped'
    BY <1>a, <1>3, DrainTyped DEF SessTyped, DrainAll
  <2>2. QED BY <1>a, <1>3, <2>1, TypeParts, PartsUnchanged DEF DrainAll
<1>4. CASE GatewayCrash
  <2>1. RowTyped'
    BY <1>a, <1>4, SessionAssumption DEF RowTyped, GatewayCrash
  <2>2. SessTyped'
    BY <1>4, NewSessionTyped DEF SessTyped, GatewayCrash, Pcs
  <2>3. WireTyped'
    BY <1>4, EmptySeq DEF WireTyped, GatewayCrash
  <2>4. Returned("failed") \in CallerType
    BY DEF Returned, CallerType
  <2>5. CallersTyped'
    BY <1>a, <1>4, <2>4 DEF CallersTyped, GatewayCrash, Returned
  <2>6. QED BY <1>a, <1>4, <2>1, <2>2, <2>3, <2>5, TypeParts, PartsUnchanged DEF GatewayCrash
<1>5. QED BY <1>1, <1>2, <1>3, <1>4

\* Dispatch.
LEMMA DispatchType ==
  ASSUME TypeOK, NEW d \in Commands, Dispatch(d)
  PROVE  TypeOK'
<1>a. RowTyped /\ SessTyped /\ WireTyped /\ ClientTyped /\ CallersTyped
  BY TypeParts
<1>b. \A r \in {None, "ok", "failed"} : Returned(r) \in CallerType /\ Returned(r).s = None
                                      /\ Returned(r).pc = "done"
  BY DEF Returned, CallerType
<1>c. \A r \in {None, "ok", "failed"} :
        caller' = [caller EXCEPT ![d] = Returned(r)] /\ stored' = stored => CallersTyped'
  BY <1>a, <1>b DEF CallersTyped
<1>1. CASE DispatchGet(d)
  <2>1. CASE registry = None
    BY <1>a, <1>1, <1>c, <2>1, TypeParts, PartsUnchanged DEF DispatchGet
  <2>2. CASE registry # None
    <3>1. registry \in Streams
      BY <1>a, <2>2 DEF SessTyped
    <3>2. sess[registry].pending \cup {d} \in SUBSET Commands
      BY <1>a, <3>1 DEF SessTyped, SessType
    <3>3. [sess[registry] EXCEPT !.pending = sess[registry].pending \cup {d}] \in SessType
      BY <1>a, <3>1, <3>2, SessFields DEF SessTyped
    <3>4. SessTyped'
      BY <1>a, <1>1, <2>2, <3>1, <3>3 DEF SessTyped, DispatchGet
    <3>5. [[caller[d] EXCEPT !.pc = "send"] EXCEPT !.s = registry] \in CallerType
      BY <1>a, <3>1 DEF CallersTyped, CallerType
    <3>6. CallersTyped'
      BY <1>a, <1>1, <2>2, <3>1, <3>5, SessionAssumption DEF CallersTyped, CallerType, DispatchGet
    <3>7. QED BY <1>a, <1>1, <3>4, <3>6, TypeParts, PartsUnchanged DEF DispatchGet
  <2>3. QED BY <2>1, <2>2
<1>2. ASSUME caller[d].pc \in {"send", "wait"} PROVE caller[d].s \in Streams
  BY <1>a, <1>2 DEF CallersTyped, CallerType
<1>3. CASE DispatchSend(d)
  <2> DEFINE s == caller[d].s
  <2>1. s \in Streams
    BY <1>2, <1>3 DEF DispatchSend
  <2>2. sess[s].cmds \in Seq(Commands)
    BY <1>a, <2>1 DEF SessTyped, SessType
  <2>3. Append(sess[s].cmds, d) \in Seq(Commands)
    BY <2>2, AppendProperties
  <2>4. SessTyped'
    BY <1>a, <1>3, <2>1, <2>3, SessFields DEF SessTyped, DispatchSend
  <2>5. [caller[d] EXCEPT !.pc = "wait"] \in CallerType
    BY <1>a DEF CallersTyped, CallerType
  <2>6. CallersTyped'
    BY <1>a, <1>3, <2>5 DEF CallersTyped, CallerType, DispatchSend
  <2>7. QED BY <1>a, <1>3, <2>4, <2>6, TypeParts, PartsUnchanged DEF DispatchSend
<1>4. CASE DispatchAnswered(d)
  <2>1. caller[d].sig \in {None, "ok", "failed"}
    BY <1>a DEF CallersTyped, CallerType
  <2>2. QED BY <1>a, <1>4, <1>c, <2>1, TypeParts, PartsUnchanged DEF DispatchAnswered
<1>5. CASE DispatchTimeout(d)
  <2> DEFINE s == caller[d].s
  <2>1. s \in Streams
    BY <1>2, <1>5 DEF DispatchTimeout
  <2>2. sess[s].pending \ {d} \in SUBSET Commands
    BY <1>a, <2>1 DEF SessTyped, SessType
  <2>3. SessTyped'
    BY <1>a, <1>5, <2>1, <2>2, SessFields DEF SessTyped, DispatchTimeout, CancelCommand
  <2>4. QED BY <1>a, <1>5, <1>c, <2>3, TypeParts, PartsUnchanged DEF DispatchTimeout
<1>6. QED BY <1>1, <1>3, <1>4, <1>5 DEF Dispatch

\* Leaving a stream, whatever the reason.
LEMMA LeaveType ==
  ASSUME TypeOK, client.pc \in {"hello", "up"}, NEW pc \in {"down", "stopped"},
         NEW how \in {"closed", "silent"}, Leave(pc, how)
  PROVE  TypeOK'
<1>a. RowTyped /\ SessTyped /\ WireTyped /\ ClientTyped /\ CallersTyped
  BY TypeParts
<1>1. client.s \in Streams
  BY <1>a DEF ClientTyped
<1>2. ClientTyped'
  BY DEF ClientTyped, Leave
<1>3. WireTyped'
  BY <1>a, <1>1, EmptySeq DEF WireTyped, Leave
<1>4. QED BY <1>a, <1>2, <1>3, TypeParts, PartsUnchanged DEF Leave

\* The connector and the network.
LEMMA ConnectorType ==
  ASSUME TypeOK, Connect \/ SendBeat \/ NetworkFails \/ ConnectorStops
  PROVE  TypeOK'
<1>a. RowTyped /\ SessTyped /\ WireTyped /\ ClientTyped /\ CallersTyped
  BY TypeParts
<1>b. client.pc \in {"hello", "up"} => client.s \in Streams
  BY <1>a DEF ClientTyped
<1>1. ASSUME NEW s \in Streams, OpenStream(s) PROVE TypeOK'
  <2>1. ClientTyped'
    BY <1>1, SessionAssumption DEF ClientTyped, OpenStream
  <2>2. NewSession("hello") \in SessType
    BY NewSessionTyped DEF Pcs
  <2>3. SessTyped'
    BY <1>a, <1>1, <2>2 DEF SessTyped, OpenStream
  <2>4. WireTyped'
    BY <1>a, <1>1 DEF WireTyped, OpenStream
  <2>5. QED BY <1>a, <1>1, <2>1, <2>3, <2>4, TypeParts, PartsUnchanged DEF OpenStream
<1>2. CASE HelloAcked
  <2>1. ClientTyped'
    BY <1>a, <1>2 DEF ClientTyped, HelloAcked
  <2>2. WireTyped'
    BY <1>a, <1>b, <1>2, TakenTyped DEF WireTyped, HelloAcked
  <2>3. QED BY <1>a, <1>2, <2>1, <2>2, TypeParts, PartsUnchanged DEF HelloAcked
<1>3. CASE HandleCommand
  <2>1. PICK t \in {"data", "bad", "fail"} :
          up' = [up EXCEPT ![client.s] = Append(@, [t |-> t, d |-> Head(down[client.s])])]
    BY <1>3 DEF HandleCommand
  <2>2. [t |-> t, d |-> Head(down[client.s])] \in UpFrame
    BY <1>3 DEF HandleCommand, UpFrame
  <2>3. client.s \in Streams /\ up[client.s] \in Seq(UpFrame)
    BY <1>a, <1>b, <1>3 DEF WireTyped, HandleCommand
  <2>4. Append(up[client.s], [t |-> t, d |-> Head(down[client.s])]) \in Seq(UpFrame)
    BY <2>2, <2>3, AppendProperties
  <2>5. up' \in [Streams -> Seq(UpFrame)]
    BY <1>a, <2>1, <2>4 DEF WireTyped
  <2>6. WireTyped'
    BY <1>a, <1>3, <2>3, <2>5, TakenTyped DEF WireTyped, HandleCommand
  <2>7. QED BY <1>a, <1>3, <2>6, TypeParts, PartsUnchanged DEF HandleCommand
<1>4. CASE SendBeat
  <2>1. client.s \in Streams /\ up[client.s] \in Seq(UpFrame)
    BY <1>a, <1>b, <1>4 DEF WireTyped, SendBeat
  <2>2. [t |-> "beat"] \in UpFrame
    BY DEF UpFrame
  <2>3. Append(up[client.s], [t |-> "beat"]) \in Seq(UpFrame)
    BY <2>1, <2>2, AppendProperties
  <2>4. WireTyped'
    BY <1>a, <1>4, <2>3 DEF WireTyped, SendBeat
  <2>5. QED BY <1>a, <1>4, <2>4, TypeParts, PartsUnchanged DEF SendBeat
<1>5. CASE StreamOver
  BY <1>5, LeaveType DEF StreamOver
<1>6. CASE NetworkFails
  BY <1>6, LeaveType DEF NetworkFails
<1>7. CASE ConnectorStops
  <2>1. CASE client.pc = "down" /\ client' = [client EXCEPT !.pc = "stopped"]
             /\ UNCHANGED <<row, late, registry, sess, link, up, down, caller, stored,
                           consoleFaults, crashes>>
    <3>1. ClientTyped'
      BY <1>a, <2>1 DEF ClientTyped
    <3>2. QED BY <1>a, <2>1, <3>1, TypeParts, PartsUnchanged
  <2>2. QED BY <1>7, <2>1, LeaveType DEF ConnectorStops
<1>8. QED BY <1>1, <1>2, <1>3, <1>4, <1>5, <1>6, <1>7 DEF Connect

\* The operator and the reports that land late.
LEMMA RowType ==
  ASSUME TypeOK, Revoke \/ \E st \in Reports : LateReport(st)
  PROVE  TypeOK'
<1>a. RowTyped /\ SessTyped /\ WireTyped /\ ClientTyped /\ CallersTyped
  BY TypeParts
<1>1. RowTyped'
  BY <1>a DEF RowTyped, Revoke, LateReport, UpdateConnectorStatus, Reports, Statuses
<1>2. QED BY <1>a, <1>1, TypeParts, PartsUnchanged DEF Revoke, LateReport

\* Every step keeps the types.
LEMMA NextType == TypeOK /\ [Next]_vars => TypeOK'
<1> SUFFICES ASSUME TypeOK, [Next]_vars PROVE TypeOK'
  OBVIOUS
<1>1. CASE UNCHANGED vars
  BY <1>1, TypeParts, PartsUnchanged DEF vars
<1>2. CASE Next
  BY <1>2, HandshakeType, LoopEndType, LoopFrameType, EndType, DispatchType, ConnectorType, RowType
     DEF Next, Serve
<1>3. QED BY <1>1, <1>2

\* Every variable keeps its type: no session, frame, waiter or report is ever
\* outside what the handlers of src/gateway/internal/accept expect.
THEOREM TypeCorrect == Spec => []TypeOK
<1>1. QED BY InitType, NextType, PTL DEF Spec

-----------------------------------------------------------------------------
(* The registry and the sessions being served.                             *)

\* A session a step leaves where it was, with its drain signal.
Kept(s) == sess'[s].pc = sess[s].pc /\ sess'[s].drain = sess[s].drain

\* A step that moves no session and leaves the registry alone.
LEMMA RegistryUnmoved ==
  ASSUME SessTyped, RegistryTracksSessions, registry' = registry,
         \A s \in Streams : Kept(s)
  PROVE  RegistryTracksSessions'
BY SessionAssumption DEF SessTyped, RegistryTracksSessions, Kept

\* Sending an answer to a waiter moves no session.
LEMMA SignalKeeps ==
  ASSUME NEW ss \in [Streams -> SessType], NEW s \in Streams, NEW d \in Commands,
         NEW r \in {"ok", "failed"}, SignalCommand(ss, s, d, r), NEW q \in Streams
  PROVE  sess'[q].pc = ss[q].pc /\ sess'[q].drain = ss[q].drain
BY DEF SignalCommand, SessType

\* Two sessions: the one that moves, and the others, which keep their place.
\* The registered one stays being served, and one that is served is registered
\* or drained.
LEMMA RegistryMove ==
  ASSUME SessTyped, RegistryTracksSessions, NEW s \in Streams, registry' = registry,
         \A q \in Streams \ {s} : Kept(q),
         sess'[s].pc \in Serving => sess[s].pc \in Serving /\ sess'[s].drain = sess[s].drain,
         sess[s].pc \in Serving \cup {"offline", "remove"}
           => sess'[s].pc \in Serving \cup {"offline", "remove"}
  PROVE  RegistryTracksSessions'
BY SessionAssumption DEF SessTyped, RegistryTracksSessions, Kept

\* The handshake ends without the registry, registering drains the session it
\* replaces, and the other steps of a handler keep the session registered.
LEMMA ServeRegistry ==
  ASSUME TypeOK, RegistryTracksSessions, NEW s \in Streams,
         Serve(s) \/ LoopDrain(s) \/ LoopDegrade(s) \/ LoopOffline(s)
  PROVE  RegistryTracksSessions'
<1>a. SessTyped /\ WireTyped
  BY TypeParts
<1>1. CASE Handshake(s)
  <2>1. \A q \in Streams \ {s} : Kept(q)
    BY <1>a, <1>1 DEF Handshake, Finished, SessTyped, Kept
  <2>2. sess[s].pc = "hello" /\ sess'[s].pc \in {"add", "done"}
    BY <1>a, <1>1 DEF Handshake, Finished, NewSession, SessTyped, SessType
  <2>3. QED BY <1>a, <1>1, <2>1, <2>2, RegistryMove DEF Handshake, Serving
<1>2. CASE Register(s)
  <2> DEFINE ss == IF registry = None THEN sess ELSE SignalDrain(sess, registry)
  <2>1. /\ ss \in [Streams -> SessType]
        /\ \A q \in Streams : /\ ss[q].pc = sess[q].pc
                              /\ ss[q].drain = (IF q = registry THEN TRUE ELSE sess[q].drain)
    <3>1. CASE registry = None
      BY <1>a, <3>1, SessionAssumption DEF SessTyped
    <3>2. CASE registry # None
      <4>1. registry \in Streams
        BY <1>a, <3>2 DEF SessTyped
      <4>2. ss = [sess EXCEPT ![registry].drain = TRUE]
        BY <3>2 DEF SignalDrain
      <4>3. ss \in [Streams -> SessType]
        BY <1>a, <3>2, <4>1, DrainTyped
      <4> HIDE DEF ss
      <4>4. QED BY <1>a, <4>1, <4>2, <4>3 DEF SessTyped, SessType
    <3>3. QED BY <3>1, <3>2
  <2>2. registry' = s /\ sess' = [ss EXCEPT ![s].pc = "announce"]
    BY <1>2 DEF Register, Add
  <2> HIDE DEF ss
  <2>3. \A q \in Streams : /\ sess'[q].pc = (IF q = s THEN "announce" ELSE sess[q].pc)
                            /\ sess'[q].drain = (IF q = registry THEN TRUE ELSE sess[q].drain)
    BY <2>1, <2>2 DEF SessType
  <2>4. QED BY <1>2, <2>2, <2>3 DEF RegistryTracksSessions, Register, Serving
<1>3. CASE Announce(s)
  <2>1. \A q \in Streams \ {s} : Kept(q)
    BY <1>a, <1>3 DEF Announce, SessTyped, Kept
  <2>2. /\ sess[s].pc = "announce" /\ sess'[s].pc \in {"offline", "loop"}
        /\ sess'[s].drain = sess[s].drain
    BY <1>a, <1>3 DEF Announce, SessTyped, SessType
  <2>3. QED BY <1>a, <1>3, <2>1, <2>2, RegistryMove DEF Announce, Serving
<1>4. CASE LoopDrain(s)
  <2>1. \A q \in Streams \ {s} : Kept(q)
    BY <1>a, <1>4 DEF LoopDrain, SessTyped, Kept
  <2>2. sess'[s].pc = "offline"
    BY <1>a, <1>4 DEF LoopDrain, SessTyped, SessType
  <2>3. QED BY <1>a, <1>4, <2>1, <2>2, RegistryMove DEF LoopDrain, Serving
<1>5. CASE LoopClosed(s) \/ LoopOffline(s) \/ DeferredOffline(s)
  <2>1. \A q \in Streams \ {s} : Kept(q)
    BY <1>a, <1>5 DEF LoopClosed, LoopOffline, DeferredOffline, SessTyped, Kept
  <2>2. sess'[s].pc \in {"offline", "remove"}
    BY <1>a, <1>5 DEF LoopClosed, LoopOffline, DeferredOffline, SessTyped, SessType
  <2>3. QED
    BY <1>a, <1>5, <2>1, <2>2, RegistryMove DEF LoopClosed, LoopOffline, DeferredOffline, Serving
<1>6. CASE LoopDegrade(s) \/ LoopBeat(s)
  BY <1>a, <1>6, RegistryUnmoved DEF LoopDegrade, LoopBeat, SessTyped, SessType, Kept
<1>7. CASE LoopCommand(s)
  <2> DEFINE ss == [sess EXCEPT ![s].cmds = Tail(@)]
  <2>1. sess[s] \in SessType /\ sess[s].cmds \in Seq(Commands)
    BY <1>a DEF SessTyped, SessType
  <2>2. Head(sess[s].cmds) \in Commands /\ Tail(sess[s].cmds) \in Seq(Commands)
    BY <1>7, <2>1, HeadTailProperties DEF LoopCommand
  <2>3. ss \in [Streams -> SessType]
    BY <1>a, <2>1, <2>2, SessFields DEF SessTyped
  <2>4. \A q \in Streams : ss[q].pc = sess[q].pc /\ ss[q].drain = sess[q].drain
    BY <1>a DEF SessTyped, SessType
  <2>5. SignalCommand(ss, s, Head(sess[s].cmds), "failed") \/ sess' = ss
    BY <1>7, Zenon DEF LoopCommand
  <2> HIDE DEF ss
  <2>6. \A q \in Streams : Kept(q)
    BY <2>2, <2>3, <2>4, <2>5, SignalKeeps DEF Kept
  <2>7. QED BY <1>a, <1>7, <2>6, RegistryUnmoved DEF LoopCommand
<1>8. CASE LoopUpload(s)
  <2>1. Head(up[s]).d \in Commands
    BY <1>a, <1>8, ReadTyped, AnswerFrame DEF LoopUpload
  <2>2. PICK r \in {"ok", "failed"} : SignalCommand(sess, s, Head(up[s]).d, r)
    BY <1>8 DEF LoopUpload
  <2>3. \A q \in Streams : Kept(q)
    BY <1>a, <2>1, <2>2, SignalKeeps DEF SessTyped, Kept
  <2>4. QED BY <1>a, <1>8, <2>3, RegistryUnmoved DEF LoopUpload
<1>9. CASE DeferredRemove(s)
  <2>1. \A q \in Streams \ {s} : Kept(q)
    BY <1>a, <1>9 DEF DeferredRemove, Finished, SessTyped, Kept
  <2>2. sess'[s].pc = "done"
    BY <1>a, <1>9 DEF DeferredRemove, Finished, NewSession, SessTyped
  <2>3. QED
    BY <1>a, <1>9, <2>1, <2>2, SessionAssumption
       DEF SessTyped, DeferredRemove, Remove, RegistryTracksSessions, Kept, Serving
<1>10. QED BY <1>1, <1>2, <1>3, <1>4, <1>5, <1>6, <1>7, <1>8, <1>9 DEF Serve

\* Callers only touch queues and waiters.
LEMMA DispatchRegistry ==
  ASSUME TypeOK, RegistryTracksSessions, NEW d \in Commands, Dispatch(d)
  PROVE  RegistryTracksSessions'
<1>a. SessTyped
  BY TypeParts
<1>1. registry' = registry
  BY DEF Dispatch, DispatchGet, DispatchSend, DispatchAnswered, DispatchTimeout
<1>2. \A q \in Streams : Kept(q)
  <2>1. CASE DispatchGet(d)
    <3>1. CASE registry = None
      BY <2>1, <3>1 DEF DispatchGet, Kept
    <3>2. CASE registry # None
      <4>1. sess' = [sess EXCEPT ![registry].pending = @ \cup {d}]
        BY <2>1, <3>2 DEF DispatchGet
      <4>2. QED BY <1>a, <4>1 DEF SessTyped, SessType, Kept
    <3>3. QED BY <3>1, <3>2
  <2>2. CASE DispatchSend(d)
    BY <1>a, <2>2 DEF DispatchSend, SessTyped, SessType, Kept
  <2>3. CASE DispatchAnswered(d)
    BY <2>3 DEF DispatchAnswered, Kept
  <2>4. CASE DispatchTimeout(d)
    BY <1>a, <2>4 DEF DispatchTimeout, CancelCommand, SessTyped, SessType, Kept
  <2>5. QED BY <2>1, <2>2, <2>3, <2>4 DEF Dispatch
<1>3. QED BY <1>a, <1>1, <1>2, RegistryUnmoved

\* Every step keeps the registry on a session that is served.
LEMMA NextRegistry ==
  TypeOK /\ RegistryTracksSessions /\ [Next]_vars => RegistryTracksSessions'
<1> SUFFICES ASSUME TypeOK, RegistryTracksSessions, [Next]_vars PROVE RegistryTracksSessions'
  OBVIOUS
<1>a. SessTyped
  BY TypeParts
<1>1. CASE UNCHANGED <<registry, sess>>
  BY <1>a, <1>1, RegistryUnmoved DEF Kept
<1>2. ASSUME NEW s \in Streams, OpenStream(s) PROVE RegistryTracksSessions'
  BY <1>a, <1>2, RegistryMove
     DEF OpenStream, Unused, Ended, NewSession, SessTyped, Kept, Serving
<1>3. CASE DrainAll
  BY <1>a, <1>3, SessionAssumption
     DEF DrainAll, SignalDrain, SessTyped, SessType, RegistryTracksSessions
<1>4. CASE GatewayCrash
  BY <1>4 DEF GatewayCrash, NewSession, RegistryTracksSessions, Serving
<1>5. CASE HelloAcked \/ HandleCommand \/ StreamOver \/ SendBeat \/ NetworkFails \/ ConnectorStops
           \/ Revoke \/ \E st \in Reports : LateReport(st)
  BY <1>1, <1>5
     DEF HelloAcked, HandleCommand, StreamOver, SendBeat, NetworkFails, ConnectorStops, Leave,
         Revoke, LateReport
<1>6. QED
  BY <1>1, <1>2, <1>3, <1>4, <1>5, ServeRegistry, DispatchRegistry DEF Next, Connect, vars

\* registry.add, registry.remove, GracefulStop: a session being served is the
\* registered one or was told to drain, and the registered one is being served.
THEOREM RegistryCorrect == Spec => []RegistryTracksSessions
<1>1. Init => RegistryTracksSessions
  BY DEF Init, RegistryTracksSessions, NewSession, Serving
<1>2. QED BY <1>1, InitType, NextType, NextRegistry, PTL DEF Spec

-----------------------------------------------------------------------------
(* The waiters of a session.                                               *)

\* A caller that has not asked yet has no answer.
FreshHasNoAnswer == \A d \in Commands : caller[d].pc = "idle" => caller[d].sig = None

\* PendingIsAwaited with what makes it inductive.
PendingInv == PendingIsAwaited /\ FreshHasNoAnswer

\* What PendingInv says of one stream and one command.
Awaited(s, d) == caller[d].pc \in {"send", "wait"} /\ caller[d].s = s /\ caller[d].sig = None

\* A step that registers no waiter and changes no caller.
LEMMA PendingUnmoved ==
  ASSUME PendingInv, caller' = caller,
         \A s \in Streams : sess'[s].pc # "done" /\ sess'[s].pending # {}
           => sess[s].pc # "done" /\ sess'[s].pending \subseteq sess[s].pending
  PROVE  PendingInv'
BY DEF PendingInv, PendingIsAwaited, FreshHasNoAnswer, Ended

\* signalCommand takes the waiter out before anybody can answer it again: the
\* waiters of the other sessions are other callers.
LEMMA SignalPending ==
  ASSUME CallersTyped, PendingInv, NEW s \in Streams, sess[s].pc # "done",
         NEW ss \in [Streams -> SessType],
         \A q \in Streams : ss[q].pc = sess[q].pc /\ ss[q].pending = sess[q].pending,
         NEW d \in Commands, NEW r \in {"ok", "failed"}, SignalCommand(ss, s, d, r)
  PROVE  PendingInv'
<1>1. \A q \in Streams : /\ sess'[q].pc = sess[q].pc
                        /\ sess'[q].pending = sess[q].pending \ (IF q = s THEN {d} ELSE {})
  BY DEF SignalCommand, SessType
<1>2. CASE d \in sess[s].pending
  <2>1. Awaited(s, d)
    BY <1>2 DEF PendingInv, PendingIsAwaited, Ended, Awaited
  <2>2. caller' = [caller EXCEPT ![d].sig = r]
    BY <1>2 DEF SignalCommand
  <2>3. \A c \in Commands : c # d => caller'[c] = caller[c]
    BY <2>2 DEF CallersTyped
  <2>4. caller'[d].pc = caller[d].pc
    BY <2>2 DEF CallersTyped, CallerType
  <2>5. \A q \in Streams : sess'[q].pc # "done" => d \notin sess'[q].pending
    BY <1>1, <2>1 DEF PendingInv, PendingIsAwaited, Ended, Awaited
  <2>6. ASSUME NEW q \in Streams, sess'[q].pc # "done", NEW c \in sess'[q].pending
        PROVE  /\ caller'[c].pc \in {"send", "wait"} /\ caller'[c].s = q
               /\ caller'[c].sig = None
    <3>1. c \in Commands
      BY <1>1, <2>6 DEF SessType
    <3>2. QED BY <1>1, <2>3, <2>5, <2>6, <3>1 DEF PendingInv, PendingIsAwaited, Ended
  <2>7. PendingIsAwaited'
    BY <2>6 DEF PendingIsAwaited, Ended
  <2>8. FreshHasNoAnswer'
    BY <2>1, <2>3, <2>4 DEF PendingInv, FreshHasNoAnswer, Awaited
  <2>9. QED BY <2>7, <2>8 DEF PendingInv
<1>3. CASE d \notin sess[s].pending
  <2>1. caller' = caller
    BY <1>3 DEF SignalCommand
  <2>2. QED BY <1>1, <2>1, PendingUnmoved
<1>4. QED BY <1>2, <1>3

\* The handlers.
LEMMA ServePending ==
  ASSUME TypeOK, PendingInv, NEW s \in Streams,
         Serve(s) \/ LoopDrain(s) \/ LoopDegrade(s) \/ LoopOffline(s)
  PROVE  PendingInv'
<1>a. SessTyped /\ WireTyped /\ CallersTyped
  BY TypeParts
<1>1. CASE Handshake(s) \/ DeferredRemove(s)
  <2>1. \A q \in Streams \ {s} : sess'[q] = sess[q]
    BY <1>a, <1>1 DEF Handshake, DeferredRemove, Finished, SessTyped
  <2>2. sess'[s].pc = "done" \/ (sess[s].pc = "hello" /\ sess'[s].pending = sess[s].pending)
    BY <1>a, <1>1 DEF Handshake, DeferredRemove, Finished, NewSession, SessTyped, SessType
  <2>3. QED BY <1>1, <2>1, <2>2, PendingUnmoved DEF Handshake, DeferredRemove
<1>2. CASE Register(s)
  BY <1>a, <1>2, PendingUnmoved DEF Register, Add, SignalDrain, SessTyped, SessType
<1>3. CASE Announce(s) \/ LoopDrain(s) \/ LoopClosed(s) \/ LoopDegrade(s) \/ LoopOffline(s)
           \/ LoopBeat(s) \/ DeferredOffline(s)
  <2>1. \A q \in Streams \ {s} : sess'[q] = sess[q]
    BY <1>a, <1>3
       DEF Announce, LoopDrain, LoopClosed, LoopDegrade, LoopOffline, LoopBeat, DeferredOffline,
           SessTyped
  <2>2. sess[s].pc # "done" /\ sess'[s].pending = sess[s].pending
    BY <1>a, <1>3
       DEF Announce, LoopDrain, LoopClosed, LoopDegrade, LoopOffline, LoopBeat, DeferredOffline,
           SessTyped, SessType
  <2>3. caller' = caller
    BY <1>3
       DEF Announce, LoopDrain, LoopClosed, LoopDegrade, LoopOffline, LoopBeat, DeferredOffline
  <2>4. QED BY <2>1, <2>2, <2>3, PendingUnmoved
<1>4. CASE LoopCommand(s)
  <2> DEFINE ss == [sess EXCEPT ![s].cmds = Tail(@)]
  <2>1. sess[s] \in SessType /\ sess[s].cmds \in Seq(Commands) /\ sess[s].pc # "done"
    BY <1>a, <1>4 DEF SessTyped, SessType, LoopCommand
  <2>2. Head(sess[s].cmds) \in Commands /\ Tail(sess[s].cmds) \in Seq(Commands)
    BY <1>4, <2>1, HeadTailProperties DEF LoopCommand
  <2>3. ss \in [Streams -> SessType]
    BY <1>a, <2>1, <2>2, SessFields DEF SessTyped
  <2>4. \A q \in Streams : ss[q].pc = sess[q].pc /\ ss[q].pending = sess[q].pending
    BY <1>a DEF SessTyped, SessType
  <2>5. SignalCommand(ss, s, Head(sess[s].cmds), "failed") \/ (sess' = ss /\ UNCHANGED caller)
    BY <1>4, Zenon DEF LoopCommand
  <2> HIDE DEF ss
  <2>6. CASE SignalCommand(ss, s, Head(sess[s].cmds), "failed")
    BY <1>a, <2>1, <2>2, <2>3, <2>4, <2>6, SignalPending
  <2>7. CASE sess' = ss /\ UNCHANGED caller
    BY <2>4, <2>7, PendingUnmoved
  <2>8. QED BY <2>5, <2>6, <2>7
<1>5. CASE LoopUpload(s)
  <2>1. Head(up[s]).d \in Commands
    BY <1>a, <1>5, ReadTyped, AnswerFrame DEF LoopUpload
  <2>2. PICK r \in {"ok", "failed"} : SignalCommand(sess, s, Head(up[s]).d, r)
    BY <1>5 DEF LoopUpload
  <2>3. sess[s].pc # "done" /\ sess \in [Streams -> SessType]
    BY <1>a, <1>5 DEF LoopUpload, SessTyped
  <2>4. QED BY <1>a, <2>1, <2>2, <2>3, SignalPending
<1>6. QED BY <1>1, <1>2, <1>3, <1>4, <1>5 DEF Serve

\* Dispatch registers its own command, and no caller leaves one behind.
LEMMA DispatchPending ==
  ASSUME TypeOK, PendingInv, NEW d \in Commands, Dispatch(d)
  PROVE  PendingInv'
<1>a. SessTyped /\ CallersTyped
  BY TypeParts
<1>b. \A q \in Streams : sess[q].pc # "done" => sess[q].pending \subseteq Commands
                       /\ \A c \in sess[q].pending : Awaited(q, c)
  BY <1>a DEF SessTyped, SessType, PendingInv, PendingIsAwaited, Ended, Awaited
<1>c. FreshHasNoAnswer
  BY DEF PendingInv
<1>1. ASSUME NEW x, caller' = [caller EXCEPT ![d] = x],
             \A q \in Streams : /\ sess'[q].pc = sess[q].pc
                                /\ sess'[q].pc # "done" => sess'[q].pending \ {d} \subseteq sess[q].pending,
             x.pc = "idle" => x.sig = None,
             \A q \in Streams : sess'[q].pc # "done" /\ d \in sess'[q].pending =>
               x.pc \in {"send", "wait"} /\ x.s = q /\ x.sig = None
      PROVE  PendingInv'
  <2>1. caller'[d] = x /\ \A c \in Commands : c # d => caller'[c] = caller[c]
    BY <1>a, <1>1 DEF CallersTyped
  <2>2. FreshHasNoAnswer'
    BY <1>c, <1>1, <2>1 DEF FreshHasNoAnswer
  <2>3. ASSUME NEW q \in Streams, sess'[q].pc # "done", NEW c \in sess'[q].pending
        PROVE  /\ caller'[c].pc \in {"send", "wait"} /\ caller'[c].s = q
               /\ caller'[c].sig = None
    <3>1. CASE c = d
      BY <1>1, <2>1, <2>3, <3>1
    <3>2. CASE c # d
      BY <1>b, <1>1, <2>1, <2>3, <3>2 DEF Awaited
    <3>3. QED BY <3>1, <3>2
  <2>4. QED BY <2>2, <2>3 DEF PendingInv, PendingIsAwaited, Ended
<1>2. CASE DispatchGet(d)
  <2>1. CASE registry = None
    <3> DEFINE x == Returned("failed")
    <3>1. caller' = [caller EXCEPT ![d] = x] /\ sess' = sess /\ caller[d].pc = "idle"
      BY <1>2, <2>1 DEF DispatchGet
    <3>2. x.pc = "done"
      BY DEF Returned
    <3> HIDE DEF x
    <3>3. \A q \in Streams : sess'[q].pc # "done" => d \notin sess'[q].pending
      BY <1>b, <3>1 DEF Awaited
    <3>4. QED BY <1>1, <3>1, <3>2, <3>3
  <2>2. CASE registry # None
    <3> DEFINE x == [[caller[d] EXCEPT !.pc = "send"] EXCEPT !.s = registry]
    <3>1. /\ caller' = [caller EXCEPT ![d] = x]
          /\ sess' = [sess EXCEPT ![registry].pending = @ \cup {d}]
          /\ caller[d].pc = "idle"
      BY <1>2, <2>2 DEF DispatchGet
    <3>2. x.pc = "send" /\ x.s = registry /\ x.sig = None
      BY <1>a, <1>c, <3>1 DEF FreshHasNoAnswer, CallersTyped, CallerType
    <3> HIDE DEF x
    <3>3. \A q \in Streams : /\ sess'[q].pc = sess[q].pc
            /\ sess'[q].pending = sess[q].pending \cup (IF q = registry THEN {d} ELSE {})
      BY <1>a, <3>1 DEF SessTyped, SessType
    <3>4. \A q \in Streams : sess[q].pc # "done" => d \notin sess[q].pending
      BY <1>b, <3>1 DEF Awaited
    <3>5. QED BY <1>1, <3>1, <3>2, <3>3, <3>4
  <2>3. QED BY <2>1, <2>2
<1>3. CASE DispatchSend(d)
  <2> DEFINE x == [caller[d] EXCEPT !.pc = "wait"]
  <2>1. /\ caller' = [caller EXCEPT ![d] = x] /\ caller[d].pc = "send"
        /\ sess' = [sess EXCEPT ![caller[d].s].cmds = Append(@, d)]
    BY <1>3 DEF DispatchSend
  <2>2. x.pc = "wait" /\ x.s = caller[d].s /\ x.sig = caller[d].sig
    BY <1>a DEF CallersTyped, CallerType
  <2> HIDE DEF x
  <2>3. \A q \in Streams : sess'[q].pc = sess[q].pc /\ sess'[q].pending = sess[q].pending
    BY <1>a, <2>1 DEF SessTyped, SessType
  <2>4. \A q \in Streams : sess'[q].pc # "done" /\ d \in sess'[q].pending =>
               x.pc \in {"send", "wait"} /\ x.s = q /\ x.sig = None
    BY <1>b, <2>2, <2>3 DEF Awaited
  <2>5. QED BY <1>1, <2>1, <2>2, <2>3, <2>4
<1>4. CASE DispatchAnswered(d)
  BY <1>1, <1>4, <1>b DEF DispatchAnswered, Returned, Awaited
<1>5. CASE DispatchTimeout(d)
  <2>1. /\ caller' = [caller EXCEPT ![d] = Returned("failed")]
        /\ sess' = [sess EXCEPT ![caller[d].s].pending = @ \ {d}]
    BY <1>5 DEF DispatchTimeout, CancelCommand
  <2>2. \A q \in Streams : /\ sess'[q].pc = sess[q].pc
          /\ sess'[q].pending = sess[q].pending \ (IF q = caller[d].s THEN {d} ELSE {})
    BY <1>a, <2>1 DEF SessTyped, SessType
  <2>3. \A q \in Streams : sess'[q].pc # "done" => d \notin sess'[q].pending
    BY <1>b, <2>2 DEF Awaited
  <2>4. Returned("failed").pc = "done"
    BY DEF Returned
  <2>5. QED BY <1>1, <2>1, <2>2, <2>3, <2>4
<1>6. QED BY <1>2, <1>3, <1>4, <1>5 DEF Dispatch

\* Every step keeps the waiters awaited.
LEMMA NextPending == TypeOK /\ PendingInv /\ [Next]_vars => PendingInv'
<1> SUFFICES ASSUME TypeOK, PendingInv, [Next]_vars PROVE PendingInv'
  OBVIOUS
<1>a. SessTyped /\ CallersTyped
  BY TypeParts
<1>1. CASE UNCHANGED <<sess, caller>>
  BY <1>1, PendingUnmoved
<1>2. ASSUME NEW s \in Streams, OpenStream(s) PROVE PendingInv'
  BY <1>a, <1>2, PendingUnmoved DEF OpenStream, NewSession, SessTyped
<1>3. CASE DrainAll
  BY <1>a, <1>3, PendingUnmoved DEF DrainAll, SignalDrain, SessTyped, SessType
<1>4. CASE GatewayCrash
  <2>1. FreshHasNoAnswer'
    BY <1>a, <1>4 DEF GatewayCrash, PendingInv, FreshHasNoAnswer, Returned, CallersTyped
  <2>2. \A s \in Streams : sess'[s].pc = "done"
    BY <1>4 DEF GatewayCrash, NewSession
  <2>3. QED BY <2>1, <2>2 DEF PendingInv, PendingIsAwaited, Ended
<1>5. CASE HelloAcked \/ HandleCommand \/ StreamOver \/ SendBeat \/ NetworkFails \/ ConnectorStops
           \/ Revoke \/ \E st \in Reports : LateReport(st)
  BY <1>1, <1>5
     DEF HelloAcked, HandleCommand, StreamOver, SendBeat, NetworkFails, ConnectorStops, Leave,
         Revoke, LateReport
<1>6. QED
  BY <1>1, <1>2, <1>3, <1>4, <1>5, ServePending, DispatchPending DEF Next, Connect, vars

\* awaitCommand, cancelCommand, signalCommand: an entry of a session's waiters
\* is a caller still waiting on that session, so none leaks and none is
\* signalled twice.
THEOREM PendingCorrect == Spec => []PendingIsAwaited
<1>1. Init => PendingInv
  BY DEF Init, PendingInv, PendingIsAwaited, FreshHasNoAnswer, NewSession, Ended
<1>2. PendingInv => PendingIsAwaited
  BY DEF PendingInv
<1>3. QED BY <1>1, <1>2, InitType, NextType, NextPending, PTL DEF Spec

-----------------------------------------------------------------------------
(* What the collect endpoint answers.                                      *)

\* The answer is under way, or given, only after the console stored the data:
\* the strengthening covers the signal that the caller has not read yet.
StoredInv ==
  \A d \in Commands : caller[d].sig = "ok" \/ caller[d].res = "ok" => d \in stored

\* What is stored stays stored, and a step that gives no "ok" keeps the invariant.
LEMMA StoredKept ==
  ASSUME StoredInv, stored \subseteq stored',
         \A d \in Commands :
           \/ caller'[d].sig = caller[d].sig /\ caller'[d].res = caller[d].res
           \/ caller'[d].sig # "ok" /\ caller'[d].res # "ok"
           \/ d \in stored'
  PROVE  StoredInv'
BY DEF StoredInv

\* A signal reaches the caller whose command it carries, and no other.
LEMMA SignalStored ==
  ASSUME CallersTyped, NEW ss, NEW s \in Streams, NEW d \in Commands, NEW r \in {"ok", "failed"},
         SignalCommand(ss, s, d, r), NEW c \in Commands
  PROVE  /\ caller'[c].res = caller[c].res
         /\ caller'[c].sig = caller[c].sig \/ (c = d /\ caller'[c].sig = r)
BY DEF CallersTyped, CallerType, SignalCommand

\* A caller that returns "failed" or has yet to be answered claims nothing.
LEMMA NoClaim ==
  /\ None # "ok" /\ None # "failed"
  /\ Returned("failed").res = "failed" /\ Returned("failed").sig = None
  /\ \A r : Returned(r).res = r /\ Returned(r).sig = None
BY SessionAssumption DEF Returned

\* The handlers: only a decoded upload that the console accepted answers "ok".
LEMMA ServeStored ==
  ASSUME TypeOK, StoredInv, NEW s \in Streams,
         Serve(s) \/ LoopDrain(s) \/ LoopDegrade(s) \/ LoopOffline(s)
  PROVE  StoredInv'
<1>a. SessTyped /\ WireTyped /\ CallersTyped
  BY TypeParts
<1>1. CASE UNCHANGED <<caller, stored>>
  BY <1>1, StoredKept
<1>2. CASE LoopCommand(s)
  <2>1. sess[s].cmds \in Seq(Commands)
    BY <1>a DEF SessTyped, SessType
  <2>2. Head(sess[s].cmds) \in Commands
    BY <1>2, <2>1, HeadTailProperties DEF LoopCommand
  <2>3. /\ stored' = stored
        /\ \/ UNCHANGED caller
           \/ \E ss : SignalCommand(ss, s, Head(sess[s].cmds), "failed")
    BY <1>2, Zenon DEF LoopCommand
  <2>4. CASE UNCHANGED caller
    BY <2>3, <2>4, <1>1
  <2>5. ASSUME NEW ss, SignalCommand(ss, s, Head(sess[s].cmds), "failed") PROVE StoredInv'
    BY <1>a, <2>2, <2>3, <2>5, SignalStored DEF StoredInv
  <2>6. QED BY <2>3, <2>4, <2>5
<1>3. CASE LoopUpload(s)
  <2> DEFINE f == Head(up[s])
  <2>1. f.d \in Commands
    BY <1>a, <1>3, ReadTyped, AnswerFrame DEF LoopUpload
  <2>2. PICK r \in {"ok", "failed"} : Upload(f, r) /\ SignalCommand(sess, s, f.d, r)
    BY <1>3 DEF LoopUpload
  <2> HIDE DEF f
  <2>3. stored \subseteq stored' /\ (r = "ok" => f.d \in stored')
    BY <2>2 DEF Upload
  <2>4. QED BY <1>a, <2>1, <2>2, <2>3, SignalStored DEF StoredInv
<1>4. QED
  BY <1>1, <1>2, <1>3
     DEF Serve, Handshake, Register, Announce, LoopDrain, LoopClosed, LoopDegrade, LoopOffline,
         LoopBeat, DeferredOffline, DeferredRemove

\* Dispatch passes on the answer it was sent, and answers "failed" by itself.
LEMMA DispatchStored ==
  ASSUME TypeOK, StoredInv, NEW d \in Commands, Dispatch(d)
  PROVE  StoredInv'
<1>a. CallersTyped
  BY TypeParts
<1>1. stored' = stored
  BY DEF Dispatch, DispatchGet, DispatchSend, DispatchAnswered, DispatchTimeout
<1>2. \A c \in Commands : c # d => caller'[c] = caller[c]
  BY <1>a
     DEF Dispatch, DispatchGet, DispatchSend, DispatchAnswered, DispatchTimeout, CallersTyped
<1>3. CASE caller' = [caller EXCEPT ![d] = Returned("failed")]
  <2>1. caller'[d] = Returned("failed")
    BY <1>a, <1>3 DEF CallersTyped
  <2>2. QED BY <1>1, <1>2, <2>1, NoClaim DEF StoredInv
<1>4. CASE DispatchAnswered(d)
  <2>1. caller'[d] = Returned(caller[d].sig)
    BY <1>a, <1>4 DEF CallersTyped, DispatchAnswered
  <2>2. QED BY <1>1, <1>2, <2>1, NoClaim DEF StoredInv
<1>5. CASE DispatchGet(d) \/ DispatchSend(d)
  <2>1. CASE caller'[d].sig = caller[d].sig /\ caller'[d].res = caller[d].res
    BY <1>1, <1>2, <2>1 DEF StoredInv
  <2>2. QED
    BY <1>a, <1>3, <1>5, <2>1 DEF DispatchGet, DispatchSend, CallersTyped, CallerType
<1>6. QED BY <1>3, <1>4, <1>5 DEF Dispatch, DispatchTimeout

\* Every step keeps the answers true.
LEMMA NextStored == TypeOK /\ StoredInv /\ [Next]_vars => StoredInv'
<1> SUFFICES ASSUME TypeOK, StoredInv, [Next]_vars PROVE StoredInv'
  OBVIOUS
<1>a. CallersTyped
  BY TypeParts
<1>1. CASE UNCHANGED <<caller, stored>>
  BY <1>1, StoredKept
<1>2. CASE GatewayCrash
  <2>1. \A d \in Commands : caller'[d] = caller[d] \/ caller'[d] = Returned("failed")
    BY <1>2 DEF GatewayCrash
  <2>2. stored' = stored
    BY <1>2 DEF GatewayCrash
  <2>3. QED BY <2>1, <2>2, NoClaim DEF StoredInv
<1>3. CASE (\E s \in Streams : OpenStream(s)) \/ HelloAcked \/ HandleCommand \/ StreamOver \/ SendBeat
           \/ NetworkFails \/ ConnectorStops \/ DrainAll
           \/ Revoke \/ \E st \in Reports : LateReport(st)
  BY <1>1, <1>3
     DEF OpenStream, HelloAcked, HandleCommand, StreamOver, SendBeat, NetworkFails, ConnectorStops,
         Leave, DrainAll, Revoke, LateReport
<1>4. QED BY <1>1, <1>2, <1>3, ServeStored, DispatchStored DEF Next, Connect, vars

\* Dispatch, handleDataUpload, handleSnapshotUpload: a caller told "ok" can
\* rely on the console having stored the data of its own command.
THEOREM AnswerCorrect == Spec => []OkMeansStored
<1>1. Init => StoredInv
  BY NoClaim DEF Init, StoredInv
<1>2. StoredInv => OkMeansStored
  BY DEF StoredInv, OkMeansStored
<1>3. QED BY <1>1, <1>2, InitType, NextType, NextStored, PTL DEF Spec

=============================================================================
