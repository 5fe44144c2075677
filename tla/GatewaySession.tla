---------------------------- MODULE GatewaySession ----------------------------
(***************************************************************************)
(* The sessions of one connector: the connector's client loop              *)
(* (src/connector/internal/session), the gateway's handler, registry and   *)
(* collect endpoint (src/gateway/internal/accept) and the status row the   *)
(* console keeps of it.  Sessions of different connectors share nothing.   *)
(***************************************************************************)
EXTENDS Integers, Sequences, FiniteSets

CONSTANTS
  Streams,      \* the bidi streams that can exist at once; an ended one is used again
  Commands,     \* calls of the collect endpoint, each with its own command id
  CmdCap,       \* capacity of session.commands (4 in the code)
  MaxConsoleFaults,  \* bound on console calls that fail or land late
  MaxCrashes,   \* bound on crashes of the gateway
  Revocable,    \* whether an operator may revoke the connector
  Timed,        \* whether behaviours last longer than a heartbeat interval
  None

ASSUME SessionAssumption ==
  /\ Streams \subseteq Nat /\ CmdCap \in Nat \ {0}
  /\ MaxConsoleFaults \in Nat /\ MaxCrashes \in Nat /\ Revocable \in BOOLEAN /\ Timed \in BOOLEAN
  /\ None \notin Streams \cup Commands /\ None \notin {"ok", "failed"}

VARIABLES
  row,        \* connectors.status
  late,       \* reports whose caller gave up waiting and which still land
  registry,   \* registry.sessions[connector]
  sess,       \* per stream: the gateway's handler and its session object
  link,       \* per stream: how the connector's end of it stands
  up, down,   \* per stream: frames in flight
  client,     \* the connector process
  caller,     \* per command: the request in Dispatch
  stored,     \* commands whose data the console has stored
  consoleFaults, crashes    \* faults so far

vars == <<row, late, registry, sess, link, up, down, client, caller, stored, consoleFaults, crashes>>

Statuses == {"enrolled", "online", "degraded", "offline", "revoked"}
Reports == {"online", "degraded", "offline"}
UpFrame == [t : {"beat"}] \cup [t : {"data", "bad", "fail"}, d : Commands]
Serving == {"announce", "loop"}     \* between add and the deferred calls

TypeOK ==
  /\ row \in Statuses /\ late \subseteq Reports
  /\ registry \in Streams \cup {None}
  /\ sess \in [Streams -> [pc : {"done", "hello", "add", "offline", "remove"} \cup Serving,
                           drain : BOOLEAN, cmds : Seq(Commands), pending : SUBSET Commands,
                           degrade : {"armed", "spent"}]]
  /\ link \in [Streams -> {"open", "silent", "closed"}]
  /\ up \in [Streams -> Seq(UpFrame)]
  /\ down \in [Streams -> Seq(Commands \cup {"ack", "drain"})]
  /\ client \in [pc : {"down", "hello", "up", "stopped"}, s : Streams \cup {None}]
  /\ caller \in [Commands -> [pc : {"idle", "send", "wait", "done"}, s : Streams \cup {None},
                              sig : {None, "ok", "failed"},
                              res : {None, "ok", "failed"}]]
  /\ client.s # None <=> client.pc \in {"hello", "up"}
  /\ \A d \in Commands : caller[d].s # None <=> caller[d].pc \in {"send", "wait"}
  /\ stored \subseteq Commands
  /\ consoleFaults \in 0 .. MaxConsoleFaults /\ crashes \in 0 .. MaxCrashes

-----------------------------------------------------------------------------
(* The console's row.  Revoked is terminal, and pending rows never get here. *)

UpdateConnectorStatus(st) == IF row = "revoked" THEN row ELSE st

\* A report that fails is only logged; one that timed out may still land later.
SetStatus(st) ==
  \/ row' = UpdateConnectorStatus(st) /\ UNCHANGED <<late, consoleFaults>>
  \/ /\ consoleFaults < MaxConsoleFaults /\ consoleFaults' = consoleFaults + 1
     /\ late' \in {late, late \cup {st}} /\ UNCHANGED row

LateReport(st) ==
  /\ st \in late
  /\ late' = late \ {st} /\ row' = UpdateConnectorStatus(st)
  /\ UNCHANGED <<registry, sess, link, up, down, client, caller, stored, consoleFaults, crashes>>

Revoke ==
  /\ Revocable /\ row # "revoked" /\ row' = "revoked"
  /\ UNCHANGED <<late, registry, sess, link, up, down, client, caller, stored, consoleFaults, crashes>>

-----------------------------------------------------------------------------
(* The gateway's session object and registry.                              *)

NewSession(pc) == [pc |-> pc, drain |-> FALSE, cmds |-> <<>>, pending |-> {}, degrade |-> "armed"]

\* Mutant: an unbuffered drain channel; a busy loop misses the signal.
SignalDrainUnbuffered(ss, s) == IF ss[s].pc = "loop" THEN [ss EXCEPT ![s].drain = TRUE] ELSE ss

SignalDrain(ss, s) == [ss EXCEPT ![s].drain = TRUE]

\* registry.add: the session it replaces is told to drain.
Add(s) ==
  /\ sess' = LET ss == IF registry = None THEN sess ELSE SignalDrain(sess, registry)
             IN  [ss EXCEPT ![s].pc = "announce"]
  /\ registry' = s

\* Mutant: whoever ends clears the entry.
RemoveAny(s) == registry' = None

\* registry.remove: only the current entry.
Remove(s) == registry' = IF registry = s THEN None ELSE registry

\* signalCommand: the waiter, if there still is one, gets the only answer.
SignalCommand(ss, s, d, r) ==
  /\ caller' = IF d \in ss[s].pending THEN [caller EXCEPT ![d].sig = r] ELSE caller
  /\ sess' = [ss EXCEPT ![s].pending = @ \ {d}]

\* stream.Send: what is sent into a silent or closed stream reaches nobody.
Send(s, f) == down' = IF link[s] = "open" THEN [down EXCEPT ![s] = Append(@, f)] ELSE down

\* The handler returned: the stream is closed and its object garbage.
Finished(s) ==
  /\ sess' = [sess EXCEPT ![s] = NewSession("done")]
  /\ link' = [link EXCEPT ![s] = "closed"]
  /\ up' = [up EXCEPT ![s] = <<>>] /\ down' = [down EXCEPT ![s] = <<>>]

-----------------------------------------------------------------------------
(* SessionServer.Session: handshake, register, report, acknowledge, loop,  *)
(* and the two deferred calls.                                             *)

Handshake(s) ==
  /\ sess[s].pc = "hello"
  /\ \/ row # "revoked" /\ link[s] # "closed" /\ sess' = [sess EXCEPT ![s].pc = "add"]
        /\ UNCHANGED <<link, up, down, consoleFaults>>
     \/ (row = "revoked" \/ link[s] = "closed") /\ Finished(s) /\ UNCHANGED consoleFaults
     \/ /\ consoleFaults < MaxConsoleFaults /\ consoleFaults' = consoleFaults + 1    \* Unavailable
        /\ Finished(s)
  /\ UNCHANGED <<row, late, registry, client, caller, stored, crashes>>

Register(s) ==
  /\ sess[s].pc = "add" /\ Add(s)
  /\ UNCHANGED <<row, late, link, up, down, client, caller, stored, consoleFaults, crashes>>

\* Report online, then send HelloAck; a failed send ends the handler.
Announce(s) ==
  /\ sess[s].pc = "announce" /\ SetStatus("online")
  /\ sess' = [sess EXCEPT ![s].pc = IF link[s] = "closed" THEN "offline" ELSE "loop"]
  /\ Send(s, "ack")
  /\ UNCHANGED <<registry, link, up, client, caller, stored, crashes>>

\* The select takes the drain signal.
LoopDrain(s) ==
  /\ sess[s].pc = "loop" /\ sess[s].drain
  /\ sess' = [sess EXCEPT ![s].pc = "offline", ![s].drain = FALSE]
  /\ Send(s, "drain")
  /\ UNCHANGED <<row, late, registry, link, up, client, caller, stored, consoleFaults, crashes>>

\* ctx.Done or a receive error: the connector's end is gone.
LoopClosed(s) ==
  /\ sess[s].pc = "loop" /\ link[s] = "closed"
  /\ sess' = [sess EXCEPT ![s].pc = "offline"]
  /\ UNCHANGED <<row, late, registry, link, up, down, client, caller, stored, consoleFaults, crashes>>

\* The degrade timer fires once until a heartbeat arms it again.
LoopDegrade(s) ==
  /\ Timed /\ sess[s].pc = "loop" /\ sess[s].degrade = "armed" /\ SetStatus("degraded")
  /\ sess' = [sess EXCEPT ![s].degrade = "spent"]
  /\ UNCHANGED <<registry, link, up, down, client, caller, stored, crashes>>

\* The offline timer: reports by itself, and the deferred call reports again.
LoopOffline(s) ==
  /\ sess[s].pc = "loop" /\ sess[s].degrade = "spent" /\ SetStatus("offline")
  /\ sess' = [sess EXCEPT ![s].pc = "offline"]
  /\ UNCHANGED <<registry, link, up, down, client, caller, stored, crashes>>

\* A command is sent on, or answered with the error of Send.
LoopCommand(s) ==
  /\ sess[s].pc = "loop" /\ sess[s].cmds # <<>>
  /\ LET d  == Head(sess[s].cmds)
         ss == [sess EXCEPT ![s].cmds = Tail(@)]
     IN  /\ Send(s, d)
         /\ IF link[s] = "closed"
              THEN SignalCommand(ss, s, d, "failed")
              ELSE sess' = ss /\ UNCHANGED caller
  /\ UNCHANGED <<row, late, registry, link, up, client, stored, consoleFaults, crashes>>

\* Mutant: a heartbeat is acknowledged but not reported.
LoopBeatUnreported(s) ==
  /\ sess[s].pc = "loop" /\ up[s] # <<>> /\ Head(up[s]).t = "beat"
  /\ sess' = [sess EXCEPT ![s].degrade = "armed"]
  /\ up' = [up EXCEPT ![s] = Tail(@)]
  /\ UNCHANGED <<row, late, registry, link, down, client, caller, stored, consoleFaults, crashes>>

\* onClientFrame, heartbeat: both timers start again and the row is refreshed.
LoopBeat(s) ==
  /\ sess[s].pc = "loop" /\ up[s] # <<>> /\ Head(up[s]).t = "beat" /\ SetStatus("online")
  /\ sess' = [sess EXCEPT ![s].degrade = "armed"]
  /\ up' = [up EXCEPT ![s] = Tail(@)]
  /\ UNCHANGED <<registry, link, down, client, caller, stored, crashes>>

\* Mutant: the answer is sent before the data is forwarded.
UploadUnchecked(f, r) == stored' \in {stored, IF f.t = "data" THEN stored \cup {f.d} ELSE stored}

\* handleDataUpload, handleSnapshotUpload, commandResultErr: only a decodable
\* payload of its own kind is forwarded, and the forwarding may fail, also after
\* the console stored the data.
Upload(f, r) ==
  \/ r = "ok" /\ f.t = "data" /\ stored' = stored \cup {f.d}
  \/ r = "failed" /\ stored' \in {stored, IF f.t = "data" THEN stored \cup {f.d} ELSE stored}

LoopUpload(s) ==
  /\ sess[s].pc = "loop" /\ up[s] # <<>> /\ Head(up[s]).t # "beat"
  /\ \E r \in {"ok", "failed"} : Upload(Head(up[s]), r) /\ SignalCommand(sess, s, Head(up[s]).d, r)
  /\ up' = [up EXCEPT ![s] = Tail(@)]
  /\ UNCHANGED <<row, late, registry, link, down, client, consoleFaults, crashes>>

\* Mutant: no deferred report.
DeferredOfflineSilent(s) ==
  /\ sess[s].pc = "offline" /\ sess' = [sess EXCEPT ![s].pc = "remove"]
  /\ UNCHANGED <<row, late, registry, link, up, down, client, caller, stored, consoleFaults, crashes>>

DeferredOffline(s) ==
  /\ sess[s].pc = "offline" /\ SetStatus("offline")
  /\ sess' = [sess EXCEPT ![s].pc = "remove"]
  /\ UNCHANGED <<registry, link, up, down, client, caller, stored, crashes>>

DeferredRemove(s) ==
  /\ sess[s].pc = "remove" /\ Remove(s) /\ Finished(s)
  /\ UNCHANGED <<row, late, client, caller, stored, consoleFaults, crashes>>

\* registry.drainAll, from GracefulStop.
DrainAll ==
  /\ registry # None /\ ~sess[registry].drain
  /\ sess' = SignalDrain(sess, registry)
  /\ UNCHANGED <<row, late, registry, link, up, down, client, caller, stored, consoleFaults, crashes>>

\* What the collect endpoint answers; every failure has a code, and only one "ok".
Returned(r) == [pc |-> "done", s |-> None, sig |-> None, res |-> r]

\* The gateway process dies: no deferred call runs.
GatewayCrash ==
  /\ crashes < MaxCrashes /\ crashes' = crashes + 1
  /\ registry' = None
  /\ sess' = [s \in Streams |-> NewSession("done")]
  /\ caller' = [d \in Commands |-> IF caller[d].pc \in {"send", "wait"}
                  THEN Returned("failed") ELSE caller[d]]
  /\ link' = [s \in Streams |-> "closed"]
  /\ up' = [s \in Streams |-> <<>>] /\ down' = [s \in Streams |-> <<>>]
  /\ UNCHANGED <<row, late, client, stored, consoleFaults>>

-----------------------------------------------------------------------------
(* Dispatch, behind CollectHandler.                                        *)

DispatchGet(d) ==
  /\ caller[d].pc = "idle"
  /\ IF registry = None
       THEN caller' = [caller EXCEPT ![d] = Returned("failed")] /\ UNCHANGED sess
       ELSE /\ caller' = [caller EXCEPT ![d].pc = "send", ![d].s = registry]
            /\ sess' = [sess EXCEPT ![registry].pending = @ \cup {d}]
  /\ UNCHANGED <<row, late, registry, link, up, down, client, stored, consoleFaults, crashes>>

DispatchSend(d) ==
  /\ caller[d].pc = "send" /\ Len(sess[caller[d].s].cmds) < CmdCap
  /\ sess' = [sess EXCEPT ![caller[d].s].cmds = Append(@, d)]
  /\ caller' = [caller EXCEPT ![d].pc = "wait"]
  /\ UNCHANGED <<row, late, registry, link, up, down, client, stored, consoleFaults, crashes>>

DispatchAnswered(d) ==
  /\ caller[d].pc = "wait" /\ caller[d].sig # None
  /\ caller' = [caller EXCEPT ![d] = Returned(caller[d].sig)]
  /\ UNCHANGED <<row, late, registry, sess, link, up, down, client, stored, consoleFaults, crashes>>

\* Mutant: a timed-out waiter stays registered.
CancelCommandForgotten(d) == UNCHANGED sess

\* collectTimeout or the caller's own deadline.
CancelCommand(d) == sess' = [sess EXCEPT ![caller[d].s].pending = @ \ {d}]

DispatchTimeout(d) ==
  /\ caller[d].pc \in {"send", "wait"} /\ CancelCommand(d)
  /\ caller' = [caller EXCEPT ![d] = Returned("failed")]
  /\ UNCHANGED <<row, late, registry, link, up, down, client, stored, consoleFaults, crashes>>

-----------------------------------------------------------------------------
(* The connector: Run, runOnce, pump.                                      *)

Ended(s) == sess[s].pc = "done"

\* A stream whose handler is done and which no caller refers to is used again.
Unused(s) == Ended(s) /\ s # client.s /\ \A d \in Commands : caller[d].s # s

OpenStream(s) ==
  /\ client.pc = "down" /\ Unused(s) /\ \A r \in Streams : Unused(r) => s <= r
  /\ client' = [pc |-> "hello", s |-> s]
  /\ sess' = [sess EXCEPT ![s] = NewSession("hello")]
  /\ link' = [link EXCEPT ![s] = "open"]
  /\ UNCHANGED <<row, late, registry, up, down, caller, stored, consoleFaults, crashes>>

HelloAcked ==
  /\ client.pc = "hello" /\ down[client.s] # <<>>
  /\ client' = [client EXCEPT !.pc = "up"]
  /\ down' = [down EXCEPT ![client.s] = Tail(@)]
  /\ UNCHANGED <<row, late, registry, sess, link, up, caller, stored, consoleFaults, crashes>>

\* The receive goroutine runs the handler, ChainHandler answers every command,
\* and the main loop sends the answer.
HandleCommand ==
  /\ client.pc = "up" /\ down[client.s] # <<>> /\ Head(down[client.s]) \in Commands
  /\ \E t \in {"data", "bad", "fail"} :
       up' = [up EXCEPT ![client.s] = Append(@, [t |-> t, d |-> Head(down[client.s])])]
  /\ down' = [down EXCEPT ![client.s] = Tail(@)]
  /\ UNCHANGED <<row, late, registry, sess, link, client, caller, stored, consoleFaults, crashes>>

\* The ticker; one unread heartbeat stands for all.
SendBeat ==
  /\ Timed /\ client.pc = "up" /\ ~Ended(client.s)
  /\ \A i \in DOMAIN up[client.s] : up[client.s][i].t # "beat"
  /\ up' = [up EXCEPT ![client.s] = Append(@, [t |-> "beat"])]
  /\ UNCHANGED <<row, late, registry, sess, link, down, client, caller, stored, consoleFaults, crashes>>

\* Mutant: the connector keeps the stream it left.
LeaveKeepsStream(pc, how) ==
  /\ client' = [client EXCEPT !.pc = pc]
  /\ link' = [link EXCEPT ![client.s] = how]
  /\ down' = [down EXCEPT ![client.s] = <<>>]
  /\ UNCHANGED <<row, late, registry, sess, up, caller, stored, consoleFaults, crashes>>

\* runOnce returns and closes the connection: what it has not handled is dropped,
\* what it sent before the close may or may not reach the gateway.
Leave(pc, how) ==
  /\ client' = [pc |-> pc, s |-> None]
  /\ link' = [link EXCEPT ![client.s] = how]
  /\ down' = [down EXCEPT ![client.s] = <<>>]
  /\ UNCHANGED <<row, late, registry, sess, up, caller, stored, consoleFaults, crashes>>

\* Drain, a refused handshake or any other end of the stream seen by the connector.
StreamOver ==
  /\ client.pc \in {"hello", "up"}
  /\ \/ down[client.s] # <<>> /\ Head(down[client.s]) = "drain"
     \/ Ended(client.s)
  /\ Leave("down", "closed")

\* The network fails under the connector; the gateway may not notice ("silent").
NetworkFails ==
  /\ client.pc \in {"hello", "up"} /\ \E how \in {"closed", "silent"} : Leave("down", how)

\* The connector process stops for good, cleanly or not.
ConnectorStops ==
  \/ client.pc \in {"hello", "up"} /\ \E how \in {"closed", "silent"} : Leave("stopped", how)
  \/ /\ client.pc = "down" /\ client' = [client EXCEPT !.pc = "stopped"]
     /\ UNCHANGED <<row, late, registry, sess, link, up, down, caller, stored, consoleFaults, crashes>>

-----------------------------------------------------------------------------
Init ==
  /\ row = "enrolled" /\ late = {} /\ registry = None
  /\ sess = [s \in Streams |-> NewSession("done")]
  /\ link = [s \in Streams |-> "closed"]
  /\ up = [s \in Streams |-> <<>>] /\ down = [s \in Streams |-> <<>>]
  /\ client = [pc |-> "down", s |-> None]
  /\ caller = [d \in Commands |-> [pc |-> "idle", s |-> None, sig |-> None, res |-> None]]
  /\ stored = {} /\ consoleFaults = 0 /\ crashes = 0

Serve(s) ==
  \/ Handshake(s) \/ Register(s) \/ Announce(s)
  \/ LoopClosed(s) \/ LoopCommand(s) \/ LoopBeat(s) \/ LoopUpload(s)
  \/ DeferredOffline(s) \/ DeferredRemove(s)

Dispatch(d) == DispatchGet(d) \/ DispatchSend(d) \/ DispatchAnswered(d) \/ DispatchTimeout(d)

Connect == (\E s \in Streams : OpenStream(s)) \/ HelloAcked \/ HandleCommand \/ StreamOver

Next ==
  \/ \E s \in Streams : Serve(s) \/ LoopDrain(s) \/ LoopDegrade(s) \/ LoopOffline(s)
  \/ \E d \in Commands : Dispatch(d)
  \/ Connect \/ SendBeat \/ NetworkFails \/ ConnectorStops
  \/ DrainAll \/ GatewayCrash \/ Revoke \/ \E st \in Reports : LateReport(st)

Spec == Init /\ [][Next]_vars

\* Time passes for a connector that has fallen silent.
Silence(s) == link[s] = "silent" /\ (LoopDegrade(s) \/ LoopOffline(s))

(* Goroutines that can move do; a case of the select that is ready stays   *)
(* ready and is taken in the end.  Users, operators, the network and       *)
(* crashes owe nothing.                                                    *)
FairSpec ==
  /\ Spec
  /\ \A s \in Streams : WF_vars(Serve(s)) /\ WF_vars(LoopDrain(s)) /\ WF_vars(Silence(s))
  /\ WF_vars(Connect) /\ WF_vars(SendBeat)

-----------------------------------------------------------------------------
(* Properties.                                                             *)

\* registry: "new connection kicks the old one".  Every session being served is
\* the registered one or has been told to drain, and what is registered is
\* still being served: Dispatch never finds a session nobody runs.
RegistryTracksSessions ==
  /\ \A s \in Streams : sess[s].pc \in Serving => registry = s \/ sess[s].drain
  /\ registry # None => sess[registry].pc \in Serving \cup {"offline", "remove"}

\* Dispatch: a caller that is told "ok" can rely on the console having stored
\* the data of its own command, whatever was cancelled, superseded or cut.
OkMeansStored == \A d \in Commands : caller[d].res = "ok" => d \in stored

\* awaitCommand, cancelCommand, signalCommand: a registered waiter is a caller
\* still waiting on that session, so no entry leaks and none is signalled twice.
PendingIsAwaited ==
  \A s \in Streams : ~Ended(s) => \A d \in sess[s].pending :
    caller[d].pc \in {"send", "wait"} /\ caller[d].s = s /\ caller[d].sig = None

\* registry.add, LoopDrain: a session that another one replaced comes to an end,
\* also when the signal meets a loop that is busy.
SupersededEnds ==
  \A s \in Streams : sess[s].pc = "loop" /\ registry # s ~> sess[s].pc # "loop"

\* The deferred offline report: as long as no report fails and the gateway does
\* not crash, a connector that stopped does not stay online in the console.
GoneIsReported ==
  [](consoleFaults = 0 /\ crashes = 0) =>
    (client.pc = "stopped" ~> row \in {"enrolled", "offline", "revoked"})

\* A superseded session reports offline after its successor reported online; the
\* successor's heartbeats repair the row for as long as its session lasts.
LiveIsReported ==
  (<>[](client.pc = "up" /\ link[client.s] = "open" /\ registry = client.s))
    => []<>(row \in {"online", "revoked"})

\* specs/spec-1.2-connector-core.md:86: revoking drains the existing session.
RevokedIsDrained ==
  \A s \in Streams : row = "revoked" /\ sess[s].pc = "loop" ~> sess[s].pc # "loop"
=============================================================================
