--------------------------- MODULE ConnectorIdentity ---------------------------
(***************************************************************************)
(* How a connector gets and loses its identity: the console's row and      *)
(* one-time token (src/console/internal/svcapi, repo), the enrolment run   *)
(* that trades the token for a certificate and files it                    *)
(* (src/connector/internal/enroll, conf), and the checks a machine passes  *)
(* when it opens a session.  A run's key pair, its CSR and the certificate *)
(* issued for it are one value: the run.                                   *)
(***************************************************************************)
EXTENDS Naturals, FiniteSets, Sequences

CONSTANTS
  Runs,       \* executions of `connector --enroll` with the token of this connector
  Machines,   \* hosts with a credential directory each
  None

VARIABLES
  conn,       \* the connectors row
  run,        \* per enrolment run: how far it is, and on which machine
  disk,       \* per machine: the four files
  admitted    \* machines whose session passed the handshake

idVars == <<conn, run, disk, admitted>>

Files == {"key", "cert", "ca", "id"}
WriteOrder == <<"key", "cert", "ca", "id">>
Torn == "torn"              \* created or truncated, and not written
Live == {"enrolled", "online", "degraded", "offline"}

\* A certificate is neither the absence of a file nor a torn one.
IdentityAssumption == None \notin Runs /\ Torn \notin Runs

TypeOK ==
  /\ conn \in [status : {"absent", "pending", "revoked"} \cup Live, token : BOOLEAN,
               expired : BOOLEAN, fp : Runs \cup {None}]
  /\ run \in [Runs -> [pc : {"idle", "sent", "checked", "write", "ok", "failed"},
                       m : Machines \cup {None}, file : 1 .. 4]]
  /\ disk \in [Machines -> [Files -> Runs \cup {None, Torn}]]
  /\ admitted \subseteq Machines

-----------------------------------------------------------------------------
(* Console.                                                                *)

\* Row and token hash in one transaction.
CreateConnector ==
  /\ conn.status = "absent"
  /\ conn' = [conn EXCEPT !.status = "pending", !.token = TRUE]
  /\ UNCHANGED <<run, disk, admitted>>

TokenExpires ==
  /\ conn.token /\ ~conn.expired /\ conn' = [conn EXCEPT !.expired = TRUE]
  /\ UNCHANGED <<run, disk, admitted>>

RevokeConnector ==
  /\ conn.status \notin {"absent", "revoked"}
  /\ conn' = [conn EXCEPT !.status = "revoked", !.token = FALSE]
  /\ UNCHANGED <<run, disk, admitted>>

\* The gateway's reports; pending and revoked rows refuse them.
ReportStatus ==
  /\ conn.status \in Live
  /\ \E st \in Live \ {"enrolled"} : conn' = [conn EXCEPT !.status = st]
  /\ UNCHANGED <<run, disk, admitted>>

\* The first statement of the enrolment transaction: a plain read, no lock.
GetEnrollmentRecord(a) ==
  /\ run[a].pc = "sent"
  /\ run' = [run EXCEPT ![a].pc =
       IF conn.status = "pending" /\ conn.token /\ ~conn.expired THEN "checked" ELSE "failed"]
  /\ UNCHANGED <<conn, disk, admitted>>

\* Mutant: the update is keyed by id alone.
CompleteEnrollmentById(a) ==
  conn' = [conn EXCEPT !.status = "enrolled", !.fp = a, !.token = FALSE]

\* The update that ends it, guarded by status = 'pending'.
CompleteEnrollment(a) ==
  /\ conn.status = "pending"
  /\ conn' = [conn EXCEPT !.status = "enrolled", !.fp = a, !.token = FALSE]

\* SignCSR and CompleteEnrollment; the answer may be lost on its way back
\* through the gateway, and the token is spent all the same.
Enroll(a) ==
  /\ run[a].pc = "checked"
  /\ \/ CompleteEnrollment(a) /\ \E pc \in {"write", "failed"} : run' = [run EXCEPT ![a].pc = pc]
     \/ run' = [run EXCEPT ![a].pc = "failed"] /\ UNCHANGED conn    \* refused, or rolled back
  /\ UNCHANGED <<disk, admitted>>

-----------------------------------------------------------------------------
(* Connector.                                                              *)

StartEnroll(a, m) ==
  /\ run[a].pc = "idle" /\ run' = [run EXCEPT ![a].pc = "sent", ![a].m = m]
  /\ UNCHANGED <<conn, disk, admitted>>

\* os.WriteFile opens with truncation, then writes.
Truncate(a) ==
  /\ run[a].pc = "write" /\ disk[run[a].m][WriteOrder[run[a].file]] # Torn
  /\ disk' = [disk EXCEPT ![run[a].m][WriteOrder[run[a].file]] = Torn]
  /\ UNCHANGED <<conn, run, admitted>>

\* Mutant: one file too many.
AfterWriteOneMore(r) == IF r.file > 4 THEN [r EXCEPT !.pc = "ok"] ELSE [r EXCEPT !.file = @ + 1]

\* Mutant: done once the certificate is there.
AfterWriteEarly(r) == IF r.file = 2 THEN [r EXCEPT !.pc = "ok"] ELSE [r EXCEPT !.file = @ + 1]

\* Key, certificate, trust chain, id: then "enroll ok".
AfterWrite(r) == IF r.file = 4 THEN [r EXCEPT !.pc = "ok"] ELSE [r EXCEPT !.file = @ + 1]

Fill(a) ==
  /\ run[a].pc = "write" /\ disk[run[a].m][WriteOrder[run[a].file]] = Torn
  /\ disk' = [disk EXCEPT ![run[a].m][WriteOrder[run[a].file]] = a]
  /\ run' = [run EXCEPT ![a] = AfterWrite(@)]
  /\ UNCHANGED <<conn, admitted>>

\* A failed call or write, or a crash; nothing is cleaned up.
EnrollFails(a) ==
  /\ run[a].pc \in {"sent", "checked", "write"}
  /\ run' = [run EXCEPT ![a].pc = "failed"]
  /\ UNCHANGED <<conn, disk, admitted>>

\* Store.Enrolled: three files exist.
Enrolled(m) == \A f \in {"key", "cert", "id"} : disk[m][f] # None

\* MTLSCreds: the pair parses and matches, the trust chain is there.
MTLSCreds(m) == disk[m]["key"] \in Runs /\ disk[m]["key"] = disk[m]["cert"] /\ disk[m]["ca"] \in Runs

\* The second binding: status and fingerprint.
Handshake(m) == conn.status \in Live /\ conn.fp = disk[m]["cert"]

\* `connector --run`: the hello carries the id file, which the gateway compares
\* with the name in the certificate.
OpenSession(m) ==
  /\ m \notin admitted /\ Enrolled(m) /\ MTLSCreds(m)
  /\ disk[m]["id"] \in Runs /\ Handshake(m)
  /\ admitted' = admitted \cup {m}
  /\ UNCHANGED <<conn, run, disk>>

CloseSession(m) ==
  /\ m \in admitted /\ admitted' = admitted \ {m}
  /\ UNCHANGED <<conn, run, disk>>

-----------------------------------------------------------------------------
Init ==
  /\ conn = [status |-> "absent", token |-> FALSE, expired |-> FALSE, fp |-> None]
  /\ run = [a \in Runs |-> [pc |-> "idle", m |-> None, file |-> 1]]
  /\ disk = [m \in Machines |-> [f \in Files |-> None]]
  /\ admitted = {}

Next ==
  \/ CreateConnector \/ TokenExpires \/ RevokeConnector \/ ReportStatus
  \/ \E a \in Runs :
       \/ \E m \in Machines : StartEnroll(a, m)
       \/ GetEnrollmentRecord(a) \/ Enroll(a) \/ Truncate(a) \/ Fill(a) \/ EnrollFails(a)
  \/ \E m \in Machines : OpenSession(m) \/ CloseSession(m)

Spec == Init /\ [][Next]_idVars

-----------------------------------------------------------------------------
(* Properties.                                                             *)

\* enroll, handshake: one machine at a time speaks for a connector, although two
\* runs may pass the token check together and may mix their files on one disk.
OneMachinePerConnector == Cardinality(admitted) <= 1

\* mustEnroll: "enroll ok" means that the machine can be admitted until the
\* connector is revoked, unless another run has since written there.
EnrollOkIsUsable ==
  \A a \in Runs :
    run[a].pc = "ok" /\ conn.status # "revoked" =>
      Enrolled(run[a].m) /\ MTLSCreds(run[a].m) /\ Handshake(run[a].m) /\ disk[run[a].m]["id"] = a

StaysRevoked == conn.status = "revoked" => conn'.status = "revoked" /\ admitted' \subseteq admitted

\* RevokeConnector: revoked is final, whatever was under way when it happened.
RevokedIsFinal == [][StaysRevoked]_idVars
=============================================================================
