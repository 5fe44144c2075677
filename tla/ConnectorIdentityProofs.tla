----------------------- MODULE ConnectorIdentityProofs -----------------------
(***************************************************************************)
(* Proofs about the connector that hold for every value of the constants   *)
(* of ConnectorIdentity and Probe: one enrolment run per connector gets    *)
(* the certificate, one machine speaks for it, and "enroll ok" is true;    *)
(* and what the connector collects from a database is sound.               *)
(***************************************************************************)
EXTENDS ConnectorIdentity, Integers, Sequences, FiniteSetTheorems, SequenceTheorems, WellFoundedInduction, TLAPS

CONSTANTS Tables, Layouts, Workloads, Settings, TopN, TextMax, ColumnRows, ConfigRows, MaxBytes, MaxChanges
VARIABLES db, job, out, changes

Probes == INSTANCE Probe

ConnType == [status : {"absent", "pending", "revoked"} \cup Live, token : BOOLEAN,
             expired : BOOLEAN, fp : Runs \cup {None}]

RunType == [pc : {"idle", "sent", "checked", "write", "ok", "failed"},
            m : Machines \cup {None}, file : 1 .. 4]

\* A run that has started runs on some machine.
RunsPlaced == \A a \in Runs : run[a].pc # "idle" => run[a].m \in Machines

Typed == TypeOK /\ RunsPlaced

\* The row, one step later.
LEMMA RowMoves ==
  ASSUME Typed, Next
  PROVE  /\ conn' \in ConnType
         /\ conn.status = "revoked" => conn'.status = "revoked"
         /\ conn.status \notin {"absent", "pending"} =>
              conn'.status \notin {"absent", "pending"} /\ conn'.fp = conn.fp
<1>1. conn \in ConnType
  BY DEF Typed, TypeOK, ConnType
<1>2. CASE CreateConnector \/ TokenExpires \/ RevokeConnector \/ ReportStatus
  BY <1>1, <1>2 DEF CreateConnector, TokenExpires, RevokeConnector, ReportStatus, ConnType, Live
<1>3. ASSUME NEW a \in Runs, Enroll(a)
      PROVE  \/ UNCHANGED conn
             \/ conn.status = "pending" /\ conn' = [conn EXCEPT !.status = "enrolled", !.fp = a, !.token = FALSE]
  BY <1>3 DEF Enroll, CompleteEnrollment
<1>4. ASSUME NEW a \in Runs, conn.status = "pending",
             conn' = [conn EXCEPT !.status = "enrolled", !.fp = a, !.token = FALSE]
      PROVE  conn' \in ConnType
  BY <1>1, <1>4 DEF ConnType, Live
<1>5. CASE UNCHANGED conn
  BY <1>1, <1>5
<1>6. QED
  BY <1>2, <1>3, <1>4, <1>5 DEF Next, StartEnroll, GetEnrollmentRecord, Truncate, Fill, EnrollFails,
     OpenSession, CloseSession

\* A run goes on: it starts on a machine, and then stays there.
RunGoesOn(x, y) ==
  /\ y \in RunType /\ y.pc # "idle"
  /\ x.pc = "idle" => y.pc = "sent" /\ y.m \in Machines
  /\ x.pc # "idle" => y.m = x.m

\* Every step moves at most one run.
LEMMA RunMoves ==
  ASSUME Typed, Next
  PROVE  \/ UNCHANGED run
         \/ \E a \in Runs : /\ RunGoesOn(run[a], run'[a])
                            /\ run' = [run EXCEPT ![a] = run'[a]]
<1>1. run \in [Runs -> RunType] /\ RunsPlaced
  BY DEF Typed, TypeOK, RunType
<1>2. ASSUME NEW a \in Runs, NEW y, run' = [run EXCEPT ![a] = y], RunGoesOn(run[a], y)
      PROVE  RunGoesOn(run[a], run'[a]) /\ run' = [run EXCEPT ![a] = run'[a]]
  BY <1>1, <1>2
<1>3. ASSUME NEW a \in Runs, NEW pc \in {"sent", "checked", "write", "ok", "failed"},
             run[a].pc # "idle", run' = [run EXCEPT ![a].pc = pc]
      PROVE  RunGoesOn(run[a], run'[a]) /\ run' = [run EXCEPT ![a] = run'[a]]
  <2> DEFINE y == [run[a] EXCEPT !.pc = pc]
  <2>1. run' = [run EXCEPT ![a] = y] /\ RunGoesOn(run[a], y)
    BY <1>1, <1>3 DEF RunGoesOn, RunType
  <2> HIDE DEF y
  <2>2. QED BY <1>2, <2>1
<1>4. ASSUME NEW a \in Runs, NEW m \in Machines, StartEnroll(a, m)
      PROVE  RunGoesOn(run[a], run'[a]) /\ run' = [run EXCEPT ![a] = run'[a]]
  <2> DEFINE y == [run[a] EXCEPT !.pc = "sent", !.m = m]
  <2>1. run' = [run EXCEPT ![a] = y] /\ RunGoesOn(run[a], y)
    BY <1>1, <1>4 DEF RunGoesOn, RunType, StartEnroll
  <2> HIDE DEF y
  <2>2. QED BY <1>2, <2>1
<1>5. ASSUME NEW a \in Runs, Fill(a)
      PROVE  RunGoesOn(run[a], run'[a]) /\ run' = [run EXCEPT ![a] = run'[a]]
  <2> DEFINE y == AfterWrite(run[a])
  <2>1. run' = [run EXCEPT ![a] = y] /\ run[a].pc = "write"
    BY <1>5 DEF Fill
  <2>2. run[a] \in RunType
    BY <1>1
  <2>3. RunGoesOn(run[a], y)
    BY <2>1, <2>2 DEF RunGoesOn, RunType, AfterWrite
  <2> HIDE DEF y
  <2>4. QED BY <1>2, <2>1, <2>3
<1>6. ASSUME NEW a \in Runs, GetEnrollmentRecord(a) \/ Enroll(a) \/ EnrollFails(a)
      PROVE  RunGoesOn(run[a], run'[a]) /\ run' = [run EXCEPT ![a] = run'[a]]
  <2>1. PICK pc \in {"sent", "checked", "write", "ok", "failed"} : run' = [run EXCEPT ![a].pc = pc]
    BY <1>6 DEF GetEnrollmentRecord, Enroll, EnrollFails
  <2>2. run[a].pc # "idle"
    BY <1>6 DEF GetEnrollmentRecord, Enroll, EnrollFails
  <2>3. QED BY <1>3, <2>1, <2>2
<1>7. QED
  BY <1>4, <1>5, <1>6 DEF Next, CreateConnector, TokenExpires, RevokeConnector, ReportStatus, Truncate,
     OpenSession, CloseSession

\* The four files are named in the order they are written.
LEMMA OrderOfFiles ==
  /\ \A i \in 1..4 : WriteOrder[i] \in Files
  /\ \A f \in Files : \E i \in 1..4 : WriteOrder[i] = f
  /\ \A i, j \in 1..4 : WriteOrder[i] = WriteOrder[j] => i = j
BY DEF WriteOrder, Files

\* One file of one machine changes at a time, by a run in the middle of filing
\* its certificate there.
LEMMA DiskMoves ==
  ASSUME Typed, Next
  PROVE  \/ UNCHANGED disk
         \/ \E a \in Runs :
              /\ run[a].pc = "write"
              /\ \/ disk' = [disk EXCEPT ![run[a].m][WriteOrder[run[a].file]] = Torn] /\ UNCHANGED <<conn, run, admitted>>
                 \/ /\ disk' = [disk EXCEPT ![run[a].m][WriteOrder[run[a].file]] = a]
                    /\ run' = [run EXCEPT ![a] = AfterWrite(@)] /\ UNCHANGED <<conn, admitted>>
BY DEF Next, CreateConnector, TokenExpires, RevokeConnector, ReportStatus, StartEnroll, GetEnrollmentRecord,
   Enroll, Truncate, Fill, EnrollFails, OpenSession, CloseSession

\* Every step keeps the types.
LEMMA NextTyped == Typed /\ [Next]_idVars => Typed'
<1> SUFFICES ASSUME Typed, [Next]_idVars PROVE Typed'
  OBVIOUS
<1>1. CASE UNCHANGED idVars
  BY <1>1 DEF idVars, Typed, TypeOK, RunsPlaced
<1>2. CASE Next
  <2>1. conn' \in ConnType
    BY <1>2, RowMoves
  <2>2. run' \in [Runs -> RunType] /\ RunsPlaced'
    <3>1. run \in [Runs -> RunType] /\ RunsPlaced
      BY DEF Typed, TypeOK, RunType
    <3>2. CASE UNCHANGED run
      BY <3>1, <3>2 DEF RunsPlaced
    <3>3. ASSUME NEW a \in Runs, RunGoesOn(run[a], run'[a]), run' = [run EXCEPT ![a] = run'[a]]
          PROVE  run' \in [Runs -> RunType] /\ RunsPlaced'
      <4>1. run'[a] \in RunType /\ run'[a].m \in Machines
        BY <3>1, <3>3 DEF RunGoesOn, RunsPlaced
      <4>2. run' \in [Runs -> RunType] /\ \A b \in Runs \ {a} : run'[b] = run[b]
        BY <3>1, <3>3, <4>1
      <4>3. QED BY <3>1, <4>1, <4>2 DEF RunsPlaced
    <3>4. QED BY <1>2, <3>2, <3>3, RunMoves
  <2>3. disk' \in [Machines -> [Files -> Runs \cup {None, Torn}]]
    <3>1. disk \in [Machines -> [Files -> Runs \cup {None, Torn}]]
      BY DEF Typed, TypeOK
    <3>2. ASSUME NEW a \in Runs, NEW v \in Runs \cup {Torn}, run[a].pc = "write",
                 disk' = [disk EXCEPT ![run[a].m][WriteOrder[run[a].file]] = v]
          PROVE  disk' \in [Machines -> [Files -> Runs \cup {None, Torn}]]
      <4>1. run[a].m \in Machines /\ run[a].file \in 1..4
        BY <3>2 DEF Typed, TypeOK, RunsPlaced
      <4>2. WriteOrder[run[a].file] \in Files
        BY <4>1, OrderOfFiles
      <4>3. QED BY <3>1, <3>2, <4>1, <4>2
    <3>3. QED BY <1>2, <3>1, <3>2, DiskMoves
  <2>4. admitted' \subseteq Machines
    BY <1>2 DEF Typed, TypeOK, Next, CreateConnector, TokenExpires, RevokeConnector, ReportStatus, StartEnroll,
       GetEnrollmentRecord, Enroll, Truncate, Fill, EnrollFails, OpenSession, CloseSession
  <2>5. QED BY <2>1, <2>2, <2>3, <2>4 DEF Typed, TypeOK, ConnType, RunType
<1>3. QED BY <1>1, <1>2

\* An enrolment starts from nothing.
LEMMA InitTyped == Init => Typed
BY DEF Init, Typed, TypeOK, RunsPlaced, Live

\* The row, the runs, the files and the sessions are what the code takes them for.
THEOREM TypeCorrect == Spec => []TypeOK
<1>1. Typed => TypeOK
  BY DEF Typed
<1>2. QED BY <1>1, InitTyped, NextTyped, PTL DEF Spec

-----------------------------------------------------------------------------
(* Who may file a certificate, and where it is then found.                  *)

Decided == conn.status \notin {"absent", "pending"}

\* Only the run that CompleteEnrollment recorded files anything.
WinnerFiles == \A a \in Runs : run[a].pc \in {"write", "ok"} => Decided /\ conn.fp = a

\* A certificate lies on the machine of its run.
CertsPlaced ==
  \A m \in Machines, a \in Runs : disk[m]["cert"] = a => run[a].pc # "idle" /\ run[a].m = m

\* An admitted machine is the one of the recorded run.
WinnerAdmitted ==
  \A m \in admitted : Decided /\ conn.fp \in Runs /\ run[conn.fp].pc # "idle" /\ run[conn.fp].m = m

\* The files a run is done with are its own, and it begins with the first.
FilesOwn ==
  \A a \in Runs :
    /\ run[a].pc \in {"idle", "sent", "checked"} => run[a].file = 1
    /\ run[a].pc = "write" => \A i \in 1..4 : i < run[a].file => disk[run[a].m][WriteOrder[i]] = a
    /\ run[a].pc = "ok" => \A f \in Files : disk[run[a].m][f] = a

IdentityInv == WinnerFiles /\ CertsPlaced /\ WinnerAdmitted /\ FilesOwn

\* A run files only once the console has recorded it.
LEMMA WinnerStep ==
  ASSUME Typed, IdentityInv, Next
  PROVE  WinnerFiles'
<1>1. Decided => Decided' /\ conn'.fp = conn.fp
  BY RowMoves DEF Decided
<1>2. run \in [Runs -> RunType]
  BY DEF Typed, TypeOK, RunType
<1>3. ASSUME NEW b \in Runs, run'[b].pc \in {"write", "ok"}, run[b].pc \notin {"write", "ok"}
      PROVE  Decided' /\ conn'.fp = b
  <2>a. ASSUME NEW a \in Runs, Fill(a) PROVE FALSE
    <3>1. run[a].pc = "write" /\ run' = [run EXCEPT ![a] = AfterWrite(run[a])]
      BY <2>a DEF Fill
    <3>2. a # b
      BY <1>3, <3>1
    <3>3. run'[b] = run[b]
      BY <1>2, <3>1, <3>2
    <3>4. QED BY <1>3, <3>3
  <2>b. ASSUME NEW a \in Runs, GetEnrollmentRecord(a) \/ EnrollFails(a) PROVE FALSE
    <3>1. PICK pc \in {"checked", "failed"} : run' = [run EXCEPT ![a].pc = pc]
      BY <2>b DEF GetEnrollmentRecord, EnrollFails
    <3>2. QED BY <1>2, <1>3, <3>1
  <2>1. \A a \in Runs : ~Fill(a) /\ ~GetEnrollmentRecord(a) /\ ~EnrollFails(a)
    BY <2>a, <2>b
  <2>2. \A a \in Runs, m \in Machines : ~StartEnroll(a, m)
    BY <1>2, <1>3 DEF StartEnroll, RunType
  <2>3. PICK a \in Runs : Enroll(a)
    BY <1>3, <2>1, <2>2 DEF Next, CreateConnector, TokenExpires, RevokeConnector, ReportStatus,
       Truncate, OpenSession, CloseSession
  <2>4. PICK pc \in {"write", "failed"} : run' = [run EXCEPT ![a].pc = pc]
    BY <2>3 DEF Enroll
  <2>c. CompleteEnrollment(a) \/ run' = [run EXCEPT ![a].pc = "failed"]
    BY <2>3, Zenon DEF Enroll
  <2>d. a = b /\ pc = "write"
    BY <1>2, <1>3, <2>4
  <2>e. run' # [run EXCEPT ![a].pc = "failed"]
    <3>1. [run EXCEPT ![a].pc = "failed"][b].pc = "failed"
      BY <1>2, <2>d
    <3>2. QED BY <1>3, <3>1
  <2>5. a = b /\ CompleteEnrollment(a)
    BY <2>c, <2>d, <2>e
  <2>6. QED BY <2>5 DEF CompleteEnrollment, Decided, Typed, TypeOK
<1>4. QED BY <1>1, <1>3 DEF IdentityInv, WinnerFiles

\* Runs stay where they started, and files are written where the run is.
LEMMA CertsStep ==
  ASSUME IdentityAssumption, Typed, IdentityInv, Next
  PROVE  CertsPlaced'
<1>1. \A a \in Runs : run[a].pc # "idle" => run'[a].pc # "idle" /\ run'[a].m = run[a].m
  BY RunMoves DEF RunGoesOn, Typed, TypeOK
<1>2. CASE UNCHANGED disk
  BY <1>1, <1>2 DEF IdentityInv, CertsPlaced
<1>3. ASSUME NEW b \in Runs, NEW v \in {Torn, b}, run[b].pc = "write",
             disk' = [disk EXCEPT ![run[b].m][WriteOrder[run[b].file]] = v]
      PROVE  CertsPlaced'
  <2>1. ASSUME NEW m \in Machines, NEW a \in Runs, disk'[m]["cert"] = a
        PROVE  run[a].pc # "idle" /\ run[a].m = m
    <3>1. run[b].m \in Machines /\ run[b].file \in 1..4
      BY <1>3 DEF Typed, TypeOK, RunsPlaced
    <3>2. CASE disk'[m]["cert"] = disk[m]["cert"]
      BY <2>1, <3>2 DEF IdentityInv, CertsPlaced
    <3>3. CASE disk'[m]["cert"] # disk[m]["cert"]
      <4>1. m = run[b].m /\ disk'[m]["cert"] = v
        BY <1>3, <3>1, <3>3 DEF Typed, TypeOK, Files
      <4>2. CASE v = b
        BY <1>3, <2>1, <4>1, <4>2
      <4>3. CASE v = Torn /\ v # b
        BY <1>3, <2>1, <4>1, <4>3 DEF IdentityAssumption
      <4>4. QED BY <4>2, <4>3
    <3>4. QED BY <3>2, <3>3
  <2>2. QED BY <1>1, <2>1 DEF CertsPlaced
<1>4. QED BY <1>2, <1>3, DiskMoves

\* A session is opened with the certificate the row names.
LEMMA AdmittedStep ==
  ASSUME IdentityAssumption, Typed, IdentityInv, Next
  PROVE  WinnerAdmitted'
<1>1. Decided => Decided' /\ conn'.fp = conn.fp
  BY RowMoves DEF Decided
<1>2. \A a \in Runs : run[a].pc # "idle" => run'[a].pc # "idle" /\ run'[a].m = run[a].m
  BY RunMoves DEF RunGoesOn, Typed, TypeOK
<1>3. \A m \in admitted : Decided' /\ conn'.fp \in Runs /\ run'[conn'.fp].pc # "idle" /\ run'[conn'.fp].m = m
  BY <1>1, <1>2 DEF IdentityInv, WinnerAdmitted
<1>4. ASSUME NEW m \in Machines, OpenSession(m)
      PROVE  Decided' /\ conn'.fp \in Runs /\ run'[conn'.fp].pc # "idle" /\ run'[conn'.fp].m = m
  <2>1. conn.status \in Live /\ conn.fp = disk[m]["cert"] /\ conn.fp \in Runs /\ UNCHANGED <<conn, run>>
    BY <1>4 DEF OpenSession, Handshake, MTLSCreds
  <2>2. run[conn.fp].pc # "idle" /\ run[conn.fp].m = m
    BY <2>1 DEF IdentityInv, CertsPlaced
  <2>3. QED BY <2>1, <2>2 DEF Decided, Live
<1>5. admitted' \subseteq admitted \/ \E m \in Machines : OpenSession(m) /\ admitted' = admitted \cup {m}
  BY DEF Next, CreateConnector, TokenExpires, RevokeConnector, ReportStatus, StartEnroll, GetEnrollmentRecord,
     Enroll, Truncate, Fill, EnrollFails, OpenSession, CloseSession
<1>6. QED BY <1>3, <1>4, <1>5 DEF WinnerAdmitted

\* What a step does to a run when it is not the end of a file.
LEMMA RunAdvances ==
  ASSUME Typed, Next, NEW a \in Runs, run'[a] # run[a], ~Fill(a)
  PROVE  /\ run'[a].pc # "ok" /\ run'[a].file = run[a].file
         /\ run'[a].pc = "write" => run[a].pc = "checked"
         /\ run'[a].pc \in {"idle", "sent", "checked"} => run[a].pc \in {"idle", "sent", "checked"}
<1>1. run \in [Runs -> RunType]
  BY DEF Typed, TypeOK, RunType
<1>2. ASSUME NEW b \in Runs, Fill(b) PROVE FALSE
  <2>1. b # a /\ run' = [run EXCEPT ![b] = AfterWrite(run[b])]
    BY <1>2 DEF Fill
  <2>2. QED BY <1>1, <2>1
<1>3. ASSUME NEW b \in Runs, NEW m \in Machines, StartEnroll(b, m)
      PROVE  run[a].pc = "idle" /\ run'[a].pc = "sent" /\ run'[a].file = run[a].file
  <2>1. run[b].pc = "idle" /\ run' = [run EXCEPT ![b].pc = "sent", ![b].m = m]
    BY <1>3 DEF StartEnroll
  <2>2. a = b
    BY <1>1, <2>1
  <2>3. QED BY <1>1, <2>1, <2>2 DEF RunType
<1>4. ASSUME NEW b \in Runs, NEW pc \in {"checked", "write", "failed"}, run' = [run EXCEPT ![b].pc = pc]
      PROVE  a = b /\ run'[a].pc = pc /\ run'[a].file = run[a].file
  BY <1>1, <1>4 DEF RunType
<1>5. ASSUME NEW b \in Runs, GetEnrollmentRecord(b)
      PROVE  a = b /\ run[a].pc = "sent" /\ run'[a].pc \in {"checked", "failed"} /\ run'[a].file = run[a].file
  <2>1. PICK pc \in {"checked", "failed"} : run' = [run EXCEPT ![b].pc = pc]
    BY <1>5 DEF GetEnrollmentRecord
  <2>2. run[b].pc = "sent"
    BY <1>5 DEF GetEnrollmentRecord
  <2>3. QED BY <1>4, <2>1, <2>2
<1>6. ASSUME NEW b \in Runs, Enroll(b)
      PROVE  a = b /\ run[a].pc = "checked" /\ run'[a].pc \in {"write", "failed"} /\ run'[a].file = run[a].file
  <2>1. PICK pc \in {"write", "failed"} : run' = [run EXCEPT ![b].pc = pc]
    BY <1>6 DEF Enroll
  <2>2. run[b].pc = "checked"
    BY <1>6 DEF Enroll
  <2>3. QED BY <1>4, <2>1, <2>2
<1>7. ASSUME NEW b \in Runs, EnrollFails(b)
      PROVE  a = b /\ run'[a].pc = "failed" /\ run'[a].file = run[a].file
  BY <1>4, <1>7 DEF EnrollFails
<1>8. (\E b \in Runs : GetEnrollmentRecord(b) \/ Enroll(b) \/ EnrollFails(b) \/ \E m \in Machines : StartEnroll(b, m))
  BY <1>2 DEF Next, CreateConnector, TokenExpires, RevokeConnector, ReportStatus, Truncate, OpenSession, CloseSession
<1>9. QED BY <1>3, <1>5, <1>6, <1>7, <1>8

\* Files already written stay: nobody else writes.
LEMMA FilesStep ==
  ASSUME IdentityAssumption, Typed, IdentityInv, Next
  PROVE  FilesOwn'
<1>a. run \in [Runs -> RunType] /\ RunsPlaced
  BY DEF Typed, TypeOK, RunType
<1>b. disk \in [Machines -> [Files -> Runs \cup {None, Torn}]]
  BY DEF Typed, TypeOK
<1>1. ASSUME NEW b \in Runs, run[b].pc = "write", NEW a \in Runs, run[a].pc \in {"write", "ok"}
      PROVE  a = b
  BY <1>1 DEF IdentityInv, WinnerFiles
<1> SUFFICES ASSUME NEW a \in Runs
             PROVE  /\ run'[a].pc \in {"idle", "sent", "checked"} => run'[a].file = 1
                    /\ run'[a].pc = "write" =>
                         \A i \in 1..4 : i < run'[a].file => disk'[run'[a].m][WriteOrder[i]] = a
                    /\ run'[a].pc = "ok" => \A f \in Files : disk'[run'[a].m][f] = a
  BY DEF FilesOwn
<1>2. /\ run[a].pc \in {"idle", "sent", "checked"} => run[a].file = 1
      /\ run[a].pc = "write" => \A i \in 1..4 : i < run[a].file => disk[run[a].m][WriteOrder[i]] = a
      /\ run[a].pc = "ok" => \A f \in Files : disk[run[a].m][f] = a
  BY DEF IdentityInv, FilesOwn
<1>f. run'[a] # run[a] => Fill(a) \/ (/\ run'[a].pc # "ok" /\ run'[a].file = run[a].file
                                      /\ run'[a].pc = "write" => run[a].pc = "checked"
                                      /\ run'[a].pc \in {"idle", "sent", "checked"} =>
                                           run[a].pc \in {"idle", "sent", "checked"})
  BY <1>a, RunAdvances DEF RunType
<1>3. ASSUME NEW b \in Runs, Truncate(b)
      PROVE  /\ run'[a].pc = "write" =>
                  \A i \in 1..4 : i < run'[a].file => disk'[run'[a].m][WriteOrder[i]] = a
             /\ run'[a].pc = "ok" => \A f \in Files : disk'[run'[a].m][f] = a
  <2>1. /\ run[b].pc = "write" /\ UNCHANGED run
        /\ disk' = [disk EXCEPT ![run[b].m][WriteOrder[run[b].file]] = Torn]
    BY <1>3 DEF Truncate
  <2>2. run[b].m \in Machines /\ run[b].file \in 1..4
    BY <1>a, <2>1 DEF RunsPlaced, RunType
  <2>3. run[a].pc # "ok"
    BY <1>1, <2>1
  <2>4. CASE a = b
    <3>1. \A i \in 1..4 : i < run[b].file => WriteOrder[i] # WriteOrder[run[b].file] /\ WriteOrder[i] \in Files
      BY <2>2, OrderOfFiles
    <3>2. \A f \in Files \ {WriteOrder[run[b].file]} : disk'[run[b].m][f] = disk[run[b].m][f]
      BY <1>b, <2>1, <2>2
    <3>3. QED BY <1>2, <2>1, <2>3, <2>4, <3>1, <3>2
  <2>5. CASE a # b
    <3>1. run[a].pc # "write"
      BY <1>1, <2>1, <2>5
    <3>2. QED BY <2>1, <2>3, <3>1
  <2>6. QED BY <2>4, <2>5
<1>4. ASSUME NEW b \in Runs, Fill(b)
      PROVE  /\ run'[a].pc = "write" =>
                  \A i \in 1..4 : i < run'[a].file => disk'[run'[a].m][WriteOrder[i]] = a
             /\ run'[a].pc = "ok" => \A f \in Files : disk'[run'[a].m][f] = a
  <2>1. /\ run[b].pc = "write" /\ run' = [run EXCEPT ![b] = AfterWrite(run[b])]
        /\ disk' = [disk EXCEPT ![run[b].m][WriteOrder[run[b].file]] = b]
    BY <1>4 DEF Fill
  <2>2. run[b].m \in Machines /\ run[b].file \in 1..4 /\ run[b] \in RunType
    BY <1>a, <2>1 DEF RunsPlaced, RunType
  <2>3. CASE a = b
    <3>1. /\ run'[b].m = run[b].m
          /\ run'[b].pc = "write" => run'[b].file = run[b].file + 1
          /\ run'[b].pc = "ok" => run[b].file = 4
      BY <1>a, <2>1, <2>2 DEF RunType, AfterWrite
    <3>2. \A i \in 1..4 : i <= run[b].file => disk'[run[b].m][WriteOrder[i]] = b
      <4>1. \A i \in 1..4 : i < run[b].file => disk[run[b].m][WriteOrder[i]] = b
        BY <1>2, <2>1, <2>3
      <4>2. \A f \in Files : disk'[run[b].m][f] = IF f = WriteOrder[run[b].file] THEN b ELSE disk[run[b].m][f]
        BY <1>b, <2>1, <2>2
      <4>3. \A i \in 1..4 : i <= run[b].file => i < run[b].file \/ i = run[b].file
        BY <2>2
      <4>4. QED BY <4>1, <4>2, <4>3, OrderOfFiles
    <3>3. ASSUME run'[b].pc = "write", NEW i \in 1..4, i < run'[b].file
          PROVE  disk'[run[b].m][WriteOrder[i]] = b
      BY <2>2, <3>1, <3>2, <3>3
    <3>4. ASSUME run'[b].pc = "ok", NEW f \in Files
          PROVE  disk'[run[b].m][f] = b
      BY <3>1, <3>2, <3>4, OrderOfFiles
    <3>5. QED BY <2>3, <3>1, <3>3, <3>4
  <2>4. CASE a # b
    <3>1. run[a].pc \notin {"write", "ok"} /\ run'[a] = run[a]
      BY <1>1, <1>a, <2>1, <2>4
    <3>2. QED BY <3>1
  <2>5. QED BY <2>3, <2>4
<1>5. ASSUME UNCHANGED disk, \A b \in Runs : ~Fill(b)
      PROVE  /\ run'[a].pc = "write" =>
                  \A i \in 1..4 : i < run'[a].file => disk'[run'[a].m][WriteOrder[i]] = a
             /\ run'[a].pc = "ok" => \A f \in Files : disk'[run'[a].m][f] = a
  <2>1. CASE run'[a] = run[a]
    BY <1>2, <1>5, <2>1
  <2>2. CASE run'[a] # run[a]
    <3>1. run'[a].pc # "ok" /\ run'[a].file = run[a].file
             /\ (run'[a].pc = "write" => run[a].pc = "checked")
      BY <1>f, <1>5, <2>2
    <3>2. run'[a].pc = "write" => run'[a].file = 1
      BY <1>2, <3>1
    <3>3. \A i \in 1..4 : ~(i < 1)
      OBVIOUS
    <3>4. QED BY <3>1, <3>2, <3>3
  <2>3. QED BY <2>1, <2>2
<1>6. run'[a].pc \in {"idle", "sent", "checked"} => run'[a].file = 1
  <2>1. CASE run'[a] = run[a]
    BY <1>2, <2>1
  <2>2. CASE run'[a] # run[a] /\ ~Fill(a)
    BY <1>2, <1>f, <2>2
  <2>3. CASE Fill(a)
    <3>1. run'[a] = AfterWrite(run[a]) /\ run[a].pc = "write" /\ run[a] \in RunType
      BY <1>a, <2>3 DEF Fill
    <3>2. QED BY <3>1 DEF AfterWrite, RunType
  <2>4. QED BY <2>1, <2>2, <2>3
<1>7. UNCHANGED disk \/ \E b \in Runs : Truncate(b) \/ Fill(b)
  BY DEF Next, CreateConnector, TokenExpires, RevokeConnector, ReportStatus, StartEnroll,
     GetEnrollmentRecord, Enroll, EnrollFails, OpenSession, CloseSession
<1>8. (UNCHANGED disk /\ \A b \in Runs : ~Fill(b)) \/ (\E b \in Runs : Truncate(b)) \/ (\E b \in Runs : Fill(b))
  BY <1>7
<1>9. QED
  BY <1>3, <1>4, <1>5, <1>6, <1>8

\* Every step keeps what the records, the files and the sessions say of one run.
LEMMA NextIdentity ==
  ASSUME IdentityAssumption, Typed, IdentityInv, [Next]_idVars
  PROVE  IdentityInv'
<1>1. CASE UNCHANGED idVars
  BY <1>1 DEF idVars, IdentityInv, WinnerFiles, Decided, CertsPlaced, WinnerAdmitted, FilesOwn
<1>2. CASE Next
  BY <1>2, WinnerStep, CertsStep, AdmittedStep, FilesStep DEF IdentityInv
<1>3. QED BY <1>1, <1>2

\* Nothing is filed at first.
LEMMA InitIdentity == IdentityAssumption /\ Init => IdentityInv
<1> SUFFICES ASSUME IdentityAssumption, Init PROVE IdentityInv
  OBVIOUS
<1>1. WinnerFiles /\ WinnerAdmitted /\ FilesOwn
  BY DEF Init, WinnerFiles, WinnerAdmitted, FilesOwn
<1>2. CertsPlaced
  BY DEF Init, CertsPlaced, IdentityAssumption, Files
<1>3. QED BY <1>1, <1>2 DEF IdentityInv

-----------------------------------------------------------------------------
(* What follows for the connector.                                          *)

\* Two machines would both be the one of the recorded run.
LEMMA OneMachine == Typed /\ IdentityInv => OneMachinePerConnector
<1> SUFFICES ASSUME Typed, IdentityInv PROVE Cardinality(admitted) <= 1
  BY DEF OneMachinePerConnector
<1>1. admitted \subseteq {run[conn.fp].m}
  BY DEF IdentityInv, WinnerAdmitted
<1>2. /\ IsFiniteSet({run[conn.fp].m})
      /\ Cardinality({run[conn.fp].m}) = 1
  BY FS_Singleton
<1>3. Cardinality(admitted) <= Cardinality({run[conn.fp].m})
  BY <1>1, <1>2, FS_Subset
<1>4. QED BY <1>2, <1>3

\* The run that ended well is the recorded one, and all four files are its own.
LEMMA EnrolledIsUsable == IdentityAssumption /\ Typed /\ IdentityInv => EnrollOkIsUsable
<1> SUFFICES ASSUME IdentityAssumption, Typed, IdentityInv,
                    NEW a \in Runs, run[a].pc = "ok", conn.status # "revoked"
             PROVE  Enrolled(run[a].m) /\ MTLSCreds(run[a].m) /\ Handshake(run[a].m) /\ disk[run[a].m]["id"] = a
  BY DEF EnrollOkIsUsable
<1>1. \A f \in {"key", "cert", "ca", "id"} : disk[run[a].m][f] = a
  BY DEF IdentityInv, FilesOwn, Files
<1>2. Enrolled(run[a].m) /\ MTLSCreds(run[a].m) /\ disk[run[a].m]["id"] = a
  BY <1>1 DEF Enrolled, MTLSCreds, IdentityAssumption
<1>3. conn.fp = a /\ conn.status \in Live
  BY DEF IdentityInv, WinnerFiles, Decided, Typed, TypeOK
<1>4. Handshake(run[a].m)
  BY <1>1, <1>3 DEF Handshake
<1>5. QED BY <1>2, <1>4

\* A revoked row stays revoked, and no handshake passes on it.
LEMMA RevokedStep == Typed /\ [Next]_idVars => [StaysRevoked]_idVars
<1> SUFFICES ASSUME Typed, Next, conn.status = "revoked"
             PROVE  conn'.status = "revoked" /\ admitted' \subseteq admitted
  BY DEF StaysRevoked
<1>1. conn'.status = "revoked"
  BY RowMoves
<1>2. \A m \in Machines : ~OpenSession(m)
  BY DEF OpenSession, Handshake, Live
<1>3. admitted' \subseteq admitted
  BY <1>2 DEF Next, CreateConnector, TokenExpires, RevokeConnector, ReportStatus, StartEnroll, GetEnrollmentRecord,
     Enroll, Truncate, Fill, EnrollFails, CloseSession
<1>4. QED BY <1>1, <1>3

\* enroll, handshake: at most one machine is admitted for a connector, however
\* many runs race for its token and whatever they leave on whose disk.
THEOREM OneMachineCorrect ==
  ASSUME IdentityAssumption PROVE Spec => []OneMachinePerConnector
<1>1. Init => Typed /\ IdentityInv
  BY InitTyped, InitIdentity
<1>2. Typed /\ IdentityInv /\ [Next]_idVars => (Typed /\ IdentityInv)'
  BY NextTyped, NextIdentity
<1>3. QED BY <1>1, <1>2, OneMachine, PTL DEF Spec

\* mustEnroll: "enroll ok" is printed by the recorded run alone, over four files
\* of its own, so that the machine is admitted until the connector is revoked.
THEOREM EnrollOkCorrect ==
  ASSUME IdentityAssumption PROVE Spec => []EnrollOkIsUsable
<1>1. Init => Typed /\ IdentityInv
  BY InitTyped, InitIdentity
<1>2. Typed /\ IdentityInv /\ [Next]_idVars => (Typed /\ IdentityInv)'
  BY NextTyped, NextIdentity
<1>3. Typed /\ IdentityInv => EnrollOkIsUsable
  BY EnrolledIsUsable
<1>4. QED BY <1>1, <1>2, <1>3, PTL DEF Spec

\* RevokeConnector: no report, no enrolment under way and no handshake brings a
\* revoked connector back.
THEOREM RevokedCorrect == Spec => RevokedIsFinal
BY InitTyped, NextTyped, RevokedStep, PTL DEF Spec, RevokedIsFinal

-----------------------------------------------------------------------------
(* What a collection has read.                                             *)

SnapshotKinds == {"slowlog", "schema", "config"}
Candidates == {"pg_stat_statements", "dbe_perf", "pg_catalog", "pg_settings"}
Results == {"none", "unsupported", "invalid", "failed", "snapshot", "capability_missing", "batch"}
TableRow == [t : DOMAIN Tables, n : Nat]

\* What the i-th query of a source answers.
AnswerOf(kind, i) == IF kind = "schema" THEN {s \in Seq(TableRow) : i = 1 => Len(s) <= TopN}
                                        ELSE {s \in Seq(Nat) : Len(s) <= Probes!MaxEntries(kind)}

RowLists == Seq(Seq(TableRow) \cup Seq(Nat))
JobType ==
  [pc : {"idle", "probe", "readcheck", "query", "fill", "entry"}, via : {"connector", "direct", None},
   kind : Probes!CommandKinds \cup {None}, family : {"postgres", None}, source : 0..3, query : 0..4,
   rows : RowLists, errs : SUBSET Candidates, passed : SUBSET Candidates,
   got : SUBSET Probes!Entries, missing : SUBSET Probes!Entries]

\* A collection has an answer from every query behind it, and only its source's; a
\* source is asked only after it passed its test, and one that passed it is either the
\* one being asked or among the errors.
JobInv ==
  /\ job \in JobType /\ job.errs \subseteq job.passed /\ job.got \cap job.missing = {}
  /\ \A i \in DOMAIN job.rows : job.rows[i] \in AnswerOf(job.kind, i)
  /\ job.pc \in {"probe", "readcheck", "query", "fill"} =>
       job.family = "postgres" /\ job.kind \in SnapshotKinds /\ job.source \in 1..(Len(Probes!Chain) + 1)
  /\ job.pc \in {"probe", "readcheck"} => job.rows = <<>> /\ job.passed = job.errs
  /\ job.pc \in {"readcheck", "query", "fill"} => job.source <= Len(Probes!Chain)
  /\ job.pc \in {"query", "fill"} => Probes!Source \in job.passed /\ Len(job.rows) + 1 = job.query
  /\ job.pc = "query" => job.query \in 1..Len(Probes!Queries(job.kind)) /\ job.passed = job.errs \cup {Probes!Source}
  /\ job.pc = "fill" => job.query = Len(Probes!Queries(job.kind)) + 1

ProbeInv ==
  /\ db \in Probes!Databases /\ changes \in 0..MaxChanges
  /\ JobInv /\ out.result \in Results /\ Probes!CollectionIsSound

\* The chain of a kind has one or two candidates, a source one query or three.
LEMMA ChainFacts ==
  ASSUME NEW kind \in SnapshotKinds
  PROVE  /\ Probes!Sources("postgres", kind) \in Seq(Candidates)
         /\ Len(Probes!Sources("postgres", kind)) \in 1..2
         /\ Probes!Queries(kind) \in Seq({"tables", "columns", "indexes", "slow_queries", "configs"})
         /\ Len(Probes!Queries(kind)) = IF kind = "schema" THEN 3 ELSE 1
<1>1. CASE kind = "slowlog"
  BY <1>1 DEF Probes!Sources, Probes!Queries, Candidates
<1>2. CASE kind = "schema"
  BY <1>2 DEF Probes!Sources, Probes!Queries, Candidates
<1>3. CASE kind = "config"
  BY <1>3 DEF Probes!Sources, Probes!Queries, Candidates
<1>4. QED BY <1>1, <1>2, <1>3 DEF SnapshotKinds

\* First cuts a list at its maximum.
LEMMA FirstCuts ==
  ASSUME NEW S, NEW s \in Seq(S), NEW n \in Nat
  PROVE  Probes!First(s, n) \in Seq(S) /\ Len(Probes!First(s, n)) <= n /\ Len(Probes!First(s, n)) <= Len(s)
<1> DEFINE k == IF n < Len(s) THEN n ELSE Len(s)
<1>1. k \in Nat /\ k <= n /\ k <= Len(s) /\ 1 \in 1..(Len(s) + 1) /\ k \in (1 - 1)..Len(s)
  OBVIOUS
<1> HIDE DEF k
<1>2. SubSeq(s, 1, k) \in Seq(S) /\ Len(SubSeq(s, 1, k)) = k
  BY <1>1, SubSeqProperties
<1>3. Probes!First(s, n) = SubSeq(s, 1, k)
  BY Zenon DEF Probes!First, k
<1>4. QED BY <1>1, <1>2, <1>3

\* The elements of a finite set in an order are a list.
LEMMA SortedLists ==
  ASSUME NEW S, IsFiniteSet(S), NEW s \in [1..Probes!Cardinality(S) -> S]
  PROVE  s \in Seq(S)
<1>1. Probes!Cardinality(S) = Cardinality(S)
  BY DEF Probes!Cardinality, Cardinality, Probes!IsFiniteSet, IsFiniteSet
<1>2. Cardinality(S) \in Nat
  BY FS_CardinalityType
<1>3. QED BY <1>1, <1>2

\* A function takes finitely many values on a finite set.
LEMMA FiniteImage ==
  ASSUME NEW f, IsFiniteSet(DOMAIN f)
  PROVE  IsFiniteSet({f[x] : x \in DOMAIN f})
<1> DEFINE T == {f[x] : x \in DOMAIN f}
           g == [x \in DOMAIN f |-> f[x]]
<1>1. g \in Surjection(DOMAIN f, T)
  BY DEF Surjection
<1> HIDE DEF g, T
<1>2. IsFiniteSet(T)
  BY <1>1, FS_Surjection
<1>3. QED BY <1>2 DEF T

\* The tables that are listed, and their columns.
LEMMA ListedTyped ==
  ASSUME Probes!ProbeAssumption, db \in Probes!Databases
  PROVE  Probes!Listed \in Seq(DOMAIN Tables) /\ Len(Probes!Listed) <= TopN
<1>1. db.layout \in Seq(DOMAIN Tables) /\ TopN \in Nat
  BY DEF Probes!ProbeAssumption, Probes!Databases
<1>2. QED BY <1>1, FirstCuts DEF Probes!Listed

LEMMA OwnedTyped ==
  ASSUME Probes!ProbeAssumption, db \in Probes!Databases
  PROVE  Probes!Owned \in SUBSET TableRow /\ IsFiniteSet(Probes!Owned)
<1> DEFINE L == Probes!Listed
           I == {L[k] : k \in DOMAIN L}
           C(i) == {[t |-> i, n |-> j] : j \in 1..Tables[i].width}
<1>1. L \in Seq(DOMAIN Tables)
  BY ListedTyped
<1> HIDE DEF L
<1>2. DOMAIN L = 1..Len(L) /\ Len(L) \in Nat /\ I \subseteq DOMAIN Tables
  BY <1>1
<1>3. IsFiniteSet(I)
  <2> DEFINE n == Len(L)
  <2>4. n \in Nat /\ n \in Int /\ 1 \in Int
    BY <1>2
  <2> HIDE DEF n
  <2>5. IsFiniteSet(1..n)
    BY <2>4, FS_Interval
  <2>1. IsFiniteSet(1..Len(L))
    BY <2>5 DEF n
  <2>2. IsFiniteSet(DOMAIN L)
    BY <1>2, <2>1
  <2>3. QED BY <2>2, FiniteImage, Zenon
<1>4. ASSUME NEW i \in I PROVE C(i) \in SUBSET TableRow /\ IsFiniteSet(C(i))
  <2>1. i \in DOMAIN Tables /\ Tables[i].width \in Nat
    <3>1. Tables \in Seq([schema : Nat, name : Nat, width : Nat])
      BY DEF Probes!ProbeAssumption
    <3>2. i \in DOMAIN Tables
      BY <1>2
    <3> DEFINE R == [schema : Nat, name : Nat, width : Nat]
    <3>3. Tables \in Seq(R)
      BY <3>1
    <3> HIDE DEF R
    <3>4. Tables[i] \in R
      BY <3>2, <3>3
    <3>5. QED BY <3>2, <3>4 DEF R
  <2>2. IsFiniteSet(1..Tables[i].width) /\ \A j \in 1..Tables[i].width : j \in Nat
    BY <2>1, FS_Interval
  <2>3. [j \in 1..Tables[i].width |-> [t |-> i, n |-> j]] \in Surjection(1..Tables[i].width, C(i))
    BY Zenon DEF Surjection
  <2>4. IsFiniteSet(C(i))
    BY <2>2, <2>3, FS_Surjection
  <2>5. C(i) \in SUBSET TableRow
    BY <2>1, <2>2 DEF TableRow
  <2>6. QED BY <2>4, <2>5
<1> HIDE DEF I, C
<1>5. IsFiniteSet({C(i) : i \in I})
  <2>1. [i \in I |-> C(i)] \in Surjection(I, {C(i) : i \in I})
    BY DEF Surjection
  <2>2. QED BY <1>3, <2>1, FS_Surjection
<1>6. IsFiniteSet(UNION {C(i) : i \in I})
  BY <1>4, <1>5, FS_UNION
<1>7. Probes!Owned = UNION {C(i) : i \in I}
  BY Zenon DEF Probes!Owned, C, I, L
<1>8. QED BY <1>4, <1>6, <1>7

LEMMA AnswersTyped ==
  ASSUME Probes!ProbeAssumption, db \in Probes!Databases, NEW kind \in SnapshotKinds,
         NEW i \in 1..Len(Probes!Queries(kind)), NEW answer \in Probes!QueryRows(Probes!Queries(kind)[i])
  PROVE  answer \in AnswerOf(kind, i)
<1> DEFINE q == Probes!Queries(kind)[i]
<1>1. TopN \in Nat /\ ColumnRows \in Nat /\ ConfigRows \in Nat
  BY DEF Probes!ProbeAssumption
<1>2. CASE kind = "schema"
  <2>1. i \in 1..3 /\ q = <<"tables", "columns", "indexes">>[i]
    BY <1>2, ChainFacts DEF Probes!Queries
  <2>2. CASE i = 1
    <3>1. q = "tables"
      BY <2>1, <2>2
    <3>2. answer = [k \in DOMAIN Probes!Listed |-> [t |-> Probes!Listed[k], n |-> 0]]
      BY <3>1 DEF Probes!QueryRows
    <3>3. Probes!Listed \in Seq(DOMAIN Tables) /\ Len(Probes!Listed) <= TopN
      BY ListedTyped
    <3> DEFINE L == Probes!Listed
    <3> HIDE DEF L
    <3>6. L \in Seq(DOMAIN Tables) /\ DOMAIN L = 1..Len(L) /\ Len(L) \in Nat /\ \A k \in 1..Len(L) : L[k] \in DOMAIN Tables
      BY <3>3 DEF L
    <3>7. answer = [k \in 1..Len(L) |-> [t |-> L[k], n |-> 0]]
      BY <3>2, <3>6 DEF L
    <3>8. \A k \in 1..Len(L) : answer[k] \in TableRow
      BY <3>6, <3>7 DEF TableRow
    <3>4. answer \in Seq(TableRow) /\ Len(answer) = Len(Probes!Listed)
      BY <3>6, <3>7, <3>8 DEF L
    <3>5. QED BY <1>2, <3>3, <3>4 DEF AnswerOf
  <2>3. CASE i # 1
    <3>1. q \in {"columns", "indexes"}
      BY <2>1, <2>3
    <3>2. answer \in {Probes!First(r, ColumnRows) : r \in Probes!Sorted(Probes!Owned, Probes!ByTable)}
      BY <3>1 DEF Probes!QueryRows
    <3>3. PICK r \in [1..Probes!Cardinality(Probes!Owned) -> Probes!Owned] : answer = Probes!First(r, ColumnRows)
      BY <3>2, Zenon DEF Probes!Sorted
    <3>4. r \in Seq(Probes!Owned)
      BY OwnedTyped, SortedLists
    <3>5. r \in Seq(TableRow)
      BY <3>4, OwnedTyped
    <3>6. answer \in Seq(TableRow)
      BY <1>1, <3>3, <3>5, FirstCuts
    <3>7. QED BY <1>2, <2>3, <3>6 DEF AnswerOf
  <2>4. QED BY <2>2, <2>3
<1>3. CASE kind = "slowlog"
  <2>1. i = 1 /\ q = "slow_queries"
    BY <1>3, ChainFacts DEF Probes!Queries
  <2>2. answer \in {Probes!First(r, TopN) : r \in Probes!Sorted(db.workload, Probes!ByCost)}
    BY <2>1 DEF Probes!QueryRows
  <2>3. PICK r \in [1..Probes!Cardinality(db.workload) -> db.workload] : answer = Probes!First(r, TopN)
    BY <2>2, Zenon DEF Probes!Sorted
  <2>4. db.workload \subseteq Nat /\ IsFiniteSet(db.workload)
    <3>1. db.workload \in Workloads
      BY DEF Probes!Databases
    <3>2. QED BY <3>1 DEF Probes!ProbeAssumption, Probes!IsFiniteSet, IsFiniteSet
  <2>5. r \in Seq(db.workload)
    BY <2>4, SortedLists
  <2>6. r \in Seq(Nat)
    BY <2>4, <2>5
  <2>7. answer \in Seq(Nat) /\ Len(answer) <= TopN
    BY <1>1, <2>3, <2>6, FirstCuts
  <2>8. QED BY <1>3, <2>7 DEF AnswerOf, Probes!MaxEntries
<1>4. CASE kind = "config"
  <2>1. i = 1 /\ q = "configs"
    BY <1>4, ChainFacts DEF Probes!Queries
  <2>2. answer = Probes!First(db.settings, ConfigRows)
    BY <2>1 DEF Probes!QueryRows
  <2>3. db.settings \in Seq(Nat)
    BY DEF Probes!Databases, Probes!ProbeAssumption
  <2>4. answer \in Seq(Nat) /\ Len(answer) <= ConfigRows
    BY <1>1, <2>2, <2>3, FirstCuts
  <2>5. QED BY <1>4, <2>4 DEF AnswerOf, Probes!MaxEntries
<1>5. QED BY <1>2, <1>3, <1>4 DEF SnapshotKinds

-----------------------------------------------------------------------------
(* What makes a snapshot fit.                                              *)

\* The least of a set of numbers.
LEMMA LeastNumber ==
  ASSUME NEW T \in SUBSET Nat, T # {}
  PROVE  \E x \in T : \A y \in T : x <= y
<1>1. PICK x \in T : \A y \in T : ~ (<<y, x>> \in OpToRel(<, Nat))
  BY NatLessThanWellFounded, WFMin, Zenon
<1>2. \A y \in T : ~ (y < x)
  BY <1>1 DEF OpToRel
<1>3. QED BY <1>2

\* A snapshot without entries takes no room.
LEMMA EmptySize ==
  ASSUME NEW kind
  PROVE  Probes!Size(kind, <<>>) = 0
<1> DEFINE e == <<>>
           F(g) == [n \in 0..Len(e) |-> IF n = 0 THEN 0 ELSE g[n - 1] + Probes!EntrySize(kind, e[n])]
           c == CHOOSE g : g = F(g)
<1>1. Probes!Size(kind, <<>>) = c[Len(e)]
  BY Zenon DEF Probes!Size
<1>2. Len(e) = 0 /\ 0..Len(e) = {0}
  OBVIOUS
<1> DEFINE h == [n \in {0} |-> 0]
<1>3. h = F(h)
  BY <1>2
<1> HIDE DEF h, F
<1>4. c = F(c)
  BY <1>3, Zenon
<1> HIDE DEF c
<1> USE DEF F
<1>5. c[0] = 0
  BY <1>2, <1>4
<1>6. QED BY <1>1, <1>2, <1>5

\* How many entries are left of n: the function that EnforceSnapshotSize unfolds.
Fits(kind, entries, n) == n = 0 \/ Probes!Size(kind, SubSeq(entries, 1, n)) <= MaxBytes
Cuts(g, kind, entries, m) ==
  g = [n \in 0..m |-> IF Fits(kind, entries, n) THEN n ELSE g[Probes!DropTail(n)]]

\* The tail is never empty.
LEMMA TailDropped ==
  ASSUME NEW n \in Nat, n # 0
  PROVE  Probes!DropTail(n) \in 0..(n - 1)
BY DEF Probes!DropTail

LEMMA CutsExist ==
  ASSUME NEW kind, NEW entries, NEW l \in Nat
  PROVE  \E g : Cuts(g, kind, entries, l)
<1> DEFINE T == {k \in 0..l : ~\E g : Cuts(g, kind, entries, k)}
<1>1. CASE T = {}
  BY <1>1
<1>2. CASE T # {}
  <2>0. T \in SUBSET Nat
    OBVIOUS
  <2>1. PICK k \in T : \A j \in T : k <= j
    BY <1>2, <2>0, LeastNumber
  <2>2. k \in Nat /\ k <= l /\ ~\E g : Cuts(g, kind, entries, k)
    BY <2>1
  <2>3. CASE k = 0
    <3> DEFINE h == [n \in 0..0 |-> 0]
    <3>1. h = [n \in 0..0 |-> IF Fits(kind, entries, n) THEN n ELSE h[Probes!DropTail(n)]]
      BY DEF Fits
    <3>2. QED BY <2>2, <2>3, <3>1 DEF Cuts
  <2>4. CASE k # 0
    <3>1. k - 1 \in 0..l /\ k - 1 \notin T
      BY <2>1, <2>2, <2>4
    <3>2. PICK g : Cuts(g, kind, entries, k - 1)
      BY <3>1
    <3> DEFINE h == [n \in 0..k |-> IF n = k THEN IF Fits(kind, entries, k) THEN k ELSE g[Probes!DropTail(k)] ELSE g[n]]
    <3>3. ASSUME NEW n \in 0..k PROVE h[n] = IF Fits(kind, entries, n) THEN n ELSE h[Probes!DropTail(n)]
      <4>1. CASE n = 0
        <5>1. 0 \in 0..(k - 1) /\ 0 # k
          BY <2>2, <2>4
        <5>2. g[0] = IF Fits(kind, entries, 0) THEN 0 ELSE g[Probes!DropTail(0)]
          BY <3>2, <5>1, Zenon DEF Cuts
        <5>3. QED BY <4>1, <5>1, <5>2 DEF Fits
      <4>2. CASE n # 0
        <5> DEFINE d == Probes!DropTail(n)
        <5>1. d \in 0..(n - 1)
          BY <4>2, TailDropped
        <5> HIDE DEF d
        <5>2. d \in 0..k /\ d # k
          BY <2>2, <5>1
        <5>3. h[d] = g[d]
          BY <5>2
        <5>4. CASE n = k
          BY <5>2, <5>3, <5>4 DEF d
        <5>5. CASE n # k
          <6>1. n \in 0..(k - 1)
            BY <2>2, <5>5
          <6>2. g[n] = IF Fits(kind, entries, n) THEN n ELSE g[Probes!DropTail(n)]
            BY <3>2, <6>1, Zenon DEF Cuts
          <6>3. QED BY <5>3, <5>5, <6>2 DEF d
        <5>6. QED BY <5>4, <5>5
      <4>3. QED BY <4>1, <4>2
    <3>4. h = [n \in 0..k |-> h[n]]
      OBVIOUS
    <3> HIDE DEF h
    <3>5. h = [n \in 0..k |-> IF Fits(kind, entries, n) THEN n ELSE h[Probes!DropTail(n)]]
      BY <3>3, <3>4
    <3>6. QED BY <2>2, <3>5 DEF Cuts
  <2>5. QED BY <2>3, <2>4
<1>3. QED BY <1>1, <1>2

\* What it gives is not longer, and fits.
LEMMA CutsFit ==
  ASSUME NEW kind, NEW entries, NEW l \in Nat, NEW g, Cuts(g, kind, entries, l)
  PROVE  g[l] \in 0..l /\ Fits(kind, entries, g[l])
<1> DEFINE T == {k \in 0..l : ~ (g[k] \in 0..k /\ Fits(kind, entries, g[k]))}
<1>1. CASE T = {}
  BY <1>1
<1>2. CASE T # {}
  <2>0. T \in SUBSET Nat
    OBVIOUS
  <2>1. PICK k \in T : \A j \in T : k <= j
    BY <1>2, <2>0, LeastNumber
  <2>2. k \in 0..l /\ k \in Nat /\ ~ (g[k] \in 0..k /\ Fits(kind, entries, g[k]))
    BY <2>1
  <2>3. g[k] = IF Fits(kind, entries, k) THEN k ELSE g[Probes!DropTail(k)]
    BY <2>2, Zenon DEF Cuts
  <2>4. ~Fits(kind, entries, k) /\ k # 0
    BY <2>2, <2>3 DEF Fits
  <2> DEFINE d == Probes!DropTail(k)
  <2>5. d \in 0..(k - 1)
    BY <2>2, <2>4, TailDropped
  <2> HIDE DEF d
  <2>6. d \in 0..l /\ d \notin T
    BY <2>1, <2>2, <2>5
  <2>7. g[d] \in 0..d /\ Fits(kind, entries, g[d])
    BY <2>6
  <2>8. g[k] = g[d]
    BY <2>3, <2>4 DEF d
  <2>9. QED BY <2>2, <2>5, <2>7, <2>8
<1>3. QED BY <1>1, <1>2

\* enforceSnapshotSize keeps the head of the list, as much of it as fits.
LEMMA SnapshotFits ==
  ASSUME Probes!ProbeAssumption, NEW kind, NEW E, NEW entries \in Seq(E)
  PROVE  \E n \in 0..Len(entries) :
           /\ Probes!EnforceSnapshotSize(kind, entries) = SubSeq(entries, 1, n)
           /\ Probes!Size(kind, SubSeq(entries, 1, n)) <= MaxBytes
<1> DEFINE l == Len(entries)
           F(g) == [n \in 0..Len(entries) |-> IF n = 0 \/ Probes!Size(kind, SubSeq(entries, 1, n)) <= MaxBytes
                                              THEN n ELSE g[Probes!DropTail(n)]]
           c == CHOOSE g : g = F(g)
<1>1. Probes!EnforceSnapshotSize(kind, entries) = SubSeq(entries, 1, c[l])
  BY Zenon DEF Probes!EnforceSnapshotSize
<1>2. l \in Nat
  OBVIOUS
<1>3. \A g : Cuts(g, kind, entries, l) <=> g = F(g)
  BY Zenon DEF Cuts, Fits
<1> HIDE DEF F
<1>4. c = F(c)
  BY <1>2, <1>3, CutsExist, Zenon
<1> HIDE DEF c
<1>5. Cuts(c, kind, entries, l)
  BY <1>3, <1>4
<1> HIDE DEF l
<1>6. c[l] \in 0..l /\ Fits(kind, entries, c[l])
  BY <1>2, <1>5, CutsFit
<1>7. CASE c[l] = 0
  <2>1. SubSeq(entries, 1, 0) = <<>>
    BY SMT
  <2>2. MaxBytes \in Nat
    BY DEF Probes!ProbeAssumption
  <2>3. Probes!Size(kind, SubSeq(entries, 1, 0)) <= MaxBytes
    <3>1. Probes!Size(kind, <<>>) = 0
      BY EmptySize
    <3>2. Probes!Size(kind, <<>>) <= MaxBytes
      BY <2>2, <3>1
    <3>3. QED BY <2>1, <3>2, Zenon
  <2>4. Probes!EnforceSnapshotSize(kind, entries) = SubSeq(entries, 1, 0) /\ 0 \in 0..Len(entries)
    BY <1>1, <1>2, <1>7 DEF l
  <2>5. QED BY <2>3, <2>4
<1>8. CASE c[l] # 0
  BY <1>1, <1>6, <1>8 DEF Fits, l
<1>9. QED BY <1>7, <1>8

-----------------------------------------------------------------------------
(* The collection.                                                         *)

\* fillSnapshot: an entry per row of the first query, with its own columns and indexes.
LEMMA FilledTyped ==
  ASSUME Probes!ProbeAssumption, NEW kind \in SnapshotKinds, NEW r, DOMAIN r = 1..Len(Probes!Queries(kind)),
         \A i \in DOMAIN r : r[i] \in AnswerOf(kind, i)
  PROVE  LET entries == Probes!FillSnapshot(kind, r)
         IN  /\ \E E : entries \in Seq(E)
             /\ Len(entries) <= Probes!MaxEntries(kind)
             /\ kind = "schema" => \A i \in DOMAIN entries :
                  \A c \in entries[i].columns \cup entries[i].indexes : c.t = entries[i].t
<1>1. TopN \in Nat /\ TextMax \in Nat
  BY DEF Probes!ProbeAssumption
<1>2. CASE kind = "schema"
  <2> DEFINE tables == Probes!First(r[1], TopN)
             more(k) == {r[k][j] : j \in DOMAIN r[k]}
             Position(t) == {i \in DOMAIN tables : Probes!TableKey(tables[i].t) = Probes!TableKey(t)
                              /\ \A j \in DOMAIN tables : j > i => Probes!TableKey(tables[j].t) # Probes!TableKey(t)}
             Of(i, k) == {c \in more(k) : i \in Position(c.t)}
             entries == [i \in DOMAIN tables |-> [t |-> tables[i].t, columns |-> Of(i, 2), indexes |-> Of(i, 3)]]
  <2>1. Probes!FillSnapshot(kind, r) = entries
    BY <1>2, Zenon DEF Probes!FillSnapshot, Probes!ParseTables
  <2>2. DOMAIN r = 1..3
    BY <1>2, ChainFacts
  <2>3. r[1] \in Seq(TableRow) /\ r[2] \in Seq(TableRow) /\ r[3] \in Seq(TableRow)
    <3>1. r[1] \in AnswerOf(kind, 1) /\ r[2] \in AnswerOf(kind, 2) /\ r[3] \in AnswerOf(kind, 3)
      BY <2>2
    <3>2. \A i : AnswerOf(kind, i) = {s \in Seq(TableRow) : i = 1 => Len(s) <= TopN}
      BY <1>2 DEF AnswerOf
    <3>3. QED BY <3>1, <3>2
  <2>11. \A c \in TableRow : c.t \in DOMAIN Tables
    BY DEF TableRow
  <2>4. tables \in Seq(TableRow) /\ Len(tables) <= TopN
    <3> DEFINE a == r[1]
    <3> HIDE DEF a
    <3>1. a \in Seq(TableRow)
      BY <2>3 DEF a
    <3>2. Probes!First(a, TopN) \in Seq(TableRow) /\ Len(Probes!First(a, TopN)) <= TopN
      BY <1>1, <3>1, FirstCuts
    <3>3. QED BY <3>2 DEF a
  <2> HIDE DEF tables
  <2>5. DOMAIN tables = 1..Len(tables) /\ Len(tables) \in Nat /\ \A i \in DOMAIN tables : tables[i].t \in DOMAIN Tables
    <3>1. \A i \in DOMAIN tables : tables[i] \in TableRow
      BY <2>4
    <3>2. QED BY <2>4, <2>11, <3>1
  <2>6. \A c \in more(2) \cup more(3) : c.t \in DOMAIN Tables
    <3>1. \A k \in {2, 3} : \A j \in DOMAIN r[k] : r[k][j] \in TableRow
      BY <2>3
    <3>2. QED BY <2>11, <3>1
  <2> HIDE DEF more
  <2>7. ASSUME NEW i \in DOMAIN tables, NEW c \in Of(i, 2) \cup Of(i, 3) PROVE c.t = tables[i].t
    <3>1. c.t \in DOMAIN Tables /\ i \in Position(c.t)
      BY <2>6
    <3>2. Probes!TableKey(tables[i].t) = Probes!TableKey(c.t)
      BY <3>1
    <3>3. QED BY <2>5, <3>1, <3>2 DEF Probes!ProbeAssumption
  <2> HIDE DEF Of
  <2> DEFINE E == {entries[i] : i \in DOMAIN tables}
  <2>8. entries \in Seq(E) /\ Len(entries) = Len(tables)
    BY <2>5
  <2>9. \A i \in DOMAIN entries : \A c \in entries[i].columns \cup entries[i].indexes : c.t = entries[i].t
    BY <2>7
  <2> HIDE DEF entries, E
  <2>10. \E F : entries \in Seq(F)
    BY <2>8
  <2>12. Len(entries) <= TopN
    BY <2>4, <2>8
  <2>14. Probes!MaxEntries(kind) = TopN
    BY <1>2 DEF Probes!MaxEntries
  <2>13. QED BY <2>1, <2>9, <2>10, <2>12, <2>14, Zenon
<1>3. CASE kind # "schema"
  <2>1. DOMAIN r = 1..1 /\ r[1] \in Seq(Nat) /\ Len(r[1]) <= Probes!MaxEntries(kind)
    <3>1. DOMAIN r = 1..1
      BY <1>3, ChainFacts
    <3>2. AnswerOf(kind, 1) = {s \in Seq(Nat) : Len(s) <= Probes!MaxEntries(kind)}
      BY <1>3 DEF AnswerOf
    <3>3. r[1] \in AnswerOf(kind, 1)
      BY <3>1
    <3>4. QED BY <3>1, <3>2, <3>3
  <2>2. CASE kind = "slowlog"
    <3>1. Probes!FillSnapshot(kind, r) = [i \in DOMAIN r[1] |-> IF r[1][i] > TextMax THEN TextMax ELSE r[1][i]]
      BY <1>3, <2>2 DEF Probes!FillSnapshot, Probes!ParseStatements
    <3>2. Probes!FillSnapshot(kind, r) \in Seq(Nat) /\ Len(Probes!FillSnapshot(kind, r)) = Len(r[1])
      BY <1>1, <2>1, <3>1
    <3>3. QED BY <1>3, <2>1, <3>2
  <2>3. CASE kind # "slowlog"
    <3>1. Probes!FillSnapshot(kind, r) = r[1]
      BY <1>3, <2>3 DEF Probes!FillSnapshot
    <3>2. QED BY <1>3, <2>1, <3>1
  <2>4. QED BY <2>2, <2>3
<1>4. QED BY <1>2, <1>3

LEMMA NoRows == <<>> \in RowLists
BY DEF RowLists

LEMMA InitProbe == ASSUME Probes!ProbeAssumption, Probes!Init PROVE ProbeInv
<1>1. job = Probes!Idle /\ out = Probes!Nothing /\ changes = 0 /\ db \in Probes!Databases
  BY DEF Probes!Init
<1>2. job \in JobType
  BY <1>1, NoRows DEF Probes!Idle, JobType
<1>3. JobInv
  BY <1>1, <1>2 DEF JobInv, Probes!Idle
<1>4. out.result = "none"
  BY <1>1 DEF Probes!Nothing
<1>5. Probes!CollectionIsSound
  BY <1>4 DEF Probes!CollectionIsSound
<1>6. QED BY <1>1, <1>3, <1>4, <1>5 DEF ProbeInv, Results, Probes!ProbeAssumption

\* An idle collector has nothing in hand.
LEMMA IdleTyped == ASSUME job' = Probes!Idle PROVE JobInv'
<1>1. job' \in JobType
  BY NoRows DEF Probes!Idle, JobType
<1>2. QED BY <1>1 DEF JobInv, Probes!Idle

\* What the last collection came to stays as it is, or says little.
LEMMA OutKept == ASSUME ProbeInv, out' = out PROVE out'.result \in Results /\ Probes!CollectionIsSound'
BY DEF ProbeInv, Probes!CollectionIsSound

LEMMA OutShort ==
  ASSUME out'.result \in {"none", "unsupported", "invalid", "failed"}
  PROVE  out'.result \in Results /\ Probes!CollectionIsSound'
BY DEF Results, Probes!CollectionIsSound

\* The chain of the collection under way.
LEMMA ChainTyped ==
  ASSUME JobInv, job.pc \in {"probe", "readcheck", "query", "fill"}
  PROVE  /\ job.kind \in SnapshotKinds /\ Probes!Chain = Probes!Sources("postgres", job.kind)
         /\ Probes!Chain \in Seq(Candidates) /\ Len(Probes!Chain) \in 1..2
         /\ job.source \in 1..3 /\ job.source <= Len(Probes!Chain) + 1
         /\ job.source <= Len(Probes!Chain) => Probes!Source \in Candidates
<1>1. job.kind \in SnapshotKinds /\ job.family = "postgres" /\ job.source \in 1..(Len(Probes!Chain) + 1)
  BY DEF JobInv
<1>2. Probes!Chain = Probes!Sources("postgres", job.kind)
  BY <1>1 DEF Probes!Chain
<1>3. Probes!Chain \in Seq(Candidates) /\ Len(Probes!Chain) \in 1..2
  BY <1>1, <1>2, ChainFacts
<1>4. ASSUME job.source <= Len(Probes!Chain) PROVE Probes!Source \in Candidates
  <2> DEFINE c == Probes!Chain
  <2>1. c \in Seq(Candidates) /\ job.source \in 1..Len(c)
    BY <1>1, <1>3, <1>4
  <2> HIDE DEF c
  <2>2. c[job.source] \in Candidates
    BY <2>1
  <2>3. QED BY <2>2 DEF Probes!Source, c
<1>5. job.source \in 1..3 /\ job.source <= Len(Probes!Chain) + 1
  <2> DEFINE n == Len(Probes!Chain)
             k == job.source
  <2>1. n \in 1..2 /\ k \in 1..(n + 1)
    BY <1>1, <1>3
  <2> HIDE DEF n, k
  <2>2. k \in 1..3 /\ k <= n + 1
    BY <2>1
  <2>3. QED BY <2>2 DEF n, k
<1>6. QED BY <1>1, <1>2, <1>3, <1>4, <1>5

LEMMA CollectKeeps ==
  ASSUME Probes!ProbeAssumption, ProbeInv, NEW via \in {"connector", "direct"},
         NEW kind \in Probes!CommandKinds \cup {None}, NEW family \in {"postgres", "other"}, NEW ok \in BOOLEAN,
         Probes!Collect(via, kind, family, ok)
  PROVE  ProbeInv'
<1>1. db' = db /\ changes' = changes
  BY DEF Probes!Collect
<1>2. JobInv' /\ out'.result \in {"none", "unsupported", "invalid", "failed"}
  <2>1. CASE kind \notin Probes!CommandKinds
    BY <2>1, IdleTyped DEF Probes!Collect
  <2>2. CASE kind \in Probes!CommandKinds /\ ~ok
    BY <2>2, IdleTyped DEF Probes!Collect
  <2>3. CASE kind \in Probes!CommandKinds /\ ok /\ family # "postgres"
    BY <2>3, IdleTyped DEF Probes!Collect
  <2>4. CASE kind \in Probes!CommandKinds /\ ok /\ family = "postgres"
    <3>1. out' = Probes!Nothing
          /\ job' = [Probes!Idle EXCEPT !.pc = IF kind = "metrics" THEN "entry" ELSE "probe", !.via = via,
                                        !.kind = kind, !.family = family, !.source = 1]
      BY <2>4 DEF Probes!Collect
    <3>2. job' = [pc |-> IF kind = "metrics" THEN "entry" ELSE "probe", via |-> via, kind |-> kind,
                  family |-> "postgres", source |-> 1, query |-> 0, rows |-> <<>>, errs |-> {}, passed |-> {},
                  got |-> {}, missing |-> {}]
      BY <2>4, <3>1 DEF Probes!Idle
    <3>3. job' \in JobType
      <4> DEFINE pc == IF kind = "metrics" THEN "entry" ELSE "probe"
      <4>1. pc \in {"idle", "probe", "readcheck", "query", "fill", "entry"} /\ kind \in Probes!CommandKinds \cup {None}
        OBVIOUS
      <4>2. job' = [pc |-> pc, via |-> via, kind |-> kind, family |-> "postgres", source |-> 1, query |-> 0,
                    rows |-> <<>>, errs |-> {}, passed |-> {}, got |-> {}, missing |-> {}]
        BY <3>2
      <4> HIDE DEF pc
      <4>3. QED BY <4>1, <4>2, NoRows DEF JobType
    <3>6. out'.result = "none"
      BY <3>1 DEF Probes!Nothing
    <3>4. CASE kind = "metrics"
      BY <3>2, <3>3, <3>4, <3>6 DEF JobInv
    <3>5. CASE kind # "metrics"
      <4>1. kind \in SnapshotKinds
        BY <2>4, <3>5 DEF Probes!CommandKinds, SnapshotKinds
      <4>2. Probes!Chain' = Probes!Sources("postgres", kind)
        BY <3>2 DEF Probes!Chain
      <4>3. Len(Probes!Chain') \in 1..2
        BY <4>1, <4>2, ChainFacts
      <4>4. 1 \in 1..(Len(Probes!Chain') + 1)
        BY <4>3
      <4>5. job'.pc = "probe" /\ job'.source = 1 /\ job'.kind = kind /\ job'.family = "postgres" /\ job'.rows = <<>>
            /\ job'.errs = {} /\ job'.passed = {} /\ job'.got = {} /\ job'.missing = {}
        BY <3>2, <3>5
      <4>6. QED BY <3>3, <3>6, <4>1, <4>4, <4>5 DEF JobInv
    <3>7. QED BY <3>4, <3>5, <3>6
  <2>5. QED BY <2>1, <2>2, <2>3, <2>4
<1>3. QED BY <1>1, <1>2, OutShort DEF ProbeInv

\* The next candidate, whatever is remembered of this one.
LEMMA NextSourceTyped ==
  ASSUME ProbeInv, job.pc \in {"probe", "readcheck", "query"}, job.source <= Len(Probes!Chain),
         NEW errs, errs = job.passed, job' = [Probes!NextSource EXCEPT !.errs = errs]
  PROVE  JobInv'
<1>1. JobInv /\ job \in JobType
  BY DEF ProbeInv, JobInv
<1>2. job' = [pc |-> "probe", via |-> job.via, kind |-> job.kind, family |-> job.family, source |-> job.source + 1,
              query |-> 0, rows |-> <<>>, errs |-> errs, passed |-> job.passed, got |-> job.got, missing |-> job.missing]
  BY <1>1 DEF JobType, Probes!NextSource
<1>3. job.source \in 1..3 /\ Len(Probes!Chain) \in 1..2 /\ job.kind \in SnapshotKinds /\ job.family = "postgres"
  BY <1>1, ChainTyped DEF JobInv
<1>4. job' \in JobType
  <2> DEFINE n == Len(Probes!Chain)
             k == job.source
  <2>4. n \in 1..2 /\ k \in 1..3 /\ k <= n
    BY <1>3
  <2> HIDE DEF n, k
  <2>5. k + 1 \in 0..3
    BY <2>4
  <2>1. job.source + 1 \in 0..3
    BY <2>5 DEF k
  <2>2. errs \in SUBSET Candidates
    BY <1>1 DEF JobType
  <2>6. Probes!NextSource \in JobType
    <3> DEFINE m == job.source + 1
    <3>1. Probes!NextSource = [job EXCEPT !.pc = "probe", !.source = m, !.query = 0, !.rows = <<>>] /\ m \in 0..3
      BY <1>1, <2>1 DEF JobType, Probes!NextSource
    <3> HIDE DEF m
    <3>2. 0 \in 0..4
      OBVIOUS
    <3>3. QED BY <1>1, <3>1, <3>2, NoRows DEF JobType
  <2>7. job' = [Probes!NextSource EXCEPT !.errs = errs]
    OBVIOUS
  <2>3. QED BY <2>2, <2>6, <2>7 DEF JobType
<1>5. Probes!Chain' = Probes!Chain
  BY <1>2 DEF Probes!Chain
<1>6. job'.source \in 1..(Len(Probes!Chain') + 1)
  BY <1>2, <1>3, <1>5
<1>7. QED BY <1>1, <1>2, <1>3, <1>4, <1>6 DEF JobInv

LEMMA ProbeKeeps == ASSUME ProbeInv, Probes!ProbeSource PROVE ProbeInv'
<1>1. db' = db /\ out' = out /\ changes' = changes /\ job.pc = "probe" /\ job.source <= Len(Probes!Chain)
      /\ (job' = Probes!NextSource \/ job' = [job EXCEPT !.pc = "readcheck"])
  BY DEF Probes!ProbeSource
<1>2. JobInv /\ job \in JobType
  BY DEF ProbeInv, JobInv
<1>3. JobInv'
  <2>1. CASE job' = Probes!NextSource
    <3>1. Probes!NextSource = [Probes!NextSource EXCEPT !.errs = job.errs] /\ job.errs = job.passed
      BY <1>1, <1>2 DEF Probes!NextSource, JobInv, JobType
    <3>2. QED BY <1>1, <2>1, <3>1, NextSourceTyped
  <2>2. CASE job' = [job EXCEPT !.pc = "readcheck"]
    <3>1. job' \in JobType /\ Probes!Chain' = Probes!Chain
      BY <1>2, <2>2 DEF JobType, Probes!Chain
    <3>2. job'.pc = "readcheck" /\ job'.source = job.source /\ job'.kind = job.kind /\ job'.family = job.family
          /\ job'.rows = job.rows /\ job'.errs = job.errs /\ job'.passed = job.passed /\ job'.got = job.got
          /\ job'.missing = job.missing
      BY <1>2, <2>2 DEF JobType
    <3>3. QED BY <1>1, <1>2, <3>1, <3>2 DEF JobInv
  <2>3. QED BY <1>1, <2>1, <2>2
<1>4. QED BY <1>1, <1>3, OutKept DEF ProbeInv

LEMMA ReadCheckKeeps == ASSUME ProbeInv, Probes!ReadCheck PROVE ProbeInv'
<1>1. db' = db /\ out' = out /\ changes' = changes /\ job.pc = "readcheck"
      /\ (job' = Probes!NextSource
           \/ job' = [job EXCEPT !.pc = "query", !.query = 1, !.passed = @ \cup {Probes!Source}])
  BY DEF Probes!ReadCheck
<1>2. JobInv /\ job \in JobType /\ job.source <= Len(Probes!Chain)
  BY <1>1 DEF ProbeInv, JobInv
<1>3. JobInv'
  <2>1. CASE job' = Probes!NextSource
    <3>1. Probes!NextSource = [Probes!NextSource EXCEPT !.errs = job.errs] /\ job.errs = job.passed
      BY <1>1, <1>2 DEF Probes!NextSource, JobInv, JobType
    <3>2. QED BY <1>1, <1>2, <2>1, <3>1, NextSourceTyped
  <2>2. CASE job' = [job EXCEPT !.pc = "query", !.query = 1, !.passed = @ \cup {Probes!Source}]
    <3>1. Probes!Source \in Candidates /\ job.kind \in SnapshotKinds
      BY <1>1, <1>2, ChainTyped
    <3>7. job.passed \cup {Probes!Source} \in SUBSET Candidates /\ 1 \in 0..4
      BY <1>2, <3>1 DEF JobType
    <3> DEFINE p == job.passed \cup {Probes!Source}
    <3>8. job' = [job EXCEPT !.pc = "query", !.query = 1, !.passed = p] /\ p \in SUBSET Candidates
      BY <1>2, <2>2, <3>7 DEF JobType
    <3> HIDE DEF p
    <3>9. job' \in JobType
      BY <1>2, <3>7, <3>8 DEF JobType
    <3> USE DEF p
    <3>3. job'.pc = "query" /\ job'.source = job.source /\ job'.kind = job.kind /\ job'.family = job.family
          /\ job'.rows = job.rows /\ job'.errs = job.errs /\ job'.passed = job.passed \cup {Probes!Source} /\ job'.got = job.got
          /\ job'.missing = job.missing /\ job'.query = 1
      BY <1>2, <2>2 DEF JobType
    <3>2. job' \in JobType /\ Probes!Chain' = Probes!Chain /\ Probes!Source' = Probes!Source
      BY <3>3, <3>9 DEF Probes!Chain, Probes!Source
    <3>10. job.rows = <<>> /\ job.passed = job.errs
      BY <1>1, <1>2 DEF JobInv
    <3>4. job.rows = <<>> /\ Len(job.rows) = 0
      BY <3>10
    <3>5. 1 \in 1..Len(Probes!Queries(job.kind))
      <4>1. Len(Probes!Queries(job.kind)) \in {1, 3}
        BY <3>1, ChainFacts
      <4>2. QED BY <4>1
    <3>6. QED BY <1>1, <1>2, <3>2, <3>3, <3>4, <3>5, <3>10 DEF JobInv
  <2>3. QED BY <1>1, <2>1, <2>2
<1>4. QED BY <1>1, <1>3, OutKept DEF ProbeInv

LEMMA QueryFailsKeeps == ASSUME ProbeInv, Probes!QueryFails PROVE ProbeInv'
<1>1. db' = db /\ out' = out /\ changes' = changes /\ job.pc = "query"
      /\ job' = [Probes!NextSource EXCEPT !.errs = @ \cup {Probes!Source}]
  BY DEF Probes!QueryFails
<1>2. JobInv /\ job \in JobType /\ job.source <= Len(Probes!Chain) /\ job.passed = job.errs \cup {Probes!Source}
  BY <1>1 DEF ProbeInv, JobInv
<1>3. Probes!NextSource.errs = job.errs
  BY <1>2 DEF Probes!NextSource, JobType
<1>4. job' = [Probes!NextSource EXCEPT !.errs = job.errs \cup {Probes!Source}]
  BY <1>1, <1>3
<1>5. JobInv'
  BY <1>1, <1>2, <1>4, NextSourceTyped
<1>6. QED BY <1>1, <1>5, OutKept DEF ProbeInv

LEMMA RunQueryKeeps == ASSUME Probes!ProbeAssumption, ProbeInv, Probes!RunQuery PROVE ProbeInv'
<1> DEFINE q == job.query
           n == Len(Probes!Queries(job.kind))
<1>1. PICK answer \in Probes!QueryRows(Probes!Queries(job.kind)[job.query]) :
        job' = [job EXCEPT !.rows = Append(@, answer), !.query = @ + 1, !.pc = IF job.query = n THEN "fill" ELSE @]
  BY DEF Probes!RunQuery
<1>2. db' = db /\ out' = out /\ changes' = changes /\ job.pc = "query"
  BY DEF Probes!RunQuery
<1>3. /\ JobInv /\ job \in JobType /\ job.source <= Len(Probes!Chain) /\ Probes!Source \in job.passed
      /\ job.kind \in SnapshotKinds /\ job.family = "postgres" /\ q \in 1..n /\ Len(job.rows) + 1 = q
  BY <1>2 DEF ProbeInv, JobInv
<1>4. answer \in AnswerOf(job.kind, q)
  BY <1>1, <1>3, AnswersTyped DEF ProbeInv
<1>5. answer \in Seq(TableRow) \cup Seq(Nat)
  BY <1>4 DEF AnswerOf
<1> DEFINE r == Append(job.rows, answer)
<1>6. job.rows \in RowLists /\ r \in RowLists /\ Len(r) = Len(job.rows) + 1 /\ DOMAIN r = 1..q
      /\ DOMAIN job.rows = 1..(q - 1) /\ r[q] = answer /\ \A i \in 1..(q - 1) : r[i] = job.rows[i]
  <2> DEFINE s == job.rows
             S == Seq(TableRow) \cup Seq(Nat)
  <2>1. s \in Seq(S) /\ answer \in S
    BY <1>3, <1>5 DEF JobType, RowLists
  <2> HIDE DEF S, s
  <2>2. Append(s, answer) \in Seq(S) /\ Len(Append(s, answer)) = Len(s) + 1 /\ Len(s) \in Nat
        /\ Append(s, answer)[Len(s) + 1] = answer /\ \A i \in 1..Len(s) : Append(s, answer)[i] = s[i]
    BY <2>1, AppendProperties
  <2>3. Len(s) = q - 1 /\ q \in Nat
    BY <1>3, <2>2 DEF s
  <2>4. DOMAIN s = 1..(q - 1) /\ DOMAIN Append(s, answer) = 1..q
    BY <2>1, <2>2, <2>3
  <2>5. QED BY <2>1, <2>2, <2>3, <2>4 DEF s, S, RowLists
<1> HIDE DEF r
<1>7. q \in Nat /\ n \in {1, 3} /\ q + 1 \in 0..4
  BY <1>3, ChainFacts
<1>8. job'.pc = (IF q = n THEN "fill" ELSE "query") /\ job'.source = job.source /\ job'.kind = job.kind
      /\ job'.family = job.family /\ job'.rows = r /\ job'.errs = job.errs /\ job'.passed = job.passed /\ job'.got = job.got
      /\ job'.missing = job.missing /\ job'.query = q + 1
  BY <1>1, <1>2, <1>3 DEF JobType, r
<1>9. job' = [job EXCEPT !.rows = r, !.query = q + 1, !.pc = IF q = n THEN "fill" ELSE "query"]
  BY <1>1, <1>2, <1>3 DEF JobType, r
<1>10. job' \in JobType
  BY <1>3, <1>6, <1>7, <1>9 DEF JobType
<1>11. Probes!Chain' = Probes!Chain /\ Probes!Source' = Probes!Source
  BY <1>8 DEF Probes!Chain, Probes!Source
<1>12. \A i \in DOMAIN r : r[i] \in AnswerOf(job.kind, i)
  <2>1. \A i \in 1..(q - 1) : r[i] \in AnswerOf(job.kind, i)
    BY <1>3, <1>6 DEF JobInv
  <2>2. QED BY <1>4, <1>6, <1>7, <2>1
<1>13. q # n => q + 1 \in 1..n
  BY <1>3, <1>7
<1>14. JobInv'
  <2>1. job'.errs \subseteq job'.passed /\ job'.got \cap job'.missing = {}
        /\ \A i \in DOMAIN job'.rows : job'.rows[i] \in AnswerOf(job'.kind, i)
    BY <1>3, <1>8, <1>12 DEF JobInv
  <2>2. job'.family = "postgres" /\ job'.kind \in SnapshotKinds /\ job'.source \in 1..(Len(Probes!Chain') + 1)
        /\ job'.source <= Len(Probes!Chain')
    BY <1>2, <1>3, <1>8, <1>11 DEF JobInv
  <2>3. Probes!Source' \in job'.passed /\ Len(job'.rows) + 1 = job'.query
    BY <1>3, <1>6, <1>8, <1>11
  <2>4. job'.pc \in {"query", "fill"} /\ (job'.pc = "query" => q # n) /\ (job'.pc = "fill" => q = n)
    BY <1>8
  <2>5. job'.pc = "query" => job'.query \in 1..Len(Probes!Queries(job'.kind))
    BY <1>8, <1>13, <2>4
  <2>8. job'.passed = job'.errs \cup {Probes!Source'}
    BY <1>2, <1>3, <1>8, <1>11 DEF JobInv
  <2>6. job'.pc = "fill" => job'.query = Len(Probes!Queries(job'.kind)) + 1
    BY <1>8, <2>4
  <2> HIDE DEF q, n
  <2>7. QED BY <1>10, <2>1, <2>2, <2>3, <2>4, <2>5, <2>6, <2>8 DEF JobInv
<1>15. QED BY <1>2, <1>14, OutKept DEF ProbeInv

LEMMA FillKeeps == ASSUME Probes!ProbeAssumption, ProbeInv, Probes!Fill PROVE ProbeInv'
<1> DEFINE all == Probes!FillSnapshot(job.kind, job.rows)
           kept == Probes!EnforceSnapshotSize(job.kind, all)
<1>1. db' = db /\ changes' = changes /\ job' = Probes!Idle /\ job.pc = "fill"
  BY DEF Probes!Fill
<1>2. out' = [result |-> "snapshot", via |-> job.via, kind |-> job.kind, source |-> Probes!Source, passed |-> job.passed,
              entries |-> kept, truncated |-> Probes!Truncated(job.kind, job.rows, all)]
  BY DEF Probes!Fill
<1>3. JobInv /\ job \in JobType /\ Probes!Source \in job.passed /\ job.kind \in SnapshotKinds
      /\ Len(job.rows) + 1 = job.query /\ job.query = Len(Probes!Queries(job.kind)) + 1
      /\ \A i \in DOMAIN job.rows : job.rows[i] \in AnswerOf(job.kind, i)
  BY <1>1 DEF ProbeInv, JobInv
<1>4. DOMAIN job.rows = 1..Len(Probes!Queries(job.kind))
  <2>1. job.rows \in RowLists
    BY <1>3 DEF JobType
  <2>2. DOMAIN job.rows = 1..Len(job.rows) /\ Len(job.rows) \in Nat
    BY <2>1 DEF RowLists
  <2>3. Len(Probes!Queries(job.kind)) \in Nat
    BY <1>3, ChainFacts
  <2>4. QED BY <1>3, <2>2, <2>3
<1>5. /\ \E E : all \in Seq(E)
      /\ Len(all) <= Probes!MaxEntries(job.kind)
      /\ job.kind = "schema" => \A i \in DOMAIN all : \A c \in all[i].columns \cup all[i].indexes : c.t = all[i].t
  BY <1>3, <1>4, FilledTyped
<1> HIDE DEF all
<1>6. PICK E : all \in Seq(E)
  BY <1>5
<1>7. PICK n \in 0..Len(all) : kept = SubSeq(all, 1, n) /\ Probes!Size(job.kind, SubSeq(all, 1, n)) <= MaxBytes
  BY <1>6, SnapshotFits
<1> HIDE DEF kept
<1>8. Len(kept) = n /\ n <= Len(all) /\ Len(all) \in Nat /\ \A i \in 1..n : kept[i] = all[i]
      /\ DOMAIN kept = 1..n /\ DOMAIN all = 1..Len(all)
  BY <1>6, <1>7
<1>9. Len(kept) <= Probes!MaxEntries(job.kind)
  BY <1>5, <1>8 DEF Probes!ProbeAssumption, Probes!MaxEntries
<1>10. job.kind = "schema" => \A i \in DOMAIN kept : \A c \in kept[i].columns \cup kept[i].indexes : c.t = kept[i].t
  <2>1. \A i \in DOMAIN kept : i \in DOMAIN all /\ kept[i] = all[i]
    BY <1>8
  <2>2. QED BY <1>5, <2>1
<1>11. Probes!Size(job.kind, kept) <= MaxBytes
  BY <1>7
<1>12. out'.result = "snapshot" /\ out'.source = Probes!Source /\ out'.passed = job.passed /\ out'.entries = kept
       /\ out'.kind = job.kind
  BY <1>2
<1>13. Probes!CollectionIsSound' /\ out'.result \in Results
  BY <1>3, <1>9, <1>10, <1>11, <1>12 DEF Probes!CollectionIsSound, Probes!MaxEntries, Results
<1>14. QED BY <1>1, <1>13, IdleTyped DEF ProbeInv

LEMMA ExhaustedKeeps == ASSUME ProbeInv, Probes!Exhausted PROVE ProbeInv'
<1>1. db' = db /\ changes' = changes /\ job' = Probes!Idle /\ job.pc = "probe"
  BY DEF Probes!Exhausted
<1>2. out' = IF job.errs # {} THEN [result |-> "failed", via |-> job.via, passed |-> job.passed]
             ELSE [result |-> "capability_missing", via |-> job.via, kind |-> job.kind, passed |-> job.passed]
  BY DEF Probes!Exhausted
<1>3. Probes!CollectionIsSound' /\ out'.result \in Results
  BY <1>1, <1>2 DEF ProbeInv, JobInv, Probes!CollectionIsSound, Results
<1>4. QED BY <1>1, <1>3, IdleTyped DEF ProbeInv

LEMMA EntryKeeps == ASSUME ProbeInv, NEW e \in Probes!Entries, Probes!CollectEntry(e) PROVE ProbeInv'
<1>1. db' = db /\ out' = out /\ changes' = changes /\ job.pc = "entry" /\ e \notin job.got \cup job.missing
      /\ (job' = [job EXCEPT !.got = @ \cup {e}] \/ job' = [job EXCEPT !.missing = @ \cup {e}])
  BY DEF Probes!CollectEntry
<1>2. JobInv /\ job \in JobType
  BY DEF ProbeInv, JobInv
<1>3. job.got \cup {e} \in SUBSET Probes!Entries /\ job.missing \cup {e} \in SUBSET Probes!Entries
  BY <1>2 DEF JobType
<1>4. job' \in JobType
  <2> DEFINE g == job.got \cup {e}
             m == job.missing \cup {e}
  <2>1. job' = [job EXCEPT !.got = g] \/ job' = [job EXCEPT !.missing = m]
    BY <1>1, <1>2 DEF JobType
  <2>2. g \in SUBSET Probes!Entries /\ m \in SUBSET Probes!Entries
    BY <1>3
  <2> HIDE DEF g, m
  <2>3. QED BY <1>2, <2>1, <2>2 DEF JobType
<1>5. job'.pc = "entry" /\ job'.source = job.source /\ job'.kind = job.kind /\ job'.family = job.family
      /\ job'.rows = job.rows /\ job'.errs = job.errs /\ job'.passed = job.passed /\ job'.query = job.query
      /\ job'.got \cap job'.missing = {}
  BY <1>1, <1>2 DEF JobType, JobInv
<1>6. JobInv'
  BY <1>2, <1>4, <1>5 DEF JobInv
<1>7. QED BY <1>1, <1>6, OutKept DEF ProbeInv

LEMMA BatchKeeps == ASSUME ProbeInv, Probes!FinishBatch PROVE ProbeInv'
<1>1. db' = db /\ changes' = changes /\ job' = Probes!Idle /\ job.got \cup job.missing = Probes!Entries
  BY DEF Probes!FinishBatch, Probes!BatchComplete
<1>2. out' = IF job.got = {} THEN [result |-> "failed", via |-> job.via]
             ELSE [result |-> "batch", via |-> job.via, metrics |-> job.got,
                   missing |-> job.missing, partial |-> job.missing # {}]
  BY DEF Probes!FinishBatch
<1>3. job.got \cap job.missing = {}
  BY DEF ProbeInv, JobInv
<1>4. Probes!CollectionIsSound' /\ out'.result \in Results
  <2>1. CASE job.got = {}
    BY <1>2, <2>1, OutShort
  <2>2. CASE job.got # {}
    <3>1. out'.result = "batch" /\ out'.metrics = job.got /\ out'.missing = job.missing /\ out'.partial = (job.missing # {})
      BY <1>2, <2>2, Zenon
    <3>2. job.got = Probes!Entries \ job.missing
      BY <1>1, <1>3
    <3>3. QED BY <3>1, <3>2 DEF Probes!CollectionIsSound, Results
  <2>3. QED BY <2>1, <2>2
<1>5. QED BY <1>1, <1>4, IdleTyped DEF ProbeInv

LEMMA UploadFailsKeeps == ASSUME ProbeInv, Probes!UploadFails PROVE ProbeInv'
<1>1. db' = db /\ changes' = changes /\ job' = Probes!Idle /\ out' = [result |-> "failed", via |-> job.via]
  BY DEF Probes!UploadFails
<1>2. Probes!CollectionIsSound' /\ out'.result \in Results
  BY <1>1, OutShort
<1>3. QED BY <1>1, <1>2, IdleTyped DEF ProbeInv

LEMMA ChangeKeeps == ASSUME Probes!ProbeAssumption, ProbeInv, Probes!Change PROVE ProbeInv'
<1>1. job' = job /\ out' = out /\ changes < MaxChanges /\ changes' = changes + 1 /\ db' \in Probes!Databases
  BY DEF Probes!Change
<1>2. changes' \in 0..MaxChanges
  BY <1>1 DEF ProbeInv, Probes!ProbeAssumption
<1>3. JobInv'
  BY <1>1 DEF ProbeInv, JobInv, Probes!Chain, Probes!Source
<1>4. QED BY <1>1, <1>2, <1>3, OutKept DEF ProbeInv

LEMMA NextProbe == ASSUME Probes!ProbeAssumption, ProbeInv, [Probes!Next]_(Probes!vars) PROVE ProbeInv'
<1>1. CASE Probes!Next
  <2>1. CASE Probes!Change
    BY <2>1, ChangeKeeps
  <2>2. CASE \E kind \in Probes!CommandKinds \cup {None}, family \in {"postgres", "other"}, ok \in BOOLEAN :
               Probes!Collect("connector", kind, family, ok)
    BY <2>2, CollectKeeps
  <2>3. CASE \E kind \in Probes!CommandKinds, family \in {"postgres", "other"} :
               Probes!Collect("direct", kind, family, TRUE)
    BY <2>3, CollectKeeps
  <2>4. CASE Probes!ProbeSource
    BY <2>4, ProbeKeeps
  <2>5. CASE Probes!ReadCheck
    BY <2>5, ReadCheckKeeps
  <2>6. CASE Probes!QueryFails
    BY <2>6, QueryFailsKeeps
  <2>7. CASE Probes!RunQuery
    BY <2>7, RunQueryKeeps
  <2>8. CASE Probes!Fill
    BY <2>8, FillKeeps
  <2>9. CASE Probes!Exhausted
    BY <2>9, ExhaustedKeeps
  <2>10. CASE \E e \in Probes!Entries : Probes!CollectEntry(e)
    BY <2>10, EntryKeeps
  <2>11. CASE Probes!FinishBatch
    BY <2>11, BatchKeeps
  <2>12. CASE Probes!UploadFails
    BY <2>12, UploadFailsKeeps
  <2>13. QED
    BY <1>1, <2>12, <2>1, <2>2, <2>3, <2>4, <2>5, <2>6, <2>7, <2>8, <2>9, <2>10, <2>11 DEF Probes!Next
<1>2. CASE UNCHANGED Probes!vars
  <2>1. db' = db /\ job' = job /\ out' = out /\ changes' = changes
    BY <1>2 DEF Probes!vars
  <2>2. JobInv'
    BY <2>1 DEF ProbeInv, JobInv, Probes!Chain, Probes!Source
  <2>3. QED BY <2>1, <2>2, OutKept DEF ProbeInv
<1>3. QED BY <1>1, <1>2

\* TypeOK of the probe.
LEMMA ProbeTypes == ASSUME ProbeInv PROVE Probes!TypeOK
<1>1. job \in JobType /\ job.errs \subseteq job.passed
  BY DEF ProbeInv, JobInv
<1>2. job.pc \in {"idle", "probe", "readcheck", "query", "fill", "entry"} /\ job.source \in 0..3 /\ job.query \in 0..4
  BY <1>1 DEF JobType
<1>3. QED BY <1>1, <1>2 DEF ProbeInv, Probes!TypeOK, Results

\* CollectionIsSound: whatever the database does between two queries, a collection says
\* that the capability is missing only if no candidate ever passed its test; a snapshot
\* is of one that did, has every table's own columns and indexes, is no longer than its kind allows and fits; a batch names
\* what is missing of it.
THEOREM CollectionCorrect ==
  ASSUME Probes!ProbeAssumption PROVE Probes!Spec => [](Probes!TypeOK /\ Probes!CollectionIsSound)
<1>1. Probes!Spec => []ProbeInv
  BY InitProbe, NextProbe, PTL DEF Probes!Spec
<1>2. ProbeInv => Probes!TypeOK /\ Probes!CollectionIsSound
  BY ProbeTypes DEF ProbeInv
<1>3. QED BY <1>1, <1>2, PTL
=============================================================================
