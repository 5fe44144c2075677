--------------------------- MODULE ComponentsProofs ---------------------------
(***************************************************************************)
(* The theorems about the components that keep tables of their own, taken  *)
(* over for the small instances that MCComponents runs side by side: a     *)
(* step of the whole is a step of the component in focus, and leaves the   *)
(* variables of the component alone otherwise.                             *)
(***************************************************************************)
EXTENDS MCComponents, Sequences, TLAPS

IdP == INSTANCE ConnectorIdentityProofs WITH
  conn <- v1, run <- v2, disk <- v3, admitted <- v4, db <- v1, job <- v2, out <- v3, changes <- v4,
  Tables <- <<[schema |-> 1, name |-> 1, width |-> 2], [schema |-> 2, name |-> 1, width |-> 1],
              [schema |-> 2, name |-> 2, width |-> 1]>>,
  Layouts <- {<<>>, <<1, 2>>, <<2, 3, 1>>}, Workloads <- {{}, {1, 2, 3}}, Settings <- {<<1, 1, 2, 1, 1>>},
  TopN <- 2, TextMax <- 2, ColumnRows <- 2, ConfigRows <- 4, MaxBytes <- 4, MaxChanges <- 2

\* What is in focus stays in focus, and while it is nothing else happens.
LEMMA FocusStays ==
  [Next]_vars => /\ focus' = focus
                 /\ focus = "id" => [Id!Next]_(Id!idVars)
                 /\ focus = "res" => [Res!Next]_(Res!resVars)
                 /\ focus = "list" => [List!Next]_(List!resVars)
                 /\ focus = "data" => [Data!Next]_(Data!dataVars)
                 /\ focus = "range" => [Range!Next]_(Range!dataVars)
                 /\ focus = "meter" => [Meter!Next]_(Meter!meterVars)
                 /\ focus = "retry" => [Retry!Next]_(Retry!meterVars)
                 /\ focus = "coll" => [Coll!Next]_(Coll!collVars)
                 /\ focus = "races" => [Races!Next]_(Races!storeVars)
                 /\ focus = "lists" => [Lists!Next]_(Lists!storeVars)
                 /\ focus = "items" => [Items!Next]_(Items!storeVars)
                 /\ focus = "probe" => [Probes!Next]_(Probes!vars)
BY DEF Next, vars, Id!idVars, Res!resVars, Res!tables, List!resVars, List!tables, Data!dataVars, Range!dataVars,
   Meter!meterVars, Retry!meterVars, Coll!collVars, Races!storeVars, Lists!storeVars, Items!storeVars, Probes!vars, IdStep, ResStep,
   ListStep, DataStep, RangeStep, MeterStep, RetryStep, CollStep, RacesStep, ListsStep, ItemsStep, ProbeStep

\* What is in focus has been set up.
LEMMA FocusBegins ==
  Init => /\ focus = "id" => Id!Init
          /\ focus = "res" => Res!Init
          /\ focus = "list" => List!Init
          /\ focus = "data" => Data!Init
          /\ focus = "range" => Range!Init
          /\ focus = "meter" => Meter!Init
          /\ focus = "retry" => Retry!Init
          /\ focus = "coll" => Coll!Init
          /\ focus = "races" => Races!Init
          /\ focus = "lists" => Lists!Init
          /\ focus = "items" => Items!Init
          /\ focus = "probe" => Probes!Init
BY DEF Init

-----------------------------------------------------------------------------
(* Enrollment.                                                              *)

\* The two instances of the enrollment module say the same.
LEMMA IdSame ==
  /\ Id!Init <=> IdP!Init
  /\ [Id!Next]_(Id!idVars) <=> [IdP!Next]_(IdP!idVars)
  /\ Id!TypeOK <=> IdP!TypeOK
  /\ Id!OneMachinePerConnector <=> IdP!OneMachinePerConnector
  /\ Id!EnrollOkIsUsable <=> IdP!EnrollOkIsUsable
  /\ Id!StaysRevoked <=> IdP!StaysRevoked
  /\ Id!IdentityAssumption <=> IdP!IdentityAssumption
<1>1. Id!Init <=> IdP!Init
  BY DEF Id!Init, IdP!Init, Id!Files, IdP!Files
<1>2. Id!Next <=> IdP!Next
  BY DEF Id!Next, IdP!Next, Id!CreateConnector, IdP!CreateConnector, Id!TokenExpires, IdP!TokenExpires,
     Id!RevokeConnector, IdP!RevokeConnector, Id!ReportStatus, IdP!ReportStatus, Id!GetEnrollmentRecord,
     IdP!GetEnrollmentRecord, Id!CompleteEnrollment, IdP!CompleteEnrollment, Id!Enroll, IdP!Enroll,
     Id!StartEnroll, IdP!StartEnroll, Id!Truncate, IdP!Truncate, Id!AfterWrite, IdP!AfterWrite, Id!Fill,
     IdP!Fill, Id!EnrollFails, IdP!EnrollFails, Id!Enrolled, IdP!Enrolled, Id!MTLSCreds, IdP!MTLSCreds,
     Id!Handshake, IdP!Handshake, Id!OpenSession, IdP!OpenSession, Id!CloseSession, IdP!CloseSession,
     Id!Live, IdP!Live, Id!Files, IdP!Files, Id!WriteOrder, IdP!WriteOrder, Id!Torn, IdP!Torn
<1>3. Id!TypeOK <=> IdP!TypeOK
  BY DEF Id!TypeOK, IdP!TypeOK, Id!Live, IdP!Live, Id!Files, IdP!Files, Id!Torn, IdP!Torn
<1>4. Id!EnrollOkIsUsable <=> IdP!EnrollOkIsUsable
  <2>1. ASSUME NEW m
        PROVE  /\ Id!Enrolled(m) <=> IdP!Enrolled(m)
               /\ Id!MTLSCreds(m) <=> IdP!MTLSCreds(m)
               /\ Id!Handshake(m) <=> IdP!Handshake(m)
    BY DEF Id!Enrolled, IdP!Enrolled, Id!MTLSCreds, IdP!MTLSCreds, Id!Handshake, IdP!Handshake, Id!Live, IdP!Live
  <2>2. ASSUME NEW a \in Runs
        PROVE  /\ Id!Enrolled(v2[a].m) <=> IdP!Enrolled(v2[a].m)
               /\ Id!MTLSCreds(v2[a].m) <=> IdP!MTLSCreds(v2[a].m)
               /\ Id!Handshake(v2[a].m) <=> IdP!Handshake(v2[a].m)
    BY <2>1
  <2>3. QED
    BY <2>2, Zenon DEF Id!EnrollOkIsUsable, IdP!EnrollOkIsUsable
<1>5. Id!OneMachinePerConnector <=> IdP!OneMachinePerConnector
  BY DEF Id!OneMachinePerConnector, IdP!OneMachinePerConnector, Id!Cardinality, IdP!Cardinality, Id!IsFiniteSet, IdP!IsFiniteSet
<1>6. QED
  BY <1>1, <1>2, <1>3, <1>4, <1>5 DEF Id!idVars, IdP!idVars, Id!StaysRevoked, IdP!StaysRevoked,
     Id!IdentityAssumption, IdP!IdentityAssumption, Id!Torn, IdP!Torn

IdInv == focus = "id" => IdP!Typed /\ IdP!IdentityInv

\* The invariant of the component holds while it is in focus.
LEMMA IdInvariant == Spec => []IdInv
<1>1. Init => IdInv
  BY FocusBegins, IdSame, DistinctValues, IdP!InitTyped, IdP!InitIdentity DEF IdInv
<1>2. IdInv /\ [Next]_vars => IdInv'
  BY FocusStays, IdSame, DistinctValues, IdP!NextTyped, IdP!NextIdentity DEF IdInv
<1>3. QED BY <1>1, <1>2, PTL DEF Spec

\* enroll, handshake: one machine at a time is admitted for a connector.
THEOREM OneMachineHere == Spec => []OneMachinePerConnector
<1>1. IdInv => OneMachinePerConnector
  BY IdSame, IdP!OneMachine DEF IdInv, OneMachinePerConnector
<1>2. QED BY <1>1, IdInvariant, PTL

\* mustEnroll: "enroll ok" means that the machine can be admitted.
THEOREM EnrollOkHere == Spec => []EnrollOkIsUsable
<1>1. IdInv => EnrollOkIsUsable
  BY IdSame, DistinctValues, IdP!EnrolledIsUsable DEF IdInv, EnrollOkIsUsable
<1>2. QED BY <1>1, IdInvariant, PTL

-----------------------------------------------------------------------------
(* Resources.                                                               *)

ResP == INSTANCE ConsoleResourcesProofs WITH
  ds <- v1, creds <- v2, owners <- v3, alias <- v4, idem <- v5, req <- v6, clock <- v7, walk <- v8,
  Reqs <- 1..6, OldDs <- 1, OldGroup <- 2, OldAgent <- 3, Walks <- FALSE, Keys <- {k1}, Names <- {n1},
  Ops <- {"datasource", "group", "agent", "alias", "patch", "rotate", "delete", "unalias", "bind"},
  Kinds <- {"group", "agent"}, Limit <- 1
ListP == INSTANCE ConsoleResourcesProofs WITH
  ds <- v1, creds <- v2, owners <- v3, alias <- v4, idem <- v5, req <- v6, clock <- v7, walk <- v8,
  Reqs <- 1..6, OldDs <- 1, OldGroup <- 2, OldAgent <- 3, Walks <- TRUE, Keys <- {}, Names <- {n1, n2},
  Ops <- {"datasource", "delete"}, Kinds <- {"group", "agent"}, Limit <- 1

\* The two instances say the same.
LEMMA ResSame ==
  /\ Res!Init <=> ResP!Init
  /\ [Res!Next]_(Res!resVars) <=> [ResP!Next]_(ResP!resVars)
  /\ Res!ResourcesAssumption <=> ResP!ResourcesAssumption
  /\ Res!CredentialsOwned <=> ResP!CredentialsOwned
  /\ Res!OneCreationPerKey <=> ResP!OneCreationPerKey
  /\ Res!NoDanglingRefs <=> ResP!NoDanglingRefs
  /\ Res!TypeOK <=> ResP!TypeOK
<1>1. Res!Init <=> ResP!Init
  BY DEF Res!Init, ResP!Init, Res!Idle, ResP!Idle, Res!Old, ResP!Old,
     Res!NoBindings, ResP!NoBindings
<1>2. ASSUME NEW r
      PROVE  /\ Res!StartDatasource(r) <=> ResP!StartDatasource(r)
             /\ Res!StartOwner(r) <=> ResP!StartOwner(r)
             /\ Res!StartAlias(r) <=> ResP!StartAlias(r)
             /\ Res!StartPatch(r) <=> ResP!StartPatch(r)
             /\ Res!StartRotate(r) <=> ResP!StartRotate(r)
             /\ Res!StartDelete(r) <=> ResP!StartDelete(r)
             /\ Res!StartUnalias(r) <=> ResP!StartUnalias(r)
  BY DEF Res!StartDatasource, ResP!StartDatasource, Res!StartOwner, ResP!StartOwner, Res!StartAlias,
     ResP!StartAlias, Res!StartPatch, ResP!StartPatch, Res!StartRotate, ResP!StartRotate, Res!StartDelete,
     ResP!StartDelete, Res!StartUnalias, ResP!StartUnalias, Res!Starting, ResP!Starting, Res!Request,
     ResP!Request, Res!Begin, ResP!Begin, Res!Idle, ResP!Idle, Res!tables, ResP!tables, Res!Live, ResP!Live,
     Res!NoBindings, ResP!NoBindings, Res!Bindings, ResP!Bindings, Res!Modes, ResP!Modes
<1>3. ASSUME NEW r
      PROVE  /\ Res!GetIdempotencyRecord(r) <=> ResP!GetIdempotencyRecord(r)
             /\ Res!Rollback(r) <=> ResP!Rollback(r)
             /\ Res!UpdateDatasource(r) <=> ResP!UpdateDatasource(r)
             /\ Res!PutCredential(r) <=> ResP!PutCredential(r)
             /\ Res!ReadBindings(r) <=> ResP!ReadBindings(r)
             /\ Res!DeleteAlias(r) <=> ResP!DeleteAlias(r)
             /\ \A k : Res!CountBound(r, k) <=> ResP!CountBound(r, k)
  BY DEF Res!GetIdempotencyRecord, ResP!GetIdempotencyRecord, Res!Rollback, ResP!Rollback,
     Res!UpdateDatasource, ResP!UpdateDatasource, Res!PutCredential, ResP!PutCredential, Res!ReadBindings,
     ResP!ReadBindings, Res!DeleteAlias, ResP!DeleteAlias, Res!CountBound, ResP!CountBound, Res!Creates,
     ResP!Creates, Res!Writing, ResP!Writing, Res!Bind, ResP!Bind, Res!Answer, ResP!Answer, Res!Refuse,
     ResP!Refuse, Res!Read, ResP!Read, Res!Idle, ResP!Idle, Res!tables, ResP!tables, Res!Live, ResP!Live,
     Res!NoBindings, ResP!NoBindings, Res!Body, ResP!Body, Res!Owner, ResP!Owner
<1>4. ASSUME NEW r
      PROVE  /\ Res!InsertDatasource(r) <=> ResP!InsertDatasource(r)
             /\ Res!InsertGroup(r) <=> ResP!InsertGroup(r)
             /\ Res!InsertAgent(r) <=> ResP!InsertAgent(r)
             /\ Res!InsertAlias(r) <=> ResP!InsertAlias(r)
             /\ Res!RotateDatasourceCredential(r) <=> ResP!RotateDatasourceCredential(r)
             /\ Res!DeleteDatasource(r) <=> ResP!DeleteDatasource(r)
             /\ Res!DeleteGroup(r) <=> ResP!DeleteGroup(r)
             /\ Res!DeleteAgent(r) <=> ResP!DeleteAgent(r)
  BY DEF Res!InsertDatasource, ResP!InsertDatasource, Res!InsertGroup, ResP!InsertGroup, Res!InsertAgent,
     ResP!InsertAgent, Res!InsertAlias, ResP!InsertAlias, Res!RotateDatasourceCredential,
     ResP!RotateDatasourceCredential, Res!DeleteDatasource, ResP!DeleteDatasource, Res!DeleteGroup,
     ResP!DeleteGroup, Res!DeleteAgent, ResP!DeleteAgent, Res!PutIdempotencyRecord,
     ResP!PutIdempotencyRecord, Res!Created, ResP!Created, Res!InsertCredential, ResP!InsertCredential,
     Res!DropCredential, ResP!DropCredential, Res!Unbound, ResP!Unbound, Res!Writing, ResP!Writing,
     Res!Answer, ResP!Answer, Res!Idle, ResP!Idle, Res!Live, ResP!Live,
     Res!NoBindings, ResP!NoBindings, Res!Body, ResP!Body, Res!Owner, ResP!Owner
<1>5. Res!StartWalk <=> ResP!StartWalk
  BY DEF Res!StartWalk, ResP!StartWalk, Res!tables, ResP!tables, Res!Live, ResP!Live
<1>6. Res!NextPage <=> ResP!NextPage
  BY DEF Res!NextPage, ResP!NextPage, Res!tables, ResP!tables, Res!Live, ResP!Live, Res!After, ResP!After,
     Res!Oldest, ResP!Oldest, Res!Cursor, ResP!Cursor, Res!Cardinality, ResP!Cardinality
<1>7. Res!Next <=> ResP!Next
  BY <1>2, <1>3, <1>4, <1>5, <1>6 DEF Res!Next, ResP!Next
<1>8. Res!ResourcesAssumption <=> ResP!ResourcesAssumption
  BY DEF Res!ResourcesAssumption, ResP!ResourcesAssumption, Res!Row, ResP!Row, Res!Record, ResP!Record,
     Res!Creates, ResP!Creates, Res!Old, ResP!Old,
     Res!Bindings, ResP!Bindings, Res!Modes, ResP!Modes, Res!Bodies, ResP!Bodies
<1>9. /\ Res!CredentialsOwned <=> ResP!CredentialsOwned
      /\ Res!OneCreationPerKey <=> ResP!OneCreationPerKey
      /\ Res!NoDanglingRefs <=> ResP!NoDanglingRefs
  BY DEF Res!CredentialsOwned, ResP!CredentialsOwned, Res!OneCreationPerKey, ResP!OneCreationPerKey,
     Res!NoDanglingRefs, ResP!NoDanglingRefs, Res!Live, ResP!Live
<1>10. Res!TypeOK <=> ResP!TypeOK
  BY Zenon DEF Res!TypeOK, ResP!TypeOK, Res!Row, ResP!Row, Res!Record, ResP!Record, Res!Creates, ResP!Creates,
     Res!Bindings, ResP!Bindings, Res!Modes, ResP!Modes, Res!Bodies, ResP!Bodies
<1>11. QED
  BY <1>1, <1>7, <1>8, <1>9, <1>10 DEF Res!resVars, ResP!resVars, Res!tables, ResP!tables

\* The two instances say the same.
LEMMA ListSame ==
  /\ List!Init <=> ListP!Init
  /\ [List!Next]_(List!resVars) <=> [ListP!Next]_(ListP!resVars)
  /\ List!ResourcesAssumption <=> ListP!ResourcesAssumption
  /\ List!CredentialsOwned <=> ListP!CredentialsOwned
  /\ List!OneCreationPerKey <=> ListP!OneCreationPerKey
  /\ List!NoDanglingRefs <=> ListP!NoDanglingRefs
  /\ List!PageWalkExact <=> ListP!PageWalkExact
  /\ List!TypeOK <=> ListP!TypeOK
<1>1. List!Init <=> ListP!Init
  BY DEF List!Init, ListP!Init, List!Idle, ListP!Idle, List!Old, ListP!Old,
     List!NoBindings, ListP!NoBindings
<1>2. ASSUME NEW r
      PROVE  /\ List!StartDatasource(r) <=> ListP!StartDatasource(r)
             /\ List!StartOwner(r) <=> ListP!StartOwner(r)
             /\ List!StartAlias(r) <=> ListP!StartAlias(r)
             /\ List!StartPatch(r) <=> ListP!StartPatch(r)
             /\ List!StartRotate(r) <=> ListP!StartRotate(r)
             /\ List!StartDelete(r) <=> ListP!StartDelete(r)
             /\ List!StartUnalias(r) <=> ListP!StartUnalias(r)
  BY DEF List!StartDatasource, ListP!StartDatasource, List!StartOwner, ListP!StartOwner, List!StartAlias,
     ListP!StartAlias, List!StartPatch, ListP!StartPatch, List!StartRotate, ListP!StartRotate,
     List!StartDelete, ListP!StartDelete, List!StartUnalias, ListP!StartUnalias, List!Starting,
     ListP!Starting, List!Request, ListP!Request, List!Begin, ListP!Begin, List!Idle, ListP!Idle,
     List!tables, ListP!tables, List!Live, ListP!Live,
     List!NoBindings, ListP!NoBindings, List!Bindings, ListP!Bindings, List!Modes, ListP!Modes
<1>3. ASSUME NEW r
      PROVE  /\ List!GetIdempotencyRecord(r) <=> ListP!GetIdempotencyRecord(r)
             /\ List!Rollback(r) <=> ListP!Rollback(r)
             /\ List!UpdateDatasource(r) <=> ListP!UpdateDatasource(r)
             /\ List!PutCredential(r) <=> ListP!PutCredential(r)
             /\ List!ReadBindings(r) <=> ListP!ReadBindings(r)
             /\ List!DeleteAlias(r) <=> ListP!DeleteAlias(r)
             /\ \A k : List!CountBound(r, k) <=> ListP!CountBound(r, k)
  BY DEF List!GetIdempotencyRecord, ListP!GetIdempotencyRecord, List!Rollback, ListP!Rollback,
     List!UpdateDatasource, ListP!UpdateDatasource, List!PutCredential, ListP!PutCredential,
     List!ReadBindings, ListP!ReadBindings, List!DeleteAlias, ListP!DeleteAlias, List!CountBound,
     ListP!CountBound, List!Creates, ListP!Creates, List!Writing, ListP!Writing, List!Bind, ListP!Bind,
     List!Answer, ListP!Answer, List!Refuse, ListP!Refuse, List!Read, ListP!Read, List!Idle, ListP!Idle,
     List!tables, ListP!tables, List!Live, ListP!Live,
     List!NoBindings, ListP!NoBindings, List!Body, ListP!Body, List!Owner, ListP!Owner
<1>4. ASSUME NEW r
      PROVE  /\ List!InsertDatasource(r) <=> ListP!InsertDatasource(r)
             /\ List!InsertGroup(r) <=> ListP!InsertGroup(r)
             /\ List!InsertAgent(r) <=> ListP!InsertAgent(r)
             /\ List!InsertAlias(r) <=> ListP!InsertAlias(r)
             /\ List!RotateDatasourceCredential(r) <=> ListP!RotateDatasourceCredential(r)
             /\ List!DeleteDatasource(r) <=> ListP!DeleteDatasource(r)
             /\ List!DeleteGroup(r) <=> ListP!DeleteGroup(r)
             /\ List!DeleteAgent(r) <=> ListP!DeleteAgent(r)
  BY DEF List!InsertDatasource, ListP!InsertDatasource, List!InsertGroup, ListP!InsertGroup,
     List!InsertAgent, ListP!InsertAgent, List!InsertAlias, ListP!InsertAlias,
     List!RotateDatasourceCredential, ListP!RotateDatasourceCredential, List!DeleteDatasource,
     ListP!DeleteDatasource, List!DeleteGroup, ListP!DeleteGroup, List!DeleteAgent, ListP!DeleteAgent,
     List!PutIdempotencyRecord, ListP!PutIdempotencyRecord, List!Created, ListP!Created,
     List!InsertCredential, ListP!InsertCredential, List!DropCredential, ListP!DropCredential, List!Unbound,
     ListP!Unbound, List!Writing, ListP!Writing, List!Answer, ListP!Answer, List!Idle, ListP!Idle,
     List!Live, ListP!Live,
     List!NoBindings, ListP!NoBindings, List!Body, ListP!Body, List!Owner, ListP!Owner
<1>5. List!StartWalk <=> ListP!StartWalk
  BY DEF List!StartWalk, ListP!StartWalk, List!tables, ListP!tables, List!Live, ListP!Live
<1>6. List!NextPage <=> ListP!NextPage
  BY DEF List!NextPage, ListP!NextPage, List!tables, ListP!tables, List!Live, ListP!Live, List!After,
     ListP!After, List!Oldest, ListP!Oldest, List!Cursor, ListP!Cursor, List!Cardinality, ListP!Cardinality
<1>7. List!Next <=> ListP!Next
  BY <1>2, <1>3, <1>4, <1>5, <1>6 DEF List!Next, ListP!Next
<1>8. List!ResourcesAssumption <=> ListP!ResourcesAssumption
  BY DEF List!ResourcesAssumption, ListP!ResourcesAssumption, List!Row, ListP!Row, List!Record,
     ListP!Record, List!Creates, ListP!Creates, List!Old, ListP!Old,
     List!Bindings, ListP!Bindings, List!Modes, ListP!Modes, List!Bodies, ListP!Bodies
<1>9. /\ List!CredentialsOwned <=> ListP!CredentialsOwned
      /\ List!OneCreationPerKey <=> ListP!OneCreationPerKey
      /\ List!NoDanglingRefs <=> ListP!NoDanglingRefs
      /\ List!PageWalkExact <=> ListP!PageWalkExact
  BY DEF List!PageWalkExact, ListP!PageWalkExact, List!CredentialsOwned, ListP!CredentialsOwned, List!OneCreationPerKey, ListP!OneCreationPerKey,
     List!NoDanglingRefs, ListP!NoDanglingRefs, List!Live, ListP!Live
<1>10. List!TypeOK <=> ListP!TypeOK
  BY Zenon DEF List!TypeOK, ListP!TypeOK, List!Row, ListP!Row, List!Record, ListP!Record, List!Creates,
     ListP!Creates,
     List!Bindings, ListP!Bindings, List!Modes, ListP!Modes, List!Bodies, ListP!Bodies
<1>11. QED
  BY <1>1, <1>7, <1>8, <1>9, <1>10 DEF List!resVars, ListP!resVars, List!tables, ListP!tables

ResInv ==
  /\ focus = "res" => ResP!Typed /\ ResP!ResourcesInv
  /\ focus = "list" => ListP!Typed /\ ListP!ResourcesInv

\* The invariant of the component holds while it is in focus.
LEMMA ResInvariant == Spec => []ResInv
<1>1. Init => ResInv
  BY FocusBegins, ResSame, ListSame, DistinctValues, ResP!InitTyped, ResP!InitResources, ListP!InitTyped,
     ListP!InitResources DEF ResInv
<1>2. ResInv /\ [Next]_vars => ResInv'
  <2>1. ASSUME ResInv, [Next]_vars, focus = "res" PROVE ResP!Typed' /\ ResP!ResourcesInv'
    BY <2>1, FocusStays, ResSame, DistinctValues, ResP!NextTyped, ResP!NextResources DEF ResInv
  <2>2. ASSUME ResInv, [Next]_vars, focus = "list" PROVE ListP!Typed' /\ ListP!ResourcesInv'
    BY <2>2, FocusStays, ListSame, DistinctValues, ListP!NextTyped, ListP!NextResources DEF ResInv
  <2>3. QED BY <2>1, <2>2, FocusStays DEF ResInv
<1>3. QED BY <1>1, <1>2, PTL DEF Spec

\* createWithIdempotency: one creation per key.
THEOREM KeysHere == Spec => []OneCreationPerKey
<1>1. ResInv => OneCreationPerKey
  BY ResSame, ResP!OneRecord DEF ResInv, OneCreationPerKey, ResP!ResourcesInv
<1>2. QED BY <1>1, ResInvariant, PTL

\* DeleteDatasource: no secret without its datasource, and none lost.
THEOREM SecretsHere == Spec => []CredentialsOwned
<1>1. ASSUME ResInv, focus = "res" PROVE Res!CredentialsOwned
  BY <1>1, ResSame, DistinctValues, ResP!SecretsOwned DEF ResInv, ResP!ResourcesInv
<1>2. ASSUME ResInv, focus = "list" PROVE List!CredentialsOwned
  BY <1>2, ListSame, DistinctValues, ListP!SecretsOwned DEF ResInv, ListP!ResourcesInv
<1>3. List!CredentialsOwned <=> Res!CredentialsOwned
  BY DEF List!CredentialsOwned, Res!CredentialsOwned, List!Live, Res!Live
<1>4. ResInv => CredentialsOwned
  BY <1>1, <1>2, <1>3 DEF CredentialsOwned
<1>5. QED BY <1>4, ResInvariant, PTL

\* DeleteGroup, UpdateDatasource: nothing refers to a row that is gone.
THEOREM RefsHere == Spec => []NoDanglingRefs
<1>1. ResInv => NoDanglingRefs
  BY ResSame DEF ResInv, NoDanglingRefs, ResP!ResourcesInv
<1>2. QED BY <1>1, ResInvariant, PTL

-----------------------------------------------------------------------------
(* Collected data.                                                          *)

DataP == INSTANCE CollectedDataProofs WITH
  home <- v1, versions <- v2, entity <- v3, lock <- v4, readings <- v5, up <- v6, query <- v7,
  Ups <- 1..3, Contents <- {c1, c2}, Queries <- {q1, q2}, Ages <- {}, Widths <- {1}, Steps <- {5000}
RangeP == INSTANCE CollectedDataProofs WITH
  home <- v1, versions <- v2, entity <- v3, lock <- v4, readings <- v5, up <- v6, query <- v7,
  Ups <- {}, Contents <- {c1, c2}, Queries <- {q1, q2},
  Ages <- {1, 13, 14, 15, 89, 90, 91, 399, 400, 401, 500}, Widths <- {1, 14, 15, 90, 91, 400, 401},
  Steps <- {200, 5000, 5001}

\* The two instances say the same.
LEMMA DataSame ==
  /\ Data!Init <=> DataP!Init
  /\ [Data!Next]_(Data!dataVars) <=> [DataP!Next]_(DataP!dataVars)
  /\ Data!DataAssumption <=> DataP!DataAssumption
  /\ Data!HistoryAlternates <=> DataP!HistoryAlternates
  /\ Data!EntitiesCoverReadings <=> DataP!EntitiesCoverReadings
  /\ Data!PublishedIsCurrent <=> DataP!PublishedIsCurrent
  /\ Data!TypeOK <=> DataP!TypeOK
<1>1. Data!Init <=> DataP!Init
  BY DEF Data!Init, DataP!Init, Data!Idle, DataP!Idle
<1>2. ASSUME NEW u
      PROVE  /\ Data!Collect(u) <=> DataP!Collect(u)
             /\ Data!Check(u) <=> DataP!Check(u)
             /\ Data!Fail(u) <=> DataP!Fail(u)
             /\ Data!ReadCurrent(u) <=> DataP!ReadCurrent(u)
  BY DEF Data!Collect, DataP!Collect, Data!Check, DataP!Check, Data!Fail, DataP!Fail, Data!ReadCurrent,
     DataP!ReadCurrent, Data!Idle, DataP!Idle, Data!Kinds, DataP!Kinds, Data!Orders, DataP!Orders,
     Data!Goto, DataP!Goto, Data!Unlocked, DataP!Unlocked, Data!Final, DataP!Final, Data!Current,
     DataP!Current, Data!IsCurrent, DataP!IsCurrent
<1>3. ASSUME NEW u
      PROVE  /\ Data!Touch(u) <=> DataP!Touch(u)
             /\ Data!Supersede(u) <=> DataP!Supersede(u)
             /\ Data!InsertFirst(u) <=> DataP!InsertFirst(u)
  BY DEF Data!Touch, DataP!Touch, Data!Supersede, DataP!Supersede, Data!InsertFirst, DataP!InsertFirst,
     Data!Locked, DataP!Locked, Data!Hash, DataP!Hash, Data!Version, DataP!Version, Data!Goto, DataP!Goto,
     Data!Current, DataP!Current, Data!IsCurrent, DataP!IsCurrent
<1>4. ASSUME NEW u
      PROVE  /\ Data!Publish(u) <=> DataP!Publish(u)
             /\ Data!BeginSlowlog(u) <=> DataP!BeginSlowlog(u)
             /\ \A i : Data!LockEntity(u, i) <=> DataP!LockEntity(u, i)
             /\ Data!InsertSeries(u) <=> DataP!InsertSeries(u)
  BY DEF Data!Publish, DataP!Publish, Data!BeginSlowlog, DataP!BeginSlowlog, Data!LockEntity,
     DataP!LockEntity, Data!InsertSeries, DataP!InsertSeries, Data!Goto, DataP!Goto, Data!Seen, DataP!Seen,
     Data!Upserted, DataP!Upserted, Data!Unlocked, DataP!Unlocked
<1>5. /\ Data!DeleteDatasource <=> DataP!DeleteDatasource
      /\ Data!SeriesRange <=> DataP!SeriesRange
  BY DEF Data!DeleteDatasource, DataP!DeleteDatasource,
     Data!SeriesRange, DataP!SeriesRange, Data!Accepted, DataP!Accepted, Data!LayerFor, DataP!LayerFor
<1>6. Data!Next <=> DataP!Next
  BY <1>2, <1>3, <1>4, <1>5 DEF Data!Next, DataP!Next
<1>7. Data!TypeOK <=> DataP!TypeOK
  BY Zenon DEF Data!TypeOK, DataP!TypeOK, Data!Versions, DataP!Versions, Data!Entity, DataP!Entity, Data!Final,
     DataP!Final
<1>8. QED
  BY <1>1, <1>6, <1>7 DEF Data!dataVars, DataP!dataVars, Data!DataAssumption, DataP!DataAssumption, Data!Entity,
     DataP!Entity, Data!HistoryAlternates, DataP!HistoryAlternates, Data!EntitiesCoverReadings,
     DataP!EntitiesCoverReadings, Data!PublishedIsCurrent, DataP!PublishedIsCurrent, Data!LatestSnapshot,
     DataP!LatestSnapshot, Data!Current, DataP!Current, Data!IsCurrent, DataP!IsCurrent

\* The two instances say the same.
LEMMA RangeSame ==
  /\ Range!Init <=> RangeP!Init
  /\ [Range!Next]_(Range!dataVars) <=> [RangeP!Next]_(RangeP!dataVars)
  /\ Range!DataAssumption <=> RangeP!DataAssumption
  /\ Range!LayerStillHolds <=> RangeP!LayerStillHolds
  /\ Range!TypeOK <=> RangeP!TypeOK
<1>1. Range!Init <=> RangeP!Init
  BY DEF Range!Init, RangeP!Init, Range!Idle, RangeP!Idle
<1>2. ASSUME NEW u
      PROVE  /\ Range!Collect(u) <=> RangeP!Collect(u)
             /\ Range!Check(u) <=> RangeP!Check(u)
             /\ Range!Fail(u) <=> RangeP!Fail(u)
             /\ Range!ReadCurrent(u) <=> RangeP!ReadCurrent(u)
  BY DEF Range!Collect, RangeP!Collect, Range!Check, RangeP!Check, Range!Fail, RangeP!Fail,
     Range!ReadCurrent, RangeP!ReadCurrent, Range!Idle, RangeP!Idle, Range!Kinds, RangeP!Kinds,
     Range!Orders, RangeP!Orders, Range!Goto, RangeP!Goto, Range!Unlocked, RangeP!Unlocked, Range!Final,
     RangeP!Final, Range!Current, RangeP!Current, Range!IsCurrent, RangeP!IsCurrent
<1>3. ASSUME NEW u
      PROVE  /\ Range!Touch(u) <=> RangeP!Touch(u)
             /\ Range!Supersede(u) <=> RangeP!Supersede(u)
             /\ Range!InsertFirst(u) <=> RangeP!InsertFirst(u)
  BY DEF Range!Touch, RangeP!Touch, Range!Supersede, RangeP!Supersede, Range!InsertFirst,
     RangeP!InsertFirst, Range!Locked, RangeP!Locked, Range!Hash, RangeP!Hash, Range!Version,
     RangeP!Version, Range!Goto, RangeP!Goto, Range!Current, RangeP!Current, Range!IsCurrent,
     RangeP!IsCurrent
<1>4. ASSUME NEW u
      PROVE  /\ Range!Publish(u) <=> RangeP!Publish(u)
             /\ Range!BeginSlowlog(u) <=> RangeP!BeginSlowlog(u)
             /\ \A i : Range!LockEntity(u, i) <=> RangeP!LockEntity(u, i)
             /\ Range!InsertSeries(u) <=> RangeP!InsertSeries(u)
  BY DEF Range!Publish, RangeP!Publish, Range!BeginSlowlog, RangeP!BeginSlowlog, Range!LockEntity,
     RangeP!LockEntity, Range!InsertSeries, RangeP!InsertSeries, Range!Goto, RangeP!Goto, Range!Seen,
     RangeP!Seen, Range!Upserted, RangeP!Upserted, Range!Unlocked, RangeP!Unlocked
<1>5. /\ Range!DeleteDatasource <=> RangeP!DeleteDatasource
      /\ Range!SeriesRange <=> RangeP!SeriesRange
  BY DEF Range!DeleteDatasource, RangeP!DeleteDatasource,
     Range!SeriesRange, RangeP!SeriesRange, Range!Accepted, RangeP!Accepted, Range!LayerFor, RangeP!LayerFor
<1>6. Range!Next <=> RangeP!Next
  BY <1>2, <1>3, <1>4, <1>5 DEF Range!Next, RangeP!Next
<1>7. Range!TypeOK <=> RangeP!TypeOK
  BY Zenon DEF Range!TypeOK, RangeP!TypeOK, Range!Versions, RangeP!Versions, Range!Entity, RangeP!Entity,
     Range!Final, RangeP!Final
<1>8. QED
  BY <1>1, <1>6, <1>7 DEF Range!dataVars, RangeP!dataVars, Range!DataAssumption, RangeP!DataAssumption,
     Range!Entity, RangeP!Entity, Range!LayerStillHolds, RangeP!LayerStillHolds, Range!Retention,
     RangeP!Retention, Range!Layers, RangeP!Layers

DataInv ==
  /\ focus = "data" => DataP!Typed /\ DataP!DataInv
  /\ focus = "range" => RangeP!Typed /\ RangeP!DataInv /\ RangeP!LayerStillHolds

\* The invariant of the component holds while it is in focus.
LEMMA DataInvariant == Spec => []DataInv
<1>1. Init => DataInv
  BY FocusBegins, DataSame, RangeSame, DistinctValues, DataP!InitData, RangeP!InitData, RangeP!InitLayer DEF DataInv
<1>2. DataInv /\ [Next]_vars => DataInv'
  <2>1. ASSUME DataInv, [Next]_vars, focus = "data" PROVE DataP!Typed' /\ DataP!DataInv'
    BY <2>1, FocusStays, DataSame, DistinctValues, DataP!NextData DEF DataInv
  <2>2. ASSUME DataInv, [Next]_vars, focus = "range"
      PROVE  RangeP!Typed' /\ RangeP!DataInv' /\ RangeP!LayerStillHolds'
    BY <2>2, FocusStays, RangeSame, DistinctValues, RangeP!NextData, RangeP!NextLayer DEF DataInv
  <2>3. QED BY <2>1, <2>2, FocusStays DEF DataInv
<1>3. QED BY <1>1, <1>2, PTL DEF Spec

\* supersedeIfChanged: no version repeats the one before it.
THEOREM HistoryHere == Spec => []HistoryAlternates
<1>1. DataInv => HistoryAlternates
  BY DataSame DEF DataInv, HistoryAlternates, DataP!DataInv, DataP!Chain
<1>2. QED BY <1>1, DataInvariant, PTL

\* upsertEntities: no reading outruns the dictionary of slow queries.
THEOREM EntitiesHere == Spec => []EntitiesCoverReadings
<1>1. DataInv => EntitiesCoverReadings
  BY DataSame DEF DataInv, EntitiesCoverReadings, DataP!DataInv
<1>2. QED BY <1>1, DataInvariant, PTL

\* publishStateSnapshot: what is acknowledged is what a reader gets.
THEOREM PublicationsHere == Spec => OkMeansCurrent
<1>1. DataInv /\ [Next]_vars => [focus = "data" => Data!PublishedIsCurrent]_vars
  <2> SUFFICES ASSUME DataInv, [Next]_vars, focus = "data", vars' # vars PROVE Data!PublishedIsCurrent
    BY Zenon
  <2>1. [DataP!PublishedIsCurrent]_(DataP!dataVars)
    BY FocusStays, DataSame, DistinctValues, DataP!StepPublishes DEF DataInv
  <2>2. CASE UNCHANGED DataP!dataVars
    BY <2>2 DEF DataP!dataVars, Data!PublishedIsCurrent
  <2>3. QED BY <2>1, <2>2, DataSame
<1>2. QED BY <1>1, DataInvariant, PTL DEF Spec, OkMeansCurrent

\* layerFor: the layer of a query still holds the start of its window.
THEOREM LayersHere == Spec => []LayerStillHolds
<1>1. DataInv => LayerStillHolds
  BY RangeSame DEF DataInv, LayerStillHolds
<1>2. QED BY <1>1, DataInvariant, PTL

-----------------------------------------------------------------------------
(* Metered calls, collection loops and pools, and threads.                  *)

Parts == INSTANCE MeterCollectorStoreProofs WITH
  quota <- v1, rows <- v2, month <- v3, seq <- v4, call <- v5, msgs <- v6, answered <- v7, open <- v8, peak <- v9,
  home <- v1, secret <- v2, pass <- v3, loops <- v4, loop <- v5, pools <- v6, pool <- v7, use <- v8,
  row <- v1, log <- v2, clock <- v3, tx <- v4, walk <- v5,
  Calls <- {1, 2}, MaxTokens <- 1, Budgets <- {1}, Retries <- 0,
  Ds <- {1}, Conns <- {c1}, Loops <- {1, 2}, Testers <- {3}, Pools <- 1..2, PageSize <- 1, MaxSecret <- 1,
  Backoff <- 200, BackoffLimit <- 300,
  Threads <- {1, 2}, Turns <- {}, Txs <- {x1, x2}, Patches <- {[name |-> 1]}, Walks <- {}, Size <- 1, MaxSeq <- 1, MaxClock <- 0

Again == INSTANCE MeterCollectorStoreProofs WITH
  quota <- v1, rows <- v2, month <- v3, seq <- v4, call <- v5, msgs <- v6, answered <- v7, open <- v8, peak <- v9,
  home <- v1, secret <- v2, pass <- v3, loops <- v4, loop <- v5, pools <- v6, pool <- v7, use <- v8,
  row <- v1, log <- v2, clock <- v3, tx <- v4, walk <- v5,
  Calls <- {1}, MaxTokens <- 1, Budgets <- {1}, Retries <- 2,
  Ds <- {1}, Conns <- {c1}, Loops <- {1, 2}, Testers <- {3}, Pools <- 1..2, PageSize <- 1, MaxSecret <- 1,
  Backoff <- 200, BackoffLimit <- 300,
  Threads <- {1, 2}, Turns <- {}, Txs <- {x1}, Patches <- {}, Walks <- {"threads"}, Size <- 1, MaxSeq <- 0, MaxClock <- 1

Third == INSTANCE MeterCollectorStoreProofs WITH
  quota <- v1, rows <- v2, month <- v3, seq <- v4, call <- v5, msgs <- v6, answered <- v7, open <- v8, peak <- v9,
  home <- v1, secret <- v2, pass <- v3, loops <- v4, loop <- v5, pools <- v6, pool <- v7, use <- v8,
  row <- v1, log <- v2, clock <- v3, tx <- v4, walk <- v5,
  Calls <- {1}, MaxTokens <- 1, Budgets <- {1}, Retries <- 2,
  Ds <- {1}, Conns <- {c1}, Loops <- {1, 2}, Testers <- {3}, Pools <- 1..2, PageSize <- 1, MaxSecret <- 1,
  Backoff <- 200, BackoffLimit <- 300,
  Threads <- {1}, Turns <- {1, 2}, Txs <- {}, Patches <- {}, Walks <- {"items", "turns"}, Size <- 1, MaxSeq <- 3, MaxClock <- 0

\* The two instances say the same.
LEMMA MeterSame ==
  /\ Meter!Init <=> Parts!Meter!Init
  /\ [Meter!Next]_(Meter!meterVars) <=> [Parts!Meter!Next]_(Parts!Meter!meterVars)
  /\ Meter!MeterAssumption <=> Parts!Meter!MeterAssumption
  /\ Meter!ChargedOnce <=> Parts!Meter!ChargedOnce
  /\ Meter!OvershootBounded <=> Parts!Meter!OvershootBounded
  /\ Meter!TypeOK <=> Parts!Meter!TypeOK
<1>1. Meter!Init <=> Parts!Meter!Init
  BY DEF Meter!Init, Parts!Meter!Init, Meter!Idle, Parts!Meter!Idle
<1>2. Meter!MonthToDateTokens = Parts!Meter!MonthToDateTokens
  BY DEF Meter!MonthToDateTokens, Parts!Meter!MonthToDateTokens
<1>3. Meter!Exceeded <=> Parts!Meter!Exceeded
  BY <1>2 DEF Meter!Exceeded, Parts!Meter!Exceeded, Meter!Hard, Parts!Meter!Hard
<1>4. Meter!UnderWay = Parts!Meter!UnderWay
  BY DEF Meter!UnderWay, Parts!Meter!UnderWay
<1>5. ASSUME NEW c
      PROVE  /\ Meter!QuotaCheck(c) <=> Parts!Meter!QuotaCheck(c)
             /\ Meter!QuotaUnavailable(c) <=> Parts!Meter!QuotaUnavailable(c)
  BY <1>3, <1>4 DEF Meter!QuotaCheck, Parts!Meter!QuotaCheck, Meter!QuotaUnavailable,
     Parts!Meter!QuotaUnavailable, Meter!Admit, Parts!Meter!Admit, Meter!Step, Parts!Meter!Step,
     Meter!Settled, Parts!Meter!Settled, Meter!Hard, Parts!Meter!Hard, Meter!Cardinality,
     Parts!Meter!Cardinality, Meter!IsFiniteSet, Parts!Meter!IsFiniteSet
<1>6. ASSUME NEW c
      PROVE  /\ \A m : Meter!Begin(c, m) <=> Parts!Meter!Begin(c, m)
             /\ Meter!UpstreamFails(c) <=> Parts!Meter!UpstreamFails(c)
             /\ Meter!Respond(c) <=> Parts!Meter!Respond(c)
             /\ Meter!StreamEnds(c) <=> Parts!Meter!StreamEnds(c)
  BY DEF Meter!Begin, Parts!Meter!Begin, Meter!UpstreamFails, Parts!Meter!UpstreamFails, Meter!Respond,
     Parts!Meter!Respond, Meter!StreamEnds, Parts!Meter!StreamEnds, Meter!Step, Parts!Meter!Step,
     Meter!Settled, Parts!Meter!Settled, Meter!Idle, Parts!Meter!Idle, Meter!Found, Parts!Meter!Found
<1>7. ASSUME NEW c
      PROVE  /\ Meter!PostUsage(c) <=> Parts!Meter!PostUsage(c)
             /\ Meter!InsertUsage(c) <=> Parts!Meter!InsertUsage(c)
             /\ Meter!UsageAccepted(c) <=> Parts!Meter!UsageAccepted(c)
             /\ Meter!UsageRefused(c) <=> Parts!Meter!UsageRefused(c)
             /\ Meter!PostFails(c) <=> Parts!Meter!PostFails(c)
  BY DEF Meter!PostUsage, Parts!Meter!PostUsage, Meter!InsertUsage, Parts!Meter!InsertUsage,
     Meter!UsageAccepted, Parts!Meter!UsageAccepted, Meter!UsageRefused, Parts!Meter!UsageRefused,
     Meter!PostFails, Parts!Meter!PostFails, Meter!Step, Parts!Meter!Step, Meter!Inserted,
     Parts!Meter!Inserted, Meter!IdemKey, Parts!Meter!IdemKey
<1>8. ASSUME NEW m PROVE Meter!Crash(m) <=> Parts!Meter!Crash(m)
  BY DEF Meter!Crash, Parts!Meter!Crash
<1>9. /\ Meter!PutQuota <=> Parts!Meter!PutQuota
      /\ Meter!NewMonth <=> Parts!Meter!NewMonth
  BY DEF Meter!PutQuota, Parts!Meter!PutQuota, Meter!NewMonth, Parts!Meter!NewMonth
<1>10. Meter!Next <=> Parts!Meter!Next
  BY <1>5, <1>6, <1>7, <1>8, <1>9 DEF Meter!Next, Parts!Meter!Next
<1>11. Meter!ChargedOnce <=> Parts!Meter!ChargedOnce
  BY DEF Meter!ChargedOnce, Parts!Meter!ChargedOnce, Meter!RowsOf, Parts!Meter!RowsOf, Meter!Cardinality,
     Parts!Meter!Cardinality, Meter!IsFiniteSet, Parts!Meter!IsFiniteSet
<1>12. Meter!OvershootBounded <=> Parts!Meter!OvershootBounded
  BY <1>2 DEF Meter!OvershootBounded, Parts!Meter!OvershootBounded, Meter!MaxBudget, Parts!Meter!MaxBudget
<1>13. Meter!TypeOK <=> Parts!Meter!TypeOK
  BY DEF Meter!TypeOK, Parts!Meter!TypeOK, Meter!Over, Parts!Meter!Over
<1>14. QED
  BY <1>1, <1>10, <1>11, <1>12, <1>13 DEF Meter!meterVars, Parts!Meter!meterVars, Meter!MeterAssumption,
     Parts!Meter!MeterAssumption

\* The two instances say the same.
LEMMA RetrySame ==
  /\ Retry!Init <=> Again!Meter!Init
  /\ [Retry!Next]_(Retry!meterVars) <=> [Again!Meter!Next]_(Again!Meter!meterVars)
  /\ Retry!MeterAssumption <=> Again!Meter!MeterAssumption
  /\ Retry!ChargedOnce <=> Again!Meter!ChargedOnce
  /\ Retry!OvershootBounded <=> Again!Meter!OvershootBounded
  /\ Retry!TypeOK <=> Again!Meter!TypeOK
<1>1. Retry!Init <=> Again!Meter!Init
  BY DEF Retry!Init, Again!Meter!Init, Retry!Idle, Again!Meter!Idle
<1>2. Retry!MonthToDateTokens = Again!Meter!MonthToDateTokens
  BY DEF Retry!MonthToDateTokens, Again!Meter!MonthToDateTokens
<1>3. Retry!Exceeded <=> Again!Meter!Exceeded
  BY <1>2 DEF Retry!Exceeded, Again!Meter!Exceeded, Retry!Hard, Again!Meter!Hard
<1>4. Retry!UnderWay = Again!Meter!UnderWay
  BY DEF Retry!UnderWay, Again!Meter!UnderWay
<1>5. ASSUME NEW c
      PROVE  /\ Retry!QuotaCheck(c) <=> Again!Meter!QuotaCheck(c)
             /\ Retry!QuotaUnavailable(c) <=> Again!Meter!QuotaUnavailable(c)
  BY <1>3, <1>4 DEF Retry!QuotaCheck, Again!Meter!QuotaCheck, Retry!QuotaUnavailable,
     Again!Meter!QuotaUnavailable, Retry!Admit, Again!Meter!Admit, Retry!Step, Again!Meter!Step,
     Retry!Settled, Again!Meter!Settled, Retry!Hard, Again!Meter!Hard, Retry!Cardinality,
     Again!Meter!Cardinality, Retry!IsFiniteSet, Again!Meter!IsFiniteSet
<1>6. ASSUME NEW c
      PROVE  /\ \A m : Retry!Begin(c, m) <=> Again!Meter!Begin(c, m)
             /\ Retry!UpstreamFails(c) <=> Again!Meter!UpstreamFails(c)
             /\ Retry!Respond(c) <=> Again!Meter!Respond(c)
             /\ Retry!StreamEnds(c) <=> Again!Meter!StreamEnds(c)
  BY DEF Retry!Begin, Again!Meter!Begin, Retry!UpstreamFails, Again!Meter!UpstreamFails, Retry!Respond,
     Again!Meter!Respond, Retry!StreamEnds, Again!Meter!StreamEnds, Retry!Step, Again!Meter!Step,
     Retry!Settled, Again!Meter!Settled, Retry!Idle, Again!Meter!Idle, Retry!Found, Again!Meter!Found
<1>7. ASSUME NEW c
      PROVE  /\ Retry!PostUsage(c) <=> Again!Meter!PostUsage(c)
             /\ Retry!InsertUsage(c) <=> Again!Meter!InsertUsage(c)
             /\ Retry!UsageAccepted(c) <=> Again!Meter!UsageAccepted(c)
             /\ Retry!UsageRefused(c) <=> Again!Meter!UsageRefused(c)
             /\ Retry!PostFails(c) <=> Again!Meter!PostFails(c)
  BY DEF Retry!PostUsage, Again!Meter!PostUsage, Retry!InsertUsage, Again!Meter!InsertUsage,
     Retry!UsageAccepted, Again!Meter!UsageAccepted, Retry!UsageRefused, Again!Meter!UsageRefused,
     Retry!PostFails, Again!Meter!PostFails, Retry!Step, Again!Meter!Step, Retry!Inserted,
     Again!Meter!Inserted, Retry!IdemKey, Again!Meter!IdemKey
<1>8. ASSUME NEW m PROVE Retry!Crash(m) <=> Again!Meter!Crash(m)
  BY DEF Retry!Crash, Again!Meter!Crash
<1>9. /\ Retry!PutQuota <=> Again!Meter!PutQuota
      /\ Retry!NewMonth <=> Again!Meter!NewMonth
  BY DEF Retry!PutQuota, Again!Meter!PutQuota, Retry!NewMonth, Again!Meter!NewMonth
<1>10. Retry!Next <=> Again!Meter!Next
  BY <1>5, <1>6, <1>7, <1>8, <1>9 DEF Retry!Next, Again!Meter!Next
<1>11. Retry!ChargedOnce <=> Again!Meter!ChargedOnce
  BY DEF Retry!ChargedOnce, Again!Meter!ChargedOnce, Retry!RowsOf, Again!Meter!RowsOf, Retry!Cardinality,
     Again!Meter!Cardinality, Retry!IsFiniteSet, Again!Meter!IsFiniteSet
<1>12. Retry!OvershootBounded <=> Again!Meter!OvershootBounded
  BY <1>2 DEF Retry!OvershootBounded, Again!Meter!OvershootBounded, Retry!MaxBudget, Again!Meter!MaxBudget
<1>13. Retry!TypeOK <=> Again!Meter!TypeOK
  BY DEF Retry!TypeOK, Again!Meter!TypeOK, Retry!Over, Again!Meter!Over
<1>14. QED
  BY <1>1, <1>10, <1>11, <1>12, <1>13 DEF Retry!meterVars, Again!Meter!meterVars, Retry!MeterAssumption,
     Again!Meter!MeterAssumption

\* The two instances say the same.
LEMMA CollSame ==
  /\ Coll!Init <=> Parts!Coll!Init
  /\ [Coll!Next]_(Coll!collVars) <=> [Parts!Coll!Next]_(Parts!Coll!collVars)
  /\ Coll!CollectorAssumption <=> Parts!Coll!CollectorAssumption
  /\ Coll!Accounted <=> Parts!Coll!Accounted
  /\ Coll!TypeOK <=> Parts!Coll!TypeOK
<1>1. Coll!Init <=> Parts!Coll!Init
  BY DEF Coll!Init, Parts!Coll!Init, Coll!Users, Parts!Coll!Users, Coll!Ended, Parts!Coll!Ended,
     Coll!Unused, Parts!Coll!Unused
<1>2. ASSUME NEW d
      PROVE  /\ Coll!CreateDatasource(d) <=> Parts!Coll!CreateDatasource(d)
             /\ Coll!RotateCredential(d) <=> Parts!Coll!RotateCredential(d)
             /\ Coll!DeleteDatasource(d) <=> Parts!Coll!DeleteDatasource(d)
  BY DEF Coll!CreateDatasource, Parts!Coll!CreateDatasource,
     Coll!RotateCredential, Parts!Coll!RotateCredential, Coll!DeleteDatasource, Parts!Coll!DeleteDatasource
<1>3. /\ Coll!BeginReconcile <=> Parts!Coll!BeginReconcile
      /\ Coll!ListPage <=> Parts!Coll!ListPage
      /\ Coll!ListFails <=> Parts!Coll!ListFails
  BY DEF Coll!BeginReconcile, Parts!Coll!BeginReconcile, Coll!ListPage, Parts!Coll!ListPage, Coll!ListFails,
     Parts!Coll!ListFails, Coll!Collected, Parts!Coll!Collected, Coll!rows, Parts!Coll!rows,
     Coll!Cardinality, Parts!Coll!Cardinality, Coll!IsFiniteSet, Parts!Coll!IsFiniteSet
<1>4. /\ Coll!Reconcile <=> Parts!Coll!Reconcile
      /\ Coll!StopAll <=> Parts!Coll!StopAll
  BY DEF Coll!Reconcile, Parts!Coll!Reconcile, Coll!StopAll, Parts!Coll!StopAll, Coll!Startable,
     Parts!Coll!Startable, Coll!Stoppable, Parts!Coll!Stoppable, Coll!Ended, Parts!Coll!Ended, Coll!rows,
     Parts!Coll!rows
<1>5. ASSUME NEW l
      PROVE  /\ Coll!LoopEnds(l) <=> Parts!Coll!LoopEnds(l)
             /\ Coll!LoopFires(l) <=> Parts!Coll!LoopFires(l)
             /\ Coll!TriggerCollect(l) <=> Parts!Coll!TriggerCollect(l)
  BY DEF Coll!LoopEnds, Parts!Coll!LoopEnds, Coll!LoopFires, Parts!Coll!LoopFires, Coll!TriggerCollect,
     Parts!Coll!TriggerCollect, Coll!Collected1, Parts!Coll!Collected1, Coll!Ended, Parts!Coll!Ended,
     Coll!Unused, Parts!Coll!Unused, Coll!rows, Parts!Coll!rows
<1>6. ASSUME NEW u
      PROVE  /\ Coll!TestConnection(u) <=> Parts!Coll!TestConnection(u)
             /\ Coll!DestroyPool(u) <=> Parts!Coll!DestroyPool(u)
             /\ Coll!Lookup(u) <=> Parts!Coll!Lookup(u)
             /\ Coll!BuildPool(u) <=> Parts!Coll!BuildPool(u)
  BY DEF Coll!TestConnection, Parts!Coll!TestConnection, Coll!DestroyPool, Parts!Coll!DestroyPool,
     Coll!Lookup, Parts!Coll!Lookup, Coll!BuildPool, Parts!Coll!BuildPool, Coll!Querying,
     Parts!Coll!Querying, Coll!Done, Parts!Coll!Done, Coll!Collected1, Parts!Coll!Collected1, Coll!Users,
     Parts!Coll!Users, Coll!Unused, Parts!Coll!Unused, Coll!rows, Parts!Coll!rows
<1>7. ASSUME NEW u
      PROVE  /\ Coll!BuildFails(u) <=> Parts!Coll!BuildFails(u)
             /\ Coll!RegisterPool(u) <=> Parts!Coll!RegisterPool(u)
             /\ Coll!Query(u) <=> Parts!Coll!Query(u)
             /\ Coll!QueryFails(u) <=> Parts!Coll!QueryFails(u)
  BY DEF Coll!BuildFails, Parts!Coll!BuildFails, Coll!RegisterPool, Parts!Coll!RegisterPool, Coll!Query,
     Parts!Coll!Query, Coll!QueryFails, Parts!Coll!QueryFails, Coll!Querying, Parts!Coll!Querying,
     Coll!Done, Parts!Coll!Done, Coll!Collected1, Parts!Coll!Collected1, Coll!Unused, Parts!Coll!Unused,
     Coll!rows, Parts!Coll!rows
<1>8. Coll!Next <=> Parts!Coll!Next
  BY <1>2, <1>3, <1>4, <1>5, <1>6, <1>7 DEF Coll!Next, Parts!Coll!Next, Coll!Users, Parts!Coll!Users
<1>9. Coll!TypeOK <=> Parts!Coll!TypeOK
  BY Zenon DEF Coll!TypeOK, Parts!Coll!TypeOK, Coll!Users, Parts!Coll!Users
<1>10. QED
  BY <1>1, <1>8, <1>9 DEF Coll!collVars, Parts!Coll!collVars, Coll!CollectorAssumption,
     Parts!Coll!CollectorAssumption, Coll!Accounted, Parts!Coll!Accounted, Coll!Users, Parts!Coll!Users

\* The two instances say the same.
LEMMA RacesSame ==
  /\ Races!Init <=> Parts!Store!Init
  /\ [Races!Next]_(Races!storeVars) <=> [Parts!Store!Next]_(Parts!Store!storeVars)
  /\ Races!StoreAssumption <=> Parts!Store!StoreAssumption
  /\ Races!TypeOK <=> Parts!Store!TypeOK
  /\ Races!StaysDeleted <=> Parts!Store!StaysDeleted
  /\ Races!ItemWalkExact <=> Parts!Store!ItemWalkExact
  /\ Races!ThreadWalkExact <=> Parts!Store!ThreadWalkExact
<1>1. Races!NoRow = Parts!Store!NoRow /\ Races!NoTx = Parts!Store!NoTx /\ Races!NoWalk = Parts!Store!NoWalk
  BY DEF Races!NoRow, Parts!Store!NoRow, Races!NoTx, Parts!Store!NoTx, Races!NoWalk, Parts!Store!NoWalk,
     Races!Fields, Parts!Store!Fields
<1>2. Races!Init <=> Parts!Store!Init
  BY <1>1 DEF Races!Init, Parts!Store!Init
<1>3. ASSUME NEW t
      PROVE  /\ Races!Visible(t) <=> Parts!Store!Visible(t)
             /\ Races!CreateThread(t) <=> Parts!Store!CreateThread(t)
             /\ Races!AppendItems(t) <=> Parts!Store!AppendItems(t)
             /\ Races!SetThreadAttributes(t) <=> Parts!Store!SetThreadAttributes(t)
  BY <1>1 DEF Races!CreateThread, Parts!Store!CreateThread, Races!AppendItems, Parts!Store!AppendItems,
     Races!SetThreadAttributes, Parts!Store!SetThreadAttributes, Races!Visible, Parts!Store!Visible,
     Races!Touch, Parts!Store!Touch, Races!Events, Parts!Store!Events, Races!Boundaries,
     Parts!Store!Boundaries
<1>4. ASSUME NEW x
      PROVE  /\ Races!UpdateThreadMetadata(x) <=> Parts!Store!UpdateThreadMetadata(x)
             /\ Races!ArchiveThread(x) <=> Parts!Store!ArchiveThread(x)
             /\ Races!UnarchiveThread(x) <=> Parts!Store!UnarchiveThread(x)
             /\ Races!DeleteThreads(x) <=> Parts!Store!DeleteThreads(x)
  BY <1>1 DEF Races!UpdateThreadMetadata, Parts!Store!UpdateThreadMetadata, Races!ArchiveThread,
     Parts!Store!ArchiveThread, Races!UnarchiveThread, Parts!Store!UnarchiveThread, Races!DeleteThreads,
     Parts!Store!DeleteThreads, Races!Write, Parts!Store!Write, Races!Visible, Parts!Store!Visible,
     Races!Touch, Parts!Store!Touch
<1>5. ASSUME NEW x
      PROVE  /\ Races!BeginUpdate(x) <=> Parts!Store!BeginUpdate(x)
             /\ Races!BeginArchive(x) <=> Parts!Store!BeginArchive(x)
             /\ Races!BeginDelete(x) <=> Parts!Store!BeginDelete(x)
  BY <1>1 DEF Races!BeginUpdate, Parts!Store!BeginUpdate, Races!BeginArchive, Parts!Store!BeginArchive,
     Races!BeginDelete, Parts!Store!BeginDelete, Races!Merged, Parts!Store!Merged, Races!Fields,
     Parts!Store!Fields, Races!Visible, Parts!Store!Visible, Races!Cardinality, Parts!Store!Cardinality,
     Races!IsFiniteSet, Parts!Store!IsFiniteSet
<1>6. /\ Races!Tick <=> Parts!Store!Tick
      /\ Races!BeginWalk <=> Parts!Store!BeginWalk
      /\ Races!EndWalk <=> Parts!Store!EndWalk
  <2>1. Races!Tick <=> Parts!Store!Tick
    BY DEF Races!Tick, Parts!Store!Tick
  <2>2. Races!BeginWalk <=> Parts!Store!BeginWalk
    BY DEF Races!BeginWalk, Parts!Store!BeginWalk, Races!NoWalk, Parts!Store!NoWalk, Races!Visible,
       Parts!Store!Visible
  <2>3. Races!EndWalk <=> Parts!Store!EndWalk
    BY <1>1 DEF Races!EndWalk, Parts!Store!EndWalk
  <2>4. QED BY <2>1, <2>2, <2>3
<1>7. \A w, a, b : Races!Precedes(w, a, b) <=> Parts!Store!Precedes(w, a, b)
  BY DEF Races!Precedes, Parts!Store!Precedes, Races!Less, Parts!Store!Less
<1>8. /\ \A w, k : Races!Beyond(w, k) <=> Parts!Store!Beyond(w, k)
      /\ \A S : Races!Cardinality(S) = Parts!Store!Cardinality(S)
  BY <1>7 DEF Races!Beyond, Parts!Store!Beyond, Races!Cardinality, Parts!Store!Cardinality,
     Races!IsFiniteSet, Parts!Store!IsFiniteSet
<1>9. \A w, S : Races!Sorted(w, S) = Parts!Store!Sorted(w, S)
  BY <1>7, <1>8, Zenon DEF Races!Sorted, Parts!Store!Sorted
<1>10. \A w, s : Races!Cursor(w, s) = Parts!Store!Cursor(w, s)
  BY DEF Races!Cursor, Parts!Store!Cursor
<1>11. \A w : /\ Races!ListThreads(w) = Parts!Store!ListThreads(w)
              /\ Races!ListItems(w) = Parts!Store!ListItems(w)
              /\ Races!ListTurns(w) = Parts!Store!ListTurns(w)
  BY <1>7, <1>8 DEF Races!ListThreads, Parts!Store!ListThreads, Races!ListItems, Parts!Store!ListItems,
     Races!ListTurns, Parts!Store!ListTurns, Races!Boundaries, Parts!Store!Boundaries
<1>12. Races!NextPage <=> Parts!Store!NextPage
  <2> DEFINE S == CASE v5.of = "threads" -> Races!ListThreads(v5)
                    [] v5.of = "items" -> Races!ListItems(v5)
                    [] v5.of = "turns" -> Races!ListTurns(v5)
             T == CASE v5.of = "threads" -> Parts!Store!ListThreads(v5)
                    [] v5.of = "items" -> Parts!Store!ListItems(v5)
                    [] v5.of = "turns" -> Parts!Store!ListTurns(v5)
             s == Races!Sorted(v5, S)
             t == Parts!Store!Sorted(v5, T)
             c == Races!Cursor(v5, s)
             d == Parts!Store!Cursor(v5, t)
  <2>1. S = T
    BY <1>11
  <2>2. s = t
    <3> HIDE DEF S, T
    <3>1. QED BY <1>9, <2>1
  <2>3. c = d
    <3> HIDE DEF s, t
    <3>1. QED BY <1>10, <2>2
  <2>4. Races!NextPage <=> /\ v5.pc = "page" /\ (v5.of = "threads" \/ Races!Visible(v5.t))
                        /\ v5' = [c EXCEPT !.got = @ \o SubSeq(s, 1, IF Len(s) < 1 THEN Len(s) ELSE 1)]
                        /\ UNCHANGED <<v1, v2, v3, v4>>
    BY Zenon DEF Races!NextPage
  <2>5. Parts!Store!NextPage <=> /\ v5.pc = "page" /\ (v5.of = "threads" \/ Parts!Store!Visible(v5.t))
                        /\ v5' = [d EXCEPT !.got = @ \o SubSeq(t, 1, IF Len(t) < 1 THEN Len(t) ELSE 1)]
                        /\ UNCHANGED <<v1, v2, v3, v4>>
    BY Zenon DEF Parts!Store!NextPage
  <2> HIDE DEF c, d, s, t
  <2>6. QED BY <1>3, <2>2, <2>3, <2>4, <2>5
<1>13. Races!Next <=> Parts!Store!Next
  BY <1>3, <1>4, <1>5, <1>6, <1>12 DEF Races!Next, Parts!Store!Next
<1>14. Races!TypeOK <=> Parts!Store!TypeOK
  BY <1>1 DEF Races!TypeOK, Parts!Store!TypeOK, Races!Ops, Parts!Store!Ops
<1>15. /\ Races!ItemWalkExact <=> Parts!Store!ItemWalkExact
       /\ Races!ThreadWalkExact <=> Parts!Store!ThreadWalkExact
  BY <1>7, <1>8 DEF Races!ItemWalkExact, Parts!Store!ItemWalkExact, Races!ThreadWalkExact,
     Parts!Store!ThreadWalkExact, Races!Ordered, Parts!Store!Ordered
<1>16. Races!StaysDeleted <=> Parts!Store!StaysDeleted
  BY DEF Races!StaysDeleted, Parts!Store!StaysDeleted
<1>17. Races!StoreAssumption <=> Parts!Store!StoreAssumption
  BY DEF Races!StoreAssumption, Parts!Store!StoreAssumption, Races!IsFiniteSet, Parts!Store!IsFiniteSet
<1>18. QED
  BY <1>2, <1>13, <1>14, <1>15, <1>16, <1>17 DEF Races!storeVars, Parts!Store!storeVars

\* The two instances say the same.
LEMMA ListsSame ==
  /\ Lists!Init <=> Again!Store!Init
  /\ [Lists!Next]_(Lists!storeVars) <=> [Again!Store!Next]_(Again!Store!storeVars)
  /\ Lists!StoreAssumption <=> Again!Store!StoreAssumption
  /\ Lists!TypeOK <=> Again!Store!TypeOK
  /\ Lists!StaysDeleted <=> Again!Store!StaysDeleted
  /\ Lists!ItemWalkExact <=> Again!Store!ItemWalkExact
  /\ Lists!ThreadWalkExact <=> Again!Store!ThreadWalkExact
<1>1. Lists!NoRow = Again!Store!NoRow /\ Lists!NoTx = Again!Store!NoTx /\ Lists!NoWalk = Again!Store!NoWalk
  BY DEF Lists!NoRow, Again!Store!NoRow, Lists!NoTx, Again!Store!NoTx, Lists!NoWalk, Again!Store!NoWalk,
     Lists!Fields, Again!Store!Fields
<1>2. Lists!Init <=> Again!Store!Init
  BY <1>1 DEF Lists!Init, Again!Store!Init
<1>3. ASSUME NEW t
      PROVE  /\ Lists!Visible(t) <=> Again!Store!Visible(t)
             /\ Lists!CreateThread(t) <=> Again!Store!CreateThread(t)
             /\ Lists!AppendItems(t) <=> Again!Store!AppendItems(t)
             /\ Lists!SetThreadAttributes(t) <=> Again!Store!SetThreadAttributes(t)
  BY <1>1 DEF Lists!CreateThread, Again!Store!CreateThread, Lists!AppendItems, Again!Store!AppendItems,
     Lists!SetThreadAttributes, Again!Store!SetThreadAttributes, Lists!Visible, Again!Store!Visible,
     Lists!Touch, Again!Store!Touch, Lists!Events, Again!Store!Events, Lists!Boundaries,
     Again!Store!Boundaries
<1>4. ASSUME NEW x
      PROVE  /\ Lists!UpdateThreadMetadata(x) <=> Again!Store!UpdateThreadMetadata(x)
             /\ Lists!ArchiveThread(x) <=> Again!Store!ArchiveThread(x)
             /\ Lists!UnarchiveThread(x) <=> Again!Store!UnarchiveThread(x)
             /\ Lists!DeleteThreads(x) <=> Again!Store!DeleteThreads(x)
  BY <1>1 DEF Lists!UpdateThreadMetadata, Again!Store!UpdateThreadMetadata, Lists!ArchiveThread,
     Again!Store!ArchiveThread, Lists!UnarchiveThread, Again!Store!UnarchiveThread, Lists!DeleteThreads,
     Again!Store!DeleteThreads, Lists!Write, Again!Store!Write, Lists!Visible, Again!Store!Visible,
     Lists!Touch, Again!Store!Touch
<1>5. ASSUME NEW x
      PROVE  /\ Lists!BeginUpdate(x) <=> Again!Store!BeginUpdate(x)
             /\ Lists!BeginArchive(x) <=> Again!Store!BeginArchive(x)
             /\ Lists!BeginDelete(x) <=> Again!Store!BeginDelete(x)
  BY <1>1 DEF Lists!BeginUpdate, Again!Store!BeginUpdate, Lists!BeginArchive, Again!Store!BeginArchive,
     Lists!BeginDelete, Again!Store!BeginDelete, Lists!Merged, Again!Store!Merged, Lists!Fields,
     Again!Store!Fields, Lists!Visible, Again!Store!Visible, Lists!Cardinality, Again!Store!Cardinality,
     Lists!IsFiniteSet, Again!Store!IsFiniteSet
<1>6. /\ Lists!Tick <=> Again!Store!Tick
      /\ Lists!BeginWalk <=> Again!Store!BeginWalk
      /\ Lists!EndWalk <=> Again!Store!EndWalk
  <2>1. Lists!Tick <=> Again!Store!Tick
    BY DEF Lists!Tick, Again!Store!Tick
  <2>2. Lists!BeginWalk <=> Again!Store!BeginWalk
    BY DEF Lists!BeginWalk, Again!Store!BeginWalk, Lists!NoWalk, Again!Store!NoWalk, Lists!Visible,
       Again!Store!Visible
  <2>3. Lists!EndWalk <=> Again!Store!EndWalk
    BY <1>1 DEF Lists!EndWalk, Again!Store!EndWalk
  <2>4. QED BY <2>1, <2>2, <2>3
<1>7. \A w, a, b : Lists!Precedes(w, a, b) <=> Again!Store!Precedes(w, a, b)
  BY DEF Lists!Precedes, Again!Store!Precedes, Lists!Less, Again!Store!Less
<1>8. /\ \A w, k : Lists!Beyond(w, k) <=> Again!Store!Beyond(w, k)
      /\ \A S : Lists!Cardinality(S) = Again!Store!Cardinality(S)
  BY <1>7 DEF Lists!Beyond, Again!Store!Beyond, Lists!Cardinality, Again!Store!Cardinality,
     Lists!IsFiniteSet, Again!Store!IsFiniteSet
<1>9. \A w, S : Lists!Sorted(w, S) = Again!Store!Sorted(w, S)
  BY <1>7, <1>8, Zenon DEF Lists!Sorted, Again!Store!Sorted
<1>10. \A w, s : Lists!Cursor(w, s) = Again!Store!Cursor(w, s)
  BY DEF Lists!Cursor, Again!Store!Cursor
<1>11. \A w : /\ Lists!ListThreads(w) = Again!Store!ListThreads(w)
              /\ Lists!ListItems(w) = Again!Store!ListItems(w)
              /\ Lists!ListTurns(w) = Again!Store!ListTurns(w)
  BY <1>7, <1>8 DEF Lists!ListThreads, Again!Store!ListThreads, Lists!ListItems, Again!Store!ListItems,
     Lists!ListTurns, Again!Store!ListTurns, Lists!Boundaries, Again!Store!Boundaries
<1>12. Lists!NextPage <=> Again!Store!NextPage
  <2> DEFINE S == CASE v5.of = "threads" -> Lists!ListThreads(v5)
                    [] v5.of = "items" -> Lists!ListItems(v5)
                    [] v5.of = "turns" -> Lists!ListTurns(v5)
             T == CASE v5.of = "threads" -> Again!Store!ListThreads(v5)
                    [] v5.of = "items" -> Again!Store!ListItems(v5)
                    [] v5.of = "turns" -> Again!Store!ListTurns(v5)
             s == Lists!Sorted(v5, S)
             t == Again!Store!Sorted(v5, T)
             c == Lists!Cursor(v5, s)
             d == Again!Store!Cursor(v5, t)
  <2>1. S = T
    BY <1>11
  <2>2. s = t
    <3> HIDE DEF S, T
    <3>1. QED BY <1>9, <2>1
  <2>3. c = d
    <3> HIDE DEF s, t
    <3>1. QED BY <1>10, <2>2
  <2>4. Lists!NextPage <=> /\ v5.pc = "page" /\ (v5.of = "threads" \/ Lists!Visible(v5.t))
                        /\ v5' = [c EXCEPT !.got = @ \o SubSeq(s, 1, IF Len(s) < 1 THEN Len(s) ELSE 1)]
                        /\ UNCHANGED <<v1, v2, v3, v4>>
    BY Zenon DEF Lists!NextPage
  <2>5. Again!Store!NextPage <=> /\ v5.pc = "page" /\ (v5.of = "threads" \/ Again!Store!Visible(v5.t))
                        /\ v5' = [d EXCEPT !.got = @ \o SubSeq(t, 1, IF Len(t) < 1 THEN Len(t) ELSE 1)]
                        /\ UNCHANGED <<v1, v2, v3, v4>>
    BY Zenon DEF Again!Store!NextPage
  <2> HIDE DEF c, d, s, t
  <2>6. QED BY <1>3, <2>2, <2>3, <2>4, <2>5
<1>13. Lists!Next <=> Again!Store!Next
  BY <1>3, <1>4, <1>5, <1>6, <1>12 DEF Lists!Next, Again!Store!Next
<1>14. Lists!TypeOK <=> Again!Store!TypeOK
  BY <1>1 DEF Lists!TypeOK, Again!Store!TypeOK, Lists!Ops, Again!Store!Ops
<1>15. /\ Lists!ItemWalkExact <=> Again!Store!ItemWalkExact
       /\ Lists!ThreadWalkExact <=> Again!Store!ThreadWalkExact
  BY <1>7, <1>8 DEF Lists!ItemWalkExact, Again!Store!ItemWalkExact, Lists!ThreadWalkExact,
     Again!Store!ThreadWalkExact, Lists!Ordered, Again!Store!Ordered
<1>16. Lists!StaysDeleted <=> Again!Store!StaysDeleted
  BY DEF Lists!StaysDeleted, Again!Store!StaysDeleted
<1>17. Lists!StoreAssumption <=> Again!Store!StoreAssumption
  BY DEF Lists!StoreAssumption, Again!Store!StoreAssumption, Lists!IsFiniteSet, Again!Store!IsFiniteSet
<1>18. QED
  BY <1>2, <1>13, <1>14, <1>15, <1>16, <1>17 DEF Lists!storeVars, Again!Store!storeVars

\* The two instances say the same.
LEMMA ItemsSame ==
  /\ Items!Init <=> Third!Store!Init
  /\ [Items!Next]_(Items!storeVars) <=> [Third!Store!Next]_(Third!Store!storeVars)
  /\ Items!StoreAssumption <=> Third!Store!StoreAssumption
  /\ Items!TypeOK <=> Third!Store!TypeOK
  /\ Items!StaysDeleted <=> Third!Store!StaysDeleted
  /\ Items!ItemWalkExact <=> Third!Store!ItemWalkExact
  /\ Items!ThreadWalkExact <=> Third!Store!ThreadWalkExact
<1>1. Items!NoRow = Third!Store!NoRow /\ Items!NoTx = Third!Store!NoTx /\ Items!NoWalk = Third!Store!NoWalk
  BY DEF Items!NoRow, Third!Store!NoRow, Items!NoTx, Third!Store!NoTx, Items!NoWalk, Third!Store!NoWalk,
     Items!Fields, Third!Store!Fields
<1>2. Items!Init <=> Third!Store!Init
  BY <1>1 DEF Items!Init, Third!Store!Init
<1>3. ASSUME NEW t
      PROVE  /\ Items!Visible(t) <=> Third!Store!Visible(t)
             /\ Items!CreateThread(t) <=> Third!Store!CreateThread(t)
             /\ Items!AppendItems(t) <=> Third!Store!AppendItems(t)
             /\ Items!SetThreadAttributes(t) <=> Third!Store!SetThreadAttributes(t)
  BY <1>1 DEF Items!CreateThread, Third!Store!CreateThread, Items!AppendItems, Third!Store!AppendItems,
     Items!SetThreadAttributes, Third!Store!SetThreadAttributes, Items!Visible, Third!Store!Visible,
     Items!Touch, Third!Store!Touch, Items!Events, Third!Store!Events, Items!Boundaries,
     Third!Store!Boundaries
<1>4. ASSUME NEW x
      PROVE  /\ Items!UpdateThreadMetadata(x) <=> Third!Store!UpdateThreadMetadata(x)
             /\ Items!ArchiveThread(x) <=> Third!Store!ArchiveThread(x)
             /\ Items!UnarchiveThread(x) <=> Third!Store!UnarchiveThread(x)
             /\ Items!DeleteThreads(x) <=> Third!Store!DeleteThreads(x)
  BY <1>1 DEF Items!UpdateThreadMetadata, Third!Store!UpdateThreadMetadata, Items!ArchiveThread,
     Third!Store!ArchiveThread, Items!UnarchiveThread, Third!Store!UnarchiveThread, Items!DeleteThreads,
     Third!Store!DeleteThreads, Items!Write, Third!Store!Write, Items!Visible, Third!Store!Visible,
     Items!Touch, Third!Store!Touch
<1>5. ASSUME NEW x
      PROVE  /\ Items!BeginUpdate(x) <=> Third!Store!BeginUpdate(x)
             /\ Items!BeginArchive(x) <=> Third!Store!BeginArchive(x)
             /\ Items!BeginDelete(x) <=> Third!Store!BeginDelete(x)
  BY <1>1 DEF Items!BeginUpdate, Third!Store!BeginUpdate, Items!BeginArchive, Third!Store!BeginArchive,
     Items!BeginDelete, Third!Store!BeginDelete, Items!Merged, Third!Store!Merged, Items!Fields,
     Third!Store!Fields, Items!Visible, Third!Store!Visible, Items!Cardinality, Third!Store!Cardinality,
     Items!IsFiniteSet, Third!Store!IsFiniteSet
<1>6. /\ Items!Tick <=> Third!Store!Tick
      /\ Items!BeginWalk <=> Third!Store!BeginWalk
      /\ Items!EndWalk <=> Third!Store!EndWalk
  <2>1. Items!Tick <=> Third!Store!Tick
    BY DEF Items!Tick, Third!Store!Tick
  <2>2. Items!BeginWalk <=> Third!Store!BeginWalk
    BY DEF Items!BeginWalk, Third!Store!BeginWalk, Items!NoWalk, Third!Store!NoWalk, Items!Visible,
       Third!Store!Visible
  <2>3. Items!EndWalk <=> Third!Store!EndWalk
    BY <1>1 DEF Items!EndWalk, Third!Store!EndWalk
  <2>4. QED BY <2>1, <2>2, <2>3
<1>7. \A w, a, b : Items!Precedes(w, a, b) <=> Third!Store!Precedes(w, a, b)
  BY DEF Items!Precedes, Third!Store!Precedes, Items!Less, Third!Store!Less
<1>8. /\ \A w, k : Items!Beyond(w, k) <=> Third!Store!Beyond(w, k)
      /\ \A S : Items!Cardinality(S) = Third!Store!Cardinality(S)
  BY <1>7 DEF Items!Beyond, Third!Store!Beyond, Items!Cardinality, Third!Store!Cardinality,
     Items!IsFiniteSet, Third!Store!IsFiniteSet
<1>9. \A w, S : Items!Sorted(w, S) = Third!Store!Sorted(w, S)
  BY <1>7, <1>8, Zenon DEF Items!Sorted, Third!Store!Sorted
<1>10. \A w, s : Items!Cursor(w, s) = Third!Store!Cursor(w, s)
  BY DEF Items!Cursor, Third!Store!Cursor
<1>11. \A w : /\ Items!ListThreads(w) = Third!Store!ListThreads(w)
              /\ Items!ListItems(w) = Third!Store!ListItems(w)
              /\ Items!ListTurns(w) = Third!Store!ListTurns(w)
  BY <1>7, <1>8 DEF Items!ListThreads, Third!Store!ListThreads, Items!ListItems, Third!Store!ListItems,
     Items!ListTurns, Third!Store!ListTurns, Items!Boundaries, Third!Store!Boundaries
<1>12. Items!NextPage <=> Third!Store!NextPage
  <2> DEFINE S == CASE v5.of = "threads" -> Items!ListThreads(v5)
                    [] v5.of = "items" -> Items!ListItems(v5)
                    [] v5.of = "turns" -> Items!ListTurns(v5)
             T == CASE v5.of = "threads" -> Third!Store!ListThreads(v5)
                    [] v5.of = "items" -> Third!Store!ListItems(v5)
                    [] v5.of = "turns" -> Third!Store!ListTurns(v5)
             s == Items!Sorted(v5, S)
             t == Third!Store!Sorted(v5, T)
             c == Items!Cursor(v5, s)
             d == Third!Store!Cursor(v5, t)
  <2>1. S = T
    BY <1>11
  <2>2. s = t
    <3> HIDE DEF S, T
    <3>1. QED BY <1>9, <2>1
  <2>3. c = d
    <3> HIDE DEF s, t
    <3>1. QED BY <1>10, <2>2
  <2>4. Items!NextPage <=> /\ v5.pc = "page" /\ (v5.of = "threads" \/ Items!Visible(v5.t))
                        /\ v5' = [c EXCEPT !.got = @ \o SubSeq(s, 1, IF Len(s) < 1 THEN Len(s) ELSE 1)]
                        /\ UNCHANGED <<v1, v2, v3, v4>>
    BY Zenon DEF Items!NextPage
  <2>5. Third!Store!NextPage <=> /\ v5.pc = "page" /\ (v5.of = "threads" \/ Third!Store!Visible(v5.t))
                        /\ v5' = [d EXCEPT !.got = @ \o SubSeq(t, 1, IF Len(t) < 1 THEN Len(t) ELSE 1)]
                        /\ UNCHANGED <<v1, v2, v3, v4>>
    BY Zenon DEF Third!Store!NextPage
  <2> HIDE DEF c, d, s, t
  <2>6. QED BY <1>3, <2>2, <2>3, <2>4, <2>5
<1>13. Items!Next <=> Third!Store!Next
  BY <1>3, <1>4, <1>5, <1>6, <1>12 DEF Items!Next, Third!Store!Next
<1>14. Items!TypeOK <=> Third!Store!TypeOK
  BY <1>1 DEF Items!TypeOK, Third!Store!TypeOK, Items!Ops, Third!Store!Ops
<1>15. /\ Items!ItemWalkExact <=> Third!Store!ItemWalkExact
       /\ Items!ThreadWalkExact <=> Third!Store!ThreadWalkExact
  BY <1>7, <1>8 DEF Items!ItemWalkExact, Third!Store!ItemWalkExact, Items!ThreadWalkExact,
     Third!Store!ThreadWalkExact, Items!Ordered, Third!Store!Ordered
<1>16. Items!StaysDeleted <=> Third!Store!StaysDeleted
  BY DEF Items!StaysDeleted, Third!Store!StaysDeleted
<1>17. Items!StoreAssumption <=> Third!Store!StoreAssumption
  BY DEF Items!StoreAssumption, Third!Store!StoreAssumption, Items!IsFiniteSet, Third!Store!IsFiniteSet
<1>18. QED
  BY <1>2, <1>13, <1>14, <1>15, <1>16, <1>17 DEF Items!storeVars, Third!Store!storeVars

MeterInv ==
  /\ focus = "meter" => Parts!MeterTyped /\ Parts!MeterInv /\ Parts!BudgetInv
  /\ focus = "retry" => Again!MeterTyped /\ Again!MeterInv /\ Again!BudgetInv

\* The invariant of the component holds while it is in focus.
LEMMA MeterInvariant == Spec => []MeterInv
<1>1. Init => MeterInv
  BY FocusBegins, MeterSame, RetrySame, DistinctValues, Parts!InitMeter, Again!InitMeter, Parts!InitBudget,
     Again!InitBudget DEF MeterInv
<1>2. MeterInv /\ [Next]_vars => MeterInv'
  <2>1. ASSUME MeterInv, [Next]_vars, focus = "meter" PROVE Parts!MeterTyped' /\ Parts!MeterInv' /\ Parts!BudgetInv'
    BY <2>1, FocusStays, MeterSame, DistinctValues, Parts!NextMeter, Parts!NextBudget DEF MeterInv
  <2>2. ASSUME MeterInv, [Next]_vars, focus = "retry" PROVE Again!MeterTyped' /\ Again!MeterInv' /\ Again!BudgetInv'
    BY <2>2, FocusStays, RetrySame, DistinctValues, Again!NextMeter, Again!NextBudget DEF MeterInv
  <2>3. QED BY <2>1, <2>2, FocusStays DEF MeterInv
<1>3. QED BY <1>1, <1>2, PTL DEF Spec

\* Record, InsertLLMUsage: no call is charged twice, no acknowledged one is lost.
THEOREM ChargedHere == Spec => []ChargedOnce
<1>1. MeterInv => ChargedOnce
  BY MeterSame, RetrySame, DistinctValues, Parts!ChargedFollows, Again!ChargedFollows DEF MeterInv, ChargedOnce
<1>2. QED BY <1>1, MeterInvariant, PTL

\* RoundTrip: a month is overrun by less than the calls under way may consume.
THEOREM OvershootHere == Spec => []OvershootBounded
<1>1. MeterInv => OvershootBounded
  BY MeterSame, DistinctValues, Parts!BoundFollows DEF MeterInv, OvershootBounded
<1>2. QED BY <1>1, MeterInvariant, PTL

CollInv == focus = "coll" => Parts!CollTyped /\ Parts!CollInv /\ Parts!CollBounds

\* The invariant of the component holds while it is in focus.
LEMMA CollInvariant == Spec => []CollInv
<1>1. Init => CollInv
  BY FocusBegins, CollSame, DistinctValues, Parts!InitColl, Parts!InitCollBounds DEF CollInv
<1>2. CollInv /\ [Next]_vars => CollInv'
  BY FocusStays, CollSame, DistinctValues, Parts!NextColl, Parts!NextCollBounds DEF CollInv
<1>3. QED BY <1>1, <1>2, PTL DEF Spec

\* reconcile, poolFor: no loop and no pool that nobody can stop or close.
THEOREM AccountedHere == Spec => []Accounted
<1>1. CollInv => Accounted
  BY CollSame, Parts!AccountedFollows DEF CollInv, Accounted
<1>2. QED BY <1>1, CollInvariant, PTL

ThreadInv ==
  /\ focus = "races" => Parts!StoreInv
  /\ focus = "lists" => Again!StoreInv
  /\ focus = "items" => Third!StoreInv

\* The invariant of the component holds while it is in focus.
LEMMA ThreadInvariant == Spec => []ThreadInv
<1>1. Init => ThreadInv
  BY FocusBegins, RacesSame, ListsSame, ItemsSame, DistinctValues, Parts!InitPages, Again!InitPages, Third!InitPages
  DEF ThreadInv
<1>2. ThreadInv /\ [Next]_vars => ThreadInv'
  <2>1. ASSUME ThreadInv, [Next]_vars, focus = "races" PROVE Parts!StoreInv'
    BY <2>1, FocusStays, RacesSame, DistinctValues, Parts!NextPages DEF ThreadInv
  <2>2. ASSUME ThreadInv, [Next]_vars, focus = "lists" PROVE Again!StoreInv'
    BY <2>2, FocusStays, ListsSame, DistinctValues, Again!NextPages DEF ThreadInv
  <2>3. ASSUME ThreadInv, [Next]_vars, focus = "items" PROVE Third!StoreInv'
    BY <2>3, FocusStays, ItemsSame, DistinctValues, Third!NextPages DEF ThreadInv
  <2>4. QED BY <2>1, <2>2, <2>3, FocusStays DEF ThreadInv
<1>3. QED BY <1>1, <1>2, PTL DEF Spec

\* ListDatasources, ListItems, ListThreads: following the cursors leaves nothing out
\* that stays, and shows nothing twice.
THEOREM PagesHere == Spec => []PagesAreSeamless
<1>1. ASSUME ResInv, focus = "list" PROVE List!PageWalkExact
  BY <1>1, ListSame DEF ResInv, ListP!ResourcesInv, ListP!Walked, ListP!PageWalkExact
<1>2. ASSUME ThreadInv, focus = "items" PROVE Items!ItemWalkExact
  BY <1>2, ItemsSame, Third!ItemsExact DEF ThreadInv
<1>3. ASSUME ThreadInv, focus = "lists" PROVE Lists!ThreadWalkExact
  BY <1>3, ListsSame, DistinctValues, Again!ThreadsExact DEF ThreadInv
<1>4. ResInv /\ ThreadInv => PagesAreSeamless
  BY <1>1, <1>2, <1>3, Zenon DEF PagesAreSeamless
<1>5. QED BY <1>4, ResInvariant, ThreadInvariant, PTL

\* handshake, DeleteThreads: a revoked connector and a deleted thread stay so.
THEOREM EndedHere == Spec => EndedIsFinal
<1> DEFINE Final == CASE focus = "id" -> Id!StaysRevoked [] focus = "races" -> Races!StaysDeleted [] OTHER -> TRUE
<1>1. IdInv /\ ThreadInv /\ [Next]_vars => [Final]_vars
  <2> SUFFICES ASSUME IdInv, ThreadInv, [Next]_vars, vars' # vars PROVE Final
    OBVIOUS
  <2>1. ASSUME focus = "id" PROVE Id!StaysRevoked
    <3>1. [IdP!StaysRevoked]_(IdP!idVars)
      BY <2>1, FocusStays, IdSame, DistinctValues, IdP!RevokedStep DEF IdInv
    <3>2. CASE UNCHANGED IdP!idVars
      BY <3>2 DEF IdP!idVars, Id!StaysRevoked
    <3>3. QED BY <3>1, <3>2, IdSame
  <2>2. ASSUME focus = "races" PROVE Races!StaysDeleted
    BY <2>2, FocusStays, RacesSame, Parts!EveryStoreStep, Parts!DeletedStep DEF ThreadInv, Parts!StoreInv, Parts!ThreadsTyped
  <2>3. QED BY <2>1, <2>2, Zenon
<1>2. QED BY <1>1, IdInvariant, ThreadInvariant, PTL DEF Spec, EndedIsFinal

-----------------------------------------------------------------------------
(* Collections from a database.                                             *)

\* The two instances of the probe say the same.
LEMMA ProbeSame ==
  /\ Probes!Init <=> IdP!Probes!Init
  /\ [Probes!Next]_(Probes!vars) <=> [IdP!Probes!Next]_(IdP!Probes!vars)
  /\ Probes!ProbeAssumption <=> IdP!Probes!ProbeAssumption
  /\ Probes!TypeOK <=> IdP!Probes!TypeOK
  /\ Probes!CollectionIsSound <=> IdP!Probes!CollectionIsSound
<1>1. Probes!Init <=> IdP!Probes!Init
  BY Zenon DEF Probes!Init, IdP!Probes!Init, Probes!Databases, IdP!Probes!Databases, Probes!Statistics,
     IdP!Probes!Statistics, Probes!Idle, IdP!Probes!Idle, Probes!Nothing, IdP!Probes!Nothing
<1>2. Probes!Change <=> IdP!Probes!Change
  BY Zenon DEF Probes!Change, IdP!Probes!Change, Probes!Databases, IdP!Probes!Databases, Probes!Statistics,
     IdP!Probes!Statistics, Probes!Cardinality, IdP!Probes!Cardinality, Probes!IsFiniteSet,
     IdP!Probes!IsFiniteSet
<1>3. ASSUME NEW via, NEW kind, NEW family, NEW ok
      PROVE  Probes!Collect(via, kind, family, ok) <=> IdP!Probes!Collect(via, kind, family, ok)
  BY Zenon DEF Probes!Collect, IdP!Probes!Collect, Probes!CommandKinds, IdP!Probes!CommandKinds, Probes!Nothing,
     IdP!Probes!Nothing, Probes!Idle, IdP!Probes!Idle
<1>4. /\ Probes!ProbeSource <=> IdP!Probes!ProbeSource
      /\ Probes!ReadCheck <=> IdP!Probes!ReadCheck
  BY Zenon DEF Probes!ProbeSource, IdP!Probes!ProbeSource, Probes!ReadCheck, IdP!Probes!ReadCheck,
     Probes!NextSource, IdP!Probes!NextSource, Probes!Present, IdP!Probes!Present, Probes!Readable,
     IdP!Probes!Readable, Probes!Statistics, IdP!Probes!Statistics, Probes!Source, IdP!Probes!Source,
     Probes!Chain, IdP!Probes!Chain, Probes!Sources, IdP!Probes!Sources
<1>5. Probes!QueryFails <=> IdP!Probes!QueryFails
  BY Zenon DEF Probes!QueryFails, IdP!Probes!QueryFails, Probes!NextSource, IdP!Probes!NextSource,
     Probes!Answers, IdP!Probes!Answers, Probes!Readable, IdP!Probes!Readable, Probes!Statistics,
     IdP!Probes!Statistics, Probes!Source, IdP!Probes!Source, Probes!Chain, IdP!Probes!Chain, Probes!Sources,
     IdP!Probes!Sources
<1>6. Probes!RunQuery <=> IdP!Probes!RunQuery
  BY Zenon DEF Probes!RunQuery, IdP!Probes!RunQuery, Probes!Answers, IdP!Probes!Answers, Probes!Readable,
     IdP!Probes!Readable, Probes!Statistics, IdP!Probes!Statistics, Probes!Queries, IdP!Probes!Queries,
     Probes!QueryRows, IdP!Probes!QueryRows, Probes!Listed, IdP!Probes!Listed, Probes!First, IdP!Probes!First,
     Probes!Owned, IdP!Probes!Owned, Probes!Sorted, IdP!Probes!Sorted, Probes!ByTable, IdP!Probes!ByTable,
     Probes!ByCost, IdP!Probes!ByCost, Probes!Cardinality, IdP!Probes!Cardinality, Probes!IsFiniteSet,
     IdP!Probes!IsFiniteSet, Probes!Source, IdP!Probes!Source, Probes!Chain, IdP!Probes!Chain, Probes!Sources,
     IdP!Probes!Sources
<1>7. Probes!Fill <=> IdP!Probes!Fill
  BY Zenon DEF Probes!Fill, IdP!Probes!Fill, Probes!FillSnapshot, IdP!Probes!FillSnapshot, Probes!ParseTables,
     IdP!Probes!ParseTables, Probes!ParseStatements, IdP!Probes!ParseStatements, Probes!TableKey,
     IdP!Probes!TableKey, Probes!First, IdP!Probes!First, Probes!EnforceSnapshotSize,
     IdP!Probes!EnforceSnapshotSize, Probes!Size, IdP!Probes!Size, Probes!EntrySize, IdP!Probes!EntrySize,
     Probes!DropTail, IdP!Probes!DropTail, Probes!Truncated, IdP!Probes!Truncated, Probes!Idle, IdP!Probes!Idle,
     Probes!Cardinality, IdP!Probes!Cardinality, Probes!IsFiniteSet, IdP!Probes!IsFiniteSet, Probes!Source,
     IdP!Probes!Source, Probes!Chain, IdP!Probes!Chain, Probes!Sources, IdP!Probes!Sources
<1>8. /\ Probes!Exhausted <=> IdP!Probes!Exhausted
      /\ Probes!FinishBatch <=> IdP!Probes!FinishBatch
      /\ Probes!UploadFails <=> IdP!Probes!UploadFails
  BY Zenon DEF Probes!Exhausted, IdP!Probes!Exhausted, Probes!FinishBatch, IdP!Probes!FinishBatch,
     Probes!UploadFails, IdP!Probes!UploadFails, Probes!BatchComplete, IdP!Probes!BatchComplete,
     Probes!Entries, IdP!Probes!Entries, Probes!Idle, IdP!Probes!Idle, Probes!Source, IdP!Probes!Source,
     Probes!Chain, IdP!Probes!Chain, Probes!Sources, IdP!Probes!Sources
<1>9. ASSUME NEW e
      PROVE  Probes!CollectEntry(e) <=> IdP!Probes!CollectEntry(e)
  BY Zenon DEF Probes!CollectEntry, IdP!Probes!CollectEntry, Probes!HasValue, IdP!Probes!HasValue,
     Probes!MainAnswers, IdP!Probes!MainAnswers, Probes!AltAnswers, IdP!Probes!AltAnswers
<1>10. Probes!Next <=> IdP!Probes!Next
  BY <1>2, <1>3, <1>4, <1>5, <1>6, <1>7, <1>8, <1>9, Zenon DEF Probes!Next, IdP!Probes!Next, Probes!CommandKinds,
     IdP!Probes!CommandKinds, Probes!Entries, IdP!Probes!Entries
<1>11. Probes!ProbeAssumption <=> IdP!Probes!ProbeAssumption
  BY Zenon DEF Probes!ProbeAssumption, IdP!Probes!ProbeAssumption, Probes!TableKey, IdP!Probes!TableKey,
     Probes!IsFiniteSet, IdP!Probes!IsFiniteSet
<1>12. /\ Probes!TypeOK <=> IdP!Probes!TypeOK
       /\ Probes!CollectionIsSound <=> IdP!Probes!CollectionIsSound
  BY Zenon DEF Probes!TypeOK, IdP!Probes!TypeOK, Probes!CollectionIsSound, IdP!Probes!CollectionIsSound,
     Probes!MaxEntries, IdP!Probes!MaxEntries,
     Probes!Databases, IdP!Probes!Databases, Probes!Statistics, IdP!Probes!Statistics, Probes!Entries,
     IdP!Probes!Entries, Probes!Size, IdP!Probes!Size, Probes!EntrySize, IdP!Probes!EntrySize,
     Probes!Cardinality, IdP!Probes!Cardinality, Probes!IsFiniteSet, IdP!Probes!IsFiniteSet
<1>13. QED
  BY <1>1, <1>10, <1>11, <1>12 DEF Probes!vars, IdP!Probes!vars

ProbeInv == focus = "probe" => IdP!ProbeInv

\* The invariant of the component holds while it is in focus.
LEMMA ProbeInvariant == Spec => []ProbeInv
<1>1. Init => ProbeInv
  BY FocusBegins, ProbeSame, DistinctValues, IdP!InitProbe DEF ProbeInv
<1>2. ProbeInv /\ [Next]_vars => ProbeInv'
  BY FocusStays, ProbeSame, DistinctValues, IdP!NextProbe DEF ProbeInv
<1>3. QED BY <1>1, <1>2, PTL DEF Spec

\* Collect, enforceSnapshotSize: what a collection says of a database, and a snapshot
\* holds, is true of it whatever changes between two queries.
THEOREM CollectionHere == Spec => []CollectionIsSound
<1>1. ProbeInv => CollectionIsSound
  BY ProbeSame DEF ProbeInv, CollectionIsSound, IdP!ProbeInv
<1>2. QED BY <1>1, ProbeInvariant, PTL

-----------------------------------------------------------------------------
(* All of them.                                                             *)

Foci == {"id", "res", "list", "data", "range", "meter", "retry", "coll", "races", "lists", "items", "probe"}

\* One of the components is in focus.
LEMMA FocusIsOne == Spec => [](focus \in Foci)
<1>1. Init => focus \in Foci
  BY DEF Init, Foci
<1>2. focus \in Foci /\ [Next]_vars => (focus \in Foci)'
  BY FocusStays
<1>3. QED BY <1>1, <1>2, PTL DEF Spec

\* The tables, calls, loops, pages and collections of each component are what its code
\* takes them for.
THEOREM TypesHere == Spec => []TypeOK
<1>1. ASSUME IdInv, focus = "id" PROVE Id!TypeOK
  BY <1>1, IdSame DEF IdInv, IdP!Typed
<1>2. ASSUME ResInv, focus = "res" PROVE Res!TypeOK
  BY <1>2, ResSame, ResP!TypeParts DEF ResInv
<1>3. ASSUME ResInv, focus = "list" PROVE List!TypeOK
  BY <1>3, ListSame, ListP!TypeParts DEF ResInv
<1>4. ASSUME DataInv, focus = "data" PROVE Data!TypeOK
  BY <1>4, DataSame, DataP!TypeParts DEF DataInv
<1>5. ASSUME DataInv, focus = "range" PROVE Range!TypeOK
  BY <1>5, RangeSame, RangeP!TypeParts DEF DataInv
<1>6. ASSUME MeterInv, focus = "meter" PROVE Meter!TypeOK
  BY <1>6, MeterSame, DistinctValues, Parts!MeterTypes DEF MeterInv
<1>7. ASSUME MeterInv, focus = "retry" PROVE Retry!TypeOK
  BY <1>7, RetrySame, DistinctValues, Again!MeterTypes DEF MeterInv
<1>8. ASSUME CollInv, focus = "coll" PROVE Coll!TypeOK
  BY <1>8, CollSame, Parts!CollTypes DEF CollInv
<1>9. ASSUME ThreadInv, focus = "races" PROVE Races!TypeOK
  BY <1>9, RacesSame, DistinctValues, Parts!StoreTypes DEF ThreadInv
<1>10. ASSUME ThreadInv, focus = "lists" PROVE Lists!TypeOK
  BY <1>10, ListsSame, DistinctValues, Again!StoreTypes DEF ThreadInv
<1>11. ASSUME ThreadInv, focus = "items" PROVE Items!TypeOK
  BY <1>11, ItemsSame, DistinctValues, Third!StoreTypes DEF ThreadInv
<1>12. ASSUME ProbeInv, focus = "probe" PROVE Probes!TypeOK
  BY <1>12, ProbeSame, IdP!ProbeTypes DEF ProbeInv
<1>13. /\ IdInv /\ ResInv /\ DataInv /\ MeterInv /\ CollInv /\ ThreadInv /\ ProbeInv
       /\ focus \in Foci
       => TypeOK
  BY <1>1, <1>2, <1>3, <1>4, <1>5, <1>6, <1>7, <1>8, <1>9, <1>10, <1>11, <1>12 DEF Foci, TypeOK
<1>14. QED
  BY <1>13, IdInvariant, ResInvariant, DataInvariant, MeterInvariant, CollInvariant, ThreadInvariant,
     ProbeInvariant, FocusIsOne, PTL
=============================================================================
