----------------------- MODULE ConsoleResourcesProofs -----------------------
(***************************************************************************)
(* Proofs about ConsoleResources for every set of requests: one creation   *)
(* per key, no secret without its datasource, no reference to a row that   *)
(* is gone, whatever the transactions of the requests read before they     *)
(* wrote.                                                                  *)
(***************************************************************************)
EXTENDS ConsoleResources, FiniteSetTheorems, WellFoundedInduction, TLAPS

\* What a request carries between its steps.
RequestType ==
  [op : Creates \cup {"none", "patch", "rotate", "delete", "unalias"},
   pc : {"idle", "open", "read", "done"}, key : Keys \cup {None}, t : Reqs \cup {None},
   o : Reqs \cup Modes \cup {None}, kind : Kinds \cup {None}, name : Names \cup {None},
   ref : Bindings, at : Nat, made : Reqs \cup {None}]

Requests ==
  {q \in RequestType : /\ q.op = "datasource" => q.name \in Names
                       /\ q.op \in Creates => q.o \in Modes \cup {None}
                       /\ q.op \in {"alias", "patch", "rotate", "delete", "unalias"} => q.t \in Reqs}

TablesTyped ==
  /\ ds \in [Reqs -> Row \cup {None}] /\ creds \in [Reqs -> Reqs \cup {None}]
  /\ owners \in [Kinds -> SUBSET Reqs] /\ alias \in Reqs \cup {None}
  /\ idem \in [Keys -> Record \cup {None}]

RequestsTyped == req \in [Reqs -> Requests] /\ clock \in Nat

WalkTyped ==
  \E pc, cursor, seen, twice : \E due \in SUBSET Reqs :
    walk = [pc |-> pc, cursor |-> cursor, seen |-> seen, twice |-> twice, due |-> due]

Typed == TablesTyped /\ RequestsTyped /\ WalkTyped

\* The parts say more than the type invariant.
LEMMA TypeParts == Typed => TypeOK
<1> SUFFICES ASSUME Typed PROVE TypeOK
  OBVIOUS
<1>1. /\ \A r \in Reqs : ds[r] = None \/ ds[r] \in Row
      /\ creds \in [Reqs -> Reqs \cup {None}] /\ owners \in [Kinds -> SUBSET Reqs]
      /\ alias \in Reqs \cup {None}
      /\ \A k \in Keys : idem[k] = None \/ idem[k] \in Record
  BY DEF Typed, TablesTyped
<1>2. \A r \in Reqs : /\ req[r].pc \in {"idle", "open", "read", "done"} /\ req[r].key \in Keys \cup {None}
                      /\ req[r].made \in Reqs \cup {None}
  BY DEF Typed, RequestsTyped, Requests, RequestType
<1>3. walk.due \subseteq Reqs
  BY DEF Typed, WalkTyped
<1>4. QED BY <1>1, <1>2, <1>3 DEF TypeOK

\* A request that has not begun names nothing.
LEMMA IdleRequest ==
  /\ Idle \in RequestType /\ Idle.op = "none" /\ Idle.made = None /\ Idle.t = None /\ Idle.o = None
  /\ Idle.pc = "idle" /\ Idle.key = None
<1>1. NoBindings \in Bindings
  BY DEF NoBindings, Bindings
<1>2. QED BY <1>1 DEF Idle, RequestType

\* One that begins knows its operation and the row it is for.
LEMMA NewRequest ==
  ASSUME NEW op \in Creates \cup {"patch", "rotate", "delete", "unalias"}, NEW t \in Reqs \cup {None}, clock \in Nat
  PROVE  /\ Request(op, t) \in RequestType
         /\ Request(op, t).op = op /\ Request(op, t).t = t /\ Request(op, t).o = None
         /\ Request(op, t).made = None /\ Request(op, t).pc = "open" /\ Request(op, t).key = None
<1> DEFINE i == Idle
<1>1. /\ i \in RequestType /\ i.made = None /\ i.key = None /\ i.o = None
      /\ Request(op, t) = [i EXCEPT !.op = op, !.pc = "open", !.t = t, !.at = clock]
  BY IdleRequest DEF Request
<1>2. op \in Creates \cup {"none", "patch", "rotate", "delete", "unalias"}
  OBVIOUS
<1> HIDE DEF i
<1>3. [i EXCEPT !.op = op, !.pc = "open", !.t = t, !.at = clock] \in RequestType
  BY <1>1, <1>2 DEF RequestType
<1>4. /\ [i EXCEPT !.op = op, !.pc = "open", !.t = t, !.at = clock].op = op
      /\ [i EXCEPT !.op = op, !.pc = "open", !.t = t, !.at = clock].t = t
      /\ [i EXCEPT !.op = op, !.pc = "open", !.t = t, !.at = clock].o = None
      /\ [i EXCEPT !.op = op, !.pc = "open", !.t = t, !.at = clock].made = None
      /\ [i EXCEPT !.op = op, !.pc = "open", !.t = t, !.at = clock].pc = "open"
      /\ [i EXCEPT !.op = op, !.pc = "open", !.t = t, !.at = clock].key = None
  BY <1>1 DEF RequestType
<1>5. QED BY <1>1, <1>3, <1>4

-----------------------------------------------------------------------------
(* How each kind of step moves a request.                                   *)

Starts(r) ==
  StartDatasource(r) \/ StartOwner(r) \/ StartAlias(r) \/ StartPatch(r) \/ StartRotate(r) \/ StartDelete(r)
    \/ StartUnalias(r)

\* A new request names no row as its own.
LEMMA StartMoves ==
  ASSUME ResourcesAssumption, Typed, NEW r \in Reqs, Starts(r)
  PROVE  /\ UNCHANGED <<tables, walk>> /\ clock' = clock + 1
         /\ \E q \in Requests : /\ q.made = None /\ q.pc # "done" /\ req[r].pc = "idle"
                                /\ req' = [req EXCEPT ![r] = q]
<1>0. clock \in Nat
  BY DEF Typed, RequestsTyped
<1>1. UNCHANGED <<tables, walk>> /\ clock' = clock + 1 /\ req[r].pc = "idle"
  BY DEF Starts, StartDatasource, StartOwner, StartAlias, StartPatch, StartRotate, StartDelete, StartUnalias, Starting
<1>2. \A t \in Live : t \in Reqs
  BY DEF Live
<1>3. \A k \in Kinds : owners[k] \subseteq Reqs
  BY DEF Typed, TablesTyped
<1>5. CASE StartDatasource(r)
  <2> DEFINE Named(n, mode, b, k) == [Request("datasource", None) EXCEPT !.name = n, !.o = mode, !.ref = b, !.key = k]
  <2>0. \E n \in Names, mode \in Modes, b \in Bindings, k \in Keys \cup {None} : Begin(r, Named(n, mode, b, k))
    BY <1>5, Zenon DEF StartDatasource
  <2>1. PICK n \in Names, mode \in Modes, b \in Bindings, k \in Keys \cup {None} :
          req' = [req EXCEPT ![r] = Named(n, mode, b, k)]
    BY <2>0, Zenon DEF Begin
  <2> DEFINE i == Request("datasource", None)
             q == [i EXCEPT !.name = n, !.o = mode, !.ref = b, !.key = k]
  <2>2. i \in RequestType /\ i.op = "datasource" /\ i.t = None /\ i.made = None /\ i.pc = "open"
    BY <1>0, NewRequest DEF Creates
  <2>3. req' = [req EXCEPT ![r] = q]
    BY <2>1
  <2> HIDE DEF i
  <2>4. q \in RequestType /\ q.op = "datasource" /\ q.t = None /\ q.made = None /\ q.pc # "done" /\ q.name \in Names
        /\ q.o \in Modes
    BY <2>2 DEF RequestType
  <2> HIDE DEF q
  <2>5. q \in Requests
    BY <2>4 DEF Requests
  <2>6. QED BY <1>1, <2>3, <2>4, <2>5
<1>6. CASE StartOwner(r)
  <2>1. PICK op \in Kinds, k \in Keys \cup {None} : req' = [req EXCEPT ![r] = [Request(op, None) EXCEPT !.key = k]]
    BY <1>6 DEF StartOwner, Begin
  <2> DEFINE i == Request(op, None)
             q == [i EXCEPT !.key = k]
  <2>2. i \in RequestType /\ i.op = op /\ i.t = None /\ i.made = None /\ i.pc = "open" /\ i.o = None
    BY <1>0, NewRequest DEF Creates
  <2>3. req' = [req EXCEPT ![r] = q]
    BY <2>1
  <2> HIDE DEF i
  <2>4. q \in RequestType /\ q.op = op /\ q.t = None /\ q.made = None /\ q.pc # "done" /\ q.o = None
    BY <2>2 DEF RequestType
  <2> HIDE DEF q
  <2>5. op \in {"group", "agent"}
    BY DEF ResourcesAssumption
  <2>6. q \in Requests
    BY <2>4, <2>5 DEF Requests
  <2>7. QED BY <1>1, <2>3, <2>4, <2>6
<1>7. CASE StartAlias(r)
  <2>1. PICK t \in Reqs, k \in Keys \cup {None} : req' = [req EXCEPT ![r] = [Request("alias", t) EXCEPT !.key = k]]
    BY <1>2, <1>7 DEF StartAlias, Begin
  <2> DEFINE i == Request("alias", t)
             q == [i EXCEPT !.key = k]
  <2>2. i \in RequestType /\ i.op = "alias" /\ i.t = t /\ i.made = None /\ i.pc = "open" /\ i.o = None
    BY <1>0, NewRequest DEF Creates
  <2>3. req' = [req EXCEPT ![r] = q]
    BY <2>1
  <2> HIDE DEF i
  <2>4. q \in RequestType /\ q.op = "alias" /\ q.t = t /\ q.made = None /\ q.pc # "done" /\ q.o = None
    BY <2>2 DEF RequestType
  <2> HIDE DEF q
  <2>5. q \in Requests
    BY <2>4 DEF Requests
  <2>6. QED BY <1>1, <2>3, <2>4, <2>5
<1>8. CASE StartPatch(r)
  <2>1. PICK t \in Reqs, k \in Kinds, o \in Reqs \cup {None} :
          req' = [req EXCEPT ![r] = [Request("patch", t) EXCEPT !.pc = "read", !.kind = k, !.o = o]]
    BY <1>2, <1>3, <1>8 DEF StartPatch, Begin
  <2> DEFINE i == Request("patch", t)
             q == [i EXCEPT !.pc = "read", !.kind = k, !.o = o]
  <2>2. i \in RequestType /\ i.op = "patch" /\ i.t = t /\ i.made = None
    BY <1>0, NewRequest
  <2>3. req' = [req EXCEPT ![r] = q]
    BY <2>1
  <2> HIDE DEF i
  <2>4. q \in RequestType /\ q.op = "patch" /\ q.t = t /\ q.made = None /\ q.pc # "done"
    BY <2>2 DEF RequestType
  <2> HIDE DEF q
  <2>5. q \in Requests
    BY <2>4 DEF Requests, Creates, ResourcesAssumption
  <2>6. QED BY <1>1, <2>3, <2>4, <2>5
<1>9. CASE StartRotate(r) \/ StartDelete(r)
  <2>1. PICK op \in {"rotate", "delete"}, t \in Reqs : req' = [req EXCEPT ![r] = Request(op, t)]
    BY <1>2, <1>3, <1>9 DEF StartRotate, StartDelete, Begin
  <2> DEFINE q == Request(op, t)
  <2>2. q \in RequestType /\ q.op = op /\ q.t = t /\ q.made = None /\ q.pc # "done"
    BY <1>0, NewRequest
  <2>3. req' = [req EXCEPT ![r] = q]
    BY <2>1
  <2> HIDE DEF q
  <2>4. q \in Requests
    BY <2>2 DEF Requests, Creates, ResourcesAssumption
  <2>5. QED BY <1>1, <2>2, <2>3, <2>4
<1>10. CASE StartUnalias(r)
  <2>1. PICK t \in Reqs : req' = [req EXCEPT ![r] = [Request("unalias", t) EXCEPT !.pc = "read"]]
    BY <1>2, <1>10 DEF StartUnalias, Begin
  <2> DEFINE i == Request("unalias", t)
             q == [i EXCEPT !.pc = "read"]
  <2>2. i \in RequestType /\ i.op = "unalias" /\ i.t = t /\ i.made = None
    BY <1>0, NewRequest
  <2>3. req' = [req EXCEPT ![r] = q]
    BY <2>1
  <2> HIDE DEF i
  <2>4. q \in RequestType /\ q.op = "unalias" /\ q.t = t /\ q.made = None /\ q.pc # "done"
    BY <2>2 DEF RequestType
  <2> HIDE DEF q
  <2>5. q \in Requests
    BY <2>4 DEF Requests, Creates, ResourcesAssumption
  <2>6. QED BY <1>1, <2>3, <2>4, <2>5
<1>11. QED BY <1>1, <1>5, <1>6, <1>7, <1>8, <1>9, <1>10 DEF Starts

\* An answer ends the request and keeps its key if it names a row.
LEMMA AnswerMoves ==
  ASSUME ResourcesAssumption, Typed, NEW r \in Reqs, NEW w \in Reqs \cup {None}, Answer(r, w)
  PROVE  \E q \in Requests : /\ q.pc = "done" /\ q.made = w /\ q.op = "none" /\ req' = [req EXCEPT ![r] = q]
                             /\ q.key = IF w = None THEN None ELSE req[r].key
<1> DEFINE i == Idle
           k == IF w = None THEN None ELSE req[r].key
           q == [i EXCEPT !.pc = "done", !.made = w, !.key = k]
<1>1. req' = [req EXCEPT ![r] = q]
  BY DEF Answer
<1>2. i \in RequestType /\ i.op = "none"
  BY IdleRequest
<1>3. k \in Keys \cup {None}
  BY DEF Typed, RequestsTyped, Requests, RequestType
<1> HIDE DEF i, k
<1>4. q \in RequestType
  BY <1>2, <1>3 DEF RequestType
<1>5. q.op = "none" /\ q.pc = "done" /\ q.made = w /\ q.key = k
  BY <1>2 DEF RequestType
<1> HIDE DEF q
<1>6. q \in Requests
  BY <1>4, <1>5 DEF Requests, Creates, ResourcesAssumption
<1>7. QED BY <1>1, <1>5, <1>6 DEF k

\* Reading goes on with the same request.
LEMMA ReadMoves ==
  ASSUME Typed, NEW r \in Reqs, Read(r)
  PROVE  /\ UNCHANGED tables
         /\ \E q \in Requests : /\ q.pc = "read" /\ q.made = req[r].made /\ q.key = req[r].key
                                /\ q.op = req[r].op /\ q.at = req[r].at
                                /\ req' = [req EXCEPT ![r] = q]
<1> DEFINE q == [req[r] EXCEPT !.pc = "read"]
<1>1. UNCHANGED tables /\ req' = [req EXCEPT ![r] = q]
  BY DEF Read
<1>2. req[r] \in Requests
  BY DEF Typed, RequestsTyped
<1>3. /\ q \in Requests /\ q.pc = "read" /\ q.made = req[r].made /\ q.key = req[r].key
      /\ q.op = req[r].op /\ q.at = req[r].at
  BY <1>2 DEF Requests, RequestType
<1>4. QED BY <1>1, <1>3


\* What a step does to requests and records: a request begins, is refused or is
\* over without a row; it has read; it is answered with the row of a record; or it
\* has made a row, and the record with it.
Moved(r, q) ==
  \/ q.made = None /\ UNCHANGED idem
  \/ q.made = req[r].made /\ q.key = req[r].key /\ UNCHANGED idem
  \/ /\ q.key = req[r].key /\ q.key # None /\ idem[q.key] # None /\ q.made = idem[q.key].id
     /\ UNCHANGED idem
  \/ q.pc = "done" /\ q.made = r /\ q.key = req[r].key /\ req[r].op \in Creates /\ PutIdempotencyRecord(r)

RequestMoved ==
  \E r \in Reqs, q \in Requests :
    req' = [req EXCEPT ![r] = q] /\ Moved(r, q) /\ req[r].pc # "done"

\* The steps of a request after the first one.
Goes(r) ==
  \/ GetIdempotencyRecord(r) \/ Rollback(r)
  \/ InsertDatasource(r) \/ InsertGroup(r) \/ InsertAgent(r) \/ InsertAlias(r)
  \/ UpdateDatasource(r) \/ PutCredential(r) \/ ReadBindings(r) \/ RotateDatasourceCredential(r)
  \/ DeleteDatasource(r) \/ DeleteAlias(r) \/ DeleteGroup(r) \/ DeleteAgent(r)
  \/ \E k \in Kinds : CountBound(r, k)

\* A request is answered with no row, or refused, or reads.
LEMMA PlainMoves ==
  ASSUME ResourcesAssumption, Typed, NEW r \in Reqs, req[r].pc # "done",
         Refuse(r) \/ Read(r) \/ (Answer(r, None) /\ UNCHANGED idem)
  PROVE  RequestMoved
<1>1. CASE Answer(r, None) /\ UNCHANGED idem
  <2>1. \E q \in Requests : q.made = None /\ req' = [req EXCEPT ![r] = q]
    BY <1>1, AnswerMoves
  <2>2. QED BY <1>1, <2>1 DEF RequestMoved, Moved
<1>2. CASE Read(r)
  <2>1. UNCHANGED idem
    BY <1>2, ReadMoves DEF tables
  <2>2. QED BY <1>2, <2>1, ReadMoves DEF RequestMoved, Moved
<1>3. QED BY <1>1, <1>2 DEF Refuse, tables

\* A row is made together with its record.
LEMMA CreationMoves ==
  ASSUME ResourcesAssumption, Typed, NEW r \in Reqs, req[r].pc # "done", req[r].op \in Creates, Created(r)
  PROVE  RequestMoved
<1>1. PutIdempotencyRecord(r) /\ Answer(r, r)
  BY DEF Created
<1>2. r # None
  BY DEF ResourcesAssumption
<1>3. \E q \in Requests : q.pc = "done" /\ q.made = r /\ q.key = req[r].key /\ req' = [req EXCEPT ![r] = q]
  BY <1>1, <1>2, AnswerMoves
<1>4. QED BY <1>1, <1>3 DEF RequestMoved, Moved

\* The idempotency record decides: replay, refusal, or the creation goes on.
LEMMA ReplayMoves ==
  ASSUME ResourcesAssumption, Typed, NEW r \in Reqs, GetIdempotencyRecord(r)
  PROVE  RequestMoved
<1> DEFINE k == req[r].key
           rec == IF k = None THEN None ELSE idem[k]
<1>1. req[r].pc # "done" /\ k \in Keys \cup {None}
  BY DEF GetIdempotencyRecord, Typed, RequestsTyped, Requests, RequestType
<1>2. Refuse(r) \/ Read(r) \/ (rec # None /\ Answer(r, rec.id) /\ UNCHANGED tables)
  BY Zenon DEF GetIdempotencyRecord
<1>3. CASE rec # None /\ Answer(r, rec.id) /\ UNCHANGED tables
  <2>1. k \in Keys /\ k # None /\ rec = idem[k] /\ rec \in Record
    BY <1>1, <1>3 DEF Typed, TablesTyped
  <2>2. rec.id \in Reqs /\ rec.id # None
    BY <2>1 DEF Record, ResourcesAssumption
  <2> HIDE DEF rec
  <2>3. PICK q \in Requests : q.made = rec.id /\ q.key = k /\ req' = [req EXCEPT ![r] = q]
    BY <1>3, <2>2, AnswerMoves
  <2>4. UNCHANGED idem
    BY <1>3 DEF tables
  <2>5. Moved(r, q)
    BY <1>3, <2>1, <2>3, <2>4 DEF Moved
  <2>6. QED BY <1>1, <2>3, <2>5 DEF RequestMoved
<1>4. QED BY <1>1, <1>2, <1>3, PlainMoves

\* Every step moves at most one request.
LEMMA RequestMoves ==
  ASSUME ResourcesAssumption, Typed, Next
  PROVE  \/ UNCHANGED <<tables, req>> /\ (StartWalk \/ NextPage)
         \/ RequestMoved
<1>1. ASSUME NEW r \in Reqs, Starts(r) PROVE RequestMoved
  <2>1. PICK q \in Requests : q.made = None /\ req[r].pc = "idle" /\ req' = [req EXCEPT ![r] = q]
    BY <1>1, StartMoves
  <2>2. UNCHANGED idem
    BY <1>1, StartMoves DEF tables
  <2>3. QED BY <2>1, <2>2 DEF RequestMoved, Moved
<1>2. ASSUME NEW r \in Reqs, Goes(r) PROVE RequestMoved
  <2>1. CASE GetIdempotencyRecord(r)
    BY <2>1, ReplayMoves
  <2>2. CASE InsertDatasource(r) \/ InsertGroup(r) \/ InsertAgent(r) \/ InsertAlias(r)
    <3>1. Created(r) /\ req[r].pc # "done" /\ req[r].op \in {"datasource", "group", "agent", "alias"}
      BY <2>2 DEF InsertDatasource, InsertGroup, InsertAgent, InsertAlias, Writing
    <3>2. req[r].op \in Creates
      BY <3>1 DEF Typed, RequestsTyped, Requests, RequestType
    <3>3. QED BY <3>1, <3>2, CreationMoves
  <2>3. CASE Rollback(r)
    BY <2>3, PlainMoves DEF Rollback
  <2>4. CASE UpdateDatasource(r) \/ DeleteAlias(r)
    <3>1. req[r].pc # "done" /\ (Refuse(r) \/ (Answer(r, None) /\ UNCHANGED idem))
      BY <2>4 DEF UpdateDatasource, DeleteAlias, Writing
    <3>2. QED BY <3>1, PlainMoves
  <2>5. CASE PutCredential(r) \/ ReadBindings(r) \/ \E k \in Kinds : CountBound(r, k)
    <3>1. req[r].pc # "done" /\ (Refuse(r) \/ Read(r))
      BY <2>5 DEF PutCredential, ReadBindings, CountBound
    <3>2. QED BY <3>1, PlainMoves
  <2>6. CASE RotateDatasourceCredential(r) \/ DeleteDatasource(r) \/ DeleteGroup(r) \/ DeleteAgent(r)
    <3>1. req[r].pc # "done" /\ Answer(r, None) /\ UNCHANGED idem
      BY <2>6 DEF RotateDatasourceCredential, DeleteDatasource, DeleteGroup, DeleteAgent, Writing
    <3>2. QED BY <3>1, PlainMoves
  <2>7. QED BY <1>2, <2>1, <2>2, <2>3, <2>4, <2>5, <2>6 DEF Goes
<1>3. (\E r \in Reqs : Starts(r) \/ Goes(r)) \/ StartWalk \/ NextPage
  BY DEF Next, Starts, Goes
<1>4. StartWalk \/ NextPage => UNCHANGED <<tables, req>>
  BY DEF StartWalk, NextPage
<1>5. QED BY <1>1, <1>2, <1>3, <1>4


-----------------------------------------------------------------------------
(* What a step does to the tables.                                          *)

RowMade ==
  \E r \in Reqs, new \in Row :
    /\ req[r].pc = "read" /\ req'[r].pc = "done" /\ req[r].op = "datasource" /\ new.at = req[r].at
    /\ new.cred \in {r, None} /\ \A k \in Kinds : new.ref[k] \in owners[k] \cup {None}
    /\ ds' = [ds EXCEPT ![r] = new]
    /\ creds' = IF new.cred = None THEN creds ELSE [creds EXCEPT ![r] = r]
    /\ UNCHANGED <<owners, alias>>

RowBound ==
  \E t \in Reqs, k \in Kinds : \E o \in owners[k] \cup {None} :
    ds[t] # None /\ ds' = [ds EXCEPT ![t].ref[k] = o] /\ UNCHANGED <<creds, owners, alias>>

SecretRotated ==
  \E t, r \in Reqs : ds[t] # None /\ creds' = [creds EXCEPT ![ds[t].cred] = r] /\ UNCHANGED <<ds, owners, alias>>

RowDropped ==
  \E t \in Reqs :
    /\ ds[t] # None /\ DropCredential(t) /\ ds' = [ds EXCEPT ![t] = None]
    /\ alias' = (IF alias = t THEN None ELSE alias) /\ UNCHANGED owners

OwnerMade ==
  \E r \in Reqs, k \in {"group", "agent"} : owners' = [owners EXCEPT ![k] = @ \cup {r}] /\ UNCHANGED <<ds, creds, alias>>

OwnerDropped ==
  \E t \in Reqs, k \in {"group", "agent"} :
    Unbound(k, t) /\ owners' = [owners EXCEPT ![k] = @ \ {t}] /\ UNCHANGED <<ds, creds, alias>>

AliasMoved ==
  /\ alias' = None \/ (alias' \in Reqs /\ ds[alias'] # None)
  /\ UNCHANGED <<ds, creds, owners>>

\* Every step is one of these.
LEMMA TableMoves ==
  ASSUME ResourcesAssumption, Typed, Next
  PROVE  \/ UNCHANGED <<ds, creds, owners, alias>>
         \/ RowMade \/ RowBound \/ SecretRotated \/ RowDropped \/ OwnerMade \/ OwnerDropped \/ AliasMoved
<1> DEFINE Still == UNCHANGED <<ds, creds, owners, alias>>
<1>0. ASSUME NEW r \in Reqs PROVE req[r] \in Requests
  BY DEF Typed, RequestsTyped
<1>1. ASSUME NEW r \in Reqs, Starts(r) PROVE Still
  BY <1>1, StartMoves DEF tables
<1>2. ASSUME NEW r \in Reqs,
             \/ GetIdempotencyRecord(r) \/ Rollback(r) \/ PutCredential(r) \/ ReadBindings(r)
             \/ \E k \in Kinds : CountBound(r, k)
      PROVE  Still
  <2>1. UNCHANGED tables
    BY <1>2 DEF GetIdempotencyRecord, Rollback, PutCredential, ReadBindings, CountBound, Refuse, Read
  <2>2. QED BY <2>1 DEF tables
<1>3. ASSUME NEW r \in Reqs, InsertDatasource(r) PROVE RowMade
  <2> DEFINE cred == IF req[r].o = "direct" THEN r ELSE None
             new == [name |-> req[r].name, cred |-> cred, ref |-> req[r].ref, at |-> req[r].at]
  <2>1. /\ req[r].op = "datasource" /\ req[r].pc = "read" /\ Answer(r, r)
        /\ ds' = [ds EXCEPT ![r] = new] /\ UNCHANGED <<owners, alias>>
        /\ creds' = IF req[r].o = "direct" THEN [creds EXCEPT ![r] = r] ELSE creds
        /\ \A k \in Kinds : req[r].ref[k] \in owners[k] \cup {None}
    BY <1>3 DEF InsertDatasource, Writing, Created, InsertCredential, Owner
  <2>2. req[r].name \in Names /\ req[r].at \in Nat /\ req[r].ref \in Bindings
    BY <1>0, <2>1 DEF Requests, RequestType
  <2>3. new \in Row /\ new.cred = cred /\ new.ref = req[r].ref /\ new.at = req[r].at
    BY <2>2 DEF Row
  <2>4. req'[r].pc = "done"
    <3>1. PICK q \in Requests : q.pc = "done" /\ req' = [req EXCEPT ![r] = q]
      BY <2>1, AnswerMoves
    <3>2. QED BY <3>1 DEF Typed, RequestsTyped
  <2>5. creds' = IF cred = None THEN creds ELSE [creds EXCEPT ![r] = r]
    BY <2>1 DEF ResourcesAssumption
  <2> HIDE DEF new
  <2>6. new.cred \in {r, None} /\ (\A k \in Kinds : new.ref[k] \in owners[k] \cup {None})
        /\ creds' = IF new.cred = None THEN creds ELSE [creds EXCEPT ![r] = r]
    BY <2>1, <2>3, <2>5
  <2>7. QED BY <2>1, <2>3, <2>4, <2>6 DEF RowMade
<1>4. ASSUME NEW r \in Reqs, InsertGroup(r) \/ InsertAgent(r) PROVE OwnerMade
  BY <1>4 DEF InsertGroup, InsertAgent, OwnerMade
<1>5. ASSUME NEW r \in Reqs, InsertAlias(r) PROVE AliasMoved
  <2>1. req[r].op = "alias" /\ alias' = req[r].t /\ ds[req[r].t] # None /\ UNCHANGED <<ds, creds, owners>>
    BY <1>5 DEF InsertAlias, Writing
  <2>2. req[r].t \in Reqs
    BY <1>0, <2>1 DEF Requests
  <2>3. QED BY <2>1, <2>2 DEF AliasMoved
<1>6. ASSUME NEW r \in Reqs, UpdateDatasource(r) PROVE Still \/ RowBound
  <2>1. CASE ds[req[r].t] = None
    BY <1>6, <2>1 DEF UpdateDatasource, Refuse, tables
  <2>2. CASE ds[req[r].t] # None
    <3> DEFINE t == req[r].t
               k == req[r].kind
               o == req[r].o
    <3>1. /\ o \in owners[k] \cup {None} /\ ds' = [ds EXCEPT ![t].ref[k] = o] /\ req[r].op = "patch"
          /\ UNCHANGED <<creds, owners, alias>>
      BY <1>6, <2>2 DEF UpdateDatasource, Bind, Owner, Writing
    <3>2. t \in Reqs
      BY <1>0, <3>1 DEF Requests
    <3>3. k \in Kinds \/ k \notin Kinds
      OBVIOUS
    <3>4. CASE k \in Kinds
      BY <2>2, <3>1, <3>2, <3>4 DEF RowBound
    <3>5. CASE k \notin Kinds
      <4>1. ds[t] \in Row /\ ds \in [Reqs -> Row \cup {None}]
        BY <2>2, <3>2 DEF Typed, TablesTyped
      <4>2. ds[t].ref \in Bindings /\ ds[t] \in [{"name", "cred", "ref", "at"} -> {ds[t][f] : f \in {"name", "cred", "ref", "at"}}]
        BY <4>1 DEF Row
      <4>3. [ds[t].ref EXCEPT ![k] = o] = ds[t].ref
        BY <3>5, <4>2 DEF Bindings
      <4>4. QED BY <3>1, <3>2, <4>1, <4>2, <4>3
    <3>6. QED BY <3>4, <3>5
  <2>3. QED BY <2>1, <2>2
<1>7. ASSUME NEW r \in Reqs, RotateDatasourceCredential(r) PROVE SecretRotated
  <2>1. req[r].op = "rotate" /\ ds[req[r].t] # None /\ creds' = [creds EXCEPT ![ds[req[r].t].cred] = r]
        /\ UNCHANGED <<ds, owners, alias>>
    BY <1>7 DEF RotateDatasourceCredential, Writing
  <2>2. req[r].t \in Reqs
    BY <1>0, <2>1 DEF Requests
  <2>3. QED BY <2>1, <2>2 DEF SecretRotated
<1>8. ASSUME NEW r \in Reqs, DeleteDatasource(r) PROVE RowDropped
  <2>1. req[r].op = "delete" /\ ds[req[r].t] # None /\ DropCredential(req[r].t) /\ ds' = [ds EXCEPT ![req[r].t] = None]
        /\ alias' = (IF alias = req[r].t THEN None ELSE alias) /\ UNCHANGED owners
    BY <1>8 DEF DeleteDatasource, Writing
  <2>2. req[r].t \in Reqs
    BY <1>0, <2>1 DEF Requests
  <2>3. QED BY <2>1, <2>2 DEF RowDropped
<1>9. ASSUME NEW r \in Reqs, DeleteAlias(r) PROVE Still \/ AliasMoved
  BY <1>9 DEF DeleteAlias, AliasMoved, Refuse, tables
<1>10. ASSUME NEW r \in Reqs, DeleteGroup(r) \/ DeleteAgent(r) PROVE OwnerDropped
  <2>1. req[r].op = "delete"
    BY <1>10 DEF DeleteGroup, DeleteAgent, Writing
  <2>2. req[r].t \in Reqs
    BY <1>0, <2>1 DEF Requests
  <2>3. QED BY <1>10, <2>2 DEF DeleteGroup, DeleteAgent, OwnerDropped
<1>11. StartWalk \/ NextPage => Still
  BY DEF StartWalk, NextPage, tables
<1>12. (\E r \in Reqs : Starts(r) \/ Goes(r)) \/ StartWalk \/ NextPage
  BY DEF Next, Starts, Goes
<1>13. ASSUME NEW r \in Reqs, Goes(r)
       PROVE  Still \/ RowMade \/ RowBound \/ SecretRotated \/ RowDropped \/ OwnerMade \/ OwnerDropped \/ AliasMoved
  BY <1>2, <1>3, <1>4, <1>5, <1>6, <1>7, <1>8, <1>9, <1>10, <1>13 DEF Goes
<1>14. QED BY <1>1, <1>11, <1>12, <1>13


-----------------------------------------------------------------------------
(* Types.                                                                   *)

\* A record is written once and then stays.
LEMMA RecordMoves ==
  ASSUME ResourcesAssumption, Typed, NEW r \in Reqs, req[r].op \in Creates, PutIdempotencyRecord(r)
  PROVE  /\ idem' \in [Keys -> Record \cup {None}]
         /\ \A k \in Keys : idem[k] # None => idem'[k] = idem[k]
         /\ req[r].key # None => idem'[req[r].key] # None /\ idem'[req[r].key].id = r
<1>1. idem \in [Keys -> Record \cup {None}] /\ req[r].key \in Keys \cup {None}
  BY DEF Typed, TablesTyped, RequestsTyped, Requests, RequestType
<1>2. CASE req[r].key = None
  BY <1>1, <1>2 DEF PutIdempotencyRecord
<1>3. CASE req[r].key # None
  <2> DEFINE v == [hash |-> Body(r), id |-> r]
  <2>0. Body(r) \in Bodies
    <3>1. req[r] \in Requests
      BY DEF Typed, RequestsTyped
    <3>2. QED BY <3>1 DEF Requests, RequestType, Body, Bodies
  <2>1. v \in Record /\ v.id = r
    BY <2>0 DEF Record
  <2>2. v # None
    BY <2>1 DEF ResourcesAssumption
  <2>3. idem[req[r].key] = None /\ idem' = [idem EXCEPT ![req[r].key] = v]
    BY <1>3 DEF PutIdempotencyRecord
  <2> HIDE DEF v
  <2>4. QED BY <1>1, <1>3, <2>1, <2>2, <2>3
<1>4. QED BY <1>2, <1>3

\* Requests stay requests.
LEMMA RequestsStayTyped ==
  ASSUME ResourcesAssumption, Typed, Next
  PROVE  RequestsTyped'
<1>1. req' \in [Reqs -> Requests]
  BY RequestMoves DEF Typed, RequestsTyped, RequestMoved
<1>2. clock' \in Nat
  <2>1. clock \in Nat
    BY DEF Typed, RequestsTyped
  <2>2. ASSUME NEW r \in Reqs, Starts(r) PROVE clock' = clock + 1
    BY <2>2, StartMoves
  <2>3. ASSUME NEW r \in Reqs, Goes(r) PROVE UNCHANGED clock
    BY <2>3 DEF Goes, GetIdempotencyRecord, Rollback, InsertDatasource, InsertGroup, InsertAgent, InsertAlias, Created,
       UpdateDatasource, PutCredential, ReadBindings, RotateDatasourceCredential, DeleteDatasource, DeleteAlias,
       DeleteGroup, DeleteAgent, CountBound
  <2>4. StartWalk \/ NextPage => UNCHANGED clock
    BY DEF StartWalk, NextPage
  <2>5. QED BY <2>1, <2>2, <2>3, <2>4 DEF Next, Starts, Goes
<1>3. QED BY <1>1, <1>2 DEF RequestsTyped

\* The client of the list keeps what was due.
LEMMA WalkStaysTyped ==
  ASSUME ResourcesAssumption, Typed, Next
  PROVE  WalkTyped'
<1>a. PICK pc, cursor, seen, twice : \E due \in SUBSET Reqs :
        walk = [pc |-> pc, cursor |-> cursor, seen |-> seen, twice |-> twice, due |-> due]
  BY DEF Typed, WalkTyped
<1>1. PICK due \in SUBSET Reqs :
        walk = [pc |-> pc, cursor |-> cursor, seen |-> seen, twice |-> twice, due |-> due]
  BY <1>a
<1>2. ASSUME UNCHANGED walk PROVE WalkTyped'
  BY <1>1, <1>2 DEF WalkTyped
<1>3. ASSUME StartWalk PROVE WalkTyped'
  <2>1. walk' = [walk EXCEPT !.pc = "page", !.due = Live]
    BY <1>3 DEF StartWalk
  <2>2. walk' = [pc |-> "page", cursor |-> cursor, seen |-> seen, twice |-> twice, due |-> Live]
    BY <1>1, <2>1
  <2>3. Live \in SUBSET Reqs
    BY DEF Live
  <2>4. QED BY <2>2, <2>3 DEF WalkTyped
<1>4. ASSUME NEW a, NEW b, NEW c, NEW d, walk' = [walk EXCEPT !.pc = a, !.cursor = b, !.seen = c, !.twice = d]
      PROVE  WalkTyped'
  <2>1. walk' = [pc |-> a, cursor |-> b, seen |-> c, twice |-> d, due |-> due]
    BY <1>1, <1>4
  <2>2. QED BY <2>1 DEF WalkTyped
<1>5. ASSUME NextPage
      PROVE  \E a, b, c, d : walk' = [walk EXCEPT !.pc = a, !.cursor = b, !.seen = c, !.twice = d]
  BY <1>5, Zenon DEF NextPage
<1>6. ASSUME NEW r \in Reqs, Starts(r) \/ Goes(r) PROVE UNCHANGED walk
  BY <1>6, StartMoves DEF Goes, GetIdempotencyRecord, Rollback, InsertDatasource, InsertGroup, InsertAgent, InsertAlias,
     Created, UpdateDatasource, PutCredential, ReadBindings, RotateDatasourceCredential, DeleteDatasource, DeleteAlias,
     DeleteGroup, DeleteAgent, CountBound
<1>7. (\E r \in Reqs : Starts(r) \/ Goes(r)) \/ StartWalk \/ NextPage
  BY DEF Next, Starts, Goes
<1>8. QED BY <1>2, <1>3, <1>4, <1>5, <1>6, <1>7

\* The tables hold what they are for.
LEMMA TablesStayTyped ==
  ASSUME ResourcesAssumption, Typed, Next
  PROVE  TablesTyped'
<1>1. /\ ds \in [Reqs -> Row \cup {None}] /\ creds \in [Reqs -> Reqs \cup {None}]
      /\ owners \in [Kinds -> SUBSET Reqs] /\ alias \in Reqs \cup {None}
      /\ idem \in [Keys -> Record \cup {None}]
  BY DEF Typed, TablesTyped
<1>2. idem' \in [Keys -> Record \cup {None}]
  <2>1. UNCHANGED idem \/ \E r \in Reqs : req[r].op \in Creates /\ PutIdempotencyRecord(r)
    BY RequestMoves DEF RequestMoved, Moved, tables
  <2>2. QED BY <1>1, <2>1, RecordMoves
<1> DEFINE Good == /\ ds' \in [Reqs -> Row \cup {None}] /\ creds' \in [Reqs -> Reqs \cup {None}]
                   /\ owners' \in [Kinds -> SUBSET Reqs] /\ alias' \in Reqs \cup {None}
<1>3. ASSUME UNCHANGED <<ds, creds, owners, alias>> PROVE Good
  BY <1>1, <1>3
<1>4. ASSUME RowMade PROVE Good
  BY <1>1, <1>4 DEF RowMade
<1>5. ASSUME RowBound PROVE Good
  <2>a. PICK t \in Reqs, k \in Kinds : \E o \in owners[k] \cup {None} :
          ds[t] # None /\ ds' = [ds EXCEPT ![t].ref[k] = o] /\ UNCHANGED <<creds, owners, alias>>
    BY <1>5 DEF RowBound
  <2>1. PICK o \in owners[k] \cup {None} :
          ds[t] # None /\ ds' = [ds EXCEPT ![t].ref[k] = o] /\ UNCHANGED <<creds, owners, alias>>
    BY <2>a
  <2> DEFINE new == [ds[t] EXCEPT !.ref[k] = o]
  <2>2. ds[t] \in Row /\ o \in Reqs \cup {None}
    BY <1>1, <2>1
  <2>3. new \in Row
    BY <2>2 DEF Row, Bindings
  <2>4. ds' = [ds EXCEPT ![t] = new]
    BY <2>1
  <2> HIDE DEF new
  <2>5. QED BY <1>1, <2>1, <2>3, <2>4
<1>6. ASSUME SecretRotated PROVE Good
  BY <1>1, <1>6 DEF SecretRotated
<1>7. ASSUME RowDropped PROVE Good
  BY <1>1, <1>7 DEF RowDropped, DropCredential
<1>8. ASSUME OwnerMade PROVE Good
  <2>1. PICK r \in Reqs, k \in {"group", "agent"} :
          owners' = [owners EXCEPT ![k] = @ \cup {r}] /\ UNCHANGED <<ds, creds, alias>>
    BY <1>8 DEF OwnerMade
  <2>2. owners' \in [Kinds -> SUBSET Reqs]
    BY <1>1, <2>1
  <2>3. QED BY <1>1, <2>1, <2>2
<1>9. ASSUME OwnerDropped PROVE Good
  <2>1. PICK r \in Reqs, k \in {"group", "agent"} :
          owners' = [owners EXCEPT ![k] = @ \ {r}] /\ UNCHANGED <<ds, creds, alias>>
    BY <1>9 DEF OwnerDropped
  <2>2. owners' \in [Kinds -> SUBSET Reqs]
    BY <1>1, <2>1
  <2>3. QED BY <1>1, <2>1, <2>2
<1>10. ASSUME AliasMoved PROVE Good
  BY <1>1, <1>10 DEF AliasMoved
<1>11. Good
  BY <1>3, <1>4, <1>5, <1>6, <1>7, <1>8, <1>9, <1>10, TableMoves
<1>12. QED BY <1>2, <1>11 DEF TablesTyped

\* Every step keeps the types.
LEMMA NextTyped == ResourcesAssumption /\ Typed /\ [Next]_resVars => Typed'
<1> SUFFICES ASSUME ResourcesAssumption, Typed, [Next]_resVars PROVE Typed'
  OBVIOUS
<1>1. CASE UNCHANGED resVars
  BY <1>1 DEF resVars, tables, Typed, TablesTyped, RequestsTyped, WalkTyped
<1>2. CASE Next
  BY <1>2, TablesStayTyped, RequestsStayTyped, WalkStaysTyped DEF Typed
<1>3. QED BY <1>1, <1>2

\* The three rows of the past.
LEMMA InitTyped == ResourcesAssumption /\ Init => Typed
<1> SUFFICES ASSUME ResourcesAssumption, Init PROVE Typed
  OBVIOUS
<1>0. OldDs \in Reqs /\ OldGroup \in Reqs /\ OldAgent \in Reqs
  BY DEF ResourcesAssumption, Old
<1>1. TablesTyped
  <2>1. [name |-> "old", cred |-> OldDs, ref |-> NoBindings, at |-> 1] \in Row
    BY <1>0 DEF Row, NoBindings, Bindings
  <2>2. ds \in [Reqs -> Row \cup {None}]
    BY <2>1 DEF Init
  <2>3. QED BY <1>0, <2>2 DEF Init, TablesTyped
<1>2. RequestsTyped
  <2> DEFINE i == Idle
             d == [i EXCEPT !.pc = "done"]
  <2>1. i \in RequestType /\ i.op = "none"
    BY IdleRequest
  <2>2. req = [r \in Reqs |-> IF r \in Old THEN d ELSE i] /\ clock = 2
    BY DEF Init
  <2> HIDE DEF i
  <2>3. d \in RequestType /\ d.op = "none"
    BY <2>1 DEF RequestType
  <2> HIDE DEF d
  <2>4. d \in Requests /\ i \in Requests
    BY <2>1, <2>3 DEF Requests, Creates, ResourcesAssumption
  <2>5. QED BY <2>2, <2>4 DEF RequestsTyped
<1>3. WalkTyped
  BY DEF Init, WalkTyped
<1>4. QED BY <1>1, <1>2, <1>3 DEF Typed


-----------------------------------------------------------------------------
(* Idempotent creation.                                                     *)

\* Who was answered with a row under a key was answered with the row of its record.
KeysRecorded ==
  \A r \in Reqs : req[r].made # None /\ req[r].key # None =>
    idem[req[r].key] # None /\ req[r].made = idem[req[r].key].id

\* Records are never overwritten, so that an answer stays right.
LEMMA KeysStep ==
  ASSUME ResourcesAssumption, Typed, KeysRecorded, Next
  PROVE  KeysRecorded'
<1>0. req \in [Reqs -> Requests] /\ \A a \in Reqs : req[a].key \in Keys \cup {None}
  BY DEF Typed, RequestsTyped, Requests, RequestType
<1>1. CASE UNCHANGED <<tables, req>>
  BY <1>1 DEF tables, KeysRecorded
<1>2. ASSUME NEW r \in Reqs, NEW q \in Requests, req' = [req EXCEPT ![r] = q], Moved(r, q)
      PROVE  KeysRecorded'
  <2>1. \A k \in Keys : idem[k] # None => idem'[k] = idem[k]
    BY <1>2, RecordMoves DEF Moved
  <2>2. q.made # None /\ q.key # None => idem'[q.key] # None /\ q.made = idem'[q.key].id
    BY <1>2, RecordMoves DEF Moved, KeysRecorded
  <2>3. req'[r] = q /\ \A a \in Reqs \ {r} : req'[a] = req[a]
    BY <1>0, <1>2
  <2>4. ASSUME NEW a \in Reqs, req'[a].made # None, req'[a].key # None
        PROVE  idem'[req'[a].key] # None /\ req'[a].made = idem'[req'[a].key].id
    <3>1. CASE a = r
      BY <2>2, <2>3, <2>4, <3>1
    <3>2. CASE a # r
      <4>1. req'[a] = req[a]
        BY <2>3, <3>2
      <4>2. idem[req[a].key] # None /\ req[a].made = idem[req[a].key].id
        BY <2>4, <4>1 DEF KeysRecorded
      <4>3. req[a].key \in Keys
        BY <1>0, <2>4, <4>1
      <4>4. QED BY <2>1, <4>1, <4>2, <4>3
    <3>3. QED BY <3>1, <3>2
  <2>5. QED BY <2>4 DEF KeysRecorded
<1>3. QED BY <1>1, <1>2, RequestMoves DEF RequestMoved

\* Two answers under one key name the row of one record.
LEMMA OneRecord == KeysRecorded => OneCreationPerKey
BY DEF KeysRecorded, OneCreationPerKey

-----------------------------------------------------------------------------
(* Secrets.                                                                 *)

\* A request that is not over has made nothing, a row has no other secret than its
\* own, and a secret is there exactly if its row is.
SecretsMatch ==
  /\ \A r \in Reqs : req[r].pc # "done" => ds[r] = None /\ creds[r] = None
  /\ \A d \in Reqs : ds[d] # None => ds[d].cred \in {d, None}
  /\ \A d \in Reqs : creds[d] # None <=> ds[d] # None /\ ds[d].cred = d

\* A secret comes and goes with its row.
LEMMA SecretsStep ==
  ASSUME ResourcesAssumption, Typed, SecretsMatch, Next
  PROVE  SecretsMatch'
<1>0. /\ ds \in [Reqs -> Row \cup {None}] /\ creds \in [Reqs -> Reqs \cup {None}] /\ None \notin Reqs \cup Row
      /\ req \in [Reqs -> Requests]
  BY DEF Typed, TablesTyped, RequestsTyped, ResourcesAssumption
<1>1. \A r \in Reqs : req'[r].pc # "done" => req[r].pc # "done"
  BY <1>0, RequestMoves DEF RequestMoved
<1>2. ASSUME UNCHANGED <<ds, creds>> PROVE SecretsMatch'
  BY <1>1, <1>2 DEF SecretsMatch
<1>3. ASSUME RowMade PROVE SecretsMatch'
  <2>1. PICK r \in Reqs, new \in Row :
          /\ req[r].pc = "read" /\ req'[r].pc = "done" /\ new.cred \in {r, None}
          /\ ds' = [ds EXCEPT ![r] = new]
          /\ creds' = IF new.cred = None THEN creds ELSE [creds EXCEPT ![r] = r]
    BY <1>3 DEF RowMade
  <2>2. ds'[r] = new /\ new # None /\ r # None /\ \A d \in Reqs \ {r} : ds'[d] = ds[d] /\ creds'[d] = creds[d]
    BY <1>0, <2>1
  <2>3. creds[r] = None /\ creds'[r] = IF new.cred = None THEN None ELSE r
    BY <1>0, <2>1 DEF SecretsMatch
  <2>4. ASSUME NEW d \in Reqs, d # r
        PROVE  /\ req'[d].pc # "done" => ds'[d] = None /\ creds'[d] = None
               /\ ds'[d] # None => ds'[d].cred \in {d, None}
               /\ creds'[d] # None <=> ds'[d] # None /\ ds'[d].cred = d
    BY <1>1, <2>2, <2>4 DEF SecretsMatch
  <2>5. /\ ds'[r] # None => ds'[r].cred \in {r, None}
        /\ creds'[r] # None <=> ds'[r] # None /\ ds'[r].cred = r
    BY <2>1, <2>2, <2>3
  <2>6. QED BY <2>1, <2>4, <2>5 DEF SecretsMatch
<1>4. ASSUME RowBound PROVE SecretsMatch'
  <2>1. PICK t \in Reqs, k \in Kinds : \E o \in owners[k] \cup {None} :
          ds[t] # None /\ ds' = [ds EXCEPT ![t].ref[k] = o] /\ UNCHANGED creds
    BY <1>4 DEF RowBound
  <2>2. PICK o \in owners[k] \cup {None} : ds[t] # None /\ ds' = [ds EXCEPT ![t].ref[k] = o] /\ UNCHANGED creds
    BY <2>1
  <2>3. ds[t] \in Row
    BY <1>0, <2>2
  <2> DEFINE new == [ds[t] EXCEPT !.ref[k] = o]
  <2>4. new.cred = ds[t].cred /\ ds' = [ds EXCEPT ![t] = new]
    BY <2>2, <2>3 DEF Row, Bindings
  <2>5. new # None
    <3>1. o \in Reqs \cup {None}
      BY <2>2 DEF Typed, TablesTyped
    <3>2. new \in Row
      BY <2>3, <3>1 DEF Row, Bindings
    <3>3. QED BY <1>0, <3>2
  <2> HIDE DEF new
  <2>6. ds'[t] = new /\ \A d \in Reqs \ {t} : ds'[d] = ds[d]
    BY <1>0, <2>4
  <2>7. \A d \in Reqs : /\ ds'[d] # None <=> ds[d] # None
                        /\ ds[d] # None => ds'[d].cred = ds[d].cred
    BY <2>2, <2>4, <2>5, <2>6
  <2>8. QED BY <1>1, <2>2, <2>7 DEF SecretsMatch
<1>5. ASSUME SecretRotated PROVE SecretsMatch'
  <2>1. PICK t \in Reqs, r \in Reqs : ds[t] # None /\ creds' = [creds EXCEPT ![ds[t].cred] = r] /\ UNCHANGED ds
    BY <1>5 DEF SecretRotated
  <2>2. ds[t].cred \in {t, None}
    BY <2>1 DEF SecretsMatch
  <2>3. \A d \in Reqs : creds'[d] # None <=> creds[d] # None
    <3>1. CASE ds[t].cred = None
      BY <1>0, <2>1, <3>1
    <3>2. CASE ds[t].cred = t
      <4>1. creds[t] # None /\ r # None
        BY <1>0, <2>1, <3>2 DEF SecretsMatch
      <4>2. QED BY <1>0, <2>1, <3>2, <4>1
    <3>3. QED BY <2>2, <3>1, <3>2
  <2>4. QED BY <1>1, <2>1, <2>3 DEF SecretsMatch
<1>6. ASSUME RowDropped PROVE SecretsMatch'
  <2>1. PICK t \in Reqs : ds[t] # None /\ DropCredential(t) /\ ds' = [ds EXCEPT ![t] = None]
    BY <1>6 DEF RowDropped
  <2>2. \A d \in Reqs : creds'[d] = IF d = ds[t].cred THEN None ELSE creds[d]
    BY <2>1 DEF DropCredential
  <2>3. ds[t].cred \in {t, None}
    BY <2>1 DEF SecretsMatch
  <2>4. ds'[t] = None /\ creds'[t] = None /\ \A d \in Reqs \ {t} : ds'[d] = ds[d] /\ creds'[d] = creds[d]
    BY <1>0, <2>1, <2>2, <2>3 DEF SecretsMatch
  <2>5. ASSUME NEW d \in Reqs, d # t
        PROVE  /\ req'[d].pc # "done" => ds'[d] = None /\ creds'[d] = None
               /\ ds'[d] # None => ds'[d].cred \in {d, None}
               /\ creds'[d] # None <=> ds'[d] # None /\ ds'[d].cred = d
    BY <1>1, <2>4, <2>5 DEF SecretsMatch
  <2>6. QED BY <2>4, <2>5 DEF SecretsMatch
<1>7. OwnerMade \/ OwnerDropped \/ AliasMoved => UNCHANGED <<ds, creds>>
  BY DEF OwnerMade, OwnerDropped, AliasMoved
<1>8. QED BY <1>2, <1>3, <1>4, <1>5, <1>6, <1>7, TableMoves

\* The secrets that are there are those the rows name.
LEMMA SecretsOwned == ResourcesAssumption /\ Typed /\ SecretsMatch => CredentialsOwned
<1> SUFFICES ASSUME ResourcesAssumption, Typed, SecretsMatch
             PROVE  {c \in Reqs : creds[c] # None} = {ds[d].cred : d \in Live} \ {None}
  BY DEF CredentialsOwned
<1>1. ASSUME NEW c \in Reqs, creds[c] # None PROVE c \in {ds[d].cred : d \in Live} \ {None}
  BY <1>1 DEF SecretsMatch, Live, ResourcesAssumption
<1>2. ASSUME NEW d \in Live, ds[d].cred # None PROVE ds[d].cred \in Reqs /\ creds[ds[d].cred] # None
  BY <1>2 DEF SecretsMatch, Live
<1>3. QED BY <1>1, <1>2

-----------------------------------------------------------------------------
(* References.                                                              *)

\* No binding outlives its owner, and the alias not its datasource.
LEMMA RefsStep ==
  ASSUME ResourcesAssumption, Typed, NoDanglingRefs, Next
  PROVE  NoDanglingRefs'
<1>0. /\ ds \in [Reqs -> Row \cup {None}] /\ None \notin Reqs \cup Row
      /\ owners \in [Kinds -> SUBSET Reqs] /\ alias \in Reqs \cup {None}
  BY DEF Typed, TablesTyped, ResourcesAssumption
<1>1. /\ \A d \in Reqs, k \in Kinds : ds[d] # None /\ ds[d].ref[k] # None => ds[d].ref[k] \in owners[k]
      /\ alias # None => ds[alias] # None
  BY DEF NoDanglingRefs, Live
<1> DEFINE Refs == \A d \in Reqs, k \in Kinds : ds'[d] # None /\ ds'[d].ref[k] # None => ds'[d].ref[k] \in owners'[k]
           Aliased == alias' # None => alias' \in Reqs /\ ds'[alias'] # None
<1>2. ASSUME UNCHANGED <<ds, creds, owners, alias>> PROVE Refs /\ Aliased
  BY <1>0, <1>1, <1>2
<1>3. ASSUME RowMade PROVE Refs /\ Aliased
  <2>1. PICK r \in Reqs, new \in Row : /\ \A k \in Kinds : new.ref[k] \in owners[k] \cup {None}
                                       /\ ds' = [ds EXCEPT ![r] = new] /\ UNCHANGED <<owners, alias>>
    BY <1>3 DEF RowMade
  <2>2. ds'[r] = new /\ new # None /\ \A d \in Reqs \ {r} : ds'[d] = ds[d]
    BY <1>0, <2>1
  <2>3. QED BY <1>0, <1>1, <2>1, <2>2
<1>4. ASSUME RowBound PROVE Refs /\ Aliased
  <2>1. PICK t \in Reqs, k \in Kinds : \E o \in owners[k] \cup {None} :
          ds[t] # None /\ ds' = [ds EXCEPT ![t].ref[k] = o] /\ UNCHANGED <<owners, alias>>
    BY <1>4 DEF RowBound
  <2>2. PICK o \in owners[k] \cup {None} :
          ds[t] # None /\ ds' = [ds EXCEPT ![t].ref[k] = o] /\ UNCHANGED <<owners, alias>>
    BY <2>1
  <2>3. ds[t] \in Row /\ o \in Reqs \cup {None}
    BY <1>0, <2>2
  <2> DEFINE new == [ds[t] EXCEPT !.ref[k] = o]
  <2>4. new \in Row /\ new.ref = [ds[t].ref EXCEPT ![k] = o] /\ ds' = [ds EXCEPT ![t] = new]
    BY <2>2, <2>3 DEF Row, Bindings
  <2> HIDE DEF new
  <2>5. ds'[t] = new /\ new # None /\ \A d \in Reqs \ {t} : ds'[d] = ds[d]
    BY <1>0, <2>4
  <2>6. ds[t].ref \in [Kinds -> Reqs \cup {None}]
    BY <2>3 DEF Row, Bindings
  <2>7. \A j \in Kinds : new.ref[j] = IF j = k THEN o ELSE ds[t].ref[j]
    BY <2>4, <2>6
  <2>8. \A j \in Kinds : new.ref[j] # None => new.ref[j] \in owners[j]
    BY <1>1, <2>2, <2>7
  <2>9. QED BY <1>0, <1>1, <2>2, <2>5, <2>8
<1>5. ASSUME SecretRotated PROVE Refs /\ Aliased
  BY <1>0, <1>1, <1>5 DEF SecretRotated
<1>6. ASSUME RowDropped PROVE Refs /\ Aliased
  <2>1. PICK t \in Reqs : /\ ds' = [ds EXCEPT ![t] = None] /\ UNCHANGED owners
                          /\ alias' = (IF alias = t THEN None ELSE alias)
    BY <1>6 DEF RowDropped
  <2>2. ds'[t] = None /\ \A d \in Reqs \ {t} : ds'[d] = ds[d]
    BY <1>0, <2>1
  <2>3. QED BY <1>0, <1>1, <2>1, <2>2
<1>7. ASSUME OwnerMade PROVE Refs /\ Aliased
  <2>1. PICK r \in Reqs, k \in {"group", "agent"} : owners' = [owners EXCEPT ![k] = @ \cup {r}] /\ UNCHANGED <<ds, alias>>
    BY <1>7 DEF OwnerMade
  <2>2. \A j \in Kinds : owners[j] \subseteq owners'[j]
    BY <1>0, <2>1
  <2>3. QED BY <1>0, <1>1, <2>1, <2>2
<1>8. ASSUME OwnerDropped PROVE Refs /\ Aliased
  <2>1. PICK t \in Reqs, k \in {"group", "agent"} :
          Unbound(k, t) /\ owners' = [owners EXCEPT ![k] = @ \ {t}] /\ UNCHANGED <<ds, alias>>
    BY <1>8 DEF OwnerDropped
  <2>2. \A j \in Kinds : owners'[j] = IF j = k THEN owners[j] \ {t} ELSE owners[j]
    BY <1>0, <2>1
  <2>3. \A d \in Reqs : ds[d] # None => ds[d].ref[k] # t
    BY <2>1 DEF Unbound, Live
  <2>4. QED BY <1>0, <1>1, <2>1, <2>2, <2>3
<1>9. ASSUME AliasMoved PROVE Refs /\ Aliased
  BY <1>1, <1>9 DEF AliasMoved
<1>10. Refs /\ Aliased
  BY <1>2, <1>3, <1>4, <1>5, <1>6, <1>7, <1>8, <1>9, TableMoves
<1>11. QED BY <1>10 DEF NoDanglingRefs, Live

-----------------------------------------------------------------------------
(* Pages: numbers, and the first rows of a set.                             *)

\* A set of numbers that is not empty has a least one.
LEMMA LeastNumber ==
  ASSUME NEW T \in SUBSET Nat, T # {}
  PROVE  \E x \in T : \A y \in T : x <= y
<1>1. PICK x \in T : \A y \in T : ~ (<<y, x>> \in OpToRel(<, Nat))
  BY NatLessThanWellFounded, WFMin, Zenon
<1>2. \A y \in T : ~ (y < x)
  BY <1>1 DEF OpToRel
<1>3. QED BY <1>2

\* A set of numbers below a bound has a greatest one.
LEMMA GreatestNumber ==
  ASSUME NEW T \in SUBSET Nat, T # {}, NEW n \in Nat, \A y \in T : y < n
  PROVE  \E x \in T : \A y \in T : y <= x
<1> DEFINE U == {x \in Nat : \A y \in T : y <= x}
<1>1. U # {}
  BY DEF U
<1>2. PICK x \in U : \A y \in U : x <= y
  BY <1>1, LeastNumber
<1>3. CASE x \in T
  BY <1>2, <1>3
<1>4. CASE x \notin T
  <2>1. x \in Nat /\ \A y \in T : y \in Nat /\ y <= x /\ y # x
    BY <1>2, <1>4
  <2>a. PICK y \in T : TRUE
    OBVIOUS
  <2>2. x # 0
    BY <2>1, <2>a
  <2>3. x - 1 \in U
    BY <2>1, <2>2
  <2>4. QED BY <1>2, <2>1, <2>2, <2>3
<1>5. QED BY <1>3, <1>4

\* The rows of S with fewer than L older ones.
First(S, f, L) == {d \in S : Cardinality({e \in S : f[e] < f[d]}) < L}

\* If no two rows are of one age, these are at most L, all that are left out are
\* younger, and only when there are L of them is any left out.
LEMMA FirstRows ==
  ASSUME NEW S, IsFiniteSet(S), NEW f \in [S -> Nat], NEW L \in Nat, NEW n \in Nat,
         \A d \in S : f[d] < n, \A d, e \in S : f[d] = f[e] => d = e
  PROVE  /\ Cardinality(First(S, f, L)) \in Nat
         /\ Cardinality(First(S, f, L)) <= L
         /\ \A d \in S \ First(S, f, L), e \in First(S, f, L) : f[e] < f[d]
         /\ Cardinality(First(S, f, L)) # L => First(S, f, L) = S
<1> DEFINE P == First(S, f, L)
           Older(d) == {e \in S : f[e] < f[d]}
<1>1. P \subseteq S /\ \A d \in S : d \in P <=> Cardinality(Older(d)) < L
  BY DEF First
<1>2. IsFiniteSet(P) /\ Cardinality(P) \in Nat
  BY <1>1, FS_Subset, FS_CardinalityType
<1>3. \A d \in S : IsFiniteSet(Older(d)) /\ Cardinality(Older(d)) \in Nat
  <2>1. \A d \in S : Older(d) \in SUBSET S
    OBVIOUS
  <2> HIDE DEF Older
  <2>2. QED BY <2>1, FS_Subset, FS_CardinalityType
<1> HIDE DEF P
<1>4. ASSUME NEW d \in S \ P, NEW e \in P PROVE f[e] < f[d]
  <2>1. SUFFICES ASSUME ~(f[e] < f[d]) PROVE FALSE
    OBVIOUS
  <2>2. e \in S /\ f[d] \in Nat /\ f[e] \in Nat /\ f[d] <= f[e]
    BY <1>1, <2>1
  <2>3. Older(d) \in SUBSET Older(e)
    BY <2>2
  <2>4. Cardinality(Older(e)) < L /\ ~(Cardinality(Older(d)) < L)
    BY <1>1, <1>4
  <2> HIDE DEF Older
  <2>5. Cardinality(Older(d)) <= Cardinality(Older(e))
    BY <1>3, <2>2, <2>3, FS_Subset
  <2>6. QED BY <1>3, <2>2, <2>4, <2>5
<1>5. Cardinality(P) <= L
  <2>1. CASE P = {}
    BY <2>1, FS_EmptySet
  <2>2. CASE P # {}
    <3> DEFINE T == {f[d] : d \in P}
    <3>1. T \in SUBSET Nat /\ T # {} /\ \A y \in T : y < n
      BY <1>1, <2>2
    <3>2. \E x \in T : \A y \in T : y <= x
      BY <3>1, GreatestNumber
    <3>3. PICK m \in P : \A d \in P : f[d] <= f[m]
      BY <3>2
    <3>4. m \in S /\ P \in SUBSET (Older(m) \cup {m})
      BY <1>1, <3>3
    <3>5. Cardinality(Older(m)) < L
      BY <1>1, <3>3, <3>4
    <3> HIDE DEF Older
    <3>6. IsFiniteSet(Older(m) \cup {m}) /\ Cardinality(Older(m) \cup {m}) <= Cardinality(Older(m)) + 1
      BY <1>3, <3>4, FS_AddElement
    <3>7. IsFiniteSet(Older(m) \cup {m}) /\ Cardinality(Older(m) \cup {m}) \in Nat
      BY <3>6, FS_CardinalityType
    <3>8. Cardinality(P) <= Cardinality(Older(m) \cup {m})
      BY <3>4, <3>7, FS_Subset
    <3>9. QED BY <1>2, <1>3, <3>4, <3>5, <3>6, <3>7, <3>8
  <2>3. QED BY <2>1, <2>2
<1>6. ASSUME P # S PROVE Cardinality(P) = L
  <2> DEFINE T == {f[d] : d \in S \ P}
  <2>1. T \in SUBSET Nat /\ T # {}
    BY <1>1, <1>6
  <2>2. \E x \in T : \A y \in T : x <= y
    BY <2>1, LeastNumber
  <2>3. PICK m \in S \ P : \A d \in S \ P : f[m] <= f[d]
    BY <2>2
  <2>4. Older(m) \in SUBSET P
    BY <2>3
  <2>5. ~(Cardinality(Older(m)) < L) /\ Cardinality(Older(m)) \in Nat
    BY <1>1, <1>3, <2>3
  <2> HIDE DEF Older
  <2>6. Cardinality(Older(m)) <= Cardinality(P)
    BY <1>2, <2>4, FS_Subset
  <2>7. QED BY <1>2, <1>5, <2>5, <2>6
<1>7. QED BY <1>2, <1>4, <1>5, <1>6 DEF P

-----------------------------------------------------------------------------
(* Pages: the times of rows and requests.                                   *)

\* A request that is to become a row.
Asking(r) == req[r].op = "datasource"

\* A request has the time at which it began, no two have the same, and a row keeps
\* that of the request that made it.
Dated ==
  /\ IsFiniteSet(Live) /\ clock > 0
  /\ \A d \in Live : 0 < ds[d].at /\ ds[d].at < clock
  /\ \A d, e \in Live : ds[d].at = ds[e].at => d = e
  /\ \A r \in Reqs : Asking(r) => 0 < req[r].at /\ req[r].at < clock /\ \A d \in Live : ds[d].at # req[r].at
  /\ \A r, s \in Reqs : Asking(r) /\ Asking(s) /\ req[r].at = req[s].at => r = s

\* The steps of a request: it begins, reads, or is over.
LEMMA StampMoves ==
  ASSUME ResourcesAssumption, Typed, NEW r \in Reqs, Starts(r) \/ Goes(r)
  PROVE  /\ req[r].pc # "done" /\ UNCHANGED walk /\ \A s \in Reqs : s # r => req'[s] = req[s]
         /\ \/ clock' = clock + 1 /\ req'[r].at = clock /\ UNCHANGED ds
            \/ UNCHANGED clock /\ req'[r].op = "none"
            \/ /\ UNCHANGED clock /\ req'[r].op = req[r].op /\ req'[r].at = req[r].at /\ req'[r].pc = "read"
<1>0. req \in [Reqs -> Requests]
  BY DEF Typed, RequestsTyped
<1>1. CASE Starts(r)
  <2>1. \E q \in Requests : req[r].pc = "idle" /\ req' = [req EXCEPT ![r] = q]
    BY <1>1, StartMoves
  <2>2. UNCHANGED <<ds, walk>> /\ clock' = clock + 1
    BY <1>1, StartMoves DEF tables
  <2>3. \E q : q.at = clock /\ req' = [req EXCEPT ![r] = q]
    BY <1>1 DEF Starts, StartDatasource, StartOwner, StartAlias, StartPatch, StartRotate, StartDelete, StartUnalias,
       Begin, Request, Idle
  <2>4. req'[r].at = clock
    BY <1>0, <2>3
  <2>5. QED BY <1>0, <2>1, <2>2, <2>4
<1>2. CASE Goes(r)
  <2>1. UNCHANGED <<clock, walk>> /\ req[r].pc # "done"
    BY <1>2 DEF Goes, GetIdempotencyRecord, Rollback, InsertDatasource, InsertGroup, InsertAgent, InsertAlias, Created,
       UpdateDatasource, PutCredential, ReadBindings, RotateDatasourceCredential, DeleteDatasource, DeleteAlias,
       DeleteGroup, DeleteAgent, CountBound, Writing
  <2>2. Read(r) \/ \E w \in Reqs \cup {None} : Answer(r, w)
    <3>1. CASE GetIdempotencyRecord(r)
      <4> DEFINE k == req[r].key
                 rec == IF k = None THEN None ELSE idem[k]
      <4>1. Refuse(r) \/ Read(r) \/ (rec # None /\ Answer(r, rec.id))
        BY <3>1, Zenon DEF GetIdempotencyRecord
      <4>2. CASE rec # None /\ Answer(r, rec.id)
        <5>1. k \in Keys /\ rec = idem[k] /\ rec \in Record
          BY <1>0, <4>2 DEF Typed, TablesTyped, Requests, RequestType
        <5>2. rec.id \in Reqs
          BY <5>1 DEF Record
        <5>3. QED BY <4>2, <5>2
      <4>3. QED BY <4>1, <4>2 DEF Refuse
    <3>2. CASE ~GetIdempotencyRecord(r)
      BY <1>2, <3>2 DEF Goes, Rollback, InsertDatasource, InsertGroup, InsertAgent, InsertAlias, Created,
         UpdateDatasource, PutCredential, ReadBindings, RotateDatasourceCredential, DeleteDatasource, DeleteAlias,
         DeleteGroup, DeleteAgent, CountBound, Refuse
    <3>3. QED BY <3>1, <3>2
  <2>3. CASE Read(r)
    <3>1. PICK q \in Requests : /\ q.pc = "read" /\ q.op = req[r].op /\ q.at = req[r].at
                                /\ req' = [req EXCEPT ![r] = q]
      BY <2>3, ReadMoves
    <3>2. QED BY <1>0, <2>1, <3>1
  <2>4. CASE \E w \in Reqs \cup {None} : Answer(r, w)
    <3>1. PICK q \in Requests : q.op = "none" /\ req' = [req EXCEPT ![r] = q]
      BY <2>4, AnswerMoves
    <3>2. QED BY <1>0, <2>1, <3>1
  <2>5. QED BY <2>2, <2>3, <2>4
<1>3. QED BY <1>1, <1>2

\* Rows keep their times; a new one has that of its request, which is over.
LEMMA LiveMoves ==
  ASSUME ResourcesAssumption, Typed, Next
  PROVE  \E r \in Reqs :
           /\ Live' \subseteq Live \cup {r}
           /\ \A d \in Live' : \/ d \in Live /\ ds'[d].at = ds[d].at
                               \/ /\ d = r /\ req[d].pc = "read" /\ req'[d].pc = "done" /\ Asking(d)
                                  /\ ds'[d].at = req[d].at
<1>0. ds \in [Reqs -> Row \cup {None}] /\ None \notin Row /\ OldDs \in Reqs
  BY DEF Typed, TablesTyped, ResourcesAssumption, Old
<1> DEFINE Kept == Live' \subseteq Live /\ \A d \in Live' : ds'[d].at = ds[d].at
<1>1. UNCHANGED ds => Kept
  BY DEF Live
<1>2. RowDropped => Kept
  BY <1>0 DEF RowDropped, Live
<1>3. ASSUME RowBound PROVE Kept
  <2>a. PICK t \in Reqs, k \in Kinds : \E o \in owners[k] \cup {None} :
          ds[t] # None /\ ds' = [ds EXCEPT ![t].ref[k] = o]
    BY <1>3 DEF RowBound
  <2>1. PICK o \in owners[k] \cup {None} : ds[t] # None /\ ds' = [ds EXCEPT ![t].ref[k] = o]
    BY <2>a
  <2> DEFINE x == ds[t]
             new == [x EXCEPT !.ref[k] = o]
  <2>2. x \in Row /\ ds' = [ds EXCEPT ![t] = new]
    BY <1>0, <2>1
  <2> HIDE DEF x
  <2>3. new.at = x.at
    BY <2>2 DEF Row
  <2> HIDE DEF new
  <2>4. QED BY <1>0, <2>1, <2>2, <2>3 DEF Live, x
<1>4. ASSUME RowMade
      PROVE  \E r \in Reqs :
               /\ Live' \subseteq Live \cup {r}
               /\ \A d \in Live' : \/ d \in Live /\ ds'[d].at = ds[d].at
                                   \/ /\ d = r /\ req[d].pc = "read" /\ req'[d].pc = "done" /\ Asking(d)
                                      /\ ds'[d].at = req[d].at
  <2>1. PICK r \in Reqs, new \in Row :
          /\ req[r].pc = "read" /\ req'[r].pc = "done" /\ req[r].op = "datasource" /\ new.at = req[r].at
          /\ ds' = [ds EXCEPT ![r] = new]
    BY <1>4 DEF RowMade
  <2>2. ds'[r] = new /\ \A d \in Reqs : d # r => ds'[d] = ds[d]
    BY <1>0, <2>1
  <2>3. QED BY <2>1, <2>2 DEF Live, Asking
<1>5. UNCHANGED ds \/ RowDropped \/ RowBound \/ RowMade
  BY TableMoves DEF SecretRotated, OwnerMade, OwnerDropped, AliasMoved
<1>6. QED BY <1>0, <1>1, <1>2, <1>3, <1>4, <1>5

\* Times stay as they are, and the clock goes on.
LEMMA DatesStep ==
  ASSUME ResourcesAssumption, Typed, Dated, Next
  PROVE  Dated'
<1>0. /\ req \in [Reqs -> Requests] /\ clock \in Nat /\ ds \in [Reqs -> Row \cup {None}] /\ None \notin Row
  BY DEF Typed, TablesTyped, RequestsTyped, ResourcesAssumption
<1>1. /\ \A d \in Live : d \in Reqs /\ ds[d].at \in Nat
      /\ \A r \in Reqs : req[r].at \in Nat
  BY <1>0 DEF Live, Row, Requests, RequestType
<1>2. CASE StartWalk \/ NextPage
  <2>1. UNCHANGED <<ds, req, clock>>
    BY <1>2 DEF StartWalk, NextPage, tables
  <2>2. QED BY <2>1 DEF Dated, Live, Asking
<1>3. ASSUME NEW r \in Reqs, Starts(r) \/ Goes(r) PROVE Dated'
  <2>1. PICK m \in Reqs :
          /\ Live' \subseteq Live \cup {m}
          /\ \A d \in Live' : \/ d \in Live /\ ds'[d].at = ds[d].at
                              \/ /\ d = m /\ req[d].pc = "read" /\ req'[d].pc = "done" /\ Asking(d)
                                 /\ ds'[d].at = req[d].at
    BY LiveMoves
  <2>2. /\ \A s \in Reqs : s # r => req'[s] = req[s]
        /\ \/ clock' = clock + 1 /\ req'[r].at = clock /\ UNCHANGED ds
           \/ UNCHANGED clock /\ req'[r].op = "none"
           \/ /\ UNCHANGED clock /\ req'[r].op = req[r].op /\ req'[r].at = req[r].at /\ req'[r].pc = "read"
    BY <1>3, StampMoves
  <2>3. IsFiniteSet(Live')
    BY <2>1, FS_AddElement, FS_Subset DEF Dated
  <2>4. clock' >= clock /\ clock' > 0
    BY <1>0, <2>2 DEF Dated
  \* Every time is an old one or that of the request that has just begun.
  <2>5. \A s \in Reqs : Asking(s)' => \/ Asking(s) /\ req'[s].at = req[s].at
                                      \/ s = r /\ req'[s].at = clock /\ clock' = clock + 1 /\ UNCHANGED ds
    BY <2>2 DEF Asking
  <2>6. \A d \in Live' : \/ d \in Live /\ ds'[d].at = ds[d].at
                         \/ Asking(d) /\ d = m /\ ~Asking(d)' /\ ds'[d].at = req[d].at /\ ~UNCHANGED ds
    <3>1. SUFFICES ASSUME NEW d \in Live', ~(d \in Live /\ ds'[d].at = ds[d].at)
                   PROVE  Asking(d) /\ d = m /\ ~Asking(d)' /\ ds'[d].at = req[d].at /\ ~UNCHANGED ds
      OBVIOUS
    <3>2. d = m /\ req[d].pc = "read" /\ req'[d].pc = "done" /\ Asking(d) /\ ds'[d].at = req[d].at
      BY <2>1, <3>1
    <3>3. ~UNCHANGED ds
      BY <3>1 DEF Live
    <3>4. d = r
      BY <2>2, <3>2
    <3>5. req'[d].op = "none"
      BY <2>2, <3>2, <3>3, <3>4
    <3>6. QED BY <3>2, <3>3, <3>5 DEF Asking
  <2>7. \A d \in Live' : 0 < ds'[d].at /\ ds'[d].at < clock'
    <3>1. ASSUME NEW d \in Live' PROVE 0 < ds'[d].at /\ ds'[d].at < clock
      <4>1. CASE d \in Live /\ ds'[d].at = ds[d].at
        BY <4>1 DEF Dated
      <4>2. CASE Asking(d) /\ d = m /\ ds'[d].at = req[d].at
        BY <4>2 DEF Dated
      <4>3. QED BY <2>6, <3>1, <4>1, <4>2
    <3>2. \A d \in Live' : ds'[d].at \in Nat
      BY <1>1, <2>1
    <3>3. clock' \in Nat
      BY <1>0, <2>2
    <3>4. QED BY <1>0, <2>4, <3>1, <3>2, <3>3
  <2>8. \A d, e \in Live' : ds'[d].at = ds'[e].at => d = e
    BY <1>1, <2>1, <2>6 DEF Dated
  <2>9. \A s \in Reqs : Asking(s)' => /\ 0 < req'[s].at /\ req'[s].at < clock'
                                      /\ \A d \in Live' : ds'[d].at # req'[s].at
    <3>1. ASSUME NEW s \in Reqs, Asking(s)' PROVE 0 < req'[s].at /\ req'[s].at < clock'
      <4>0. clock' \in Nat
        BY <1>0, <2>2
      <4>1. CASE Asking(s) /\ req'[s].at = req[s].at
        <5>1. 0 < req[s].at /\ req[s].at < clock /\ req[s].at \in Nat
          BY <1>1, <4>1 DEF Dated
        <5>2. QED BY <1>0, <2>4, <4>0, <4>1, <5>1
      <4>2. CASE req'[s].at = clock /\ clock' = clock + 1
        BY <1>0, <4>2 DEF Dated
      <4>3. QED BY <2>5, <3>1, <4>1, <4>2
    <3>2. ASSUME NEW s \in Reqs, Asking(s)', NEW d \in Live' PROVE ds'[d].at # req'[s].at
      <4>1. CASE d \in Live /\ ds'[d].at = ds[d].at
        BY <1>0, <1>1, <2>5, <3>2, <4>1 DEF Dated
      <4>2. CASE Asking(d) /\ d = m /\ ~Asking(d)' /\ ds'[d].at = req[d].at /\ ~UNCHANGED ds
        BY <1>0, <1>1, <2>5, <3>2, <4>2 DEF Dated
      <4>3. QED BY <2>6, <4>1, <4>2
    <3>3. QED BY <3>1, <3>2
  <2>10. \A s, u \in Reqs : Asking(s)' /\ Asking(u)' /\ req'[s].at = req'[u].at => s = u
    <3>1. ASSUME NEW s \in Reqs, NEW u \in Reqs, Asking(s)', Asking(u)', req'[s].at = req'[u].at PROVE s = u
      BY <1>0, <1>1, <2>5, <3>1 DEF Dated
    <3>2. QED BY <3>1
  <2>11. QED BY <2>3, <2>4, <2>7, <2>8, <2>9, <2>10 DEF Dated
<1>4. QED BY <1>2, <1>3 DEF Next, Starts, Goes

-----------------------------------------------------------------------------
(* Pages: what the client has seen.                                         *)

\* Of the rows that are there, those that were due and are not beyond the cursor
\* have been seen, and nothing beyond it has; a row that was due or was seen is not
\* made again.
Walked ==
  /\ walk.cursor \in Nat /\ walk.seen \subseteq Reqs /\ walk.twice = {}
  /\ \A d \in walk.due : req[d].pc = "done"
  /\ walk.pc = "idle" => walk.cursor = 0
  /\ \A d \in walk.seen : req[d].pc = "done" /\ (d \in Live => ds[d].at <= walk.cursor)
  /\ walk.pc # "idle" => \A d \in walk.due \cap Live : ds[d].at <= walk.cursor => d \in walk.seen
  /\ walk.pc = "done" => walk.due \cap Live \subseteq walk.seen

\* While requests go on, rows may vanish, and others come that were not due.
LEMMA RequestsKeepWalk ==
  ASSUME ResourcesAssumption, Typed, SecretsMatch, Dated, Walked, Next, NEW r \in Reqs, Starts(r) \/ Goes(r)
  PROVE  Walked'
<1>0. req \in [Reqs -> Requests]
  BY DEF Typed, RequestsTyped
<1>1. PICK m \in Reqs :
        /\ Live' \subseteq Live \cup {m}
        /\ \A d \in Live' : \/ d \in Live /\ ds'[d].at = ds[d].at
                            \/ /\ d = m /\ req[d].pc = "read" /\ req'[d].pc = "done" /\ Asking(d)
                               /\ ds'[d].at = req[d].at
  BY LiveMoves
<1>2. UNCHANGED walk /\ req[r].pc # "done" /\ \A s \in Reqs : s # r => req'[s] = req[s]
  BY StampMoves
<1>3. \A d \in walk.seen \cup walk.due : d \in Reqs /\ req[d].pc = "done" /\ req'[d].pc = "done"
  BY <1>2 DEF Walked, Typed, WalkTyped
<1>4. \A d \in walk.seen : d \in Live' => d \in Live /\ ds'[d].at = ds[d].at
  BY <1>1, <1>3
<1>5. \A d \in walk.due \cap Live' : d \in Live /\ ds'[d].at = ds[d].at
  BY <1>1, <1>3
<1>6. QED BY <1>2, <1>3, <1>4, <1>5 DEF Walked

\* A walk begins with the rows that are there.
LEMMA StartsWalk ==
  ASSUME Typed, SecretsMatch, Dated, Walked, StartWalk
  PROVE  Walked'
<1>1. PICK pc, cursor, seen, twice : \E due \in SUBSET Reqs :
        walk = [pc |-> pc, cursor |-> cursor, seen |-> seen, twice |-> twice, due |-> due]
  BY DEF Typed, WalkTyped
<1>2. /\ walk.pc = "idle" /\ walk' = [walk EXCEPT !.pc = "page", !.due = Live]
      /\ UNCHANGED <<ds, req>> /\ Live' = Live
  BY DEF StartWalk, tables, Live
<1>3. /\ walk'.pc = "page" /\ walk'.cursor = 0 /\ walk'.seen = walk.seen /\ walk'.twice = walk.twice
      /\ walk'.due = Live
  BY <1>1, <1>2 DEF Walked
<1>4. \A d \in Live : ds[d].at \in Nat /\ 0 < ds[d].at /\ req[d].pc = "done"
  BY DEF Dated, Live, Typed, TablesTyped, Row, SecretsMatch
<1>5. QED BY <1>2, <1>3, <1>4 DEF Walked

\* A page: the rows that follow the cursor, up to those that are younger than the
\* new cursor; all of them if it is the last page.
LEMMA PageOfRows ==
  ASSUME ResourcesAssumption, Typed, Dated, walk.cursor \in Nat, NEW page, page = Oldest(After(walk.cursor))
  PROVE  /\ page \subseteq Live /\ \A d \in page : ds[d].at > walk.cursor
         /\ Cursor(page) \in Nat /\ Cursor(page) >= walk.cursor
         /\ \A d \in page : ds[d].at <= Cursor(page)
         /\ \A d \in Live : walk.cursor < ds[d].at /\ ds[d].at <= Cursor(page) => d \in page
         /\ Cardinality(page) # Limit => \A d \in Live : walk.cursor < ds[d].at => d \in page
<1> DEFINE S == After(walk.cursor)
           f == [d \in S |-> ds[d].at]
<1>1. /\ Limit \in Nat /\ clock \in Nat /\ IsFiniteSet(S) /\ S \subseteq Live
      /\ \A d \in Live : ds[d].at \in Nat /\ (d \in S <=> ds[d].at > walk.cursor)
  <2>1. S \in SUBSET Live /\ \A d \in Live : d \in S <=> ds[d].at > walk.cursor
    BY DEF After
  <2>2. \A d \in Live : ds[d].at \in Nat
    BY DEF Live, Typed, TablesTyped, Row
  <2>3. Limit \in Nat /\ clock \in Nat
    BY DEF ResourcesAssumption, Typed, RequestsTyped
  <2> HIDE DEF S
  <2>4. IsFiniteSet(S)
    BY <2>1, FS_Subset DEF Dated
  <2>5. QED BY <2>1, <2>2, <2>3, <2>4
<1>2. page = First(S, f, Limit)
  <2>1. \A d \in S : {e \in S : ds[e].at < ds[d].at} = {e \in S : f[e] < f[d]}
    OBVIOUS
  <2> HIDE DEF f, S
  <2>2. page = {d \in S : Cardinality({e \in S : ds[e].at < ds[d].at}) < Limit}
    BY DEF Oldest, S
  <2>3. QED BY <2>1, <2>2 DEF First
<1> HIDE DEF S
<1>3. /\ f \in [S -> Nat] /\ \A d \in S : f[d] < clock
      /\ \A d, e \in S : f[d] = f[e] => d = e
      /\ \A d \in S : f[d] = ds[d].at
  BY <1>1 DEF Dated
<1> HIDE DEF f
<1>4. /\ page \subseteq S
      /\ \A d \in S \ page, e \in page : f[e] < f[d]
      /\ Cardinality(page) # Limit => page = S
  <2>1. First(S, f, Limit) \subseteq S
    BY DEF First
  <2>2. /\ \A d \in S \ First(S, f, Limit), e \in First(S, f, Limit) : f[e] < f[d]
        /\ Cardinality(First(S, f, Limit)) # Limit => First(S, f, Limit) = S
    BY <1>1, <1>3, FirstRows
  <2>3. QED BY <1>2, <2>1, <2>2
<1>5. CASE page = {}
  <2>1. Cursor(page) = walk.cursor
    BY <1>5 DEF Cursor
  <2>2. QED BY <1>1, <1>4, <1>5, <2>1
<1>6. CASE page # {}
  <2> DEFINE T == {ds[d].at : d \in page}
             c == Cursor(page)
  <2>1. T \in SUBSET Nat /\ T # {} /\ \A y \in T : y < clock
    BY <1>1, <1>3, <1>4, <1>6
  <2>2. \E x \in T : \A y \in T : y <= x
    BY <1>1, <2>1, GreatestNumber
  <2>3. c = CHOOSE x \in T : \A d \in page : ds[d].at <= x
    BY <1>6 DEF Cursor
  <2> HIDE DEF c
  <2>4. c \in T /\ \A d \in page : ds[d].at <= c
    BY <2>2, <2>3
  <2>5. PICK m \in page : c = ds[m].at
    BY <2>4
  <2>6. c \in Nat /\ c > walk.cursor
    BY <1>1, <1>4, <2>5
  <2>7. \A d \in S : ds[d].at <= c => d \in page
    BY <1>1, <1>3, <1>4, <2>5
  <2>8. QED BY <1>1, <1>4, <2>4, <2>6, <2>7 DEF c
<1>7. QED BY <1>5, <1>6

\* A page takes the walk on to its cursor.
LEMMA PageKeepsWalk ==
  ASSUME ResourcesAssumption, Typed, SecretsMatch, Dated, Walked, NextPage
  PROVE  Walked'
<1>1. PICK pc, cursor, seen, twice : \E due \in SUBSET Reqs :
        walk = [pc |-> pc, cursor |-> cursor, seen |-> seen, twice |-> twice, due |-> due]
  BY DEF Typed, WalkTyped
<1> DEFINE page == Oldest(After(walk.cursor))
           k == Cursor(page)
           e == IF Cardinality(page) = Limit THEN "page" ELSE "done"
<1>2. /\ walk' = [walk EXCEPT !.pc = e, !.cursor = k, !.seen = @ \cup page, !.twice = @ \cup (page \cap walk.seen)]
      /\ walk.pc = "page" /\ UNCHANGED <<ds, req>> /\ Live' = Live
  BY DEF NextPage, tables, Live
<1>3. /\ page \subseteq Live /\ \A d \in page : ds[d].at > walk.cursor
      /\ k \in Nat /\ k >= walk.cursor
      /\ \A d \in page : ds[d].at <= k
      /\ \A d \in Live : walk.cursor < ds[d].at /\ ds[d].at <= k => d \in page
      /\ Cardinality(page) # Limit => \A d \in Live : walk.cursor < ds[d].at => d \in page
  BY PageOfRows DEF Walked
<1>4. /\ walk.cursor \in Nat
      /\ \A d \in Live : d \in Reqs /\ ds[d].at \in Nat /\ req[d].pc = "done"
  BY DEF Walked, Live, Typed, TablesTyped, Row, SecretsMatch
<1> HIDE DEF page, k
<1>5. /\ walk'.pc = e /\ walk'.cursor = k /\ walk'.seen = walk.seen \cup page
      /\ walk'.twice = walk.twice \cup (page \cap walk.seen) /\ walk'.due = walk.due
  BY <1>1, <1>2
<1>6. page \cap walk.seen = {}
  BY <1>3, <1>4 DEF Walked
<1>7. \A d \in walk'.seen : req'[d].pc = "done" /\ (d \in Live => ds[d].at <= k)
  BY <1>2, <1>3, <1>4, <1>5 DEF Walked
<1>8. \A d \in walk.due \cap Live : ds[d].at <= k => d \in walk'.seen
  BY <1>2, <1>3, <1>4, <1>5 DEF Walked
<1>9. e = "done" => walk.due \cap Live \subseteq walk'.seen
  BY <1>2, <1>3, <1>4, <1>5 DEF Walked
<1>10. QED BY <1>2, <1>3, <1>4, <1>5, <1>6, <1>7, <1>8, <1>9 DEF Walked

\* No step takes the walk astray.
LEMMA WalkStep ==
  ASSUME ResourcesAssumption, Typed, SecretsMatch, Dated, Walked, Next
  PROVE  Walked'
BY RequestsKeepWalk, StartsWalk, PageKeepsWalk DEF Next, Starts, Goes

-----------------------------------------------------------------------------
(* What follows for the resources.                                          *)

ResourcesInv == KeysRecorded /\ SecretsMatch /\ NoDanglingRefs /\ Dated /\ Walked

\* Every step keeps all of it.
LEMMA NextResources ==
  ASSUME ResourcesAssumption, Typed, ResourcesInv, [Next]_resVars
  PROVE  ResourcesInv'
<1>1. CASE UNCHANGED resVars
  BY <1>1 DEF resVars, tables, ResourcesInv, KeysRecorded, SecretsMatch, NoDanglingRefs, Dated, Walked, Asking, Live
<1>2. CASE Next
  BY <1>2, KeysStep, SecretsStep, RefsStep, DatesStep, WalkStep DEF ResourcesInv
<1>3. QED BY <1>1, <1>2

\* One datasource with its secret, and owners nobody is bound to.
LEMMA InitResources == ResourcesAssumption /\ Init => ResourcesInv
<1> SUFFICES ASSUME ResourcesAssumption, Init PROVE ResourcesInv
  OBVIOUS
<1>0. OldDs \in Reqs /\ None \notin Reqs
  BY DEF ResourcesAssumption, Old
<1> DEFINE old == [name |-> "old", cred |-> OldDs, ref |-> NoBindings, at |-> 1]
<1>1. old \in Row /\ old.cred = OldDs /\ \A k \in Kinds : old.ref[k] = None
  BY <1>0 DEF Row, NoBindings, Bindings
<1>2. old # None
  BY <1>1 DEF ResourcesAssumption
<1>3. ds = [r \in Reqs |-> IF r = OldDs THEN old ELSE None]
  <2>1. ds = [r \in Reqs |-> IF r = OldDs
               THEN [name |-> "old", cred |-> r, ref |-> NoBindings, at |-> 1] ELSE None]
    BY DEF Init
  <2>2. QED BY <2>1
<1> HIDE DEF old
<1>4. SecretsMatch
  <2>1. \A r \in Reqs : req[r].pc # "done" => r # OldDs
    BY DEF Init, Old
  <2>2. creds = [r \in Reqs |-> IF r = OldDs THEN r ELSE None]
    BY DEF Init
  <2>3. QED BY <1>0, <1>1, <1>2, <1>3, <2>1, <2>2 DEF SecretsMatch
<1>5. NoDanglingRefs
  BY <1>1, <1>3 DEF Init, NoDanglingRefs, Live
<1>6. KeysRecorded
  <2>1. \A r \in Reqs : req[r].made = None
    BY IdleRequest DEF Init, Idle
  <2>2. QED BY <2>1 DEF KeysRecorded
<1>7. Dated /\ Walked
  <2>1. Live = {OldDs} /\ ds[OldDs].at = 1
    BY <1>0, <1>2, <1>3 DEF Live, old
  <2>2. \A r \in Reqs : ~Asking(r)
    BY IdleRequest DEF Init, Idle, Asking
  <2>3. clock = 2 /\ walk = [pc |-> "idle", cursor |-> 0, seen |-> {}, twice |-> {}, due |-> {}]
    BY DEF Init
  <2>4. IsFiniteSet(Live)
    BY <2>1, FS_Singleton
  <2>5. Dated
    BY <2>1, <2>2, <2>3, <2>4 DEF Dated
  <2>6. Walked
    BY <2>3 DEF Walked
  <2>7. QED BY <2>5, <2>6
<1>8. QED BY <1>4, <1>5, <1>6, <1>7 DEF ResourcesInv


\* The invariant, over all behaviours.
LEMMA ResourcesInvariant == ResourcesAssumption => (Spec => [](Typed /\ ResourcesInv))
<1> SUFFICES ASSUME ResourcesAssumption PROVE Spec => [](Typed /\ ResourcesInv)
  OBVIOUS
<1>1. Init => Typed /\ ResourcesInv
  BY InitTyped, InitResources
<1>2. Typed /\ ResourcesInv /\ [Next]_resVars => (Typed /\ ResourcesInv)'
  BY NextTyped, NextResources
<1>3. QED BY <1>1, <1>2, PTL DEF Spec

\* The tables and the requests are what the code takes them for.
THEOREM TypeCorrect == ASSUME ResourcesAssumption PROVE Spec => []TypeOK
BY ResourcesInvariant, TypeParts, PTL

\* createWithIdempotency: however many requests carry a key, and whatever they had
\* read before the first of them committed, they name one row.
THEOREM KeysCorrect == ASSUME ResourcesAssumption PROVE Spec => []OneCreationPerKey
<1>1. Typed /\ ResourcesInv => OneCreationPerKey
  BY OneRecord DEF ResourcesInv
<1>2. QED BY <1>1, ResourcesInvariant, PTL

\* InsertDatasource, RotateDatasourceCredential, DeleteDatasource: the secrets that
\* are stored are those of the datasources that exist.
THEOREM SecretsCorrect == ASSUME ResourcesAssumption PROVE Spec => []CredentialsOwned
<1>1. Typed /\ ResourcesInv => CredentialsOwned
  BY SecretsOwned DEF ResourcesInv
<1>2. QED BY <1>1, ResourcesInvariant, PTL

\* DeleteGroup, DeleteAgent, UpdateDatasource: the count of members is stale by the
\* time of the deletion, and nothing ever refers to a row that is gone.
THEOREM RefsCorrect == ASSUME ResourcesAssumption PROVE Spec => []NoDanglingRefs
<1>1. Typed /\ ResourcesInv => NoDanglingRefs
  BY DEF ResourcesInv
<1>2. QED BY <1>1, ResourcesInvariant, PTL

\* ListDatasources: a client that follows the cursors is shown no row twice, and at
\* its end every row that was there when it began and still is, whatever is created
\* and deleted meanwhile.
THEOREM PagesCorrect == ASSUME ResourcesAssumption PROVE Spec => []PageWalkExact
<1>1. Typed /\ ResourcesInv => PageWalkExact
  BY DEF ResourcesInv, Walked, PageWalkExact
<1>2. QED BY <1>1, ResourcesInvariant, PTL
=============================================================================
