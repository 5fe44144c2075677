--------------------------- MODULE ConsoleResources ----------------------------
(***************************************************************************)
(* The console's REST resources (src/console/internal/httpapi, repo):      *)
(* datasources with their credentials and aliases, groups and agents they  *)
(* are bound to, idempotent creation and paged listing.  Every request is  *)
(* one READ COMMITTED transaction: plain reads at their own moments, then  *)
(* the writes and the commit as one step, in which the unique and foreign  *)
(* keys of migration 0002 decide.  A row is named by the request that made *)
(* it; `at' is its created_at, the start of the transaction.               *)
(***************************************************************************)
EXTENDS Naturals, FiniteSets, Sequences

CONSTANTS
  Reqs,      \* requests, in the order in which their transactions start
  OldDs, OldGroup, OldAgent,   \* requests of the past: these three rows exist
  Ops,       \* what the other requests do; "bind": creations may bind
  Walks,     \* whether a client lists the datasources
  Keys,      \* Idempotency-Key values
  Names,     \* names of new datasources
  Kinds,     \* owners a datasource can be bound to: "group", "agent"
  Limit,     \* page size
  None

Old == {OldDs, OldGroup, OldAgent}

VARIABLES
  ds, creds, owners, alias, idem,   \* the tables
  req,                              \* requests
  clock,
  walk                              \* a client that reads all pages of the list

resVars == <<ds, creds, owners, alias, idem, req, clock, walk>>
tables == <<ds, creds, owners, alias, idem>>

Creates == {"datasource", "alias"} \cup Kinds
Bindings == [Kinds -> Reqs \cup {None}]
NoBindings == [k \in Kinds |-> None]
Modes == {"connector", "direct"}
Row == [name : Names \cup {"old"}, cred : Reqs \cup {None}, ref : Bindings, at : Nat]
Bodies == [op : Creates, name : Names \cup {None}, mode : Modes \cup {None}, ref : Bindings]
Record == [hash : Bodies, id : Reqs]

\* No row, no record and no owner is NULL; a datasource is bound to groups and agents;
\* a page has a number of rows.
ResourcesAssumption ==
  /\ None \notin Reqs \cup Row \cup Record
  /\ Old \subseteq Reqs /\ Kinds \subseteq {"group", "agent"}
  /\ Limit \in Nat

TypeOK ==
  /\ \A r \in Reqs : ds[r] = None \/ ds[r] \in Row
  /\ creds \in [Reqs -> Reqs \cup {None}]            \* credential id -> request that set the secret
  /\ owners \in [Kinds -> SUBSET Reqs]
  /\ alias \in Reqs \cup {None}                      \* the datasource that has the alias
  /\ \A k \in Keys : idem[k] = None \/ idem[k] \in Record
  /\ \A r \in Reqs : /\ req[r].pc \in {"idle", "open", "read", "done"} /\ req[r].key \in Keys \cup {None}
                     /\ req[r].made \in Reqs \cup {None}
  /\ walk.due \subseteq Reqs

Live == {d \in Reqs : ds[d] # None}
Idle == [op |-> "none", pc |-> "idle", key |-> None, t |-> None, o |-> None, kind |-> None,
         name |-> None, ref |-> NoBindings, at |-> 0, made |-> None]

\* The answer names a row only when one was created or is replayed; what else was
\* in the request is over.
Answer(r, row) ==
  req' = [req EXCEPT ![r] = [Idle EXCEPT !.pc = "done", !.made = row,
                                         !.key = IF row = None THEN None ELSE req[r].key]]
Refuse(r) == Answer(r, None) /\ UNCHANGED tables
Read(r) == req' = [req EXCEPT ![r].pc = "read"] /\ UNCHANGED tables

\* Transactions whose first read is over, or that have none.
Writing(r, op) == req[r].op = op /\ req[r].pc = "read"

-----------------------------------------------------------------------------
(* Creation.                                                               *)

\* An operation with its key, path and body: t the row addressed, o the rest.
Request(op, t) == [Idle EXCEPT !.op = op, !.pc = "open", !.t = t, !.at = clock]
Begin(r, q) == req' = [req EXCEPT ![r] = q]

Starting(r) ==
  /\ req[r].pc = "idle" /\ \A s \in Reqs : s < r => req[s].pc # "idle"
  /\ clock' = clock + 1
  /\ UNCHANGED <<tables, walk>>

\* createDatasource: a connector's datasource has no credential, a direct one does;
\* it may be bound from the start.
StartDatasource(r) ==
  /\ Starting(r) /\ "datasource" \in Ops
  /\ \E n \in Names, mode \in Modes, b \in Bindings, k \in Keys \cup {None} :
       /\ \A i \in Kinds : b[i] # None => "bind" \in Ops /\ b[i] \in owners[i]
       /\ Begin(r, [Request("datasource", None) EXCEPT !.name = n, !.o = mode, !.ref = b, !.key = k])

StartOwner(r) ==
  /\ Starting(r)
  /\ \E op \in Ops \cap Kinds, k \in Keys \cup {None} : Begin(r, [Request(op, None) EXCEPT !.key = k])

StartAlias(r) ==
  /\ Starting(r) /\ "alias" \in Ops
  /\ \E t \in Live, k \in Keys \cup {None} : Begin(r, [Request("alias", t) EXCEPT !.key = k])

\* One statement: nothing is read before it.
StartPatch(r) ==
  /\ Starting(r) /\ "patch" \in Ops
  /\ \E t \in Live, k \in Kinds : \E o \in owners[k] \cup {None} :
       Begin(r, [Request("patch", t) EXCEPT !.pc = "read", !.kind = k, !.o = o])

StartRotate(r) == Starting(r) /\ "rotate" \in Ops /\ \E t \in Live : Begin(r, Request("rotate", t))

StartDelete(r) ==
  /\ Starting(r) /\ "delete" \in Ops
  /\ \E t \in Live \cup UNION {owners[k] : k \in Kinds} : Begin(r, Request("delete", t))

StartUnalias(r) ==
  /\ Starting(r) /\ "unalias" \in Ops
  /\ \E t \in Live : Begin(r, [Request("unalias", t) EXCEPT !.pc = "read"])

\* What the hash covers: of an alias the datasource is in the path, not in the body.
\* (No two operations accept the same body.)
Body(r) == [op |-> req[r].op, name |-> req[r].name, mode |-> req[r].o, ref |-> req[r].ref]

\* GetIdempotencyRecord: replay, refuse, or go on.
GetIdempotencyRecord(r) ==
  /\ req[r].pc = "open" /\ req[r].op \in Creates
  /\ LET rec == IF req[r].key = None THEN None ELSE idem[req[r].key]
     IN  CASE rec = None -> IF req[r].op = "alias" /\ ds[req[r].t] = None
                              THEN Refuse(r) ELSE Read(r)
           [] rec # None /\ rec.hash # Body(r) -> Refuse(r)
           [] OTHER -> Answer(r, rec.id) /\ UNCHANGED tables
  /\ UNCHANGED <<clock, walk>>

\* Mutant: ON CONFLICT DO NOTHING.
PutIdempotencyRecordQuietly(r) ==
  idem' = IF req[r].key = None \/ idem[req[r].key] # None THEN idem
            ELSE [idem EXCEPT ![req[r].key] = [hash |-> Body(r), id |-> r]]

\* The primary key (tenant, key) lets one creation commit.
PutIdempotencyRecord(r) ==
  IF req[r].key = None THEN UNCHANGED idem
    ELSE idem[req[r].key] = None /\ idem' = [idem EXCEPT ![req[r].key] = [hash |-> Body(r), id |-> r]]

\* createWithIdempotency: the row and its record commit together.
Created(r) ==
  /\ PutIdempotencyRecord(r)
  /\ Answer(r, r)
  /\ UNCHANGED <<clock, walk>>

\* Mutant: the foreign key is missing.
OwnerUnchecked(k, o) == TRUE

\* The foreign key of a binding, as the commit tests it.
Owner(k, o) == o \in owners[k] \cup {None}

InsertCredential(r) == creds' = IF req[r].o = "direct" THEN [creds EXCEPT ![r] = r] ELSE creds

\* The unique key of names, and the foreign keys: an owner deleted meanwhile is refused.
InsertDatasource(r) ==
  /\ Writing(r, "datasource") /\ \A d \in Live : ds[d].name # req[r].name
  /\ \A k \in Kinds : Owner(k, req[r].ref[k])
  /\ ds' = [ds EXCEPT ![r] = [name |-> req[r].name, cred |-> IF req[r].o = "direct" THEN r ELSE None,
                              ref |-> req[r].ref, at |-> req[r].at]]
  /\ InsertCredential(r)
  /\ Created(r) /\ UNCHANGED <<owners, alias>>

InsertGroup(r) ==
  /\ Writing(r, "group")
  /\ owners' = [owners EXCEPT !["group"] = @ \cup {r}]
  /\ Created(r) /\ UNCHANGED <<ds, creds, alias>>

InsertAgent(r) ==
  /\ Writing(r, "agent")
  /\ owners' = [owners EXCEPT !["agent"] = @ \cup {r}]
  /\ Created(r) /\ UNCHANGED <<ds, creds, alias>>

InsertAlias(r) ==
  /\ Writing(r, "alias") /\ alias = None /\ ds[req[r].t] # None
  /\ alias' = req[r].t
  /\ Created(r) /\ UNCHANGED <<ds, creds, owners>>

\* A unique or foreign key refuses the write (mapPgError), or the transaction
\* fails for another reason, or its client goes away: nothing of it remains.
Rollback(r) ==
  /\ req[r].pc \in {"open", "read"} /\ Refuse(r)
  /\ UNCHANGED <<clock, walk>>

-----------------------------------------------------------------------------
(* Changes and deletions.                                                  *)

\* patchDatasource: bind to an owner that exists, or unbind (other fields are data).
Bind(t, k, o) == Owner(k, o) /\ ds' = [ds EXCEPT ![t].ref[k] = o]

UpdateDatasource(r) ==
  /\ Writing(r, "patch")
  /\ IF ds[req[r].t] = None THEN Refuse(r)
       ELSE /\ Bind(req[r].t, req[r].kind, req[r].o)
            /\ Answer(r, None) /\ UNCHANGED <<creds, owners, alias, idem>>
  /\ UNCHANGED <<clock, walk>>

\* putCredential: only a direct datasource has one, and it is replaced in place.
PutCredential(r) ==
  /\ req[r].pc = "open" /\ req[r].op = "rotate"
  /\ IF ds[req[r].t] = None \/ ds[req[r].t].cred = None THEN Refuse(r) ELSE Read(r)
  /\ UNCHANGED <<clock, walk>>

RotateDatasourceCredential(r) ==
  /\ Writing(r, "rotate") /\ ds[req[r].t] # None
  /\ creds' = [creds EXCEPT ![ds[req[r].t].cred] = r]
  /\ Answer(r, None) /\ UNCHANGED <<ds, owners, alias, idem, clock, walk>>

\* DeleteDatasource reads the row: in use is a refusal.
ReadBindings(r) ==
  /\ req[r].pc = "open" /\ req[r].op = "delete" /\ \A k \in Kinds : req[r].t \notin owners[k]
  /\ IF ds[req[r].t] = None \/ \E k \in Kinds : ds[req[r].t].ref[k] # None THEN Refuse(r) ELSE Read(r)
  /\ UNCHANGED <<clock, walk>>

\* Mutant: the credential stays.
DropCredentialForgotten(d) == UNCHANGED creds

DropCredential(d) == creds' = [c \in Reqs |-> IF c = ds[d].cred THEN None ELSE creds[c]]

\* By id alone: what was read of its bindings is not tested again.  Aliases go
\* with it (ON DELETE CASCADE).
DeleteDatasource(r) ==
  /\ Writing(r, "delete") /\ ds[req[r].t] # None
  /\ DropCredential(req[r].t)
  /\ ds' = [ds EXCEPT ![req[r].t] = None]
  /\ alias' = IF alias = req[r].t THEN None ELSE alias
  /\ Answer(r, None) /\ UNCHANGED <<owners, idem, clock, walk>>

DeleteAlias(r) ==
  /\ Writing(r, "unalias")
  /\ IF alias = req[r].t THEN alias' = None /\ Answer(r, None) /\ UNCHANGED <<ds, creds, owners, idem>>
     ELSE Refuse(r)
  /\ UNCHANGED <<clock, walk>>

\* DeleteGroup, DeleteAgent: the count of members is read first ...
CountBound(r, k) ==
  /\ req[r].pc = "open" /\ req[r].op = "delete" /\ req[r].t \in owners[k]
  /\ IF \E d \in Live : ds[d].ref[k] = req[r].t THEN Refuse(r) ELSE Read(r)
  /\ UNCHANGED <<clock, walk>>

\* Mutant: the count is all there is.
UnboundUnchecked(k, t) == TRUE

\* ... and the foreign key decides.
Unbound(k, t) == \A d \in Live : ds[d].ref[k] # t

DeleteGroup(r) ==
  /\ Writing(r, "delete") /\ req[r].t \in owners["group"] /\ Unbound("group", req[r].t)
  /\ owners' = [owners EXCEPT !["group"] = @ \ {req[r].t}]
  /\ Answer(r, None) /\ UNCHANGED <<ds, creds, alias, idem, clock, walk>>

DeleteAgent(r) ==
  /\ Writing(r, "delete") /\ req[r].t \in owners["agent"] /\ Unbound("agent", req[r].t)
  /\ owners' = [owners EXCEPT !["agent"] = @ \ {req[r].t}]
  /\ Answer(r, None) /\ UNCHANGED <<ds, creds, alias, idem, clock, walk>>

-----------------------------------------------------------------------------
(* Listing.                                                                *)

StartWalk ==
  /\ Walks /\ walk.pc = "idle"
  /\ walk' = [walk EXCEPT !.pc = "page", !.due = Live]
  /\ UNCHANGED <<tables, req, clock>>

\* Keyset: (created_at, id) greater than the cursor.
After(c) == {d \in Live : ds[d].at > c}

\* The Limit oldest of a set of rows.
Oldest(S) == {d \in S : Cardinality({e \in S : ds[e].at < ds[d].at}) < Limit}

\* encodeCursor: where the page ended.
Cursor(page) == IF page = {} THEN walk.cursor
                ELSE CHOOSE c \in {ds[d].at : d \in page} : \A d \in page : ds[d].at <= c

\* newPage: a full page has a cursor, any other is the last.
NextPage ==
  /\ walk.pc = "page"
  /\ LET page == Oldest(After(walk.cursor))
     IN  walk' = [walk EXCEPT
           !.pc = IF Cardinality(page) = Limit THEN "page" ELSE "done",
           !.cursor = Cursor(page),
           !.seen = @ \cup page,
           !.twice = @ \cup (page \cap walk.seen)]
  /\ UNCHANGED <<tables, req, clock>>

-----------------------------------------------------------------------------
Init ==
  /\ ds = [r \in Reqs |-> IF r = OldDs
             THEN [name |-> "old", cred |-> r, ref |-> NoBindings, at |-> 1] ELSE None]
  /\ creds = [r \in Reqs |-> IF r = OldDs THEN r ELSE None]
  /\ owners = [k \in Kinds |-> IF k = "group" THEN {OldGroup} ELSE {OldAgent}]
  /\ alias = None /\ idem = [k \in Keys |-> None]
  /\ req = [r \in Reqs |-> IF r \in Old THEN [Idle EXCEPT !.pc = "done"] ELSE Idle]
  /\ clock = 2
  /\ walk = [pc |-> "idle", cursor |-> 0, seen |-> {}, twice |-> {}, due |-> {}]

Next ==
  \/ \E r \in Reqs :
       \/ StartDatasource(r) \/ StartOwner(r) \/ StartAlias(r) \/ StartPatch(r) \/ StartRotate(r)
       \/ StartDelete(r) \/ StartUnalias(r) \/ GetIdempotencyRecord(r) \/ Rollback(r)
       \/ InsertDatasource(r) \/ InsertGroup(r) \/ InsertAgent(r) \/ InsertAlias(r)
       \/ UpdateDatasource(r) \/ PutCredential(r) \/ ReadBindings(r) \/ RotateDatasourceCredential(r)
       \/ DeleteDatasource(r) \/ DeleteAlias(r) \/ DeleteGroup(r) \/ DeleteAgent(r)
       \/ \E k \in Kinds : CountBound(r, k)
  \/ StartWalk \/ NextPage

Spec == Init /\ [][Next]_resVars

-----------------------------------------------------------------------------
(* Properties.                                                             *)

\* createWithIdempotency: however many requests carry a key, also at once, one row
\* is created, and all that succeed are answered with that row.
OneCreationPerKey ==
  \A r, s \in Reqs : req[r].made # None /\ req[s].made # None /\ req[r].key = req[s].key /\ req[r].key # None
                       => req[r].made = req[s].made

\* DeleteDatasource, putCredential: a stored secret belongs to a datasource that
\* exists, and no datasource has lost its secret, whatever ran side by side.
CredentialsOwned == {c \in Reqs : creds[c] # None} = {ds[d].cred : d \in Live} \ {None}

\* DeleteGroup, UpdateDatasource: the count of members is stale by the time of the
\* deletion, and still nothing refers to a row that is gone.
NoDanglingRefs ==
  /\ \A d \in Live, k \in Kinds : ds[d].ref[k] # None => ds[d].ref[k] \in owners[k]
  /\ alias # None => alias \in Live

\* ListDatasources: a client that follows the cursors sees every row that was there
\* when it began and is there when it ends, and none twice.
PageWalkExact ==
  walk.twice = {} /\ (walk.pc = "done" => walk.due \cap Live \subseteq walk.seen)
=============================================================================
