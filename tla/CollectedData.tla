----------------------------- MODULE CollectedData -----------------------------
(***************************************************************************)
(* What the console keeps of the data it collects                          *)
(* (src/console/internal/tsstore, svcapi/ingest.go, httpapi/collected.go): *)
(* for one datasource and one snapshot kind the chain of versions, the     *)
(* readings and the dictionary of slow queries, and the choice of a layer  *)
(* for a query.  Transactions are READ COMMITTED; a statement that reads   *)
(* is a step of its own, the last write of a transaction commits it.       *)
(***************************************************************************)
EXTENDS Naturals, Sequences

CONSTANTS
  Ups,        \* collections, numbered in the order they were taken: the number is collected_at
  Contents,   \* contents of a snapshot
  Queries,    \* slow queries
  Ages, Widths, Steps,   \* start (days ago), width (days) and step (points it makes) of a query
  None

VARIABLES
  home,       \* the datasource: "mine" (the uploading connector's), "other" (direct, or not its own) or "gone"
  versions,   \* collected.snapshots in the order of insertion
  entity,     \* collected.entities: when a query was seen
  lock,       \* which transaction has written an entity's row
  readings,   \* tsdb.series: <<entity or None, at>>
  up,         \* the collections
  query       \* the last answered query

dataVars == <<home, versions, entity, lock, readings, up, query>>

Kinds == {"snapshot", "slowlog", "metrics"}
Final == {"ok", "failed"}

Versions == [content : Contents, hash : Contents \cup Ups, collected : Nat, created : Nat, superseded : Nat]
Entity == [first : Nat, last : Nat]

\* Times begin after the zero that stands for NULL in superseded_at.
DataAssumption == Ups \subseteq Nat \ {0} /\ Ages \subseteq Nat /\ None \notin Nat \cup Entity

TypeOK ==
  /\ home \in {"mine", "other", "gone"}
  /\ \A i \in 1..Len(versions) : versions[i] \in Versions
  /\ \A q \in Queries : entity[q] = None \/ entity[q] \in Entity
  /\ lock \in [Queries -> Ups \cup {None}]
  /\ \A u \in Ups : up[u].pc \in {"idle", "sent", "checked", "read", "upserting"} \cup Final

\* superseded_at IS NULL
IsCurrent(i) == versions[i].superseded = 0
Current == {i \in 1..Len(versions) : IsCurrent(i)}

\* LatestSnapshot: the content of the current version, if there is one.
LatestSnapshot == {versions[i].content : i \in Current}

-----------------------------------------------------------------------------
(* The way in.                                                             *)

Idle == [pc |-> "idle", kind |-> "metrics", content |-> None, rest |-> <<>>, target |-> None]

\* Slow queries come in the order of their cost: no two rounds need agree on it.
Orders == {<<>>} \cup {o \in [1..2 -> Queries] : o[1] # o[2]}

\* A connector's probe or the console's own collector has taken a snapshot or a
\* batch; the collector publishes directly, an upload passes the ownership check.
Collect(u) ==
  /\ up[u].pc = "idle" /\ \A v \in Ups : v < u => up[v].pc # "idle"
  /\ \E kind \in Kinds, pc \in {"sent", "checked"}, c \in Contents, rest \in Orders :
       up' = [up EXCEPT ![u] = [Idle EXCEPT !.pc = pc, !.kind = kind,
                                            !.content = IF kind = "snapshot" THEN c ELSE None,
                                            !.rest = IF kind = "slowlog" THEN rest ELSE <<>>]]
  /\ UNCHANGED <<home, versions, entity, lock, readings, query>>

Goto(u, pc) == up' = [up EXCEPT ![u].pc = pc]

\* OwnershipChecker.Check, a transaction of its own.
Check(u) ==
  /\ up[u].pc = "sent"
  /\ Goto(u, IF home = "mine" THEN "checked" ELSE "failed")
  /\ UNCHANGED <<home, versions, entity, lock, readings, query>>

\* Versions and entities go with the datasource, readings stay; the cascade waits
\* for the rows that other transactions have written.
DeleteDatasource ==
  /\ home # "gone" /\ \A q \in Queries : lock[q] = None
  /\ home' = "gone" /\ versions' = <<>> /\ entity' = [q \in Queries |-> None]
  /\ UNCHANGED <<lock, readings, up, query>>

Unlocked(u) == [q \in Queries |-> IF lock[q] = u THEN None ELSE lock[q]]

\* Any statement may fail; the transaction leaves nothing behind.
Fail(u) ==
  /\ up[u].pc \notin {"idle"} \cup Final
  /\ Goto(u, "failed") /\ lock' = Unlocked(u)
  /\ UNCHANGED <<home, versions, entity, readings, query>>

-----------------------------------------------------------------------------
(* Snapshots: a version per change of content.                             *)

\* Mutant: the hash covers what differs in every collection.
HashOfEverything(u) == u

\* snapshotPayload: the content, without times and source.
Hash(u) == up[u].content

\* supersedeIfChanged, the SELECT: it finds the current version and waits for its lock.
ReadCurrent(u) ==
  /\ up[u].pc = "checked" /\ up[u].kind = "snapshot"
  /\ up' = [up EXCEPT ![u].pc = "read", ![u].target = IF Current = {} THEN None ELSE CHOOSE i \in Current : TRUE]
  /\ UNCHANGED <<home, versions, entity, lock, readings, query>>

\* Mutant: without FOR UPDATE.
LockedAsRead(u) == up[u].target

\* FOR UPDATE: with the lock, the row is tested again; if it has been superseded or
\* deleted meanwhile the statement finds no row at all.
Locked(u) ==
  LET i == up[u].target IN IF i \in DOMAIN versions /\ IsCurrent(i) THEN i ELSE None

Version(u) == [content |-> up[u].content, hash |-> Hash(u), collected |-> u, created |-> u, superseded |-> 0]

\* Unchanged: only the time of the last observation moves.
Touch(u) ==
  /\ up[u].pc = "read" /\ Locked(u) \in DOMAIN versions /\ versions[Locked(u)].hash = Hash(u)
  /\ versions' = [versions EXCEPT ![Locked(u)].collected = IF @ < u THEN u ELSE @]
  /\ Goto(u, "ok")
  /\ UNCHANGED <<home, entity, lock, readings, query>>

\* Changed: the old version is closed and the new one inserted.
Supersede(u) ==
  /\ up[u].pc = "read" /\ Locked(u) \in DOMAIN versions /\ versions[Locked(u)].hash # Hash(u)
  /\ Current \subseteq {Locked(u)}                     \* snapshots_current_idx
  /\ versions' = Append([versions EXCEPT ![Locked(u)].superseded = u], Version(u))
  /\ Goto(u, "ok")
  /\ UNCHANGED <<home, entity, lock, readings, query>>

\* No current version found: insert one, if the index and the foreign key allow.
InsertFirst(u) ==
  /\ up[u].pc = "read" /\ Locked(u) \notin DOMAIN versions
  /\ Current = {} /\ home # "gone"
  /\ versions' = Append(versions, Version(u))
  /\ Goto(u, "ok")
  /\ UNCHANGED <<home, entity, lock, readings, query>>

-----------------------------------------------------------------------------
(* Readings.                                                               *)

\* Publish: metrics have no entity, and their table no foreign key.
Publish(u) ==
  /\ up[u].pc = "checked" /\ up[u].kind = "metrics"
  /\ readings' = readings \cup {<<None, u>>}
  /\ Goto(u, "ok")
  /\ UNCHANGED <<home, versions, entity, lock, query>>

\* publishSlowlog: no slow queries is not an error; else the entities come first.
BeginSlowlog(u) ==
  /\ up[u].pc = "checked" /\ up[u].kind = "slowlog"
  /\ Goto(u, IF up[u].rest = <<>> THEN "ok" ELSE "upserting")
  /\ UNCHANGED <<home, versions, entity, lock, readings, query>>

\* upsertEntities writes row by row and holds every row to the end.
LockEntity(u, i) ==
  /\ up[u].pc = "upserting" /\ i \in DOMAIN up[u].rest
  /\ \A j \in 1..i - 1 : lock[up[u].rest[j]] = u
  /\ lock[up[u].rest[i]] = None /\ home # "gone"
  /\ lock' = [lock EXCEPT ![up[u].rest[i]] = u]
  /\ UNCHANGED <<home, versions, entity, readings, up, query>>

Seen(u) == {up[u].rest[i] : i \in DOMAIN up[u].rest}

\* Mutant: the last round to commit says when the query was seen last.
UpsertedPlainly(u, q) ==
  [first |-> IF entity[q] = None THEN u ELSE entity[q].first, last |-> u]

\* first_seen_at stays, last_seen_at is the greater of the two.
Upserted(u, q) ==
  IF entity[q] = None THEN [first |-> u, last |-> u]
  ELSE [entity[q] EXCEPT !.last = IF @ < u THEN u ELSE @]

\* insertSeries in the same transaction, and the commit.
InsertSeries(u) ==
  /\ up[u].pc = "upserting" /\ \A q \in Seen(u) : lock[q] = u
  /\ entity' = [q \in Queries |-> IF q \in Seen(u) THEN Upserted(u, q) ELSE entity[q]]
  /\ readings' = readings \cup {<<q, u>> : q \in Seen(u)}
  /\ lock' = Unlocked(u) /\ Goto(u, "ok")
  /\ UNCHANGED <<home, versions, query>>

-----------------------------------------------------------------------------
(* Queries.  Days, counted back from the moment of the query.              *)

Layers == {"series", "series_5m", "series_1h"}

\* add_retention_policy of migration 0004.
Retention(layer) == CASE layer = "series" -> 14 [] layer = "series_5m" -> 90 [] layer = "series_1h" -> 400

\* parseWindow, parseStep: to after from, at most 400 days, at most 5000 steps.
Accepted(width, points) == width > 0 /\ width <= 400 /\ points <= 5000

\* Mutant: the layer that fits the width of the window.
LayerForWidth(age, width) ==
  CASE width <= 14 -> "series" [] width > 14 /\ width <= 90 -> "series_5m" [] OTHER -> "series_1h"

\* By the window's start alone.
LayerFor(age, width) ==
  CASE age <= 14 -> "series" [] age > 14 /\ age <= 90 -> "series_5m" [] OTHER -> "series_1h"

SeriesRange ==
  /\ \E age \in Ages, width \in Widths, points \in Steps :
       /\ width <= age /\ Accepted(width, points)
       /\ query' = [from |-> age, layer |-> LayerFor(age, width)]
  /\ UNCHANGED <<home, versions, entity, lock, readings, up>>

-----------------------------------------------------------------------------
Init ==
  /\ home \in {"mine", "other"} /\ versions = <<>> /\ readings = {}
  /\ entity = [q \in Queries |-> None] /\ lock = [q \in Queries |-> None]
  /\ up = [u \in Ups |-> Idle]
  /\ query = [from |-> 0, layer |-> "series"]

Next ==
  \/ \E u \in Ups :
       \/ Collect(u) \/ Check(u) \/ Fail(u) \/ ReadCurrent(u) \/ Touch(u) \/ Supersede(u) \/ InsertFirst(u)
       \/ Publish(u) \/ BeginSlowlog(u) \/ (\E i \in 1..2 : LockEntity(u, i)) \/ InsertSeries(u)
  \/ DeleteDatasource \/ SeriesRange

Spec == Init /\ [][Next]_dataVars

-----------------------------------------------------------------------------
(* Properties.                                                             *)

PublishedIsCurrent ==
  \A u \in Ups : up[u].kind = "snapshot" /\ up[u].pc # "ok" /\ up'[u].pc = "ok" => LatestSnapshot' = {up[u].content}

\* publishStateSnapshot: when a publication succeeds its content is the one a reader
\* gets, even if another collection committed between its reading and its writing.
OkMeansCurrent == [][PublishedIsCurrent]_dataVars

\* supersedeIfChanged: the chain of versions is a history of changes: no version
\* repeats the content of the one before it.
HistoryAlternates ==
  \A i \in 1..Len(versions) - 1 : versions[i].content # versions[i + 1].content

\* upsertEntities: a reading of a slow query belongs to a known query that was not
\* last seen before it, in whatever order the rounds arrive and commit.
EntitiesCoverReadings ==
  home # "gone" => \A r \in readings : r[1] # None => entity[r[1]] # None /\ r[2] <= entity[r[1]].last

\* layerFor and migration 0004: a query is answered from a layer that has not yet
\* dropped the window's start, unless every layer has.
LayerStillHolds ==
  query.from <= Retention(query.layer) \/ \A l \in Layers : query.from > Retention(l)
=============================================================================
