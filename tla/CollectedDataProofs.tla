------------------------ MODULE CollectedDataProofs -------------------------
(***************************************************************************)
(* Proofs about CollectedData for every set of collections: the chain of   *)
(* versions of a snapshot has one current end and no repetition, what is   *)
(* acknowledged is what a reader gets, and no reading outruns the          *)
(* dictionary of slow queries.                                             *)
(***************************************************************************)
EXTENDS CollectedData, SequenceTheorems, TLAPS

\* What a collection carries, and what it may be doing with it.
Collection ==
  [pc : {"idle", "sent", "checked", "read", "upserting"} \cup Final, kind : Kinds, content : Contents \cup {None},
   rest : Orders, target : Nat \cup {None}]

Collections ==
  {c \in Collection : /\ c.pc = "read" => c.kind = "snapshot"
                      /\ c.pc = "upserting" => c.kind = "slowlog"
                      /\ c.kind = "snapshot" => c.content \in Contents}

VersionsTyped == versions \in Seq(Versions)

ReadingsTyped ==
  /\ entity \in [Queries -> Entity \cup {None}] /\ lock \in [Queries -> Ups \cup {None}]
  /\ readings \subseteq (Queries \cup {None}) \X Ups

UpsTyped == home \in {"mine", "other", "gone"} /\ up \in [Ups -> Collections]

Typed == VersionsTyped /\ ReadingsTyped /\ UpsTyped

\* The parts say more than the type invariant.
LEMMA TypeParts == Typed => TypeOK
<1> SUFFICES ASSUME Typed PROVE TypeOK
  OBVIOUS
<1>1. \A i \in 1..Len(versions) : versions[i] \in Versions
  BY DEF Typed, VersionsTyped
<1>2. \A q \in Queries : entity[q] = None \/ entity[q] \in Entity
  BY DEF Typed, ReadingsTyped
<1>3. \A u \in Ups : up[u].pc \in {"idle", "sent", "checked", "read", "upserting"} \cup Final
  BY DEF Typed, UpsTyped, Collections, Collection
<1>4. QED BY <1>1, <1>2, <1>3 DEF TypeOK, Typed, ReadingsTyped, UpsTyped

-----------------------------------------------------------------------------
(* Collections.                                                             *)

\* A step forward keeps kind, content and queries.
LEMMA GotoMoves ==
  ASSUME Typed, NEW u \in Ups, NEW pc \in {"checked", "upserting"} \cup Final, up' = [up EXCEPT ![u].pc = pc],
         pc = "upserting" => up[u].kind = "slowlog"
  PROVE  /\ up' \in [Ups -> Collections]
         /\ \A v \in Ups : /\ up'[v].kind = up[v].kind
                           /\ up'[v].pc = IF v = u THEN pc ELSE up[v].pc
<1> DEFINE c == up[u]
           new == [c EXCEPT !.pc = pc]
<1>1. up \in [Ups -> Collections] /\ c \in Collections
  BY DEF Typed, UpsTyped
<1>2. up' = [up EXCEPT ![u] = new]
  OBVIOUS
<1>3. c \in Collection /\ (c.kind = "snapshot" => c.content \in Contents) /\ (pc = "upserting" => c.kind = "slowlog")
  BY <1>1 DEF Collections
<1> HIDE DEF c
<1>4. new \in Collection /\ new.pc = pc /\ new.kind = c.kind /\ new.content = c.content
  BY <1>3 DEF Collection
<1>5. new \in Collections
  BY <1>3, <1>4 DEF Collections, Final
<1> HIDE DEF new
<1>6. QED BY <1>1, <1>2, <1>4, <1>5 DEF c

\* A collection takes up its work.
LEMMA CollectMoves ==
  ASSUME DataAssumption, Typed, NEW u \in Ups, Collect(u)
  PROVE  /\ up' \in [Ups -> Collections]
         /\ \A v \in Ups : up'[v].pc = "ok" => up[v].pc = "ok"
<1>1. PICK kind \in Kinds, pc \in {"sent", "checked"}, c \in Contents, rest \in Orders :
        up' = [up EXCEPT ![u] = [Idle EXCEPT !.pc = pc, !.kind = kind,
                                             !.content = IF kind = "snapshot" THEN c ELSE None,
                                             !.rest = IF kind = "slowlog" THEN rest ELSE <<>>]]
  BY DEF Collect
<1> DEFINE i == Idle
           content == IF kind = "snapshot" THEN c ELSE None
           queries == IF kind = "slowlog" THEN rest ELSE <<>>
           new == [i EXCEPT !.pc = pc, !.kind = kind, !.content = content, !.rest = queries]
<1>2. up' = [up EXCEPT ![u] = new]
  BY <1>1
<1>3. i \in Collection
  BY DEF Idle, Collection, Kinds, Orders
<1>4. content \in Contents \cup {None} /\ queries \in Orders /\ (kind = "snapshot" => content \in Contents)
  BY DEF Orders
<1> HIDE DEF i, content, queries
<1>5. new \in Collection /\ new.pc = pc /\ new.kind = kind /\ new.content = content
  BY <1>3, <1>4 DEF Collection
<1>6. new \in Collections
  BY <1>4, <1>5 DEF Collections
<1> HIDE DEF new
<1>7. QED BY <1>2, <1>5, <1>6 DEF Typed, UpsTyped

\* The current version is read, or none.
LEMMA ReadMoves ==
  ASSUME DataAssumption, Typed, NEW u \in Ups, ReadCurrent(u)
  PROVE  /\ up' \in [Ups -> Collections]
         /\ \A v \in Ups : up'[v].pc = "ok" => up[v].pc = "ok"
<1> DEFINE c == up[u]
           target == IF Current = {} THEN None ELSE CHOOSE i \in Current : TRUE
           new == [c EXCEPT !.pc = "read", !.target = target]
<1>1. up \in [Ups -> Collections] /\ c \in Collections
  BY DEF Typed, UpsTyped
<1>2. up' = [up EXCEPT ![u] = new] /\ c.kind = "snapshot"
  BY DEF ReadCurrent
<1>3. target \in Nat \cup {None}
  <2>1. Len(versions) \in Nat
    BY DEF Typed, VersionsTyped
  <2>2. Current \subseteq Nat
    BY <2>1 DEF Current
  <2>3. QED BY <2>2
<1>4. c \in Collection /\ c.content \in Contents
  BY <1>1, <1>2 DEF Collections
<1> HIDE DEF c, target
<1>5. new \in Collection /\ new.pc = "read" /\ new.kind = c.kind /\ new.content = c.content
  BY <1>3, <1>4 DEF Collection
<1>6. new \in Collections
  BY <1>2, <1>4, <1>5 DEF Collections
<1> HIDE DEF new
<1>7. QED BY <1>1, <1>2, <1>5, <1>6

-----------------------------------------------------------------------------
(* The chain of versions.                                                   *)

\* The hash is that of the content, the last version is the current one and the only
\* one, and no version repeats the one before it.
Chain ==
  /\ \A i \in 1..Len(versions) : versions[i].hash = versions[i].content
  /\ \A i \in 1..Len(versions) : IsCurrent(i) <=> i = Len(versions)
  /\ HistoryAlternates

\* Of such a chain a reader gets the last content.
LEMMA LastIsLatest ==
  ASSUME VersionsTyped, Chain, versions # <<>>
  PROVE  LatestSnapshot = {versions[Len(versions)].content}
<1>1. Len(versions) \in Nat \ {0}
  BY EmptySeq DEF VersionsTyped
<1>2. Current = {Len(versions)}
  BY <1>1 DEF Chain, Current
<1>3. QED BY <1>2 DEF LatestSnapshot

\* A collection that writes holds a snapshot, and what it locks is the last version.
LEMMA WriterLocks ==
  ASSUME DataAssumption, Typed, Chain, NEW u \in Ups, up[u].pc = "read"
  PROVE  /\ up[u].content \in Contents /\ up[u].kind = "snapshot"
         /\ Locked(u) \in DOMAIN versions => Locked(u) = Len(versions) /\ Len(versions) \in Nat \ {0}
<1>1. up[u] \in Collections
  BY DEF Typed, UpsTyped
<1>2. DOMAIN versions = 1..Len(versions) /\ Len(versions) \in Nat
  BY DEF Typed, VersionsTyped
<1>3. Locked(u) \in DOMAIN versions => Locked(u) = Len(versions)
  <2>1. Locked(u) = up[u].target \/ Locked(u) = None
    BY DEF Locked
  <2>2. None \notin DOMAIN versions
    BY <1>2 DEF DataAssumption
  <2>3. Locked(u) \in DOMAIN versions => IsCurrent(Locked(u))
    BY <2>2 DEF Locked
  <2>4. QED BY <1>2, <2>3 DEF Chain
<1>4. QED BY <1>1, <1>2, <1>3 DEF Collections

\* A new version at the end, different from the last, which is closed.
LEMMA ChainGrows ==
  ASSUME VersionsTyped, NEW s \in Seq(Versions), Len(s) = Len(versions),
         \A i \in 1..Len(s) : s[i].hash = s[i].content /\ s[i].superseded # 0,
         \A i \in 1..Len(s) - 1 : s[i].content # s[i + 1].content,
         NEW v \in Versions, v.hash = v.content, v.superseded = 0, Len(s) > 0 => s[Len(s)].content # v.content,
         versions' = Append(s, v)
  PROVE  /\ VersionsTyped' /\ Chain' /\ versions' # <<>> /\ versions'[Len(versions')].content = v.content
<1> DEFINE n == Len(s)
<1>1. n \in Nat
  OBVIOUS
<1>2. /\ versions' \in Seq(Versions) /\ Len(versions') = n + 1 /\ versions' # <<>>
      /\ \A i \in 1..n : versions'[i] = s[i]
      /\ versions'[n + 1] = v
  BY AppendProperties
<1>3. /\ \A i \in 1..n : s[i].hash = s[i].content /\ s[i].superseded # 0
      /\ \A i \in 1..n - 1 : s[i].content # s[i + 1].content
      /\ n > 0 => s[n].content # v.content
  OBVIOUS
<1> HIDE DEF n
<1>4. \A i \in 1..n + 1 : i \in 1..n \/ i = n + 1
  BY <1>1
<1>5. \A i \in 1..n + 1 : versions'[i].hash = versions'[i].content
  BY <1>2, <1>3, <1>4
<1>6. \A i \in 1..n + 1 : versions'[i].superseded = 0 <=> i = n + 1
  BY <1>1, <1>2, <1>3, <1>4
<1>7. ASSUME NEW i \in 1..n PROVE versions'[i].content # versions'[i + 1].content
  <2>1. CASE i = n
    BY <1>1, <1>2, <1>3, <2>1
  <2>2. CASE i # n
    <3>1. i \in 1..n - 1 /\ i + 1 \in 1..n
      BY <1>1, <2>2
    <3>2. QED BY <1>2, <1>3, <3>1
  <2>3. QED BY <2>1, <2>2
<1>8. (n + 1) - 1 = n
  BY <1>1
<1>9. QED BY <1>1, <1>2, <1>5, <1>6, <1>7, <1>8 DEF VersionsTyped, Chain, IsCurrent, HistoryAlternates

\* Written(u): the chain is one again, and its end is what the collection has found.
Written(u) ==
  /\ VersionsTyped' /\ Chain'
  /\ versions' # <<>> /\ versions'[Len(versions')].content = up[u].content

\* Unchanged content: only a time moves.
LEMMA TouchKeeps ==
  ASSUME DataAssumption, Typed, Chain, NEW u \in Ups, Touch(u)
  PROVE  Written(u)
<1> DEFINE n == Len(versions)
           w == versions[n]
           new == [w EXCEPT !.collected = IF @ < u THEN u ELSE @]
<1>1. up[u].pc = "read" /\ Locked(u) = n /\ n \in Nat \ {0} /\ w.hash = up[u].content
  BY WriterLocks DEF Touch, Hash
<1>2. versions' = [versions EXCEPT ![n] = new]
  BY <1>1 DEF Touch
<1>3. versions \in Seq(Versions) /\ n \in 1..Len(versions) /\ w \in Versions /\ u \in Nat
  BY <1>1 DEF Typed, VersionsTyped, DataAssumption
<1> HIDE DEF w
<1>4. new \in Versions /\ new.hash = w.hash /\ new.content = w.content /\ new.superseded = w.superseded
  BY <1>3 DEF Versions
<1> HIDE DEF new
<1>5. versions' \in Seq(Versions) /\ Len(versions') = n /\ \A j \in 1..n : versions'[j] = IF j = n THEN new ELSE versions[j]
  BY <1>2, <1>3, <1>4, ExceptSeq
<1>6. \A j \in 1..n : /\ versions'[j].hash = versions[j].hash /\ versions'[j].content = versions[j].content
                      /\ versions'[j].superseded = versions[j].superseded
  BY <1>4, <1>5 DEF w
<1>7. Chain
  OBVIOUS
<1>8. /\ \A j \in 1..n : versions'[j].hash = versions'[j].content
      /\ \A j \in 1..n : versions'[j].superseded = 0 <=> j = n
  BY <1>6, <1>7 DEF Chain, IsCurrent
<1>9. \A j \in 1..n - 1 : versions'[j].content # versions'[j + 1].content
  <2>1. n \in Nat
    BY <1>1
  <2>2. \A j \in 1..n - 1 : versions[j].content # versions[j + 1].content
    BY <1>7 DEF Chain, HistoryAlternates
  <2> HIDE DEF n
  <2>3. \A j \in 1..n - 1 : j \in 1..n /\ j + 1 \in 1..n
    BY <2>1
  <2>4. QED BY <1>6, <2>2, <2>3
<1>10. versions'[n].content = up[u].content /\ versions' # <<>>
  <2>1. versions'[n].content = w.content /\ w.hash = w.content
    BY <1>1, <1>3, <1>4, <1>5, <1>7 DEF Chain, w
  <2>2. QED BY <1>1, <1>5, <2>1
<1>11. QED BY <1>5, <1>8, <1>9, <1>10 DEF Written, VersionsTyped, Chain, IsCurrent, HistoryAlternates

\* Changed content: the last version is closed and a new one follows it.
LEMMA SupersedeKeeps ==
  ASSUME DataAssumption, Typed, Chain, NEW u \in Ups, Supersede(u)
  PROVE  Written(u)
<1> DEFINE n == Len(versions)
           w == versions[n]
           new == [w EXCEPT !.superseded = u]
           s == [versions EXCEPT ![n] = new]
           v == Version(u)
<1>1. up[u].pc = "read" /\ Locked(u) = n /\ n \in Nat \ {0} /\ w.hash # up[u].content /\ up[u].content \in Contents
  BY WriterLocks DEF Supersede, Hash
<1>2. versions' = Append(s, v)
  BY <1>1 DEF Supersede
<1>3. versions \in Seq(Versions) /\ n \in 1..Len(versions) /\ w \in Versions /\ u \in Nat /\ u # 0
  <2>1. u \in Nat /\ u # 0
    BY DEF DataAssumption
  <2>2. versions \in Seq(Versions) /\ n \in 1..Len(versions) /\ w \in Versions
    BY <1>1 DEF Typed, VersionsTyped
  <2>3. QED BY <2>1, <2>2
<1>4. v \in Versions /\ v.hash = v.content /\ v.superseded = 0 /\ v.content = up[u].content
  BY <1>1, <1>3 DEF Version, Hash, Versions
<1> HIDE DEF w, v
<1>5. new \in Versions /\ new.hash = w.hash /\ new.content = w.content /\ new.superseded = u
  BY <1>3 DEF Versions
<1> HIDE DEF new
<1>6. s \in Seq(Versions) /\ Len(s) = n /\ \A j \in 1..n : s[j] = IF j = n THEN new ELSE versions[j]
  BY <1>3, <1>5, ExceptSeq
<1> HIDE DEF s
<1>7. Chain
  OBVIOUS
<1>8. \A j \in 1..n : s[j].hash = s[j].content /\ s[j].superseded # 0
  BY <1>3, <1>5, <1>6, <1>7 DEF Chain, IsCurrent, w
<1>9. \A j \in 1..n : s[j].content = versions[j].content
  BY <1>5, <1>6 DEF w
<1>10. \A j \in 1..n - 1 : s[j].content # s[j + 1].content
  <2>1. n \in Nat
    BY <1>1
  <2>2. \A j \in 1..n - 1 : versions[j].content # versions[j + 1].content
    BY <1>7 DEF Chain, HistoryAlternates
  <2> HIDE DEF n
  <2>3. \A j \in 1..n - 1 : j \in 1..n /\ j + 1 \in 1..n
    BY <2>1
  <2>4. QED BY <1>9, <2>2, <2>3
<1>11. s[n].content # v.content
  BY <1>1, <1>3, <1>4, <1>5, <1>6, <1>7 DEF Chain, w
<1>12. VersionsTyped
  BY DEF Typed
<1>13. /\ VersionsTyped' /\ Chain' /\ versions' # <<>> /\ versions'[Len(versions')].content = v.content
  BY <1>2, <1>4, <1>6, <1>8, <1>10, <1>11, <1>12, ChainGrows
<1>14. QED BY <1>4, <1>13 DEF Written

\* Without a current version there is none at all.
LEMMA InsertKeeps ==
  ASSUME DataAssumption, Typed, Chain, NEW u \in Ups, InsertFirst(u)
  PROVE  Written(u)
<1> DEFINE v == Version(u)
<1>1. up[u].pc = "read" /\ up[u].content \in Contents /\ Current = {} /\ versions' = Append(versions, v)
  BY WriterLocks DEF InsertFirst
<1>2. u \in Nat /\ VersionsTyped /\ versions \in Seq(Versions)
  BY DEF DataAssumption, Typed, VersionsTyped
<1>3. v \in Versions /\ v.hash = v.content /\ v.superseded = 0 /\ v.content = up[u].content
  BY <1>1, <1>2 DEF Version, Hash, Versions
<1> HIDE DEF v
<1>4. Len(versions) = 0
  <2>1. Len(versions) \in Nat
    BY <1>2
  <2>2. Len(versions) \notin 1..Len(versions)
    BY <1>1 DEF Chain, Current
  <2>3. QED BY <2>1, <2>2
<1>5. /\ \A i \in 1..Len(versions) : versions[i].hash = versions[i].content /\ versions[i].superseded # 0
      /\ \A i \in 1..Len(versions) - 1 : versions[i].content # versions[i + 1].content
      /\ Len(versions) > 0 => versions[Len(versions)].content # v.content
  BY <1>4
<1>6. /\ VersionsTyped' /\ Chain' /\ versions' # <<>> /\ versions'[Len(versions')].content = v.content
  BY <1>1, <1>2, <1>3, <1>4, <1>5, ChainGrows
<1>7. QED BY <1>3, <1>6 DEF Written

-----------------------------------------------------------------------------
(* Every step.                                                              *)

Writes(u) == Touch(u) \/ Supersede(u) \/ InsertFirst(u)

\* Only one that writes a version gets a snapshot acknowledged.
LEMMA UpMoves ==
  ASSUME DataAssumption, Typed, Next
  PROVE  /\ UpsTyped'
         /\ \A v \in Ups : up[v].kind = "snapshot" /\ up[v].pc # "ok" /\ up'[v].pc = "ok" => Writes(v)
<1> DEFINE Good == /\ up' \in [Ups -> Collections]
                   /\ \A v \in Ups : up[v].kind = "snapshot" /\ up[v].pc # "ok" /\ up'[v].pc = "ok" => Writes(v)
<1>1. up \in [Ups -> Collections] /\ home \in {"mine", "other", "gone"}
  BY DEF Typed, UpsTyped
<1>2. home' \in {"mine", "other", "gone"}
  BY <1>1 DEF Next, Collect, Check, DeleteDatasource, Fail, ReadCurrent, Touch, Supersede, InsertFirst,
     Publish, BeginSlowlog, LockEntity, InsertSeries, SeriesRange
<1>3. ASSUME UNCHANGED up PROVE Good
  BY <1>1, <1>3
<1>4. ASSUME NEW u \in Ups, Collect(u) PROVE Good
  BY <1>4, CollectMoves
<1>5. ASSUME NEW u \in Ups, ReadCurrent(u) PROVE Good
  BY <1>5, ReadMoves
<1>6. ASSUME NEW u \in Ups, Check(u) \/ Fail(u) PROVE Good
  <2>1. PICK pc \in {"checked", "failed"} : up' = [up EXCEPT ![u].pc = pc]
    BY <1>6 DEF Check, Fail, Goto
  <2>2. pc \in {"checked", "upserting"} \cup Final /\ pc # "upserting" /\ pc # "ok"
    BY DEF Final
  <2>3. pc = "upserting" => up[u].kind = "slowlog"
    BY <2>2
  <2>4. up' \in [Ups -> Collections] /\ \A v \in Ups : up'[v].pc = IF v = u THEN pc ELSE up[v].pc
    BY <2>1, <2>2, <2>3, GotoMoves
  <2>5. QED BY <2>2, <2>4
<1>7. ASSUME NEW u \in Ups, Writes(u) PROVE Good
  <2>1. up' = [up EXCEPT ![u].pc = "ok"]
    BY <1>7 DEF Writes, Touch, Supersede, InsertFirst, Goto
  <2>2. "ok" \in {"checked", "upserting"} \cup Final
    BY DEF Final
  <2>3. QED BY <1>7, <2>1, <2>2, GotoMoves
<1>8. ASSUME NEW u \in Ups, Publish(u) \/ BeginSlowlog(u) \/ InsertSeries(u) PROVE Good
  <2>1. PICK pc \in {"ok", "upserting"} : up' = [up EXCEPT ![u].pc = pc]
    BY <1>8 DEF Publish, BeginSlowlog, InsertSeries, Goto
  <2>2. up[u].kind # "snapshot"
    BY <1>1, <1>8 DEF Publish, BeginSlowlog, InsertSeries, Collections
  <2>3. pc = "upserting" => up[u].kind = "slowlog"
    <3>1. CASE BeginSlowlog(u)
      BY <3>1 DEF BeginSlowlog
    <3>2. CASE Publish(u) \/ InsertSeries(u)
      <4>1. up' = [up EXCEPT ![u].pc = "ok"]
        BY <3>2 DEF Publish, InsertSeries, Goto
      <4>2. up'[u].pc = "ok" /\ up'[u].pc = pc
        BY <1>1, <2>1, <4>1 DEF Collections, Collection
      <4>3. QED BY <4>2
    <3>3. QED BY <1>8, <3>1, <3>2
  <2>4. pc \in {"checked", "upserting"} \cup Final
    BY DEF Final
  <2>5. up' \in [Ups -> Collections] /\ \A v \in Ups : up'[v].pc = IF v = u THEN pc ELSE up[v].pc
    BY <2>1, <2>3, <2>4, GotoMoves
  <2>6. QED BY <2>2, <2>5
<1>9. (\E u \in Ups, i \in 1..2 : LockEntity(u, i)) \/ DeleteDatasource \/ SeriesRange => UNCHANGED up
  BY DEF LockEntity, DeleteDatasource, SeriesRange
<1>10. Good
  BY <1>3, <1>4, <1>5, <1>6, <1>7, <1>8, <1>9 DEF Next, Writes
<1>11. QED BY <1>2, <1>10 DEF UpsTyped

\* Versions are written, dropped with the datasource, or left alone.
LEMMA VersionMoves ==
  ASSUME DataAssumption, Typed, Chain, Next
  PROVE  /\ VersionsTyped' /\ Chain'
         /\ \A u \in Ups : Writes(u) => Written(u)
<1>1. \A u \in Ups : Writes(u) => Written(u)
  BY TouchKeeps, SupersedeKeeps, InsertKeeps DEF Writes
<1>2. CASE UNCHANGED versions
  BY <1>1, <1>2 DEF Typed, VersionsTyped, Chain, IsCurrent, HistoryAlternates
<1>3. CASE versions' = <<>>
  BY <1>1, <1>3 DEF VersionsTyped, Chain, IsCurrent, HistoryAlternates
<1>4. UNCHANGED versions \/ versions' = <<>> \/ \E u \in Ups : Writes(u)
  BY DEF Next, Writes, Collect, Check, DeleteDatasource, Fail, ReadCurrent, Publish, BeginSlowlog,
     LockEntity, InsertSeries, SeriesRange
<1>5. QED BY <1>1, <1>2, <1>3, <1>4 DEF Written

\* A query that has been seen is only ever seen again, later.
LEMMA UpsertMoves ==
  ASSUME DataAssumption, NEW u \in Ups, NEW q \in Queries, entity[q] \in Entity \cup {None}
  PROVE  /\ Upserted(u, q) \in Entity /\ Upserted(u, q) # None /\ u <= Upserted(u, q).last
         /\ entity[q] # None => entity[q].last <= Upserted(u, q).last
<1>1. u \in Nat
  BY DEF DataAssumption
<1>2. CASE entity[q] = None
  BY <1>1, <1>2 DEF Upserted, Entity, DataAssumption
<1>3. CASE entity[q] # None
  <2> DEFINE e == entity[q]
             l == IF e.last < u THEN u ELSE e.last
             new == [e EXCEPT !.last = l]
  <2>1. e \in Entity /\ Upserted(u, q) = new
    BY <1>3 DEF Upserted
  <2> HIDE DEF e
  <2>2. e.last \in Nat
    BY <2>1 DEF Entity
  <2>3. l \in Nat /\ u <= l /\ e.last <= l
    BY <1>1, <2>2
  <2> HIDE DEF l
  <2>4. new \in Entity /\ new.last = l
    BY <2>1, <2>3 DEF Entity
  <2> HIDE DEF new
  <2>5. new # None
    BY <2>4 DEF DataAssumption
  <2>6. QED BY <2>1, <2>3, <2>4, <2>5 DEF e
<1>4. QED BY <1>2, <1>3

\* The queries of a round are slow queries.
LEMMA SeenAreQueries ==
  ASSUME Typed, NEW u \in Ups
  PROVE  Seen(u) \subseteq Queries
<1>1. up[u].rest \in Orders
  BY DEF Typed, UpsTyped, Collections, Collection
<1>2. QED BY <1>1 DEF Orders, Seen

\* The readings and the dictionary.
LEMMA ReadingsMove ==
  ASSUME DataAssumption, Typed, Next
  PROVE  /\ ReadingsTyped'
         /\ EntitiesCoverReadings => EntitiesCoverReadings'
<1>1. /\ entity \in [Queries -> Entity \cup {None}] /\ lock \in [Queries -> Ups \cup {None}]
      /\ readings \subseteq (Queries \cup {None}) \X Ups
  BY DEF Typed, ReadingsTyped
<1>2. ASSUME NEW u \in Ups PROVE Unlocked(u) \in [Queries -> Ups \cup {None}]
  BY <1>1 DEF Unlocked
<1>3. lock' \in [Queries -> Ups \cup {None}]
  <2>1. UNCHANGED lock \/ \E u \in Ups : lock' = Unlocked(u) \/ \E i \in 1..2 : lock' = [lock EXCEPT ![up[u].rest[i]] = u]
    BY DEF Next, Collect, Check, DeleteDatasource, Fail, ReadCurrent, Touch, Supersede, InsertFirst,
       Publish, BeginSlowlog, LockEntity, InsertSeries, SeriesRange
  <2>2. QED BY <1>1, <1>2, <2>1
<1> DEFINE Good == /\ entity' \in [Queries -> Entity \cup {None}] /\ readings' \subseteq (Queries \cup {None}) \X Ups
                   /\ EntitiesCoverReadings => EntitiesCoverReadings'
<1>4. ASSUME UNCHANGED <<entity, readings>>, home' # "gone" => home # "gone" PROVE Good
  BY <1>1, <1>4 DEF EntitiesCoverReadings
<1>5. ASSUME DeleteDatasource PROVE Good
  BY <1>1, <1>5 DEF DeleteDatasource, EntitiesCoverReadings
<1>6. ASSUME NEW u \in Ups, Publish(u) PROVE Good
  BY <1>1, <1>6 DEF Publish, EntitiesCoverReadings
<1>7. ASSUME NEW u \in Ups, InsertSeries(u) PROVE Good
  <2>1. /\ \A q \in Queries : entity'[q] = IF q \in Seen(u) THEN Upserted(u, q) ELSE entity[q]
        /\ readings' = readings \cup {<<q, u>> : q \in Seen(u)} /\ UNCHANGED home
    BY <1>7 DEF InsertSeries
  <2>2. entity' = [q \in Queries |-> IF q \in Seen(u) THEN Upserted(u, q) ELSE entity[q]]
    BY <1>7 DEF InsertSeries
  <2>3. Seen(u) \subseteq Queries
    BY SeenAreQueries
  <2>4. \A q \in Queries : /\ Upserted(u, q) \in Entity /\ Upserted(u, q) # None /\ u <= Upserted(u, q).last
                           /\ entity[q] # None => entity[q].last <= Upserted(u, q).last
    BY <1>1, UpsertMoves
  <2>5. entity' \in [Queries -> Entity \cup {None}]
    BY <1>1, <2>2, <2>4
  <2>6. readings' \subseteq (Queries \cup {None}) \X Ups
    BY <1>1, <2>1, <2>3
  <2>7. ASSUME EntitiesCoverReadings, home # "gone", NEW q \in Queries, NEW t \in Ups, <<q, t>> \in readings', q # None
        PROVE  entity'[q] # None /\ t <= entity'[q].last
    <3>1. CASE <<q, t>> \in readings
      <4>1. entity[q] # None /\ t <= entity[q].last
        BY <2>7, <3>1 DEF EntitiesCoverReadings
      <4>2. entity[q].last \in Nat /\ t \in Nat
        BY <1>1, <4>1 DEF Entity, DataAssumption
      <4>3. CASE q \in Seen(u)
        <5>1. entity'[q] # None /\ entity[q].last <= entity'[q].last /\ entity'[q].last \in Nat
          BY <2>1, <2>4, <4>1, <4>3 DEF Entity
        <5>2. QED BY <4>1, <4>2, <5>1
      <4>4. CASE q \notin Seen(u)
        BY <2>1, <4>1, <4>4
      <4>5. QED BY <4>3, <4>4
    <3>2. CASE <<q, t>> \notin readings
      <4>1. t = u /\ q \in Seen(u)
        BY <2>1, <2>7, <3>2
      <4>2. QED BY <2>1, <2>4, <4>1
    <3>3. QED BY <3>1, <3>2
  <2>8. EntitiesCoverReadings => EntitiesCoverReadings'
    BY <2>1, <2>6, <2>7 DEF EntitiesCoverReadings
  <2>9. QED BY <2>5, <2>6, <2>8
<1>8. \/ UNCHANGED <<entity, readings>> /\ (home' # "gone" => home # "gone")
      \/ DeleteDatasource \/ \E u \in Ups : Publish(u) \/ InsertSeries(u)
  BY DEF Next, Collect, Check, Fail, ReadCurrent, Touch, Supersede, InsertFirst, BeginSlowlog,
     LockEntity, SeriesRange
<1>9. Good
  BY <1>4, <1>5, <1>6, <1>7, <1>8
<1>10. QED BY <1>3, <1>9 DEF ReadingsTyped


-----------------------------------------------------------------------------
(* The theorems.                                                            *)

\* DataInv: the chain of versions and the dictionary that covers the readings.
DataInv == Chain /\ EntitiesCoverReadings

\* Nothing is stored at first.
LEMMA InitData == DataAssumption /\ Init => Typed /\ DataInv
<1> SUFFICES ASSUME DataAssumption, Init PROVE Typed /\ DataInv
  OBVIOUS
<1>1. Idle \in Collections
  BY DEF Idle, Collections, Collection, Kinds, Orders
<1>2. UpsTyped
  BY <1>1 DEF Init, UpsTyped
<1>3. versions = <<>> /\ readings = {} /\ entity = [q \in Queries |-> None] /\ lock = [q \in Queries |-> None]
  BY DEF Init
<1>4. VersionsTyped /\ ReadingsTyped
  BY <1>3 DEF VersionsTyped, ReadingsTyped
<1>5. DataInv
  BY <1>3 DEF DataInv, Chain, HistoryAlternates, EntitiesCoverReadings
<1>6. QED BY <1>2, <1>4, <1>5 DEF Typed

\* Every step keeps both.
LEMMA NextData == DataAssumption /\ Typed /\ DataInv /\ [Next]_dataVars => (Typed /\ DataInv)'
<1> SUFFICES ASSUME DataAssumption, Typed, DataInv, [Next]_dataVars PROVE (Typed /\ DataInv)'
  OBVIOUS
<1>1. CASE Next
  BY <1>1, UpMoves, VersionMoves, ReadingsMove DEF Typed, DataInv
<1>2. CASE UNCHANGED dataVars
  BY <1>2 DEF dataVars, Typed, VersionsTyped, ReadingsTyped, UpsTyped, DataInv, Chain, IsCurrent, HistoryAlternates,
     EntitiesCoverReadings
<1>3. QED BY <1>1, <1>2

\* A snapshot is acknowledged by the step that makes it the current version.
LEMMA StepPublishes == DataAssumption /\ Typed /\ DataInv /\ [Next]_dataVars => [PublishedIsCurrent]_dataVars
<1> SUFFICES ASSUME DataAssumption, Typed, DataInv, Next PROVE PublishedIsCurrent
  OBVIOUS
<1> SUFFICES ASSUME NEW u \in Ups, up[u].kind = "snapshot", up[u].pc # "ok", up'[u].pc = "ok"
             PROVE  LatestSnapshot' = {up[u].content}
  BY DEF PublishedIsCurrent
<1>1. Writes(u)
  BY UpMoves
<1>2. Written(u)
  BY <1>1, VersionMoves DEF DataInv
<1>3. (VersionsTyped /\ Chain /\ versions # <<>> => LatestSnapshot = {versions[Len(versions)].content})'
  BY LastIsLatest, PTL
<1>4. QED BY <1>2, <1>3 DEF Written

\* What is kept of a datasource's data has its types, at every moment.
LEMMA DataInvariant == ASSUME DataAssumption PROVE Spec => [](Typed /\ DataInv)
BY InitData, NextData, PTL DEF Spec

\* TypeOK: versions, dictionary, locks and collections have their types
\* (the rows of collected.snapshots and collected.entities).
THEOREM TypeCorrect == ASSUME DataAssumption PROVE Spec => []TypeOK
BY DataInvariant, TypeParts, PTL

\* HistoryAlternates: supersedeIfChanged never stores a version that repeats
\* the one before it, however many collections write at a time.
THEOREM HistoryCorrect == ASSUME DataAssumption PROVE Spec => []HistoryAlternates
<1>1. Chain => HistoryAlternates
  BY DEF Chain
<1>2. DataInv => HistoryAlternates
  BY <1>1 DEF DataInv
<1>3. QED BY <1>2, DataInvariant, PTL

\* EntitiesCoverReadings: upsertEntities never lets a reading outrun the time
\* its query was last seen, in whatever order the rounds commit.
THEOREM EntitiesCorrect == ASSUME DataAssumption PROVE Spec => []EntitiesCoverReadings
<1>1. DataInv => EntitiesCoverReadings
  BY DEF DataInv
<1>2. QED BY <1>1, DataInvariant, PTL

\* OkMeansCurrent: publishStateSnapshot succeeds only in the step that makes
\* its content the one LatestSnapshot returns.
THEOREM PublicationsCorrect == ASSUME DataAssumption PROVE Spec => OkMeansCurrent
BY DataInvariant, StepPublishes, PTL DEF Spec, OkMeansCurrent


\* Before the first query there is nothing to miss.
LEMMA InitLayer == Init => LayerStillHolds
BY DEF Init, LayerStillHolds, Retention

\* Of every window the layer that still holds its start is chosen.
LEMMA NextLayer == DataAssumption /\ LayerStillHolds /\ [Next]_dataVars => LayerStillHolds'
<1> SUFFICES ASSUME DataAssumption, LayerStillHolds, [Next]_dataVars PROVE LayerStillHolds'
  OBVIOUS
<1>1. UNCHANGED query \/ SeriesRange
  BY DEF Next, dataVars, Collect, Check, DeleteDatasource, Fail, ReadCurrent, Touch, Supersede,
     InsertFirst, Publish, BeginSlowlog, LockEntity, InsertSeries
<1>2. CASE UNCHANGED query
  BY <1>2 DEF LayerStillHolds
<1>3. CASE SeriesRange
  <2>1. PICK age \in Ages, width \in Widths : query' = [from |-> age, layer |-> LayerFor(age, width)]
    BY <1>3 DEF SeriesRange
  <2>2. age \in Nat
    BY DEF DataAssumption
  <2>3. CASE age <= 14
    BY <2>1, <2>2, <2>3 DEF LayerFor, Retention, LayerStillHolds
  <2>4. CASE age > 14 /\ age <= 90
    BY <2>1, <2>2, <2>4 DEF LayerFor, Retention, LayerStillHolds
  <2>5. CASE age > 90
    BY <2>1, <2>2, <2>5 DEF LayerFor, Retention, LayerStillHolds, Layers
  <2>6. QED BY <2>2, <2>3, <2>4, <2>5
<1>4. QED BY <1>1, <1>2, <1>3

\* LayerStillHolds: layerFor answers from a layer that still holds the start
\* of the window, unless no layer does (the retentions of migration 0004).
THEOREM LayersCorrect == ASSUME DataAssumption PROVE Spec => []LayerStillHolds
BY InitLayer, NextLayer, PTL DEF Spec
=============================================================================
