--------------------------------- MODULE Probe ---------------------------------
(***************************************************************************)
(* The probes that both channels share (src/libs/metrics): a snapshot is   *)
(* read from the first source of a chain that can be used, a batch of      *)
(* metrics entry by entry.  Every query is a step of its own: between two  *)
(* of them the customer's database may fail, change its permissions and    *)
(* its contents.  On the connector a command starts the probe and a frame  *)
(* carries the result (dbprobe); on the direct channel a collection loop   *)
(* does, and a sink takes it.                                              *)
(***************************************************************************)
EXTENDS Naturals, Sequences, FiniteSets

CONSTANTS
  Tables,       \* a sequence of records [schema, name, width]: width columns, indexes alike
  Layouts,      \* sequences of positions in Tables, the largest table first
  Workloads,    \* sets of statements in the statistics; a statement is the length of its text
  Settings,     \* contents of pg_settings by name; a setting is its size
  TopN,         \* statements and tables per snapshot (50 and 500 in the code)
  TextMax,      \* QueryTextMaxLen
  ColumnRows,   \* schemaColumnMaxRows, schemaIndexMaxRows
  ConfigRows,   \* configMaxRows
  MaxBytes,     \* SnapshotMaxBytes
  MaxChanges,   \* bound: changes of the database
  None

VARIABLES
  db,           \* the customer's database
  job,          \* the collection under way
  out,          \* what the last one came to
  changes

vars == <<db, job, out, changes>>

Statistics == {"pg_stat_statements", "dbe_perf"}
Entries == {"total", "lag_seconds", "lag_bytes"}
Databases ==
  [up : BOOLEAN, standby : BOOLEAN, old : BOOLEAN, view : [Statistics -> {"absent", "denied", "granted"}],
   layout : Layouts, workload : Workloads, settings : Settings]

TableKey(t) == <<Tables[t].schema, Tables[t].name>>

\* A schema has one relation of a name (pg_class); snapshots have room for one entry.
ProbeAssumption ==
  /\ Tables \in Seq([schema : Nat, name : Nat, width : Nat])
  /\ \A i, j \in DOMAIN Tables : TableKey(i) = TableKey(j) => i = j
  /\ Layouts \subseteq Seq(DOMAIN Tables)
  /\ \A w \in Workloads : w \subseteq Nat /\ IsFiniteSet(w)
  /\ Settings \subseteq Seq(Nat)
  /\ TopN \in Nat \ {0} /\ {TextMax, ColumnRows, ConfigRows, MaxBytes, MaxChanges} \subseteq Nat

\* snapshotSourcesFor, CatalogFor: only this engine family has catalogues.
Sources(family, kind) ==
  IF family # "postgres" THEN <<>>
  ELSE CASE kind = "slowlog" -> <<"pg_stat_statements", "dbe_perf">>
         [] kind = "schema" -> <<"pg_catalog">>
         [] OTHER -> <<"pg_settings">>

Queries(kind) ==
  CASE kind = "slowlog" -> <<"slow_queries">>
    [] kind = "schema" -> <<"tables", "columns", "indexes">>
    [] OTHER -> <<"configs">>

Idle == [pc |-> "idle", via |-> None, kind |-> None, family |-> None, source |-> 0, query |-> 0,
         rows |-> <<>>, errs |-> {}, passed |-> {}, got |-> {}, missing |-> {}]
Nothing == [result |-> "none", via |-> None]

\* The command for a kind is the command for one of these; there is no SQL in it.
CommandKinds == {"metrics", "slowlog", "schema", "config"}

-----------------------------------------------------------------------------
(* The database, as its administrators and its users change it.            *)

Change ==
  /\ changes < MaxChanges /\ changes' = changes + 1
  /\ \E d \in Databases :
       /\ d # db /\ d.old = db.old
       /\ Cardinality({f \in DOMAIN d : d[f] # db[f]}) = 1
       /\ db' = d
  /\ UNCHANGED <<job, out>>

\* The two-step test, as the database would answer it now.
Present(s) == db.up /\ (s \in Statistics => db.view[s] # "absent")
Readable(s) == db.up /\ (s \in Statistics => db.view[s] = "granted")

\* pg_stat_statements of an old release has other columns: it reads, but the query fails.
Answers(s) == Readable(s) /\ ~(s = "pg_stat_statements" /\ db.old)

First(rows, n) == SubSeq(rows, 1, IF n < Len(rows) THEN n ELSE Len(rows))

\* The tables of one query, and what belongs to them.
Listed == First(db.layout, TopN)
Owned == UNION {{[t |-> i, n |-> j] : j \in 1..Tables[i].width} : i \in {Listed[k] : k \in DOMAIN Listed}}

\* ORDER BY: the sequences of all elements of a set that go by an order.
Sorted(S, Before(_, _)) == {r \in [1..Cardinality(S) -> S] : \A i, j \in DOMAIN r : i < j => Before(r[i], r[j])}
ByTable(a, b) == a.t < b.t \/ (a.t = b.t /\ a.n < b.n)
ByCost(a, b) == a > b

\* QueryRows: what one query may answer, cut at its maximum.
QueryRows(q) ==
  CASE q = "tables" -> {[k \in DOMAIN Listed |-> [t |-> Listed[k], n |-> 0]]}
    [] q \in {"columns", "indexes"} -> {First(r, ColumnRows) : r \in Sorted(Owned, ByTable)}
    [] q = "slow_queries" -> {First(r, TopN) : r \in Sorted(db.workload, ByCost)}
    [] OTHER -> {First(db.settings, ConfigRows)}

-----------------------------------------------------------------------------
(* The start: a command, or a collection loop.                             *)

\* Handle, ChainHandler, decodeProbeRequest; collectOnce.
Collect(via, kind, family, wellFormed) ==
  /\ job.pc = "idle"
  /\ CASE kind \notin CommandKinds -> out' = [result |-> "unsupported", via |-> via] /\ job' = Idle
       [] kind \in CommandKinds /\ ~wellFormed -> out' = [result |-> "invalid", via |-> via] /\ job' = Idle
       [] OTHER ->
            IF family # "postgres" THEN out' = [result |-> "failed", via |-> via] /\ job' = Idle
            ELSE /\ out' = Nothing
                 /\ job' = [Idle EXCEPT !.pc = IF kind = "metrics" THEN "entry" ELSE "probe", !.via = via,
                                        !.kind = kind, !.family = family, !.source = 1]
  /\ UNCHANGED <<db, changes>>

-----------------------------------------------------------------------------
(* SnapshotProbe.Collect.                                                  *)

Chain == Sources(job.family, job.kind)
Source == Chain[job.source]
NextSource == [job EXCEPT !.pc = "probe", !.source = @ + 1, !.query = 0, !.rows = <<>>]

\* sourceAvailable, ProbeSQL: an error counts as an absence.
ProbeSource ==
  /\ job.pc = "probe" /\ job.source <= Len(Chain)
  /\ job' = IF Source \in Statistics /\ ~Present(Source) THEN NextSource ELSE [job EXCEPT !.pc = "readcheck"]
  /\ UNCHANGED <<db, out, changes>>

\* sourceAvailable, ReadCheckSQL.
ReadCheck ==
  /\ job.pc = "readcheck"
  /\ job' = IF Source \in Statistics /\ ~Readable(Source) THEN NextSource
            ELSE [job EXCEPT !.pc = "query", !.query = 1, !.passed = @ \cup {Source}]
  /\ UNCHANGED <<db, out, changes>>

\* Mutant: the next candidate is tried and the error forgotten.
QueryFailsQuietly ==
  /\ job.pc = "query" /\ ~Answers(Source)
  /\ job' = NextSource
  /\ UNCHANGED <<db, out, changes>>

\* runSourceQueries fails: what the source's earlier queries gave is dropped.
QueryFails ==
  /\ job.pc = "query" /\ ~Answers(Source)
  /\ job' = [NextSource EXCEPT !.errs = @ \cup {Source}]
  /\ UNCHANGED <<db, out, changes>>

RunQuery ==
  /\ job.pc = "query" /\ Answers(Source)
  /\ \E answer \in QueryRows(Queries(job.kind)[job.query]) :
       job' = [job EXCEPT !.rows = Append(@, answer), !.query = @ + 1,
                          !.pc = IF job.query = Len(Queries(job.kind)) THEN "fill" ELSE @]
  /\ UNCHANGED <<db, out, changes>>

\* parseTables: columns and indexes of a table that has not been listed are dropped;
\* of two tables with one key the later would get everything.
ParseTables(rows) ==
  LET tables == First(rows[1], TopN)
      Position(t) == {i \in DOMAIN tables : TableKey(tables[i].t) = TableKey(t)
                                            /\ \A j \in DOMAIN tables : j > i => TableKey(tables[j].t) # TableKey(t)}
      Of(i, more) == {r \in {more[k] : k \in DOMAIN more} : i \in Position(r.t)}
  IN  [i \in DOMAIN tables |-> [t |-> tables[i].t, columns |-> Of(i, rows[2]), indexes |-> Of(i, rows[3])]]

\* parseSlowQueries, truncateText.
ParseStatements(rows) == [i \in DOMAIN rows |-> IF rows[i] > TextMax THEN TextMax ELSE rows[i]]

FillSnapshot(kind, rows) ==
  CASE kind = "schema" -> ParseTables(rows)
    [] kind = "slowlog" -> ParseStatements(rows[1])
    [] OTHER -> rows[1]

\* snapshotSize: what an entry takes, and all of them.
EntrySize(kind, e) == IF kind = "schema" THEN 1 + Cardinality(e.columns) + Cardinality(e.indexes) ELSE e
Size(kind, entries) ==
  LET upTo[n \in 0..Len(entries)] == IF n = 0 THEN 0 ELSE upTo[n - 1] + EntrySize(kind, entries[n])
  IN  upTo[Len(entries)]

\* Mutant: shortened once.
EnforceOnce(kind, entries) ==
  IF Size(kind, entries) <= MaxBytes THEN entries ELSE SubSeq(entries, 1, Len(entries) - 1)

\* dropTail: a tenth, and at least one.
DropTail(n) == n - (IF n < 10 THEN 1 ELSE n \div 10)

\* enforceSnapshotSize: shorter from the tail until it fits or is empty.
EnforceSnapshotSize(kind, entries) ==
  LET fit[n \in 0..Len(entries)] ==
        IF n = 0 \/ Size(kind, SubSeq(entries, 1, n)) <= MaxBytes THEN n ELSE fit[DropTail(n)]
  IN  SubSeq(entries, 1, fit[Len(entries)])

\* The flag.  The query's own limit is TopN as well, so that rows[1] never exceeds it:
\* a table left out for that reason does not set the flag.
Truncated(kind, rows, entries) ==
  \/ EnforceSnapshotSize(kind, entries) # entries
  \/ kind = "slowlog" /\ \E i \in DOMAIN rows[1] : rows[1][i] > TextMax
  \/ kind = "schema" /\ Len(rows[1]) > TopN

\* uploadFrame, or PublishSnapshot.
Fill ==
  /\ job.pc = "fill"
  /\ LET entries == FillSnapshot(job.kind, job.rows)
     IN  out' = [result |-> "snapshot", via |-> job.via, kind |-> job.kind, source |-> Source, passed |-> job.passed,
                 entries |-> EnforceSnapshotSize(job.kind, entries),
                 truncated |-> Truncated(job.kind, job.rows, entries)]
  /\ job' = Idle
  /\ UNCHANGED <<db, changes>>

\* No candidate is left: an error if one of them was usable, else a snapshot that says so.
Exhausted ==
  /\ job.pc = "probe" /\ job.source > Len(Chain) /\ job' = Idle
  /\ out' = IF job.errs # {} THEN [result |-> "failed", via |-> job.via, passed |-> job.passed]
            ELSE [result |-> "capability_missing", via |-> job.via, kind |-> job.kind, passed |-> job.passed]
  /\ UNCHANGED <<db, changes>>

-----------------------------------------------------------------------------
(* Probe.Collect.                                                          *)

\* An entry has its SQL and may have another one for old releases.
MainAnswers(e) == db.up /\ ~(e = "lag_bytes" /\ db.old)
AltAnswers(e) == db.up /\ e = "lag_bytes" /\ db.old

\* On a primary the lag is NULL.
HasValue(e) == (MainAnswers(e) \/ AltAnswers(e)) /\ (e # "total" => db.standby)

\* A query that fails leaves its entry out, and the batch goes on.
CollectEntry(e) ==
  /\ job.pc = "entry" /\ e \notin job.got \cup job.missing
  /\ job' = IF HasValue(e) THEN [job EXCEPT !.got = @ \cup {e}] ELSE [job EXCEPT !.missing = @ \cup {e}]
  /\ UNCHANGED <<db, out, changes>>

BatchComplete == job.pc = "entry" /\ job.got \cup job.missing = Entries

FinishBatch ==
  /\ BatchComplete /\ job' = Idle
  /\ out' = IF job.got = {} THEN [result |-> "failed", via |-> job.via]
            ELSE [result |-> "batch", via |-> job.via, metrics |-> job.got,
                  missing |-> job.missing, partial |-> job.missing # {}]
  /\ UNCHANGED <<db, changes>>

\* uploadFrame: JSON has no NaN, so that a batch with one cannot leave the connector.
\* (A snapshot has been serialised before, by enforceSnapshotSize.)
UploadFails ==
  /\ BatchComplete /\ job.via = "connector" /\ job.got # {} /\ job' = Idle
  /\ out' = [result |-> "failed", via |-> job.via]
  /\ UNCHANGED <<db, changes>>

Init == db \in {d \in Databases : d.up /\ ~d.standby} /\ job = Idle /\ out = Nothing /\ changes = 0

Next ==
  \/ Change
  \/ \E kind \in CommandKinds \cup {None}, family \in {"postgres", "other"}, ok \in BOOLEAN :
       Collect("connector", kind, family, ok)
  \/ \E kind \in CommandKinds, family \in {"postgres", "other"} : Collect("direct", kind, family, TRUE)
  \/ ProbeSource \/ ReadCheck \/ QueryFails \/ RunQuery \/ Fill \/ Exhausted
  \/ \E e \in Entries : CollectEntry(e)
  \/ FinishBatch \/ UploadFails

Spec == Init /\ [][Next]_vars

-----------------------------------------------------------------------------
(* Properties.                                                             *)

TypeOK ==
  /\ db \in Databases /\ changes \in 0..MaxChanges
  /\ job.pc \in {"idle", "probe", "readcheck", "query", "fill", "entry"}
  /\ job.source \in 0..3 /\ job.query \in 0..4 /\ job.errs \subseteq job.passed
  /\ out.result \in {"none", "unsupported", "invalid", "failed", "snapshot", "capability_missing", "batch"}

\* Settings are the only kind that the probe does not cut at TopN.
MaxEntries(kind) == IF kind = "config" THEN ConfigRows ELSE TopN

\* Collect, parseTables, enforceSnapshotSize: a missing capability is reported only if no
\* candidate ever passed its test, whatever failed or changed on the way; a snapshot
\* comes from a source that did, holds each table's own columns and indexes, and fits;
\* every metric of a batch is either there or named as missing.
CollectionIsSound ==
  /\ out.result = "capability_missing" => out.passed = {}
  /\ out.result = "snapshot" =>
       /\ out.source \in out.passed
       /\ Len(out.entries) <= MaxEntries(out.kind) /\ Size(out.kind, out.entries) <= MaxBytes
       /\ out.kind = "schema" => \A i \in DOMAIN out.entries :
            \A r \in out.entries[i].columns \cup out.entries[i].indexes : r.t = out.entries[i].t
  /\ out.result = "batch" => out.metrics = Entries \ out.missing /\ out.partial = (out.missing # {})
================================================================================
