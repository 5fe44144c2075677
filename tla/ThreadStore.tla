------------------------------ MODULE ThreadStore ------------------------------
(***************************************************************************)
(* The thread store the core and the HTTP interface work with              *)
(* (src/agent-runtime/internal/pgstore: threads, thread_meta, items,       *)
(* turns): rows that are created, patched, archived and deleted by         *)
(* concurrent transactions (read committed), and clients that page through *)
(* the threads, or the items or turns of one thread, meanwhile.  Who runs  *)
(* a thread, and how events are numbered, is in ThreadLifecycle and        *)
(* RolloutEvents.                                                          *)
(***************************************************************************)
EXTENDS Naturals, Sequences, FiniteSets

CONSTANTS
  Threads,     \* ids, numbered in the order of creation
  Turns,       \* turn ids
  Txs,         \* transactions that read a row before they write it
  Patches,     \* metadata patches: functions of some of the Fields
  Walks,       \* what is paged through: "threads", "items", "turns"
  Size,        \* rows per page
  MaxSeq,      \* bound: events per thread
  MaxClock,    \* bound: ticks of the database clock
  None

VARIABLES
  row,         \* agent_threads
  log,         \* agent_rollout_events
  clock,       \* now()
  tx,          \* transactions between their read and their write
  walk         \* a client that follows the cursors; walk.touched is history only

storeVars == <<row, log, clock, tx, walk>>

\* A page holds a row at least, and None is no key.
StoreAssumption ==
  /\ Threads \subseteq Nat /\ IsFiniteSet(Threads) /\ Walks \subseteq {"threads", "items", "turns"}
  /\ Size \in Nat \ {0} /\ MaxSeq \in Nat /\ MaxClock \in Nat /\ None \notin Nat \X Nat

\* "name" stands for the fields a patch replaces, "recency" for the one it only advances.
Fields == {"name", "recency"}

NoRow == [status |-> "absent", parent |-> None, title |-> 0, meta |-> [f \in Fields |-> 0], at |-> 0]
NoTx == [op |-> "none", on |-> {}, meta |-> None, title |-> 0, at |-> 0]
NoWalk == [of |-> "none", pc |-> "none", t |-> None, archived |-> FALSE, desc |-> FALSE, from |-> None,
           got |-> <<>>, end |-> 0, touched |-> {}]

Ops == {"patch", "delete", "archive", "unarchive"}
Boundaries == {"turn_started", "turn_complete", "turn_aborted"}
Events == [kind : {"response_item"}, turn : {None}] \cup [kind : Boundaries, turn : Turns]

TypeOK ==
  /\ \A t \in Threads : /\ row[t].status \in {"absent", "live", "archived", "deleted"}
                        /\ row[t].at \in 0..clock /\ Len(log[t]) <= MaxSeq
                        /\ row[t].status = "absent" => row[t] = NoRow /\ log[t] = <<>>
  /\ \A x \in Txs : tx[x].op \in {"none"} \cup Ops /\ tx[x].on \subseteq Threads /\ tx[x].at <= clock
  /\ walk.of \in {"none"} \cup Walks /\ walk.pc \in {"none", "page", "done"} /\ clock <= MaxClock

-----------------------------------------------------------------------------
(* Rows.                                                                   *)

\* readRow, with the archived ones.
Visible(t) == row[t].status \in {"live", "archived"}

Touch(S) == walk' = [walk EXCEPT !.touched = @ \cup S]

CreateThread(t) ==
  /\ row[t].status = "absent" /\ \A s \in Threads : s < t => row[s].status # "absent"
  /\ \E p \in {None} \cup {s \in Threads : s < t} :   \* whatever has become of the parent
       row' = [row EXCEPT ![t] = [NoRow EXCEPT !.status = "live", !.parent = p, !.at = clock]]
  /\ Touch({t}) /\ UNCHANGED <<log, clock, tx>>

\* appendEvents, which takes the row lock first.
AppendItems(t) ==
  /\ Visible(t) /\ Len(log[t]) < MaxSeq
  /\ \E e \in Events : log' = [log EXCEPT ![t] = Append(@, e)]
  /\ row' = [row EXCEPT ![t].at = clock]
  /\ Touch({t}) /\ UNCHANGED <<clock, tx>>

SetThreadAttributes(t) ==
  /\ Visible(t) /\ row' = [row EXCEPT ![t].title = 1, ![t].at = clock]
  /\ Touch({t}) /\ UNCHANGED <<log, clock, tx>>

Tick ==
  /\ clock < MaxClock /\ clock' = clock + 1
  /\ UNCHANGED <<row, log, tx, walk>>

Merged(meta, patch) ==
  [f \in Fields |-> IF f \notin DOMAIN patch \/ (f = "recency" /\ patch[f] <= meta[f]) THEN meta[f] ELSE patch[f]]

\* A patch is merged into the row as it was read, without a lock.
BeginUpdate(x) ==
  /\ tx[x].op = "none"
  /\ \E t \in Threads, p \in Patches :
       /\ Visible(t)
       /\ LET meta == Merged(row[t].meta, p)
          IN  tx' = [tx EXCEPT ![x] = [op |-> "patch", on |-> {t}, meta |-> meta, at |-> clock,
                                       title |-> IF meta["name"] # 0 THEN meta["name"] ELSE row[t].title]]
  /\ UNCHANGED <<row, log, clock, walk>>

BeginArchive(x) ==
  /\ tx[x].op = "none"
  /\ \E t \in Threads, op \in {"archive", "unarchive"} :
       Visible(t) /\ tx' = [tx EXCEPT ![x] = [NoTx EXCEPT !.op = op, !.on = {t}, !.at = clock]]
  /\ UNCHANGED <<row, log, clock, walk>>

\* Refused while a thread outside of the batch still refers to one in it.
BeginDelete(x) ==
  /\ tx[x].op = "none"
  /\ \E S \in SUBSET Threads :
       /\ S # {} /\ (Cardinality(S) = 1 => \A t \in S : Visible(t))
       /\ ~\E c \in Threads \ S : Visible(c) /\ row[c].parent \in S
       /\ tx' = [tx EXCEPT ![x] = [NoTx EXCEPT !.op = "delete", !.on = S, !.at = clock]]
  /\ UNCHANGED <<row, log, clock, walk>>

Write(x, S, New(_)) ==
  /\ row' = [t \in Threads |-> IF t \in S THEN [New(row[t]) EXCEPT !.at = tx[x].at] ELSE row[t]]
  /\ Touch(S) /\ tx' = [tx EXCEPT ![x] = NoTx] /\ UNCHANGED <<log, clock>>

\* The update has no condition, but the row is read again in the same
\* transaction: it is undone when the thread has been deleted meanwhile.
UpdateThreadMetadata(x) ==
  /\ tx[x].op = "patch"
  /\ Write(x, {t \in tx[x].on : Visible(t)}, LAMBDA r : [r EXCEPT !.meta = tx[x].meta, !.title = tx[x].title])

ArchiveThread(x) ==
  /\ tx[x].op = "archive"
  /\ Write(x, {t \in tx[x].on : Visible(t)}, LAMBDA r : [r EXCEPT !.status = "archived"])

UnarchiveThread(x) ==
  /\ tx[x].op = "unarchive"
  /\ Write(x, {t \in tx[x].on : row[t].status = "archived"}, LAMBDA r : [r EXCEPT !.status = "live"])

\* The children are not looked at again.
DeleteThreads(x) ==
  /\ tx[x].op = "delete"
  /\ Write(x, {t \in tx[x].on : row[t].status # "absent"}, LAMBDA r : [r EXCEPT !.status = "deleted"])

-----------------------------------------------------------------------------
(* Pages.  A key is <<updated_at, id>> of a thread, <<seq, 0>> of an item, *)
(* <<seq of its first event, id>> of a turn.                               *)

Less(a, b) == a[1] < b[1] \/ (a[1] = b[1] /\ a[2] < b[2])
Precedes(w, a, b) == IF w.desc THEN Less(b, a) ELSE Less(a, b)

\* The keys of S, each once, in the order of w.
Sorted(w, S) ==
  CHOOSE s \in [1..Cardinality(S) -> S] : \A i, j \in 1..Cardinality(S) : i < j => Precedes(w, s[i], s[j])

Beyond(w, key) == w.from = None \/ Precedes(w, w.from, key)

ListThreads(w) ==
  {k \in {<<row[t].at, t>> : t \in {s \in Threads : row[s].status = IF w.archived THEN "archived" ELSE "live"}} : Beyond(w, k)}

ListItems(w) ==
  {k \in {<<i, 0>> : i \in {j \in DOMAIN log[w.t] : log[w.t][j].kind = "response_item"}} : Beyond(w, k)}

\* Turns are put together from those of their events that are beyond the cursor.
ListTurns(w) ==
  LET ev == {i \in DOMAIN log[w.t] : log[w.t][i].kind \in Boundaries /\ Beyond(w, <<i, 0>>)}
      before(i, j) == Precedes(w, <<i, 0>>, <<j, 0>>)
  IN  {<<i, log[w.t][i].turn>> : i \in {j \in ev : ~\E k \in ev : log[w.t][k].turn = log[w.t][j].turn /\ before(k, j)}}

\* Mutant: the cursor is the row that does not fit on the page any more.
CursorSkips(w, s) ==
  IF Len(s) > Size THEN [w EXCEPT !.from = s[Size + 1]] ELSE [w EXCEPT !.pc = "done"]

\* One row more than fits tells that there is another page; the cursor is the last
\* one that fits.  That of turns is a sequence number alone.
Cursor(w, s) ==
  IF Len(s) > Size THEN [w EXCEPT !.from = IF w.of = "turns" THEN <<s[Size][1], 0>> ELSE s[Size]]
  ELSE [w EXCEPT !.pc = "done"]

BeginWalk ==
  /\ walk.pc = "none"
  /\ \E of \in Walks, t \in Threads, a, d \in BOOLEAN :
       /\ of = "threads" \/ (Visible(t) /\ ~a)
       /\ of = "threads" => t = 1
       /\ walk' = [NoWalk EXCEPT !.of = of, !.pc = "page", !.t = t, !.archived = a, !.desc = d, !.end = Len(log[t])]
  /\ UNCHANGED <<row, log, clock, tx>>

NextPage ==
  /\ walk.pc = "page" /\ (walk.of = "threads" \/ Visible(walk.t))
  /\ LET s == Sorted(walk, CASE walk.of = "threads" -> ListThreads(walk)
                             [] walk.of = "items" -> ListItems(walk)
                             [] walk.of = "turns" -> ListTurns(walk))
     IN  walk' = [Cursor(walk, s) EXCEPT !.got = @ \o SubSeq(s, 1, IF Len(s) < Size THEN Len(s) ELSE Size)]
  /\ UNCHANGED <<row, log, clock, tx>>

\* The thread has been deleted, or the client has seen enough.
EndWalk ==
  /\ walk.pc # "none" /\ walk' = NoWalk
  /\ UNCHANGED <<row, log, clock, tx>>

Init ==
  /\ row = [t \in Threads |-> NoRow] /\ log = [t \in Threads |-> <<>>] /\ clock = 0
  /\ tx = [x \in Txs |-> NoTx] /\ walk = NoWalk

Next ==
  \/ \E t \in Threads : CreateThread(t) \/ AppendItems(t) \/ SetThreadAttributes(t)
  \/ Tick \/ BeginWalk \/ NextPage \/ EndWalk
  \/ \E x \in Txs : \/ BeginUpdate(x) \/ BeginArchive(x) \/ BeginDelete(x)
                    \/ UpdateThreadMetadata(x) \/ ArchiveThread(x) \/ UnarchiveThread(x) \/ DeleteThreads(x)

Spec == Init /\ [][Next]_storeVars

-----------------------------------------------------------------------------
(* Properties.                                                             *)

StaysDeleted ==
  \A t \in Threads : row[t].status = "deleted" =>
    row'[t].status = "deleted" /\ row'[t].meta = row[t].meta /\ row'[t].title = row[t].title /\ log'[t] = log[t]

\* UpdateThreadMetadata, ArchiveThread, UnarchiveThread, DeleteThreads, appendEvents:
\* a deleted thread stays deleted and keeps its metadata and its events, also when a
\* transaction had read its row before the deletion.
DeletedIsFinal == [][StaysDeleted]_storeVars

Ordered == \A i, j \in DOMAIN walk.got : i < j => Precedes(walk, walk.got[i], walk.got[j])

\* ListItems: following the cursors of a growing log yields, in order and without
\* repetition, each item up to where the walk has come, and at its end all that were
\* there when it began.
ItemWalkExact ==
  walk.of = "items" =>
    /\ Ordered
    /\ \A i \in 1..walk.end :
         log[walk.t][i].kind = "response_item" /\ (walk.pc = "done" \/ ~Beyond(walk, <<i, 0>>)) =>
           \E j \in DOMAIN walk.got : walk.got[j] = <<i, 0>>

\* ListThreads: a thread that nobody writes while a client follows the cursors is
\* listed exactly once, however the others move and even if their times are equal.
ThreadWalkExact ==
  walk.of = "threads" =>
    \A t \in Threads \ walk.touched :
      LET hits == {i \in DOMAIN walk.got : walk.got[i][2] = t}
      IN  /\ Cardinality(hits) <= 1
          /\ walk.pc = "done" /\ row[t].status = (IF walk.archived THEN "archived" ELSE "live") => hits # {}

\* ListTurns (turns.go: "pages by the sequence number of the first event"): following
\* the cursors lists no turn twice.
TurnWalkExact ==
  walk.of = "turns" => \A i, j \in DOMAIN walk.got : i # j => walk.got[i][2] # walk.got[j][2]
=============================================================================
