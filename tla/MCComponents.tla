------------------------------ MODULE MCComponents ------------------------------
(***************************************************************************)
(* Small instances for TLC of the components that keep their state in      *)
(* tables of their own.  They share none, so each behaviour follows one of *)
(* them (focus): the state space is the sum of theirs, not the product.    *)
(***************************************************************************)
EXTENDS Naturals

CONSTANTS
  c1, c2, k1, n1, n2, q1, q2, x1, x2,   \* model values
  Runs, Machines, Meters, None

\* One component is followed at a time, so that all instances share the variables.
VARIABLES focus, v1, v2, v3, v4, v5, v6, v7, v8, v9

vars == <<focus, v1, v2, v3, v4, v5, v6, v7, v8, v9>>

Id == INSTANCE ConnectorIdentity WITH conn <- v1, run <- v2, disk <- v3, admitted <- v4

\* Requests of every kind, retried under one key; and a client that lists
\* datasources while they come and go.
Res == INSTANCE ConsoleResources WITH
  ds <- v1, creds <- v2, owners <- v3, alias <- v4, idem <- v5, req <- v6, clock <- v7, walk <- v8,
  Reqs <- 1..6, OldDs <- 1, OldGroup <- 2, OldAgent <- 3, Walks <- FALSE, Keys <- {k1}, Names <- {n1},
  Ops <- {"datasource", "group", "agent", "alias", "patch", "rotate", "delete", "unalias", "bind"},
  Kinds <- {"group", "agent"}, Limit <- 1
List == INSTANCE ConsoleResources WITH
  ds <- v1, creds <- v2, owners <- v3, alias <- v4, idem <- v5, req <- v6, clock <- v7, walk <- v8,
  Reqs <- 1..6, OldDs <- 1, OldGroup <- 2, OldAgent <- 3, Walks <- TRUE, Keys <- {}, Names <- {n1, n2},
  Ops <- {"datasource", "delete"}, Kinds <- {"group", "agent"}, Limit <- 1

\* Three collections; and queries on both sides of every boundary.
Data == INSTANCE CollectedData WITH
  home <- v1, versions <- v2, entity <- v3, lock <- v4, readings <- v5, up <- v6, query <- v7,
  Ups <- 1..3, Contents <- {c1, c2}, Queries <- {q1, q2}, Ages <- {}, Widths <- {1}, Steps <- {5000}
Range == INSTANCE CollectedData WITH
  home <- v1, versions <- v2, entity <- v3, lock <- v4, readings <- v5, up <- v6, query <- v7,
  Ups <- {}, Contents <- {c1, c2}, Queries <- {q1, q2},
  Ages <- {1, 13, 14, 15, 89, 90, 91, 399, 400, 401, 500}, Widths <- {1, 14, 15, 90, 91, 400, 401},
  Steps <- {200, 5000, 5001}

\* Calls that race for the budget; and a usage record that is sent again.
Meter == INSTANCE LlmMeter WITH
  quota <- v1, rows <- v2, month <- v3, seq <- v4, call <- v5, msgs <- v6, answered <- v7, open <- v8, peak <- v9,
  Calls <- {1, 2}, MaxTokens <- 1, Budgets <- {1}, Retries <- 0
Retry == INSTANCE LlmMeter WITH
  quota <- v1, rows <- v2, month <- v3, seq <- v4, call <- v5, msgs <- v6, answered <- v7, open <- v8, peak <- v9,
  Calls <- {1}, MaxTokens <- 1, Budgets <- {1}, Retries <- 2

Coll == INSTANCE Collector WITH
  home <- v1, secret <- v2, pass <- v3, loops <- v4, loop <- v5, pools <- v6, pool <- v7, use <- v8,
  Ds <- {1}, Conns <- {c1}, Loops <- {1, 2}, Testers <- {3}, Pools <- 1..2, PageSize <- 1, MaxSecret <- 1,
  Backoff <- 200, BackoffLimit <- 300

\* Transactions that race; a list of threads that move; the items and turns of one thread.
Races == INSTANCE ThreadStore WITH
  row <- v1, log <- v2, clock <- v3, tx <- v4, walk <- v5,
  Threads <- {1, 2}, Turns <- {}, Txs <- {x1, x2}, Patches <- {[name |-> 1]},
  Walks <- {}, Size <- 1, MaxSeq <- 1, MaxClock <- 0
Lists == INSTANCE ThreadStore WITH
  row <- v1, log <- v2, clock <- v3, tx <- v4, walk <- v5,
  Threads <- {1, 2}, Turns <- {}, Txs <- {x1}, Patches <- {},
  Walks <- {"threads"}, Size <- 1, MaxSeq <- 0, MaxClock <- 1
Items == INSTANCE ThreadStore WITH
  row <- v1, log <- v2, clock <- v3, tx <- v4, walk <- v5,
  Threads <- {1}, Turns <- {1, 2}, Txs <- {}, Patches <- {},
  Walks <- {"items", "turns"}, Size <- 1, MaxSeq <- 3, MaxClock <- 0

\* Two tables of one name in two schemas, and a third; schemas and settings that are
\* too large, and more settings than ConfigRows.
Probes == INSTANCE Probe WITH
  db <- v1, job <- v2, out <- v3, changes <- v4,
  Tables <- <<[schema |-> 1, name |-> 1, width |-> 2], [schema |-> 2, name |-> 1, width |-> 1],
              [schema |-> 2, name |-> 2, width |-> 1]>>,
  Layouts <- {<<>>, <<1, 2>>, <<2, 3, 1>>}, Workloads <- {{}, {1, 2, 3}}, Settings <- {<<1, 1, 2, 1, 1>>},
  TopN <- 2, TextMax <- 2, ColumnRows <- 2, ConfigRows <- 4, MaxBytes <- 4, MaxChanges <- 2

\* What the components take for granted of their constants.
ASSUME DistinctValues ==
  /\ Id!IdentityAssumption /\ Res!ResourcesAssumption /\ List!ResourcesAssumption
  /\ Data!DataAssumption /\ Range!DataAssumption
  /\ Meter!MeterAssumption /\ Retry!MeterAssumption /\ Coll!CollectorAssumption
  /\ Races!StoreAssumption /\ Lists!StoreAssumption /\ Items!StoreAssumption
  /\ Probes!ProbeAssumption

\* The variables a component has no use for.
Spare5 == v5 = None /\ v6 = None /\ v7 = None /\ v8 = None /\ v9 = None
Spare6 == v6 = None /\ v7 = None /\ v8 = None /\ v9 = None
Spare8 == v8 = None /\ v9 = None
Spare9 == v9 = None

Init ==
  \/ focus = "id" /\ Id!Init /\ Spare5
  \/ focus = "res" /\ Res!Init /\ Spare9
  \/ focus = "list" /\ List!Init /\ Spare9
  \/ focus = "data" /\ Data!Init /\ Spare8
  \/ focus = "range" /\ Range!Init /\ Spare8
  \/ focus = "meter" /\ Meter!Init
  \/ focus = "retry" /\ Retry!Init
  \/ focus = "coll" /\ Coll!Init /\ Spare9
  \/ focus = "races" /\ Races!Init /\ Spare6
  \/ focus = "lists" /\ Lists!Init /\ Spare6
  \/ focus = "items" /\ Items!Init /\ Spare6
  \/ focus = "probe" /\ Probes!Init /\ Spare5

IdStep == focus = "id" /\ Id!Next /\ UNCHANGED <<focus, v5, v6, v7, v8, v9>>
ResStep == focus = "res" /\ Res!Next /\ UNCHANGED <<focus, v9>>
ListStep == focus = "list" /\ List!Next /\ UNCHANGED <<focus, v9>>
DataStep == focus = "data" /\ Data!Next /\ UNCHANGED <<focus, v8, v9>>
RangeStep == focus = "range" /\ Range!Next /\ UNCHANGED <<focus, v8, v9>>
MeterStep == focus = "meter" /\ Meter!Next /\ UNCHANGED focus
RetryStep == focus = "retry" /\ Retry!Next /\ UNCHANGED focus
CollStep == focus = "coll" /\ Coll!Next /\ UNCHANGED <<focus, v9>>
RacesStep == focus = "races" /\ Races!Next /\ UNCHANGED <<focus, v6, v7, v8, v9>>
ListsStep == focus = "lists" /\ Lists!Next /\ UNCHANGED <<focus, v6, v7, v8, v9>>
ItemsStep == focus = "items" /\ Items!Next /\ UNCHANGED <<focus, v6, v7, v8, v9>>
ProbeStep == focus = "probe" /\ Probes!Next /\ UNCHANGED <<focus, v5, v6, v7, v8, v9>>

Next == IdStep \/ ResStep \/ ListStep \/ DataStep \/ RangeStep \/ MeterStep \/ RetryStep
  \/ CollStep \/ RacesStep \/ ListsStep \/ ItemsStep \/ ProbeStep

Spec == Init /\ [][Next]_vars

-----------------------------------------------------------------------------
(* The components' properties.                                             *)

TypeOK ==
  CASE focus = "id" -> Id!TypeOK [] focus = "res" -> Res!TypeOK [] focus = "list" -> List!TypeOK
    [] focus = "data" -> Data!TypeOK [] focus = "range" -> Range!TypeOK [] focus = "meter" -> Meter!TypeOK [] focus = "retry" -> Retry!TypeOK
    [] focus = "coll" -> Coll!TypeOK [] focus = "races" -> Races!TypeOK [] focus = "lists" -> Lists!TypeOK
    [] focus = "items" -> Items!TypeOK [] focus = "probe" -> Probes!TypeOK

OneMachinePerConnector == focus = "id" => Id!OneMachinePerConnector
EnrollOkIsUsable == focus = "id" => Id!EnrollOkIsUsable

OneCreationPerKey == focus = "res" => Res!OneCreationPerKey
CredentialsOwned == focus \in {"res", "list"} => Res!CredentialsOwned
NoDanglingRefs == focus = "res" => Res!NoDanglingRefs

\* What a client gets by following cursors: datasources, items and threads.
PagesAreSeamless ==
  CASE focus = "list" -> List!PageWalkExact
    [] focus = "items" -> Items!ItemWalkExact
    [] focus = "lists" -> Lists!ThreadWalkExact
    [] OTHER -> TRUE

HistoryAlternates == focus = "data" => Data!HistoryAlternates
EntitiesCoverReadings == focus = "data" => Data!EntitiesCoverReadings
LayerStillHolds == focus = "range" => Range!LayerStillHolds
ChargedOnce == IF focus = "meter" THEN Meter!ChargedOnce ELSE focus = "retry" => Retry!ChargedOnce
OvershootBounded == focus = "meter" => Meter!OvershootBounded
Accounted == focus = "coll" => Coll!Accounted
CollectionIsSound == focus = "probe" => Probes!CollectionIsSound

\* A revoked connector and a deleted thread stay what they are.
EndedIsFinal ==
  [][CASE focus = "id" -> Id!StaysRevoked [] focus = "races" -> Races!StaysDeleted [] OTHER -> TRUE]_vars
OkMeansCurrent == [][focus = "data" => Data!PublishedIsCurrent]_vars
=============================================================================
