------------------------------- MODULE LlmMeter --------------------------------
(***************************************************************************)
(* Metering of LLM calls: libs/llm's Meter and its console client, the     *)
(* console's quota check and usage record (svcapi, repo) and the quota's   *)
(* administration (httpapi).  One tenant; every call carries one trace.    *)
(* A meter lives in one process of the runtime.                            *)
(***************************************************************************)
EXTENDS Naturals, Sequences, FiniteSets

CONSTANTS
  Calls,     \* calls a client makes, numbered in the order in which they begin
  Meters,    \* instances of Meter, each with a nonce of its own
  MaxTokens, \* what a call may consume
  Budgets,   \* budgets an administrator may set
  Retries,   \* repetitions of a usage record
  None

VARIABLES
  quota,     \* llm_quotas: None or the budget with its hard_stop
  rows,      \* llm_usage in the order of insertion
  month,     \* number of rows of earlier months
  seq,       \* the meters' counters; 0 in a process that is gone
  call,
  msgs,      \* usage records on their way to the console
  answered,  \* calls whose record the console has answered
  open,      \* history: a call went out without a hard quota check
  peak       \* history: the most calls ever under way at once

meterVars == <<quota, rows, month, seq, call, msgs, answered, open, peak>>

\* None is neither a meter nor a refusal, and there is a greatest budget.
MeterAssumption ==
  /\ None \notin Meters \cup {"quota_rejected"} /\ MaxTokens \in Nat /\ Retries \in Nat
  /\ Budgets \subseteq Nat /\ \E b \in Budgets : \A a \in Budgets : a <= b

Over == {"acked", "lost"}
Idle == [pc |-> "idle", meter |-> None, n |-> 0, named |-> TRUE, status |-> None, tokens |-> 0, tries |-> 0]

TypeOK ==
  /\ quota = None \/ quota \in [budget : Nat, hard : BOOLEAN]
  /\ \A i \in DOMAIN rows : rows[i] \in [call : Calls, key : Meters \X Nat, tokens : 0..MaxTokens]
  /\ month \in 0..Len(rows) /\ seq \in [Meters -> Nat]
  /\ \A c \in Calls :
       /\ call[c].pc \in {"idle", "gate", "upstream", "stream", "record", "posted"} \cup Over
       /\ call[c].meter \in Meters \cup {None} /\ call[c].tokens \in 0..MaxTokens /\ call[c].tries \in 0..Retries
  /\ msgs \subseteq Calls /\ answered \subseteq Calls

\* Calls let through whose record may still reach the console.
UnderWay ==
  {c \in Calls : /\ (c \in msgs \/ call[c].pc \in {"upstream", "stream", "record", "posted"})
                 /\ call[c].status # "quota_rejected"}

Step(c, new) == call' = [call EXCEPT ![c] = new]

Admit(c) ==
  /\ Step(c, [call[c] EXCEPT !.pc = "upstream"])
  /\ peak' = IF Cardinality(UnderWay) < peak THEN peak ELSE Cardinality(UnderWay) + 1

-----------------------------------------------------------------------------
(* The console.                                                            *)

\* putLLMQuota, and EnsureLLMQuota for a tenant that has none.
PutQuota ==
  /\ \E b \in Budgets, hard \in BOOLEAN : quota' = [budget |-> b, hard |-> hard]
  /\ UNCHANGED <<rows, month, seq, call, msgs, answered, open, peak>>

NewMonth ==
  /\ month < Len(rows) /\ month' = Len(rows)
  /\ UNCHANGED <<quota, rows, seq, call, msgs, answered, open, peak>>

\* sum(total_tokens) over the rows inserted this month; refused and failed calls have 0.
MonthToDateTokens ==
  LET sum[i \in month..Len(rows)] == IF i = month THEN 0 ELSE sum[i - 1] + rows[i].tokens
  IN  sum[Len(rows)]

Hard == quota # None /\ quota.hard

\* Mutant: a budget that is used up exactly still lets calls through.
ExceededStrictly == Hard /\ MonthToDateTokens > quota.budget

\* llmQuotaCheck: no row means no limit, hard_stop = FALSE only counts.
Exceeded == Hard /\ MonthToDateTokens >= quota.budget

\* InsertLLMUsage: ON CONFLICT (tenant_id, idem_key) DO NOTHING.
Inserted(row) == IF \E i \in DOMAIN rows : rows[i].key = row.key THEN rows ELSE Append(rows, row)

-----------------------------------------------------------------------------
(* RoundTrip.                                                              *)

\* Mutant: the counter alone, which starts over in every process.
CounterKey(c) == <<CHOOSE m \in Meters : TRUE, call[c].n>>

\* idemKey: trace, nonce of the meter, counter.
IdemKey(c) == <<call[c].meter, call[c].n>>

Begin(c, m) ==
  /\ call[c].pc = "idle" /\ \A d \in Calls : d < c => call[d].pc # "idle"
  /\ seq[m] > 0 /\ seq' = [seq EXCEPT ![m] = @ + 1]
  /\ \E named \in BOOLEAN : Step(c, [Idle EXCEPT !.pc = "gate", !.meter = m, !.n = seq[m], !.named = named])
  /\ UNCHANGED <<quota, rows, month, msgs, answered, open, peak>>

Settled(c, status, tokens) == [call[c] EXCEPT !.pc = "record", !.status = status, !.tokens = tokens]

\* The gate: a refusal is recorded and nothing goes out.
QuotaCheck(c) ==
  /\ call[c].pc = "gate"
  /\ IF Exceeded THEN Step(c, Settled(c, "quota_rejected", 0)) /\ UNCHANGED peak ELSE Admit(c)
  /\ open' = (open \/ ~Hard)
  /\ UNCHANGED <<quota, rows, month, seq, msgs, answered>>

\* The console does not answer: fail-open.
QuotaUnavailable(c) ==
  /\ call[c].pc = "gate"
  /\ Admit(c) /\ open' = TRUE
  /\ UNCHANGED <<quota, rows, month, seq, msgs, answered>>

\* Transport error, status >= 400, or a body that breaks off.
UpstreamFails(c) ==
  /\ call[c].pc = "upstream"
  /\ Step(c, Settled(c, "upstream_error", 0))
  /\ UNCHANGED <<quota, rows, month, seq, msgs, answered, open, peak>>

\* wrapResponse: a body is read whole (it may lack a usage), a stream is passed on.
Respond(c) ==
  /\ call[c].pc = "upstream"
  /\ \/ \E t \in 0..MaxTokens : Step(c, Settled(c, "ok", t))
     \/ Step(c, [call[c] EXCEPT !.pc = "stream"])
  /\ UNCHANGED <<quota, rows, month, seq, msgs, answered, open, peak>>

\* teeUsageReader: the last frame is found when its line has ended, or when the
\* reader closes before end of file (Close scans the rest, Read at EOF does not).
Found(frame, eof) == frame = "line" \/ (frame = "unended" /\ ~eof)

StreamEnds(c) ==
  /\ call[c].pc = "stream"
  /\ \E frame \in {"line", "unended", "none"}, eof \in BOOLEAN, t \in 1..MaxTokens :
       Step(c, IF Found(frame, eof) THEN Settled(c, "ok", t) ELSE Settled(c, "aborted", 0))
  /\ UNCHANGED <<quota, rows, month, seq, msgs, answered, open, peak>>

-----------------------------------------------------------------------------
(* Record.                                                                 *)

PostUsage(c) ==
  /\ call[c].pc = "record"
  /\ msgs' = msgs \cup {c} /\ Step(c, [call[c] EXCEPT !.pc = "posted"])
  /\ UNCHANGED <<quota, rows, month, seq, answered, open, peak>>

\* llmUsage of the console, also for a request its sender has given up.
InsertUsage(c) ==
  /\ c \in msgs /\ call[c].named /\ msgs' = msgs \ {c}
  /\ answered' = IF call[c].pc = "posted" THEN answered \cup {c} ELSE answered
  /\ rows' = Inserted([call |-> c, key |-> IdemKey(c), tokens |-> call[c].tokens])
  /\ UNCHANGED <<quota, month, seq, call, open, peak>>

\* 202.
UsageAccepted(c) ==
  /\ call[c].pc = "posted" /\ c \in answered
  /\ Step(c, [call[c] EXCEPT !.pc = "acked"]) /\ answered' = answered \ {c}
  /\ UNCHANGED <<quota, rows, month, seq, msgs, open, peak>>

\* 4xx: a record without a model name is refused and not repeated.
UsageRefused(c) ==
  /\ c \in msgs /\ ~call[c].named
  /\ msgs' = msgs \ {c}
  /\ IF call[c].pc = "posted" THEN Step(c, [call[c] EXCEPT !.pc = "lost"]) ELSE UNCHANGED call
  /\ UNCHANGED <<quota, rows, month, seq, answered, open, peak>>

\* No answer, or an error of the console: repeat, or give up and log.
PostFails(c) ==
  /\ call[c].pc = "posted"
  /\ msgs' \in {msgs, msgs \ {c}}                       \* the request may be late or lost
  /\ answered' = answered \ {c}                         \* and so may its answer
  /\ Step(c, IF call[c].tries = Retries THEN [call[c] EXCEPT !.pc = "lost"]
             ELSE [call[c] EXCEPT !.pc = "record", !.tries = @ + 1])
  /\ UNCHANGED <<quota, rows, month, seq, open, peak>>

\* A process ends with its calls; what it had sent may still arrive.
Crash(m) ==
  /\ seq[m] > 0 /\ seq' = [seq EXCEPT ![m] = 0]
  /\ call' = [c \in Calls |-> IF call[c].meter = m /\ call[c].pc # "acked" THEN [call[c] EXCEPT !.pc = "lost"] ELSE call[c]]
  /\ UNCHANGED <<quota, rows, month, msgs, answered, open, peak>>

Init ==
  /\ quota \in {None} \cup [budget : Budgets, hard : {TRUE}]
  /\ rows = <<>> /\ month = 0 /\ seq = [m \in Meters |-> 1]
  /\ call = [c \in Calls |-> Idle] /\ msgs = {} /\ answered = {} /\ open = FALSE /\ peak = 0

Next ==
  \/ PutQuota \/ NewMonth \/ (\E m \in Meters : Crash(m))
  \/ \E c \in Calls :
       \/ (\E m \in Meters : Begin(c, m)) \/ QuotaCheck(c) \/ QuotaUnavailable(c) \/ UpstreamFails(c)
       \/ Respond(c) \/ StreamEnds(c) \/ PostUsage(c) \/ InsertUsage(c) \/ UsageAccepted(c)
       \/ UsageRefused(c) \/ PostFails(c)

Spec == Init /\ [][Next]_meterVars

-----------------------------------------------------------------------------
(* Properties.                                                             *)

RowsOf(c) == {i \in DOMAIN rows : rows[i].call = c}

\* Record, InsertLLMUsage: a record that was acknowledged is in the table with its
\* tokens, and no call is charged twice, however often it was sent and from
\* however many processes with one trace.
ChargedOnce ==
  \A c \in Calls : /\ Cardinality(RowsOf(c)) <= 1
                   /\ call[c].pc = "acked" => \E i \in RowsOf(c) : rows[i].tokens = call[c].tokens

MaxBudget == CHOOSE b \in Budgets : \A a \in Budgets : a <= b

\* RoundTrip checks first and charges afterwards: the budget of a month can be
\* overrun only by the calls that were under way together.
OvershootBounded ==
  ~open => LET used == MonthToDateTokens
           IN  used = 0 \/ used < MaxBudget + peak * MaxTokens
=============================================================================
