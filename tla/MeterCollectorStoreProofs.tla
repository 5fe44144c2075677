---------------------- MODULE MeterCollectorStoreProofs ----------------------
(***************************************************************************)
(* Proofs about three small components for every value of their constants: *)
(* LlmMeter (a call is charged once, and the budget is overrun by no more  *)
(* than the calls under way), Collector (no loop and no pool runs on       *)
(* unaccounted for) and ThreadStore (a deleted thread stays deleted, and   *)
(* following the cursors leaves nothing out).                              *)
(***************************************************************************)
EXTENDS Naturals, Sequences, FiniteSets, FiniteSetTheorems, SequenceTheorems, WellFoundedInduction, TLAPS

CONSTANTS
  Calls, Meters, MaxTokens, Budgets, Retries,                                               \* LlmMeter
  Ds, Conns, Loops, Testers, Pools, PageSize, MaxSecret, Backoff, BackoffLimit,             \* Collector
  Threads, Turns, Txs, Patches, Walks, Size, MaxSeq, MaxClock,                              \* ThreadStore
  None

VARIABLES
  quota, rows, month, seq, call, msgs, answered, open, peak,
  home, secret, pass, loops, loop, pools, pool, use,
  row, log, clock, tx, walk

Meter == INSTANCE LlmMeter
Coll == INSTANCE Collector
Store == INSTANCE ThreadStore

-----------------------------------------------------------------------------
(* Calls and their usage records.                                           *)

CallType ==
  [pc : {"idle", "gate", "upstream", "stream", "record", "posted", "acked", "lost"}, meter : Meters \cup {None}, n : Nat,
   named : BOOLEAN, status : {None, "quota_rejected", "upstream_error", "ok", "aborted"}, tokens : 0..MaxTokens, tries : Nat]

RowType == [call : Calls, key : Meters \X Nat, tokens : 0..MaxTokens]

MeterTyped ==
  /\ seq \in [Meters -> Nat] /\ call \in [Calls -> CallType] /\ rows \in Seq(RowType)
  /\ msgs \subseteq Calls /\ answered \subseteq Calls

\* Calls that have taken a number.
Begun == {c \in Calls : call[c].meter # None}

\* Calls that have nothing more to be charged.
Recorded == {"record", "posted", "acked", "lost"}

\* The key of a call's record: the meter's nonce and the call's number.
KeyOf(x) == <<x.meter, x.n>>

\* A number is given out once.
NumbersOwn ==
  /\ \A c \in Calls : call[c].pc # "idle" <=> c \in Begun
  /\ \A c \in Begun : call[c].n < seq[call[c].meter] \/ seq[call[c].meter] = 0
  /\ \A c, d \in Begun : c # d => KeyOf(call[c]) # KeyOf(call[d])

\* What is on its way, answered or stored has been settled; a row has its call's
\* key and tokens, and no key has two rows.
RowsOwn ==
  /\ \A c \in msgs \cup answered : call[c].pc \in Recorded
  /\ \A i \in DOMAIN rows :
       /\ call[rows[i].call].pc \in Recorded
       /\ rows[i].key = KeyOf(call[rows[i].call]) /\ rows[i].tokens = call[rows[i].call].tokens
  /\ \A i, j \in DOMAIN rows : i # j => rows[i].key # rows[j].key

\* What was answered is stored.
AnswersStored == \A c \in Calls : c \in answered \/ call[c].pc = "acked" => \E i \in DOMAIN rows : rows[i].call = c

MeterInv == NumbersOwn /\ RowsOwn /\ AnswersStored

\* One row at most for a call, and an acknowledged one has it.
LEMMA ChargedFollows == MeterTyped /\ MeterInv => Meter!ChargedOnce
<1> SUFFICES ASSUME MeterTyped, MeterInv PROVE Meter!ChargedOnce
  OBVIOUS
<1>1. ASSUME NEW S, \A i, j \in S : i = j PROVE Meter!Cardinality(S) <= 1
  <2>1. Meter!Cardinality(S) = Cardinality(S)
    BY DEF Meter!Cardinality, Cardinality, Meter!IsFiniteSet, IsFiniteSet
  <2>2. CASE S = {}
    BY <2>1, <2>2, FS_EmptySet
  <2>3. CASE S # {}
    <3>1. PICK i \in S : S = {i}
      BY <1>1, <2>3
    <3>2. Cardinality(S) = 1
      BY <3>1, FS_Singleton
    <3>3. QED BY <2>1, <3>2
  <2>4. QED BY <2>2, <2>3
<1>2. ASSUME NEW c \in Calls, NEW i \in Meter!RowsOf(c), NEW j \in Meter!RowsOf(c) PROVE i = j
  BY <1>2 DEF MeterInv, RowsOwn, Meter!RowsOf
<1>3. ASSUME NEW c \in Calls, call[c].pc = "acked" PROVE \E i \in Meter!RowsOf(c) : rows[i].tokens = call[c].tokens
  BY <1>3 DEF MeterInv, RowsOwn, AnswersStored, Meter!RowsOf
<1>4. QED BY <1>1, <1>2, <1>3 DEF Meter!ChargedOnce


\* A call from x to y: it keeps its number, and its tokens once they are settled.
GoesOn(x, y) ==
  /\ y.meter = x.meter /\ y.n = x.n /\ (y.pc = "idle" <=> x.pc = "idle")
  /\ x.pc \in Recorded => y.pc \in Recorded /\ y.tokens = x.tokens

Pcs == {"gate", "upstream", "stream"} \cup Recorded

\* A call goes a step further.
LEMMA FurtherFields ==
  ASSUME NEW x \in CallType, NEW p \in Pcs, NEW y, y = [x EXCEPT !.pc = p]
  PROVE  y \in CallType /\ y.pc = p /\ y.meter = x.meter /\ y.n = x.n /\ y.tokens = x.tokens
<1>1. y \in CallType
  BY DEF CallType, Pcs, Recorded
<1>2. y.pc = p
  BY DEF CallType
<1>3. y.meter = x.meter /\ y.n = x.n /\ y.tokens = x.tokens
  BY DEF CallType
<1>4. QED BY <1>1, <1>2, <1>3

\* A record is to be sent again.
LEMMA RepeatFields ==
  ASSUME NEW x \in CallType, NEW y, y = [x EXCEPT !.pc = "record", !.tries = @ + 1]
  PROVE  y \in CallType /\ y.pc = "record" /\ y.meter = x.meter /\ y.n = x.n /\ y.tokens = x.tokens
<1>1. x.tries + 1 \in Nat
  BY DEF CallType
<1> DEFINE k == x.tries + 1
<1>2. y = [x EXCEPT !.pc = "record", !.tries = k]
  OBVIOUS
<1> HIDE DEF k
<1>3. y \in CallType
  BY <1>1, <1>2 DEF CallType, k
<1>4. y.pc = "record"
  BY <1>2 DEF CallType
<1>5. y.meter = x.meter /\ y.n = x.n /\ y.tokens = x.tokens
  BY <1>2 DEF CallType
<1>6. QED BY <1>3, <1>4, <1>5

\* One call goes on, the others stay.
LEMMA OneGoesOn ==
  ASSUME MeterTyped, NEW c \in Calls, NEW y \in CallType, call' = [call EXCEPT ![c] = y], GoesOn(call[c], y)
  PROVE  /\ call' \in [Calls -> CallType] /\ call'[c] = y
         /\ \A d \in Calls : d # c => call'[d] = call[d]
         /\ \A d \in Calls : GoesOn(call[d], call'[d])
BY DEF MeterTyped, GoesOn

\* A step that only carries calls on.
GoingOn ==
  /\ call' \in [Calls -> CallType] /\ \A c \in Calls : GoesOn(call[c], call'[c])
  /\ seq' \in [Meters -> Nat] /\ \A m \in Meters : seq'[m] \in {seq[m], 0}
  /\ rows' = rows
  /\ msgs' \subseteq Calls /\ answered' \subseteq answered
  /\ \A c \in msgs' : call'[c].pc \in Recorded
  /\ \A c \in Calls : call'[c].pc = "acked" => call[c].pc = "acked" \/ c \in answered

\* One call goes on to y, which is acknowledged only if it was answered.
LEMMA CallGoesOn ==
  ASSUME MeterTyped, RowsOwn, NEW c \in Calls, NEW y \in CallType, call' = [call EXCEPT ![c] = y], GoesOn(call[c], y),
         y.pc = "acked" => c \in answered,
         UNCHANGED <<seq, rows>>, msgs' \subseteq msgs \cup {c}, c \in msgs' => y.pc \in Recorded, answered' \subseteq answered
  PROVE  GoingOn
<1>1. /\ call' \in [Calls -> CallType] /\ call'[c] = y
      /\ \A d \in Calls : d # c => call'[d] = call[d]
      /\ \A d \in Calls : GoesOn(call[d], call'[d])
  BY OneGoesOn
<1>2. msgs \subseteq Calls /\ \A d \in msgs : call[d].pc \in Recorded
  BY DEF MeterTyped, RowsOwn
<1>3. \A d \in msgs' : call'[d].pc \in Recorded
  BY <1>1, <1>2
<1>4. \A d \in Calls : call'[d].pc = "acked" => call[d].pc = "acked" \/ d \in answered
  BY <1>1
<1>5. QED BY <1>1, <1>2, <1>3, <1>4 DEF GoingOn, MeterTyped

\* RoundTrip, up to the record.
LEMMA TripGoesOn ==
  ASSUME Meter!MeterAssumption, MeterTyped, RowsOwn, NEW c \in Calls,
         Meter!QuotaCheck(c) \/ Meter!QuotaUnavailable(c) \/ Meter!UpstreamFails(c) \/ Meter!Respond(c) \/ Meter!StreamEnds(c)
  PROVE  GoingOn
<1> DEFINE x == call[c]
<1>1. x \in CallType /\ x.pc \in {"gate", "upstream", "stream"} /\ x.pc # "idle" /\ x.pc \notin Recorded
  BY DEF MeterTyped, Meter!QuotaCheck, Meter!QuotaUnavailable, Meter!UpstreamFails, Meter!Respond, Meter!StreamEnds, Recorded
<1>2. \/ \E st \in {"quota_rejected", "upstream_error", "ok", "aborted"}, t \in 0..MaxTokens :
           call' = [call EXCEPT ![c] = [x EXCEPT !.pc = "record", !.status = st, !.tokens = t]]
      \/ \E p \in {"upstream", "stream"} : call' = [call EXCEPT ![c] = [x EXCEPT !.pc = p]]
  <2>1. 0 \in 0..MaxTokens /\ 1..MaxTokens \subseteq 0..MaxTokens
    BY DEF Meter!MeterAssumption
  <2>2. ASSUME Meter!QuotaCheck(c) \/ Meter!QuotaUnavailable(c)
        PROVE  \/ call' = [call EXCEPT ![c] = [x EXCEPT !.pc = "record", !.status = "quota_rejected", !.tokens = 0]]
               \/ call' = [call EXCEPT ![c] = [x EXCEPT !.pc = "upstream"]]
    BY <2>2, Zenon DEF Meter!QuotaCheck, Meter!QuotaUnavailable, Meter!Admit, Meter!Step, Meter!Settled
  <2>3. ASSUME Meter!UpstreamFails(c)
        PROVE  call' = [call EXCEPT ![c] = [x EXCEPT !.pc = "record", !.status = "upstream_error", !.tokens = 0]]
    BY <2>3 DEF Meter!UpstreamFails, Meter!Step, Meter!Settled
  <2>4. ASSUME Meter!Respond(c)
        PROVE  \/ \E t \in 0..MaxTokens : call' = [call EXCEPT ![c] = [x EXCEPT !.pc = "record", !.status = "ok", !.tokens = t]]
               \/ call' = [call EXCEPT ![c] = [x EXCEPT !.pc = "stream"]]
    BY <2>4 DEF Meter!Respond, Meter!Step, Meter!Settled
  <2>5. ASSUME Meter!StreamEnds(c)
        PROVE  \/ \E t \in 1..MaxTokens : call' = [call EXCEPT ![c] = [x EXCEPT !.pc = "record", !.status = "ok", !.tokens = t]]
               \/ call' = [call EXCEPT ![c] = [x EXCEPT !.pc = "record", !.status = "aborted", !.tokens = 0]]
    BY <2>5, Zenon DEF Meter!StreamEnds, Meter!Step, Meter!Settled
  <2> HIDE DEF x
  <2>6. QED BY <2>1, <2>2, <2>3, <2>4, <2>5
<1>3. UNCHANGED <<seq, rows, msgs, answered>>
  BY DEF Meter!QuotaCheck, Meter!QuotaUnavailable, Meter!UpstreamFails, Meter!Respond, Meter!StreamEnds
<1>4. c \notin msgs
  BY <1>1 DEF RowsOwn
<1>5. ASSUME NEW st \in {"quota_rejected", "upstream_error", "ok", "aborted"}, NEW t \in 0..MaxTokens,
             call' = [call EXCEPT ![c] = [x EXCEPT !.pc = "record", !.status = st, !.tokens = t]]
      PROVE  GoingOn
  <2> DEFINE y == [x EXCEPT !.pc = "record", !.status = st, !.tokens = t]
  <2>1. call' = [call EXCEPT ![c] = y] /\ y = [x EXCEPT !.pc = "record", !.status = st, !.tokens = t]
    BY <1>5
  <2> HIDE DEF y
  <2>2. x \in CallType
    BY <1>1
  <2>3. y \in CallType /\ y.pc = "record" /\ y.meter = x.meter /\ y.n = x.n
    <3>1. y = [x EXCEPT !.pc = "record", !.status = st, !.tokens = t]
      BY <2>1
    <3> HIDE DEF x
    <3>2. y \in CallType
      BY <2>2, <3>1 DEF CallType
    <3>3. QED BY <2>2, <3>1, <3>2 DEF CallType
  <2>4. GoesOn(x, y) /\ y.pc \in Recorded /\ y.pc # "acked"
    BY <1>1, <2>3 DEF GoesOn, Recorded
  <2>5. QED BY <1>3, <2>1, <2>3, <2>4, CallGoesOn
<1>6. ASSUME NEW p \in {"upstream", "stream"}, call' = [call EXCEPT ![c] = [x EXCEPT !.pc = p]]
      PROVE  GoingOn
  <2> DEFINE y == [x EXCEPT !.pc = p]
  <2>1. p \in Pcs
    BY DEF Pcs
  <2>2. y \in CallType /\ y.pc = p /\ y.meter = x.meter /\ y.n = x.n
    BY <1>1, <2>1, FurtherFields
  <2>3. call' = [call EXCEPT ![c] = y]
    BY <1>6
  <2> HIDE DEF y
  <2>4. GoesOn(x, y)
    BY <1>1, <2>2 DEF GoesOn
  <2>5. QED BY <1>3, <1>4, <2>2, <2>3, <2>4, CallGoesOn
<1>7. QED BY <1>2, <1>5, <1>6


\* Record: sending, its answer and its failures.
LEMMA RecordGoesOn ==
  ASSUME MeterTyped, RowsOwn, NEW c \in Calls,
         Meter!PostUsage(c) \/ Meter!UsageAccepted(c) \/ Meter!UsageRefused(c) \/ Meter!PostFails(c)
  PROVE  GoingOn
<1> DEFINE x == call[c]
<1>1. x \in CallType /\ \A d \in Calls : GoesOn(call[d], call[d])
  BY DEF MeterTyped, GoesOn
<1>2. UNCHANGED <<seq, rows>> /\ msgs' \subseteq msgs \cup {c} /\ answered' \subseteq answered
  BY DEF Meter!PostUsage, Meter!UsageAccepted, Meter!UsageRefused, Meter!PostFails
<1>3. ASSUME UNCHANGED call, Meter!UsageRefused(c) PROVE GoingOn
  BY <1>1, <1>2, <1>3 DEF GoingOn, MeterTyped, RowsOwn, Meter!UsageRefused
<1>4. ASSUME x.pc \in {"record", "posted"}, NEW p \in {"posted", "acked", "lost"}, call' = [call EXCEPT ![c] = [x EXCEPT !.pc = p]],
             p = "acked" => c \in answered
      PROVE  GoingOn
  <2> DEFINE y == [x EXCEPT !.pc = p]
  <2>1. p \in Pcs /\ p \in Recorded
    BY DEF Pcs, Recorded
  <2>2. y \in CallType /\ y.pc = p /\ y.meter = x.meter /\ y.n = x.n /\ y.tokens = x.tokens
    BY <1>1, <2>1, FurtherFields
  <2>3. call' = [call EXCEPT ![c] = y]
    BY <1>4
  <2> HIDE DEF y
  <2>4. GoesOn(x, y)
    BY <1>4, <2>1, <2>2 DEF GoesOn, Recorded
  <2>5. QED BY <1>2, <1>4, <2>1, <2>2, <2>3, <2>4, CallGoesOn
<1>5. ASSUME x.pc = "posted", call' = [call EXCEPT ![c] = [x EXCEPT !.pc = "record", !.tries = @ + 1]]
      PROVE  GoingOn
  <2> DEFINE y == [x EXCEPT !.pc = "record", !.tries = @ + 1]
  <2>1. y \in CallType /\ y.pc = "record" /\ y.meter = x.meter /\ y.n = x.n /\ y.tokens = x.tokens
    BY <1>1, RepeatFields
  <2>2. call' = [call EXCEPT ![c] = y]
    BY <1>5
  <2> HIDE DEF y
  <2>3. GoesOn(x, y) /\ y.pc \in Recorded /\ y.pc # "acked"
    BY <1>5, <2>1 DEF GoesOn, Recorded
  <2>4. QED BY <1>2, <2>1, <2>2, <2>3, CallGoesOn
<1>6. CASE Meter!PostUsage(c)
  BY <1>4, <1>6 DEF Meter!PostUsage, Meter!Step
<1>7. CASE Meter!UsageAccepted(c)
  BY <1>4, <1>7 DEF Meter!UsageAccepted, Meter!Step
<1>8. CASE Meter!UsageRefused(c)
  BY <1>3, <1>4, <1>8 DEF Meter!UsageRefused, Meter!Step
<1>9. CASE Meter!PostFails(c)
  <2>1. x.pc = "posted" /\ \/ call' = [call EXCEPT ![c] = [x EXCEPT !.pc = "lost"]]
                           \/ call' = [call EXCEPT ![c] = [x EXCEPT !.pc = "record", !.tries = @ + 1]]
    BY <1>9, Zenon DEF Meter!PostFails, Meter!Step
  <2>2. QED BY <1>4, <1>5, <2>1
<1>10. QED BY <1>6, <1>7, <1>8, <1>9

\* A process that ends takes its calls with it.
LEMMA CrashGoesOn ==
  ASSUME Meter!MeterAssumption, MeterTyped, NumbersOwn, RowsOwn, NEW m \in Meters, Meter!Crash(m)
  PROVE  GoingOn
<1>1. call \in [Calls -> CallType] /\ seq \in [Meters -> Nat] /\ msgs \subseteq Calls
  BY DEF MeterTyped
<1>2. ASSUME NEW c \in Calls
      PROVE  /\ call'[c] \in CallType /\ GoesOn(call[c], call'[c])
             /\ call'[c].pc = "acked" => call[c].pc = "acked"
             /\ call[c].pc \in Recorded => call'[c].pc \in Recorded
  <2> DEFINE x == call[c]
             y == [x EXCEPT !.pc = "lost"]
  <2>1. x \in CallType
    BY <1>1
  <2>2. CASE x.meter = m /\ x.pc # "acked"
    <3>1. "lost" \in Pcs /\ "lost" \in Recorded
      BY DEF Pcs, Recorded
    <3>2. y \in CallType /\ y.pc = "lost" /\ y.meter = x.meter /\ y.n = x.n /\ y.tokens = x.tokens
      BY <2>1, <3>1, FurtherFields
    <3>3. x.pc # "idle"
      BY <2>2 DEF NumbersOwn, Begun, Meter!MeterAssumption
    <3>4. call'[c] = y
      BY <2>2 DEF Meter!Crash
    <3> HIDE DEF y
    <3>5. QED BY <3>1, <3>2, <3>3, <3>4 DEF GoesOn
  <2>3. CASE ~(x.meter = m /\ x.pc # "acked")
    <3>1. call'[c] = x
      BY <2>3 DEF Meter!Crash
    <3>2. QED BY <2>1, <3>1 DEF GoesOn
  <2>4. QED BY <2>2, <2>3
<1>3. call' \in [Calls -> CallType]
  <2>1. call' = [c \in Calls |-> call'[c]]
    BY DEF Meter!Crash
  <2>2. QED BY <1>2, <2>1
<1>4. seq' \in [Meters -> Nat] /\ \A k \in Meters : seq'[k] \in {seq[k], 0}
  BY <1>1 DEF Meter!Crash
<1>5. UNCHANGED <<rows, msgs, answered>>
  BY DEF Meter!Crash
<1>6. \A c \in msgs : call[c].pc \in Recorded
  BY DEF RowsOwn
<1>7. QED BY <1>1, <1>2, <1>3, <1>4, <1>5, <1>6 DEF GoingOn

\* Going on keeps everything.
LEMMA GoingOnKeeps ==
  ASSUME MeterTyped, MeterInv, GoingOn
  PROVE  (MeterTyped /\ MeterInv)'
<1>1. MeterTyped'
  BY DEF MeterTyped, GoingOn
<1>2. /\ \A c \in Calls : call'[c].meter = call[c].meter /\ call'[c].n = call[c].n /\ (call'[c].pc = "idle" <=> call[c].pc = "idle")
      /\ \A c \in Calls : call[c].pc \in Recorded => call'[c].pc \in Recorded /\ call'[c].tokens = call[c].tokens
  BY DEF GoingOn, GoesOn
<1>3. Begun' = Begun /\ \A c \in Calls : KeyOf(call'[c]) = KeyOf(call[c])
  BY <1>2 DEF Begun, KeyOf
<1>4. \A c \in Begun : call[c].meter \in Meters
  BY DEF Begun, MeterTyped, CallType
<1>5. NumbersOwn'
  <2>1. \A c \in Calls : call'[c].pc # "idle" <=> c \in Begun'
    BY <1>2, <1>3 DEF MeterInv, NumbersOwn
  <2>2. \A c \in Begun' : call'[c].n < seq'[call'[c].meter] \/ seq'[call'[c].meter] = 0
    BY <1>2, <1>3, <1>4 DEF MeterInv, NumbersOwn, GoingOn, Begun
  <2>3. \A c, d \in Begun' : c # d => KeyOf(call'[c]) # KeyOf(call'[d])
    BY <1>3 DEF MeterInv, NumbersOwn, Begun
  <2>4. QED BY <2>1, <2>2, <2>3 DEF NumbersOwn
<1>6. \A i \in DOMAIN rows : rows[i].call \in Calls
  <2>1. \A i \in DOMAIN rows : rows[i] \in RowType
    BY ElementOfSeq DEF MeterTyped
  <2>2. QED BY <2>1 DEF RowType
<1>7. RowsOwn'
  <2>1. \A c \in msgs' \cup answered' : call'[c].pc \in Recorded
    BY <1>2 DEF MeterInv, RowsOwn, GoingOn, MeterTyped
  <2>2. \A i \in DOMAIN rows' :
          /\ call'[rows'[i].call].pc \in Recorded
          /\ rows'[i].key = KeyOf(call'[rows'[i].call]) /\ rows'[i].tokens = call'[rows'[i].call].tokens
    BY <1>2, <1>3, <1>6 DEF MeterInv, RowsOwn, GoingOn
  <2>3. \A i, j \in DOMAIN rows' : i # j => rows'[i].key # rows'[j].key
    BY DEF MeterInv, RowsOwn, GoingOn
  <2>4. QED BY <2>1, <2>2, <2>3 DEF RowsOwn
<1>8. AnswersStored'
  BY DEF MeterInv, AnswersStored, GoingOn
<1>9. QED BY <1>1, <1>5, <1>7, <1>8 DEF MeterInv


\* A new call takes a number that no other has.
LEMMA BeginKeeps ==
  ASSUME Meter!MeterAssumption, MeterTyped, MeterInv, NEW c \in Calls, NEW m \in Meters, Meter!Begin(c, m)
  PROVE  (MeterTyped /\ MeterInv)'
<1>1. /\ seq \in [Meters -> Nat] /\ call \in [Calls -> CallType] /\ seq[m] \in Nat \ {0}
      /\ call[c].pc = "idle" /\ c \notin Begun
  BY DEF MeterTyped, MeterInv, NumbersOwn, Meter!Begin
<1>2. PICK y \in CallType : call' = [call EXCEPT ![c] = y] /\ y.pc = "gate" /\ y.meter = m /\ y.n = seq[m]
  <2>1. PICK named \in BOOLEAN : call' = [call EXCEPT ![c] = [Meter!Idle EXCEPT !.pc = "gate", !.meter = m, !.n = seq[m], !.named = named]]
    BY DEF Meter!Begin, Meter!Step
  <2> DEFINE k == seq[m]
             x == Meter!Idle
             y == [x EXCEPT !.pc = "gate", !.meter = m, !.n = k, !.named = named]
  <2>2. call' = [call EXCEPT ![c] = y]
    BY <2>1
  <2>3. x \in CallType
    BY DEF Meter!Idle, CallType, Meter!MeterAssumption
  <2>4. k \in Nat
    BY <1>1
  <2> HIDE DEF k, x
  <2>5. y \in CallType
    BY <2>3, <2>4 DEF CallType
  <2>6. y.pc = "gate" /\ y.meter = m /\ y.n = k
    BY <2>3 DEF CallType
  <2> HIDE DEF y
  <2>7. QED BY <2>2, <2>5, <2>6 DEF k
<1>3. seq' = [seq EXCEPT ![m] = seq[m] + 1] /\ UNCHANGED <<rows, msgs, answered>>
  BY DEF Meter!Begin
<1>4. call' \in [Calls -> CallType] /\ call'[c] = y /\ \A d \in Calls : d # c => call'[d] = call[d]
  BY <1>1, <1>2
<1>5. MeterTyped'
  BY <1>1, <1>3, <1>4 DEF MeterTyped
<1>6. Begun' = Begun \cup {c}
  BY <1>2, <1>4 DEF Begun, Meter!MeterAssumption
<1>7. /\ \A k \in Meters : seq'[k] = IF k = m THEN seq[m] + 1 ELSE seq[k]
      /\ \A d \in Begun : d \in Calls /\ call[d].n \in Nat /\ call[d].meter \in Meters
  BY <1>1, <1>3 DEF Begun, CallType
<1>8. /\ \A d \in Begun : call[d].n < seq[call[d].meter] \/ seq[call[d].meter] = 0
      /\ \A d, e \in Begun : d # e => KeyOf(call[d]) # KeyOf(call[e])
      /\ \A d \in Calls : call[d].pc # "idle" <=> d \in Begun
  BY DEF MeterInv, NumbersOwn
<1>9. NumbersOwn'
  <2>1. \A d \in Calls : call'[d].pc # "idle" <=> d \in Begun'
    BY <1>2, <1>4, <1>6, <1>8
  <2>2. ASSUME NEW d \in Begun' PROVE call'[d].n < seq'[call'[d].meter] \/ seq'[call'[d].meter] = 0
    <3>1. CASE d = c
      <4>1. call'[d].n = seq[m] /\ seq'[call'[d].meter] = seq[m] + 1
        BY <1>2, <1>4, <1>7, <3>1
      <4>2. QED BY <1>1, <4>1
    <3>2. CASE d # c
      <4>1. d \in Begun /\ d \in Calls /\ call'[d] = call[d]
        BY <1>4, <1>6, <1>7, <2>2, <3>2
      <4>2. CASE call[d].meter = m
        <5>1. call[d].n < seq[m] /\ seq'[m] = seq[m] + 1 /\ call[d].n \in Nat
          BY <1>1, <1>7, <1>8, <4>1, <4>2
        <5>2. QED BY <1>1, <4>1, <4>2, <5>1
      <4>3. CASE call[d].meter # m
        BY <1>7, <1>8, <4>1, <4>3
      <4>4. QED BY <4>2, <4>3
    <3>3. QED BY <3>1, <3>2
  <2>3. ASSUME NEW d \in Begun PROVE KeyOf(call[d]) # KeyOf(y)
    BY <1>1, <1>2, <1>7, <1>8 DEF KeyOf
  <2>4. \A d, e \in Begun' : d # e => KeyOf(call'[d]) # KeyOf(call'[e])
    BY <1>4, <1>6, <1>7, <1>8, <2>3
  <2>5. QED BY <2>1, <2>2, <2>4 DEF NumbersOwn
<1>10. \A d \in Calls : call[d].pc \in Recorded => d # c
  BY <1>1 DEF Recorded
<1>11. RowsOwn'
  <2>1. \A i \in DOMAIN rows : rows[i] \in RowType
    BY ElementOfSeq DEF MeterTyped
  <2>2. \A i \in DOMAIN rows : call'[rows[i].call] = call[rows[i].call]
    BY <1>4, <1>10, <2>1 DEF MeterInv, RowsOwn, RowType
  <2>3. \A d \in msgs \cup answered : call'[d] = call[d]
    BY <1>4, <1>10 DEF MeterInv, RowsOwn, MeterTyped
  <2>4. QED BY <1>3, <2>2, <2>3 DEF MeterInv, RowsOwn
<1>12. AnswersStored'
  BY <1>2, <1>3, <1>4 DEF MeterInv, AnswersStored
<1>13. QED BY <1>5, <1>9, <1>11, <1>12 DEF MeterInv

\* A record that arrives is stored, unless it is there already: no other call
\* has its key.
LEMMA InsertKeeps ==
  ASSUME MeterTyped, MeterInv, NEW c \in Calls, Meter!InsertUsage(c)
  PROVE  (MeterTyped /\ MeterInv)'
<1> DEFINE r == [call |-> c, key |-> KeyOf(call[c]), tokens |-> call[c].tokens]
<1>1. /\ c \in msgs /\ call[c].pc \in Recorded /\ call[c] \in CallType
      /\ UNCHANGED <<seq, call>> /\ msgs' = msgs \ {c} /\ answered' \subseteq answered \cup {c}
  BY DEF Meter!InsertUsage, MeterInv, RowsOwn, MeterTyped
<1>2. rows' = IF \E i \in DOMAIN rows : rows[i].key = r.key THEN rows ELSE Append(rows, r)
  BY DEF Meter!InsertUsage, Meter!Inserted, Meter!IdemKey, KeyOf
<1>3. c \in Begun /\ call[c].meter \in Meters
  <2>1. call[c].pc # "idle"
    BY <1>1 DEF Recorded
  <2>2. c \in Begun
    BY <2>1 DEF MeterInv, NumbersOwn
  <2>3. QED BY <1>1, <2>2 DEF Begun, CallType
<1>4. r \in RowType /\ r.call = c /\ r.key = KeyOf(call[c]) /\ r.tokens = call[c].tokens
  BY <1>1, <1>3 DEF RowType, KeyOf, CallType
<1> HIDE DEF r
<1>5. rows \in Seq(RowType) /\ \A i \in DOMAIN rows : rows[i] \in RowType
  BY ElementOfSeq DEF MeterTyped
<1>6. NumbersOwn'
  BY <1>1 DEF MeterInv, NumbersOwn, Begun
<1>7. \A d \in msgs' \cup answered' : call'[d].pc \in Recorded
  BY <1>1 DEF MeterInv, RowsOwn
<1>8. CASE \E i \in DOMAIN rows : rows[i].key = r.key
  <2>1. PICK i \in DOMAIN rows : rows[i].key = r.key
    BY <1>8
  <2>2. KeyOf(call[rows[i].call]) = KeyOf(call[c]) /\ rows[i].call \in Begun
    <3>1. rows[i].call \in Calls /\ call[rows[i].call].pc \in Recorded /\ rows[i].key = KeyOf(call[rows[i].call])
      BY <1>5 DEF MeterInv, RowsOwn, RowType
    <3>2. call[rows[i].call].pc # "idle"
      BY <3>1 DEF Recorded
    <3>3. QED BY <1>4, <2>1, <3>1, <3>2 DEF MeterInv, NumbersOwn
  <2>3. rows[i].call = c
    BY <1>3, <2>2 DEF MeterInv, NumbersOwn
  <2>4. rows' = rows
    BY <1>2, <1>8
  <2>5. AnswersStored'
    BY <1>1, <2>3, <2>4 DEF MeterInv, AnswersStored
  <2>6. RowsOwn'
    BY <1>1, <1>7, <2>4 DEF MeterInv, RowsOwn
  <2>7. QED BY <1>1, <1>6, <2>4, <2>5, <2>6 DEF MeterInv, MeterTyped
<1>9. CASE ~\E i \in DOMAIN rows : rows[i].key = r.key
  <2> DEFINE n == Len(rows)
  <2>1. rows' = Append(rows, r)
    BY <1>2, <1>9
  <2>2. n \in Nat /\ DOMAIN rows = 1..n
    BY <1>5
  <2>3. /\ rows' \in Seq(RowType) /\ DOMAIN rows' = 1..(n + 1)
        /\ \A i \in 1..n : rows'[i] = rows[i]
        /\ rows'[n + 1] = r
    BY <1>4, <1>5, <2>1, AppendProperties
  <2> HIDE DEF n
  <2>4. \A i \in 1..(n + 1) : i \in 1..n \/ i = n + 1
    BY <2>2
  <2>5. \A i \in 1..n : i \in 1..(n + 1)
    BY <2>2
  <2>6. n + 1 \in 1..(n + 1)
    BY <2>2
  <2>7. \A i \in 1..(n + 1) :
          /\ call[rows'[i].call].pc \in Recorded
          /\ rows'[i].key = KeyOf(call[rows'[i].call]) /\ rows'[i].tokens = call[rows'[i].call].tokens
    BY <1>1, <1>4, <2>2, <2>3, <2>4 DEF MeterInv, RowsOwn
  <2>8. \A i, j \in 1..(n + 1) : i # j => rows'[i].key # rows'[j].key
    BY <1>9, <2>2, <2>3, <2>4 DEF MeterInv, RowsOwn
  <2>9. RowsOwn'
    BY <1>1, <1>7, <2>3, <2>7, <2>8 DEF RowsOwn
  <2>10. AnswersStored'
    BY <1>1, <1>4, <2>2, <2>3, <2>5, <2>6 DEF MeterInv, AnswersStored
  <2>11. QED BY <1>1, <1>6, <2>3, <2>9, <2>10 DEF MeterInv, MeterTyped
<1>10. QED BY <1>8, <1>9

\* Nothing has begun.
LEMMA InitMeter == Meter!MeterAssumption /\ Meter!Init => MeterTyped /\ MeterInv
<1> SUFFICES ASSUME Meter!MeterAssumption, Meter!Init PROVE MeterTyped /\ MeterInv
  OBVIOUS
<1>1. Meter!Idle \in CallType /\ Meter!Idle.pc = "idle" /\ Meter!Idle.meter = None
  BY DEF Meter!Idle, CallType, Meter!MeterAssumption
<1>2. rows = <<>> /\ msgs = {} /\ answered = {} /\ seq = [m \in Meters |-> 1] /\ call = [c \in Calls |-> Meter!Idle]
  BY DEF Meter!Init
<1>3. MeterTyped /\ Begun = {}
  BY <1>1, <1>2 DEF MeterTyped, Begun
<1>4. QED BY <1>1, <1>2, <1>3 DEF MeterInv, NumbersOwn, RowsOwn, AnswersStored

\* Every step keeps the invariant.
LEMMA NextMeter ==
  Meter!MeterAssumption /\ MeterTyped /\ MeterInv /\ [Meter!Next]_(Meter!meterVars) => (MeterTyped /\ MeterInv)'
<1> SUFFICES ASSUME Meter!MeterAssumption, MeterTyped, MeterInv, [Meter!Next]_(Meter!meterVars)
             PROVE  (MeterTyped /\ MeterInv)'
  OBVIOUS
<1>1. CASE UNCHANGED <<seq, call, rows, msgs, answered>>
  <2>1. GoingOn
    BY <1>1 DEF GoingOn, GoesOn, MeterTyped, MeterInv, RowsOwn
  <2>2. QED BY <2>1, GoingOnKeeps
<1>2. ASSUME NEW c \in Calls,
             Meter!QuotaCheck(c) \/ Meter!QuotaUnavailable(c) \/ Meter!UpstreamFails(c) \/ Meter!Respond(c) \/ Meter!StreamEnds(c)
      PROVE  GoingOn
  BY <1>2, TripGoesOn DEF MeterInv
<1>3. ASSUME NEW c \in Calls, Meter!PostUsage(c) \/ Meter!UsageAccepted(c) \/ Meter!UsageRefused(c) \/ Meter!PostFails(c)
      PROVE  GoingOn
  BY <1>3, RecordGoesOn DEF MeterInv
<1>4. ASSUME NEW m \in Meters, Meter!Crash(m) PROVE GoingOn
  BY <1>4, CrashGoesOn DEF MeterInv
<1>5. \/ UNCHANGED <<seq, call, rows, msgs, answered>> \/ GoingOn
      \/ \E c \in Calls : Meter!InsertUsage(c) \/ \E m \in Meters : Meter!Begin(c, m)
  BY <1>2, <1>3, <1>4 DEF Meter!Next, Meter!meterVars, Meter!PutQuota, Meter!NewMonth
<1>6. QED BY <1>1, <1>5, GoingOnKeeps, BeginKeeps, InsertKeeps

\* ChargedOnce: whatever is sent again, late or lost, and however many processes
\* carry one trace, InsertLLMUsage charges a call once, and an acknowledged
\* record is in the table with its tokens.
THEOREM ChargedCorrect == ASSUME Meter!MeterAssumption PROVE Meter!Spec => []Meter!ChargedOnce
<1>1. Meter!Spec => [](MeterTyped /\ MeterInv)
  BY InitMeter, NextMeter, PTL DEF Meter!Spec
<1>2. QED BY <1>1, ChargedFollows, PTL

-----------------------------------------------------------------------------
(* The sum over the rows of the month.                                      *)

\* A set of numbers has a least one.
LEMMA LeastNumber ==
  ASSUME NEW T \in SUBSET Nat, T # {}
  PROVE  \E x \in T : \A y \in T : x <= y
<1>1. PICK x \in T : \A y \in T : ~ (<<y, x>> \in OpToRel(<, Nat))
  BY NatLessThanWellFounded, WFMin, Zenon
<1>2. \A y \in T : ~ (y < x)
  BY <1>1 DEF OpToRel
<1>3. QED BY <1>2

\* g adds up the tokens of the rows m + 1 to k.
Adds(g, s, m, k) == g = [i \in m..k |-> IF i = m THEN 0 ELSE g[i - 1] + s[i].tokens]

\* The sum that MonthToDateTokens takes.
Total(s, m) == LET sum[i \in m..Len(s)] == IF i = m THEN 0 ELSE sum[i - 1] + s[i].tokens IN sum[Len(s)]

\* MonthToDateTokens adds up the rows of the month.
LEMMA TotalIsUsed == Meter!MonthToDateTokens = Total(rows, month)
BY DEF Meter!MonthToDateTokens, Total

\* There is such a function, whatever the rows.
LEMMA AddsExists ==
  ASSUME NEW s \in Seq(RowType), NEW m \in 0..Len(s)
  PROVE  \E g : Adds(g, s, m, Len(s))
<1> DEFINE T == {k \in m..Len(s) : ~\E g : Adds(g, s, m, k)}
<1>1. m \in Nat /\ Len(s) \in Nat /\ Len(s) \in m..Len(s)
  OBVIOUS
<1>2. CASE T = {}
  BY <1>1, <1>2
<1>3. CASE T # {}
  <2>1. T \in SUBSET Nat
    BY <1>1
  <2>2. PICK k \in T : \A j \in T : k <= j
    BY <1>3, <2>1, LeastNumber
  <2>3. k \in Nat /\ m <= k /\ k <= Len(s) /\ ~\E g : Adds(g, s, m, k)
    BY <1>1, <2>2
  <2>4. CASE k = m
    <3> DEFINE h == [i \in m..m |-> 0]
    <3>1. h = [i \in m..m |-> IF i = m THEN 0 ELSE h[i - 1] + s[i].tokens]
      BY <1>1
    <3>2. QED BY <2>3, <2>4, <3>1 DEF Adds
  <2>5. CASE k # m
    <3>1. k - 1 \in m..Len(s) /\ k - 1 \notin T
      BY <1>1, <2>2, <2>3, <2>5
    <3>2. PICK g : Adds(g, s, m, k - 1)
      BY <3>1
    <3> DEFINE h == [i \in m..k |-> IF i = k THEN g[k - 1] + s[k].tokens ELSE g[i]]
    <3>3. ASSUME NEW i \in m..k PROVE h[i] = IF i = m THEN 0 ELSE h[i - 1] + s[i].tokens
      <4>1. CASE i = k
        <5>1. k - 1 \in m..k /\ k - 1 # k
          BY <1>1, <2>3, <2>5
        <5>2. h[k - 1] = g[k - 1] /\ h[k] = g[k - 1] + s[k].tokens
          BY <2>3, <5>1
        <5>3. QED BY <2>5, <4>1, <5>2
      <4>2. CASE i # k
        <5>1. i \in m..(k - 1) /\ (i # m => i - 1 \in m..k /\ i - 1 # k)
          BY <1>1, <2>3, <4>2
        <5>2. g[i] = IF i = m THEN 0 ELSE g[i - 1] + s[i].tokens
          BY <3>2, <5>1, Zenon DEF Adds
        <5>3. QED BY <4>2, <5>1, <5>2
      <4>3. QED BY <4>1, <4>2
    <3>4. h = [i \in m..k |-> h[i]]
      OBVIOUS
    <3> HIDE DEF h
    <3>5. h = [i \in m..k |-> IF i = m THEN 0 ELSE h[i - 1] + s[i].tokens]
      BY <3>3, <3>4
    <3>6. QED BY <2>3, <3>5 DEF Adds
  <2>6. QED BY <2>4, <2>5
<1>4. QED BY <1>2, <1>3

\* It adds up to a number, and agrees with one for a longer sequence.
LEMMA AddsAgrees ==
  ASSUME NEW s \in Seq(RowType), NEW t \in Seq(RowType), NEW m \in 0..Len(s), Len(s) <= Len(t),
         \A i \in 1..Len(s) : t[i] = s[i],
         NEW g, NEW h, Adds(g, s, m, Len(s)), Adds(h, t, m, Len(t)), MaxTokens \in Nat
  PROVE  \A k \in m..Len(s) : g[k] \in Nat /\ h[k] = g[k]
<1> DEFINE T == {k \in m..Len(s) : ~ (g[k] \in Nat /\ h[k] = g[k])}
<1>1. m \in Nat /\ Len(s) \in Nat /\ Len(t) \in Nat
  OBVIOUS
<1>2. CASE T = {}
  BY <1>2
<1>3. CASE T # {}
  <2>1. T \in SUBSET Nat
    BY <1>1
  <2>2. PICK k \in T : \A j \in T : k <= j
    BY <1>3, <2>1, LeastNumber
  <2>3. k \in Nat /\ m <= k /\ k <= Len(s) /\ ~ (g[k] \in Nat /\ h[k] = g[k])
    BY <1>1, <2>2
  <2>4. k \in m..Len(s) /\ k \in m..Len(t)
    BY <1>1, <2>3
  <2>5. /\ g[k] = IF k = m THEN 0 ELSE g[k - 1] + s[k].tokens
        /\ h[k] = IF k = m THEN 0 ELSE h[k - 1] + t[k].tokens
    BY <2>4, Zenon DEF Adds
  <2>6. CASE k # m
    <3>1. k - 1 \in m..Len(s) /\ k - 1 \notin T /\ k \in 1..Len(s)
      BY <1>1, <2>2, <2>3, <2>6
    <3>2. g[k - 1] \in Nat /\ h[k - 1] = g[k - 1]
      BY <3>1
    <3>3. s[k] \in RowType /\ t[k] = s[k]
      BY <3>1
    <3>4. s[k].tokens \in Nat
      BY <3>3 DEF RowType
    <3>5. QED BY <2>3, <2>5, <2>6, <3>2, <3>3, <3>4
  <2>7. QED BY <2>3, <2>5, <2>6
<1>4. QED BY <1>2, <1>3

\* The total is what such a function ends with.
LEMMA TotalAdds ==
  ASSUME NEW s \in Seq(RowType), NEW m \in 0..Len(s)
  PROVE  \E g : Adds(g, s, m, Len(s)) /\ Total(s, m) = g[Len(s)]
<1> DEFINE c == CHOOSE g : g = [i \in m..Len(s) |-> IF i = m THEN 0 ELSE g[i - 1] + s[i].tokens]
<1>1. \E g : g = [i \in m..Len(s) |-> IF i = m THEN 0 ELSE g[i - 1] + s[i].tokens]
  BY AddsExists DEF Adds
<1>2. c = [i \in m..Len(s) |-> IF i = m THEN 0 ELSE c[i - 1] + s[i].tokens]
  BY <1>1, Zenon
<1>3. Total(s, m) = c[Len(s)]
  BY Zenon DEF Total
<1> HIDE DEF c
<1>4. QED BY <1>2, <1>3 DEF Adds

\* The total is a number.
LEMMA TotalNumber ==
  ASSUME NEW s \in Seq(RowType), NEW m \in 0..Len(s), MaxTokens \in Nat
  PROVE  Total(s, m) \in Nat
<1>1. PICK g : Adds(g, s, m, Len(s)) /\ Total(s, m) = g[Len(s)]
  BY TotalAdds
<1>2. Len(s) \in Nat /\ Len(s) \in m..Len(s) /\ Len(s) <= Len(s)
  OBVIOUS
<1>3. \A k \in m..Len(s) : g[k] \in Nat
  BY <1>1, <1>2, AddsAgrees
<1>4. QED BY <1>1, <1>2, <1>3

\* Nothing is used at the start of a month.
LEMMA TotalStarts ==
  ASSUME NEW s \in Seq(RowType)
  PROVE  Total(s, Len(s)) = 0
<1>1. Len(s) \in Nat /\ Len(s) \in 0..Len(s) /\ Len(s) \in Len(s)..Len(s)
  OBVIOUS
<1>2. PICK g : Adds(g, s, Len(s), Len(s)) /\ Total(s, Len(s)) = g[Len(s)]
  BY <1>1, TotalAdds
<1>3. g[Len(s)] = 0
  BY <1>1, <1>2, Zenon DEF Adds
<1>4. QED BY <1>2, <1>3

\* A row adds its tokens.
LEMMA TotalGrows ==
  ASSUME NEW s \in Seq(RowType), NEW r \in RowType, NEW m \in 0..Len(s), MaxTokens \in Nat
  PROVE  Total(s, m) \in Nat /\ Total(Append(s, r), m) = Total(s, m) + r.tokens
<1> DEFINE t == Append(s, r)
           n == Len(s)
<1>1. n \in Nat /\ t \in Seq(RowType) /\ Len(t) = n + 1 /\ t[n + 1] = r /\ \A i \in 1..n : t[i] = s[i]
  BY AppendProperties
<1> HIDE DEF t
<1>2. m \in Nat /\ m <= n /\ m \in 0..Len(t) /\ n \in m..n /\ n + 1 \in m..Len(t) /\ n + 1 # m
  BY <1>1
<1>3. PICK g : Adds(g, s, m, n) /\ Total(s, m) = g[n]
  BY TotalAdds
<1>4. PICK h : Adds(h, t, m, Len(t)) /\ Total(t, m) = h[n + 1]
  <2>1. PICK h : Adds(h, t, m, Len(t)) /\ Total(t, m) = h[Len(t)]
    BY <1>1, <1>2, TotalAdds
  <2>2. QED BY <1>1, <2>1
<1>5. g[n] \in Nat /\ h[n] = g[n]
  <2>1. n <= Len(t)
    BY <1>1
  <2>2. \A k \in m..n : g[k] \in Nat /\ h[k] = g[k]
    BY <1>1, <1>3, <1>4, <2>1, AddsAgrees
  <2>3. QED BY <1>2, <2>2
<1>6. h[n + 1] = h[(n + 1) - 1] + t[n + 1].tokens
  BY <1>2, <1>4, Zenon DEF Adds
<1>7. (n + 1) - 1 = n
  BY <1>1
<1>8. QED BY <1>1, <1>3, <1>4, <1>5, <1>6, <1>7 DEF t

-----------------------------------------------------------------------------
(* The budget of a month.                                                   *)

\* Calls whose tokens may still be charged.
Pending == {c \in Meter!UnderWay : \A i \in DOMAIN rows : rows[i].call # c}

\* A refused call has no tokens, and refusal comes with the gate.  A record is
\* repeated so often at most.
CallTells(x) ==
  /\ x.pc \in {"idle", "gate", "upstream", "stream"} => x.status # "quota_rejected"
  /\ x.status = "quota_rejected" => x.tokens = 0
  /\ x.tries <= Retries

CallsTell == \A c \in Calls : CallTells(call[c])

\* peak counts the calls under way, and the budget is one of the administrator's.
PeakCounts ==
  /\ peak \in Nat /\ IsFiniteSet(Meter!UnderWay) /\ Cardinality(Meter!UnderWay) <= peak
  /\ month \in 0..Len(rows)
  /\ quota = None \/ quota \in [budget : Budgets, hard : BOOLEAN]

\* What is used and what may still be charged stays below the bound, unless
\* nothing is used and nothing may be.
WithinBound ==
  ~open => \/ Meter!MonthToDateTokens = 0 /\ Pending = {}
           \/ Meter!MonthToDateTokens + Cardinality(Pending) * MaxTokens < Meter!MaxBudget + peak * MaxTokens

BudgetInv == CallsTell /\ PeakCounts /\ WithinBound

\* The greatest budget is the greatest.
LEMMA GreatestBudget ==
  ASSUME Meter!MeterAssumption
  PROVE  Meter!MaxBudget \in Nat /\ \A b \in Budgets : b <= Meter!MaxBudget
<1>1. \E b \in Budgets : \A a \in Budgets : a <= b
  BY DEF Meter!MeterAssumption
<1>2. Meter!MaxBudget \in Budgets /\ \A a \in Budgets : a <= Meter!MaxBudget
  BY <1>1, Zenon DEF Meter!MaxBudget
<1>3. QED BY <1>2 DEF Meter!MeterAssumption

\* Inside the instance a cardinality is the same.
LEMMA SameCardinality == \A S : Meter!Cardinality(S) = Cardinality(S)
BY DEF Meter!Cardinality, Cardinality, Meter!IsFiniteSet, IsFiniteSet

\* More calls use no less.
LEMMA TimesMonotone ==
  ASSUME NEW a \in Nat, NEW b \in Nat, NEW t \in Nat, a <= b
  PROVE  a * t \in Nat /\ b * t \in Nat /\ a * t <= b * t
<1>1. PICK d \in Nat : b = a + d
  <2>1. b - a \in Nat /\ b = a + (b - a)
    OBVIOUS
  <2>2. QED BY <2>1
<1>2. b * t = a * t + d * t
  BY <1>1
<1>3. a * t \in Nat /\ d * t \in Nat
  OBVIOUS
<1>4. QED BY <1>2, <1>3

\* What follows from the invariant about what may still be charged.
LEMMA PendingFinite ==
  ASSUME PeakCounts
  PROVE  /\ Pending \subseteq Meter!UnderWay /\ IsFiniteSet(Pending) /\ Cardinality(Pending) \in Nat
         /\ Cardinality(Pending) <= peak /\ Cardinality(Meter!UnderWay) \in Nat
<1>1. Pending \subseteq Meter!UnderWay
  BY DEF Pending
<1>2. IsFiniteSet(Pending) /\ Cardinality(Pending) <= Cardinality(Meter!UnderWay)
  BY <1>1, FS_Subset DEF PeakCounts
<1>3. Cardinality(Pending) \in Nat /\ Cardinality(Meter!UnderWay) \in Nat
  BY <1>2, FS_CardinalityType DEF PeakCounts
<1>4. QED BY <1>1, <1>2, <1>3 DEF PeakCounts

\* The tokens of a month are a number.
LEMMA UsedIsNumber ==
  ASSUME Meter!MeterAssumption, MeterTyped, PeakCounts
  PROVE  Meter!MonthToDateTokens \in Nat
<1>1. rows \in Seq(RowType)
  BY DEF MeterTyped
<1>2. month \in 0..Len(rows)
  BY DEF PeakCounts
<1>3. MaxTokens \in Nat
  BY DEF Meter!MeterAssumption
<1>4. QED BY <1>1, <1>2, <1>3, TotalNumber, TotalIsUsed

\* The bound follows.
LEMMA BoundFollows == Meter!MeterAssumption /\ MeterTyped /\ BudgetInv => Meter!OvershootBounded
<1> SUFFICES ASSUME Meter!MeterAssumption, MeterTyped, BudgetInv, ~open
             PROVE  \/ Meter!MonthToDateTokens = 0
                    \/ Meter!MonthToDateTokens < Meter!MaxBudget + peak * MaxTokens
  BY DEF Meter!OvershootBounded
<1>1. Meter!MonthToDateTokens \in Nat /\ Meter!MaxBudget \in Nat /\ peak \in Nat /\ MaxTokens \in Nat /\ Cardinality(Pending) \in Nat
  BY UsedIsNumber, GreatestBudget, PendingFinite DEF BudgetInv, PeakCounts, Meter!MeterAssumption
<1> DEFINE a == Cardinality(Pending) * MaxTokens
           b == peak * MaxTokens
<1>2. a \in Nat /\ b \in Nat
  BY <1>1
<1>3. Meter!MonthToDateTokens = 0 \/ Meter!MonthToDateTokens + a < Meter!MaxBudget + b
  BY DEF BudgetInv, WithinBound
<1> HIDE DEF a, b
<1>4. Meter!MonthToDateTokens = 0 \/ Meter!MonthToDateTokens < Meter!MaxBudget + b
  BY <1>1, <1>2, <1>3
<1>5. QED BY <1>4 DEF b

\* No call comes under way, and nothing more is used.
LEMMA NoneAdmitted ==
  ASSUME Meter!MeterAssumption, MeterTyped, BudgetInv, CallsTell',
         Meter!UnderWay' \subseteq Meter!UnderWay, Pending' \subseteq Pending, peak' = peak,
         open => open',
         month' \in 0..Len(rows'), quota' = None \/ quota' \in [budget : Budgets, hard : BOOLEAN],
         Meter!MonthToDateTokens' = Meter!MonthToDateTokens \/ Meter!MonthToDateTokens' = 0
  PROVE  BudgetInv'
<1>1. PeakCounts'
  <2>1. IsFiniteSet(Meter!UnderWay') /\ Cardinality(Meter!UnderWay') <= Cardinality(Meter!UnderWay)
    BY FS_Subset DEF BudgetInv, PeakCounts
  <2>2. Cardinality(Meter!UnderWay') \in Nat /\ Cardinality(Meter!UnderWay) \in Nat
    BY <2>1, FS_CardinalityType DEF BudgetInv, PeakCounts
  <2>3. Cardinality(Meter!UnderWay') <= peak'
    BY <2>1, <2>2 DEF BudgetInv, PeakCounts
  <2>4. QED BY <2>1, <2>3 DEF BudgetInv, PeakCounts
<1>2. ASSUME ~open'
      PROVE  \/ Meter!MonthToDateTokens' = 0 /\ Pending' = {}
             \/ Meter!MonthToDateTokens' + Cardinality(Pending') * MaxTokens < Meter!MaxBudget + peak' * MaxTokens
  <2>1. Meter!MonthToDateTokens \in Nat /\ Meter!MaxBudget \in Nat /\ peak \in Nat /\ MaxTokens \in Nat /\ Cardinality(Pending) \in Nat
    BY UsedIsNumber, GreatestBudget, PendingFinite DEF BudgetInv, PeakCounts, Meter!MeterAssumption
  <2>2. IsFiniteSet(Pending) /\ Cardinality(Pending') \in Nat /\ Cardinality(Pending') <= Cardinality(Pending)
    <3>1. IsFiniteSet(Pending)
      BY PendingFinite DEF BudgetInv
    <3>2. IsFiniteSet(Pending') /\ Cardinality(Pending') <= Cardinality(Pending)
      BY <3>1, FS_Subset
    <3>3. QED BY <3>1, <3>2, FS_CardinalityType
  <2> DEFINE a == Cardinality(Pending) * MaxTokens
             d == Cardinality(Pending') * MaxTokens
             b == peak * MaxTokens
  <2>3. a \in Nat /\ b \in Nat /\ d \in Nat /\ d <= a
    BY <2>1, <2>2, TimesMonotone
  <2>4. (Meter!MonthToDateTokens = 0 /\ Pending = {}) \/ Meter!MonthToDateTokens + a < Meter!MaxBudget + b
    BY <1>2 DEF BudgetInv, WithinBound
  <2>5. peak' * MaxTokens = b
    OBVIOUS
  <2> HIDE DEF a, b, d
  <2>6. CASE Meter!MonthToDateTokens = 0 /\ Pending = {}
    BY <2>6
  <2>7. CASE Meter!MonthToDateTokens + a < Meter!MaxBudget + b
    <3>1. Meter!MonthToDateTokens' + d < Meter!MaxBudget + b
      BY <2>1, <2>3, <2>7
    <3>2. QED BY <2>5, <3>1 DEF d
  <2>8. QED BY <2>4, <2>6, <2>7
<1>3. Meter!MaxBudget' = Meter!MaxBudget
  BY DEF Meter!MaxBudget
<1>4. WithinBound'
  BY <1>2, <1>3 DEF WithinBound
<1>5. QED BY <1>1, <1>4 DEF BudgetInv

\* x stands for a call that is under way; its record may have been sent.
IsUnderWay(x, sent) ==
  (sent \/ x.pc \in {"upstream", "stream", "record", "posted"}) /\ x.status # "quota_rejected"

\* Rows and month tell what is used.
LEMMA SameTotal ==
  ASSUME UNCHANGED <<rows, month>>
  PROVE  Meter!MonthToDateTokens' = Meter!MonthToDateTokens
<1>1. Total(rows', month') = Total(rows, month)
  BY DEF Total
<1>2. Meter!MonthToDateTokens' = Total(rows', month')
  BY DEF Meter!MonthToDateTokens, Total
<1>3. QED BY <1>1, <1>2, TotalIsUsed

\* One call goes on to y and does not come under way.
LEMMA OneQuiet ==
  ASSUME Meter!MeterAssumption, MeterTyped, BudgetInv, NEW c \in Calls, NEW y \in CallType,
         call' = [call EXCEPT ![c] = y], CallTells(y),
         msgs' \subseteq msgs \cup {c}, IsUnderWay(y, c \in msgs') => IsUnderWay(call[c], c \in msgs),
         UNCHANGED <<quota, rows, month, peak>>, open => open'
  PROVE  BudgetInv'
<1>1. call'[c] = y /\ \A d \in Calls : d # c => call'[d] = call[d]
  BY DEF MeterTyped
<1>2. CallsTell'
  BY <1>1 DEF BudgetInv, CallsTell
<1>3. ASSUME NEW d \in Meter!UnderWay' PROVE d \in Meter!UnderWay
  BY <1>1, <1>3 DEF Meter!UnderWay, IsUnderWay
<1>4. Pending' \subseteq Pending
  BY <1>3 DEF Pending
<1>5. Meter!MonthToDateTokens' = Meter!MonthToDateTokens
  BY SameTotal
<1>6. month' \in 0..Len(rows') /\ (quota' = None \/ quota' \in [budget : Budgets, hard : BOOLEAN])
  BY DEF BudgetInv, PeakCounts
<1>7. QED BY <1>2, <1>3, <1>4, <1>5, <1>6, NoneAdmitted

\* A call goes a step further: what it keeps.
LEMMA FurtherKeeps ==
  ASSUME NEW x \in CallType, NEW p \in Pcs, NEW y, y = [x EXCEPT !.pc = p]
  PROVE  y.status = x.status /\ y.tries = x.tries
BY DEF CallType

\* A record is to be sent again: what it keeps.
LEMMA RepeatKeeps ==
  ASSUME NEW x \in CallType, NEW y, y = [x EXCEPT !.pc = "record", !.tries = @ + 1]
  PROVE  y.status = x.status /\ y.tries = x.tries + 1
BY DEF CallType

\* The gate lets a call through: it is counted, and the budget is not used up.
LEMMA AdmitKeeps ==
  ASSUME Meter!MeterAssumption, MeterTyped, MeterInv, BudgetInv, NEW c \in Calls, call[c].pc = "gate", Meter!Admit(c),
         UNCHANGED <<quota, rows, month, msgs>>,
         ~open' => ~open /\ Meter!Hard /\ ~Meter!Exceeded
  PROVE  BudgetInv'
<1> DEFINE x == call[c]
           y == [x EXCEPT !.pc = "upstream"]
<1>1. x \in CallType /\ CallTells(x) /\ x.pc = "gate" /\ c \notin msgs
  <2>1. c \notin msgs
    BY DEF MeterInv, RowsOwn, Recorded
  <2>2. QED BY <2>1 DEF MeterTyped, BudgetInv, CallsTell
<1>2. call' = [call EXCEPT ![c] = y]
  BY DEF Meter!Admit, Meter!Step
<1>3. y \in CallType /\ y.pc = "upstream" /\ y.status = x.status /\ y.tokens = x.tokens /\ y.tries = x.tries
  <2>1. "upstream" \in Pcs
    BY DEF Pcs
  <2>2. QED BY <1>1, <2>1, FurtherFields, FurtherKeeps
<1> HIDE DEF y
<1>4. call'[c] = y /\ \A d \in Calls : d # c => call'[d] = call[d]
  BY <1>2 DEF MeterTyped
<1>5. CallsTell'
  BY <1>1, <1>3, <1>4 DEF BudgetInv, CallsTell, CallTells
<1>6. Meter!UnderWay' = Meter!UnderWay \cup {c} /\ c \notin Meter!UnderWay
  <2>1. c \notin Meter!UnderWay
    BY <1>1 DEF Meter!UnderWay
  <2>2. ASSUME NEW d \in Calls, d # c PROVE d \in Meter!UnderWay' <=> d \in Meter!UnderWay
    BY <1>4, <2>2 DEF Meter!UnderWay
  <2>3. c \in Meter!UnderWay'
    BY <1>1, <1>3, <1>4 DEF Meter!UnderWay, CallTells
  <2>4. Meter!UnderWay' \subseteq Calls /\ Meter!UnderWay \subseteq Calls
    BY DEF Meter!UnderWay
  <2>5. QED BY <2>1, <2>2, <2>3, <2>4
<1>7. /\ IsFiniteSet(Meter!UnderWay) /\ Cardinality(Meter!UnderWay) \in Nat /\ Cardinality(Meter!UnderWay) <= peak /\ peak \in Nat
      /\ IsFiniteSet(Meter!UnderWay') /\ Cardinality(Meter!UnderWay') = Cardinality(Meter!UnderWay) + 1
  BY <1>6, FS_AddElement, FS_CardinalityType DEF BudgetInv, PeakCounts
<1>8. peak' \in Nat /\ Cardinality(Meter!UnderWay') <= peak'
  <2>1. peak' = IF Cardinality(Meter!UnderWay) < peak THEN peak ELSE Cardinality(Meter!UnderWay) + 1
    BY SameCardinality DEF Meter!Admit
  <2>2. QED BY <1>7, <2>1
<1>9. PeakCounts'
  BY <1>7, <1>8 DEF BudgetInv, PeakCounts
<1>10. Meter!MonthToDateTokens' = Meter!MonthToDateTokens /\ Meter!MaxBudget' = Meter!MaxBudget
  BY SameTotal DEF Meter!MaxBudget
<1>11. ASSUME ~open'
       PROVE  Meter!MonthToDateTokens + Cardinality(Pending') * MaxTokens < Meter!MaxBudget + peak' * MaxTokens
  <2>1. Meter!MonthToDateTokens < Meter!MaxBudget
    <3>1. quota.budget \in Budgets
      BY <1>11 DEF Meter!Hard, BudgetInv, PeakCounts
    <3>2. quota.budget \in Nat /\ quota.budget <= Meter!MaxBudget
      BY <3>1, GreatestBudget DEF Meter!MeterAssumption
    <3>3. ~(Meter!MonthToDateTokens >= quota.budget)
      BY <1>11 DEF Meter!Exceeded
    <3>4. Meter!MonthToDateTokens \in Nat /\ Meter!MaxBudget \in Nat
      BY UsedIsNumber, GreatestBudget DEF BudgetInv
    <3>5. QED BY <3>2, <3>3, <3>4
  <2>2. Cardinality(Pending') \in Nat /\ Cardinality(Pending') <= peak'
    <3>1. Pending' \subseteq Meter!UnderWay'
      BY DEF Pending
    <3>2. IsFiniteSet(Pending') /\ Cardinality(Pending') <= Cardinality(Meter!UnderWay')
      BY <1>7, <3>1, FS_Subset
    <3>3. Cardinality(Pending') \in Nat /\ Cardinality(Meter!UnderWay') \in Nat
      BY <1>7, <3>2, FS_CardinalityType
    <3>4. QED BY <1>8, <3>2, <3>3
  <2>3. MaxTokens \in Nat
    BY DEF Meter!MeterAssumption
  <2> DEFINE a == Cardinality(Pending') * MaxTokens
             b == peak' * MaxTokens
  <2>4. a \in Nat /\ b \in Nat /\ a <= b
    BY <1>8, <2>2, <2>3, TimesMonotone
  <2>5. Meter!MonthToDateTokens \in Nat /\ Meter!MaxBudget \in Nat
    BY UsedIsNumber, GreatestBudget DEF BudgetInv
  <2> HIDE DEF a, b
  <2>6. Meter!MonthToDateTokens + a < Meter!MaxBudget + b
    BY <2>1, <2>4, <2>5
  <2>7. QED BY <2>6 DEF a, b
<1>12. WithinBound'
  BY <1>10, <1>11 DEF WithinBound
<1>13. QED BY <1>5, <1>9, <1>12 DEF BudgetInv

\* RoundTrip, up to the record: what is settled was under way, or never is.
LEMMA TripKeepsBudget ==
  ASSUME Meter!MeterAssumption, MeterTyped, MeterInv, BudgetInv, NEW c \in Calls,
         Meter!QuotaCheck(c) \/ Meter!QuotaUnavailable(c) \/ Meter!UpstreamFails(c) \/ Meter!Respond(c) \/ Meter!StreamEnds(c)
  PROVE  BudgetInv'
<1> DEFINE x == call[c]
<1>1. x \in CallType /\ CallTells(x) /\ 0 \in 0..MaxTokens /\ 1..MaxTokens \subseteq 0..MaxTokens
  BY DEF MeterTyped, BudgetInv, CallsTell, Meter!MeterAssumption
<1>2. UNCHANGED <<quota, rows, month, msgs>> /\ (open => open')
  <2>1. UNCHANGED <<quota, rows, month, msgs>>
    BY DEF Meter!QuotaCheck, Meter!QuotaUnavailable, Meter!UpstreamFails, Meter!Respond, Meter!StreamEnds
  <2>2. open' = (open \/ ~Meter!Hard) \/ open' = TRUE \/ open' = open
    BY DEF Meter!QuotaCheck, Meter!QuotaUnavailable, Meter!UpstreamFails, Meter!Respond, Meter!StreamEnds
  <2>3. open => open'
    BY <2>2, Zenon
  <2>4. QED BY <2>1, <2>3
<1>3. ASSUME NEW st \in {"quota_rejected", "upstream_error", "ok", "aborted"}, NEW t \in 0..MaxTokens, UNCHANGED peak,
             call' = [call EXCEPT ![c] = [x EXCEPT !.pc = "record", !.status = st, !.tokens = t]],
             st = "quota_rejected" => t = 0,
             st # "quota_rejected" => x.pc \in {"upstream", "stream"}
      PROVE  BudgetInv'
  <2> DEFINE y == [x EXCEPT !.pc = "record", !.status = st, !.tokens = t]
  <2>1. y \in CallType /\ y.pc = "record" /\ y.status = st /\ y.tokens = t /\ y.tries = x.tries
    <3>1. x \in CallType /\ y = [x EXCEPT !.pc = "record", !.status = st, !.tokens = t]
      BY <1>1
    <3> HIDE DEF x, y
    <3>2. y \in CallType
      BY <3>1 DEF CallType
    <3>3. QED BY <3>1, <3>2 DEF CallType
  <2>2. call' = [call EXCEPT ![c] = y]
    BY <1>3
  <2> HIDE DEF y
  <2>3. CallTells(y) /\ (IsUnderWay(y, c \in msgs') => IsUnderWay(x, c \in msgs))
    BY <1>1, <1>2, <1>3, <2>1 DEF CallTells, IsUnderWay
  <2>4. QED BY <1>2, <1>3, <2>1, <2>2, <2>3, OneQuiet
<1>4. CASE Meter!QuotaUnavailable(c)
  <2>1. call[c].pc = "gate" /\ Meter!Admit(c) /\ open'
    BY <1>4 DEF Meter!QuotaUnavailable
  <2>2. QED BY <1>2, <2>1, AdmitKeeps
<1>5. CASE Meter!QuotaCheck(c)
  <2>1. call[c].pc = "gate" /\ open' = (open \/ ~Meter!Hard)
    BY <1>5 DEF Meter!QuotaCheck
  <2>2. CASE ~Meter!Exceeded
    <3>1. Meter!Admit(c)
      BY <1>5, <2>2 DEF Meter!QuotaCheck
    <3>2. QED BY <1>2, <2>1, <2>2, <3>1, AdmitKeeps
  <2>3. CASE Meter!Exceeded
    <3>1. call' = [call EXCEPT ![c] = [x EXCEPT !.pc = "record", !.status = "quota_rejected", !.tokens = 0]] /\ UNCHANGED peak
      BY <1>5, <2>3 DEF Meter!QuotaCheck, Meter!Step, Meter!Settled
    <3>2. QED BY <1>1, <1>3, <3>1
  <2>4. QED BY <2>2, <2>3
<1>6. CASE Meter!UpstreamFails(c)
  <2>1. /\ call' = [call EXCEPT ![c] = [x EXCEPT !.pc = "record", !.status = "upstream_error", !.tokens = 0]]
        /\ UNCHANGED peak /\ x.pc = "upstream"
    BY <1>6 DEF Meter!UpstreamFails, Meter!Step, Meter!Settled
  <2>2. QED BY <1>1, <1>3, <2>1
<1>7. CASE Meter!Respond(c)
  <2>1. UNCHANGED peak /\ x.pc = "upstream"
    BY <1>7 DEF Meter!Respond
  <2>2. ASSUME call' = [call EXCEPT ![c] = [x EXCEPT !.pc = "stream"]] PROVE BudgetInv'
    <3> DEFINE y == [x EXCEPT !.pc = "stream"]
    <3>1. "stream" \in Pcs
      BY DEF Pcs
    <3>2. y \in CallType /\ y.pc = "stream" /\ y.tokens = x.tokens /\ y.status = x.status /\ y.tries = x.tries
      BY <1>1, <3>1, FurtherFields, FurtherKeeps
    <3>3. call' = [call EXCEPT ![c] = y]
      BY <2>2
    <3> HIDE DEF y
    <3>4. CallTells(y) /\ (IsUnderWay(y, c \in msgs') => IsUnderWay(x, c \in msgs))
      BY <1>1, <1>2, <2>1, <3>2 DEF CallTells, IsUnderWay
    <3>5. QED BY <1>2, <2>1, <3>2, <3>3, <3>4, OneQuiet
  <2>3. \/ \E t \in 0..MaxTokens : call' = [call EXCEPT ![c] = [x EXCEPT !.pc = "record", !.status = "ok", !.tokens = t]]
        \/ call' = [call EXCEPT ![c] = [x EXCEPT !.pc = "stream"]]
    BY <1>7 DEF Meter!Respond, Meter!Step, Meter!Settled
  <2>4. QED BY <1>3, <2>1, <2>2, <2>3
<1>8. CASE Meter!StreamEnds(c)
  <2>1. UNCHANGED peak /\ x.pc = "stream"
    BY <1>8 DEF Meter!StreamEnds
  <2>2. \/ \E t \in 1..MaxTokens : call' = [call EXCEPT ![c] = [x EXCEPT !.pc = "record", !.status = "ok", !.tokens = t]]
        \/ call' = [call EXCEPT ![c] = [x EXCEPT !.pc = "record", !.status = "aborted", !.tokens = 0]]
    BY <1>8, Zenon DEF Meter!StreamEnds, Meter!Step, Meter!Settled
  <2> HIDE DEF x
  <2>3. QED BY <1>1, <1>3, <2>1, <2>2
<1>9. QED BY <1>4, <1>5, <1>6, <1>7, <1>8

\* Record: what is sent was under way, and what is answered or given up no longer is.
LEMMA RecordKeepsBudget ==
  ASSUME Meter!MeterAssumption, MeterTyped, MeterInv, BudgetInv, NEW c \in Calls,
         Meter!PostUsage(c) \/ Meter!UsageAccepted(c) \/ Meter!UsageRefused(c) \/ Meter!PostFails(c)
  PROVE  BudgetInv'
<1> DEFINE x == call[c]
<1>1. x \in CallType /\ CallTells(x) /\ Retries \in Nat
  BY DEF MeterTyped, BudgetInv, CallsTell, Meter!MeterAssumption
<1>2. UNCHANGED <<quota, rows, month, open, peak>> /\ msgs' \subseteq msgs \cup {c}
  BY DEF Meter!PostUsage, Meter!UsageAccepted, Meter!UsageRefused, Meter!PostFails
<1>3. ASSUME NEW p \in {"posted", "acked", "lost"}, call' = [call EXCEPT ![c] = [x EXCEPT !.pc = p]],
             p = "posted" => x.pc = "record", p # "posted" => msgs' \subseteq msgs
      PROVE  BudgetInv'
  <2> DEFINE y == [x EXCEPT !.pc = p]
  <2>1. p \in Pcs
    BY DEF Pcs, Recorded
  <2>2. y \in CallType /\ y.pc = p /\ y.tokens = x.tokens /\ y.status = x.status /\ y.tries = x.tries
    BY <1>1, <2>1, FurtherFields, FurtherKeeps
  <2>3. call' = [call EXCEPT ![c] = y]
    BY <1>3
  <2> HIDE DEF y
  <2>4. CallTells(y) /\ (IsUnderWay(y, c \in msgs') => IsUnderWay(x, c \in msgs))
    BY <1>1, <1>2, <1>3, <2>2 DEF CallTells, IsUnderWay
  <2>5. QED BY <1>2, <2>2, <2>3, <2>4, OneQuiet
<1>4. ASSUME x.pc = "posted", x.tries # Retries, call' = [call EXCEPT ![c] = [x EXCEPT !.pc = "record", !.tries = @ + 1]]
      PROVE  BudgetInv'
  <2> DEFINE y == [x EXCEPT !.pc = "record", !.tries = @ + 1]
  <2>1. y \in CallType /\ y.pc = "record" /\ y.tokens = x.tokens /\ y.status = x.status /\ y.tries = x.tries + 1
    BY <1>1, RepeatFields, RepeatKeeps
  <2>2. call' = [call EXCEPT ![c] = y]
    BY <1>4
  <2> HIDE DEF y
  <2>3. y.tries <= Retries
    <3>1. x.tries \in Nat /\ x.tries <= Retries
      BY <1>1 DEF CallType, CallTells
    <3>2. QED BY <1>1, <1>4, <2>1, <3>1
  <2>4. CallTells(y) /\ (IsUnderWay(y, c \in msgs') => IsUnderWay(x, c \in msgs))
    BY <1>1, <1>4, <2>1, <2>3 DEF CallTells, IsUnderWay
  <2>5. QED BY <1>2, <2>1, <2>2, <2>4, OneQuiet
<1>5. CASE Meter!PostUsage(c)
  BY <1>3, <1>5 DEF Meter!PostUsage, Meter!Step
<1>6. CASE Meter!UsageAccepted(c)
  BY <1>3, <1>6 DEF Meter!UsageAccepted, Meter!Step
<1>7. CASE Meter!UsageRefused(c)
  <2>1. CASE UNCHANGED call
    <3>1. call' = [call EXCEPT ![c] = x]
      BY <2>1 DEF MeterTyped
    <3>2. msgs' \subseteq msgs
      BY <1>7 DEF Meter!UsageRefused
    <3>3. IsUnderWay(x, c \in msgs') => IsUnderWay(x, c \in msgs)
      BY <3>2 DEF IsUnderWay
    <3>4. QED BY <1>1, <1>2, <3>1, <3>3, OneQuiet
  <2>2. QED BY <1>3, <1>7, <2>1 DEF Meter!UsageRefused, Meter!Step
<1>8. CASE Meter!PostFails(c)
  <2>1. msgs' \subseteq msgs /\ x.pc = "posted"
    BY <1>8 DEF Meter!PostFails
  <2>2. \/ call' = [call EXCEPT ![c] = [x EXCEPT !.pc = "lost"]]
        \/ x.tries # Retries /\ call' = [call EXCEPT ![c] = [x EXCEPT !.pc = "record", !.tries = @ + 1]]
    BY <1>8, Zenon DEF Meter!PostFails, Meter!Step
  <2>3. QED BY <1>3, <1>4, <2>1, <2>2
<1>9. QED BY <1>5, <1>6, <1>7, <1>8

\* A call begins: it is not under way before the gate has let it through.
LEMMA BeginKeepsBudget ==
  ASSUME Meter!MeterAssumption, MeterTyped, MeterInv, BudgetInv, NEW c \in Calls, NEW m \in Meters, Meter!Begin(c, m)
  PROVE  BudgetInv'
<1>1. /\ UNCHANGED <<quota, rows, month, msgs, open, peak>>
      /\ call[c].pc = "idle" /\ seq[m] \in Nat
      /\ \E named \in BOOLEAN : call' = [call EXCEPT ![c] = [Meter!Idle EXCEPT !.pc = "gate", !.meter = m, !.n = seq[m], !.named = named]]
  BY DEF Meter!Begin, Meter!Step, MeterTyped
<1>2. PICK named \in BOOLEAN : call' = [call EXCEPT ![c] = [Meter!Idle EXCEPT !.pc = "gate", !.meter = m, !.n = seq[m], !.named = named]]
  BY <1>1
<1> DEFINE x == Meter!Idle
           k == seq[m]
           y == [x EXCEPT !.pc = "gate", !.meter = m, !.n = k, !.named = named]
<1>3. call' = [call EXCEPT ![c] = y]
  BY <1>2
<1>4. x \in CallType /\ x.status = None /\ x.tokens = 0 /\ x.tries = 0 /\ k \in Nat
  BY <1>1 DEF Meter!Idle, CallType, Meter!MeterAssumption
<1>5. c \notin msgs /\ Retries \in Nat
  BY <1>1 DEF MeterInv, RowsOwn, Recorded, Meter!MeterAssumption
<1>9. y.status = x.status /\ y.tokens = x.tokens /\ y.tries = x.tries /\ y.pc = "gate"
  BY <1>4 DEF CallType
<1>6. y \in CallType
  <2> HIDE DEF x, k
  <2>1. QED BY <1>4 DEF CallType
<1> HIDE DEF y
<1>7. CallTells(y) /\ ~IsUnderWay(y, c \in msgs')
  BY <1>1, <1>4, <1>5, <1>9 DEF CallTells, IsUnderWay, Meter!MeterAssumption
<1>8. QED BY <1>1, <1>3, <1>6, <1>7, OneQuiet

\* A crash brings no call under way: what had been sent may still arrive.
LEMMA CrashKeepsBudget ==
  ASSUME Meter!MeterAssumption, MeterTyped, BudgetInv, NEW m \in Meters, Meter!Crash(m)
  PROVE  BudgetInv'
<1>1. UNCHANGED <<quota, rows, month, msgs, open, peak>> /\ call \in [Calls -> CallType]
  BY DEF Meter!Crash, MeterTyped
<1>2. ASSUME NEW d \in Calls
      PROVE  /\ CallTells(call'[d])
             /\ IsUnderWay(call'[d], d \in msgs) => IsUnderWay(call[d], d \in msgs)
  <2> DEFINE x == call[d]
             y == [x EXCEPT !.pc = "lost"]
  <2>1. x \in CallType /\ CallTells(x)
    BY <1>1 DEF BudgetInv, CallsTell
  <2>2. CASE call'[d] = x
    BY <2>1, <2>2
  <2>3. CASE call'[d] = y
    <3>1. "lost" \in Pcs
      BY DEF Pcs, Recorded
    <3>2. y.pc = "lost" /\ y.tokens = x.tokens /\ y.status = x.status /\ y.tries = x.tries
      BY <2>1, <3>1, FurtherFields, FurtherKeeps
    <3> HIDE DEF y
    <3>3. QED BY <2>1, <2>3, <3>2 DEF CallTells, IsUnderWay
  <2>4. call'[d] = x \/ call'[d] = y
    BY DEF Meter!Crash
  <2>5. QED BY <2>2, <2>3, <2>4
<1>3. CallsTell'
  BY <1>2 DEF CallsTell
<1>4. Meter!UnderWay' \subseteq Meter!UnderWay
  BY <1>1, <1>2 DEF Meter!UnderWay, IsUnderWay
<1>5. Pending' \subseteq Pending
  BY <1>1, <1>4 DEF Pending
<1>6. Meter!MonthToDateTokens' = Meter!MonthToDateTokens
  BY <1>1, SameTotal
<1>7. month' \in 0..Len(rows') /\ (quota' = None \/ quota' \in [budget : Budgets, hard : BOOLEAN])
  BY <1>1 DEF BudgetInv, PeakCounts
<1>8. QED BY <1>1, <1>3, <1>4, <1>5, <1>6, <1>7, NoneAdmitted

\* The administrator changes the quota, or a month begins.
LEMMA ConsoleKeepsBudget ==
  ASSUME Meter!MeterAssumption, MeterTyped, BudgetInv, Meter!PutQuota \/ Meter!NewMonth
  PROVE  BudgetInv'
<1>1. UNCHANGED <<rows, call, msgs, open, peak>>
  BY DEF Meter!PutQuota, Meter!NewMonth
<1>2. CallsTell' /\ Meter!UnderWay' = Meter!UnderWay /\ Pending' = Pending
  BY <1>1 DEF BudgetInv, CallsTell, Meter!UnderWay, Pending
<1>3. quota' = None \/ quota' \in [budget : Budgets, hard : BOOLEAN]
  BY DEF Meter!PutQuota, Meter!NewMonth, BudgetInv, PeakCounts
<1>4. CASE Meter!PutQuota
  <2>1. month' = month /\ month \in 0..Len(rows)
    BY <1>4 DEF Meter!PutQuota, BudgetInv, PeakCounts
  <2>2. Meter!MonthToDateTokens' = Meter!MonthToDateTokens
    BY <1>1, <2>1, SameTotal
  <2>3. QED BY <1>1, <1>2, <1>3, <2>1, <2>2, NoneAdmitted
<1>5. CASE Meter!NewMonth
  <2>1. month' = Len(rows) /\ rows \in Seq(RowType)
    BY <1>5 DEF Meter!NewMonth, MeterTyped
  <2>2. Meter!MonthToDateTokens' = Total(rows', month')
    BY DEF Meter!MonthToDateTokens, Total
  <2>3. Meter!MonthToDateTokens' = 0
    BY <1>1, <2>1, <2>2, TotalStarts
  <2>4. month' \in 0..Len(rows')
    BY <1>1, <2>1
  <2>5. QED BY <1>1, <1>2, <1>3, <2>3, <2>4, NoneAdmitted
<1>6. QED BY <1>4, <1>5

\* A record that is stored is charged instead of pending.
LEMMA InsertKeepsBudget ==
  ASSUME Meter!MeterAssumption, MeterTyped, MeterInv, BudgetInv, NEW c \in Calls, Meter!InsertUsage(c)
  PROVE  BudgetInv'
<1> DEFINE r == [call |-> c, key |-> KeyOf(call[c]), tokens |-> call[c].tokens]
<1>1. /\ c \in msgs /\ call[c].pc \in Recorded /\ call[c] \in CallType /\ CallTells(call[c])
      /\ UNCHANGED <<quota, month, call, open, peak>> /\ msgs' = msgs \ {c}
  BY DEF Meter!InsertUsage, MeterInv, RowsOwn, MeterTyped, BudgetInv, CallsTell
<1>2. rows' = IF \E i \in DOMAIN rows : rows[i].key = r.key THEN rows ELSE Append(rows, r)
  BY DEF Meter!InsertUsage, Meter!Inserted, Meter!IdemKey, KeyOf
<1>3. r \in RowType /\ r.call = c /\ r.key = KeyOf(call[c]) /\ r.tokens = call[c].tokens
  <2>1. c \in Begun
    BY <1>1 DEF MeterInv, NumbersOwn, Recorded
  <2>2. QED BY <1>1, <2>1 DEF RowType, KeyOf, CallType, Begun
<1> HIDE DEF r
<1>4. CallsTell' /\ Meter!UnderWay' \subseteq Meter!UnderWay
  BY <1>1 DEF BudgetInv, CallsTell, Meter!UnderWay
<1>5. quota' = None \/ quota' \in [budget : Budgets, hard : BOOLEAN]
  BY <1>1 DEF BudgetInv, PeakCounts
<1>6. rows \in Seq(RowType) /\ month \in 0..Len(rows) /\ MaxTokens \in Nat
  BY DEF MeterTyped, BudgetInv, PeakCounts, Meter!MeterAssumption
<1>7. CASE \E i \in DOMAIN rows : rows[i].key = r.key
  <2>1. rows' = rows
    BY <1>2, <1>7
  <2>2. Pending' \subseteq Pending
    BY <1>4, <2>1 DEF Pending
  <2>3. Meter!MonthToDateTokens' = Meter!MonthToDateTokens
    BY <1>1, <2>1, SameTotal
  <2>4. QED BY <1>1, <1>4, <1>5, <1>6, <2>1, <2>2, <2>3, NoneAdmitted
<1>8. CASE ~\E i \in DOMAIN rows : rows[i].key = r.key
  <2>1. rows' = Append(rows, r)
    BY <1>2, <1>8
  <2>2. /\ Len(rows) \in Nat /\ Len(rows') = Len(rows) + 1 /\ DOMAIN rows = 1..Len(rows) /\ DOMAIN rows' = 1..(Len(rows) + 1)
        /\ \A i \in 1..Len(rows) : rows'[i] = rows[i]
        /\ rows'[Len(rows) + 1] = r
    BY <1>3, <1>6, <2>1, AppendProperties
  <2>3. Meter!MonthToDateTokens' = Meter!MonthToDateTokens + call[c].tokens /\ Meter!MonthToDateTokens \in Nat
    <3>1. Total(rows, month) \in Nat /\ Total(rows', month) = Total(rows, month) + r.tokens
      BY <1>3, <1>6, <2>1, TotalGrows
    <3>2. Meter!MonthToDateTokens' = Total(rows', month')
      BY DEF Meter!MonthToDateTokens, Total
    <3>3. QED BY <1>1, <1>3, <3>1, <3>2, TotalIsUsed
  <2>4. month' \in 0..Len(rows')
    BY <1>1, <1>6, <2>2
  <2>5. \A i \in DOMAIN rows : rows[i].call # c
    BY <1>3, <1>8 DEF MeterInv, RowsOwn
  <2>6. Pending' \subseteq Pending \ {c}
    <3>1. ASSUME NEW d \in Pending' PROVE d \in Pending \ {c}
      <4>1. d \in Meter!UnderWay /\ \A i \in 1..(Len(rows) + 1) : rows'[i].call # d
        BY <1>4, <2>2, <3>1 DEF Pending
      <4>2. d # c
        BY <1>3, <2>2, <4>1
      <4>3. \A i \in 1..Len(rows) : rows[i].call # d
        BY <2>2, <4>1
      <4>4. QED BY <2>2, <4>1, <4>2, <4>3 DEF Pending
    <3>2. QED BY <3>1
  <2>7. CASE call[c].tokens = 0
    <3>1. Meter!MonthToDateTokens' = Meter!MonthToDateTokens
      BY <2>3, <2>7
    <3>2. QED BY <1>1, <1>4, <1>5, <2>4, <2>6, <3>1, NoneAdmitted
  <2>8. CASE call[c].tokens # 0
    <3>1. c \in Pending
      BY <1>1, <2>5, <2>8 DEF Pending, Meter!UnderWay, CallTells
    <3>2. PeakCounts'
      <4>1. IsFiniteSet(Meter!UnderWay') /\ Cardinality(Meter!UnderWay') <= Cardinality(Meter!UnderWay)
        BY <1>4, FS_Subset DEF BudgetInv, PeakCounts
      <4>2. Cardinality(Meter!UnderWay') \in Nat /\ Cardinality(Meter!UnderWay) \in Nat
        BY <4>1, FS_CardinalityType DEF BudgetInv, PeakCounts
      <4>3. Cardinality(Meter!UnderWay') <= peak'
        BY <1>1, <4>1, <4>2 DEF BudgetInv, PeakCounts
      <4>4. QED BY <1>1, <1>5, <2>4, <4>1, <4>3 DEF BudgetInv, PeakCounts
    <3>3. ASSUME ~open'
          PROVE  Meter!MonthToDateTokens' + Cardinality(Pending') * MaxTokens < Meter!MaxBudget + peak' * MaxTokens
      <4>1. /\ Meter!MaxBudget \in Nat /\ peak \in Nat /\ Cardinality(Pending) \in Nat /\ IsFiniteSet(Pending)
            /\ call[c].tokens \in Nat /\ call[c].tokens <= MaxTokens
        BY <1>1, <1>6, GreatestBudget, PendingFinite DEF BudgetInv, PeakCounts, CallType
      <4>2. Cardinality(Pending') \in Nat /\ Cardinality(Pending') + 1 <= Cardinality(Pending)
        <5>1. IsFiniteSet(Pending \ {c}) /\ Cardinality(Pending \ {c}) = Cardinality(Pending) - 1
          BY <3>1, <4>1, FS_RemoveElement
        <5>2. IsFiniteSet(Pending') /\ Cardinality(Pending') <= Cardinality(Pending \ {c})
          BY <2>6, <5>1, FS_Subset
        <5>3. Cardinality(Pending') \in Nat
          BY <5>2, FS_CardinalityType
        <5>4. QED BY <4>1, <5>1, <5>2, <5>3
      <4> DEFINE n == Cardinality(Pending')
                 a == Cardinality(Pending) * MaxTokens
                 d == n * MaxTokens
                 b == peak * MaxTokens
      <4>3. a \in Nat /\ b \in Nat /\ d \in Nat /\ (n + 1) * MaxTokens <= a
        BY <1>6, <4>1, <4>2, TimesMonotone
      <4>4. (n + 1) * MaxTokens = d + MaxTokens
        BY <1>6, <4>2
      <4>5. Meter!MonthToDateTokens + a < Meter!MaxBudget + b
        BY <1>1, <3>1, <3>3 DEF BudgetInv, WithinBound
      <4>6. peak' * MaxTokens = b
        BY <1>1
      <4> HIDE DEF a, b, d, n
      <4>7. Meter!MonthToDateTokens' + d < Meter!MaxBudget + b
        <5>1. d + MaxTokens <= a
          BY <4>3, <4>4
        <5>2. QED BY <1>6, <2>3, <4>1, <4>3, <4>5, <5>1
      <4>8. QED BY <4>6, <4>7 DEF d, n
    <3>4. Meter!MaxBudget' = Meter!MaxBudget
      BY DEF Meter!MaxBudget
    <3>5. WithinBound'
      BY <3>3, <3>4 DEF WithinBound
    <3>6. QED BY <1>4, <3>2, <3>5 DEF BudgetInv
  <2>9. QED BY <2>7, <2>8
<1>9. QED BY <1>7, <1>8

\* Nothing is used and no call is under way.
LEMMA InitBudget == Meter!MeterAssumption /\ Meter!Init => BudgetInv
<1> SUFFICES ASSUME Meter!MeterAssumption, Meter!Init PROVE BudgetInv
  OBVIOUS
<1>1. /\ rows = <<>> /\ msgs = {} /\ month = 0 /\ peak = 0 /\ call = [c \in Calls |-> Meter!Idle]
      /\ quota \in {None} \cup [budget : Budgets, hard : {TRUE}]
  BY DEF Meter!Init
<1>2. /\ Meter!Idle.pc = "idle" /\ Meter!Idle.status # "quota_rejected" /\ Meter!Idle.tokens = 0
      /\ Meter!Idle.tries = 0 /\ Retries \in Nat
  BY DEF Meter!Idle, Meter!MeterAssumption
<1>3. CallsTell /\ Meter!UnderWay = {} /\ Pending = {}
  BY <1>1, <1>2 DEF CallsTell, CallTells, Meter!UnderWay, Pending
<1>4. Cardinality({}) = 0 /\ IsFiniteSet({}) /\ Len(rows) = 0 /\ rows \in Seq(RowType)
  BY <1>1, FS_EmptySet
<1>5. PeakCounts
  <2>1. quota = None \/ quota \in [budget : Budgets, hard : BOOLEAN]
    BY <1>1
  <2>2. 0 \in Nat /\ 0 <= 0 /\ 0 \in 0..Len(rows)
    BY <1>4
  <2>3. QED BY <1>1, <1>3, <1>4, <2>1, <2>2 DEF PeakCounts
<1>6. Meter!MonthToDateTokens = 0
  BY <1>1, <1>4, TotalStarts, TotalIsUsed
<1>7. QED BY <1>3, <1>5, <1>6 DEF BudgetInv, WithinBound

\* Every step keeps it.
LEMMA NextBudget ==
  Meter!MeterAssumption /\ MeterTyped /\ MeterInv /\ BudgetInv /\ [Meter!Next]_(Meter!meterVars) => BudgetInv'
<1> SUFFICES ASSUME Meter!MeterAssumption, MeterTyped, MeterInv, BudgetInv, [Meter!Next]_(Meter!meterVars)
             PROVE  BudgetInv'
  OBVIOUS
<1>1. CASE UNCHANGED Meter!meterVars
  <2>1. UNCHANGED <<quota, rows, month, call, msgs, open, peak>>
    BY <1>1 DEF Meter!meterVars
  <2>2. CallsTell' /\ Meter!UnderWay' = Meter!UnderWay /\ Pending' = Pending
    BY <2>1 DEF BudgetInv, CallsTell, Meter!UnderWay, Pending
  <2>3. /\ month' \in 0..Len(rows') /\ (quota' = None \/ quota' \in [budget : Budgets, hard : BOOLEAN])
        /\ Meter!MonthToDateTokens' = Meter!MonthToDateTokens
    BY <2>1, SameTotal DEF BudgetInv, PeakCounts
  <2>4. QED BY <2>1, <2>2, <2>3, NoneAdmitted
<1>2. ASSUME NEW c \in Calls,
             Meter!QuotaCheck(c) \/ Meter!QuotaUnavailable(c) \/ Meter!UpstreamFails(c) \/ Meter!Respond(c) \/ Meter!StreamEnds(c)
      PROVE  BudgetInv'
  BY <1>2, TripKeepsBudget
<1>3. ASSUME NEW c \in Calls, Meter!PostUsage(c) \/ Meter!UsageAccepted(c) \/ Meter!UsageRefused(c) \/ Meter!PostFails(c)
      PROVE  BudgetInv'
  BY <1>3, RecordKeepsBudget
<1>4. QED
  BY <1>1, <1>2, <1>3, BeginKeepsBudget, CrashKeepsBudget, ConsoleKeepsBudget, InsertKeepsBudget DEF Meter!Next

\* OvershootBounded: RoundTrip checks first and charges afterwards, yet as long as
\* every call was checked against a hard quota, what a month is charged beyond the
\* budget is less than what the calls under way together may consume.
THEOREM OvershootCorrect == ASSUME Meter!MeterAssumption PROVE Meter!Spec => []Meter!OvershootBounded
<1>1. Meter!Spec => [](MeterTyped /\ MeterInv /\ BudgetInv)
  <2>1. Meter!Init => MeterTyped /\ MeterInv /\ BudgetInv
    BY InitMeter, InitBudget
  <2>2. MeterTyped /\ MeterInv /\ BudgetInv /\ [Meter!Next]_(Meter!meterVars) => (MeterTyped /\ MeterInv /\ BudgetInv)'
    BY NextMeter, NextBudget
  <2>3. QED BY <2>1, <2>2, PTL DEF Meter!Spec
<1>2. MeterTyped /\ BudgetInv => Meter!OvershootBounded
  BY BoundFollows
<1>3. QED BY <1>1, <1>2, PTL

\* The calls and the rows have their types.
LEMMA MeterTypes == Meter!MeterAssumption /\ MeterTyped /\ BudgetInv => Meter!TypeOK
<1> SUFFICES ASSUME Meter!MeterAssumption, MeterTyped, BudgetInv PROVE Meter!TypeOK
  OBVIOUS
<1>1. quota = None \/ quota \in [budget : Nat, hard : BOOLEAN]
  BY DEF Meter!MeterAssumption, BudgetInv, PeakCounts
<1>2. \A i \in DOMAIN rows : rows[i] \in RowType
  BY ElementOfSeq DEF MeterTyped
<1>3. month \in 0..Len(rows)
  BY DEF BudgetInv, PeakCounts
<1>4. ASSUME NEW c \in Calls
      PROVE  /\ call[c].pc \in {"idle", "gate", "upstream", "stream", "record", "posted"} \cup Meter!Over
             /\ call[c].meter \in Meters \cup {None} /\ call[c].tokens \in 0..MaxTokens /\ call[c].tries \in 0..Retries
  <2>1. call[c] \in CallType /\ call[c].tries <= Retries /\ Retries \in Nat
    BY DEF MeterTyped, BudgetInv, CallsTell, CallTells, Meter!MeterAssumption
  <2>2. QED BY <2>1 DEF CallType, Meter!Over
<1>5. QED BY <1>1, <1>2, <1>3, <1>4 DEF Meter!TypeOK, MeterTyped, RowType

-----------------------------------------------------------------------------
(* Collection loops and pools.                                              *)

\* A goroutine that runs has its datasource; a call that works has one too, and
\* its pool as soon as it has built or found one.
LoopType == [pc : {"ended", "wait", "collect"}, d : Ds \cup {None}, mode : {"direct", None} \cup Conns,
             cancelled : BOOLEAN, backoff : Nat]
Goroutines == {x \in LoopType : x.pc # "ended" => x.d \in Ds}

UseType == [pc : {"none", "lookup", "read", "built", "query"}, d : Ds \cup {None}, secret : Nat, pool : Pools \cup {None}]
Uses == {x \in UseType : /\ x.pc # "none" => x.d \in Ds
                         /\ x.pc \in {"built", "query"} => x.pool \in Pools}

RowsTyped == home \in [Ds -> {"absent", "direct", "gone"} \cup Conns] /\ secret \in [Ds -> 0..MaxSecret]

PassTyped ==
  /\ pass = [pc |-> pass.pc, next |-> pass.next, want |-> pass.want]
  /\ pass.want \in [Ds -> {"direct", None} \cup Conns]

LoopsTyped == loops \in [Ds -> Loops \cup {None}] /\ loop \in [Loops -> Goroutines]

PoolsTyped == pools \in [Ds -> Pools \cup {None}] /\ pool \in [Pools -> 0..MaxSecret \cup {None}]

UsesTyped == use \in [Coll!Users -> Uses]

CollTyped == RowsTyped /\ PassTyped /\ LoopsTyped /\ PoolsTyped /\ UsesTyped

\* A call of its own begins with the lookup.
LEMMA NewUse ==
  ASSUME Coll!CollectorAssumption, NEW d \in Ds, NEW y, y = [Coll!Unused EXCEPT !.pc = "lookup", !.d = d]
  PROVE  y \in Uses /\ y.pc = "lookup"
<1> DEFINE x == Coll!Unused
<1>1. x \in UseType
  BY DEF Coll!Unused, UseType
<1>2. y = [x EXCEPT !.pc = "lookup", !.d = d]
  OBVIOUS
<1> HIDE DEF x
<1>3. y \in UseType
  BY <1>1, <1>2 DEF UseType
<1>4. y.pc = "lookup" /\ y.d = d
  BY <1>1, <1>2 DEF UseType
<1>5. QED BY <1>3, <1>4 DEF Uses

\* A call goes to the pool it uses.
LEMMA UseQueries ==
  ASSUME UsesTyped, NEW u \in Coll!Users, use[u].pc # "none", NEW p \in Pools,
         Coll!Querying(u, p)
  PROVE  \E y \in Uses : use' = [use EXCEPT ![u] = y] /\ y.pool = p /\ y.pc = "query"
<1> DEFINE x == use[u]
           y == [x EXCEPT !.pc = "query", !.pool = p, !.secret = 0]
<1>1. use' = [use EXCEPT ![u] = y]
  BY DEF Coll!Querying
<1>2. x \in UseType /\ x.d \in Ds
  BY DEF UsesTyped, Uses
<1> HIDE DEF x
<1>3. y \in UseType
  BY <1>2 DEF UseType
<1>4. y.pc = "query" /\ y.pool = p /\ y.d = x.d
  BY <1>2 DEF UseType
<1> HIDE DEF y
<1>5. y \in Uses
  BY <1>2, <1>3, <1>4 DEF Uses
<1>6. QED BY <1>1, <1>4, <1>5

\* A call has built a pool.
LEMMA UseBuilds ==
  ASSUME UsesTyped, NEW u \in Coll!Users, use[u].pc # "none", NEW p \in Pools,
         use' = [use EXCEPT ![u].pc = "built", ![u].pool = p]
  PROVE  \E y \in Uses : use' = [use EXCEPT ![u] = y] /\ y.pool = p /\ y.pc = "built"
<1> DEFINE x == use[u]
           y == [x EXCEPT !.pc = "built", !.pool = p]
<1>1. use' = [use EXCEPT ![u] = y]
  OBVIOUS
<1>2. x \in UseType /\ x.d \in Ds
  BY DEF UsesTyped, Uses
<1> HIDE DEF x
<1>3. y \in UseType
  BY <1>2 DEF UseType
<1>4. y.pc = "built" /\ y.pool = p /\ y.d = x.d
  BY <1>2 DEF UseType
<1> HIDE DEF y
<1>5. y \in Uses
  BY <1>2, <1>3, <1>4 DEF Uses
<1>6. QED BY <1>1, <1>4, <1>5

\* Who runs on its own account: a loop that may not have been told to stop is in
\* the table, and one that is in a call of poolFor waits for it to return.
LoopInv ==
  /\ \A l \in Loops : loop[l].pc # "ended" /\ ~loop[l].cancelled => loops[loop[l].d] = l
  /\ \A l \in Loops : use[l].pc # "none" => loop[l].pc = "collect" /\ loop[l].mode = "direct"

\* Who answers for a pool: one table or the one call that built it.
PoolInv ==
  /\ \A p \in Pools : pool[p] # None => \/ \E d \in Ds : pools[d] = p
                                        \/ \E u \in Coll!Users : use[u].pc = "built" /\ use[u].pool = p
  /\ \A d \in Ds : pools[d] # None => pool[pools[d]] # None
  /\ \A d, e \in Ds : pools[d] # None /\ pools[d] = pools[e] => d = e
  /\ \A u \in Coll!Users : use[u].pc = "built" => /\ pool[use[u].pool] # None
                                                  /\ \A d \in Ds : pools[d] # use[u].pool
  /\ \A u, v \in Coll!Users : use[u].pc = "built" /\ use[v].pc = "built" /\ use[u].pool = use[v].pool => u = v

CollInv == LoopInv /\ PoolInv

\* The invariant is what the property says and more.
LEMMA AccountedFollows == CollInv => Coll!Accounted
BY DEF CollInv, LoopInv, PoolInv, Coll!Accounted, Coll!Users

\* One loop goes on or ends, and the others do as before.
LEMMA LoopStep ==
  ASSUME LoopsTyped, UsesTyped, LoopInv, UNCHANGED loops,
         NEW l \in Loops, NEW y \in Goroutines, loop' = [loop EXCEPT ![l] = y],
         y.pc # "ended" => loop[l].pc # "ended" /\ y.d = loop[l].d /\ y.cancelled = loop[l].cancelled,
         \A k \in Loops \ {l} : use'[k] = use[k],
         use'[l].pc # "none" => y.pc = "collect" /\ y.mode = "direct"
  PROVE  LoopInv' /\ LoopsTyped'
<1>1. LoopsTyped' /\ loop'[l] = y /\ \A k \in Loops \ {l} : loop'[k] = loop[k]
  BY DEF LoopsTyped
<1>2. \A k \in Loops : loop'[k].pc # "ended" /\ ~loop'[k].cancelled => loops'[loop'[k].d] = k
  BY <1>1 DEF LoopInv
<1>3. \A k \in Loops : use'[k].pc # "none" => loop'[k].pc = "collect" /\ loop'[k].mode = "direct"
  BY <1>1 DEF LoopInv
<1>4. QED BY <1>1, <1>2, <1>3 DEF LoopInv

\* No loop is touched, and none begins a call.
LEMMA LoopsRest ==
  ASSUME LoopInv, LoopsTyped, UNCHANGED <<loops, loop>>,
         \A l \in Loops : use'[l].pc # "none" => use[l].pc # "none"
  PROVE  LoopInv' /\ LoopsTyped'
BY DEF LoopInv, LoopsTyped

\* A loop goes back to its timer.
LEMMA BackToWait ==
  ASSUME LoopsTyped, Coll!CollectorAssumption, NEW l \in Loops, loop[l].pc # "ended",
         NEW ok \in BOOLEAN, Coll!Collected1(l, ok)
  PROVE  \E y \in Goroutines : /\ loop' = [loop EXCEPT ![l] = y] /\ y.pc = "wait"
                               /\ y.d = loop[l].d /\ y.cancelled = loop[l].cancelled
<1> DEFINE x == loop[l]
           b == IF ok THEN Backoff ELSE IF x.backoff < BackoffLimit THEN 2 * x.backoff ELSE x.backoff
           y == [x EXCEPT !.pc = "wait", !.backoff = b]
<1>1. x \in LoopType /\ x.d \in Ds /\ x.backoff \in Nat
  BY DEF LoopsTyped, Goroutines, LoopType
<1>2. b \in Nat
  BY <1>1 DEF Coll!CollectorAssumption
<1>3. loop' = [loop EXCEPT ![l] = y]
  BY DEF Coll!Collected1
<1> HIDE DEF x, b
<1>4. y \in LoopType
  BY <1>1, <1>2 DEF LoopType
<1>5. y.pc = "wait" /\ y.d = x.d /\ y.cancelled = x.cancelled
  BY <1>1 DEF LoopType
<1> HIDE DEF y
<1>6. y \in Goroutines
  BY <1>1, <1>4, <1>5 DEF Goroutines
<1>7. QED BY <1>3, <1>5, <1>6 DEF x


\* A call that returns leaves no trace of its own.
LEMMA DoneLoops ==
  ASSUME Coll!CollectorAssumption, LoopsTyped, UsesTyped, LoopInv, UNCHANGED loops,
         NEW u \in Coll!Users, use[u].pc # "none", NEW ok \in BOOLEAN, Coll!Done(u, ok)
  PROVE  /\ LoopInv' /\ LoopsTyped' /\ UsesTyped'
         /\ use'[u].pc = "none" /\ \A v \in Coll!Users \ {u} : use'[v] = use[v]
<1> DEFINE z == Coll!Unused
<1>1. z \in UseType /\ z.pc = "none"
  BY DEF Coll!Unused, UseType
<1>2. z \in Uses
  BY <1>1 DEF Uses
<1>3. use' = [use EXCEPT ![u] = z]
  BY DEF Coll!Done
<1> HIDE DEF z
<1>4. UsesTyped' /\ use'[u].pc = "none" /\ \A v \in Coll!Users \ {u} : use'[v] = use[v]
  BY <1>1, <1>2, <1>3 DEF UsesTyped
<1>5. \A k \in Loops : k \in Coll!Users
  BY DEF Coll!Users
<1>6. CASE u \in Loops
  <2>1. loop[u].pc = "collect" /\ Coll!Collected1(u, ok)
    BY <1>6 DEF LoopInv, Coll!Done
  <2>2. PICK y \in Goroutines : /\ loop' = [loop EXCEPT ![u] = y] /\ y.pc = "wait"
                                /\ y.d = loop[u].d /\ y.cancelled = loop[u].cancelled
    BY <1>6, <2>1, BackToWait
  <2>3. LoopInv' /\ LoopsTyped'
    BY <1>4, <1>5, <1>6, <2>1, <2>2, LoopStep
  <2>4. QED BY <1>4, <2>3
<1>7. CASE u \notin Loops
  <2>1. UNCHANGED loop
    BY <1>7 DEF Coll!Done
  <2>2. LoopInv' /\ LoopsTyped'
    BY <1>4, <1>5, <1>7, <2>1, LoopsRest
  <2>3. QED BY <1>4, <2>2
<1>8. QED BY <1>6, <1>7

\* Calls come and go that have built nothing.
LEMMA PoolsRest ==
  ASSUME PoolsTyped, PoolInv, UNCHANGED <<pools, pool>>,
         \A u \in Coll!Users : use'[u] = use[u] \/ (use'[u].pc # "built" /\ use[u].pc # "built")
  PROVE  PoolInv' /\ PoolsTyped'
BY DEF PoolInv, PoolsTyped

\* A free pool becomes that of the call which builds it.
LEMMA PoolBuilt ==
  ASSUME Coll!CollectorAssumption, PoolsTyped, PoolInv, UsesTyped, NEW u \in Coll!Users, NEW p \in Pools,
         pool[p] = None, \A v \in Coll!Users : use[v].pool # p, use[u].pc # "built",
         NEW n \in 0..MaxSecret, pool' = [pool EXCEPT ![p] = n], UNCHANGED pools,
         NEW y \in Uses, use' = [use EXCEPT ![u] = y], y.pc = "built", y.pool = p
  PROVE  PoolInv' /\ PoolsTyped'
<1>1. n # None /\ None \notin Pools /\ (n \in 0..MaxSecret \cup {None})
  BY DEF Coll!CollectorAssumption
<1>2. PoolsTyped'
  BY <1>1 DEF PoolsTyped
<1>3. pool'[p] # None /\ \A q \in Pools \ {p} : pool'[q] = pool[q]
  BY <1>1 DEF PoolsTyped
<1>4. use'[u] = y /\ \A v \in Coll!Users \ {u} : use'[v] = use[v]
  BY DEF UsesTyped
<1>5. \A d \in Ds : pools[d] # p /\ pools[d] \in Pools \cup {None}
  BY <1>1 DEF PoolInv, PoolsTyped
<1>6. \A q \in Pools : pool'[q] # None => \/ \E d \in Ds : pools'[d] = q
                                          \/ \E v \in Coll!Users : use'[v].pc = "built" /\ use'[v].pool = q
  BY <1>3, <1>4 DEF PoolInv
<1>7. \A d \in Ds : pools'[d] # None => pool'[pools'[d]] # None
  BY <1>3, <1>5 DEF PoolInv
<1>8. \A v \in Coll!Users : v # u /\ use[v].pc = "built" => use[v].pool \in Pools
  BY DEF UsesTyped, Uses
<1>9. \A v \in Coll!Users : use'[v].pc = "built" => /\ pool'[use'[v].pool] # None
                                                   /\ \A d \in Ds : pools'[d] # use'[v].pool
  BY <1>3, <1>4, <1>5, <1>8 DEF PoolInv
<1>10. \A v, w \in Coll!Users : use'[v].pc = "built" /\ use'[w].pc = "built" /\ use'[v].pool = use'[w].pool => v = w
  BY <1>4 DEF PoolInv
<1>11. QED BY <1>2, <1>6, <1>7, <1>9, <1>10 DEF PoolInv

\* A pool is registered, or closed since another one is: poolFor looks again.
LEMMA PoolRegistered ==
  ASSUME Coll!CollectorAssumption, PoolsTyped, PoolInv, UsesTyped, NEW u \in Coll!Users, use[u].pc = "built",
         NEW y \in Uses, use' = [use EXCEPT ![u] = y], y.pc = "query",
         NEW d \in Ds,
         \/ pools[d] = None /\ pools' = [pools EXCEPT ![d] = use[u].pool] /\ UNCHANGED pool
         \/ pools[d] # None /\ UNCHANGED pools /\ pool' = [pool EXCEPT ![use[u].pool] = None]
  PROVE  PoolInv' /\ PoolsTyped'
<1> DEFINE p == use[u].pool
<1>1. None \notin Pools /\ p \in Pools /\ pool[p] # None /\ \A e \in Ds : pools[e] # p
  BY DEF Coll!CollectorAssumption, UsesTyped, Uses, PoolInv
<1>2. use'[u].pc = "query" /\ \A v \in Coll!Users \ {u} : use'[v] = use[v]
  BY DEF UsesTyped
<1>3. \A v \in Coll!Users : v # u /\ use[v].pc = "built" => use[v].pool \in Pools /\ use[v].pool # p
  BY DEF UsesTyped, Uses, PoolInv
<1>4. \A e \in Ds : pools[e] \in Pools \cup {None}
  BY DEF PoolsTyped
<1>5. \A v, w \in Coll!Users : use'[v].pc = "built" /\ use'[w].pc = "built" /\ use'[v].pool = use'[w].pool => v = w
  BY <1>2 DEF PoolInv
<1>6. CASE pools[d] = None /\ pools' = [pools EXCEPT ![d] = p] /\ UNCHANGED pool
  <2>1. PoolsTyped'
    BY <1>1, <1>6 DEF PoolsTyped
  <2>2. pools'[d] = p /\ \A e \in Ds \ {d} : pools'[e] = pools[e]
    BY <1>6 DEF PoolsTyped
  <2>3. \A q \in Pools : pool'[q] # None => \/ \E e \in Ds : pools'[e] = q
                                            \/ \E v \in Coll!Users : use'[v].pc = "built" /\ use'[v].pool = q
    <3> SUFFICES ASSUME NEW q \in Pools, pool[q] # None
                 PROVE  \/ \E e \in Ds : pools'[e] = q
                        \/ \E v \in Coll!Users : use'[v].pc = "built" /\ use'[v].pool = q
      BY <1>6
    <3>1. CASE q = p
      BY <2>2, <3>1
    <3>2. CASE \E e \in Ds : pools[e] = q
      <4>1. PICK e \in Ds : pools[e] = q
        BY <3>2
      <4>2. e # d
        BY <4>1, <1>1, <1>6
      <4>3. QED BY <2>2, <4>1, <4>2
    <3>3. CASE q # p /\ \E v \in Coll!Users : use[v].pc = "built" /\ use[v].pool = q
      <4>1. PICK v \in Coll!Users : use[v].pc = "built" /\ use[v].pool = q
        BY <3>3
      <4>2. v # u
        BY <3>3, <4>1
      <4>3. QED BY <1>2, <4>1, <4>2
    <3>4. QED BY <3>1, <3>2, <3>3 DEF PoolInv
  <2>4. \A e \in Ds : pools'[e] # None => pool'[pools'[e]] # None
    BY <1>1, <1>6, <2>2 DEF PoolInv
  <2>5. \A e, f \in Ds : pools'[e] # None /\ pools'[e] = pools'[f] => e = f
    BY <1>1, <2>2 DEF PoolInv
  <2>6. \A v \in Coll!Users : use'[v].pc = "built" => /\ pool'[use'[v].pool] # None
                                                     /\ \A e \in Ds : pools'[e] # use'[v].pool
    BY <1>2, <1>3, <1>6, <2>2 DEF PoolInv
  <2>7. QED BY <1>5, <2>1, <2>3, <2>4, <2>5, <2>6 DEF PoolInv
<1>7. CASE UNCHANGED pools /\ pool' = [pool EXCEPT ![p] = None]
  <2>1. PoolsTyped'
    BY <1>1, <1>7 DEF PoolsTyped
  <2>2. pool'[p] = None /\ \A q \in Pools \ {p} : pool'[q] = pool[q]
    BY <1>1, <1>7 DEF PoolsTyped
  <2>3. \A q \in Pools : pool'[q] # None => \/ \E e \in Ds : pools'[e] = q
                                            \/ \E v \in Coll!Users : use'[v].pc = "built" /\ use'[v].pool = q
    BY <1>2, <1>7, <2>2 DEF PoolInv
  <2>4. \A e \in Ds : pools'[e] # None => pool'[pools'[e]] # None
    BY <1>1, <1>4, <1>7, <2>2 DEF PoolInv
  <2>5. \A e, f \in Ds : pools'[e] # None /\ pools'[e] = pools'[f] => e = f
    BY <1>7 DEF PoolInv
  <2>6. \A v \in Coll!Users : use'[v].pc = "built" => /\ pool'[use'[v].pool] # None
                                                     /\ \A e \in Ds : pools'[e] # use'[v].pool
    BY <1>2, <1>3, <1>7, <2>2 DEF PoolInv
  <2>7. QED BY <1>5, <2>1, <2>3, <2>4, <2>5, <2>6 DEF PoolInv
<1>8. QED BY <1>6, <1>7


\* Destroy closes the registered pool and empties its entry: no other entry and
\* no builder has it.
LEMMA PoolDestroyed ==
  ASSUME Coll!CollectorAssumption, PoolsTyped, PoolInv, UsesTyped, NEW d \in Ds,
         pools' = [pools EXCEPT ![d] = None],
         pool' = [p \in Pools |-> IF p = pools[d] THEN None ELSE pool[p]],
         \A u \in Coll!Users : use'[u] = use[u] \/ (use'[u].pc # "built" /\ use[u].pc # "built")
  PROVE  PoolInv' /\ PoolsTyped'
<1>1. None \notin Pools /\ \A e \in Ds : pools[e] \in Pools \cup {None}
  BY DEF Coll!CollectorAssumption, PoolsTyped
<1>2. PoolsTyped'
  BY DEF PoolsTyped
<1>3. pools'[d] = None /\ \A e \in Ds \ {d} : pools'[e] = pools[e]
  BY DEF PoolsTyped
<1>4. \A q \in Pools : pool'[q] # None => pool[q] # None /\ q # pools[d] /\ pool'[q] = pool[q]
  OBVIOUS
<1>5. \A q \in Pools : q # pools[d] => pool'[q] = pool[q]
  OBVIOUS
<1>6. \A u \in Coll!Users : use'[u].pc = "built" => use'[u] = use[u] /\ use[u].pool \in Pools /\ use[u].pool # pools[d]
  BY DEF UsesTyped, Uses, PoolInv
<1>7. \A q \in Pools : pool'[q] # None => \/ \E e \in Ds : pools'[e] = q
                                          \/ \E v \in Coll!Users : use'[v].pc = "built" /\ use'[v].pool = q
  <2> SUFFICES ASSUME NEW q \in Pools, pool'[q] # None
               PROVE  \/ \E e \in Ds : pools'[e] = q
                      \/ \E v \in Coll!Users : use'[v].pc = "built" /\ use'[v].pool = q
    OBVIOUS
  <2>1. CASE \E e \in Ds : pools[e] = q
    BY <1>3, <1>4, <2>1
  <2>2. CASE \E v \in Coll!Users : use[v].pc = "built" /\ use[v].pool = q
    <3>1. PICK v \in Coll!Users : use[v].pc = "built" /\ use[v].pool = q
      BY <2>2
    <3>2. use'[v] = use[v]
      BY <3>1
    <3>3. QED BY <3>1, <3>2
  <2>3. QED BY <1>4, <2>1, <2>2 DEF PoolInv
<1>8. \A e \in Ds : pools'[e] # None => pool'[pools'[e]] # None
  <2> SUFFICES ASSUME NEW e \in Ds, pools'[e] # None PROVE pool'[pools'[e]] # None
    OBVIOUS
  <2>1. e # d /\ pools'[e] = pools[e] /\ pools[e] \in Pools
    BY <1>1, <1>3
  <2>2. pools[e] # pools[d] /\ pool[pools[e]] # None
    BY <1>3, <2>1 DEF PoolInv
  <2>3. QED BY <1>5, <2>1, <2>2
<1>9. \A e, f \in Ds : pools'[e] # None /\ pools'[e] = pools'[f] => e = f
  BY <1>3 DEF PoolInv
<1>10. \A u \in Coll!Users : use'[u].pc = "built" => /\ pool'[use'[u].pool] # None
                                                    /\ \A e \in Ds : pools'[e] # use'[u].pool
  BY <1>1, <1>3, <1>5, <1>6 DEF PoolInv
<1>11. \A u, v \in Coll!Users : use'[u].pc = "built" /\ use'[v].pc = "built" /\ use'[u].pool = use'[v].pool => u = v
  BY <1>6 DEF PoolInv
<1>12. QED BY <1>2, <1>7, <1>8, <1>9, <1>10, <1>11 DEF PoolInv

\* The administrator changes rows and nothing else.
LEMMA RowsKeep ==
  ASSUME Coll!CollectorAssumption, CollTyped, CollInv, NEW d \in Ds,
         Coll!CreateDatasource(d) \/ Coll!RotateCredential(d) \/ Coll!DeleteDatasource(d)
  PROVE  (CollTyped /\ CollInv)'
<1>1. UNCHANGED <<pass, loops, loop, pools, pool, use>>
  BY DEF Coll!CreateDatasource, Coll!RotateCredential, Coll!DeleteDatasource
<1>2. home' \in [Ds -> {"absent", "direct", "gone"} \cup Conns]
  BY DEF Coll!CreateDatasource, Coll!RotateCredential, Coll!DeleteDatasource, CollTyped, RowsTyped
<1>3. secret' \in [Ds -> 0..MaxSecret]
  <2>1. CASE Coll!RotateCredential(d)
    <3> DEFINE n == secret[d] + 1
    <3>1. n \in 0..MaxSecret
      <4>1. secret[d] \in 0..MaxSecret /\ secret[d] < MaxSecret
        BY <2>1 DEF Coll!RotateCredential, CollTyped, RowsTyped
      <4>2. QED BY <4>1 DEF Coll!CollectorAssumption
    <3>2. secret' = [secret EXCEPT ![d] = n]
      BY <2>1 DEF Coll!RotateCredential
    <3> HIDE DEF n
    <3>3. QED BY <3>1, <3>2 DEF CollTyped, RowsTyped
  <2>2. CASE ~Coll!RotateCredential(d)
    BY <2>2 DEF Coll!CreateDatasource, Coll!DeleteDatasource, CollTyped, RowsTyped
  <2>3. QED BY <2>1, <2>2
<1>4. QED BY <1>1, <1>2, <1>3 DEF CollTyped, CollInv, RowsTyped, PassTyped, LoopsTyped, PoolsTyped, UsesTyped, LoopInv, PoolInv

\* What has been listed is a target or nothing.
LEMMA PassKeeps ==
  ASSUME Coll!CollectorAssumption, CollTyped, CollInv, Coll!BeginReconcile \/ Coll!ListPage \/ Coll!ListFails
  PROVE  (CollTyped /\ CollInv)'
<1>1. UNCHANGED <<home, secret, loops, loop, pools, pool, use>>
  BY DEF Coll!BeginReconcile, Coll!ListPage, Coll!ListFails, Coll!rows
<1>2. pass = [pc |-> pass.pc, next |-> pass.next, want |-> pass.want] /\ pass.want \in [Ds -> {"direct", None} \cup Conns]
  BY DEF CollTyped, PassTyped
<1>3. PassTyped'
  <2>1. CASE Coll!BeginReconcile
    BY <2>1 DEF Coll!BeginReconcile, PassTyped
  <2>2. CASE Coll!ListFails
    BY <1>2, <2>2 DEF Coll!ListFails, PassTyped
  <2>3. CASE Coll!ListPage
    <3>1. PICK P, n, w : /\ w = [d \in Ds |-> IF d \in P /\ Coll!Collected(d) THEN home[d] ELSE pass.want[d]]
                         /\ pass' = [pass EXCEPT !.pc = "apply", !.want = w] \/ pass' = [pass EXCEPT !.next = n, !.want = w]
      BY <2>3, Zenon DEF Coll!ListPage
    <3>2. w \in [Ds -> {"direct", None} \cup Conns]
      BY <1>2, <3>1 DEF Coll!Collected
    <3>3. QED BY <1>2, <3>1, <3>2 DEF PassTyped
  <2>4. QED BY <2>1, <2>2, <2>3
<1>4. QED BY <1>1, <1>3 DEF CollTyped, CollInv, RowsTyped, LoopsTyped, PoolsTyped, UsesTyped, LoopInv, PoolInv

\* reconcile starts a loop for what has none and stops what is not wanted: the
\* table names every loop that goes on.
LEMMA ReconcileKeeps ==
  ASSUME Coll!CollectorAssumption, CollTyped, CollInv, Coll!Reconcile
  PROVE  (CollTyped /\ CollInv)'
<1> DEFINE new == {d \in Ds : Coll!Startable(d)}
           old == {loops[d] : d \in {e \in Ds : Coll!Stoppable(e)}}
<1>1. PICK l \in [new -> {k \in Loops : loop[k].pc = "ended"}] :
        /\ \A d, e \in new : d # e => l[d] # l[e]
        /\ loops' = [d \in Ds |-> IF d \in new THEN l[d] ELSE IF Coll!Stoppable(d) THEN None ELSE loops[d]]
        /\ loop' = [k \in Loops |->
             IF \E d \in new : l[d] = k
               THEN [Coll!Ended EXCEPT !.pc = "wait", !.d = CHOOSE d \in new : l[d] = k,
                                       !.mode = pass.want[CHOOSE d \in new : l[d] = k]]
               ELSE [loop[k] EXCEPT !.cancelled = @ \/ k \in old]]
  BY DEF Coll!Reconcile
<1>2. UNCHANGED <<home, secret, pools, pool, use>>
  BY DEF Coll!Reconcile, Coll!rows
<1>3. PassTyped'
  <2>1. pass = [pc |-> pass.pc, next |-> pass.next, want |-> pass.want]
    BY DEF CollTyped, PassTyped
  <2>2. pass' = [pass EXCEPT !.pc = "wait", !.want = [d \in Ds |-> None], !.next = 1]
    BY DEF Coll!Reconcile
  <2>3. QED BY <2>1, <2>2 DEF PassTyped
<1>4. \A d \in new : l[d] \in Loops /\ loop[l[d]].pc = "ended" /\ d \in Ds
  BY <1>1
<1>5. \A k \in Loops : loop[k] \in LoopType /\ (loop[k].pc # "ended" => loop[k].d \in Ds)
  BY DEF CollTyped, LoopsTyped, Goroutines
<1>6. \A d \in Ds : loops[d] \in Loops \cup {None}
  BY DEF CollTyped, LoopsTyped
<1>7. loops' \in [Ds -> Loops \cup {None}]
  BY <1>1, <1>4, <1>6
<1>8. ASSUME NEW k \in Loops, NEW d \in new, l[d] = k
      PROVE  loop'[k] \in Goroutines /\ loop'[k].d = d
  <2> DEFINE e == CHOOSE f \in new : l[f] = k
  <2>1. e = d
    BY <1>1, <1>8
  <2>2. loop'[k] = [Coll!Ended EXCEPT !.pc = "wait", !.d = e, !.mode = pass.want[e]]
    BY <1>1, <1>8
  <2> HIDE DEF e
  <2> DEFINE m == pass.want[d]
  <2>3. m \in {"direct", None} \cup Conns
    BY <1>4 DEF CollTyped, PassTyped
  <2> HIDE DEF m
  <2>4. loop'[k] = [pc |-> "wait", d |-> d, mode |-> m, cancelled |-> FALSE, backoff |-> Backoff]
    BY <2>1, <2>2 DEF Coll!Ended, m
  <2>5. loop'[k] \in LoopType
    BY <2>3, <2>4 DEF LoopType, Coll!CollectorAssumption
  <2>6. QED BY <2>4, <2>5 DEF Goroutines
<1>9. ASSUME NEW k \in Loops, ~\E d \in new : l[d] = k
      PROVE  /\ loop'[k] \in Goroutines /\ loop'[k].pc = loop[k].pc /\ loop'[k].d = loop[k].d
             /\ loop'[k].mode = loop[k].mode /\ (~loop'[k].cancelled => ~loop[k].cancelled /\ k \notin old)
  <2> DEFINE x == loop[k]
             b == x.cancelled \/ k \in old
             y == [x EXCEPT !.cancelled = b]
  <2>1. loop'[k] = y
    BY <1>1, <1>9
  <2>2. x \in LoopType /\ (x.pc # "ended" => x.d \in Ds) /\ b \in BOOLEAN
    BY <1>5
  <2>3. ~b => ~x.cancelled /\ k \notin old
    OBVIOUS
  <2> HIDE DEF x, b
  <2>4. y \in LoopType
    BY <2>2 DEF LoopType
  <2>5. y.pc = x.pc /\ y.d = x.d /\ y.mode = x.mode /\ y.cancelled = b
    BY <2>2 DEF LoopType
  <2> HIDE DEF y
  <2>6. y \in Goroutines
    BY <2>2, <2>4, <2>5 DEF Goroutines
  <2>7. QED BY <2>1, <2>3, <2>5, <2>6 DEF x
<1>10. LoopsTyped'
  <2>1. \A k \in Loops : loop'[k] \in Goroutines
    BY <1>8, <1>9
  <2>2. loop' \in [Loops -> Goroutines]
    <3> DEFINE f == [k \in Loops |-> loop'[k]]
    <3>1. loop' = f
      BY <1>1
    <3>2. f \in [Loops -> Goroutines]
      BY <2>1
    <3>3. QED BY <3>1, <3>2
  <2>3. QED BY <1>7, <2>2 DEF LoopsTyped
<1>11. ASSUME NEW k \in Loops, loop'[k].pc # "ended", ~loop'[k].cancelled PROVE loops'[loop'[k].d] = k
  <2>1. CASE \E d \in new : l[d] = k
    <3>1. PICK d \in new : l[d] = k
      BY <2>1
    <3>2. loop'[k].d = d
      BY <1>8, <3>1
    <3>3. QED BY <1>1, <3>1, <3>2
  <2>2. CASE ~\E d \in new : l[d] = k
    <3> DEFINE d == loop[k].d
    <3>1. loop[k].pc # "ended" /\ ~loop[k].cancelled /\ k \notin old /\ loop'[k].d = d
      BY <1>9, <1>11, <2>2
    <3>2. d \in Ds /\ loops[d] = k
      BY <1>5, <3>1 DEF CollInv, LoopInv
    <3>3. k # None
      BY DEF Coll!CollectorAssumption
    <3>4. d \notin new /\ ~Coll!Stoppable(d)
      BY <3>1, <3>2, <3>3 DEF Coll!Startable
    <3>5. QED BY <1>1, <3>1, <3>2, <3>4
  <2>3. QED BY <2>1, <2>2
<1>12. ASSUME NEW k \in Loops, use'[k].pc # "none" PROVE loop'[k].pc = "collect" /\ loop'[k].mode = "direct"
  <2>1. loop[k].pc = "collect" /\ loop[k].mode = "direct"
    BY <1>2, <1>12 DEF CollInv, LoopInv
  <2>2. ~\E d \in new : l[d] = k
    BY <1>4, <2>1
  <2>3. QED BY <1>9, <2>1, <2>2
<1>13. LoopInv'
  BY <1>11, <1>12 DEF LoopInv
<1>14. QED BY <1>2, <1>3, <1>10, <1>13 DEF CollTyped, CollInv, RowsTyped, PoolsTyped, UsesTyped, PoolInv

\* Run ends: every loop that is alive has been told so.
LEMMA StopAllKeeps ==
  ASSUME Coll!CollectorAssumption, CollTyped, CollInv, Coll!StopAll
  PROVE  (CollTyped /\ CollInv)'
<1>1. /\ UNCHANGED <<home, secret, pools, pool, use>>
      /\ loops' = [d \in Ds |-> None] /\ pass' = [pass EXCEPT !.pc = "stopped"]
      /\ loop' = [l \in Loops |-> [loop[l] EXCEPT !.cancelled = loop[l].pc # "ended"]]
  BY DEF Coll!StopAll, Coll!rows
<1>2. PassTyped'
  BY <1>1 DEF CollTyped, PassTyped
<1>3. ASSUME NEW l \in Loops
      PROVE  /\ loop'[l] \in Goroutines /\ loop'[l].pc = loop[l].pc /\ loop'[l].mode = loop[l].mode
             /\ loop'[l].pc # "ended" => loop'[l].cancelled
  <2> DEFINE x == loop[l]
             b == x.pc # "ended"
             y == [x EXCEPT !.cancelled = b]
  <2>1. loop'[l] = y
    BY <1>1
  <2>2. x \in LoopType /\ (x.pc # "ended" => x.d \in Ds) /\ b \in BOOLEAN /\ (x.pc # "ended" => b)
    BY DEF CollTyped, LoopsTyped, Goroutines
  <2> HIDE DEF x, b
  <2>3. y \in LoopType
    BY <2>2 DEF LoopType
  <2>4. y.pc = x.pc /\ y.d = x.d /\ y.mode = x.mode /\ y.cancelled = b
    BY <2>2 DEF LoopType
  <2> HIDE DEF y
  <2>5. y \in Goroutines
    BY <2>2, <2>3, <2>4 DEF Goroutines
  <2>6. QED BY <2>1, <2>2, <2>4, <2>5 DEF x
<1>4. LoopsTyped'
  <2> DEFINE f == [l \in Loops |-> loop'[l]]
  <2>1. loop' = f
    BY <1>1
  <2>2. f \in [Loops -> Goroutines]
    BY <1>3
  <2>3. loop' \in [Loops -> Goroutines]
    BY <2>1, <2>2
  <2>4. QED BY <1>1, <2>3 DEF LoopsTyped
<1>5. LoopInv'
  BY <1>1, <1>3 DEF CollInv, LoopInv
<1>6. QED BY <1>1, <1>2, <1>4, <1>5 DEF CollTyped, CollInv, RowsTyped, PoolsTyped, UsesTyped, PoolInv

\* A loop ends, or its timer fires.
LEMMA TimerKeeps ==
  ASSUME Coll!CollectorAssumption, CollTyped, CollInv, NEW l \in Loops, Coll!LoopEnds(l) \/ Coll!LoopFires(l)
  PROVE  (CollTyped /\ CollInv)'
<1>1. UNCHANGED <<home, secret, pass, loops, pools, pool>> /\ loop[l].pc = "wait"
  BY DEF Coll!LoopEnds, Coll!LoopFires, Coll!rows
<1>2. LoopsTyped /\ UsesTyped /\ LoopInv /\ PoolsTyped /\ PoolInv /\ loop[l] \in LoopType /\ loop[l].d \in Ds
  BY <1>1 DEF CollTyped, CollInv, LoopsTyped, Goroutines
<1>3. use[l].pc = "none" /\ l \in Coll!Users
  BY <1>1, <1>2 DEF LoopInv, Coll!Users
<1>4. ASSUME Coll!LoopEnds(l) PROVE LoopInv' /\ LoopsTyped' /\ UNCHANGED use
  <2> DEFINE y == Coll!Ended
  <2>1. UNCHANGED use /\ loop' = [loop EXCEPT ![l] = y]
    BY <1>4 DEF Coll!LoopEnds
  <2>2. y \in LoopType /\ y.pc = "ended"
    BY DEF Coll!Ended, LoopType, Coll!CollectorAssumption
  <2> HIDE DEF y
  <2>3. y \in Goroutines
    BY <2>2 DEF Goroutines
  <2>4. LoopInv' /\ LoopsTyped'
    BY <1>1, <1>2, <1>3, <2>1, <2>2, <2>3, LoopStep
  <2>5. QED BY <2>1, <2>4
<1>5. ASSUME Coll!LoopFires(l)
      PROVE  /\ LoopInv' /\ LoopsTyped' /\ UsesTyped'
             /\ use'[l].pc # "built" /\ \A u \in Coll!Users \ {l} : use'[u] = use[u]
  <2> DEFINE x == loop[l]
             y == [x EXCEPT !.pc = "collect"]
             z == [Coll!Unused EXCEPT !.pc = "lookup", !.d = x.d]
  <2>1. loop' = [loop EXCEPT ![l] = y] /\ use' = IF x.mode = "direct" THEN [use EXCEPT ![l] = z] ELSE use
    BY <1>5 DEF Coll!LoopFires
  <2>2. z \in Uses /\ z.pc = "lookup"
    BY <1>2, NewUse
  <2> HIDE DEF z
  <2>3. UsesTyped' /\ use'[l].pc # "built" /\ \A u \in Coll!Users \ {l} : use'[u] = use[u]
    BY <1>2, <1>3, <2>1, <2>2 DEF UsesTyped
  <2>4. use'[l].pc # "none" => x.mode = "direct"
    BY <1>3, <2>1
  <2>5. x \in LoopType /\ x.d \in Ds /\ x.pc = "wait"
    BY <1>1, <1>2
  <2>6. \A k \in Loops \ {l} : use'[k] = use[k]
    BY <2>3 DEF Coll!Users
  <2> HIDE DEF x
  <2>7. y \in LoopType
    BY <2>5 DEF LoopType
  <2>8. y.pc = "collect" /\ y.d = x.d /\ y.mode = x.mode /\ y.cancelled = x.cancelled
    BY <2>5 DEF LoopType
  <2> HIDE DEF y
  <2>9. y \in Goroutines
    BY <2>5, <2>7, <2>8 DEF Goroutines
  <2>10. /\ y.pc # "ended" => loop[l].pc # "ended" /\ y.d = loop[l].d /\ y.cancelled = loop[l].cancelled
         /\ use'[l].pc # "none" => y.pc = "collect" /\ y.mode = "direct"
    BY <1>1, <2>4, <2>8 DEF x
  <2>11. LoopInv' /\ LoopsTyped'
    BY <1>1, <1>2, <2>1, <2>6, <2>9, <2>10, LoopStep
  <2>12. QED BY <2>3, <2>11
<1>6. /\ LoopInv' /\ LoopsTyped' /\ UsesTyped'
      /\ \A u \in Coll!Users : use'[u] = use[u] \/ (use'[u].pc # "built" /\ use[u].pc # "built")
  <2>1. CASE Coll!LoopEnds(l)
    BY <1>2, <1>4, <2>1 DEF UsesTyped
  <2>2. CASE Coll!LoopFires(l)
    BY <1>3, <1>5, <2>2
  <2>3. QED BY <2>1, <2>2
<1>7. PoolInv' /\ PoolsTyped'
  BY <1>1, <1>2, <1>6, PoolsRest
<1>8. QED BY <1>1, <1>6, <1>7 DEF CollTyped, CollInv, RowsTyped, PassTyped

\* A collection through the gateway returns.
LEMMA TriggerKeeps ==
  ASSUME Coll!CollectorAssumption, CollTyped, CollInv, NEW l \in Loops, Coll!TriggerCollect(l)
  PROVE  (CollTyped /\ CollInv)'
<1>1. UNCHANGED <<home, secret, pass, loops, pools, pool, use>> /\ loop[l].pc = "collect" /\ loop[l].mode # "direct"
  BY DEF Coll!TriggerCollect, Coll!rows
<1>2. PICK ok \in BOOLEAN : Coll!Collected1(l, ok)
  BY DEF Coll!TriggerCollect
<1>3. LoopsTyped /\ UsesTyped /\ LoopInv
  BY DEF CollTyped, CollInv
<1>4. PICK y \in Goroutines : /\ loop' = [loop EXCEPT ![l] = y] /\ y.pc = "wait"
                              /\ y.d = loop[l].d /\ y.cancelled = loop[l].cancelled
  BY <1>1, <1>2, <1>3, BackToWait
<1>5. use'[l].pc = "none" /\ \A k \in Loops \ {l} : use'[k] = use[k]
  BY <1>1, <1>3 DEF LoopInv
<1>6. LoopInv' /\ LoopsTyped'
  BY <1>1, <1>3, <1>4, <1>5, LoopStep
<1>7. QED BY <1>1, <1>6 DEF CollTyped, CollInv, RowsTyped, PassTyped, PoolsTyped, UsesTyped, PoolInv

\* A request begins, or a call looks at the table.
LEMMA LookupKeeps ==
  ASSUME Coll!CollectorAssumption, CollTyped, CollInv, NEW u \in Coll!Users,
         (u \in Testers /\ Coll!TestConnection(u)) \/ Coll!Lookup(u)
  PROVE  (CollTyped /\ CollInv)'
<1>1. UNCHANGED <<home, secret, pass, loops, loop, pools, pool>> /\ use[u].pc # "built"
  BY DEF Coll!TestConnection, Coll!Lookup, Coll!rows
<1>2. LoopsTyped /\ UsesTyped /\ LoopInv /\ PoolsTyped /\ PoolInv
  BY DEF CollTyped, CollInv
<1>3. \E y \in Uses : /\ use' = [use EXCEPT ![u] = y] /\ y.pc # "built"
                      /\ u \in Loops => use[u].pc # "none"
  <2>1. CASE u \in Testers /\ Coll!TestConnection(u)
    <3>1. PICK d \in Ds : use' = [use EXCEPT ![u] = [Coll!Unused EXCEPT !.pc = "lookup", !.d = d]]
      BY <2>1 DEF Coll!TestConnection
    <3> DEFINE y == [Coll!Unused EXCEPT !.pc = "lookup", !.d = d]
    <3>2. y \in Uses /\ y.pc = "lookup"
      BY NewUse
    <3>3. use' = [use EXCEPT ![u] = y]
      BY <3>1
    <3> HIDE DEF y
    <3>4. u \notin Loops
      BY <2>1 DEF Coll!CollectorAssumption
    <3>5. QED BY <3>2, <3>3, <3>4
  <2>2. CASE Coll!Lookup(u)
    <3>1. use[u].pc = "lookup" /\ use[u] \in UseType /\ use[u].d \in Ds
      BY <1>2, <2>2 DEF Coll!Lookup, UsesTyped, Uses
    <3>2. CASE pools[use[u].d] # None
      <4> DEFINE p == pools[use[u].d]
      <4>1. p \in Pools
        BY <1>2, <3>1, <3>2 DEF PoolsTyped
      <4>2. Coll!Querying(u, p)
        BY <2>2, <3>2 DEF Coll!Lookup
      <4> HIDE DEF p
      <4>3. PICK y \in Uses : use' = [use EXCEPT ![u] = y] /\ y.pc = "query"
        BY <1>2, <3>1, <4>1, <4>2, UseQueries
      <4>4. QED BY <3>1, <4>3
    <3>3. CASE pools[use[u].d] = None
      <4> DEFINE x == use[u]
                 y == [x EXCEPT !.pc = "read"]
      <4>1. use' = [use EXCEPT ![u] = y]
        BY <2>2, <3>3 DEF Coll!Lookup
      <4>2. x \in UseType /\ x.d \in Ds
        BY <3>1
      <4> HIDE DEF x
      <4>3. y \in UseType
        BY <4>2 DEF UseType
      <4>4. y.pc = "read" /\ y.d = x.d
        BY <4>2 DEF UseType
      <4> HIDE DEF y
      <4>5. y \in Uses
        BY <4>2, <4>3, <4>4 DEF Uses
      <4>6. QED BY <3>1, <4>1, <4>4, <4>5
    <3>4. QED BY <3>2, <3>3
  <2>3. QED BY <2>1, <2>2
<1>4. PICK y \in Uses : /\ use' = [use EXCEPT ![u] = y] /\ y.pc # "built"
                        /\ u \in Loops => use[u].pc # "none"
  BY <1>3
<1>5. UsesTyped' /\ use'[u] = y /\ \A v \in Coll!Users \ {u} : use'[v] = use[v]
  BY <1>2, <1>4 DEF UsesTyped
<1>6. \A l \in Loops : use'[l].pc # "none" => use[l].pc # "none"
  BY <1>4, <1>5 DEF Coll!Users
<1>7. LoopInv' /\ LoopsTyped'
  BY <1>1, <1>2, <1>6, LoopsRest
<1>8. PoolInv' /\ PoolsTyped'
  BY <1>1, <1>2, <1>4, <1>5, PoolsRest
<1>9. QED BY <1>1, <1>5, <1>7, <1>8 DEF CollTyped, CollInv, RowsTyped, PassTyped

\* A pool is built, and the table looked at once more.
LEMMA BuildKeeps ==
  ASSUME Coll!CollectorAssumption, CollTyped, CollInv, NEW u \in Coll!Users,
         Coll!BuildPool(u) \/ Coll!RegisterPool(u)
  PROVE  (CollTyped /\ CollInv)'
<1>1. UNCHANGED <<home, secret, pass, loops, loop>> /\ use[u].pc # "none"
  BY DEF Coll!BuildPool, Coll!RegisterPool, Coll!rows
<1>2. LoopsTyped /\ UsesTyped /\ LoopInv /\ PoolsTyped /\ PoolInv /\ use[u].d \in Ds
  BY <1>1 DEF CollTyped, CollInv, UsesTyped, Uses
<1>3. ASSUME NEW y \in Uses, use' = [use EXCEPT ![u] = y]
      PROVE  UsesTyped' /\ LoopInv' /\ LoopsTyped'
  <2>1. UsesTyped' /\ \A v \in Coll!Users \ {u} : use'[v] = use[v]
    BY <1>2, <1>3 DEF UsesTyped
  <2>2. \A l \in Loops : use'[l].pc # "none" => use[l].pc # "none"
    BY <1>1, <2>1 DEF Coll!Users
  <2>3. QED BY <1>1, <1>2, <2>1, <2>2, LoopsRest
<1>4. ASSUME Coll!BuildPool(u) PROVE UsesTyped' /\ LoopInv' /\ LoopsTyped' /\ PoolInv' /\ PoolsTyped'
  <2> DEFINE n == secret[use[u].d]
  <2>1. PICK p \in Pools : /\ pool[p] = None /\ \A v \in Coll!Users : use[v].pool # p
                           /\ pool' = [pool EXCEPT ![p] = n]
                           /\ use' = [use EXCEPT ![u].pc = "built", ![u].pool = p]
    BY <1>4 DEF Coll!BuildPool
  <2>2. UNCHANGED pools /\ use[u].pc # "built"
    BY <1>4 DEF Coll!BuildPool
  <2>3. n \in 0..MaxSecret
    BY <1>2 DEF CollTyped, RowsTyped
  <2> HIDE DEF n
  <2>4. PICK y \in Uses : use' = [use EXCEPT ![u] = y] /\ y.pool = p /\ y.pc = "built"
    BY <1>1, <1>2, <2>1, UseBuilds
  <2>5. PoolInv' /\ PoolsTyped'
    BY <1>2, <2>1, <2>2, <2>3, <2>4, PoolBuilt
  <2>6. QED BY <1>3, <2>4, <2>5
<1>5. ASSUME Coll!RegisterPool(u) PROVE UsesTyped' /\ LoopInv' /\ LoopsTyped' /\ PoolInv' /\ PoolsTyped'
  <2> DEFINE d == use[u].d
             p == use[u].pool
             q == IF pools[d] = None THEN p ELSE pools[d]
  <2>1. use[u].pc = "built" /\ p \in Pools
    BY <1>2, <1>5 DEF Coll!RegisterPool, UsesTyped, Uses
  <2>2. \/ pools[d] = None /\ pools' = [pools EXCEPT ![d] = p] /\ UNCHANGED pool
        \/ pools[d] # None /\ UNCHANGED pools /\ pool' = [pool EXCEPT ![p] = None]
    BY <1>5 DEF Coll!RegisterPool
  <2>3. Coll!Querying(u, q)
    BY <1>5 DEF Coll!RegisterPool
  <2>4. q \in Pools
    BY <1>2, <2>1 DEF PoolsTyped
  <2> HIDE DEF q
  <2>5. PICK y \in Uses : use' = [use EXCEPT ![u] = y] /\ y.pool = q /\ y.pc = "query"
    BY <1>1, <1>2, <2>3, <2>4, UseQueries
  <2>6. d \in Ds
    BY <1>2
  <2> HIDE DEF d
  <2>7. PoolInv' /\ PoolsTyped'
    BY <1>2, <2>1, <2>2, <2>5, <2>6, PoolRegistered
  <2>8. QED BY <1>3, <2>5, <2>7
<1>6. QED BY <1>1, <1>4, <1>5 DEF CollTyped, CollInv, RowsTyped, PassTyped

\* A call is over, with an answer, an error, or a pool it has closed.
LEMMA DoneKeeps ==
  ASSUME Coll!CollectorAssumption, CollTyped, CollInv, NEW u \in Coll!Users,
         Coll!BuildFails(u) \/ Coll!Query(u) \/ Coll!QueryFails(u) \/ Coll!DestroyPool(u)
  PROVE  (CollTyped /\ CollInv)'
<1>1. UNCHANGED <<home, secret, pass, loops>> /\ use[u].pc # "none" /\ use[u].pc # "built"
  BY DEF Coll!BuildFails, Coll!Query, Coll!QueryFails, Coll!DestroyPool, Coll!rows
<1>2. LoopsTyped /\ UsesTyped /\ LoopInv /\ PoolsTyped /\ PoolInv /\ use[u].d \in Ds
  BY <1>1 DEF CollTyped, CollInv, UsesTyped, Uses
<1>3. PICK ok \in BOOLEAN : Coll!Done(u, ok)
  BY DEF Coll!BuildFails, Coll!Query, Coll!QueryFails, Coll!DestroyPool
<1>4. /\ LoopInv' /\ LoopsTyped' /\ UsesTyped'
      /\ use'[u].pc = "none" /\ \A v \in Coll!Users \ {u} : use'[v] = use[v]
  BY <1>1, <1>2, <1>3, DoneLoops
<1>5. \A v \in Coll!Users : use'[v] = use[v] \/ (use'[v].pc # "built" /\ use[v].pc # "built")
  BY <1>1, <1>4
<1>6. PoolInv' /\ PoolsTyped'
  <2>1. CASE Coll!DestroyPool(u)
    <3> DEFINE d == use[u].d
    <3>1. pools' = [pools EXCEPT ![d] = None] /\ pool' = [p \in Pools |-> IF p = pools[d] THEN None ELSE pool[p]]
      BY <2>1 DEF Coll!DestroyPool
    <3>2. d \in Ds
      BY <1>2
    <3> HIDE DEF d
    <3>3. QED BY <1>2, <1>5, <3>1, <3>2, PoolDestroyed
  <2>2. CASE ~Coll!DestroyPool(u)
    <3>1. UNCHANGED <<pools, pool>>
      BY <2>2 DEF Coll!BuildFails, Coll!Query, Coll!QueryFails
    <3>2. QED BY <1>2, <1>5, <3>1, PoolsRest
  <2>3. QED BY <2>1, <2>2
<1>7. QED BY <1>1, <1>4, <1>6 DEF CollTyped, CollInv, RowsTyped, PassTyped

\* Nothing runs and nothing is open.
LEMMA InitColl == Coll!CollectorAssumption /\ Coll!Init => CollTyped /\ CollInv
<1> SUFFICES ASSUME Coll!CollectorAssumption, Coll!Init PROVE CollTyped /\ CollInv
  OBVIOUS
<1>1. Coll!Ended \in LoopType /\ Coll!Ended.pc = "ended" /\ Coll!Unused \in UseType /\ Coll!Unused.pc = "none"
  BY DEF Coll!Ended, LoopType, Coll!Unused, UseType, Coll!CollectorAssumption
<1>2. Coll!Ended \in Goroutines /\ Coll!Unused \in Uses
  BY <1>1 DEF Goroutines, Uses
<1>3. /\ home = [d \in Ds |-> "absent"] /\ secret = [d \in Ds |-> 0]
      /\ pass = [pc |-> "wait", next |-> 1, want |-> [d \in Ds |-> None]]
      /\ loops = [d \in Ds |-> None] /\ loop = [l \in Loops |-> Coll!Ended]
      /\ pools = [d \in Ds |-> None] /\ pool = [p \in Pools |-> None]
      /\ use = [u \in Coll!Users |-> Coll!Unused]
  BY DEF Coll!Init
<1>4. RowsTyped
  BY <1>3 DEF RowsTyped, Coll!CollectorAssumption
<1>5. PassTyped
  BY <1>3 DEF PassTyped
<1>6. LoopsTyped /\ PoolsTyped /\ UsesTyped
  BY <1>2, <1>3 DEF LoopsTyped, PoolsTyped, UsesTyped
<1>7. LoopInv /\ PoolInv
  BY <1>1, <1>3 DEF LoopInv, PoolInv, Coll!Users
<1>8. QED BY <1>4, <1>5, <1>6, <1>7 DEF CollTyped, CollInv

\* Every step keeps the invariant.
LEMMA NextColl ==
  Coll!CollectorAssumption /\ CollTyped /\ CollInv /\ [Coll!Next]_(Coll!collVars) => (CollTyped /\ CollInv)'
<1> SUFFICES ASSUME Coll!CollectorAssumption, CollTyped, CollInv, [Coll!Next]_(Coll!collVars)
             PROVE  (CollTyped /\ CollInv)'
  OBVIOUS
<1>1. CASE UNCHANGED Coll!collVars
  BY <1>1 DEF Coll!collVars, CollTyped, CollInv, RowsTyped, PassTyped, LoopsTyped, PoolsTyped, UsesTyped, LoopInv, PoolInv
<1>2. ASSUME NEW d \in Ds,
             Coll!CreateDatasource(d) \/ Coll!RotateCredential(d) \/ Coll!DeleteDatasource(d)
      PROVE  (CollTyped /\ CollInv)'
  BY <1>2, RowsKeep
<1>3. ASSUME NEW l \in Loops, Coll!LoopEnds(l) \/ Coll!LoopFires(l) \/ Coll!TriggerCollect(l)
      PROVE  (CollTyped /\ CollInv)'
  BY <1>3, TimerKeeps, TriggerKeeps
<1>4. ASSUME NEW t \in Testers, Coll!TestConnection(t) \/ Coll!DestroyPool(t)
      PROVE  (CollTyped /\ CollInv)'
  <2>1. t \in Coll!Users
    BY DEF Coll!Users
  <2>2. QED BY <1>4, <2>1, LookupKeeps, DoneKeeps
<1>5. ASSUME NEW u \in Coll!Users,
             \/ Coll!Lookup(u) \/ Coll!BuildPool(u) \/ Coll!BuildFails(u)
             \/ Coll!RegisterPool(u) \/ Coll!Query(u) \/ Coll!QueryFails(u)
      PROVE  (CollTyped /\ CollInv)'
  BY <1>5, LookupKeeps, BuildKeeps, DoneKeeps
<1>6. QED BY <1>1, <1>2, <1>3, <1>4, <1>5, PassKeeps, ReconcileKeeps, StopAllKeeps DEF Coll!Next

\* Accounted: whoever starts, stops or moves what, and however poolFor, a
\* reconciliation and Destroy interleave, no loop and no pool is left that
\* nobody can stop or close, and no table holds a closed pool.
THEOREM AccountedCorrect == ASSUME Coll!CollectorAssumption PROVE Coll!Spec => []Coll!Accounted
<1>1. Coll!Spec => [](CollTyped /\ CollInv)
  BY InitColl, NextColl, PTL DEF Coll!Spec
<1>2. QED BY <1>1, AccountedFollows, PTL

-----------------------------------------------------------------------------
(* The reconciliation and the backoffs.                                     *)

\* How far a listing has come, and how long a failed loop waits.
CollBounds ==
  /\ pass.pc \in {"wait", "list", "apply", "stopped"} /\ pass.next \in Nat
  /\ \A l \in Loops : loop[l].backoff < 2 * BackoffLimit

\* The cursor after a full page is that of its last row.
LEMMA CursorTyped ==
  ASSUME Coll!CollectorAssumption, NEW page \in SUBSET Ds, ~(Coll!Cardinality(page) < PageSize)
  PROVE  1 + (CHOOSE d \in page : \A e \in page : e <= d) \in Nat
<1>1. Coll!Cardinality({}) = 0
  BY FS_EmptySet DEF Coll!Cardinality, Cardinality, Coll!IsFiniteSet, IsFiniteSet
<1>0. Ds \subseteq Nat /\ PageSize \in Nat \ {0} /\ (Ds # {} => \E m \in Ds : \A d \in Ds : d <= m)
  BY DEF Coll!CollectorAssumption
<1>2. page # {} /\ page \in SUBSET Nat
  <2>1. CASE page = {}
    BY <1>1, <1>0, <2>1
  <2>2. QED BY <1>0, <2>1
<1>3. PICK n \in Nat : \A d \in Ds : d <= n
  BY <1>2, <1>0
<1> DEFINE U == {x \in Nat : \A y \in page : y <= x}
<1>4. U \in SUBSET Nat /\ n \in U
  BY <1>2, <1>3
<1>5. PICK x \in U : \A y \in U : x <= y
  BY <1>4, LeastNumber
<1>6. x \in page
  <2>1. SUFFICES ASSUME x \notin page PROVE FALSE
    OBVIOUS
  <2>2. x \in Nat /\ \A y \in page : y \in Nat /\ y <= x /\ y # x
    BY <1>2, <1>5, <2>1
  <2>3. PICK y \in page : TRUE
    BY <1>2
  <2>4. x # 0 /\ x - 1 \in Nat /\ \A z \in page : z <= x - 1
    BY <2>2, <2>3
  <2>5. x - 1 \in U
    BY <2>4
  <2>6. QED BY <1>5, <2>2, <2>4, <2>5
<1>7. \E d \in page : \A e \in page : e <= d
  BY <1>5, <1>6
<1>8. (CHOOSE d \in page : \A e \in page : e <= d) \in page
  BY <1>7
<1> DEFINE c == CHOOSE d \in page : \A e \in page : e <= d
<1> HIDE DEF c
<1>9. c \in Nat
  BY <1>2, <1>8 DEF c
<1>10. 1 + c \in Nat
  BY <1>9
<1>11. QED BY <1>10 DEF c

LEMMA PassBounded ==
  ASSUME Coll!CollectorAssumption, CollTyped, CollBounds, Coll!Next
  PROVE  pass'.pc \in {"wait", "list", "apply", "stopped"} /\ pass'.next \in Nat
<1>1. pass = [pc |-> pass.pc, next |-> pass.next, want |-> pass.want]
  BY DEF CollTyped, PassTyped
<1>2. CASE Coll!BeginReconcile
  BY <1>2 DEF Coll!BeginReconcile
<1>3. CASE Coll!ListPage
  <2> DEFINE rest == {d \in Ds : d >= pass.next /\ home[d] \notin {"absent", "gone"}}
             page == {d \in rest : Coll!Cardinality({e \in rest : e < d}) < PageSize}
  <2>1. page \in SUBSET Ds
    OBVIOUS
  <2>2. PICK want : pass' = IF Coll!Cardinality(page) < PageSize THEN [pass EXCEPT !.pc = "apply", !.want = want]
                            ELSE [pass EXCEPT !.next = 1 + CHOOSE d \in page : \A e \in page : e <= d, !.want = want]
    BY <1>3, Zenon DEF Coll!ListPage
  <2> HIDE DEF page
  <2>3. CASE Coll!Cardinality(page) < PageSize
    <3>1. pass' = [pass EXCEPT !.pc = "apply", !.want = want]
      BY <2>2, <2>3
    <3>2. QED BY <1>1, <3>1 DEF CollBounds
  <2>4. CASE ~(Coll!Cardinality(page) < PageSize)
    <3> DEFINE n == 1 + CHOOSE d \in page : \A e \in page : e <= d
    <3>1. pass' = [pass EXCEPT !.next = n, !.want = want]
      BY <2>2, <2>4
    <3>2. n \in Nat
      BY <2>1, <2>4, CursorTyped
    <3> HIDE DEF n
    <3>3. QED BY <1>1, <3>1, <3>2 DEF CollBounds
  <2>5. QED BY <2>3, <2>4
<1>4. CASE Coll!ListFails
  BY <1>1, <1>4 DEF Coll!ListFails, CollBounds
<1>5. CASE Coll!Reconcile
  <2>1. pass' = [pass EXCEPT !.pc = "wait", !.want = [d \in Ds |-> None], !.next = 1]
    BY <1>5, Zenon DEF Coll!Reconcile
  <2>2. QED BY <1>1, <2>1
<1>6. CASE Coll!StopAll
  BY <1>1, <1>6 DEF Coll!StopAll, CollBounds
<1>7. CASE pass' = pass
  BY <1>7 DEF CollBounds
<1>8. QED
  BY <1>2, <1>3, <1>4, <1>5, <1>6, <1>7
     DEF Coll!Next, Coll!CreateDatasource, Coll!RotateCredential, Coll!DeleteDatasource,
         Coll!LoopEnds, Coll!LoopFires, Coll!TriggerCollect, Coll!TestConnection, Coll!DestroyPool, Coll!Lookup,
         Coll!BuildPool, Coll!BuildFails, Coll!RegisterPool, Coll!Query, Coll!QueryFails

\* A loop waits as long as before, the shortest time, or twice as long.
LEMMA BackoffBounded ==
  ASSUME Coll!CollectorAssumption, CollTyped, CollBounds, Coll!Next
  PROVE  \A l \in Loops : loop'[l].backoff < 2 * BackoffLimit
<1>1. loop \in [Loops -> LoopType] /\ Backoff \in Nat /\ BackoffLimit \in Nat /\ Backoff < 2 * BackoffLimit
  BY DEF CollTyped, LoopsTyped, Goroutines, Coll!CollectorAssumption
<1>2. \A l \in Loops : loop[l].backoff \in Nat /\ loop[l].backoff < 2 * BackoffLimit
  BY <1>1 DEF LoopType, CollBounds
<1>3. Coll!Ended.backoff = Backoff
  BY DEF Coll!Ended
<1>4. ASSUME NEW l \in Loops, NEW ok \in BOOLEAN, Coll!Collected1(l, ok)
      PROVE  \A k \in Loops : loop'[k].backoff < 2 * BackoffLimit
  <2> DEFINE b == IF ok THEN Backoff ELSE IF loop[l].backoff < BackoffLimit THEN 2 * loop[l].backoff ELSE loop[l].backoff
  <2>1. b < 2 * BackoffLimit
    BY <1>1, <1>2
  <2>2. loop' = [loop EXCEPT ![l].pc = "wait", ![l].backoff = b]
    BY <1>1, <1>4 DEF Coll!Collected1, LoopType
  <2> HIDE DEF b
  <2>3. loop'[l].backoff = b /\ \A k \in Loops : k # l => loop'[k] = loop[k]
    BY <1>1, <2>2 DEF LoopType
  <2>4. QED BY <1>2, <2>1, <2>3
<1>5. ASSUME NEW l \in Loops, Coll!LoopEnds(l) PROVE \A k \in Loops : loop'[k].backoff < 2 * BackoffLimit
  <2>1. loop' = [loop EXCEPT ![l] = Coll!Ended]
    BY <1>5 DEF Coll!LoopEnds
  <2>2. QED BY <1>1, <1>2, <1>3, <2>1
<1>6. ASSUME NEW l \in Loops, Coll!LoopFires(l) PROVE \A k \in Loops : loop'[k].backoff < 2 * BackoffLimit
  <2>1. loop' = [loop EXCEPT ![l].pc = "collect"]
    BY <1>6 DEF Coll!LoopFires
  <2>2. \A k \in Loops : loop'[k].backoff = loop[k].backoff
    BY <1>1, <2>1 DEF LoopType
  <2>3. QED BY <1>2, <2>2
<1>7. CASE Coll!Reconcile
  <2> DEFINE new == {d \in Ds : Coll!Startable(d)}
             old == {loops[d] : d \in {e \in Ds : Coll!Stoppable(e)}}
  <2>1. PICK c \in [new -> {k \in Loops : loop[k].pc = "ended"}] : loop' = [k \in Loops |->
               IF \E d \in new : c[d] = k
                 THEN [Coll!Ended EXCEPT !.pc = "wait", !.d = CHOOSE d \in new : c[d] = k,
                                         !.mode = pass.want[CHOOSE d \in new : c[d] = k]]
                 ELSE [loop[k] EXCEPT !.cancelled = @ \/ k \in old]]
    BY <1>7 DEF Coll!Reconcile
  <2> HIDE DEF new, old
  <2>2. ASSUME NEW k \in Loops PROVE loop'[k].backoff \in {Backoff, loop[k].backoff}
    <3>1. CASE \E d \in new : c[d] = k
      <4> DEFINE d == CHOOSE d \in new : c[d] = k
      <4>1. loop'[k] = [Coll!Ended EXCEPT !.pc = "wait", !.d = d, !.mode = pass.want[d]]
        BY <2>1, <3>1
      <4> HIDE DEF d
      <4>2. QED BY <4>1 DEF Coll!Ended
    <3>2. CASE ~\E d \in new : c[d] = k
      <4>1. loop'[k] = [loop[k] EXCEPT !.cancelled = @ \/ k \in old]
        BY <2>1, <3>2
      <4>2. QED BY <1>1, <4>1 DEF LoopType
    <3>3. QED BY <3>1, <3>2
  <2>3. QED BY <1>1, <1>2, <2>2
<1>8. CASE Coll!StopAll
  <2>1. loop' = [l \in Loops |-> [loop[l] EXCEPT !.cancelled = loop[l].pc # "ended"]]
    BY <1>8 DEF Coll!StopAll
  <2>2. \A k \in Loops : loop'[k].backoff = loop[k].backoff
    BY <1>1, <2>1 DEF LoopType
  <2>3. QED BY <1>2, <2>2
<1>9. CASE loop' = loop
  BY <1>2, <1>9
<1>10. ASSUME NEW u \in Coll!Users, NEW ok \in BOOLEAN, Coll!Done(u, ok)
       PROVE  \A k \in Loops : loop'[k].backoff < 2 * BackoffLimit
  <2>1. CASE u \in Loops
    BY <1>4, <1>10, <2>1 DEF Coll!Done
  <2>2. CASE u \notin Loops
    BY <1>9, <1>10, <2>2 DEF Coll!Done
  <2>3. QED BY <2>1, <2>2
<1>11. ASSUME NEW d \in Ds,
              Coll!CreateDatasource(d) \/ Coll!RotateCredential(d) \/ Coll!DeleteDatasource(d)
       PROVE  loop' = loop
  BY <1>11 DEF Coll!CreateDatasource, Coll!RotateCredential, Coll!DeleteDatasource
<1>12. ASSUME NEW l \in Loops, Coll!TriggerCollect(l) PROVE \A k \in Loops : loop'[k].backoff < 2 * BackoffLimit
  BY <1>4, <1>12 DEF Coll!TriggerCollect
<1>13. ASSUME NEW t \in Testers, Coll!TestConnection(t) \/ Coll!DestroyPool(t)
       PROVE  \A k \in Loops : loop'[k].backoff < 2 * BackoffLimit
  <2>1. t \in Coll!Users
    BY DEF Coll!Users
  <2>2. CASE Coll!TestConnection(t)
    BY <1>9, <2>2 DEF Coll!TestConnection
  <2>3. CASE Coll!DestroyPool(t)
    BY <1>10, <2>1, <2>3 DEF Coll!DestroyPool
  <2>4. QED BY <1>13, <2>2, <2>3
<1>14. ASSUME NEW u \in Coll!Users, Coll!Lookup(u) \/ Coll!BuildPool(u) \/ Coll!RegisterPool(u)
       PROVE  loop' = loop
  BY <1>14 DEF Coll!Lookup, Coll!BuildPool, Coll!RegisterPool
<1>15. ASSUME NEW u \in Coll!Users, Coll!BuildFails(u) \/ Coll!Query(u) \/ Coll!QueryFails(u)
       PROVE  \A k \in Loops : loop'[k].backoff < 2 * BackoffLimit
  BY <1>10, <1>15 DEF Coll!BuildFails, Coll!Query, Coll!QueryFails
<1>16. CASE Coll!BeginReconcile \/ Coll!ListPage \/ Coll!ListFails
  BY <1>9, <1>16 DEF Coll!BeginReconcile, Coll!ListPage, Coll!ListFails
<1>17. QED
  BY <1>5, <1>6, <1>7, <1>8, <1>9, <1>11, <1>12, <1>13, <1>14, <1>15, <1>16 DEF Coll!Next

LEMMA InitCollBounds == Coll!CollectorAssumption /\ Coll!Init => CollBounds
BY DEF Coll!CollectorAssumption, Coll!Init, Coll!Ended, CollBounds

LEMMA NextCollBounds ==
  Coll!CollectorAssumption /\ CollTyped /\ CollBounds /\ [Coll!Next]_(Coll!collVars) => CollBounds'
<1> SUFFICES ASSUME Coll!CollectorAssumption, CollTyped, CollBounds, [Coll!Next]_(Coll!collVars) PROVE CollBounds'
  OBVIOUS
<1>1. CASE Coll!Next
  BY <1>1, PassBounded, BackoffBounded DEF CollBounds
<1>2. CASE UNCHANGED Coll!collVars
  BY <1>2 DEF Coll!collVars, CollBounds
<1>3. QED BY <1>1, <1>2

\* The types of the collector.
LEMMA CollTypes == CollTyped /\ CollBounds => Coll!TypeOK
<1> SUFFICES ASSUME CollTyped, CollBounds PROVE Coll!TypeOK
  OBVIOUS
<1>1. \A l \in Loops : loop[l].pc \in {"ended", "wait", "collect"}
  BY DEF CollTyped, LoopsTyped, Goroutines, LoopType
<1>2. \A u \in Coll!Users : use[u].pc \in {"none", "lookup", "read", "built", "query"} /\ use[u].pool \in Pools \cup {None}
  BY DEF CollTyped, UsesTyped, Uses, UseType
<1>3. QED BY <1>1, <1>2 DEF Coll!TypeOK, CollTyped, CollBounds, RowsTyped, LoopsTyped, PoolsTyped

\* TypeOK of the collector: rows, loops and pools have their types; no backoff exceeds
\* twice the limit.
THEOREM CollectorTypesCorrect == ASSUME Coll!CollectorAssumption PROVE Coll!Spec => []Coll!TypeOK
<1>1. Coll!Spec => [](CollTyped /\ CollInv /\ CollBounds)
  <2>1. Coll!Init => CollTyped /\ CollInv /\ CollBounds
    BY InitColl, InitCollBounds
  <2>2. CollTyped /\ CollInv /\ CollBounds /\ [Coll!Next]_(Coll!collVars) => (CollTyped /\ CollInv /\ CollBounds)'
    BY NextColl, NextCollBounds
  <2>3. QED BY <2>1, <2>2, PTL DEF Coll!Spec
<1>2. QED BY <1>1, CollTypes, PTL

-----------------------------------------------------------------------------
(* Threads that are deleted.                                                *)

\* A row has its columns, and every thread a row and a log.
IsRow(r) == r \in [status : {r.status}, parent : {r.parent}, title : {r.title}, meta : {r.meta}, at : {r.at}]

StoreShaped ==
  /\ row = [t \in Threads |-> row[t]] /\ log = [t \in Threads |-> log[t]]
  /\ \A t \in Threads : IsRow(row[t])

\* What a step may do to a row: nothing to a deleted one but to its time.
Writes(t, r) == /\ IsRow(r)
                /\ row[t].status = "deleted" => r.status = "deleted" /\ r.meta = row[t].meta /\ r.title = row[t].title

\* A step that writes its rows that way does all that is claimed.
LEMMA WritesKeep ==
  ASSUME StoreShaped, row' = [t \in Threads |-> row'[t]], log' = [t \in Threads |-> log'[t]],
         \A t \in Threads : Writes(t, row'[t]) /\ (row[t].status = "deleted" => log'[t] = log[t])
  PROVE  StoreShaped' /\ Store!StaysDeleted
<1>1. StoreShaped'
  BY DEF StoreShaped, Writes
<1>2. Store!StaysDeleted
  BY DEF Store!StaysDeleted, Writes
<1>3. QED BY <1>1, <1>2

\* A row of its own is created, appended to or renamed while it is not deleted.
LEMMA OneRow ==
  ASSUME StoreShaped, NEW t \in Threads,
         Store!CreateThread(t) \/ Store!AppendItems(t) \/ Store!SetThreadAttributes(t)
  PROVE  StoreShaped' /\ Store!StaysDeleted
<1>1. row[t].status # "deleted" /\ IsRow(row[t])
  BY DEF Store!CreateThread, Store!AppendItems, Store!SetThreadAttributes, Store!Visible, StoreShaped
<1>2. \E r : IsRow(r) /\ row' = [row EXCEPT ![t] = r]
  <2>1. CASE Store!CreateThread(t)
    <3>1. PICK p : row' = [row EXCEPT ![t] = [Store!NoRow EXCEPT !.status = "live", !.parent = p, !.at = clock]]
      BY <2>1 DEF Store!CreateThread
    <3>2. IsRow(Store!NoRow)
      BY DEF Store!NoRow, IsRow
    <3> DEFINE x == Store!NoRow
               y == [x EXCEPT !.status = "live", !.parent = p, !.at = clock]
    <3>3. row' = [row EXCEPT ![t] = y]
      BY <3>1
    <3> HIDE DEF x
    <3>4. IsRow(y)
      <4>1. IsRow(x)
        BY <3>2 DEF x
      <4>2. QED BY <4>1 DEF IsRow
    <3>5. QED BY <3>3, <3>4
  <2>2. CASE Store!AppendItems(t)
    <3> DEFINE x == row[t]
               y == [x EXCEPT !.at = clock]
    <3>1. row' = [row EXCEPT ![t] = y]
      BY <2>2 DEF Store!AppendItems
    <3> HIDE DEF x
    <3>2. IsRow(y)
      <4>1. IsRow(x)
        BY <1>1 DEF x
      <4>2. QED BY <4>1 DEF IsRow
    <3>3. QED BY <3>1, <3>2
  <2>3. CASE Store!SetThreadAttributes(t)
    <3> DEFINE x == row[t]
               y == [x EXCEPT !.title = 1, !.at = clock]
    <3>1. row' = [row EXCEPT ![t] = y]
      BY <2>3 DEF Store!SetThreadAttributes
    <3> HIDE DEF x
    <3>2. IsRow(y)
      <4>1. IsRow(x)
        BY <1>1 DEF x
      <4>2. QED BY <4>1 DEF IsRow
    <3>3. QED BY <3>1, <3>2
  <2>4. QED BY <2>1, <2>2, <2>3
<1>3. PICK r : IsRow(r) /\ row' = [row EXCEPT ![t] = r]
  BY <1>2
<1>4. row' = [s \in Threads |-> row'[s]] /\ row'[t] = r /\ \A s \in Threads \ {t} : row'[s] = row[s]
  BY <1>3 DEF StoreShaped
<1>5. log' = [s \in Threads |-> log'[s]] /\ \A s \in Threads \ {t} : log'[s] = log[s]
  BY DEF Store!CreateThread, Store!AppendItems, Store!SetThreadAttributes, StoreShaped
<1>6. \A s \in Threads : Writes(s, row'[s]) /\ (row[s].status = "deleted" => log'[s] = log[s])
  BY <1>1, <1>3, <1>4, <1>5 DEF StoreShaped, Writes
<1>7. QED BY <1>4, <1>5, <1>6, WritesKeep

\* A transaction that has read a row writes it only as its condition allows now.
LEMMA ManyRows ==
  ASSUME StoreShaped, NEW x \in Txs,
         \/ Store!UpdateThreadMetadata(x) \/ Store!ArchiveThread(x)
         \/ Store!UnarchiveThread(x) \/ Store!DeleteThreads(x)
  PROVE  StoreShaped' /\ Store!StaysDeleted
<1>1. UNCHANGED log
  BY DEF Store!UpdateThreadMetadata, Store!ArchiveThread, Store!UnarchiveThread, Store!DeleteThreads, Store!Write
<1>2. /\ row' = [t \in Threads |-> row'[t]]
      /\ \A t \in Threads : \/ row'[t] = row[t]
                            \/ /\ row[t].status # "deleted"
                               /\ \/ row'[t] = [[row[t] EXCEPT !.meta = tx[x].meta, !.title = tx[x].title] EXCEPT !.at = tx[x].at]
                                  \/ row'[t] = [[row[t] EXCEPT !.status = "archived"] EXCEPT !.at = tx[x].at]
                                  \/ row'[t] = [[row[t] EXCEPT !.status = "live"] EXCEPT !.at = tx[x].at]
                            \/ row'[t] = [[row[t] EXCEPT !.status = "deleted"] EXCEPT !.at = tx[x].at]
  <2>1. CASE Store!UpdateThreadMetadata(x)
    BY <2>1 DEF Store!UpdateThreadMetadata, Store!Write, Store!Visible
  <2>2. CASE Store!ArchiveThread(x)
    BY <2>2 DEF Store!ArchiveThread, Store!Write, Store!Visible
  <2>3. CASE Store!UnarchiveThread(x)
    BY <2>3 DEF Store!UnarchiveThread, Store!Write
  <2>4. CASE Store!DeleteThreads(x)
    BY <2>4 DEF Store!DeleteThreads, Store!Write
  <2>5. QED BY <2>1, <2>2, <2>3, <2>4
<1>3. ASSUME NEW t \in Threads PROVE Writes(t, row'[t])
  <2> DEFINE r == row[t]
             m == tx[x].meta
             n == tx[x].title
             a == tx[x].at
  <2>1. \/ row'[t] = r
        \/ /\ r.status # "deleted"
           /\ \/ row'[t] = [[r EXCEPT !.meta = m, !.title = n] EXCEPT !.at = a]
              \/ row'[t] = [[r EXCEPT !.status = "archived"] EXCEPT !.at = a]
              \/ row'[t] = [[r EXCEPT !.status = "live"] EXCEPT !.at = a]
        \/ row'[t] = [[r EXCEPT !.status = "deleted"] EXCEPT !.at = a]
    BY <1>2
  <2>2. IsRow(r)
    BY DEF StoreShaped
  <2> HIDE DEF m, n, a
  <2>3. IsRow(row'[t])
    <3> HIDE DEF r
    <3>1. QED BY <2>1, <2>2 DEF IsRow
  <2>4. r.status = "deleted" => row'[t].status = "deleted" /\ row'[t].meta = r.meta /\ row'[t].title = r.title
    <3> HIDE DEF r
    <3>1. QED BY <2>1, <2>2 DEF IsRow
  <2>5. QED BY <2>3, <2>4 DEF Writes
<1>4. log' = [t \in Threads |-> log'[t]]
  BY <1>1 DEF StoreShaped
<1>5. QED BY <1>1, <1>2, <1>3, <1>4, WritesKeep

\* The steps that write a row or an event, and all others.
StoreStep ==
  \/ UNCHANGED <<row, log>>
  \/ \E t \in Threads : Store!CreateThread(t) \/ Store!AppendItems(t) \/ Store!SetThreadAttributes(t)
  \/ \E x \in Txs : \/ Store!UpdateThreadMetadata(x) \/ Store!ArchiveThread(x)
                    \/ Store!UnarchiveThread(x) \/ Store!DeleteThreads(x)

\* No step touches what is deleted.
LEMMA DeletedStep == StoreShaped /\ StoreStep => StoreShaped' /\ Store!StaysDeleted
<1> SUFFICES ASSUME StoreShaped, StoreStep PROVE StoreShaped' /\ Store!StaysDeleted
  OBVIOUS
<1>1. CASE UNCHANGED <<row, log>>
  <2>1. \A t \in Threads : Writes(t, row'[t]) /\ log'[t] = log[t]
    BY <1>1 DEF StoreShaped, Writes
  <2>2. row' = [t \in Threads |-> row'[t]] /\ log' = [t \in Threads |-> log'[t]]
    BY <1>1 DEF StoreShaped
  <2>3. QED BY <2>1, <2>2, WritesKeep
<1>2. QED BY <1>1, OneRow, ManyRows DEF StoreStep

\* Every step is one of them.
LEMMA EveryStoreStep == [Store!Next]_(Store!storeVars) => StoreStep
BY DEF StoreStep, Store!Next, Store!storeVars, Store!Tick, Store!BeginWalk, Store!NextPage, Store!EndWalk,
       Store!BeginUpdate, Store!BeginArchive, Store!BeginDelete

\* There are no threads yet.
LEMMA InitStore == Store!Init => StoreShaped
BY DEF Store!Init, Store!NoRow, StoreShaped, IsRow

\* DeletedIsFinal: whatever a transaction had read before, a deleted thread stays
\* deleted and keeps its metadata, its title and its events.
THEOREM DeletedCorrect == Store!Spec => Store!DeletedIsFinal
<1>1. StoreShaped /\ [Store!Next]_(Store!storeVars) => StoreShaped' /\ [Store!StaysDeleted]_(Store!storeVars)
  BY EveryStoreStep, DeletedStep
<1>2. QED BY InitStore, <1>1, PTL DEF Store!Spec, Store!DeletedIsFinal

-----------------------------------------------------------------------------
(* Pages in the order of their keys.                                        *)

Keys == Nat \X Nat

\* The keys s[1] .. s[n] come in the order of w.
Ascends(w, s, n) == \A i, j \in 1..n : i < j => Store!Precedes(w, s[i], s[j])

\* Keys are strictly and totally ordered, either way.
LEMMA KeysOrdered ==
  ASSUME NEW w, NEW a \in Keys, NEW b \in Keys
  PROVE  /\ ~Store!Precedes(w, a, a)
         /\ a = b \/ Store!Precedes(w, a, b) \/ Store!Precedes(w, b, a)
         /\ ~(Store!Precedes(w, a, b) /\ Store!Precedes(w, b, a))
         /\ \A c \in Keys : Store!Precedes(w, a, b) /\ Store!Precedes(w, b, c) => Store!Precedes(w, a, c)
<1>1. a[1] \in Nat /\ a[2] \in Nat /\ b[1] \in Nat /\ b[2] \in Nat /\ a = <<a[1], a[2]>> /\ b = <<b[1], b[2]>>
  BY DEF Keys
<1>2. \A c \in Keys : c[1] \in Nat /\ c[2] \in Nat
  BY DEF Keys
<1>3. CASE w.desc
  BY <1>1, <1>2, <1>3 DEF Store!Precedes, Store!Less
<1>4. CASE ~w.desc
  BY <1>1, <1>2, <1>4 DEF Store!Precedes, Store!Less
<1>5. QED BY <1>3, <1>4

\* Finitely many keys have a last one.
LEMMA LastKey ==
  ASSUME NEW w, NEW S \in SUBSET Keys, IsFiniteSet(S), S # {}
  PROVE  \E m \in S : \A x \in S \ {m} : Store!Precedes(w, x, m)
<1> DEFINE Has(R) == \E m \in R : \A x \in R \ {m} : Store!Precedes(w, x, m)
           T == {n \in Nat : \E R \in SUBSET Keys : IsFiniteSet(R) /\ R # {} /\ Cardinality(R) = n /\ ~Has(R)}
<1>1. CASE T = {}
  <2>1. Cardinality(S) \in Nat
    BY FS_CardinalityType
  <2>2. QED BY <1>1, <2>1
<1>2. CASE T # {}
  <2>1. PICK n \in T : \A k \in T : n <= k
    BY <1>2, LeastNumber
  <2>2. PICK R \in SUBSET Keys : IsFiniteSet(R) /\ R # {} /\ Cardinality(R) = n /\ ~Has(R)
    BY <2>1
  <2>3. PICK x \in R : TRUE
    BY <2>2
  <2> DEFINE Q == R \ {x}
  <2>4. IsFiniteSet(Q) /\ Cardinality(Q) = n - 1 /\ n \in Nat /\ Cardinality(Q) \in Nat
    BY <2>1, <2>2, <2>3, FS_RemoveElement, FS_CardinalityType
  <2>5. CASE Q = {}
    <3>1. R = {x}
      BY <2>3, <2>5
    <3>2. QED BY <2>2, <3>1
  <2>6. CASE Q # {}
    <3>1. Cardinality(Q) \notin T
      <4> HIDE DEF T
      <4>1. QED BY <2>1, <2>4
    <3>2. PICK m \in Q : \A y \in Q \ {m} : Store!Precedes(w, y, m)
      BY <2>4, <2>6, <3>1
    <3>3. m \in Keys /\ x \in Keys /\ x # m /\ m \in R
      BY <2>2, <3>2
    <3>4. CASE Store!Precedes(w, x, m)
      <4>1. \A y \in R \ {m} : Store!Precedes(w, y, m)
        BY <3>2, <3>4
      <4>2. QED BY <2>2, <3>3, <4>1
    <3>5. CASE Store!Precedes(w, m, x)
      <4>1. ASSUME NEW y \in R \ {x} PROVE Store!Precedes(w, y, x)
        <5>1. y = m \/ Store!Precedes(w, y, m)
          BY <3>2
        <5>2. y \in Keys
          BY <2>2
        <5>3. QED BY <3>3, <3>5, <5>1, <5>2, KeysOrdered
      <4>2. QED BY <2>2, <4>1
    <3>6. x = m \/ Store!Precedes(w, x, m) \/ Store!Precedes(w, m, x)
      BY <3>3, KeysOrdered
    <3>7. QED BY <3>3, <3>4, <3>5, <3>6
  <2>7. QED BY <2>5, <2>6
<1>3. QED BY <1>1, <1>2

\* Finitely many keys can be listed in order.
LEMMA Sortable ==
  ASSUME NEW w, NEW S \in SUBSET Keys, IsFiniteSet(S)
  PROVE  \E s \in [1..Cardinality(S) -> S] : Ascends(w, s, Cardinality(S))
<1> DEFINE Has(R) == \E s \in [1..Cardinality(R) -> R] : Ascends(w, s, Cardinality(R))
           T == {n \in Nat : \E R \in SUBSET Keys : IsFiniteSet(R) /\ Cardinality(R) = n /\ ~Has(R)}
<1>1. CASE T = {}
  <2>1. Cardinality(S) \in Nat
    BY FS_CardinalityType
  <2>2. QED BY <1>1, <2>1
<1>2. CASE T # {}
  <2>1. PICK n \in T : \A k \in T : n <= k
    BY <1>2, LeastNumber
  <2>2. PICK R \in SUBSET Keys : IsFiniteSet(R) /\ Cardinality(R) = n /\ ~Has(R)
    BY <2>1
  <2>3. n \in Nat
    BY <2>1
  <2>4. CASE R = {}
    <3>1. n = 0
      BY <2>2, <2>4, FS_EmptySet
    <3> DEFINE s == [i \in 1..n |-> n]
    <3>2. 1..n = {}
      BY <3>1
    <3>3. s \in [1..n -> R] /\ Ascends(w, s, n)
      BY <3>2 DEF Ascends
    <3>4. QED BY <2>2, <3>3
  <2>5. CASE R # {}
    <3>1. PICK m \in R : \A x \in R \ {m} : Store!Precedes(w, x, m)
      BY <2>2, <2>5, LastKey
    <3> DEFINE Q == R \ {m}
    <3>2. IsFiniteSet(Q) /\ Cardinality(Q) = n - 1 /\ Cardinality(Q) \in Nat /\ Q \in SUBSET Keys
      BY <2>2, <2>3, <3>1, FS_RemoveElement, FS_CardinalityType
    <3>3. Cardinality(Q) \notin T
      <4> HIDE DEF T
      <4>1. QED BY <2>1, <2>3, <3>2
    <3>4. PICK s \in [1..(n - 1) -> Q] : Ascends(w, s, n - 1)
      BY <3>2, <3>3
    <3> DEFINE u == [i \in 1..n |-> IF i = n THEN m ELSE s[i]]
    <3>5. \A i \in 1..n : i = n \/ i \in 1..(n - 1)
      BY <2>3
    <3>6. \A i \in 1..n : u[i] = IF i = n THEN m ELSE s[i]
      OBVIOUS
    <3>7. u \in [1..n -> R]
      BY <3>1, <3>4, <3>5
    <3> HIDE DEF u
    <3>8. ASSUME NEW i \in 1..n, NEW j \in 1..n, i < j PROVE Store!Precedes(w, u[i], u[j])
      <4>1. i \in 1..(n - 1) /\ u[i] = s[i] /\ s[i] \in R \ {m}
        BY <2>3, <3>4, <3>5, <3>6, <3>8
      <4>2. CASE j = n
        BY <3>1, <3>6, <4>1, <4>2
      <4>3. CASE j # n
        <5>1. j \in 1..(n - 1) /\ u[j] = s[j]
          BY <3>5, <3>6, <4>3
        <5>2. QED BY <3>4, <3>8, <4>1, <5>1 DEF Ascends
      <4>4. QED BY <4>2, <4>3
    <3>9. QED BY <2>2, <3>7, <3>8 DEF Ascends
  <2>6. QED BY <2>4, <2>5
<1>3. QED BY <1>1, <1>2

\* What a query returns: every key once, in order.
LEMMA SortedLists ==
  ASSUME NEW w, NEW S \in SUBSET Keys, IsFiniteSet(S)
  PROVE  LET s == Store!Sorted(w, S)
         IN  /\ s \in Seq(Keys) /\ Len(s) \in Nat /\ DOMAIN s = 1..Len(s)
             /\ Ascends(w, s, Len(s))
             /\ \A i \in 1..Len(s) : s[i] \in S
             /\ \A k \in S : \E i \in 1..Len(s) : s[i] = k
<1> DEFINE n == Cardinality(S)
           s == Store!Sorted(w, S)
<1>1. n \in Nat /\ IsFiniteSet(1..n) /\ Cardinality(1..n) = n
  BY FS_CardinalityType, FS_Interval
<1>2. Store!Cardinality(S) = n
  BY DEF Store!Cardinality, Cardinality, Store!IsFiniteSet, IsFiniteSet
<1>3. s = CHOOSE f \in [1..n -> S] : \A i, j \in 1..n : i < j => Store!Precedes(w, f[i], f[j])
  BY <1>2, Zenon DEF Store!Sorted
<1>4. \E f \in [1..n -> S] : \A i, j \in 1..n : i < j => Store!Precedes(w, f[i], f[j])
  BY Sortable DEF Ascends
<1>5. s \in [1..n -> S] /\ Ascends(w, s, n)
  <2> HIDE DEF s, n
  <2>1. QED BY <1>3, <1>4, Zenon DEF Ascends
<1> HIDE DEF s
<1>6. ASSUME NEW i \in 1..n, NEW j \in 1..n, s[i] = s[j] PROVE i = j
  <2>1. s[i] \in Keys
    BY <1>5
  <2>2. ~Store!Precedes(w, s[i], s[j]) /\ ~Store!Precedes(w, s[j], s[i])
    BY <1>6, <2>1, KeysOrdered
  <2>3. ~(i < j) /\ ~(j < i)
    BY <1>5, <2>2 DEF Ascends
  <2>4. QED BY <1>1, <2>3
<1>7. s \in Injection(1..n, S)
  BY <1>5, <1>6 DEF Injection, IsInjective
<1>8. s \in Surjection(1..n, S)
  BY <1>1, <1>7, FS_Injection
<1>9. \A k \in S : \E i \in 1..n : s[i] = k
  BY <1>8 DEF Surjection
<1>10. s \in Seq(Keys) /\ Len(s) = n
  BY <1>1, <1>5
<1>11. QED BY <1>1, <1>5, <1>9, <1>10 DEF s

\* A walk has its fields, and so has a transaction.
IsWalk(w) == w \in [of : {w.of}, pc : {w.pc}, t : {w.t}, archived : {w.archived}, desc : {w.desc}, from : {w.from},
                    got : {w.got}, end : {w.end}, touched : {w.touched}]
IsTx(r) == r \in [op : {r.op}, on : {r.on}, meta : {r.meta}, title : {r.title}, at : {r.at}]

\* w has all of the keys K that are not beyond its cursor, in order.
Paged(w, K) ==
  /\ w.got \in Seq(Keys) /\ (w.from = None \/ w.from \in Keys)
  /\ Ascends(w, w.got, Len(w.got))
  /\ w.pc = "page" => \A i \in 1..Len(w.got) :
       w.from # None /\ (w.got[i] = w.from \/ Store!Precedes(w, w.got[i], w.from))
  /\ \A k \in K : w.pc = "done" \/ ~Store!Beyond(w, k) => \E j \in 1..Len(w.got) : w.got[j] = k

\* v is w after a page.
SameWalk(v, w) ==
  /\ IsWalk(v) /\ v.of = w.of /\ v.pc \in {"page", "done"} /\ v.t = w.t /\ v.archived = w.archived
  /\ v.desc = w.desc /\ v.end = w.end /\ v.touched = w.touched

\* w after a page of the rows s.
Paging(w, s) == [Store!Cursor(w, s) EXCEPT !.got = @ \o SubSeq(s, 1, IF Len(s) < Size THEN Len(s) ELSE Size)]

\* The cursor and the rows of a page.
LEMMA PageFields ==
  ASSUME NEW w, IsWalk(w), w.pc = "page", NEW s, NEW v, v = Paging(w, s)
  PROVE  /\ SameWalk(v, w)
         /\ v.got = w.got \o SubSeq(s, 1, IF Len(s) < Size THEN Len(s) ELSE Size)
         /\ IF Len(s) > Size THEN v.pc = "page" /\ (w.of # "turns" => v.from = s[Size])
            ELSE v.pc = "done" /\ v.from = w.from
<1> DEFINE p == SubSeq(s, 1, IF Len(s) < Size THEN Len(s) ELSE Size)
           f == IF w.of = "turns" THEN <<s[Size][1], 0>> ELSE s[Size]
<1>1. Store!Cursor(w, s) = IF Len(s) > Size THEN [w EXCEPT !.from = f] ELSE [w EXCEPT !.pc = "done"]
  BY DEF Store!Cursor
<1>2. v = [Store!Cursor(w, s) EXCEPT !.got = @ \o p]
  BY DEF Paging
<1>3. w.of # "turns" => f = s[Size]
  OBVIOUS
<1> HIDE DEF p, f
<1>4. CASE Len(s) > Size
  <2> DEFINE c == [w EXCEPT !.from = f]
  <2>1. v = [c EXCEPT !.got = c.got \o p] /\ c = [w EXCEPT !.from = f]
    BY <1>1, <1>2, <1>4
  <2> HIDE DEF c
  <2>2. /\ IsWalk(c) /\ c.of = w.of /\ c.pc = "page" /\ c.t = w.t /\ c.archived = w.archived
        /\ c.desc = w.desc /\ c.end = w.end /\ c.touched = w.touched /\ c.got = w.got /\ c.from = f
    BY <2>1 DEF IsWalk
  <2>3. /\ IsWalk(v) /\ v.of = c.of /\ v.pc = c.pc /\ v.t = c.t /\ v.archived = c.archived
        /\ v.desc = c.desc /\ v.end = c.end /\ v.touched = c.touched /\ v.got = c.got \o p /\ v.from = c.from
    <3> DEFINE g == c.got \o p
    <3>1. v = [c EXCEPT !.got = g]
      BY <2>1
    <3> HIDE DEF g
    <3>2. /\ IsWalk(v) /\ v.of = c.of /\ v.pc = c.pc /\ v.t = c.t /\ v.archived = c.archived
          /\ v.desc = c.desc /\ v.end = c.end /\ v.touched = c.touched /\ v.got = g /\ v.from = c.from
      BY <2>2, <3>1 DEF IsWalk
    <3>3. QED BY <3>2 DEF g
  <2>4. QED BY <1>3, <1>4, <2>2, <2>3 DEF SameWalk, p
<1>5. CASE ~(Len(s) > Size)
  <2> DEFINE c == [w EXCEPT !.pc = "done"]
  <2>1. v = [c EXCEPT !.got = c.got \o p] /\ c = [w EXCEPT !.pc = "done"]
    BY <1>1, <1>2, <1>5
  <2> HIDE DEF c
  <2>2. /\ IsWalk(c) /\ c.of = w.of /\ c.pc = "done" /\ c.t = w.t /\ c.archived = w.archived
        /\ c.desc = w.desc /\ c.end = w.end /\ c.touched = w.touched /\ c.got = w.got /\ c.from = w.from
    BY <2>1 DEF IsWalk
  <2>3. /\ IsWalk(v) /\ v.of = c.of /\ v.pc = c.pc /\ v.t = c.t /\ v.archived = c.archived
        /\ v.desc = c.desc /\ v.end = c.end /\ v.touched = c.touched /\ v.got = c.got \o p /\ v.from = c.from
    <3> DEFINE g == c.got \o p
    <3>1. v = [c EXCEPT !.got = g]
      BY <2>1
    <3> HIDE DEF g
    <3>2. /\ IsWalk(v) /\ v.of = c.of /\ v.pc = c.pc /\ v.t = c.t /\ v.archived = c.archived
          /\ v.desc = c.desc /\ v.end = c.end /\ v.touched = c.touched /\ v.got = g /\ v.from = c.from
      BY <2>2, <3>1 DEF IsWalk
    <3>3. QED BY <3>2 DEF g
  <2>4. QED BY <1>5, <2>2, <2>3 DEF SameWalk, p
<1>6. QED BY <1>4, <1>5

\* How many rows there are on a page of the rows s, and whether there are more.
LEMMA PageCount ==
  ASSUME Store!StoreAssumption, NEW s \in Seq(Keys), NEW n, n = IF Len(s) < Size THEN Len(s) ELSE Size
  PROVE  /\ n \in Nat /\ Len(s) \in Nat /\ n <= Len(s) /\ Size \in Nat /\ Size > 0
         /\ Len(s) > Size => n = Size
         /\ ~(Len(s) > Size) => n = Len(s)
         /\ SubSeq(s, 1, n) \in Seq(Keys) /\ Len(SubSeq(s, 1, n)) = n
         /\ \A i \in 1..n : SubSeq(s, 1, n)[i] = s[i]
<1>1. Len(s) \in Nat /\ Size \in Nat /\ Size > 0
  BY DEF Store!StoreAssumption
<1>2. /\ n \in Nat /\ n <= Len(s)
      /\ Len(s) > Size => n = Size
      /\ ~(Len(s) > Size) => n = Len(s)
  BY <1>1
<1>3. 1..n \subseteq 1..Len(s) /\ \A i \in 1..Len(s) : s[i] \in Keys
  BY <1>1, <1>2
<1>4. SubSeq(s, 1, n) = [i \in 1..n |-> s[i]]
  BY <1>1, <1>2
<1>5. QED BY <1>1, <1>2, <1>3, <1>4

\* w.got is continued by the page p.
LEMMA GotGrows ==
  ASSUME NEW g \in Seq(Keys), NEW p \in Seq(Keys)
  PROVE  LET m == Len(g)
             n == Len(p)
         IN  /\ m \in Nat /\ g \o p \in Seq(Keys) /\ Len(g \o p) = m + n
             /\ \A i \in 1..m : i \in 1..(m + n) /\ (g \o p)[i] = g[i]
             /\ \A i \in 1..n : m + i \in 1..(m + n) /\ (g \o p)[m + i] = p[i]
             /\ \A i \in 1..(m + n) : i \in 1..m \/ \E j \in 1..n : i = m + j
<1> DEFINE m == Len(g)
           n == Len(p)
<1>1. /\ g \o p \in Seq(Keys) /\ Len(g \o p) = m + n
      /\ \A i \in 1..(m + n) : (g \o p)[i] = IF i <= m THEN g[i] ELSE p[i - m]
  BY ConcatProperties
<1>2. m \in Nat /\ n \in Nat
  OBVIOUS
<1> HIDE DEF m, n
<1>3. ASSUME NEW i \in 1..m PROVE i \in 1..(m + n) /\ (g \o p)[i] = g[i]
  BY <1>1, <1>2
<1>4. ASSUME NEW i \in 1..n PROVE m + i \in 1..(m + n) /\ (g \o p)[m + i] = p[i]
  <2>1. m + i \in 1..(m + n) /\ ~(m + i <= m) /\ (m + i) - m = i
    BY <1>2
  <2>2. (g \o p)[m + i] = p[(m + i) - m]
    BY <1>1, <2>1
  <2>3. QED BY <2>1, <2>2
<1>5. ASSUME NEW i \in 1..(m + n), i \notin 1..m PROVE \E j \in 1..n : i = m + j
  <2>1. i - m \in 1..n /\ i = m + (i - m)
    BY <1>2, <1>5
  <2>2. QED BY <2>1
<1>6. QED BY <1>1, <1>2, <1>3, <1>4, <1>5 DEF m, n

\* The list g, up to the key f, is continued to h by the first n of the keys L beyond f,
\* which are s in order.
Continued(w, K, L, f, g, m, s, l, n, h) ==
  /\ K \subseteq Keys /\ L \subseteq Keys /\ m \in Nat /\ l \in Nat /\ n \in 0..l
  /\ (\A i \in 1..m : g[i] \in Keys) /\ Ascends(w, g, m)
  /\ f = None \/ f \in Keys
  /\ \A i \in 1..m : f # None /\ (g[i] = f \/ Store!Precedes(w, g[i], f))
  /\ \A k \in L : f = None \/ Store!Precedes(w, f, k)
  /\ \A k \in K : k \in L \/ \E j \in 1..m : g[j] = k
  /\ Ascends(w, s, l) /\ (\A i \in 1..l : s[i] \in L) /\ \A k \in L : \E i \in 1..l : s[i] = k
  /\ \A i \in 1..m : i \in 1..(m + n) /\ h[i] = g[i]
  /\ \A i \in 1..n : m + i \in 1..(m + n) /\ h[m + i] = s[i]
  /\ \A i \in 1..(m + n) : i \in 1..m \/ \E j \in 1..n : i = m + j

\* h stays in order and complete, up to s[n].
LEMMA PageContinues ==
  ASSUME NEW w, NEW K, NEW L, NEW f, NEW g, NEW m, NEW s, NEW l, NEW n, NEW h,
         Continued(w, K, L, f, g, m, s, l, n, h)
  PROVE  /\ Ascends(w, h, m + n)
         /\ n < l /\ n > 0 => \A i \in 1..(m + n) : h[i] = s[n] \/ Store!Precedes(w, h[i], s[n])
         /\ \A k \in K : n = l \/ (n > 0 /\ ~Store!Precedes(w, s[n], k)) => \E j \in 1..(m + n) : h[j] = k
         /\ \A j \in 1..(m + n) : h[j] \in L \/ \E i \in 1..m : h[j] = g[i]
<1> USE DEF Continued
<1>1. \A i \in 1..n : i \in 1..l /\ s[i] \in L /\ s[i] \in Keys
  OBVIOUS
\* What g has comes before what the page has.
<1>2. ASSUME NEW i \in 1..m, NEW j \in 1..n PROVE Store!Precedes(w, g[i], s[j])
  <2>1. f # None /\ (g[i] = f \/ Store!Precedes(w, g[i], f))
    OBVIOUS
  <2>2. Store!Precedes(w, f, s[j]) /\ s[j] \in Keys /\ f \in Keys /\ g[i] \in Keys
    BY <1>1, <2>1
  <2>3. CASE g[i] = f
    BY <2>2, <2>3
  <2>4. CASE Store!Precedes(w, g[i], f)
    BY <2>2, <2>4, KeysOrdered
  <2>5. QED BY <2>1, <2>3, <2>4
<1>3. ASSUME NEW i \in 1..(m + n), NEW j \in 1..(m + n), i < j PROVE Store!Precedes(w, h[i], h[j])
  <2>1. CASE j \in 1..m
    <3>1. i \in 1..m
      BY <1>3, <2>1
    <3>2. Store!Precedes(w, g[i], g[j])
      BY <1>3, <2>1, <3>1 DEF Ascends
    <3>3. QED BY <2>1, <3>1, <3>2
  <2>2. CASE i \in 1..m /\ j \notin 1..m
    <3>1. PICK b \in 1..n : j = m + b
      BY <2>2
    <3>2. h[i] = g[i] /\ h[j] = s[b]
      BY <2>2, <3>1
    <3>3. QED BY <1>2, <2>2, <3>2
  <2>3. CASE i \notin 1..m /\ j \notin 1..m
    <3>1. PICK a \in 1..n, b \in 1..n : i = m + a /\ j = m + b
      BY <2>3
    <3>2. a < b
      BY <1>3, <3>1
    <3>3. Store!Precedes(w, s[a], s[b])
      BY <1>1, <3>2 DEF Ascends
    <3>4. h[i] = s[a] /\ h[j] = s[b]
      BY <3>1
    <3>5. QED BY <3>3, <3>4
  <2>4. i \notin 1..m => j \notin 1..m
    BY <1>3
  <2>5. QED BY <2>1, <2>2, <2>3, <2>4
<1>4. ASSUME n < l, n > 0, NEW i \in 1..(m + n) PROVE h[i] = s[n] \/ Store!Precedes(w, h[i], s[n])
  <2>1. n \in 1..n /\ n \in 1..l
    BY <1>4
  <2>2. CASE i \in 1..m
    BY <1>2, <2>1, <2>2
  <2>3. CASE i \notin 1..m
    <3>1. PICK j \in 1..n : i = m + j
      BY <2>3
    <3>2. h[i] = s[j]
      BY <3>1
    <3>3. j = n \/ j < n
      OBVIOUS
    <3>4. CASE j = n
      BY <3>2, <3>4
    <3>5. CASE j < n
      <4>1. Store!Precedes(w, s[j], s[n])
        BY <1>1, <2>1, <3>5 DEF Ascends
      <4>2. QED BY <3>2, <4>1
    <3>6. QED BY <3>3, <3>4, <3>5
  <2>4. QED BY <2>2, <2>3
<1>5. ASSUME NEW k \in K, n = l \/ (n > 0 /\ ~Store!Precedes(w, s[n], k))
      PROVE  \E j \in 1..(m + n) : h[j] = k
  <2>1. CASE \E j \in 1..m : g[j] = k
    BY <2>1
  <2>2. CASE k \in L
    <3>1. PICK j \in 1..l : s[j] = k
      BY <2>2
    <3>2. CASE n = l
      <4>1. j \in 1..n
        BY <3>2
      <4>2. QED BY <3>1, <4>1
    <3>3. CASE n # l
      <4>1. n \in 1..l /\ ~Store!Precedes(w, s[n], s[j])
        BY <1>5, <3>1, <3>3
      <4>2. ~(n < j)
        BY <4>1 DEF Ascends
      <4>3. j \in 1..n
        BY <4>2
      <4>4. QED BY <3>1, <4>3
    <3>4. QED BY <3>2, <3>3
  <2>3. QED BY <2>1, <2>2
<1>6. ASSUME NEW j \in 1..(m + n) PROVE h[j] \in L \/ \E i \in 1..m : h[j] = g[i]
  <2>1. CASE j \in 1..m
    BY <2>1
  <2>2. CASE j \notin 1..m
    <3>1. PICK i \in 1..n : j = m + i
      BY <2>2
    <3>2. h[j] = s[i]
      BY <3>1
    <3>3. QED BY <1>1, <3>2
  <2>3. QED BY <2>1, <2>2
<1>7. QED BY <1>3, <1>4, <1>5, <1>6 DEF Ascends

\* The same of a walk w, and of v with one page p more.
Shown(w, K, L, s, l, n, p, v) ==
  /\ None \notin Keys /\ K \subseteq Keys /\ L \subseteq Keys /\ l \in Nat /\ n \in 0..l
  /\ Paged(w, K) /\ w.pc = "page"
  /\ \A k \in L : Store!Beyond(w, k)
  /\ \A k \in K : Store!Beyond(w, k) => k \in L
  /\ s \in Seq(Keys) /\ Ascends(w, s, l) /\ (\A i \in 1..l : s[i] \in L) /\ \A k \in L : \E i \in 1..l : s[i] = k
  /\ p \in Seq(Keys) /\ Len(p) = n /\ \A i \in 1..n : p[i] = s[i]
  /\ SameWalk(v, w) /\ v.got = w.got \o p
  /\ \/ n < l /\ n > 0 /\ v.pc = "page" /\ v.from = s[n]
     \/ n = l /\ v.pc = "done" /\ v.from = w.from

LEMMA PageShown ==
  ASSUME NEW w, NEW K, NEW L, NEW s, NEW l, NEW n, NEW p, NEW v, Shown(w, K, L, s, l, n, p, v)
  PROVE  /\ Paged(v, K)
         /\ \A j \in 1..Len(v.got) : v.got[j] \in L \/ \E i \in 1..Len(w.got) : v.got[j] = w.got[i]
<1> DEFINE g == w.got  m == Len(w.got)  f == w.from  h == g \o p
<1>0. /\ None \notin Keys /\ K \subseteq Keys /\ L \subseteq Keys /\ l \in Nat /\ n \in 0..l
      /\ s \in Seq(Keys) /\ Ascends(w, s, l) /\ (\A i \in 1..l : s[i] \in L) /\ \A k \in L : \E i \in 1..l : s[i] = k
      /\ p \in Seq(Keys) /\ Len(p) = n /\ \A i \in 1..n : p[i] = s[i]
  BY DEF Shown
<1>1. /\ g \in Seq(Keys) /\ m \in Nat /\ m = Len(g) /\ (\A i \in 1..m : g[i] \in Keys) /\ Ascends(w, g, m)
      /\ f = None \/ f \in Keys
      /\ \A i \in 1..m : f # None /\ (g[i] = f \/ Store!Precedes(w, g[i], f))
      /\ \A k \in K : ~Store!Beyond(w, k) => \E j \in 1..m : g[j] = k
  BY DEF Paged, Shown
<1>2. /\ \A k \in L : f = None \/ Store!Precedes(w, f, k)
      /\ \A k \in K : k \in L \/ \E j \in 1..m : g[j] = k
  BY <1>1 DEF Store!Beyond, Shown
<1>3. \A a, b : Store!Precedes(v, a, b) <=> Store!Precedes(w, a, b)
  BY DEF SameWalk, Store!Precedes, Shown
<1>4. v.got = h
  BY DEF Shown
<1> HIDE DEF g, m, f
<1>5. /\ h \in Seq(Keys) /\ Len(h) = m + n
      /\ \A i \in 1..m : i \in 1..(m + n) /\ h[i] = g[i]
      /\ \A i \in 1..n : m + i \in 1..(m + n) /\ h[m + i] = s[i]
      /\ \A i \in 1..(m + n) : i \in 1..m \/ \E j \in 1..n : i = m + j
  <2>1. g \in Seq(Keys) /\ p \in Seq(Keys) /\ m = Len(g) /\ n = Len(p)
    BY <1>0, <1>1
  <2>2. LET M == Len(g)
            N == Len(p)
        IN  /\ M \in Nat /\ g \o p \in Seq(Keys) /\ Len(g \o p) = M + N
            /\ \A i \in 1..M : i \in 1..(M + N) /\ (g \o p)[i] = g[i]
            /\ \A i \in 1..N : M + i \in 1..(M + N) /\ (g \o p)[M + i] = p[i]
            /\ \A i \in 1..(M + N) : i \in 1..M \/ \E j \in 1..N : i = M + j
    BY <2>1, GotGrows
  <2>3. QED BY <1>0, <2>1, <2>2
<1> HIDE DEF h
<1>6. /\ Ascends(w, h, m + n)
      /\ n < l /\ n > 0 => \A i \in 1..(m + n) : h[i] = s[n] \/ Store!Precedes(w, h[i], s[n])
      /\ \A k \in K : n = l \/ (n > 0 /\ ~Store!Precedes(w, s[n], k)) => \E j \in 1..(m + n) : h[j] = k
      /\ \A j \in 1..(m + n) : h[j] \in L \/ \E i \in 1..m : h[j] = g[i]
  <2>1. Continued(w, K, L, f, g, m, s, l, n, h)
    BY <1>0, <1>1, <1>2, <1>5 DEF Continued
  <2>2. QED BY <2>1, PageContinues
<1>7. Ascends(v, h, m + n)
  BY <1>3, <1>6 DEF Ascends
<1>8. CASE n < l /\ n > 0 /\ v.pc = "page" /\ v.from = s[n]
  <2>1. n \in 1..l /\ s[n] \in Keys /\ s[n] # None
    BY <1>0, <1>8
  <2>2. \A i \in 1..(m + n) : v.from # None /\ (h[i] = v.from \/ Store!Precedes(v, h[i], v.from))
    BY <1>3, <1>6, <1>8, <2>1
  <2>3. \A k \in K : v.pc = "done" \/ ~Store!Beyond(v, k) => \E j \in 1..(m + n) : h[j] = k
    BY <1>3, <1>6, <1>8 DEF Store!Beyond
  <2>4. Paged(v, K)
    <3>1. Len(v.got) = m + n /\ v.got \in Seq(Keys) /\ Ascends(v, v.got, Len(v.got)) /\ v.from \in Keys
      BY <1>4, <1>5, <1>7, <1>8, <2>1
    <3>2. \A i \in 1..Len(v.got) : v.from # None /\ (v.got[i] = v.from \/ Store!Precedes(v, v.got[i], v.from))
      BY <1>4, <1>5, <2>2
    <3>3. \A k \in K : v.pc = "done" \/ ~Store!Beyond(v, k) => \E j \in 1..Len(v.got) : v.got[j] = k
      BY <1>4, <1>5, <2>3
    <3>4. QED BY <3>1, <3>2, <3>3 DEF Paged
  <2>5. QED BY <1>4, <1>5, <1>6, <2>4 DEF g, m
<1>9. CASE n = l /\ v.pc = "done" /\ v.from = w.from
  <2>1. \A k \in K : \E j \in 1..(m + n) : h[j] = k
    BY <1>6, <1>9
  <2>2. v.from = None \/ v.from \in Keys
    BY <1>1, <1>9 DEF f
  <2>3. Paged(v, K)
    <3>1. Len(v.got) = m + n /\ v.got \in Seq(Keys) /\ Ascends(v, v.got, Len(v.got)) /\ v.pc # "page"
      BY <1>4, <1>5, <1>7, <1>9
    <3>2. \A k \in K : \E j \in 1..Len(v.got) : v.got[j] = k
      BY <1>4, <1>5, <2>1
    <3>3. QED BY <2>2, <3>1, <3>2 DEF Paged
  <2>4. QED BY <1>4, <1>5, <1>6, <2>3 DEF g, m
<1>10. QED BY <1>8, <1>9 DEF Shown

\* A page of the keys L beyond the cursor.
LEMMA PageKeeps ==
  ASSUME Store!StoreAssumption, NEW w, IsWalk(w), NEW K \in SUBSET Keys, Paged(w, K), w.pc = "page", w.of # "turns",
         NEW L \in SUBSET Keys, IsFiniteSet(L), \A k \in L : Store!Beyond(w, k),
         \A k \in K : Store!Beyond(w, k) => k \in L
  PROVE  LET v == Paging(w, Store!Sorted(w, L))
         IN  /\ SameWalk(v, w) /\ Paged(v, K)
             /\ \A j \in 1..Len(v.got) : v.got[j] \in L \/ \E i \in 1..Len(w.got) : v.got[j] = w.got[i]
<1> DEFINE s == Store!Sorted(w, L)
           v == Paging(w, s)
           l == Len(s)
           n == IF l < Size THEN l ELSE Size
           p == SubSeq(s, 1, n)
<1>1. /\ SameWalk(v, w) /\ v.got = w.got \o p
      /\ IF l > Size THEN v.pc = "page" /\ (w.of # "turns" => v.from = s[Size])
         ELSE v.pc = "done" /\ v.from = w.from
  BY PageFields
<1>2. s \in Seq(Keys) /\ l \in Nat /\ Ascends(w, s, l) /\ (\A i \in 1..l : s[i] \in L) /\ \A k \in L : \E i \in 1..l : s[i] = k
  BY SortedLists
<1> HIDE DEF s
<1>3. /\ n \in Nat /\ l \in Nat /\ n <= l /\ Size \in Nat /\ Size > 0
      /\ l > Size => n = Size
      /\ ~(l > Size) => n = l
      /\ p \in Seq(Keys) /\ Len(p) = n
      /\ \A i \in 1..n : p[i] = s[i]
  BY <1>2, PageCount
<1> HIDE DEF l, n, p, v
<1>4. None \notin Keys /\ n \in 0..l
  BY <1>3 DEF Store!StoreAssumption, Keys
<1>5. \/ n < l /\ n > 0 /\ v.pc = "page" /\ v.from = s[n]
      \/ n = l /\ v.pc = "done" /\ v.from = w.from
  BY <1>1, <1>3
<1>6. /\ Paged(v, K)
      /\ \A j \in 1..Len(v.got) : v.got[j] \in L \/ \E i \in 1..Len(w.got) : v.got[j] = w.got[i]
  <2>1. Shown(w, K, L, s, l, n, p, v)
    BY <1>1, <1>2, <1>3, <1>4, <1>5 DEF Shown
  <2>2. QED BY <2>1, PageShown
<1>7. QED BY <1>1, <1>6 DEF s, v

-----------------------------------------------------------------------------
(* What clients page through.                                               *)

Statuses == {"live", "archived", "deleted"}

ThreadsTyped ==
  /\ StoreShaped /\ clock \in 0..MaxClock
  /\ \A t \in Threads : /\ row[t].status \in {"absent"} \cup Statuses /\ row[t].at \in 0..clock
                        /\ log[t] \in Seq(Store!Events) /\ Len(log[t]) <= MaxSeq
                        /\ row[t].status = "absent" => row[t] = Store!NoRow /\ log[t] = <<>>

TxsTyped ==
  /\ tx = [x \in Txs |-> tx[x]]
  /\ \A x \in Txs : IsTx(tx[x]) /\ tx[x].op \in {"none"} \cup Store!Ops /\ tx[x].on \subseteq Threads /\ tx[x].at \in 0..clock

WalkTyped ==
  /\ IsWalk(walk) /\ walk.of \in {"none"} \cup Walks
  /\ IF walk.of = "none" THEN walk.pc = "none" ELSE walk.pc \in {"page", "done"} /\ walk.t \in Threads

\* What the walk has to show: the items that were there when it began; the threads
\* that nobody has written since.
SteadyItems == {<<i, 0>> : i \in {j \in 1..walk.end : log[walk.t][j].kind = "response_item"}}
SteadyThreads ==
  {<<row[t].at, t>> : t \in {s \in Threads \ walk.touched : row[s].status = IF walk.archived THEN "archived" ELSE "live"}}

\* It has them up to its cursor, in order, and no thread but where it still is.
WalkInv ==
  /\ walk.of = "items" => walk.end \in Nat /\ walk.end <= Len(log[walk.t]) /\ Paged(walk, SteadyItems)
  /\ walk.of = "threads" =>
       /\ Paged(walk, SteadyThreads)
       /\ \A j \in 1..Len(walk.got) :
            walk.got[j][2] \in walk.touched \/ \E t \in Threads : walk.got[j] = <<row[t].at, t>>

StoreInv == ThreadsTyped /\ TxsTyped /\ WalkTyped /\ WalkInv

\* A step that writes rows and events of the threads S.
Written(S) ==
  /\ clock' = clock /\ walk' = [walk EXCEPT !.touched = @ \cup S]
  /\ row' = [t \in Threads |-> row'[t]] /\ log' = [t \in Threads |-> log'[t]]
  /\ \A t \in Threads \ S : row'[t] = row[t] /\ log'[t] = log[t]
  /\ \A t \in Threads :
       /\ row'[t] = row[t] \/ (IsRow(row'[t]) /\ row'[t].status \in Statuses /\ row'[t].at \in 0..clock)
       /\ \/ log'[t] = log[t]
          \/ row[t].status # "absent" /\ Len(log[t]) < MaxSeq /\ \E e \in Store!Events : log'[t] = Append(log[t], e)

\* Rows and logs stay well formed.
LEMMA WrittenTyped ==
  ASSUME Store!StoreAssumption, ThreadsTyped, NEW S, Written(S), \A t \in Threads : row'[t].status = "absent" => row[t].status = "absent"
  PROVE  ThreadsTyped'
<1>1. StoreShaped'
  BY DEF Written, ThreadsTyped, StoreShaped
<1>2. ASSUME NEW t \in Threads
      PROVE  /\ row'[t].status \in {"absent"} \cup Statuses /\ row'[t].at \in 0..clock
             /\ row'[t].status = "absent" => row'[t] = row[t]
  BY DEF Written, ThreadsTyped, Statuses
<1>3. ASSUME NEW t \in Threads
      PROVE  log'[t] \in Seq(Store!Events) /\ Len(log'[t]) <= MaxSeq /\ (row[t].status = "absent" => log'[t] = log[t])
  <2>1. log[t] \in Seq(Store!Events) /\ Len(log[t]) <= MaxSeq /\ MaxSeq \in Nat
    BY DEF ThreadsTyped, Store!StoreAssumption
  <2>2. CASE log'[t] = log[t]
    BY <2>1, <2>2
  <2>3. CASE log'[t] # log[t]
    <3>1. PICK e \in Store!Events : log'[t] = Append(log[t], e)
      BY <2>3 DEF Written
    <3>2. row[t].status # "absent" /\ Len(log[t]) < MaxSeq
      BY <2>3 DEF Written
    <3>3. QED BY <2>1, <3>1, <3>2, AppendProperties
  <2>4. QED BY <2>2, <2>3
<1>4. clock' = clock
  BY DEF Written
<1>5. QED BY <1>1, <1>2, <1>3, <1>4 DEF ThreadsTyped

\* What a walk has seen does not depend on what is written meanwhile.
LEMMA PagedLess ==
  ASSUME NEW w, NEW K, Paged(w, K), NEW v, NEW J, J \subseteq K,
         v.got = w.got, v.from = w.from, v.desc = w.desc, v.pc = w.pc
  PROVE  Paged(v, J)
<1>1. \A a, b : Store!Precedes(v, a, b) <=> Store!Precedes(w, a, b)
  BY DEF Store!Precedes
<1>2. \A k : Store!Beyond(v, k) <=> Store!Beyond(w, k)
  BY <1>1 DEF Store!Beyond
<1>3. QED BY <1>1, <1>2 DEF Paged, Ascends

LEMMA WrittenWalk ==
  ASSUME ThreadsTyped, WalkTyped, WalkInv, NEW S, Written(S)
  PROVE  WalkTyped' /\ WalkInv'
<1> DEFINE w == walk
           v == walk'
           d == walk.touched \cup S
<1>1. IsWalk(w) /\ v = [w EXCEPT !.touched = d]
  BY DEF WalkTyped, Written
<1> HIDE DEF w, v, d
<1>2. /\ IsWalk(v) /\ v.of = w.of /\ v.pc = w.pc /\ v.t = w.t /\ v.archived = w.archived /\ v.desc = w.desc
      /\ v.from = w.from /\ v.got = w.got /\ v.end = w.end /\ v.touched = d
  BY <1>1 DEF IsWalk
<1>3. WalkTyped'
  BY <1>2 DEF WalkTyped, w, v
<1>4. ASSUME v.of = "items" PROVE v.end \in Nat /\ v.end <= Len(log'[v.t]) /\ Paged(v, SteadyItems')
  <2>1. w.t \in Threads /\ w.end \in Nat /\ w.end <= Len(log[w.t]) /\ Paged(w, SteadyItems) /\ log[w.t] \in Seq(Store!Events)
    BY <1>2, <1>4 DEF WalkInv, WalkTyped, ThreadsTyped, w
  <2>2. Len(log'[w.t]) >= Len(log[w.t]) /\ \A i \in 1..Len(log[w.t]) : log'[w.t][i] = log[w.t][i]
    <3>1. CASE log'[w.t] = log[w.t]
      BY <2>1, <3>1
    <3>2. CASE log'[w.t] # log[w.t]
      <4>1. PICK e \in Store!Events : log'[w.t] = Append(log[w.t], e)
        BY <2>1, <3>2 DEF Written
      <4>2. QED BY <2>1, <4>1, AppendProperties
    <3>3. QED BY <3>1, <3>2
  <2>3. \A i \in 1..w.end : log'[w.t][i] = log[w.t][i]
    BY <2>1, <2>2
  <2>4. SteadyItems' = {<<i, 0>> : i \in {j \in 1..w.end : log'[w.t][j].kind = "response_item"}}
    BY <1>2 DEF SteadyItems, v
  <2>5. SteadyItems' \subseteq SteadyItems
    BY <2>3, <2>4 DEF SteadyItems, w
  <2>6. Paged(v, SteadyItems')
    BY <1>2, <2>1, <2>5, PagedLess
  <2>7. QED BY <1>2, <2>1, <2>2, <2>6
<1>5. ASSUME v.of = "threads"
      PROVE  /\ Paged(v, SteadyThreads')
             /\ \A j \in 1..Len(v.got) : v.got[j][2] \in v.touched \/ \E t \in Threads : v.got[j] = <<row'[t].at, t>>
  <2>1. Paged(w, SteadyThreads)
    BY <1>2, <1>5 DEF WalkInv, w
  <2>2. \A t \in Threads \ d : row'[t] = row[t] /\ t \notin w.touched
    BY DEF Written, d, w
  <2>3. SteadyThreads' = {<<row'[t].at, t>> : t \in {s \in Threads \ d : row'[s].status = IF w.archived THEN "archived" ELSE "live"}}
    BY <1>2 DEF SteadyThreads, v
  <2>4. SteadyThreads' \subseteq SteadyThreads
    BY <2>2, <2>3 DEF SteadyThreads, w
  <2>5. Paged(v, SteadyThreads')
    BY <1>2, <2>1, <2>4, PagedLess
  <2>6. ASSUME NEW j \in 1..Len(v.got), v.got[j][2] \notin v.touched PROVE \E t \in Threads : v.got[j] = <<row'[t].at, t>>
    <3>1. v.got[j] = w.got[j] /\ j \in 1..Len(w.got) /\ w.got[j][2] \notin d
      BY <1>2, <2>6
    <3>2. w.got[j][2] \notin w.touched
      BY <3>1 DEF d, w
    <3>3. PICK t \in Threads : w.got[j] = <<row[t].at, t>>
      BY <1>2, <1>5, <3>1, <3>2 DEF WalkInv, w
    <3>4. t \in Threads \ d
      BY <3>1, <3>3
    <3>5. QED BY <2>2, <3>1, <3>3, <3>4
  <2>7. QED BY <2>5, <2>6
<1>6. QED BY <1>3, <1>4, <1>5 DEF WalkInv, v

\* A row of its own is written, and an event appended, to what is there.
LEMMA OneWritten ==
  ASSUME ThreadsTyped, NEW t \in Threads, Store!CreateThread(t) \/ Store!AppendItems(t) \/ Store!SetThreadAttributes(t)
  PROVE  /\ Written({t}) /\ UNCHANGED tx
         /\ \A s \in Threads : row'[s].status = "absent" => row[s].status = "absent"
<1> DEFINE x == row[t]
<1>1. /\ IsRow(x) /\ x.at \in 0..clock /\ clock \in 0..clock
      /\ row = [s \in Threads |-> row[s]] /\ log = [s \in Threads |-> log[s]]
  BY DEF ThreadsTyped, StoreShaped
<1>2. \E r : IsRow(r) /\ r.status \in Statuses /\ r.at \in 0..clock /\ row' = [row EXCEPT ![t] = r]
  <2>1. CASE Store!CreateThread(t)
    <3>1. PICK p : row' = [row EXCEPT ![t] = [Store!NoRow EXCEPT !.status = "live", !.parent = p, !.at = clock]]
      BY <2>1 DEF Store!CreateThread
    <3>2. IsRow(Store!NoRow)
      BY DEF Store!NoRow, IsRow
    <3> DEFINE n == Store!NoRow
               y == [n EXCEPT !.status = "live", !.parent = p, !.at = clock]
    <3>3. row' = [row EXCEPT ![t] = y]
      BY <3>1
    <3> HIDE DEF n
    <3>4. IsRow(y) /\ y.status \in Statuses /\ y.at = clock
      <4>1. IsRow(n)
        BY <3>2 DEF n
      <4>2. QED BY <4>1 DEF IsRow, Statuses
    <3> HIDE DEF y
    <3>5. QED BY <1>1, <3>3, <3>4
  <2>2. CASE Store!AppendItems(t)
    <3> DEFINE y == [x EXCEPT !.at = clock]
    <3>1. row' = [row EXCEPT ![t] = y] /\ x.status \in Statuses
      BY <2>2 DEF Store!AppendItems, Store!Visible, Statuses
    <3> HIDE DEF x
    <3>2. IsRow(y) /\ y.status \in Statuses /\ y.at = clock
      BY <1>1, <3>1 DEF IsRow
    <3> HIDE DEF y
    <3>3. QED BY <1>1, <3>1, <3>2
  <2>3. CASE Store!SetThreadAttributes(t)
    <3> DEFINE y == [x EXCEPT !.title = 1, !.at = clock]
    <3>1. row' = [row EXCEPT ![t] = y] /\ x.status \in Statuses
      BY <2>3 DEF Store!SetThreadAttributes, Store!Visible, Statuses
    <3> HIDE DEF x
    <3>2. IsRow(y) /\ y.status \in Statuses /\ y.at = clock
      BY <1>1, <3>1 DEF IsRow
    <3> HIDE DEF y
    <3>3. QED BY <1>1, <3>1, <3>2
  <2>4. QED BY <2>1, <2>2, <2>3
<1>3. PICK r : IsRow(r) /\ r.status \in Statuses /\ r.at \in 0..clock /\ row' = [row EXCEPT ![t] = r]
  BY <1>2
<1>4. row' = [s \in Threads |-> row'[s]] /\ row'[t] = r /\ \A s \in Threads \ {t} : row'[s] = row[s]
  BY <1>1, <1>3
<1>5. /\ log' = [s \in Threads |-> log'[s]] /\ \A s \in Threads \ {t} : log'[s] = log[s]
      /\ \/ log'[t] = log[t]
         \/ row[t].status # "absent" /\ Len(log[t]) < MaxSeq /\ \E e \in Store!Events : log'[t] = Append(log[t], e)
  <2>1. CASE Store!AppendItems(t)
    <3>1. PICK e \in Store!Events : log' = [log EXCEPT ![t] = Append(log[t], e)]
      BY <2>1 DEF Store!AppendItems
    <3>2. row[t].status # "absent" /\ Len(log[t]) < MaxSeq
      BY <2>1 DEF Store!AppendItems, Store!Visible
    <3>3. QED BY <1>1, <3>1, <3>2
  <2>2. CASE ~Store!AppendItems(t)
    BY <1>1, <2>2 DEF Store!CreateThread, Store!SetThreadAttributes
  <2>3. QED BY <2>1, <2>2
<1>6. clock' = clock /\ tx' = tx /\ walk' = [walk EXCEPT !.touched = @ \cup {t}]
  BY DEF Store!CreateThread, Store!AppendItems, Store!SetThreadAttributes, Store!Touch
<1>7. Written({t})
  BY <1>3, <1>4, <1>5, <1>6 DEF Written
<1>8. \A s \in Threads : row'[s].status = "absent" => row[s].status = "absent"
  BY <1>3, <1>4 DEF Statuses
<1>9. QED BY <1>6, <1>7, <1>8

\* So are the rows of a transaction, as its condition allows.
LEMMA ManyWritten ==
  ASSUME ThreadsTyped, TxsTyped, NEW x \in Txs,
         \/ Store!UpdateThreadMetadata(x) \/ Store!ArchiveThread(x)
         \/ Store!UnarchiveThread(x) \/ Store!DeleteThreads(x)
  PROVE  /\ \E S : Written(S)
         /\ tx' = [tx EXCEPT ![x] = Store!NoTx]
         /\ \A s \in Threads : row'[s].status = "absent" => row[s].status = "absent"
<1> DEFINE a == tx[x].at
           m == tx[x].meta
           n == tx[x].title
           R1(r) == [[r EXCEPT !.meta = m, !.title = n] EXCEPT !.at = a]
           R2(r) == [[r EXCEPT !.status = "archived"] EXCEPT !.at = a]
           R3(r) == [[r EXCEPT !.status = "live"] EXCEPT !.at = a]
           R4(r) == [[r EXCEPT !.status = "deleted"] EXCEPT !.at = a]
<1>1. \E S : /\ \/ row' = [t \in Threads |-> IF t \in S THEN R1(row[t]) ELSE row[t]]
                \/ row' = [t \in Threads |-> IF t \in S THEN R2(row[t]) ELSE row[t]]
                \/ row' = [t \in Threads |-> IF t \in S THEN R3(row[t]) ELSE row[t]]
                \/ row' = [t \in Threads |-> IF t \in S THEN R4(row[t]) ELSE row[t]]
             /\ \A t \in S : t \in tx[x].on /\ row[t].status # "absent"
             /\ walk' = [walk EXCEPT !.touched = @ \cup S] /\ tx' = [tx EXCEPT ![x] = Store!NoTx]
             /\ UNCHANGED <<log, clock>>
  <2>1. CASE Store!UpdateThreadMetadata(x)
    <3> DEFINE S == {t \in tx[x].on : Store!Visible(t)}
    <3>1. \A t \in S : t \in tx[x].on /\ row[t].status # "absent"
      BY DEF Store!Visible
    <3>2. /\ row' = [t \in Threads |-> IF t \in S THEN R1(row[t]) ELSE row[t]]
          /\ walk' = [walk EXCEPT !.touched = @ \cup S] /\ tx' = [tx EXCEPT ![x] = Store!NoTx] /\ UNCHANGED <<log, clock>>
      BY <2>1 DEF Store!UpdateThreadMetadata, Store!Write, Store!Touch
    <3> HIDE DEF S, R1
    <3>3. QED BY <3>1, <3>2
  <2>2. CASE Store!ArchiveThread(x)
    <3> DEFINE S == {t \in tx[x].on : Store!Visible(t)}
    <3>1. \A t \in S : t \in tx[x].on /\ row[t].status # "absent"
      BY DEF Store!Visible
    <3>2. /\ row' = [t \in Threads |-> IF t \in S THEN R2(row[t]) ELSE row[t]]
          /\ walk' = [walk EXCEPT !.touched = @ \cup S] /\ tx' = [tx EXCEPT ![x] = Store!NoTx] /\ UNCHANGED <<log, clock>>
      BY <2>2 DEF Store!ArchiveThread, Store!Write, Store!Touch
    <3> HIDE DEF S, R2
    <3>3. QED BY <3>1, <3>2
  <2>3. CASE Store!UnarchiveThread(x)
    <3> DEFINE S == {t \in tx[x].on : row[t].status = "archived"}
    <3>1. \A t \in S : t \in tx[x].on /\ row[t].status # "absent"
      OBVIOUS
    <3>2. /\ row' = [t \in Threads |-> IF t \in S THEN R3(row[t]) ELSE row[t]]
          /\ walk' = [walk EXCEPT !.touched = @ \cup S] /\ tx' = [tx EXCEPT ![x] = Store!NoTx] /\ UNCHANGED <<log, clock>>
      BY <2>3 DEF Store!UnarchiveThread, Store!Write, Store!Touch
    <3> HIDE DEF S, R3
    <3>3. QED BY <3>1, <3>2
  <2>4. CASE Store!DeleteThreads(x)
    <3> DEFINE S == {t \in tx[x].on : row[t].status # "absent"}
    <3>1. \A t \in S : t \in tx[x].on /\ row[t].status # "absent"
      OBVIOUS
    <3>2. /\ row' = [t \in Threads |-> IF t \in S THEN R4(row[t]) ELSE row[t]]
          /\ walk' = [walk EXCEPT !.touched = @ \cup S] /\ tx' = [tx EXCEPT ![x] = Store!NoTx] /\ UNCHANGED <<log, clock>>
      BY <2>4 DEF Store!DeleteThreads, Store!Write, Store!Touch
    <3> HIDE DEF S, R4
    <3>3. QED BY <3>1, <3>2
  <2>5. QED BY <2>1, <2>2, <2>3, <2>4
<1>2. ASSUME NEW t \in Threads, row[t].status # "absent", NEW r, r \in {R1(row[t]), R2(row[t]), R3(row[t]), R4(row[t])}
      PROVE  IsRow(r) /\ r.status \in Statuses /\ r.at \in 0..clock
  <2> DEFINE q == row[t]
  <2>1. IsRow(q) /\ q.status \in Statuses /\ a \in 0..clock
    BY <1>2 DEF ThreadsTyped, TxsTyped, StoreShaped, Statuses
  <2>2. r \in {R1(q), R2(q), R3(q), R4(q)}
    BY <1>2
  <2> HIDE DEF q, a, m, n
  <2>3. IsRow(r) /\ r.status \in {q.status} \cup Statuses /\ r.at = a
    <3>1. CASE r = R1(q)
      BY <2>1, <3>1 DEF IsRow
    <3>2. CASE r = R2(q)
      BY <2>1, <3>2 DEF IsRow, Statuses
    <3>3. CASE r = R3(q)
      BY <2>1, <3>3 DEF IsRow, Statuses
    <3>4. CASE r = R4(q)
      BY <2>1, <3>4 DEF IsRow, Statuses
    <3> HIDE DEF R1, R2, R3, R4
    <3>5. QED BY <2>2, <3>1, <3>2, <3>3, <3>4
  <2>4. QED BY <2>1, <2>3
<1> HIDE DEF R1, R2, R3, R4
<1>3. PICK S : /\ \/ row' = [t \in Threads |-> IF t \in S THEN R1(row[t]) ELSE row[t]]
                  \/ row' = [t \in Threads |-> IF t \in S THEN R2(row[t]) ELSE row[t]]
                  \/ row' = [t \in Threads |-> IF t \in S THEN R3(row[t]) ELSE row[t]]
                  \/ row' = [t \in Threads |-> IF t \in S THEN R4(row[t]) ELSE row[t]]
               /\ \A t \in S : t \in tx[x].on /\ row[t].status # "absent"
               /\ walk' = [walk EXCEPT !.touched = @ \cup S] /\ tx' = [tx EXCEPT ![x] = Store!NoTx]
               /\ UNCHANGED <<log, clock>>
  BY <1>1
<1>4. /\ row' = [t \in Threads |-> row'[t]]
      /\ \A t \in Threads \ S : row'[t] = row[t]
      /\ \A t \in Threads : t \in S => row'[t] \in {R1(row[t]), R2(row[t]), R3(row[t]), R4(row[t])}
  BY <1>3
<1>5. \A t \in Threads : t \in S => IsRow(row'[t]) /\ row'[t].status \in Statuses /\ row'[t].at \in 0..clock
  BY <1>2, <1>3, <1>4
<1>6. log' = [t \in Threads |-> log'[t]] /\ clock' = clock /\ \A t \in Threads : log'[t] = log[t]
  BY <1>3 DEF ThreadsTyped, StoreShaped
<1>7. Written(S)
  BY <1>3, <1>4, <1>5, <1>6 DEF Written
<1>8. \A s \in Threads : row'[s].status = "absent" => row[s].status = "absent"
  BY <1>4, <1>5 DEF Statuses
<1>9. QED BY <1>3, <1>7, <1>8

\* Transactions that end, or begin with what they have read.
LEMMA TxEnds ==
  ASSUME TxsTyped, ThreadsTyped, NEW x \in Txs, tx' = [tx EXCEPT ![x] = Store!NoTx], clock' = clock
  PROVE  TxsTyped'
<1>1. IsTx(Store!NoTx) /\ Store!NoTx.op = "none" /\ Store!NoTx.on = {} /\ Store!NoTx.at = 0
  BY DEF Store!NoTx, IsTx
<1>2. tx' = [y \in Txs |-> tx'[y]] /\ \A y \in Txs : tx'[y] = IF y = x THEN Store!NoTx ELSE tx[y]
  BY DEF TxsTyped
<1>3. 0 \in 0..clock
  BY DEF ThreadsTyped, Store!StoreAssumption
<1>4. QED BY <1>1, <1>2, <1>3 DEF TxsTyped

LEMMA TxBegins ==
  ASSUME ThreadsTyped, TxsTyped, NEW x \in Txs, Store!BeginUpdate(x) \/ Store!BeginArchive(x) \/ Store!BeginDelete(x)
  PROVE  TxsTyped' /\ UNCHANGED <<row, log, clock, walk>>
<1>1. UNCHANGED <<row, log, clock, walk>>
  BY DEF Store!BeginUpdate, Store!BeginArchive, Store!BeginDelete
<1>2. clock \in 0..clock
  BY DEF ThreadsTyped
<1>3. \E r : IsTx(r) /\ r.op \in Store!Ops /\ r.on \subseteq Threads /\ r.at = clock /\ tx' = [tx EXCEPT ![x] = r]
  <2>1. CASE Store!BeginUpdate(x)
    <3>1. \E t \in Threads : \E m, n : tx' = [tx EXCEPT ![x] = [op |-> "patch", on |-> {t}, meta |-> m, at |-> clock, title |-> n]]
      BY <2>1 DEF Store!BeginUpdate
    <3>2. PICK t \in Threads : \E m, n : tx' = [tx EXCEPT ![x] = [op |-> "patch", on |-> {t}, meta |-> m, at |-> clock, title |-> n]]
      BY <3>1
    <3>3. PICK m, n : tx' = [tx EXCEPT ![x] = [op |-> "patch", on |-> {t}, meta |-> m, at |-> clock, title |-> n]]
      BY <3>2
    <3> DEFINE r == [op |-> "patch", on |-> {t}, meta |-> m, at |-> clock, title |-> n]
    <3>4. IsTx(r) /\ r.op \in Store!Ops /\ r.on \subseteq Threads /\ r.at = clock
      BY DEF IsTx, Store!Ops
    <3>5. tx' = [tx EXCEPT ![x] = r]
      BY <3>3
    <3> HIDE DEF r
    <3>6. QED BY <3>4, <3>5
  <2>2. CASE Store!BeginArchive(x) \/ Store!BeginDelete(x)
    <3>1. \E S \in SUBSET Threads : \E op \in Store!Ops :
            tx' = [tx EXCEPT ![x] = [Store!NoTx EXCEPT !.op = op, !.on = S, !.at = clock]]
      BY <2>2 DEF Store!BeginArchive, Store!BeginDelete, Store!Ops
    <3>2. PICK S \in SUBSET Threads, op \in Store!Ops :
            tx' = [tx EXCEPT ![x] = [Store!NoTx EXCEPT !.op = op, !.on = S, !.at = clock]]
      BY <3>1
    <3> DEFINE z == Store!NoTx
               r == [z EXCEPT !.op = op, !.on = S, !.at = clock]
    <3>3. IsTx(z)
      BY DEF Store!NoTx, IsTx
    <3>4. tx' = [tx EXCEPT ![x] = r]
      BY <3>2
    <3> HIDE DEF z
    <3>5. IsTx(r) /\ r.op = op /\ r.on = S /\ r.at = clock
      BY <3>3 DEF IsTx
    <3> HIDE DEF r
    <3>6. QED BY <3>4, <3>5
  <2>3. QED BY <2>1, <2>2
<1>4. PICK r : IsTx(r) /\ r.op \in Store!Ops /\ r.on \subseteq Threads /\ r.at = clock /\ tx' = [tx EXCEPT ![x] = r]
  BY <1>3
<1>5. tx' = [y \in Txs |-> tx'[y]] /\ \A y \in Txs : tx'[y] = IF y = x THEN r ELSE tx[y]
  BY <1>4 DEF TxsTyped
<1>6. TxsTyped'
  BY <1>1, <1>2, <1>4, <1>5 DEF TxsTyped
<1>7. QED BY <1>1, <1>6

\* The clock only moves forward.
LEMMA TickKeeps ==
  ASSUME Store!StoreAssumption, StoreInv, Store!Tick
  PROVE  StoreInv'
<1>1. /\ clock \in 0..MaxClock /\ clock + 1 \in 0..MaxClock /\ clock' = clock + 1 /\ UNCHANGED <<row, log, tx, walk>>
      /\ \A n \in 0..clock : n \in 0..(clock + 1)
  BY DEF StoreInv, ThreadsTyped, Store!Tick, Store!StoreAssumption
<1>2. ThreadsTyped' /\ TxsTyped'
  BY <1>1 DEF StoreInv, ThreadsTyped, TxsTyped, StoreShaped
<1>3. WalkTyped' /\ WalkInv'
  BY <1>1 DEF StoreInv, WalkTyped, WalkInv, SteadyItems, SteadyThreads
<1>4. QED BY <1>2, <1>3 DEF StoreInv

\* A walk ends, or has not begun.
LEMMA NoWalkKeeps ==
  ASSUME walk' = Store!NoWalk
  PROVE  WalkTyped' /\ WalkInv'
<1> DEFINE v == walk'
<1>1. IsWalk(v) /\ v.of = "none" /\ v.pc = "none"
  BY DEF Store!NoWalk, IsWalk
<1> HIDE DEF v
<1>2. QED BY <1>1 DEF WalkTyped, WalkInv, v

LEMMA NothingPaged ==
  ASSUME NEW w, w.got = <<>>, w.from = None, w.pc = "page", NEW K
  PROVE  Paged(w, K) /\ Len(w.got) = 0
<1>1. w.got \in Seq(Keys) /\ Len(w.got) = 0
  BY EmptySeq
<1>2. 1..Len(w.got) = {}
  BY <1>1
<1>3. \A k : Store!Beyond(w, k)
  BY DEF Store!Beyond
<1>4. QED BY <1>1, <1>2, <1>3 DEF Paged, Ascends

LEMMA BeginWalkKeeps ==
  ASSUME Store!StoreAssumption, StoreInv, Store!BeginWalk
  PROVE  WalkTyped' /\ WalkInv'
<1>1. PICK of \in Walks, t \in Threads, a \in BOOLEAN, d \in BOOLEAN :
        walk' = [Store!NoWalk EXCEPT !.of = of, !.pc = "page", !.t = t, !.archived = a, !.desc = d, !.end = Len(log[t])]
  BY DEF Store!BeginWalk
<1> DEFINE z == Store!NoWalk
           v == walk'
           l == Len(log[t])
<1>2. v = [z EXCEPT !.of = of, !.pc = "page", !.t = t, !.archived = a, !.desc = d, !.end = l]
  BY <1>1
<1>3. IsWalk(z) /\ z.from = None /\ z.got = <<>>
  BY DEF Store!NoWalk, IsWalk
<1> HIDE DEF z, v, l
<1>4. IsWalk(v) /\ v.of = of /\ v.pc = "page" /\ v.t = t /\ v.end = l /\ v.from = None /\ v.got = <<>>
  BY <1>2, <1>3 DEF IsWalk
<1>5. UNCHANGED <<row, log>> /\ of # "none"
  BY DEF Store!BeginWalk, Store!StoreAssumption
<1>6. \A K : Paged(v, K)
  BY <1>4, NothingPaged
<1>7. Len(v.got) = 0 /\ 1..Len(v.got) = {}
  BY <1>4, EmptySeq
<1>8. l \in Nat /\ l <= l /\ l = Len(log'[t])
  BY <1>5 DEF l, StoreInv, ThreadsTyped
<1>9. WalkTyped'
  BY <1>4, <1>5 DEF WalkTyped, v
<1>10. WalkInv'
  BY <1>4, <1>6, <1>7, <1>8 DEF WalkInv, v
<1>11. QED BY <1>9, <1>10

\* What there is to list: the threads of a status, and the items of a thread.
LEMMA ListedThreads ==
  ASSUME Store!StoreAssumption, ThreadsTyped
  PROVE  /\ Store!ListThreads(walk) \subseteq Keys /\ IsFiniteSet(Store!ListThreads(walk))
         /\ \A k \in Store!ListThreads(walk) : Store!Beyond(walk, k) /\ \E t \in Threads : k = <<row[t].at, t>>
         /\ \A k \in SteadyThreads : k \in Keys /\ (Store!Beyond(walk, k) => k \in Store!ListThreads(walk))
<1>1. \A t \in Threads : t \in Nat /\ row[t].at \in Nat
  <2>1. \A t \in Threads : row[t].at \in 0..clock
    BY DEF ThreadsTyped
  <2>2. \A n \in 0..clock : n \in Nat
    OBVIOUS
  <2>3. QED BY <2>1, <2>2 DEF Store!StoreAssumption
<1> DEFINE S == {s \in Threads : row[s].status = IF walk.archived THEN "archived" ELSE "live"}
           I == {<<row[t].at, t>> : t \in S}
<1>2. IsFiniteSet(S)
  <2>1. IsFiniteSet(Threads)
    BY DEF Store!StoreAssumption, Store!IsFiniteSet, IsFiniteSet
  <2>2. QED BY <2>1, FS_Subset
<1>3. IsFiniteSet(I)
  <2> DEFINE f == [t \in S |-> <<row[t].at, t>>]
  <2> HIDE DEF S
  <2>1. f \in Surjection(S, I)
    BY DEF Surjection
  <2>2. QED BY <1>2, <2>1, FS_Surjection
<1>4. Store!ListThreads(walk) = {k \in I : Store!Beyond(walk, k)}
  BY DEF Store!ListThreads
<1>5. IsFiniteSet(Store!ListThreads(walk))
  BY <1>3, <1>4, FS_Subset
<1>6. \A k \in I : k \in Keys /\ \E t \in Threads : k = <<row[t].at, t>>
  BY <1>1 DEF Keys
<1>7. SteadyThreads \subseteq I
  BY DEF SteadyThreads
<1> HIDE DEF I
<1>8. QED BY <1>4, <1>5, <1>6, <1>7

LEMMA ListedItems ==
  ASSUME ThreadsTyped, WalkTyped, walk.of = "items", walk.end \in Nat, walk.end <= Len(log[walk.t])
  PROVE  /\ Store!ListItems(walk) \subseteq Keys /\ IsFiniteSet(Store!ListItems(walk))
         /\ \A k \in Store!ListItems(walk) : Store!Beyond(walk, k)
         /\ \A k \in SteadyItems : k \in Keys /\ (Store!Beyond(walk, k) => k \in Store!ListItems(walk))
<1> DEFINE l == log[walk.t]
           S == {j \in DOMAIN l : l[j].kind = "response_item"}
           I == {<<i, 0>> : i \in S}
<1>1. l \in Seq(Store!Events) /\ DOMAIN l = 1..Len(l) /\ Len(l) \in Nat
  BY DEF ThreadsTyped, WalkTyped
<1>2. IsFiniteSet(S) /\ \A j \in S : j \in Nat
  <2>1. IsFiniteSet(1..Len(l))
    BY <1>1, FS_Interval
  <2>2. QED BY <1>1, <2>1, FS_Subset
<1>3. IsFiniteSet(I)
  <2> DEFINE f == [i \in S |-> <<i, 0>>]
  <2> HIDE DEF S
  <2>1. f \in Surjection(S, I)
    BY DEF Surjection
  <2>2. QED BY <1>2, <2>1, FS_Surjection
<1>4. Store!ListItems(walk) = {k \in I : Store!Beyond(walk, k)}
  BY DEF Store!ListItems
<1>5. IsFiniteSet(Store!ListItems(walk))
  BY <1>3, <1>4, FS_Subset
<1>6. \A k \in I : k \in Keys
  BY <1>2 DEF Keys
<1>7. SteadyItems \subseteq I
  BY <1>1 DEF SteadyItems
<1> HIDE DEF I
<1>8. QED BY <1>4, <1>5, <1>6, <1>7

\* The next page shows what is beyond the cursor now.
LEMMA NextPageKeeps ==
  ASSUME Store!StoreAssumption, StoreInv, Store!NextPage
  PROVE  WalkTyped' /\ WalkInv'
<1> DEFINE w == walk
           v == walk'
<1>1. w.pc = "page" /\ UNCHANGED <<row, log>> /\ IsWalk(w) /\ ThreadsTyped /\ WalkTyped /\ WalkInv
  BY DEF Store!NextPage, StoreInv, WalkTyped
<1>2. w.of \in {"threads", "items", "turns"} /\ w.t \in Threads
  BY <1>1 DEF WalkTyped, Store!StoreAssumption
<1>3. \E L : /\ v = Paging(w, Store!Sorted(w, L))
             /\ w.of = "threads" => L = Store!ListThreads(w)
             /\ w.of = "items" => L = Store!ListItems(w)
  <2> DEFINE L == CASE w.of = "threads" -> Store!ListThreads(w)
                    [] w.of = "items" -> Store!ListItems(w)
                    [] w.of = "turns" -> Store!ListTurns(w)
  <2>1. v = Paging(w, Store!Sorted(w, L))
    BY DEF Store!NextPage, Paging
  <2>2. /\ w.of = "threads" => L = Store!ListThreads(w)
        /\ w.of = "items" => L = Store!ListItems(w)
    OBVIOUS
  <2> HIDE DEF L
  <2>3. QED BY <2>1, <2>2
<1>4. PICK L : /\ v = Paging(w, Store!Sorted(w, L))
               /\ w.of = "threads" => L = Store!ListThreads(w)
               /\ w.of = "items" => L = Store!ListItems(w)
  BY <1>3
<1>5. SameWalk(v, w)
  <2> DEFINE s == Store!Sorted(w, L)
  <2>1. v = Paging(w, s)
    BY <1>4
  <2> HIDE DEF s, v, w
  <2>2. QED BY <1>1, <2>1, PageFields
<1>6. WalkTyped'
  <2>1. v.of = w.of /\ v.t = w.t /\ IsWalk(v) /\ v.pc \in {"page", "done"}
    BY <1>5 DEF SameWalk
  <2>2. QED BY <1>1, <1>2, <2>1 DEF WalkTyped
<1>7. CASE w.of = "threads"
  <2>1. Paged(w, SteadyThreads) /\ SteadyThreads \subseteq Keys
    BY <1>1, <1>7, ListedThreads DEF WalkInv
  <2>2. /\ L \subseteq Keys /\ IsFiniteSet(L) /\ \A k \in L : Store!Beyond(w, k) /\ \E t \in Threads : k = <<row[t].at, t>>
        /\ \A k \in SteadyThreads : Store!Beyond(w, k) => k \in L
    BY <1>1, <1>4, <1>7, ListedThreads
  <2>3. /\ Paged(v, SteadyThreads)
        /\ \A j \in 1..Len(v.got) : v.got[j] \in L \/ \E i \in 1..Len(w.got) : v.got[j] = w.got[i]
    <3> DEFINE K == SteadyThreads
    <3> HIDE DEF K, w, v
    <3>1. Paged(w, K) /\ K \subseteq Keys /\ \A k \in K : Store!Beyond(w, k) => k \in L
      BY <2>1, <2>2 DEF K
    <3>2. w.of # "turns"
      BY <1>7
    <3>3. LET u == Paging(w, Store!Sorted(w, L))
          IN  /\ SameWalk(u, w) /\ Paged(u, K)
              /\ \A j \in 1..Len(u.got) : u.got[j] \in L \/ \E i \in 1..Len(w.got) : u.got[j] = w.got[i]
      BY <1>1, <2>2, <3>1, <3>2, PageKeeps
    <3>4. QED BY <1>4, <3>3 DEF K
  <2>4. \A i \in 1..Len(w.got) : w.got[i][2] \in w.touched \/ \E t \in Threads : w.got[i] = <<row[t].at, t>>
    BY <1>1, <1>7 DEF WalkInv
  <2>5. \A j \in 1..Len(v.got) : v.got[j][2] \in w.touched \/ \E t \in Threads : v.got[j] = <<row[t].at, t>>
    BY <2>2, <2>3, <2>4
  <2>6. v.of = "threads" /\ v.touched = w.touched /\ v.archived = w.archived
    BY <1>5, <1>7 DEF SameWalk
  <2>7. SteadyThreads' = SteadyThreads
    BY <1>1, <2>6 DEF SteadyThreads
  <2>8. WalkInv'
    BY <1>1, <2>3, <2>5, <2>6, <2>7 DEF WalkInv
  <2>9. QED BY <1>6, <2>8
<1>8. CASE w.of = "items"
  <2>1. Paged(w, SteadyItems) /\ w.end \in Nat /\ w.end <= Len(log[w.t])
    BY <1>1, <1>8 DEF WalkInv
  <2>2. /\ L \subseteq Keys /\ IsFiniteSet(L) /\ \A k \in L : Store!Beyond(w, k)
        /\ \A k \in SteadyItems : k \in Keys /\ (Store!Beyond(w, k) => k \in L)
    BY <1>1, <1>4, <1>8, <2>1, ListedItems
  <2>3. Paged(v, SteadyItems)
    <3> DEFINE K == SteadyItems
    <3> HIDE DEF K, w, v
    <3>1. Paged(w, K) /\ K \subseteq Keys /\ \A k \in K : Store!Beyond(w, k) => k \in L
      BY <2>1, <2>2 DEF K
    <3>2. w.of # "turns"
      BY <1>8
    <3>3. LET u == Paging(w, Store!Sorted(w, L))
          IN  /\ SameWalk(u, w) /\ Paged(u, K)
              /\ \A j \in 1..Len(u.got) : u.got[j] \in L \/ \E i \in 1..Len(w.got) : u.got[j] = w.got[i]
      BY <1>1, <2>2, <3>1, <3>2, PageKeeps
    <3>4. QED BY <1>4, <3>3 DEF K
  <2>4. v.of = "items" /\ v.end = w.end /\ v.t = w.t
    BY <1>5, <1>8 DEF SameWalk
  <2>5. SteadyItems' = SteadyItems
    BY <1>1, <2>4 DEF SteadyItems
  <2>6. WalkInv'
    BY <1>1, <2>1, <2>3, <2>4, <2>5 DEF WalkInv
  <2>7. QED BY <1>6, <2>6
<1>9. CASE w.of = "turns"
  BY <1>5, <1>6, <1>9 DEF SameWalk, WalkInv
<1>10. QED BY <1>2, <1>7, <1>8, <1>9

\* There is nothing to page through at first.
LEMMA InitPages == Store!StoreAssumption /\ Store!Init => StoreInv
<1> SUFFICES ASSUME Store!StoreAssumption, Store!Init PROVE StoreInv
  OBVIOUS
<1>1. clock = 0 /\ 0 \in 0..0 /\ 0 \in 0..MaxClock /\ MaxSeq \in Nat
  BY DEF Store!Init, Store!StoreAssumption
<1>2. ThreadsTyped
  <2>1. Len(<<>>) = 0 /\ <<>> \in Seq(Store!Events) /\ 0 <= MaxSeq
    BY <1>1, EmptySeq
  <2>2. Store!NoRow.status = "absent" /\ Store!NoRow.at = 0
    BY DEF Store!NoRow
  <2>3. \A t \in Threads : row[t] = Store!NoRow /\ log[t] = <<>>
    BY DEF Store!Init
  <2>4. QED BY <1>1, <2>1, <2>2, <2>3, InitStore DEF ThreadsTyped
<1>3. TxsTyped
  <2>1. IsTx(Store!NoTx) /\ Store!NoTx.op = "none" /\ Store!NoTx.on = {} /\ Store!NoTx.at = 0
    BY DEF Store!NoTx, IsTx
  <2>2. tx = [x \in Txs |-> tx[x]] /\ \A x \in Txs : tx[x] = Store!NoTx
    BY DEF Store!Init
  <2>3. QED BY <1>1, <2>1, <2>2 DEF TxsTyped
<1>4. WalkTyped /\ WalkInv
  <2>1. walk = Store!NoWalk
    BY DEF Store!Init
  <2>2. IsWalk(walk) /\ walk.of = "none" /\ walk.pc = "none"
    BY <2>1 DEF Store!NoWalk, IsWalk
  <2>3. QED BY <2>2 DEF WalkTyped, WalkInv
<1>5. QED BY <1>2, <1>3, <1>4 DEF StoreInv

LEMMA NextPages == Store!StoreAssumption /\ StoreInv /\ [Store!Next]_(Store!storeVars) => StoreInv'
<1> SUFFICES ASSUME Store!StoreAssumption, StoreInv, [Store!Next]_(Store!storeVars) PROVE StoreInv'
  OBVIOUS
<1>1. CASE \E t \in Threads : Store!CreateThread(t) \/ Store!AppendItems(t) \/ Store!SetThreadAttributes(t)
  <2>1. PICK t \in Threads : Store!CreateThread(t) \/ Store!AppendItems(t) \/ Store!SetThreadAttributes(t)
    BY <1>1
  <2>2. Written({t}) /\ UNCHANGED tx /\ \A s \in Threads : row'[s].status = "absent" => row[s].status = "absent"
    BY <2>1, OneWritten DEF StoreInv
  <2>3. ThreadsTyped' /\ WalkTyped' /\ WalkInv'
    BY <2>2, WrittenTyped, WrittenWalk DEF StoreInv
  <2>4. TxsTyped'
    BY <2>2 DEF StoreInv, TxsTyped, Written
  <2>5. QED BY <2>3, <2>4 DEF StoreInv
<1>2. CASE \E x \in Txs : \/ Store!UpdateThreadMetadata(x) \/ Store!ArchiveThread(x)
                          \/ Store!UnarchiveThread(x) \/ Store!DeleteThreads(x)
  <2>1. PICK x \in Txs : \/ Store!UpdateThreadMetadata(x) \/ Store!ArchiveThread(x)
                         \/ Store!UnarchiveThread(x) \/ Store!DeleteThreads(x)
    BY <1>2
  <2>2. /\ \E S : Written(S)
        /\ tx' = [tx EXCEPT ![x] = Store!NoTx]
        /\ \A s \in Threads : row'[s].status = "absent" => row[s].status = "absent"
    BY <2>1, ManyWritten DEF StoreInv
  <2>3. ThreadsTyped' /\ WalkTyped' /\ WalkInv'
    BY <2>2, WrittenTyped, WrittenWalk DEF StoreInv
  <2>4. clock' = clock
    BY <2>2 DEF Written
  <2>5. TxsTyped'
    BY <2>2, <2>4, TxEnds DEF StoreInv
  <2>6. QED BY <2>3, <2>5 DEF StoreInv
<1>3. CASE \E x \in Txs : Store!BeginUpdate(x) \/ Store!BeginArchive(x) \/ Store!BeginDelete(x)
  <2>1. TxsTyped' /\ UNCHANGED <<row, log, clock, walk>>
    BY <1>3, TxBegins DEF StoreInv
  <2>2. QED BY <2>1 DEF StoreInv, ThreadsTyped, StoreShaped, WalkTyped, WalkInv, SteadyItems, SteadyThreads
<1>4. CASE Store!Tick
  BY <1>4, TickKeeps
<1>5. CASE Store!BeginWalk \/ Store!NextPage \/ Store!EndWalk
  <2>1. WalkTyped' /\ WalkInv'
    BY <1>5, BeginWalkKeeps, NextPageKeeps, NoWalkKeeps DEF Store!EndWalk
  <2>2. UNCHANGED <<row, log, clock, tx>>
    BY <1>5 DEF Store!BeginWalk, Store!NextPage, Store!EndWalk
  <2>3. QED BY <2>1, <2>2 DEF StoreInv, ThreadsTyped, StoreShaped, TxsTyped
<1>6. CASE UNCHANGED Store!storeVars
  BY <1>6 DEF Store!storeVars, StoreInv, ThreadsTyped, StoreShaped, TxsTyped, WalkTyped, WalkInv, SteadyItems, SteadyThreads
<1>7. QED BY <1>1, <1>2, <1>3, <1>4, <1>5, <1>6 DEF Store!Next

\* What the invariant says of a walk that has come to a place.
LEMMA ItemsExact == StoreInv => Store!ItemWalkExact
<1> SUFFICES ASSUME StoreInv, walk.of = "items" PROVE Store!ItemWalkExact
  BY DEF Store!ItemWalkExact
<1>1. Paged(walk, SteadyItems)
  BY DEF StoreInv, WalkInv
<1>2. walk.got \in Seq(Keys) /\ DOMAIN walk.got = 1..Len(walk.got)
  BY <1>1 DEF Paged
<1>3. Store!Ordered
  BY <1>1, <1>2 DEF Paged, Ascends, Store!Ordered
<1>4. ASSUME NEW i \in 1..walk.end, log[walk.t][i].kind = "response_item", walk.pc = "done" \/ ~Store!Beyond(walk, <<i, 0>>)
      PROVE  \E j \in DOMAIN walk.got : walk.got[j] = <<i, 0>>
  <2>1. <<i, 0>> \in SteadyItems
    BY <1>4 DEF SteadyItems
  <2>2. QED BY <1>1, <1>2, <1>4, <2>1 DEF Paged
<1>5. QED BY <1>3, <1>4 DEF Store!ItemWalkExact

LEMMA ThreadsExact == Store!StoreAssumption /\ StoreInv => Store!ThreadWalkExact
<1> SUFFICES ASSUME Store!StoreAssumption, StoreInv, walk.of = "threads" PROVE Store!ThreadWalkExact
  BY DEF Store!ThreadWalkExact
<1>1. Paged(walk, SteadyThreads)
  BY DEF StoreInv, WalkInv
<1>2. walk.got \in Seq(Keys) /\ DOMAIN walk.got = 1..Len(walk.got) /\ Len(walk.got) \in Nat
  BY <1>1 DEF Paged
<1>3. ASSUME NEW t \in Threads \ walk.touched
      PROVE  LET hits == {i \in DOMAIN walk.got : walk.got[i][2] = t}
             IN  /\ Store!Cardinality(hits) <= 1
                 /\ walk.pc = "done" /\ row[t].status = (IF walk.archived THEN "archived" ELSE "live") => hits # {}
  <2> DEFINE hits == {i \in DOMAIN walk.got : walk.got[i][2] = t}
  <2>1. \A i \in hits : i \in 1..Len(walk.got) /\ walk.got[i] = <<row[t].at, t>> /\ walk.got[i] \in Keys
    BY <1>2, <1>3 DEF StoreInv, WalkInv
  <2>2. \A i, j \in hits : i = j
    <3>1. ASSUME NEW i \in hits, NEW j \in hits, i < j PROVE FALSE
      <4>1. Store!Precedes(walk, walk.got[i], walk.got[j])
        BY <1>1, <2>1, <3>1 DEF Paged, Ascends
      <4>2. walk.got[i] = walk.got[j] /\ walk.got[i] \in Keys
        BY <2>1
      <4>3. QED BY <4>1, <4>2, KeysOrdered
    <3>2. \A i \in hits : i \in Nat
      BY <1>2, <2>1
    <3> HIDE DEF hits
    <3>3. QED BY <3>1, <3>2
  <2>3. Cardinality(hits) <= 1
    <3>1. CASE hits = {}
      BY <3>1, FS_EmptySet
    <3>2. CASE hits # {}
      <4>1. PICK i \in hits : hits = {i}
        <5> HIDE DEF hits
        <5>1. QED BY <2>2, <3>2
      <4>2. Cardinality({i}) = 1
        BY FS_Singleton
      <4> HIDE DEF hits
      <4>3. QED BY <4>1, <4>2
    <3>3. QED BY <3>1, <3>2
  <2>4. Store!Cardinality(hits) = Cardinality(hits)
    BY DEF Store!Cardinality, Cardinality, Store!IsFiniteSet, IsFiniteSet
  <2>5. ASSUME walk.pc = "done", row[t].status = (IF walk.archived THEN "archived" ELSE "live") PROVE hits # {}
    <3>1. <<row[t].at, t>> \in SteadyThreads
      BY <1>3, <2>5 DEF SteadyThreads
    <3>2. PICK j \in 1..Len(walk.got) : walk.got[j] = <<row[t].at, t>>
      BY <1>1, <2>5, <3>1 DEF Paged
    <3>3. j \in hits
      BY <1>2, <3>2
    <3>4. QED BY <3>3
  <2>6. QED BY <2>3, <2>4, <2>5
<1>4. QED BY <1>3 DEF Store!ThreadWalkExact

LEMMA StoreTypes == Store!StoreAssumption /\ StoreInv => Store!TypeOK
<1> SUFFICES ASSUME Store!StoreAssumption, StoreInv PROVE Store!TypeOK
  OBVIOUS
<1>1. clock \in 0..MaxClock /\ MaxClock \in Nat
  BY DEF Store!StoreAssumption, StoreInv, ThreadsTyped
<1>2. clock <= MaxClock /\ \A n \in 0..clock : n <= clock
  BY <1>1
<1>3. QED BY <1>2 DEF Store!TypeOK, StoreInv, ThreadsTyped, TxsTyped, WalkTyped, Statuses

\* ItemWalkExact and ThreadWalkExact: following the cursors of ListItems and ListThreads
\* shows every item that was there, and every thread nobody writes, once and in order,
\* however long the log and the list are and whoever writes meanwhile.
THEOREM WalksCorrect == ASSUME Store!StoreAssumption PROVE Store!Spec => [](Store!ItemWalkExact /\ Store!ThreadWalkExact)
<1>1. Store!Spec => []StoreInv
  BY InitPages, NextPages, PTL DEF Store!Spec
<1>2. StoreInv => Store!ItemWalkExact /\ Store!ThreadWalkExact
  BY ItemsExact, ThreadsExact
<1>3. QED BY <1>1, <1>2, PTL

\* TypeOK: rows, logs, transactions and walks are what the columns allow.
THEOREM StoreTypesCorrect == ASSUME Store!StoreAssumption PROVE Store!Spec => []Store!TypeOK
<1>1. Store!Spec => []StoreInv
  BY InitPages, NextPages, PTL DEF Store!Spec
<1>2. QED BY <1>1, StoreTypes, PTL
=============================================================================
