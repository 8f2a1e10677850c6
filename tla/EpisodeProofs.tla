---------------------------- MODULE EpisodeProofs ----------------------------
(* Theorems about Episode, for every value of its constants. *)
EXTENDS Episode, TLAPS

-----------------------------------------------------------------------------
(* How long the worker has to wait for its verdict to stay true.           *)

\* The watchdog outwaits an episode that starts late and admits its last
\* payment just before its deadline.  With the shipped 300 s it does, while
\* Slack is at most 150 s.
GraceSuffices == 0 < EpisodeTime /\ 2 * Slack <= Grace

\* A step by which the worker does not cut an episode short: it follows a
\* decided payment up until that is settled, the planner has wrapped up and
\* the last payment admitted meanwhile is over.  The shipped 45 s end sooner
\* than the wrapup's 90 s, so only a planner that is done by itself, or the
\* watchdog, ends the waiting by such steps alone.
NotCutShort == FollowUpOver => Wrapup + 2 * Slack <= now - settledAt

-----------------------------------------------------------------------------
(* The inductive invariant.                                                *)

\* When the last payment that a planner can be admitted to is over.
LastDue == EpisodeTime + 2 * Slack

\* What may still touch the ledger or the decisions.
Paying(s) == calls[s].stage \in {"judge", "ledger", "record"}

\* The deadline that a call is about to compute or to write.
Settling(s) == calls[s].stage \in {"settle", "write"}

\* The clock waits for running code, a payment was admitted in time, and no
\* deadline under way is later than the wrapup or the episode allows.
CallInTime(s) ==
    /\ calls[s].stage \in Timed => now <= calls[s].due /\ calls[s].due <= now + Slack
    /\ Paying(s) => calls[s].due < LastDue
    /\ Settling(s) => calls[s].job <= now + Wrapup
    /\ calls[s].stage = "write" => calls[s].job <= EpisodeTime + Slack

InTime ==
    /\ \A s \in Slots : CallInTime(s)
    /\ worker = "start" => now = 0
    /\ planner = "starting" => now <= Slack
    /\ deadline <= EpisodeTime + Slack

\* A thread that has not begun did nothing, one that has ended does nothing.
Idling ==
    /\ planner \in {"off", "starting", "finished"} => AllIdle
    /\ planner \in {"off", "starting"} =>
           ~paymentDecided /\ ledger = <<>> /\ decisions = <<>>
    /\ worker = "start" => planner = "off"
    /\ worker # "watching" => settledAt = None
    /\ worker = "watching" => planner # "off"
    /\ report # None => worker = "reported"

Executed == \E k \in 1..Len(decisions) : decisions[k] = "EXECUTED"

\* The decisions and the ledger differ by the payment about to be recorded.
LedgerRecorded ==
    /\ Executed => ledger # <<>>
    /\ \A s \in Slots : calls[s].stage = "record" /\ calls[s].job = "EXECUTED" => ledger # <<>>
    /\ ledger # <<>> =>
           Executed \/ \E s \in Slots : calls[s].stage = "record" /\ calls[s].job = "EXECUTED"

\* A decision settles the verdict as soon as its call is answered.
DecisionSettles ==
    decisions # <<>> =>
        paymentDecided \/ \E s \in Slots : calls[s].stage = "answer" /\ calls[s].due < LastDue

\* Settling brings the deadline to within the wrapup.
SettledSoon ==
    paymentDecided => deadline <= now + Wrapup \/ \E s \in Slots : Settling(s)

\* Neither the deadline nor one that a call is about to write is beyond limit.
Near(limit) ==
    /\ deadline <= limit
    /\ \A s \in Slots : calls[s].stage = "write" => calls[s].job <= limit

\* The latest deadline after the worker has seen the payment decided.
Limit == settledAt + Slack + Wrapup

\* What the worker may rely on once it has seen the payment decided.
WrapsUp ==
    worker = "watching" /\ settledAt # None =>
        /\ paymentDecided
        /\ settledAt <= now
        /\ Near(Limit) \/ \E s \in Slots : Settling(s) /\ calls[s].due <= settledAt + Slack
        /\ 0 < Wrapup =>
               \A s \in Slots : Paying(s) => calls[s].due < Limit + Slack

Promises ==
    /\ InTime
    /\ Idling
    /\ LedgerRecorded
    /\ DecisionSettles
    /\ SettledSoon
    /\ WrapsUp

IInv == TypeOK /\ Promises

\* Nothing that could reach the ledger or the decisions is under way, and
\* nothing more will be admitted.
Quiet ==
    /\ \A s \in Slots : ~Paying(s)
    /\ planner # "starting"
    /\ Near(now) \/ planner \in {"off", "finished"}

\* What the worker knows after it gave up.
GivenUp ==
    /\ worker \in {"read_decisions", "read_ledger", "read_attempts", "conclude"} /\ abandoned =>
           Quiet /\ WatchUntil <= now
    /\ report # None /\ report.status = "TIMED_OUT" => Quiet /\ decisions = <<>>

\* What the worker has read is what there is.
SeenIsTrue ==
    /\ worker \notin {"start", "watching"} => Quiet
    /\ worker \in {"read_ledger", "read_attempts", "conclude"} => seen.recorded = decisions
    /\ worker \in {"read_attempts", "conclude"} => seen.paid = Len(ledger)
    /\ VerdictMatchesLedger

-----------------------------------------------------------------------------
(* Calls.                                                                  *)

CallsOK == DOMAIN calls = Slots /\ \A s \in Slots : CallTypeOK(calls[s])

\* What a call carries, stage by stage.
LEMMA JobsCarried ==
    /\ JobAt("enter") = {"prepare"} \cup Choice
    /\ JobAt("lookup") = Reading
    /\ JobAt("choose") = Choice
    /\ JobAt("spend") = Payment /\ JobAt("judge") = Payment /\ JobAt("ledger") = Payment
    /\ JobAt("record") = Outcome /\ JobAt("answer") = Outcome
    /\ JobAt("idle") = {None} /\ JobAt("email") = {None} /\ JobAt("extract") = {None}
    /\ JobAt("reading") = {None} /\ JobAt("settle") = Nat /\ JobAt("write") = Nat
BY DEF JobAt

\* A call at a stage, carrying what the stage needs, has its type.
LEMMA CallAt ==
    ASSUME NEW stage \in Stage, NEW job \in JobAt(stage), NEW due \in Nat
    PROVE  /\ CallTypeOK(At(stage, job, due))
           /\ At(stage, job, due).stage = stage
           /\ At(stage, job, due).job = job
           /\ At(stage, job, due).due = due
BY DEF CallTypeOK, At

\* One call moves and the others stay.
LEMMA CallMoves ==
    ASSUME CallsOK, NEW s \in Slots, NEW call, Move(s, call)
    PROVE  /\ DOMAIN calls' = Slots
           /\ calls'[s] = call
           /\ \A q \in Slots : q # s => calls'[q] = calls[q]
           /\ CallTypeOK(call) => CallsOK'
BY DEF CallsOK, Move

\* An idle call has its type.
LEMMA IdleCall == CallTypeOK(Idle) /\ Idle.stage = "idle"
BY CallAt, JobsCarried DEF Idle, Stage, At

-----------------------------------------------------------------------------
(* Types.                                                                  *)

\* The rest of what the variables hold.
ToolsOK ==
    /\ callsMade \in Nat /\ deadline \in Nat
    /\ extracted \in {"on_file", "new", None}
    /\ prepared \in {None} \cup
        [account : {"on_file", "new", None}, invoice : Invoices \cup {None},
         terms : Terms, proposesNew : BOOLEAN]

FlagsOK == paymentDecided \in BOOLEAN /\ attempted \in BOOLEAN

StoresOK == ledger \in Seq(Invoices) /\ decisions \in Seq(Outcome)

WatchOK ==
    /\ worker \in {"start", "watching", "read_decisions", "read_ledger",
                   "read_attempts", "conclude", "reported"}
    /\ settledAt \in Nat \cup {None} /\ abandoned \in BOOLEAN
    /\ seen \in [recorded : Seq(Outcome), paid : Nat, tried : BOOLEAN]
    /\ report \in {None} \cup
        [status : {"COMPLETED", "TIMED_OUT", "FAILED"}, paid : Nat,
         verdict : Outcome \cup {"REFUSED_BEFORE_POLICY", "NO_PAYMENT_ATTEMPTED",
                                 "EPISODE_FAILED"}]

ThreadsOK ==
    /\ now \in 0..MaxTime
    /\ planner \in {"off", "starting", "running", "stopping", "finished"}
    /\ backend \in {"scripted", "llm"}

\* The type invariant, part by part.
LEMMA TypeParts ==
    TypeOK <=> CallsOK /\ ToolsOK /\ FlagsOK /\ StoresOK /\ WatchOK /\ ThreadsOK
BY DEF TypeOK, CallsOK, ToolsOK, FlagsOK, StoresOK, WatchOK, ThreadsOK

\* The same, after a step.
LEMMA TypePartsNext ==
    CallsOK' /\ ToolsOK' /\ FlagsOK' /\ StoresOK' /\ WatchOK' /\ ThreadsOK' => TypeOK'
BY DEF TypeOK, CallsOK, ToolsOK, FlagsOK, StoresOK, WatchOK, ThreadsOK

\* Everything starts with its type.
LEMMA InitTypes == Init => TypeOK
<1>. SUFFICES ASSUME Init PROVE TypeOK
  OBVIOUS
<1>1. CallsOK
  BY IdleCall DEF Init, CallsOK
<1>2. ToolsOK /\ StoresOK
  BY DEF Init, ToolsOK, StoresOK
<1>3. FlagsOK
  BY Zenon DEF Init, FlagsOK
<1>4. ThreadsOK
  <2>1. MaxTime \in Nat
    BY Zenon, TimesAssumption
  <2>. QED
    BY <2>1 DEF Init, ThreadsOK
<1>5. WatchOK
  <2>1. /\ seen = [recorded |-> <<>>, paid |-> 0, tried |-> FALSE]
        /\ worker = "start" /\ settledAt = None /\ report = None
    BY Zenon DEF Init, NothingSeen
  <2>2. seen \in [recorded : Seq(Outcome), paid : Nat, tried : BOOLEAN]
    BY <2>1
  <2>3. abandoned \in BOOLEAN
    BY Zenon DEF Init
  <2>. QED
    BY <2>1, <2>2, <2>3 DEF WatchOK
<1>. QED
  BY <1>1, <1>2, <1>3, <1>4, <1>5, TypeParts

\* A call of the budget that is admitted, or ends.
LEMMA SpendTypes ==
    ASSUME TypeOK, NEW s \in Slots, NEW admitted, NEW refused, Spend(s, admitted, refused),
           CallTypeOK(admitted), CallTypeOK(refused)
    PROVE  CallsOK' /\ callsMade' \in Nat
<1>1. CallsOK /\ ToolsOK
  BY TypeParts
<1>2. CallsOK'
  BY <1>1, CallMoves DEF Spend
<1>3. callsMade' \in Nat
  BY <1>1 DEF Spend, ToolsOK
<1>. QED
  BY <1>2, <1>3

\* Reading and preparing keep the types.
LEMMA PrepareTypes == ASSUME TypeOK, NEW s \in Slots, Prepare(s) PROVE TypeOK'
<1>1. CallsOK /\ ToolsOK /\ FlagsOK /\ StoresOK /\ WatchOK /\ ThreadsOK
  BY TypeParts
<1>2. /\ StoresOK' /\ WatchOK' /\ ThreadsOK'
      /\ deadline' = deadline /\ paymentDecided' = paymentDecided /\ attempted' = attempted
  BY <1>1 DEF Prepare, ReadEmail, ExtractInvoice, ReaderReturns, LookupVendor, StoresOK, WatchOK,
     ThreadsOK, stores, watch
<1>a. FlagsOK'
  BY Zenon, <1>1, <1>2 DEF FlagsOK
<1>3. CASE ReadEmail(s)
  <2>1. CallTypeOK(At("extract", None, 0))
    BY CallAt, JobsCarried DEF Stage
  <2>2. CallsOK' /\ callsMade' \in Nat
    <3>1. PICK found \in {At("extract", None, 0), Idle} : Spend(s, found, Idle)
      BY <1>3 DEF ReadEmail
    <3>. QED
      BY <2>1, <3>1, IdleCall, SpendTypes
  <2>9. ToolsOK'
    BY <1>1, <1>2, <1>a, <1>3, <2>2 DEF ReadEmail, ToolsOK
  <2>. QED
    BY <1>2, <1>a, <2>9, TypePartsNext, <2>2
<1>4. CASE ExtractInvoice(s)
  <2>1. CallTypeOK(At("reading", None, 0))
    BY CallAt, JobsCarried DEF Stage
  <2>2. CallsOK' /\ callsMade' \in Nat
    BY <1>4, <2>1, IdleCall, SpendTypes DEF ExtractInvoice
  <2>9. ToolsOK'
    BY <1>1, <1>2, <1>a, <1>4, <2>2 DEF ExtractInvoice, ToolsOK
  <2>. QED
    BY <1>2, <1>a, <2>9, TypePartsNext, <2>2
<1>5. CASE ReaderReturns(s)
  <2>1. PICK r \in Readings :
            /\ extracted' = IF r.account = None THEN extracted ELSE r.account
            /\ Move(s, IF r.supplier = "unnamed" THEN Idle ELSE At("lookup", r, 0))
    BY <1>5 DEF ReaderReturns
  <2>2. r \in Reading
    BY ReadingsAssumption
  <2>3. CallTypeOK(At("lookup", r, 0))
    BY <2>2, CallAt, JobsCarried DEF Stage
  <2>4. CallsOK'
    BY <1>1, <2>1, <2>3, IdleCall, CallMoves
  <2>5. extracted' \in {"on_file", "new", None}
    BY <1>1, <2>1, <2>2 DEF ToolsOK, Reading
  <2>9. ToolsOK'
    BY <1>1, <1>2, <1>a, <1>5, <2>4, <2>5 DEF ReaderReturns, ToolsOK
  <2>. QED
    BY <1>2, <1>a, <2>9, TypePartsNext, <2>4
<1>6. CASE LookupVendor(s)
  <2>. DEFINE r == calls[s].job
  <2>1. r \in Reading
    BY <1>1, <1>6, JobsCarried DEF LookupVendor, CallsOK, CallTypeOK
  <2>2. CallTypeOK(At("choose", "as_invoiced", 0))
    BY CallAt, JobsCarried DEF Stage, Choice
  <2>3. CallsOK' /\ callsMade' \in Nat
    BY <1>6, <2>2, IdleCall, SpendTypes DEF LookupVendor
  <2>4. prepared' \in {prepared, [account |-> r.account, invoice |-> r.invoice,
                                  terms |-> r.terms, proposesNew |-> extracted = "new"]}
    BY <1>6 DEF LookupVendor
  <2>5. [account |-> r.account, invoice |-> r.invoice, terms |-> r.terms,
         proposesNew |-> extracted = "new"]
            \in [account : {"on_file", "new", None}, invoice : Invoices \cup {None},
                 terms : Terms, proposesNew : BOOLEAN]
    BY <2>1 DEF Reading
  <2>. HIDE DEF r
  <2>6. UNCHANGED extracted
    BY <1>6 DEF LookupVendor
  <2>9. ToolsOK'
    BY <1>1, <1>2, <1>a, <2>3, <2>4, <2>5, <2>6 DEF ToolsOK
  <2>. QED
    BY <1>2, <1>a, <2>9, TypePartsNext, <2>3
<1>. QED
  BY <1>3, <1>4, <1>5, <1>6 DEF Prepare

\* The judgement of enforcement is one of the outcomes.
LEMMA JudgedOutcome == ASSUME NEW p \in Payment PROVE Judged(p) \in Outcome
BY DEF Judged, Outcome, Payment, Terms

\* So does admitting a payment, or refusing it.
LEMMA ChooseTypes == ASSUME TypeOK, NEW s \in Slots, PayPrepared(s) \/ PayVendor(s) PROVE TypeOK'
<1>1. CallsOK /\ ToolsOK /\ FlagsOK /\ StoresOK /\ WatchOK /\ ThreadsOK
  BY TypeParts
<1>2. /\ StoresOK' /\ WatchOK' /\ ThreadsOK'
      /\ deadline' = deadline /\ extracted' = extracted /\ prepared' = prepared
      /\ paymentDecided' = paymentDecided /\ attempted' = attempted
  BY <1>1 DEF PayPrepared, PayVendor, StoresOK, WatchOK, ThreadsOK, tools, stores, watch
<1>3. FlagsOK'
  BY Zenon, <1>1, <1>2 DEF FlagsOK
<1>4. now + Slack \in Nat
  BY <1>1, TimesAssumption DEF ThreadsOK
<1>5. CallsOK' /\ callsMade' \in Nat
  <2>1. CASE PayPrepared(s)
    <3>. DEFINE choice == calls[s].job
                payment == [account |-> Chosen(choice), invoice |-> prepared.invoice,
                            terms |-> prepared.terms]
    <3>1. CallTypeOK(At("answer", "DENIED", now + Slack))
      BY <1>4, CallAt, JobsCarried DEF Stage, Timed, Outcome
    <3>2. CASE prepared = None \/ prepared.invoice = None \/ Chosen(choice) = None
      BY <1>1, <2>1, <3>1, <3>2, CallMoves DEF PayPrepared, tools, ToolsOK
    <3>3. CASE ~(prepared = None \/ prepared.invoice = None \/ Chosen(choice) = None)
      <4>1. prepared \in [account : {"on_file", "new", None}, invoice : Invoices \cup {None},
                          terms : Terms, proposesNew : BOOLEAN]
        BY <1>1, <3>3 DEF ToolsOK
      <4>2. Chosen(choice) \in {"on_file", "invoiced"}
        BY <3>3 DEF Chosen
      <4>3. payment \in Payment
        BY <3>3, <4>1, <4>2 DEF Payment
      <4>. HIDE DEF payment, choice
      <4>4. CallTypeOK(At("spend", payment, 0))
        BY <4>3, CallAt, JobsCarried DEF Stage
      <4>5. Move(s, At("spend", payment, 0)) /\ callsMade' = callsMade
        BY <2>1, <3>3 DEF PayPrepared, payment, choice, tools
      <4>. QED
        BY <1>1, <4>4, <4>5, CallMoves DEF ToolsOK
    <3>. QED
      BY <3>2, <3>3
  <2>2. CASE PayVendor(s)
    <3>1. calls[s].job \in Payment
      BY <1>1, <2>2, JobsCarried DEF PayVendor, CallsOK, CallTypeOK
    <3>2. CallTypeOK(At("judge", calls[s].job, now + Slack))
      BY <1>4, <3>1, CallAt, JobsCarried DEF Stage, Timed
    <3>. QED
      BY <2>2, <3>2, IdleCall, SpendTypes DEF PayVendor
  <2>. QED
    BY <2>1, <2>2
<1>6. ToolsOK'
  BY <1>1, <1>2, <1>5 DEF ToolsOK
<1>. QED
  BY <1>2, <1>3, <1>5, <1>6, TypePartsNext

\* So does the rest of a payment.
LEMMA FinishTypes == ASSUME TypeOK, NEW s \in Slots, Finish(s) PROVE TypeOK'
<1>1. CallsOK /\ ToolsOK /\ FlagsOK /\ StoresOK /\ WatchOK /\ ThreadsOK
  BY TypeParts
<1>2. /\ WatchOK' /\ ThreadsOK'
      /\ callsMade' = callsMade /\ extracted' = extracted /\ prepared' = prepared
  BY <1>1 DEF Finish, Judge, JudgeFails, Pay, RecordDecision, KeepAttempt, Settle, SetDeadline,
     WatchOK, ThreadsOK, tools, stores, watch
<1>3. /\ calls[s].due \in Nat
      /\ calls[s].stage \in {"judge", "ledger"} => calls[s].job \in Payment
      /\ calls[s].stage \in {"record", "answer"} => calls[s].job \in Outcome
      /\ calls[s].stage \in {"settle", "write"} => calls[s].job \in Nat
  BY <1>1, JobsCarried DEF CallsOK, CallTypeOK
<1>4. CASE Judge(s) \/ JudgeFails(s)
  <2>1. /\ \A outcome \in Outcome : CallTypeOK(At("record", outcome, calls[s].due))
        /\ calls[s].stage = "judge" => CallTypeOK(At("ledger", calls[s].job, calls[s].due))
        /\ "DENIED" \in Outcome
    BY <1>3, CallAt, JobsCarried DEF Stage, Timed, Outcome
  <2>2. calls[s].stage = "judge"
    BY <1>4 DEF Judge, JudgeFails
  <2>3. Judged(calls[s].job) \in Outcome
    BY <1>3, <2>2, JudgedOutcome
  <2>4. \E call : Move(s, call) /\ CallTypeOK(call)
    BY <1>4, <2>1, <2>2, <2>3, IdleCall DEF Judge, JudgeFails
  <2>5. CallsOK'
    BY <1>1, <2>4, CallMoves
  <2>6. /\ deadline' = deadline /\ paymentDecided' = paymentDecided /\ attempted' = attempted
        /\ StoresOK'
    BY <1>1, <1>4 DEF Judge, JudgeFails, tools, stores, StoresOK
  <2>7. ToolsOK'
    BY <1>1, <1>2, <2>6 DEF ToolsOK
  <2>8. FlagsOK'
    BY Zenon, <1>1, <2>6 DEF FlagsOK
  <2>. QED
    BY <1>2, <2>5, <2>6, <2>7, <2>8, TypePartsNext
<1>5. CASE Pay(s)
  <2>1. CallTypeOK(At("record", "EXECUTED", calls[s].due))
    BY <1>3, CallAt, JobsCarried DEF Stage, Timed, Outcome
  <2>2. CallsOK'
    BY <1>1, <1>5, <2>1, CallMoves DEF Pay
  <2>3. ledger' \in Seq(Invoices) /\ decisions' = decisions
    BY <1>1, <1>3, <1>5 DEF Pay, StoresOK, Payment
  <2>4. deadline' = deadline /\ paymentDecided' = paymentDecided /\ attempted' = attempted
    BY <1>5 DEF Pay, tools
  <2>5. ToolsOK' /\ StoresOK'
    BY <1>1, <1>2, <2>3, <2>4 DEF ToolsOK, StoresOK
  <2>6. FlagsOK'
    BY Zenon, <1>1, <2>4 DEF FlagsOK
  <2>. QED
    BY <1>2, <2>2, <2>5, <2>6, TypePartsNext
<1>6. CASE RecordDecision(s)
  <2>1. calls[s].job \in Outcome
    BY <1>3, <1>6 DEF RecordDecision
  <2>2. CallTypeOK(At("answer", calls[s].job, calls[s].due))
    BY <1>3, <2>1, CallAt, JobsCarried DEF Stage, Timed
  <2>3. CallsOK'
    BY <1>1, <1>6, <2>2, CallMoves DEF RecordDecision
  <2>4. decisions' \in Seq(Outcome) /\ ledger' = ledger
    BY <1>1, <1>6, <2>1 DEF RecordDecision, StoresOK
  <2>5. deadline' = deadline /\ paymentDecided' = paymentDecided /\ attempted' = attempted
    BY <1>6 DEF RecordDecision, tools
  <2>6. ToolsOK' /\ StoresOK'
    BY <1>1, <1>2, <2>4, <2>5 DEF ToolsOK, StoresOK
  <2>7. FlagsOK'
    BY Zenon, <1>1, <2>5 DEF FlagsOK
  <2>. QED
    BY <1>2, <2>3, <2>6, <2>7, TypePartsNext
<1>7. CASE KeepAttempt(s)
  <2>0. now + Wrapup \in Nat
    BY <1>1, TimesAssumption DEF ThreadsOK
  <2>1. CallTypeOK(At("settle", now + Wrapup, calls[s].due))
    BY <1>3, <2>0, CallAt, JobsCarried DEF Stage, Timed
  <2>2. CallsOK'
    BY <1>1, <1>7, <2>1, CallMoves DEF KeepAttempt
  <2>3. ToolsOK' /\ StoresOK'
    BY <1>1, <1>2, <1>7 DEF KeepAttempt, stores, ToolsOK, StoresOK
  <2>4. FlagsOK'
    BY Zenon, <1>7 DEF KeepAttempt, FlagsOK
  <2>. QED
    BY <1>2, <2>2, <2>3, <2>4, TypePartsNext
<1>8. CASE Settle(s)
  <2>0. calls[s].job \in Nat /\ deadline \in Nat
    BY <1>1, <1>3, <1>8 DEF Settle, ToolsOK
  <2>1. \A d \in Nat : CallTypeOK(At("write", d, calls[s].due))
    BY <1>3, CallAt, JobsCarried DEF Stage, Timed
  <2>2. CallsOK'
    BY <1>1, <1>8, <2>0, <2>1, CallMoves DEF Settle
  <2>3. /\ deadline' = deadline /\ paymentDecided' = paymentDecided /\ attempted' = attempted
        /\ StoresOK'
    BY <1>1, <1>8 DEF Settle, tools, stores, StoresOK
  <2>4. ToolsOK'
    BY <1>1, <1>2, <2>3 DEF ToolsOK
  <2>5. FlagsOK'
    BY Zenon, <1>1, <2>3 DEF FlagsOK
  <2>. QED
    BY <1>2, <2>2, <2>3, <2>4, <2>5, TypePartsNext
<1>9. CASE SetDeadline(s)
  <2>1. CallsOK'
    BY <1>1, <1>9, IdleCall, CallMoves DEF SetDeadline
  <2>2. deadline' \in Nat
    BY <1>3, <1>9 DEF SetDeadline
  <2>3. paymentDecided' = paymentDecided /\ attempted' = attempted /\ StoresOK'
    BY <1>1, <1>9 DEF SetDeadline, stores, StoresOK
  <2>4. ToolsOK'
    BY <1>1, <1>2, <2>2 DEF ToolsOK
  <2>5. FlagsOK'
    BY Zenon, <1>1, <2>3 DEF FlagsOK
  <2>. QED
    BY <1>2, <2>1, <2>3, <2>4, <2>5, TypePartsNext
<1>. QED
  BY <1>4, <1>5, <1>6, <1>7, <1>8, <1>9 DEF Finish

\* So do the planner's own steps and the clock.
LEMMA ThreadTypes ==
    ASSUME TypeOK, \/ StartEpisode \/ NewTurn \/ FinishEpisode \/ Tick
                   \/ \E s \in Slots : Enter(s)
    PROVE  TypeOK'
<1>1. CallsOK /\ ToolsOK /\ FlagsOK /\ StoresOK /\ WatchOK /\ ThreadsOK
  BY TypeParts
<1>2. /\ StoresOK' /\ WatchOK' /\ extracted' = extracted /\ prepared' = prepared
      /\ attempted' = attempted
  <2>1. ASSUME NEW s \in Slots, Enter(s)
        PROVE  /\ StoresOK' /\ WatchOK' /\ extracted' = extracted /\ prepared' = prepared
               /\ attempted' = attempted
    BY <1>1, <2>1 DEF Enter, StoresOK, WatchOK, tools, stores, watch
  <2>2. CASE StartEpisode \/ NewTurn \/ FinishEpisode \/ Tick
    BY <1>1, <2>2 DEF StartEpisode, NewTurn, FinishEpisode, Tick, StoresOK, WatchOK,
       tools, stores, watch
  <2>. QED
    BY <2>1, <2>2
<1>3. CASE StartEpisode
  <2>1. CallTypeOK(At("email", None, 0))
    BY CallAt, JobsCarried DEF Stage
  <2>2. CallsOK'
    <3>1. CASE backend = "scripted"
      BY <1>1, <1>3, <2>1, <3>1, CallMoves DEF StartEpisode
    <3>2. CASE backend # "scripted"
      BY <1>1, <1>3, <3>2 DEF StartEpisode, CallsOK
    <3>. QED
      BY <3>1, <3>2
  <2>3. ToolsOK' /\ ThreadsOK'
    BY <1>1, <1>2, <1>3, TimesAssumption DEF StartEpisode, ToolsOK, ThreadsOK
  <2>4. FlagsOK'
    BY Zenon, <1>1, <1>2, <1>3 DEF StartEpisode, FlagsOK
  <2>. QED
    BY <1>2, <2>2, <2>3, <2>4, TypePartsNext
<1>4. CASE NewTurn
  <2>1. PICK asked \in [Slots -> {"prepare", "nothing"} \cup Choice] :
            calls' = [s \in Slots |-> IF asked[s] = "nothing" THEN Idle
                                      ELSE At("enter", asked[s], 0)]
    BY <1>4 DEF NewTurn
  <2>2. \A job \in {"prepare"} \cup Choice : CallTypeOK(At("enter", job, 0))
    BY CallAt, JobsCarried DEF Stage
  <2>3. CallsOK'
    BY <2>1, <2>2, IdleCall DEF CallsOK
  <2>4. /\ callsMade' = callsMade /\ deadline' = deadline /\ paymentDecided' = paymentDecided
        /\ ThreadsOK'
    BY <1>1, <1>4 DEF NewTurn, tools, ThreadsOK
  <2>5. ToolsOK'
    BY <1>1, <1>2, <2>4 DEF ToolsOK
  <2>6. FlagsOK'
    BY Zenon, <1>1, <1>2, <2>4 DEF FlagsOK
  <2>. QED
    BY <1>2, <2>3, <2>4, <2>5, <2>6, TypePartsNext
<1>5. CASE FinishEpisode \/ Tick
  <2>1. /\ callsMade' = callsMade /\ deadline' = deadline /\ paymentDecided' = paymentDecided
        /\ calls' = calls
    BY <1>5 DEF FinishEpisode, Tick, tools
  <2>2. ThreadsOK'
    BY <1>1, <1>5, TimesAssumption DEF FinishEpisode, Tick, ThreadsOK
  <2>3. CallsOK' /\ ToolsOK'
    BY <1>1, <1>2, <2>1 DEF CallsOK, ToolsOK
  <2>4. FlagsOK'
    BY Zenon, <1>1, <1>2, <2>1 DEF FlagsOK
  <2>. QED
    BY <1>2, <2>2, <2>3, <2>4, TypePartsNext
<1>6. ASSUME NEW s \in Slots, Enter(s) PROVE TypeOK'
  <2>1. /\ callsMade' = callsMade /\ deadline' = deadline /\ paymentDecided' = paymentDecided
        /\ ThreadsOK'
    BY <1>1, <1>6 DEF Enter, tools, ThreadsOK
  <2>2. CallTypeOK(At("email", None, 0))
    BY CallAt, JobsCarried DEF Stage
  <2>3. calls[s].stage = "enter" /\ calls[s].job # "prepare" => calls[s].job \in Choice
    BY <1>1, JobsCarried DEF CallsOK, CallTypeOK
  <2>4. calls[s].job \in Choice => CallTypeOK(At("choose", calls[s].job, 0))
    BY CallAt, JobsCarried DEF Stage
  <2>5. \E call : Move(s, call) /\ CallTypeOK(call)
    BY <1>6, <2>2, <2>3, <2>4, IdleCall DEF Enter
  <2>6. CallsOK'
    BY <1>1, <2>5, CallMoves
  <2>7. ToolsOK'
    BY <1>1, <1>2, <2>1 DEF ToolsOK
  <2>8. FlagsOK'
    BY Zenon, <1>1, <1>2, <2>1 DEF FlagsOK
  <2>. QED
    BY <1>2, <2>1, <2>6, <2>7, <2>8, TypePartsNext
<1>. QED
  BY <1>3, <1>4, <1>5, <1>6

\* The verdict of a summary is an outcome or says that there is none, and it
\* is EXECUTED if and only if one of the decisions is.
LEMMA SummaryVerdict ==
    ASSUME NEW recorded \in Seq(Outcome), NEW tried \in BOOLEAN
    PROVE  /\ Summary(recorded, tried)
                  \in Outcome \cup {"REFUSED_BEFORE_POLICY", "NO_PAYMENT_ATTEMPTED"}
           /\ Summary(recorded, tried) = "EXECUTED" <=>
                  \E k \in 1..Len(recorded) : recorded[k] = "EXECUTED"
<1>1. CASE \E k \in 1..Len(recorded) : recorded[k] = "EXECUTED"
  BY <1>1 DEF Summary, Outcome
<1>2. CASE ~\E k \in 1..Len(recorded) : recorded[k] = "EXECUTED"
  <2>1. Summary(recorded, tried) = SummaryOfLast(recorded, tried)
    BY <1>2 DEF Summary
  <2>2. CASE recorded = <<>>
    BY <1>2, <2>1, <2>2 DEF SummaryOfLast
  <2>3. CASE recorded # <<>>
    <3>1. Len(recorded) \in 1..Len(recorded)
      BY <2>3
    <3>2. SummaryOfLast(recorded, tried) = recorded[Len(recorded)]
      BY <2>3 DEF SummaryOfLast
    <3>. QED
      BY <1>2, <2>1, <3>1, <3>2
  <2>. QED
    BY <2>2, <2>3
<1>. QED
  BY <1>1, <1>2

\* So does the worker.
LEMMA WorkerTypes == ASSUME TypeOK, Worker PROVE TypeOK'
<1>1. CallsOK /\ ToolsOK /\ FlagsOK /\ StoresOK /\ WatchOK /\ ThreadsOK
  BY TypeParts
<1>2. /\ CallsOK' /\ ToolsOK' /\ StoresOK' /\ ThreadsOK'
      /\ paymentDecided' = paymentDecided /\ attempted' = attempted
  BY <1>1 DEF Worker, StartThread, CannotStart, SeeDone, SeeDecided, FollowUpOver, GiveUp,
     StopWatching, ReadDecisions, ReadLedger, ReadAttempts, Conclude,
     CallsOK, ToolsOK, StoresOK, ThreadsOK, tools, stores
<1>3. FlagsOK'
  BY Zenon, <1>1, <1>2 DEF FlagsOK
<1>4. WatchOK'
  <2>1. CASE StartThread
    BY <1>1, <2>1 DEF StartThread, WatchOK
  <2>2. CASE CannotStart
    BY <1>1, <2>2 DEF CannotStart, WatchOK, Report
  <2>3. ASSUME NEW gaveUp \in BOOLEAN, StopWatching(gaveUp) PROVE WatchOK'
    <3>1. abandoned' \in BOOLEAN
      BY Zenon, <2>3 DEF StopWatching
    <3>. QED
      BY <1>1, <2>3, <3>1 DEF StopWatching, WatchOK
  <2>4. CASE SeeDecided
    <3>1. abandoned' \in BOOLEAN
      BY Zenon, <1>1, <2>4 DEF SeeDecided, WatchOK
    <3>. QED
      BY <1>1, <2>4, <3>1 DEF SeeDecided, WatchOK, ThreadsOK
  <2>5. CASE ReadDecisions
    BY <1>1, <2>5 DEF ReadDecisions, WatchOK, StoresOK
  <2>6. CASE ReadLedger
    BY <1>1, <2>6 DEF ReadLedger, WatchOK, StoresOK
  <2>7. CASE ReadAttempts
    BY <1>1, <2>7 DEF ReadAttempts, WatchOK, FlagsOK
  <2>8. CASE Conclude
    <3>. DEFINE verdict == Summary(seen.recorded, seen.tried)
                status == IF abandoned /\ ~paymentDecided THEN "TIMED_OUT" ELSE "COMPLETED"
    <3>1. seen.recorded \in Seq(Outcome) /\ seen.tried \in BOOLEAN /\ seen.paid \in Nat
      BY <1>1 DEF WatchOK
    <3>2. verdict \in Outcome \cup {"REFUSED_BEFORE_POLICY", "NO_PAYMENT_ATTEMPTED"}
      BY <3>1, SummaryVerdict
    <3>3. report' = [status |-> status, verdict |-> verdict, paid |-> seen.paid]
      BY <2>8 DEF Conclude, Report
    <3>4. status \in {"TIMED_OUT", "COMPLETED"}
      OBVIOUS
    <3>. HIDE DEF verdict, status
    <3>5. report' \in [status : {"COMPLETED", "TIMED_OUT", "FAILED"}, paid : Nat,
                       verdict : Outcome \cup {"REFUSED_BEFORE_POLICY", "NO_PAYMENT_ATTEMPTED",
                                               "EPISODE_FAILED"}]
      BY <3>1, <3>2, <3>3, <3>4
    <3>6. abandoned' \in BOOLEAN
      BY Zenon, <2>8 DEF Conclude
    <3>7. seen' = [recorded |-> <<>>, paid |-> 0, tried |-> FALSE]
      BY <2>8 DEF Conclude, NothingSeen
    <3>8. seen' \in [recorded : Seq(Outcome), paid : Nat, tried : BOOLEAN]
      BY <3>7
    <3>9. worker' = "reported" /\ settledAt' = settledAt
      BY <2>8 DEF Conclude
    <3>. QED
      BY <1>1, <3>5, <3>6, <3>8, <3>9 DEF WatchOK
  <2>. QED
    BY <2>1, <2>2, <2>3, <2>4, <2>5, <2>6, <2>7, <2>8 DEF Worker, SeeDone, FollowUpOver, GiveUp
<1>. QED
  BY <1>2, <1>3, <1>4, TypePartsNext

\* Every step keeps the types.
LEMMA StepTypes == TypeOK /\ [Next]_vars => TypeOK'
<1>. SUFFICES ASSUME TypeOK, [Next]_vars PROVE TypeOK'
  OBVIOUS
<1>1. CASE UNCHANGED vars
  <2>1. CallsOK /\ ToolsOK /\ FlagsOK /\ StoresOK /\ WatchOK /\ ThreadsOK
    BY TypeParts
  <2>2. /\ CallsOK' /\ ToolsOK' /\ StoresOK' /\ WatchOK' /\ ThreadsOK'
        /\ paymentDecided' = paymentDecided /\ attempted' = attempted
    BY <1>1, <2>1 DEF CallsOK, ToolsOK, StoresOK, WatchOK, ThreadsOK, vars, tools, stores, watch
  <2>3. FlagsOK'
    BY Zenon, <2>1, <2>2 DEF FlagsOK
  <2>. QED
    BY <2>2, <2>3, TypePartsNext
<1>. QED
  BY <1>1, PrepareTypes, ChooseTypes, FinishTypes, ThreadTypes, WorkerTypes DEF Next, Planner

\* Every variable keeps its type and a call holds what its stage needs, for
\* any readings, budget, times and number of calls side by side.
THEOREM EpisodeTypes == Spec => []TypeOK
BY InitTypes, StepTypes, PTL DEF Spec

-----------------------------------------------------------------------------
(* Each step keeps the promises.                                           *)

\* Times and deadlines are natural numbers.
LEMMA NumbersOK ==
    ASSUME TypeOK
    PROVE  /\ now \in Nat /\ deadline \in Nat
           /\ \A s \in Slots : calls[s].due \in Nat
           /\ \A s \in Slots : Settling(s) => calls[s].job \in Nat
           /\ settledAt # None => settledAt \in Nat
           /\ EpisodeTime \in Nat /\ Wrapup \in Nat /\ Slack \in Nat
           /\ FollowUp \in Nat /\ Grace \in Nat
BY TimesAssumption, JobsCarried DEF TypeOK, CallTypeOK, Settling

\* Nothing has begun, so nothing is owed.
LEMMA InitPromises == Init => Promises
<1>. SUFFICES ASSUME Init PROVE Promises
  OBVIOUS
<1>1. /\ \A s \in Slots : calls[s].stage = "idle"
      /\ ledger = <<>> /\ decisions = <<>> /\ worker = "start" /\ planner = "off" /\ report = None
      /\ now = 0 /\ deadline = 0 /\ settledAt = None
  BY DEF Init, Idle, At
<1>2. ~paymentDecided
  BY Zenon DEF Init
<1>. QED
  BY <1>1, <1>2, TimesAssumption DEF Promises, InTime, CallInTime, Paying, Settling, Timed,
     Idling, AllIdle, LedgerRecorded, Executed, DecisionSettles, SettledSoon, WrapsUp

\* What a call's step leaves alone unless it says otherwise.
Elsewhere(s) ==
    /\ \A q \in Slots : q # s => calls'[q] = calls[q]
    /\ now' = now /\ worker' = worker /\ settledAt' = settledAt /\ report' = report

\* A step to a part of a call that the clock does not wait for.
LEMMA UnhurriedPromises ==
    ASSUME IInv, NEW s \in Slots, Elsewhere(s),
           calls[s].stage \notin {"idle", "ledger", "record", "answer", "settle", "write"},
           calls'[s].stage \notin Timed,
           deadline' = deadline, paymentDecided' <=> paymentDecided,
           ledger' = ledger, decisions' = decisions, planner' \in {planner, "stopping"}
    PROVE  Promises'
<1>1. planner \notin {"off", "starting", "finished"}
  BY DEF IInv, Promises, Idling, AllIdle
<1>2. InTime'
  BY <1>1 DEF IInv, Promises, InTime, CallInTime, Paying, Settling, Elsewhere, Timed
<1>3. Idling'
  BY <1>1 DEF IInv, Promises, Idling, Elsewhere
<1>4. LedgerRecorded' /\ DecisionSettles'
  BY DEF IInv, Promises, LedgerRecorded, Executed, DecisionSettles, Elsewhere, Timed
<1>5. SettledSoon'
  BY DEF IInv, Promises, SettledSoon, Settling, Elsewhere, Timed
<1>6. WrapsUp'
  BY DEF IInv, Promises, WrapsUp, Near, Limit, Paying, Settling, Elsewhere, Timed
<1>. QED
  BY <1>2, <1>3, <1>4, <1>5, <1>6 DEF Promises

\* A call that takes on something timed does so within the slack from now, and
\* is in time to pay if it may.
LEMMA AdmitPromises ==
    ASSUME IInv, NEW s \in Slots, Elsewhere(s),
           calls[s].stage \in {"choose", "spend"},
           \/ calls'[s].stage = "answer"
           \/ calls'[s].stage = "judge" /\ now < deadline,
           calls'[s].due = now + Slack,
           deadline' = deadline, paymentDecided' <=> paymentDecided,
           ledger' = ledger, decisions' = decisions, planner' = planner
    PROVE  Promises'
<1>1. planner \notin {"off", "starting", "finished"}
  BY DEF IInv, Promises, Idling, AllIdle
<1>2. /\ now \in Nat /\ deadline \in Nat /\ (settledAt # None => settledAt \in Nat)
      /\ EpisodeTime \in Nat /\ Wrapup \in Nat /\ Slack \in Nat
      /\ \A q \in Slots : calls[q].due \in Nat
  BY NumbersOK DEF IInv
<1>3. InTime'
  BY <1>1, <1>2 DEF IInv, Promises, InTime, CallInTime, Paying, Settling, LastDue, Elsewhere, Timed
<1>4. Idling'
  BY <1>1 DEF IInv, Promises, Idling, Elsewhere
<1>5. LedgerRecorded' /\ DecisionSettles'
  BY DEF IInv, Promises, LedgerRecorded, Executed, DecisionSettles, Elsewhere
<1>6. SettledSoon'
  BY DEF IInv, Promises, SettledSoon, Settling, Elsewhere
<1>7. WrapsUp'
  <2>. SUFFICES ASSUME worker = "watching", settledAt # None
                PROVE  WrapsUp'
    BY DEF WrapsUp, Elsewhere
  <2>1. /\ paymentDecided /\ settledAt <= now
        /\ Near(Limit) \/ \E q \in Slots : Settling(q) /\ calls[q].due <= settledAt + Slack
        /\ 0 < Wrapup => \A q \in Slots : Paying(q) => calls[q].due < Limit + Slack
    BY DEF IInv, Promises, WrapsUp
  <2>2. Limit' = Limit
    BY DEF Limit, Elsewhere
  <2>3. calls'[s].stage = "judge" /\ 0 < Wrapup => calls'[s].due < Limit + Slack
    <3>1. CASE Near(Limit)
      BY <1>2, <3>1 DEF Near, Limit
    <3>2. ASSUME NEW q \in Slots, Settling(q), calls[q].due <= settledAt + Slack
          PROVE  0 < Wrapup => now + Slack < Limit + Slack
      <4>1. now <= calls[q].due
        BY <3>2 DEF IInv, Promises, InTime, CallInTime, Timed, Settling
      <4>. QED
        BY <1>2, <3>2, <4>1 DEF Limit
    <3>. QED
      BY <2>1, <3>1, <3>2
  <2>4. 0 < Wrapup => \A q \in Slots : Paying(q)' => calls'[q].due < Limit + Slack
    BY <2>1, <2>3 DEF Paying, Elsewhere
  <2>5. Near(Limit) => Near(Limit)'
    BY <2>2 DEF Near, Elsewhere
  <2>6. (\E q \in Slots : Settling(q) /\ calls[q].due <= settledAt + Slack)
            => \E q \in Slots : Settling(q)' /\ calls'[q].due <= settledAt + Slack
    <3>. SUFFICES ASSUME NEW q \in Slots, Settling(q), calls[q].due <= settledAt + Slack
                  PROVE  Settling(q)' /\ calls'[q].due <= settledAt + Slack
      OBVIOUS
    <3>. QED
      BY DEF Settling, Elsewhere
  <2>. QED
    BY <2>1, <2>2, <2>4, <2>5, <2>6 DEF WrapsUp, Elsewhere
<1>. QED
  BY <1>3, <1>4, <1>5, <1>6, <1>7 DEF Promises

\* A payment under way goes on by the time it had, and touches nothing but
\* what its stage is for.
LEMMA GoOnTime ==
    ASSUME IInv, NEW s \in Slots, Elsewhere(s),
           calls[s].stage \in {"judge", "ledger", "record", "answer"},
           calls'[s].stage \in {"ledger", "record", "answer", "settle"},
           calls[s].stage = "answer" => calls'[s].stage = "settle",
           calls'[s].stage = "settle" => calls'[s].job = now + Wrapup,
           calls'[s].due = calls[s].due,
           deadline' = deadline, paymentDecided => paymentDecided', planner' = planner
    PROVE  InTime' /\ WrapsUp' /\ planner \notin {"off", "starting", "finished"}
<1>1. planner \notin {"off", "starting", "finished"}
  BY DEF IInv, Promises, Idling, AllIdle
<1>2. now + Wrapup \in Nat
  BY NumbersOK DEF IInv
<1>3. InTime'
  BY <1>1, <1>2 DEF IInv, Promises, InTime, CallInTime, Paying, Settling, Elsewhere, Timed
<1>4. WrapsUp'
  BY DEF IInv, Promises, WrapsUp, Near, Limit, Paying, Settling, Elsewhere
<1>. QED
  BY <1>1, <1>3, <1>4

\* Judging keeps the time by which the payment is done.
LEMMA JudgePromises == ASSUME IInv, NEW s \in Slots, Judge(s) \/ JudgeFails(s) PROVE Promises'
<1>1. CallsOK
  BY TypeParts DEF IInv
<1>2. calls[s].stage = "judge"
  BY DEF Judge, JudgeFails
<1>3. /\ deadline' = deadline /\ (paymentDecided' <=> paymentDecided)
      /\ ledger' = ledger /\ decisions' = decisions /\ planner' = planner
  BY DEF Judge, JudgeFails, tools, stores
<1>4. \/ Move(s, Idle)
      \/ Move(s, At("ledger", calls[s].job, calls[s].due))
      \/ \E outcome : outcome # "EXECUTED" /\ Move(s, At("record", outcome, calls[s].due))
  BY DEF Judge, JudgeFails
<1>5. /\ Elsewhere(s)
      /\ \/ calls'[s] = Idle
         \/ calls'[s] = At("ledger", calls[s].job, calls[s].due)
         \/ \E outcome : outcome # "EXECUTED" /\ calls'[s] = At("record", outcome, calls[s].due)
  <2>1. now' = now /\ worker' = worker /\ settledAt' = settledAt /\ report' = report
    BY DEF Judge, JudgeFails, watch
  <2>. QED
    BY <1>1, <1>4, <2>1, CallMoves DEF Elsewhere
<1>6. CASE calls'[s] = Idle
  BY <1>2, <1>3, <1>5, <1>6, IdleCall, UnhurriedPromises DEF Timed
<1>7. CASE calls'[s] # Idle
  <2>1. /\ calls'[s].stage \in {"ledger", "record"} /\ calls'[s].due = calls[s].due
        /\ calls'[s].stage = "record" => calls'[s].job # "EXECUTED"
    <3>1. CASE calls'[s] = At("ledger", calls[s].job, calls[s].due)
      BY <3>1 DEF At
    <3>2. ASSUME NEW outcome, outcome # "EXECUTED",
                 calls'[s] = At("record", outcome, calls[s].due)
          PROVE  /\ calls'[s].stage = "record" /\ calls'[s].due = calls[s].due
                 /\ calls'[s].job # "EXECUTED"
      BY <3>2 DEF At
    <3>. QED
      BY <1>5, <1>7, <3>1, <3>2
  <2>2. InTime' /\ WrapsUp' /\ planner \notin {"off", "starting", "finished"}
    BY <1>2, <1>3, <1>5, <2>1, GoOnTime
  <2>3. Idling'
    BY <1>3, <1>5, <2>2 DEF IInv, Promises, Idling, Elsewhere
  <2>4. LedgerRecorded' /\ DecisionSettles'
    BY <1>2, <1>3, <1>5, <2>1 DEF IInv, Promises, LedgerRecorded, Executed, DecisionSettles, Elsewhere
  <2>5. SettledSoon'
    BY <1>2, <1>3, <1>5 DEF IInv, Promises, SettledSoon, Settling, Elsewhere
  <2>. QED
    BY <2>2, <2>3, <2>4, <2>5 DEF Promises
<1>. QED
  BY <1>6, <1>7

\* A payment is made: it is about to be recorded as executed.
LEMMA PayPromises == ASSUME IInv, NEW s \in Slots, Pay(s) PROVE Promises'
<1>1. CallsOK /\ StoresOK
  BY TypeParts DEF IInv
<1>2. calls[s].stage = "ledger"
  BY DEF Pay
<1>3. /\ deadline' = deadline /\ (paymentDecided' <=> paymentDecided)
      /\ decisions' = decisions /\ planner' = planner
  BY DEF Pay, tools
<1>4. ledger' # <<>>
  <2>0. calls[s].job \in Payment
    BY <1>1, <1>2, JobsCarried DEF CallsOK, CallTypeOK
  <2>1. ledger \in Seq(Invoices) /\ calls[s].job.invoice \in Invoices
    BY <1>1, <2>0 DEF StoresOK, Payment
  <2>2. ledger' = Append(ledger, calls[s].job.invoice)
    BY DEF Pay
  <2>3. Len(ledger') = Len(ledger) + 1 /\ Len(ledger) \in Nat
    BY <2>1, <2>2
  <2>. QED
    BY <2>3
<1>5. Elsewhere(s) /\ calls'[s] = At("record", "EXECUTED", calls[s].due)
  BY <1>1, CallMoves DEF Pay, Elsewhere, watch
<1>6. calls'[s].stage = "record" /\ calls'[s].job = "EXECUTED" /\ calls'[s].due = calls[s].due
  BY <1>5 DEF At
<1>7. InTime' /\ WrapsUp' /\ planner \notin {"off", "starting", "finished"}
  BY <1>2, <1>3, <1>5, <1>6, GoOnTime
<1>8. Idling'
  BY <1>3, <1>5, <1>7 DEF IInv, Promises, Idling, Elsewhere
<1>9. LedgerRecorded' /\ DecisionSettles'
  BY <1>2, <1>3, <1>4, <1>5, <1>6
  DEF IInv, Promises, LedgerRecorded, Executed, DecisionSettles, Elsewhere
<1>10. SettledSoon'
  BY <1>2, <1>3, <1>5 DEF IInv, Promises, SettledSoon, Settling, Elsewhere
<1>. QED
  BY <1>7, <1>8, <1>9, <1>10 DEF Promises

\* A decision is recorded: the call that made it is about to be answered.
LEMMA RecordPromises == ASSUME IInv, NEW s \in Slots, RecordDecision(s) PROVE Promises'
<1>1. CallsOK /\ StoresOK
  BY TypeParts DEF IInv
<1>2. calls[s].stage = "record"
  BY DEF RecordDecision
<1>3. /\ deadline' = deadline /\ (paymentDecided' <=> paymentDecided)
      /\ ledger' = ledger /\ planner' = planner
      /\ decisions' = Append(decisions, calls[s].job)
  BY DEF RecordDecision, tools
<1>4. Elsewhere(s) /\ calls'[s] = At("answer", calls[s].job, calls[s].due)
  BY <1>1, CallMoves DEF RecordDecision, Elsewhere, watch
<1>5. calls'[s].stage = "answer" /\ calls'[s].due = calls[s].due
  BY <1>4 DEF At
<1>6. InTime' /\ WrapsUp' /\ planner \notin {"off", "starting", "finished"}
  BY <1>2, <1>3, <1>4, <1>5, GoOnTime
<1>7. Idling'
  BY <1>3, <1>4, <1>6 DEF IInv, Promises, Idling, Elsewhere
<1>8. Executed' <=> Executed \/ calls[s].job = "EXECUTED"
  <2>1. decisions \in Seq(Outcome) /\ calls[s].job \in Outcome
    BY <1>1, <1>2, JobsCarried DEF StoresOK, CallsOK, CallTypeOK
  <2>2. /\ Len(decisions') = Len(decisions) + 1
        /\ decisions'[Len(decisions) + 1] = calls[s].job
        /\ \A k \in 1..Len(decisions) : decisions'[k] = decisions[k]
    BY <1>3, <2>1
  <2>3. Len(decisions) \in Nat
    BY <2>1
  <2>. QED
    BY <2>2, <2>3 DEF Executed
<1>9. LedgerRecorded'
  BY <1>2, <1>3, <1>4, <1>5, <1>8 DEF IInv, Promises, LedgerRecorded, Elsewhere
<1>10. DecisionSettles'
  <2>1. calls[s].due < LastDue
    BY <1>2 DEF IInv, Promises, InTime, CallInTime, Paying
  <2>. QED
    BY <1>5, <2>1 DEF DecisionSettles, LastDue
<1>11. SettledSoon'
  BY <1>2, <1>3, <1>4 DEF IInv, Promises, SettledSoon, Settling, Elsewhere
<1>. QED
  BY <1>6, <1>7, <1>9, <1>10, <1>11 DEF Promises

\* The attempt is kept: the payment counts as decided.
LEMMA KeepPromises == ASSUME IInv, NEW s \in Slots, KeepAttempt(s) PROVE Promises'
<1>1. CallsOK
  BY TypeParts DEF IInv
<1>2. calls[s].stage = "answer"
  BY DEF KeepAttempt
<1>3. /\ deadline' = deadline /\ ledger' = ledger /\ decisions' = decisions /\ planner' = planner
  BY DEF KeepAttempt, stores
<1>4. paymentDecided'
  BY Zenon DEF KeepAttempt
<1>5. Elsewhere(s) /\ calls'[s] = At("settle", now + Wrapup, calls[s].due)
  BY <1>1, CallMoves DEF KeepAttempt, Elsewhere, watch
<1>6. /\ calls'[s].stage = "settle" /\ calls'[s].due = calls[s].due
      /\ calls'[s].job = now + Wrapup
  BY <1>5 DEF At
<1>7. InTime' /\ WrapsUp' /\ planner \notin {"off", "starting", "finished"}
  BY <1>2, <1>3, <1>4, <1>5, <1>6, GoOnTime
<1>8. Idling'
  BY <1>3, <1>5, <1>7 DEF IInv, Promises, Idling, Elsewhere
<1>9. LedgerRecorded'
  BY <1>2, <1>3, <1>5, <1>6 DEF IInv, Promises, LedgerRecorded, Executed, Elsewhere
<1>10. DecisionSettles' /\ SettledSoon'
  BY <1>4, <1>6 DEF DecisionSettles, SettledSoon, Settling
<1>. QED
  BY <1>7, <1>8, <1>9, <1>10 DEF Promises

\* A call has compared the deadlines: the one it will write is as near as
\* both were.
LEMMA SettlePromises == ASSUME IInv, NEW s \in Slots, Settle(s) PROVE Promises'
<1>1. CallsOK
  BY TypeParts DEF IInv
<1>2. calls[s].stage = "settle"
  BY DEF Settle
<1>3. /\ paymentDecided' <=> paymentDecided
      /\ deadline' = deadline /\ ledger' = ledger /\ decisions' = decisions /\ planner' = planner
  BY DEF Settle, tools, stores
<1>4. /\ now \in Nat /\ deadline \in Nat /\ calls[s].job \in Nat
      /\ EpisodeTime \in Nat /\ Wrapup \in Nat /\ Slack \in Nat
  BY <1>2, NumbersOK DEF IInv, Settling
<1>5. PICK nearer \in Nat :
        /\ nearer <= deadline /\ nearer <= calls[s].job
        /\ Move(s, At("write", nearer, calls[s].due))
  BY <1>4 DEF Settle
<1>6. /\ Elsewhere(s)
      /\ calls'[s].stage = "write" /\ calls'[s].job = nearer /\ calls'[s].due = calls[s].due
  <2>1. Elsewhere(s) /\ calls'[s] = At("write", nearer, calls[s].due)
    BY <1>1, <1>5, CallMoves DEF Settle, Elsewhere, watch
  <2>. QED
    BY <2>1 DEF At
<1>7. planner \notin {"off", "starting", "finished"}
  BY <1>2 DEF IInv, Promises, Idling, AllIdle
<1>8. InTime'
  <2>1. ASSUME NEW q \in Slots PROVE CallInTime(q)'
    <3>1. CallInTime(q) /\ CallInTime(s) /\ deadline <= EpisodeTime + Slack
      BY DEF IInv, Promises, InTime
    <3>2. nearer <= now + Wrapup /\ nearer <= EpisodeTime + Slack
      BY <1>2, <1>4, <1>5, <3>1 DEF CallInTime, Settling
    <3>. QED
      BY <1>2, <1>6, <3>1, <3>2 DEF CallInTime, Settling, Paying, Elsewhere, Timed
  <2>. QED
    BY <1>3, <1>6, <1>7, <2>1 DEF IInv, Promises, InTime, Elsewhere
<1>9. Idling'
  BY <1>3, <1>6, <1>7 DEF IInv, Promises, Idling, Elsewhere
<1>10. LedgerRecorded' /\ DecisionSettles'
  BY <1>2, <1>3, <1>6
  DEF IInv, Promises, LedgerRecorded, Executed, DecisionSettles, Elsewhere
<1>11. SettledSoon'
  BY <1>6 DEF SettledSoon, Settling
<1>12. WrapsUp'
  <2>. SUFFICES ASSUME worker = "watching", settledAt # None
                PROVE  WrapsUp'
    BY <1>6 DEF WrapsUp, Elsewhere
  <2>1. /\ paymentDecided /\ settledAt <= now
        /\ Near(Limit) \/ \E q \in Slots : Settling(q) /\ calls[q].due <= settledAt + Slack
        /\ 0 < Wrapup => \A q \in Slots : Paying(q) => calls[q].due < Limit + Slack
    BY DEF IInv, Promises, WrapsUp
  <2>2. Limit' = Limit /\ Limit \in Nat
    BY <1>4, <1>6, NumbersOK DEF IInv, Limit, Elsewhere
  <2>3. Near(Limit) => Near(Limit)'
    BY <1>3, <1>4, <1>5, <1>6, <2>2 DEF Near, Elsewhere
  <2>4. ASSUME NEW q \in Slots, Settling(q), calls[q].due <= settledAt + Slack
        PROVE  Settling(q)' /\ calls'[q].due <= settledAt + Slack
    BY <1>6, <2>4 DEF Settling, Elsewhere
  <2>5. 0 < Wrapup => \A q \in Slots : Paying(q)' => calls'[q].due < Limit + Slack
    BY <1>6, <2>1 DEF Paying, Elsewhere
  <2>. QED
    BY <1>3, <1>6, <2>1, <2>2, <2>3, <2>4, <2>5 DEF WrapsUp, Elsewhere
<1>. QED
  BY <1>8, <1>9, <1>10, <1>11, <1>12 DEF Promises

\* The verdict is settled: the deadline is within the wrapup from now, though
\* it may be later than the one it overwrites.
LEMMA WritePromises == ASSUME IInv, NEW s \in Slots, SetDeadline(s) PROVE Promises'
<1>1. CallsOK
  BY TypeParts DEF IInv
<1>2. calls[s].stage = "write"
  BY DEF SetDeadline
<1>3. /\ paymentDecided' <=> paymentDecided
      /\ deadline' = calls[s].job
      /\ ledger' = ledger /\ decisions' = decisions /\ planner' = planner
  BY DEF SetDeadline, stores
<1>4. /\ now \in Nat /\ calls[s].job \in Nat
      /\ (settledAt # None => settledAt \in Nat)
      /\ EpisodeTime \in Nat /\ Wrapup \in Nat /\ Slack \in Nat
      /\ \A q \in Slots : calls[q].due \in Nat
      /\ \A q \in Slots : Settling(q) => calls[q].job \in Nat
  BY <1>2, NumbersOK DEF IInv, Settling
<1>5. /\ \A q \in Slots : Settling(q) => calls[q].job <= now + Wrapup
      /\ calls[s].job <= EpisodeTime + Slack
  BY <1>2 DEF IInv, Promises, InTime, CallInTime
<1>6. Elsewhere(s) /\ calls'[s].stage = "idle"
  BY <1>1, CallMoves, IdleCall DEF SetDeadline, Elsewhere, watch
<1>7. planner \notin {"off", "starting", "finished"}
  BY <1>2 DEF IInv, Promises, Idling, AllIdle
<1>8. InTime'
  BY <1>3, <1>5, <1>6, <1>7
  DEF IInv, Promises, InTime, CallInTime, Settling, Paying, Elsewhere, Timed
<1>9. Idling'
  BY <1>3, <1>6, <1>7 DEF IInv, Promises, Idling, Elsewhere
<1>10. LedgerRecorded' /\ DecisionSettles'
  BY <1>2, <1>3, <1>6
  DEF IInv, Promises, LedgerRecorded, Executed, DecisionSettles, Elsewhere
<1>11. SettledSoon'
  BY <1>2, <1>3, <1>5, <1>6 DEF SettledSoon, Settling, Elsewhere
<1>12. WrapsUp'
  <2>. SUFFICES ASSUME worker = "watching", settledAt # None
                PROVE  WrapsUp'
    BY <1>6 DEF WrapsUp, Elsewhere
  <2>1. /\ paymentDecided /\ settledAt <= now
        /\ Near(Limit) \/ \E q \in Slots : Settling(q) /\ calls[q].due <= settledAt + Slack
        /\ 0 < Wrapup => \A q \in Slots : Paying(q) => calls[q].due < Limit + Slack
    BY DEF IInv, Promises, WrapsUp
  <2>2. Limit' = Limit /\ Limit \in Nat
    BY <1>4, <1>6 DEF Limit, Elsewhere
  <2>3. Near(Limit) => Near(Limit)'
    BY <1>2, <1>3, <1>6, <2>2 DEF Near, Elsewhere
  <2>4. calls[s].due <= settledAt + Slack => Near(Limit)'
    <3>. SUFFICES ASSUME calls[s].due <= settledAt + Slack PROVE Near(Limit)'
      OBVIOUS
    <3>1. now <= calls[s].due
      BY <1>2 DEF IInv, Promises, InTime, CallInTime, Timed
    <3>2. now + Wrapup <= Limit
      BY <1>4, <3>1 DEF Limit
    <3>3. \A q \in Slots : Settling(q) => calls[q].job <= Limit
      BY <1>4, <1>5, <2>2, <3>2
    <3>. QED
      BY <1>2, <1>3, <1>6, <2>2, <3>3 DEF Near, Settling, Elsewhere
  <2>5. ASSUME NEW q \in Slots, q # s, Settling(q), calls[q].due <= settledAt + Slack
        PROVE  Settling(q)' /\ calls'[q].due <= settledAt + Slack
    BY <1>6, <2>5 DEF Settling, Elsewhere
  <2>6. 0 < Wrapup => \A q \in Slots : Paying(q)' => calls'[q].due < Limit + Slack
    BY <1>6, <2>1 DEF Paying, Elsewhere
  <2>. QED
    BY <1>3, <1>6, <2>1, <2>2, <2>3, <2>4, <2>5, <2>6 DEF WrapsUp, Elsewhere
<1>. QED
  BY <1>8, <1>9, <1>10, <1>11, <1>12 DEF Promises

\* Preparing a payment promises nothing.
LEMMA PreparePromises ==
    ASSUME IInv, NEW s \in Slots, Enter(s) \/ Prepare(s) PROVE Promises'
<1>1. CallsOK
  BY TypeParts DEF IInv
<1>2. calls[s].stage \in {"enter", "email", "extract", "reading", "lookup"}
  BY DEF Enter, Prepare, ReadEmail, ExtractInvoice, ReaderReturns, LookupVendor
<1>3. /\ deadline' = deadline /\ (paymentDecided' <=> paymentDecided)
      /\ ledger' = ledger /\ decisions' = decisions /\ planner' \in {planner, "stopping"}
      /\ now' = now /\ worker' = worker /\ settledAt' = settledAt /\ report' = report
  BY DEF Enter, Prepare, ReadEmail, ExtractInvoice, ReaderReturns, LookupVendor, tools, stores, watch
<1>4. \E call : Move(s, call) /\ call.stage \notin Timed
  <2>1. \A job, stage : stage \notin Timed => At(stage, job, 0).stage \notin Timed
    BY DEF At
  <2>2. Idle.stage \notin Timed
    BY IdleCall DEF Timed
  <2>3. "email" \notin Timed /\ "choose" \notin Timed /\ "extract" \notin Timed
        /\ "reading" \notin Timed /\ "lookup" \notin Timed
    BY DEF Timed
  <2>4. CASE Enter(s)
    BY <2>1, <2>2, <2>3, <2>4 DEF Enter
  <2>5. CASE ReadEmail(s)
    BY <2>1, <2>2, <2>3, <2>5 DEF ReadEmail, Spend
  <2>6. CASE ExtractInvoice(s)
    BY <2>1, <2>2, <2>3, <2>6 DEF ExtractInvoice, Spend
  <2>7. CASE ReaderReturns(s)
    BY <2>1, <2>2, <2>3, <2>7 DEF ReaderReturns
  <2>8. CASE LookupVendor(s)
    BY <2>1, <2>2, <2>3, <2>8 DEF LookupVendor, Spend
  <2>. QED
    BY <2>4, <2>5, <2>6, <2>7, <2>8 DEF Prepare
<1>5. Elsewhere(s) /\ calls'[s].stage \notin Timed
  BY <1>1, <1>3, <1>4, CallMoves DEF Elsewhere
<1>. QED
  BY <1>2, <1>3, <1>5, UnhurriedPromises

\* A refusal before enforcement is answered in the slack; a payment is
\* admitted before the deadline.
LEMMA ChoosePromises ==
    ASSUME IInv, NEW s \in Slots, PayPrepared(s) \/ PayVendor(s) PROVE Promises'
<1>1. CallsOK
  BY TypeParts DEF IInv
<1>2. calls[s].stage \in {"choose", "spend"}
  BY DEF PayPrepared, PayVendor
<1>3. /\ deadline' = deadline /\ (paymentDecided' <=> paymentDecided)
      /\ ledger' = ledger /\ decisions' = decisions /\ planner' = planner
      /\ now' = now /\ worker' = worker /\ settledAt' = settledAt /\ report' = report
  BY DEF PayPrepared, PayVendor, tools, stores, watch
<1>4. \E call :
        /\ Move(s, call)
        /\ \/ call.stage \notin Timed
           \/ /\ call.stage = "answer" \/ (call.stage = "judge" /\ now < deadline)
              /\ call.due = now + Slack
  <2>1. \A job, due :
            /\ At("answer", job, due).stage = "answer" /\ At("answer", job, due).due = due
            /\ At("judge", job, due).stage = "judge" /\ At("judge", job, due).due = due
            /\ At("spend", job, due).stage \notin Timed
    BY DEF At, Timed
  <2>2. Idle.stage \notin Timed
    BY IdleCall DEF Timed
  <2>3. CASE PayPrepared(s)
    <3>. DEFINE payment == [account |-> Chosen(calls[s].job), invoice |-> prepared.invoice,
                            terms |-> prepared.terms]
                refused == prepared = None \/ prepared.invoice = None \/ Chosen(calls[s].job) = None
    <3>1. IF refused THEN Move(s, At("answer", "DENIED", now + Slack))
          ELSE Move(s, At("spend", payment, 0))
      BY Zenon, <2>3 DEF PayPrepared
    <3>. HIDE DEF refused
    <3>. HIDE DEF payment
    <3>2. CASE Move(s, At("answer", "DENIED", now + Slack))
      <4>. DEFINE answer == At("answer", "DENIED", now + Slack)
      <4>1. answer.stage = "answer" /\ answer.due = now + Slack
        BY <2>1
      <4>2. Move(s, answer)
        BY <3>2
      <4>. HIDE DEF answer
      <4>. QED
        BY <4>1, <4>2
    <3>3. CASE Move(s, At("spend", payment, 0))
      BY <2>1, <3>3
    <3>. QED
      BY <3>1, <3>2, <3>3
  <2>4. CASE PayVendor(s)
    <3>1. ~OutOfTime => now < deadline
      BY NumbersOK DEF IInv, OutOfTime
    <3>. QED
      BY <2>1, <2>2, <2>4, <3>1 DEF PayVendor, Spend
  <2>. QED
    BY <2>3, <2>4
<1>5. /\ Elsewhere(s)
      /\ \/ calls'[s].stage \notin Timed
         \/ /\ calls'[s].stage = "answer" \/ (calls'[s].stage = "judge" /\ now < deadline)
            /\ calls'[s].due = now + Slack
  BY <1>1, <1>3, <1>4, CallMoves DEF Elsewhere
<1>. QED
  BY <1>2, <1>3, <1>5, UnhurriedPromises, AdmitPromises

\* The rest of an admitted payment, step by step.
LEMMA FinishPromises == ASSUME IInv, NEW s \in Slots, Finish(s) PROVE Promises'
BY JudgePromises, PayPromises, RecordPromises, KeepPromises, SettlePromises, WritePromises
DEF Finish

\* An episode starts within the slack, with nothing decided.
LEMMA StartPromises == ASSUME IInv, StartEpisode PROVE Promises'
<1>1. /\ AllIdle /\ ledger = <<>> /\ decisions = <<>> /\ ~paymentDecided /\ now <= Slack
      /\ worker # "start"
  BY DEF StartEpisode, IInv, Promises, Idling, InTime
<1>2. /\ now' = now /\ planner' = "running" /\ ledger' = <<>> /\ decisions' = <<>>
      /\ worker' = worker /\ settledAt' = settledAt /\ report' = report
      /\ deadline' = now + EpisodeTime
  BY <1>1 DEF StartEpisode, stores, watch
<1>3. ~paymentDecided'
  BY Zenon DEF StartEpisode
<1>4. \A q \in Slots : calls'[q].stage \notin Timed
  <2>1. CallsOK
    BY TypeParts DEF IInv
  <2>2. At("email", None, 0).stage \notin Timed
    BY DEF At, Timed
  <2>3. \A q \in Slots : calls[q].stage \notin Timed
    BY <1>1 DEF AllIdle, Timed
  <2>4. UNCHANGED calls \/ \E s \in Slots : Move(s, At("email", None, 0))
    BY DEF StartEpisode
  <2>5. ASSUME NEW s \in Slots, Move(s, At("email", None, 0))
        PROVE  \A q \in Slots : calls'[q].stage \notin Timed
    BY <2>1, <2>2, <2>3, <2>5, CallMoves
  <2>. QED
    BY <2>3, <2>4, <2>5
<1>5. Executed' = FALSE
  BY <1>2 DEF Executed
<1>6. now \in Nat /\ EpisodeTime \in Nat /\ Slack \in Nat
  BY NumbersOK DEF IInv
<1>7. InTime'
  BY <1>1, <1>2, <1>4, <1>6 DEF InTime, CallInTime, Paying, Settling, Timed
<1>8. Idling'
  BY <1>1, <1>2 DEF IInv, Promises, Idling
<1>9. LedgerRecorded'
  BY <1>2, <1>4, <1>5 DEF LedgerRecorded, Timed
<1>10. DecisionSettles' /\ SettledSoon'
  BY <1>2, <1>3 DEF DecisionSettles, SettledSoon
<1>11. WrapsUp'
  BY <1>1, <1>2 DEF IInv, Promises, WrapsUp
<1>. QED
  BY <1>7, <1>8, <1>9, <1>10, <1>11 DEF Promises

\* A turn of the model begins with nothing under way.
LEMMA TurnPromises == ASSUME IInv, NewTurn \/ FinishEpisode PROVE Promises'
<1>1. AllIdle /\ planner \in {"running", "stopping"}
  BY DEF NewTurn, FinishEpisode
<1>2. /\ now' = now /\ ledger' = ledger /\ decisions' = decisions /\ deadline' = deadline
      /\ worker' = worker /\ settledAt' = settledAt /\ report' = report
      /\ paymentDecided' <=> paymentDecided
  BY DEF NewTurn, FinishEpisode, tools, stores, watch
<1>3. \A q \in Slots : calls[q].stage \notin Timed /\ calls'[q].stage \notin Timed
  <2>1. \A q \in Slots : calls[q].stage \notin Timed
    BY <1>1 DEF AllIdle, Timed
  <2>2. CASE NewTurn
    <3>1. PICK asked \in [Slots -> {"prepare", "nothing"} \cup Choice] :
              calls' = [s \in Slots |-> IF asked[s] = "nothing" THEN Idle
                                        ELSE At("enter", asked[s], 0)]
      BY <2>2 DEF NewTurn
    <3>2. \A job : At("enter", job, 0).stage \notin Timed
      BY DEF At, Timed
    <3>3. Idle.stage \notin Timed
      BY IdleCall DEF Timed
    <3>. QED
      BY <2>1, <3>1, <3>2, <3>3
  <2>3. CASE FinishEpisode
    BY <2>1, <2>3 DEF FinishEpisode
  <2>. QED
    BY <2>2, <2>3
<1>4. InTime'
  BY <1>1, <1>2, <1>3
  DEF IInv, Promises, InTime, CallInTime, Paying, Settling, Timed, NewTurn, FinishEpisode
<1>5. Idling'
  BY <1>1, <1>2 DEF IInv, Promises, Idling, AllIdle, NewTurn, FinishEpisode
<1>6. LedgerRecorded' /\ DecisionSettles'
  BY <1>2, <1>3 DEF IInv, Promises, LedgerRecorded, Executed, DecisionSettles, Timed
<1>7. SettledSoon'
  BY <1>2, <1>3 DEF IInv, Promises, SettledSoon, Settling, Timed
<1>8. WrapsUp'
  BY <1>2, <1>3 DEF IInv, Promises, WrapsUp, Near, Limit, Paying, Settling, Timed
<1>. QED
  BY <1>4, <1>5, <1>6, <1>7, <1>8 DEF Promises

\* The clock advances no further than running code allows.
LEMMA TickPromises == ASSUME IInv, Tick PROVE Promises'
<1>1. /\ now' = now + 1 /\ calls' = calls /\ deadline' = deadline
      /\ ledger' = ledger /\ decisions' = decisions /\ planner' = planner
      /\ worker' = worker /\ settledAt' = settledAt /\ report' = report
      /\ paymentDecided' <=> paymentDecided
      /\ worker # "start" /\ (planner = "starting" => now < Slack)
      /\ \A s \in Slots : calls[s].stage \in Timed => now < calls[s].due
  BY DEF Tick, tools, stores, watch
<1>2. /\ now \in Nat /\ deadline \in Nat /\ (settledAt # None => settledAt \in Nat)
      /\ EpisodeTime \in Nat /\ Wrapup \in Nat /\ Slack \in Nat
      /\ \A q \in Slots : calls[q].due \in Nat
  BY NumbersOK DEF IInv
<1>0. \A q \in Slots : Settling(q) => calls[q].job \in Nat
  BY NumbersOK DEF IInv
<1>3. InTime'
  BY <1>0, <1>1, <1>2 DEF IInv, Promises, InTime, CallInTime, Paying, Settling
<1>4. Idling' /\ LedgerRecorded' /\ DecisionSettles'
  BY <1>1 DEF IInv, Promises, Idling, AllIdle, LedgerRecorded, Executed, DecisionSettles
<1>5. SettledSoon'
  BY <1>1, <1>2 DEF IInv, Promises, SettledSoon, Settling
<1>6. WrapsUp'
  BY <1>1, <1>2 DEF IInv, Promises, WrapsUp, Near, Limit, Paying, Settling
<1>. QED
  BY <1>3, <1>4, <1>5, <1>6 DEF Promises

\* The worker only watches; what it sees decided is settled within the slack.
LEMMA WorkerPromises == ASSUME IInv, Worker PROVE Promises'
<1>1. /\ now' = now /\ calls' = calls /\ deadline' = deadline
      /\ ledger' = ledger /\ decisions' = decisions
      /\ paymentDecided' <=> paymentDecided
  BY DEF Worker, StartThread, CannotStart, SeeDone, SeeDecided, FollowUpOver, GiveUp,
     StopWatching, ReadDecisions, ReadLedger, ReadAttempts, Conclude, tools, stores
<1>2. \/ planner' = planner /\ worker # "start"
      \/ worker = "start" /\ planner' = "starting" /\ worker' = "watching"
      \/ worker = "start" /\ planner' = planner /\ worker' = "reported"
  <2>1. CASE StartThread \/ CannotStart
    BY <2>1 DEF StartThread, CannotStart
  <2>2. CASE SeeDecided
    BY <2>2 DEF SeeDecided
  <2>3. CASE SeeDone \/ FollowUpOver \/ GiveUp
    BY <2>3 DEF SeeDone, FollowUpOver, GiveUp, StopWatching
  <2>4. CASE ReadDecisions \/ ReadLedger \/ ReadAttempts \/ Conclude
    BY <2>4 DEF ReadDecisions, ReadLedger, ReadAttempts, Conclude
  <2>. QED
    BY <2>1, <2>2, <2>3, <2>4 DEF Worker
<1>3. worker' # "start"
  <2>1. CASE SeeDecided
    BY <2>1 DEF SeeDecided
  <2>2. CASE ~SeeDecided
    BY <2>2 DEF Worker, StartThread, CannotStart, SeeDone, FollowUpOver, GiveUp,
       StopWatching, ReadDecisions, ReadLedger, ReadAttempts, Conclude
  <2>. QED
    BY <2>1, <2>2
<1>4. /\ now \in Nat /\ deadline \in Nat
      /\ EpisodeTime \in Nat /\ Wrapup \in Nat /\ Slack \in Nat
      /\ \A q \in Slots : calls[q].due \in Nat
  BY NumbersOK DEF IInv
<1>5. InTime'
  BY <1>1, <1>2, <1>3, <1>4 DEF IInv, Promises, InTime, CallInTime, Paying, Settling
<1>6. Idling'
  <2>1. report' # None => worker' = "reported"
    BY DEF IInv, Promises, Idling, Worker, StartThread, CannotStart, SeeDone, SeeDecided,
       FollowUpOver, GiveUp, StopWatching, ReadDecisions, ReadLedger, ReadAttempts, Conclude
  <2>2. worker' = "watching" => worker \in {"start", "watching"}
    BY DEF Worker, StartThread, CannotStart, SeeDone, SeeDecided,
       FollowUpOver, GiveUp, StopWatching, ReadDecisions, ReadLedger, ReadAttempts, Conclude
  <2>3. worker' # "watching" => settledAt' = None
    <3>1. CASE SeeDecided
      BY <3>1 DEF SeeDecided
    <3>2. CASE SeeDone \/ FollowUpOver \/ GiveUp
      BY <3>2 DEF SeeDone, FollowUpOver, GiveUp, StopWatching
    <3>3. CASE StartThread \/ CannotStart \/ ReadDecisions \/ ReadLedger \/ ReadAttempts \/ Conclude
      BY <3>3 DEF IInv, Promises, Idling, StartThread, CannotStart, ReadDecisions, ReadLedger,
         ReadAttempts, Conclude
    <3>. QED
      BY <3>1, <3>2, <3>3 DEF Worker
  <2>. QED
    BY <1>1, <1>2, <1>3, <2>1, <2>2, <2>3 DEF IInv, Promises, Idling, AllIdle
<1>7. LedgerRecorded' /\ DecisionSettles' /\ SettledSoon'
  BY <1>1 DEF IInv, Promises, LedgerRecorded, Executed, DecisionSettles, SettledSoon, Settling
<1>8. WrapsUp'
  <2>1. CASE SeeDecided
    <3>1. /\ paymentDecided /\ settledAt' = now
      BY <2>1 DEF SeeDecided
    <3>2. deadline <= now + Wrapup \/ \E q \in Slots : Settling(q)
      BY <3>1 DEF IInv, Promises, SettledSoon
    <3>3. \A q \in Slots :
            /\ calls[q].stage \in Timed => calls[q].due <= now + Slack
            /\ Settling(q) => calls[q].job <= now + Wrapup
      BY DEF IInv, Promises, InTime, CallInTime
    <3>4. now + Wrapup <= Limit' /\ Limit' = now + Slack + Wrapup
      BY <1>4, <3>1 DEF Limit
    <3>5. deadline <= now + Wrapup => Near(Limit)'
      <4>1. \A q \in Slots : Settling(q) => calls[q].job \in Nat
        BY NumbersOK DEF IInv
      <4>2. \A q \in Slots : calls[q].stage = "write" => calls[q].job <= now + Slack + Wrapup
        BY <1>4, <3>3, <4>1 DEF Settling
      <4>. QED
        BY <1>1, <1>4, <3>4, <4>2 DEF Near
    <3>6. \/ Near(Limit)'
          \/ \E q \in Slots : Settling(q)' /\ calls'[q].due <= now + Slack
      BY <1>1, <3>2, <3>3, <3>5 DEF Settling, Timed
    <3>7. 0 < Wrapup => \A q \in Slots : Paying(q) => calls[q].due < Limit' + Slack
      BY <1>4, <3>3, <3>4 DEF Paying, Timed
    <3>. QED
      BY <1>1, <1>4, <3>1, <3>6, <3>7 DEF WrapsUp, Paying
  <2>2. CASE StartThread
    <3>1. settledAt' = None
      BY <2>2 DEF StartThread, IInv, Promises, Idling
    <3>. QED
      BY <3>1 DEF WrapsUp
  <2>3. CASE ~SeeDecided /\ ~StartThread
    <3>1. worker' # "watching"
      BY <2>3 DEF Worker, CannotStart, SeeDone, FollowUpOver, GiveUp, StopWatching,
         ReadDecisions, ReadLedger, ReadAttempts, Conclude
    <3>. QED
      BY <3>1 DEF WrapsUp
  <2>. QED
    BY <2>1, <2>2, <2>3
<1>. QED
  BY <1>5, <1>6, <1>7, <1>8 DEF Promises

\* A step that changes nothing keeps what was promised.
LEMMA StutterPromises == ASSUME IInv, UNCHANGED vars PROVE Promises'
<1>1. /\ now' = now /\ calls' = calls /\ deadline' = deadline
      /\ ledger' = ledger /\ decisions' = decisions /\ planner' = planner
      /\ worker' = worker /\ settledAt' = settledAt /\ report' = report
      /\ paymentDecided' <=> paymentDecided
  BY DEF vars, tools, stores, watch
<1>. QED
  BY <1>1 DEF IInv, Promises, InTime, CallInTime, Paying, Idling, AllIdle, LedgerRecorded,
     Executed, DecisionSettles, SettledSoon, Settling, WrapsUp, Near, Limit

\* Every step keeps the invariant.
LEMMA StepInvariant == IInv /\ [Next]_vars => IInv'
<1>. SUFFICES ASSUME IInv, [Next]_vars PROVE IInv'
  OBVIOUS
<1>1. TypeOK'
  BY StepTypes DEF IInv
<1>2. ASSUME NEW s \in Slots,
             Enter(s) \/ Prepare(s) \/ PayPrepared(s) \/ PayVendor(s) \/ Finish(s)
      PROVE  Promises'
  BY <1>2, PreparePromises, ChoosePromises, FinishPromises
<1>3. ASSUME StartEpisode \/ NewTurn \/ FinishEpisode PROVE Promises'
  BY <1>3, StartPromises, TurnPromises
<1>4. ASSUME Worker \/ Tick PROVE Promises'
  BY <1>4, WorkerPromises, TickPromises
<1>5. ASSUME UNCHANGED vars PROVE Promises'
  BY <1>5, StutterPromises
<1>6. Promises'
  BY <1>2, <1>3, <1>4, <1>5 DEF Next, Planner
<1>. QED
  BY <1>1, <1>6 DEF IInv

\* The strengthened invariant holds throughout, whatever the times are.
THEOREM Invariant == Spec => []IInv
<1>1. Init => IInv
  BY InitTypes, InitPromises DEF IInv
<1>. QED
  BY <1>1, StepInvariant, PTL DEF Spec

\* A settled verdict buys no time beyond one period to wrap up: a slack after
\* the worker has seen it, the deadline is within the wrapup of that moment,
\* though calls side by side overwrite each other's, whatever the times are.
THEOREM WrapUpIsBounded == Spec => []SettledBuysNoTime
<1>1. IInv => SettledBuysNoTime
  <2>. SUFFICES ASSUME IInv, settledAt # None, settledAt + Slack < now
                PROVE  deadline <= settledAt + Slack + Wrapup
    BY DEF SettledBuysNoTime
  <2>1. Near(Limit) \/ \E s \in Slots : Settling(s) /\ calls[s].due <= settledAt + Slack
    BY DEF IInv, Promises, Idling, WrapsUp
  <2>2. ASSUME NEW s \in Slots, Settling(s), calls[s].due <= settledAt + Slack PROVE FALSE
    <3>1. now <= calls[s].due
      BY <2>2 DEF IInv, Promises, InTime, CallInTime, Settling, Timed
    <3>2. now \in Nat /\ settledAt \in Nat /\ Slack \in Nat /\ calls[s].due \in Nat
      BY NumbersOK DEF IInv
    <3>. QED
      BY <2>2, <3>1, <3>2
  <2>. QED
    BY <2>1, <2>2 DEF Near, Limit
<1>. QED
  BY <1>1, Invariant, PTL DEF Spec

-----------------------------------------------------------------------------
(* When the worker may read.                                               *)

\* Once quiet, an episode stays so, and neither pays nor decides anything.
LEMMA QuietStays ==
    ASSUME IInv, Quiet, worker # "start", [Next]_vars
    PROVE  Quiet' /\ ledger' = ledger /\ decisions' = decisions
<1>1. /\ now \in Nat /\ deadline \in Nat
      /\ \A s \in Slots : Settling(s) => calls[s].job \in Nat
  BY NumbersOK DEF IInv
<1>2. CallsOK
  BY TypeParts DEF IInv
<1>3. ~StartEpisode /\ ~StartThread
  BY DEF StartEpisode, StartThread, Quiet
<1>4. ASSUME NEW s \in Slots, NEW call, Move(s, call),
             call.stage \notin {"judge", "ledger", "record", "write"}
      PROVE  /\ \A q \in Slots : ~Paying(q)'
             /\ Near(now) /\ now' = now /\ deadline' = deadline => Near(now)'
  BY <1>2, <1>4, CallMoves DEF Quiet, Paying, Near
<1>5. ASSUME NEW s \in Slots, Enter(s) \/ Prepare(s) \/ PayPrepared(s) \/ PayVendor(s)
      PROVE  Quiet' /\ ledger' = ledger /\ decisions' = decisions
  <2>1. /\ now' = now /\ deadline' = deadline /\ planner' \in {planner, "stopping"}
        /\ ledger' = ledger /\ decisions' = decisions
    BY <1>5 DEF Enter, Prepare, ReadEmail, ExtractInvoice, ReaderReturns, LookupVendor,
       PayPrepared, PayVendor, tools, stores
  <2>2. calls[s].stage # "idle"
    BY <1>5 DEF Enter, Prepare, ReadEmail, ExtractInvoice, ReaderReturns, LookupVendor,
       PayPrepared, PayVendor
  <2>3. planner \notin {"off", "finished"} /\ Near(now)
    BY <2>2 DEF Quiet, IInv, Promises, Idling, AllIdle
  <2>4. OutOfTime
    BY <1>1, <2>3 DEF OutOfTime, Near
  <2>5. \E call : Move(s, call) /\ call.stage \notin {"judge", "ledger", "record", "write"}
    <3>1. \A job, due : /\ At("email", job, due).stage = "email"
                        /\ At("choose", job, due).stage = "choose"
                        /\ At("lookup", job, due).stage = "lookup"
                        /\ At("answer", job, due).stage = "answer"
                        /\ At("spend", job, due).stage = "spend"
      BY DEF At
    <3>2. CASE Enter(s)
      BY <2>4, <3>1, <3>2, IdleCall DEF Enter
    <3>3. CASE ReadEmail(s) \/ ExtractInvoice(s) \/ LookupVendor(s) \/ PayVendor(s)
      <4>1. Move(s, Idle)
        BY <2>4, <3>3 DEF ReadEmail, ExtractInvoice, LookupVendor, PayVendor, Spend
      <4>. QED
        BY <4>1, IdleCall
    <3>4. CASE ReaderReturns(s)
      BY <3>1, <3>4, IdleCall DEF ReaderReturns
    <3>5. CASE PayPrepared(s)
      <4>. DEFINE payment == [account |-> Chosen(calls[s].job), invoice |-> prepared.invoice,
                              terms |-> prepared.terms]
      <4>1. Move(s, At("answer", "DENIED", now + Slack)) \/ Move(s, At("spend", payment, 0))
        BY <3>5 DEF PayPrepared
      <4>. HIDE DEF payment
      <4>. QED
        BY <3>1, <4>1
    <3>. QED
      BY <1>5, <3>2, <3>3, <3>4, <3>5 DEF Prepare
  <2>6. (\A q \in Slots : ~Paying(q)') /\ Near(now)'
    BY <1>4, <2>1, <2>3, <2>5
  <2>. QED
    BY <2>1, <2>3, <2>6 DEF Quiet, IInv, Promises, Idling
<1>6. ASSUME NEW s \in Slots, Finish(s)
      PROVE  Quiet' /\ ledger' = ledger /\ decisions' = decisions
  <2>1. KeepAttempt(s) \/ Settle(s) \/ SetDeadline(s)
    BY <1>6 DEF Quiet, Paying, Finish, Judge, JudgeFails, Pay, RecordDecision
  <2>2. /\ now' = now /\ planner' = planner /\ ledger' = ledger /\ decisions' = decisions
    BY <2>1 DEF KeepAttempt, Settle, SetDeadline, stores
  <2>3. Near(now)
    BY <2>1 DEF KeepAttempt, Settle, SetDeadline, Quiet, IInv, Promises, Idling, AllIdle
  <2>4. CASE KeepAttempt(s)
    <3>1. At("settle", now + Wrapup, calls[s].due).stage = "settle"
      BY DEF At
    <3>. QED
      BY <1>4, <2>2, <2>3, <2>4, <3>1 DEF KeepAttempt, Quiet
  <2>5. CASE Settle(s)
    <3>1. PICK nearer \in Nat : nearer <= deadline /\ Move(s, At("write", nearer, calls[s].due))
      BY <1>1, <2>5 DEF Settle, Settling
    <3>2. /\ calls'[s].stage = "write" /\ calls'[s].job = nearer
          /\ \A q \in Slots : q # s => calls'[q] = calls[q]
      BY <1>2, <3>1, CallMoves DEF At
    <3>3. deadline' = deadline
      BY <2>5 DEF Settle, tools
    <3>4. Near(now)'
      BY <1>1, <2>2, <2>3, <3>1, <3>2, <3>3 DEF Near
    <3>. QED
      BY <2>2, <3>2, <3>4 DEF Quiet, Paying
  <2>6. CASE SetDeadline(s)
    <3>1. deadline' = calls[s].job /\ calls[s].stage = "write" /\ Move(s, Idle)
      BY <2>6 DEF SetDeadline
    <3>2. calls'[s].stage = "idle" /\ \A q \in Slots : q # s => calls'[q] = calls[q]
      BY <1>2, <3>1, CallMoves, IdleCall
    <3>3. Near(now)'
      BY <2>2, <2>3, <3>1, <3>2 DEF Near
    <3>. QED
      BY <2>2, <3>2, <3>3 DEF Quiet, Paying
  <2>. QED
    BY <2>1, <2>4, <2>5, <2>6
<1>7. CASE NewTurn
  <2>1. PICK asked \in [Slots -> {"prepare", "nothing"} \cup Choice] :
            calls' = [s \in Slots |-> IF asked[s] = "nothing" THEN Idle
                                      ELSE At("enter", asked[s], 0)]
    BY <1>7 DEF NewTurn
  <2>2. \A job : At("enter", job, 0).stage = "enter"
    BY DEF At
  <2>3. \A q \in Slots : ~Paying(q)' /\ calls'[q].stage # "write"
    BY <2>1, <2>2, IdleCall DEF Paying
  <2>. QED
    BY <1>7, <2>3 DEF NewTurn, Quiet, Near, tools, stores
<1>8. CASE FinishEpisode \/ Tick \/ UNCHANGED vars
  <2>1. calls' = calls /\ deadline' = deadline /\ ledger' = ledger /\ decisions' = decisions
        /\ now' \in {now, now + 1} /\ planner' \in {planner, "finished"}
    BY <1>8 DEF FinishEpisode, Tick, vars, tools, stores
  <2>2. Near(now) => Near(now)'
    BY <1>1, <2>1 DEF Near, Settling
  <2>. QED
    BY <2>1, <2>2 DEF Quiet, Paying
<1>9. CASE Worker
  <2>1. /\ now' = now /\ deadline' = deadline /\ planner' = planner /\ calls' = calls
        /\ ledger' = ledger /\ decisions' = decisions
    BY <1>3, <1>9 DEF Worker, CannotStart, SeeDone, SeeDecided, FollowUpOver, GiveUp, StopWatching,
       ReadDecisions, ReadLedger, ReadAttempts, Conclude, tools, stores
  <2>. QED
    BY <2>1 DEF Quiet, Paying, Near
<1>. QED
  BY <1>3, <1>5, <1>6, <1>7, <1>8, <1>9 DEF Next, Planner

\* When the watchdog gives up, the last payment that could be admitted is over.
LEMMA GiveUpIsQuiet ==
    ASSUME GraceSuffices, IInv, worker = "watching", WatchUntil <= now
    PROVE  Quiet /\ LastDue <= now
<1>1. /\ now \in Nat /\ deadline \in Nat /\ \A s \in Slots : calls[s].due \in Nat
      /\ EpisodeTime \in Nat /\ Slack \in Nat /\ Grace \in Nat
  BY NumbersOK DEF IInv
<1>2. LastDue <= now /\ EpisodeTime + Slack <= now /\ Slack < now
  BY <1>1 DEF GraceSuffices, WatchUntil, LastDue
<1>3. \A s \in Slots : ~Paying(s)
  <2>. SUFFICES ASSUME NEW s \in Slots, Paying(s) PROVE FALSE
    OBVIOUS
  <2>1. now <= calls[s].due /\ calls[s].due < LastDue
    BY DEF IInv, Promises, InTime, CallInTime, Paying, Timed
  <2>2. LastDue \in Nat /\ calls[s].due \in Nat
    BY <1>1 DEF LastDue
  <2>. QED
    BY <1>1, <1>2, <2>1, <2>2
<1>4. \A s \in Slots : calls[s].stage = "write" =>
          calls[s].job \in Nat /\ calls[s].job <= EpisodeTime + Slack
  BY NumbersOK DEF IInv, Promises, InTime, CallInTime, Settling
<1>5. planner # "starting" /\ Near(now)
  BY <1>1, <1>2, <1>4 DEF IInv, Promises, InTime, Near
<1>. QED
  BY <1>2, <1>3, <1>5 DEF Quiet

\* When the follow-up is over, so is everything the planner could still pay.
LEMMA FollowUpIsQuiet ==
    ASSUME 0 < Wrapup, NotCutShort, IInv, FollowUpOver
    PROVE  Quiet
<1>1. /\ now \in Nat /\ deadline \in Nat /\ settledAt \in Nat
      /\ \A s \in Slots : calls[s].due \in Nat
      /\ Wrapup \in Nat /\ Slack \in Nat
  BY NumbersOK DEF IInv, FollowUpOver
<1>2. worker = "watching" /\ settledAt # None /\ Wrapup + 2 * Slack <= now - settledAt
  BY <1>1 DEF FollowUpOver, StopWatching, NotCutShort
<1>3. /\ Near(Limit) \/ \E s \in Slots : Settling(s) /\ calls[s].due <= settledAt + Slack
      /\ \A s \in Slots : Paying(s) => calls[s].due < Limit + Slack
  BY <1>2 DEF IInv, Promises, WrapsUp
<1>4. \A s \in Slots : calls[s].stage \in Timed => now <= calls[s].due
  BY DEF IInv, Promises, InTime, CallInTime
<1>5. Limit \in Nat /\ Limit + Slack <= now /\ settledAt + Slack < now
  BY <1>1, <1>2 DEF Limit
<1>6. Near(Limit)
  BY <1>1, <1>3, <1>4, <1>5 DEF Settling, Timed
<1>7. Near(now)
  <2>1. \A s \in Slots : calls[s].stage = "write" => calls[s].job \in Nat
    BY NumbersOK DEF IInv, Settling
  <2>. QED
    BY <1>1, <1>5, <1>6, <2>1 DEF Near
<1>8. \A s \in Slots : ~Paying(s)
  <2>. SUFFICES ASSUME NEW s \in Slots, Paying(s) PROVE FALSE
    OBVIOUS
  <2>1. now <= calls[s].due /\ calls[s].due < Limit + Slack
    BY <1>3, <1>4 DEF Paying, Timed
  <2>2. calls[s].due \in Nat
    BY <1>1
  <2>. QED
    BY <1>1, <1>5, <2>1, <2>2
<1>9. planner # "starting"
  BY <1>2 DEF FollowUpOver, IInv, Promises, Idling
<1>. QED
  BY <1>7, <1>8, <1>9 DEF Quiet

\* Nothing is left of an episode that has ended, or was never begun.
LEMMA IdleIsQuiet ==
    ASSUME IInv, planner \in {"off", "finished"}
    PROVE  Quiet
<1>1. \A s \in Slots : ~Paying(s)
  BY DEF IInv, Promises, Idling, AllIdle, Paying
<1>. QED
  BY <1>1 DEF Quiet

\* What the worker holds is the worker's to change, and the clock runs on.
LEMMA OnlyTheWorker ==
    ASSUME [Next]_vars
    PROVE  /\ now' = now \/ now' = now + 1
           /\ ~Worker => /\ worker' = worker /\ report' = report /\ seen' = seen
                         /\ abandoned' <=> abandoned
<1>1. ASSUME NEW s \in Slots,
             Enter(s) \/ Prepare(s) \/ PayPrepared(s) \/ PayVendor(s) \/ Finish(s)
      PROVE  now' = now /\ UNCHANGED watch
  BY <1>1 DEF Enter, Prepare, ReadEmail, ExtractInvoice, ReaderReturns, LookupVendor,
     PayPrepared, PayVendor, Finish, Judge, JudgeFails, Pay, RecordDecision, KeepAttempt, Settle,
     SetDeadline
<1>2. ASSUME StartEpisode \/ NewTurn \/ FinishEpisode \/ UNCHANGED vars
      PROVE  now' = now /\ UNCHANGED watch
  BY <1>2 DEF StartEpisode, NewTurn, FinishEpisode, vars
<1>3. ASSUME Tick PROVE now' = now + 1 /\ UNCHANGED watch
  BY <1>3 DEF Tick
<1>4. ASSUME Worker PROVE now' = now
  BY <1>4 DEF Worker, StartThread, CannotStart, SeeDone, SeeDecided, FollowUpOver, GiveUp,
     StopWatching, ReadDecisions, ReadLedger, ReadAttempts, Conclude
<1>5. (now' = now \/ now' = now + 1) /\ (~Worker => UNCHANGED watch)
  BY <1>1, <1>2, <1>3, <1>4 DEF Next, Planner
<1>. QED
  BY <1>5 DEF watch

\* What the worker learns by giving up stays true, and nothing is decided
\* behind its back.
LEMMA GivenUpStays ==
    ASSUME GraceSuffices, IInv, GivenUp, [Next]_vars
    PROVE  GivenUp'
<1>1. /\ now \in Nat /\ now' \in Nat /\ now <= now' /\ WatchUntil \in Nat /\ LastDue \in Nat
      /\ EpisodeTime \in Nat /\ Grace \in Nat /\ Slack \in Nat
      /\ \A s \in Slots : calls[s].due \in Nat
  BY NumbersOK, OnlyTheWorker DEF IInv, WatchUntil, LastDue
<1>2. WatchUntil' = WatchUntil
  BY DEF WatchUntil
<1>3. LastDue <= WatchUntil
  BY <1>1 DEF GraceSuffices, WatchUntil, LastDue
<1>4. ASSUME worker' \in {"read_decisions", "read_ledger", "read_attempts", "conclude"}, abandoned'
      PROVE  Quiet' /\ WatchUntil <= now'
  <2>1. CASE GiveUp
    <3>1. worker = "watching" /\ WatchUntil <= now
      BY <1>1, <2>1 DEF GiveUp, StopWatching
    <3>. QED
      BY <1>1, <3>1, GiveUpIsQuiet, QuietStays
  <2>2. CASE ~GiveUp
    <3>1. worker \in {"read_decisions", "read_ledger", "read_attempts", "conclude"} /\ abandoned
      <4>1. CASE ~Worker
        BY <1>4, <4>1, OnlyTheWorker
      <4>2. ~SeeDone /\ ~FollowUpOver
        BY Zenon, <1>4 DEF SeeDone, FollowUpOver, StopWatching
      <4>3. ~StartThread /\ ~CannotStart /\ ~Conclude
        BY <1>4 DEF StartThread, CannotStart, Conclude
      <4>4. ~SeeDecided
        BY <1>4 DEF SeeDecided
      <4>5. CASE ReadDecisions \/ ReadLedger \/ ReadAttempts
        BY <1>4, <4>5 DEF ReadDecisions, ReadLedger, ReadAttempts
      <4>. QED
        BY <2>2, <4>1, <4>2, <4>3, <4>4, <4>5 DEF Worker
    <3>2. Quiet /\ WatchUntil <= now
      BY <3>1 DEF GivenUp
    <3>. QED
      BY <1>1, <3>1, <3>2, QuietStays
  <2>. QED
    BY <2>1, <2>2
<1>5. ASSUME report' # None, report'.status = "TIMED_OUT"
      PROVE  Quiet' /\ decisions' = <<>>
  <2>1. CASE Conclude
    <3>1. worker = "conclude" /\ abandoned /\ ~paymentDecided
      BY <1>5, <2>1 DEF Conclude, Report
    <3>2. Quiet /\ WatchUntil <= now
      BY <3>1 DEF GivenUp
    <3>3. \A s \in Slots : calls[s].stage = "answer" => ~(calls[s].due < LastDue)
      <4>. SUFFICES ASSUME NEW s \in Slots, calls[s].stage = "answer", calls[s].due < LastDue
                    PROVE  FALSE
        OBVIOUS
      <4>1. now <= calls[s].due
        BY DEF IInv, Promises, InTime, CallInTime, Timed
      <4>2. calls[s].due \in Nat
        BY <1>1
      <4>. QED
        BY <1>1, <1>3, <3>2, <4>1, <4>2
    <3>4. decisions = <<>>
      BY <3>1, <3>3 DEF IInv, Promises, DecisionSettles
    <3>. QED
      BY <3>1, <3>2, <3>4, QuietStays
  <2>2. CASE ~Conclude
    <3>1. ~CannotStart
      BY <1>5 DEF CannotStart, Report
    <3>2. report' = report
      BY <2>2, <3>1, OnlyTheWorker DEF Worker, StartThread, SeeDone, SeeDecided, FollowUpOver,
         GiveUp, StopWatching, ReadDecisions, ReadLedger, ReadAttempts
    <3>3. worker = "reported"
      BY <1>5, <3>2 DEF IInv, Promises, Idling
    <3>4. Quiet /\ decisions = <<>>
      BY <1>5, <3>2 DEF GivenUp
    <3>. QED
      BY <3>3, <3>4, QuietStays
  <2>. QED
    BY <2>1, <2>2
<1>. QED
  BY <1>2, <1>4, <1>5 DEF GivenUp

\* A run reported as timed out has no decision recorded and never will have,
\* if the watchdog outwaits the episode.
THEOREM GivenUpMeansUndecided ==
    ASSUME GraceSuffices
    PROVE  Spec => []TimedOutMeansUndecided
<1>1. Init => GivenUp
  BY DEF Init, GivenUp
<1>2. IInv /\ GivenUp /\ [Next]_vars => GivenUp'
  BY GivenUpStays
<1>3. GivenUp => TimedOutMeansUndecided
  BY DEF GivenUp, TimedOutMeansUndecided
<1>. QED
  BY <1>1, <1>2, <1>3, Invariant, PTL DEF Spec

\* When no payment is between the ledger and the decisions, they agree.
LEMMA QuietAgrees ==
    ASSUME IInv, Quiet
    PROVE  Executed <=> ledger # <<>>
BY DEF IInv, Promises, LedgerRecorded, Quiet, Paying

\* What the worker reads stays what there is.
LEMMA SeenStaysTrue ==
    ASSUME GraceSuffices, 0 < Wrapup, IInv, SeenIsTrue, [Next]_vars, [NotCutShort]_vars
    PROVE  SeenIsTrue'
<1>1. /\ seen \in [recorded : Seq(Outcome), paid : Nat, tried : BOOLEAN]
      /\ WatchOK /\ StoresOK
  BY TypeParts DEF IInv, WatchOK
<1>2. ASSUME worker \notin {"start", "watching"}
      PROVE  Quiet /\ Quiet' /\ ledger' = ledger /\ decisions' = decisions
  BY <1>2, QuietStays DEF SeenIsTrue
<1>3. worker' \notin {"start", "watching"} => Quiet'
  <2>1. CASE CannotStart
    <3>1. Quiet
      BY <2>1, IdleIsQuiet DEF CannotStart, IInv, Promises, Idling
    <3>. QED
      BY <2>1, <3>1 DEF CannotStart, Quiet, Paying, Near, tools
  <2>2. CASE SeeDone \/ FollowUpOver \/ GiveUp
    <3>1. worker = "watching"
      BY <2>2 DEF SeeDone, FollowUpOver, GiveUp, StopWatching
    <3>2. Quiet
      <4>1. CASE SeeDone
        BY <4>1, IdleIsQuiet DEF SeeDone
      <4>2. CASE FollowUpOver
        <5>1. NotCutShort
          <6>1. worker' # worker
            BY <4>2, <3>1 DEF FollowUpOver, StopWatching
          <6>. QED
            BY <6>1 DEF vars, watch
        <5>. QED
          BY <4>2, <5>1, FollowUpIsQuiet
      <4>3. CASE GiveUp
        <5>1. now \in Nat /\ WatchUntil \in Nat
          BY NumbersOK DEF IInv, WatchUntil
        <5>2. WatchUntil <= now
          BY <4>3, <5>1 DEF GiveUp
        <5>. QED
          BY <3>1, <5>2, GiveUpIsQuiet
      <4>. QED
        BY <2>2, <4>1, <4>2, <4>3
    <3>. QED
      BY <3>1, <3>2, QuietStays
  <2>3. CASE ~CannotStart /\ ~(SeeDone \/ FollowUpOver \/ GiveUp)
    <3>1. worker' \notin {"start", "watching"} => worker \notin {"start", "watching"}
      <4>1. CASE SeeDecided
        BY <4>1 DEF SeeDecided
      <4>2. CASE ~SeeDecided
        BY <2>3, <4>2, OnlyTheWorker
           DEF Worker, StartThread, ReadDecisions, ReadLedger, ReadAttempts, Conclude
      <4>. QED
        BY <4>1, <4>2
    <3>. QED
      BY <1>2, <3>1
  <2>. QED
    BY <2>1, <2>2, <2>3
<1>4. worker' \in {"read_ledger", "read_attempts", "conclude"} => seen'.recorded = decisions'
  <2>1. CASE ReadDecisions
    BY <1>1, <1>2, <2>1 DEF ReadDecisions
  <2>2. CASE ReadLedger \/ ReadAttempts
    BY <1>1, <1>2, <2>2 DEF ReadLedger, ReadAttempts, SeenIsTrue
  <2>3. CASE ~Worker
    BY <1>2, <2>3, OnlyTheWorker DEF SeenIsTrue
  <2>4. CASE SeeDecided
    BY <2>4 DEF SeeDecided
  <2>5. CASE StartThread \/ CannotStart \/ SeeDone \/ FollowUpOver \/ GiveUp \/ Conclude
    BY <2>5 DEF StartThread, CannotStart, SeeDone, FollowUpOver, GiveUp, StopWatching, Conclude
  <2>. QED
    BY <2>1, <2>2, <2>3, <2>4, <2>5 DEF Worker
<1>5. worker' \in {"read_attempts", "conclude"} => seen'.paid = Len(ledger')
  <2>1. CASE ReadLedger
    BY <1>1, <1>2, <2>1 DEF ReadLedger
  <2>2. CASE ReadAttempts
    BY <1>1, <1>2, <2>2 DEF ReadAttempts, SeenIsTrue
  <2>3. CASE ~Worker
    BY <1>2, <2>3, OnlyTheWorker DEF SeenIsTrue
  <2>4. CASE SeeDecided
    BY <2>4 DEF SeeDecided
  <2>5. CASE \/ StartThread \/ CannotStart \/ SeeDone \/ FollowUpOver \/ GiveUp
             \/ ReadDecisions \/ Conclude
    BY <2>5 DEF StartThread, CannotStart, SeeDone, FollowUpOver, GiveUp, StopWatching,
       ReadDecisions, Conclude
  <2>. QED
    BY <2>1, <2>2, <2>3, <2>4, <2>5 DEF Worker
<1>6. VerdictMatchesLedger'
  <2>1. CASE Conclude
    <3>. DEFINE verdict == Summary(seen.recorded, seen.tried)
    <3>1. /\ report'.verdict = verdict /\ report'.paid = seen.paid
          /\ worker = "conclude"
      BY <2>1 DEF Conclude, Report
    <3>2. seen.recorded = decisions /\ seen.paid = Len(ledger)
      BY <3>1 DEF SeenIsTrue
    <3>3. verdict = "EXECUTED" <=> Executed
      BY <1>1, <3>2, SummaryVerdict DEF Executed
    <3>4. Quiet /\ ledger' = ledger
      BY <1>2, <3>1
    <3>5. Executed <=> ledger # <<>>
      BY <3>4, QuietAgrees
    <3>. HIDE DEF verdict
    <3>. QED
      BY <3>1, <3>2, <3>3, <3>4, <3>5 DEF VerdictMatchesLedger
  <2>2. CASE CannotStart
    <3>1. ledger = <<>> /\ ledger' = ledger
      BY <2>2 DEF CannotStart, stores, IInv, Promises, Idling
    <3>2. report'.verdict = "EPISODE_FAILED" /\ report'.paid = 0
      BY <2>2 DEF CannotStart, Report
    <3>. QED
      BY <3>1, <3>2 DEF VerdictMatchesLedger
  <2>3. CASE ~Conclude /\ ~CannotStart
    <3>1. report' = report
      BY <2>3, OnlyTheWorker DEF Worker, StartThread, SeeDone, SeeDecided, FollowUpOver,
         GiveUp, StopWatching, ReadDecisions, ReadLedger, ReadAttempts
    <3>2. report # None => worker = "reported"
      BY DEF IInv, Promises, Idling
    <3>. QED
      BY <1>2, <3>1, <3>2 DEF SeenIsTrue, VerdictMatchesLedger
  <2>. QED
    BY <2>1, <2>2, <2>3
<1>. QED
  BY <1>3, <1>4, <1>5, <1>6 DEF SeenIsTrue

\* The verdict that a run reports is true, and stays so whatever the planner's
\* abandoned thread still does, in every run that the worker does not cut
\* short: whether the planner is done, the watchdog gives up, or the follow-up
\* ends after the planner has wrapped up.
THEOREM VerdictIsTrue ==
    ASSUME GraceSuffices, 0 < Wrapup
    PROVE  Spec /\ [][NotCutShort]_vars => []VerdictMatchesLedger
<1>1. Init => SeenIsTrue
  BY DEF Init, SeenIsTrue, VerdictMatchesLedger
<1>2. IInv /\ SeenIsTrue /\ [Next]_vars /\ [NotCutShort]_vars => SeenIsTrue'
  BY SeenStaysTrue
<1>3. SeenIsTrue => VerdictMatchesLedger
  BY DEF SeenIsTrue
<1>. QED
  BY <1>1, <1>2, <1>3, Invariant, PTL DEF Spec
=============================================================================
