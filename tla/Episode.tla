------------------------------- MODULE Episode -------------------------------
(***************************************************************************)
(* One episode: an email is handed to a planner, which works through the   *)
(* agent tools within a call budget and a deadline, while the run worker   *)
(* waits for it, stops waiting, and reports the run (agent_tools.py,       *)
(* planner.py, scripts/run_worker.py).                                     *)
(*                                                                         *)
(* The planner's thread cannot be killed.  What keeps a reported verdict   *)
(* true is time: a deadline stops the tools, and the worker waits longer   *)
(* than what was admitted before the deadline can take.                    *)
(*                                                                         *)
(* The enforcement point appears here by its outcome; Enforcement models   *)
(* its steps.  Flags and reviews change nothing the verdict depends on.    *)
(***************************************************************************)
EXTENDS Integers, Sequences

CONSTANTS
    Slots,       \* the tool calls of one model turn, which run side by side
    Invoices,
    Readings,    \* what the quarantined reader may return for the email
    Budget,      \* MAX_TOOL_CALLS_PER_EMAIL
    EpisodeTime, \* EPISODE_DEADLINE_SECONDS
    Wrapup,      \* WRAPUP_SECONDS
    FollowUp,    \* FOLLOW_UP_SECONDS
    Grace,       \* WATCHDOG_GRACE_SECONDS
    Slack,       \* the longest the code takes to start an episode, to pay or
                 \* to settle: everything on those paths but the tool's answer
    MaxTime,     \* bound: the clock
    None

Terms == {"within", "unsigned", "beyond"}

\* supplier: the reader found no GSTIN, one that is not on file, or one that
\* is.  account: no bank account, the digits on file, or others.  invoice:
\* None when the invoice's number or amount did not survive.  terms: what a
\* payment of this invoice to the account on file is, by policy.
Reading ==
    [supplier : {"unnamed", "unknown", "known"},
     account : {"on_file", "new", None},
     invoice : Invoices \cup {None}, terms : Terms]

ASSUME ReadingsAssumption == Readings \subseteq Reading
ASSUME BudgetAssumption == Budget \in Nat
ASSUME TimesAssumption ==
    /\ EpisodeTime \in Nat /\ Wrapup \in Nat /\ FollowUp \in Nat
    /\ Grace \in Nat /\ Slack \in Nat /\ MaxTime \in Nat

VARIABLES
    now,             \* the monotonic clock both threads read
    planner,         \* where the planner's thread stands
    backend,         \* PLANNER_BACKEND
    calls,           \* slot -> the tool call under way
    callsMade,       \* tools.calls_made
    deadline,        \* tools.deadline
    paymentDecided,  \* tools.payment_decided
    extracted,       \* tools._extracted_account
    prepared,        \* tools._prepared
    attempted,       \* whether tools.attempts holds a payment
    ledger,          \* invoices paid, in order
    decisions,       \* outcomes recorded, in order
    worker,          \* where the worker stands in process()
    settledAt,       \* when the worker first saw payment_decided
    abandoned,       \* the watchdog's answer
    seen,            \* what the worker has read for its summary
    report           \* the run's status and verdict, once published

tools == <<callsMade, deadline, paymentDecided, extracted, prepared, attempted>>
stores == <<ledger, decisions>>
watch == <<worker, settledAt, abandoned, seen, report>>
vars == <<now, planner, backend, calls, tools, stores, watch>>

-----------------------------------------------------------------------------
(* Tool calls.  due is when running code will have finished the call's     *)
(* present part; a call that waits for a model or a person has none.       *)

Choice == {"on_file", "from_invoice", "as_invoiced"}
Outcome == {"EXECUTED", "DENIED", "PENDING_APPROVAL"}

\* pay_prepared's four handles: which account's, and the invoice they are of.
Payment == [account : {"on_file", "invoiced"}, invoice : Invoices, terms : Terms]

Timed == {"judge", "ledger", "record", "answer", "settle", "write"}
Stage == {"idle", "enter", "email", "extract", "reading", "lookup",
          "choose", "spend"} \cup Timed

At(stage, job, due) == [stage |-> stage, job |-> job, due |-> due]
Idle == At("idle", None, 0)

Move(s, call) == calls' = [calls EXCEPT ![s] = call]

AllIdle == \A s \in Slots : calls[s].stage = "idle"

OutOfTime == now >= deadline

\* One call of the budget, unless the time is over.
Spend(s, admitted, refused) ==
    /\ callsMade' = IF OutOfTime THEN callsMade ELSE callsMade + 1
    /\ Move(s, IF ~OutOfTime /\ callsMade < Budget THEN admitted ELSE refused)

-----------------------------------------------------------------------------
(* The planner's thread.                                                   *)

StartEpisode ==
    /\ planner = "starting"
    /\ planner' = "running"
    /\ callsMade' = 0
    /\ paymentDecided' = FALSE
    /\ deadline' = now + EpisodeTime
    /\ IF backend = "scripted"
       THEN \E s \in Slots : Move(s, At("email", None, 0))
       ELSE UNCHANGED calls
    /\ UNCHANGED <<now, backend, extracted, prepared, attempted, stores, watch>>

\* The model asks for tools, in any number the slots allow.
NewTurn ==
    /\ planner = "running" /\ backend = "llm"
    /\ AllIdle
    /\ \E asked \in [Slots -> {"prepare", "nothing"} \cup Choice] :
        /\ \E s \in Slots : asked[s] # "nothing"
        /\ calls' = [s \in Slots |-> IF asked[s] = "nothing" THEN Idle
                                     ELSE At("enter", asked[s], 0)]
    /\ UNCHANGED <<now, planner, backend, tools, stores, watch>>

\* _stop_if_spent: EpisodeFinished either ends the agent's loop or is handed
\* to the model as the tool's error, as the framework sees fit.
Enter(s) ==
    /\ calls[s].stage = "enter"
    /\ IF callsMade >= Budget \/ OutOfTime
       THEN /\ Move(s, Idle)
            /\ planner' \in {planner, "stopping"}
       ELSE /\ Move(s, IF calls[s].job = "prepare" THEN At("email", None, 0)
                       ELSE At("choose", calls[s].job, 0))
            /\ UNCHANGED planner
    /\ UNCHANGED <<now, backend, tools, stores, watch>>

\* The model says DONE or its framework gives up, or the script has ended.
FinishEpisode ==
    /\ planner \in {"running", "stopping"}
    /\ AllIdle
    /\ planner' = "finished"
    /\ UNCHANGED <<now, backend, calls, tools, stores, watch>>

-----------------------------------------------------------------------------
(* prepare_payment: read the email, extract its invoice, find the supplier.*)

\* Only a model can name a handle that no email has.
ReadEmail(s) ==
    /\ calls[s].stage = "email"
    /\ \E found \in {At("extract", None, 0), Idle} :
        /\ backend = "scripted" => found # Idle
        /\ Spend(s, found, Idle)
    /\ UNCHANGED <<now, planner, backend, deadline, paymentDecided,
                   extracted, prepared, attempted, stores, watch>>

ExtractInvoice(s) ==
    /\ calls[s].stage = "extract"
    /\ Spend(s, At("reading", None, 0), Idle)
    /\ UNCHANGED <<now, planner, backend, deadline, paymentDecided,
                   extracted, prepared, attempted, stores, watch>>

\* An account that an earlier extraction found stays when this one finds none.
ReaderReturns(s) ==
    /\ calls[s].stage = "reading"
    /\ \E r \in Readings :
        /\ extracted' = IF r.account = None THEN extracted ELSE r.account
        /\ Move(s, IF r.supplier = "unnamed" THEN Idle ELSE At("lookup", r, 0))
    /\ UNCHANGED <<now, planner, backend, callsMade, deadline, paymentDecided,
                   prepared, attempted, stores, watch>>

\* The script goes on to pay what it prepared, without asking whether it may.
LookupVendor(s) ==
    /\ calls[s].stage = "lookup"
    /\ LET r == calls[s].job
           found == ~OutOfTime /\ callsMade < Budget /\ r.supplier = "known"
       IN  /\ Spend(s, IF found /\ backend = "scripted"
                       THEN At("choose", "as_invoiced", 0) ELSE Idle, Idle)
           /\ prepared' = IF ~found THEN prepared
                          ELSE [account |-> r.account, invoice |-> r.invoice,
                                terms |-> r.terms, proposesNew |-> extracted = "new"]
    /\ UNCHANGED <<now, planner, backend, deadline, paymentDecided,
                   extracted, attempted, stores, watch>>

-----------------------------------------------------------------------------
(* pay_prepared and pay_vendor.                                            *)

\* Mistake: the digits are passed where their handle belongs.
ChosenDigits(choice) ==
    IF choice = "on_file" \/ (choice = "as_invoiced" /\ ~prepared.proposesNew)
    THEN "on_file"
    ELSE prepared.account

Chosen(choice) ==
    IF choice = "on_file" \/ (choice = "as_invoiced" /\ ~prepared.proposesNew)
    THEN "on_file"
    ELSE IF prepared.account = None THEN None ELSE "invoiced"

\* Nothing is prepared, or a handle is missing: refused before enforcement,
\* and kept among the attempts.  No budget is spent.
PayPrepared(s) ==
    /\ calls[s].stage = "choose"
    /\ IF prepared = None \/ prepared.invoice = None \/ Chosen(calls[s].job) = None
       THEN Move(s, At("answer", "DENIED", now + Slack))
       ELSE Move(s, At("spend", [account |-> Chosen(calls[s].job),
                                 invoice |-> prepared.invoice,
                                 terms |-> prepared.terms], 0))
    /\ UNCHANGED <<now, planner, backend, tools, stores, watch>>

\* Refused by the budget, a payment leaves no attempt and no decision.
PayVendor(s) ==
    /\ calls[s].stage = "spend"
    /\ Spend(s, At("judge", calls[s].job, now + Slack), Idle)
    /\ UNCHANGED <<now, planner, backend, deadline, paymentDecided,
                   extracted, prepared, attempted, stores, watch>>

\* What Enforcement promises: the account on file, an invoice the ledger does
\* not hold, and the terms decide between paying, escalating and denying.
Judged(p) ==
    IF p.account # "on_file" \/ \E k \in 1..Len(ledger) : ledger[k] = p.invoice
    THEN "DENIED"
    ELSE CASE p.terms = "within"   -> "EXECUTED"
           [] p.terms = "unsigned" -> "PENDING_APPROVAL"
           [] p.terms = "beyond"   -> "DENIED"

Judge(s) ==
    /\ calls[s].stage = "judge"
    /\ LET outcome == Judged(calls[s].job)
       IN  Move(s, IF outcome = "EXECUTED"
                   THEN At("ledger", calls[s].job, calls[s].due)
                   ELSE At("record", outcome, calls[s].due))
    /\ UNCHANGED <<now, planner, backend, tools, stores, watch>>

\* Enforcement fails closed, or raises with nothing paid.
JudgeFails(s) ==
    /\ calls[s].stage = "judge"
    /\ Move(s, At("record", "DENIED", calls[s].due)) \/ Move(s, Idle)
    /\ UNCHANGED <<now, planner, backend, tools, stores, watch>>

Pay(s) ==
    /\ calls[s].stage = "ledger"
    /\ ledger' = Append(ledger, calls[s].job.invoice)
    /\ Move(s, At("record", "EXECUTED", calls[s].due))
    /\ UNCHANGED <<now, planner, backend, tools, decisions, watch>>

RecordDecision(s) ==
    /\ calls[s].stage = "record"
    /\ decisions' = Append(decisions, calls[s].job)
    /\ Move(s, At("answer", calls[s].job, calls[s].due))
    /\ UNCHANGED <<now, planner, backend, tools, ledger, watch>>

\* Mistake: only a payment that was made settles the verdict.
KeepAttemptExecuted(s) ==
    /\ calls[s].stage = "answer"
    /\ attempted' = TRUE
    /\ paymentDecided' = (paymentDecided \/ calls[s].job = "EXECUTED")
    /\ Move(s, At("settle", now + Wrapup, calls[s].due))
    /\ UNCHANGED <<now, planner, backend, callsMade, deadline,
                   extracted, prepared, stores, watch>>

KeepAttempt(s) ==
    /\ calls[s].stage = "answer"
    /\ attempted' = TRUE
    /\ paymentDecided' = TRUE
    /\ Move(s, At("settle", now + Wrapup, calls[s].due))
    /\ UNCHANGED <<now, planner, backend, callsMade, deadline,
                   extracted, prepared, stores, watch>>

\* Mistake: every refusal buys the planner a new period to wrap up.
SettleAfresh(s) ==
    /\ calls[s].stage = "settle"
    /\ Move(s, At("write", calls[s].job, calls[s].due))
    /\ UNCHANGED <<now, planner, backend, tools, stores, watch>>

\* The deadline is read, compared and written with no lock: a call at its
\* side may write in between, and is then overwritten.
Settle(s) ==
    /\ calls[s].stage = "settle"
    /\ Move(s, At("write", IF calls[s].job < deadline THEN calls[s].job ELSE deadline,
                  calls[s].due))
    /\ UNCHANGED <<now, planner, backend, tools, stores, watch>>

SetDeadline(s) ==
    /\ calls[s].stage = "write"
    /\ deadline' = calls[s].job
    /\ Move(s, Idle)
    /\ UNCHANGED <<now, planner, backend, callsMade, paymentDecided,
                   extracted, prepared, attempted, stores, watch>>

-----------------------------------------------------------------------------
(* The worker: process() and _run_with_watchdog.                           *)

WatchUntil == EpisodeTime + Grace

\* The clock starts with the episode's thread.
StartThread ==
    /\ worker = "start"
    /\ worker' = "watching"
    /\ planner' = "starting"
    /\ UNCHANGED <<now, backend, calls, tools, stores, settledAt, abandoned, seen, report>>

Report(status, verdict, paid) ==
    [status |-> status, verdict |-> verdict, paid |-> paid]

\* The inbox or the planner's model cannot be had.
CannotStart ==
    /\ worker = "start"
    /\ worker' = "reported"
    /\ report' = Report("FAILED", "EPISODE_FAILED", 0)
    /\ UNCHANGED <<now, planner, backend, calls, tools, stores, settledAt, abandoned, seen>>

\* What the worker kept for a part of its work is gone when the part is over.
StopWatching(gaveUp) ==
    /\ worker = "watching"
    /\ worker' = "read_decisions"
    /\ abandoned' = gaveUp
    /\ settledAt' = None
    /\ UNCHANGED <<now, planner, backend, calls, tools, stores, seen, report>>

SeeDone == planner = "finished" /\ StopWatching(FALSE)

SeeDecided ==
    /\ worker = "watching"
    /\ planner # "finished" /\ paymentDecided
    /\ settledAt = None
    /\ settledAt' = now
    /\ UNCHANGED <<now, planner, backend, calls, tools, stores, worker, abandoned, seen, report>>

FollowUpOver ==
    /\ planner # "finished" /\ paymentDecided
    /\ settledAt # None
    /\ now - settledAt >= FollowUp
    /\ StopWatching(FALSE)

\* Mistake: the watchdog waits for the verdict however long it takes.
GiveUpWhenDecided == now >= WatchUntil /\ paymentDecided /\ StopWatching(TRUE)

GiveUp == now >= WatchUntil /\ StopWatching(TRUE)

-----------------------------------------------------------------------------
(* summarise(): decisions, then the ledger, then the attempts.             *)

NothingSeen == [recorded |-> <<>>, paid |-> 0, tried |-> FALSE]

ReadDecisions ==
    /\ worker = "read_decisions"
    /\ worker' = "read_ledger"
    /\ seen' = [seen EXCEPT !.recorded = decisions]
    /\ UNCHANGED <<now, planner, backend, calls, tools, stores, settledAt, abandoned, report>>

ReadLedger ==
    /\ worker = "read_ledger"
    /\ worker' = "read_attempts"
    /\ seen' = [seen EXCEPT !.paid = Len(ledger)]
    /\ UNCHANGED <<now, planner, backend, calls, tools, stores, settledAt, abandoned, report>>

ReadAttempts ==
    /\ worker = "read_attempts"
    /\ worker' = "conclude"
    /\ seen' = [seen EXCEPT !.tried = attempted]
    /\ UNCHANGED <<now, planner, backend, calls, tools, stores, settledAt, abandoned, report>>

\* Mistake: the last decision is the verdict.
SummaryOfLast(recorded, tried) ==
    CASE recorded # <<>>           -> recorded[Len(recorded)]
      [] recorded = <<>> /\ tried  -> "REFUSED_BEFORE_POLICY"
      [] recorded = <<>> /\ ~tried -> "NO_PAYMENT_ATTEMPTED"

\* An execution outranks anything after it.
Summary(recorded, tried) ==
    IF \E k \in 1..Len(recorded) : recorded[k] = "EXECUTED" THEN "EXECUTED"
    ELSE SummaryOfLast(recorded, tried)

Conclude ==
    /\ worker = "conclude"
    /\ worker' = "reported"
    /\ report' = Report(IF abandoned /\ ~paymentDecided THEN "TIMED_OUT" ELSE "COMPLETED",
                        Summary(seen.recorded, seen.tried), seen.paid)
    /\ seen' = NothingSeen /\ abandoned' = FALSE
    /\ UNCHANGED <<now, planner, backend, calls, tools, stores, settledAt>>

-----------------------------------------------------------------------------
(* Time passes, but not beyond what running code needs.                    *)

Tick ==
    /\ now < MaxTime
    /\ worker # "start"
    /\ planner = "starting" => now < Slack
    /\ \A s \in Slots : calls[s].stage \in Timed => now < calls[s].due
    /\ now' = now + 1
    /\ UNCHANGED <<planner, backend, calls, tools, stores, watch>>

Init ==
    /\ now = 0
    /\ planner = "off"
    /\ backend \in {"scripted", "llm"}
    /\ calls = [s \in Slots |-> Idle]
    /\ callsMade = 0 /\ deadline = 0 /\ paymentDecided = FALSE
    /\ extracted = None /\ prepared = None /\ attempted = FALSE
    /\ ledger = <<>> /\ decisions = <<>>
    /\ worker = "start" /\ settledAt = None /\ abandoned = FALSE
    /\ seen = NothingSeen
    /\ report = None

Prepare(s) == ReadEmail(s) \/ ExtractInvoice(s) \/ ReaderReturns(s) \/ LookupVendor(s)

\* What an admitted payment still has to do.
Finish(s) ==
    \/ Judge(s) \/ JudgeFails(s) \/ Pay(s) \/ RecordDecision(s)
    \/ KeepAttempt(s) \/ Settle(s) \/ SetDeadline(s)

Planner ==
    \/ StartEpisode \/ NewTurn \/ FinishEpisode
    \/ \E s \in Slots : Enter(s) \/ Prepare(s) \/ PayPrepared(s) \/ PayVendor(s) \/ Finish(s)

Worker ==
    \/ StartThread \/ CannotStart
    \/ SeeDone \/ SeeDecided \/ FollowUpOver \/ GiveUp
    \/ ReadDecisions \/ ReadLedger \/ ReadAttempts \/ Conclude

Next == Planner \/ Worker \/ Tick

Spec == Init /\ [][Next]_vars

\* The worker's loop runs, the clock advances and running code completes.
\* A model may take for ever to answer: nothing else of the planner is fair.
FairSpec ==
    /\ Spec
    /\ WF_vars(Worker) /\ WF_vars(Tick) /\ WF_vars(StartEpisode)
    /\ \A s \in Slots : WF_vars(Finish(s))

-----------------------------------------------------------------------------
\* What a call carries at each stage.
JobAt(stage) ==
    CASE stage = "enter"                      -> {"prepare"} \cup Choice
      [] stage = "lookup"                     -> Reading
      [] stage = "choose"                     -> Choice
      [] stage \in {"spend", "judge", "ledger"} -> Payment
      [] stage \in {"record", "answer"}       -> Outcome
      [] stage \in {"settle", "write"}        -> Nat
      [] OTHER                                -> {None}

CallTypeOK(call) ==
    /\ call = At(call.stage, call.job, call.due)
    /\ call.stage \in Stage
    /\ call.job \in JobAt(call.stage)
    /\ call.due \in Nat

\* The types of the variables, and that a call holds what its stage needs.
TypeOK ==
    /\ now \in 0..MaxTime
    /\ planner \in {"off", "starting", "running", "stopping", "finished"}
    /\ backend \in {"scripted", "llm"}
    /\ DOMAIN calls = Slots
    /\ \A s \in Slots : CallTypeOK(calls[s])
    /\ callsMade \in Nat /\ deadline \in Nat
    /\ paymentDecided \in BOOLEAN /\ attempted \in BOOLEAN
    /\ extracted \in {"on_file", "new", None}
    /\ prepared \in {None} \cup
        [account : {"on_file", "new", None}, invoice : Invoices \cup {None},
         terms : Terms, proposesNew : BOOLEAN]
    /\ ledger \in Seq(Invoices)
    /\ decisions \in Seq(Outcome)
    /\ worker \in {"start", "watching", "read_decisions", "read_ledger",
                   "read_attempts", "conclude", "reported"}
    /\ settledAt \in Nat \cup {None} /\ abandoned \in BOOLEAN
    /\ seen \in [recorded : Seq(Outcome), paid : Nat, tried : BOOLEAN]
    /\ report \in {None} \cup
        [status : {"COMPLETED", "TIMED_OUT", "FAILED"}, paid : Nat,
         verdict : Outcome \cup {"REFUSED_BEFORE_POLICY", "NO_PAYMENT_ATTEMPTED",
                                 "EPISODE_FAILED"}]

\* From the moment a run is reported, and whatever its planner's abandoned
\* thread still does, the report says EXECUTED exactly when money moved and
\* counts every payment.
VerdictMatchesLedger ==
    report # None =>
        /\ report.verdict = "EXECUTED" <=> ledger # <<>>
        /\ report.paid = Len(ledger)

\* A run is given up only with nothing decided: an outcome that enforcement
\* recorded is reported as COMPLETED, and none is recorded afterwards.
TimedOutMeansUndecided ==
    report # None /\ report.status = "TIMED_OUT" => decisions = <<>>

\* A settled verdict buys the planner no time beyond one period to wrap up:
\* once the worker has seen it and the call that settled it has had its
\* slack, the deadline is near and stays so, whatever else is tried and
\* however the calls at its side overwrite each other's deadline.
SettledBuysNoTime ==
    settledAt # None /\ settledAt + Slack < now => deadline <= settledAt + Slack + Wrapup

\* A run that was taken up is reported, though its planner never return.
RunIsReported == worker = "watching" ~> report # None
=============================================================================
