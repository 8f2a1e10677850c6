# A verification of hallmark in TLA+

Hallmark lets an agent that reads hostile mail pay invoices and answer mail on a company's
behalf. A model plans; deterministic code decides. Every value an agent handles carries a
label saying where it came from, every consequential call goes through one policy
enforcement point, and the enforcement point asks Cedar with facts taken from the company's
own records. This directory models that code, model-checks it with TLC and proves its most
important guarantees with TLAPS. The repository is the reference: paths below are relative to
its root, and `PROJECT.json` maps each definition to the lines it stands for.

## 1. Inventory

| part | where | state it keeps | operations |
|---|---|---|---|
| label algebra | `hallmark/domain/labels.py`, `values.py`, `declassify.py` | none (values are immutable) | join sources, derive, trust, declassify |
| policies | `policies/*.cedar`, `adapters/cedar_local` | none | is_authorized |
| enforcement point | `application/pep.py`, `fact_checkers.py`, `cedar_request_builder.py` | none of its own; reads the value store, vendor master, company; writes ledger, decisions, edges, events | pay_vendor, send_email |
| stores | `adapters/memory`, `adapters/dynamodb` | vendor versions, values, ledger, decisions, edges, approvals, runs, submissions | put/get/query, conditional transition |
| agent tools | `application/agent_tools.py` | handles of the episode, budget, deadline, last extracted account, prepared payment, `payment_decided`, attempts | list/read/extract/lookup/prepare/pay/send/flag/review |
| planners | `application/planner.py`, `scripted_run.py` | the planner's loop | run_episode |
| quarantined reader | `application/reader.py`, `adapters/ollama` | none | extract, verify fields against the source |
| approvals | `application/approvals.py`, `domain/statuses.py` | one record per escalated action | request, decide |
| runs | `application/runs.py` | run status and mandate | create, confirm_mandate, complete, require_running |
| submissions and worker | `application/submissions.py`, `scripts/run_worker.py`, EventBridge and SQS | submission status, queue, one episode thread | POST /runs, receive, process, watchdog, delete |
| realtime gateway | `adapters/realtime/gateway.py` | connected browsers | poll, deliver, delete, connect, disconnect |
| lineage, run detail | `domain/lineage.py`, `application/run_detail.py` | none (read the edges) | trace, build_run_detail |
| API handlers, auth | `handlers/api/app.py`, `adapters/auth` | none | routes, tokens |
| scripted run, baseline and bench | `application/scripted_run.py`, `baseline/scripted.py`, `bench/runner.py`, `scripts/export_comparison.py` | stores of one run; payments, sends and skips of the unprotected agent; report, table | process_email, run_baseline, run_hallmark, the exported rows |
| demo code | `spike/`, `fixtures/`, `baseline/agent.py`, most of `web/` | - | - |

How they interact. The API records a submission and announces its id on the bus; a rule puts
the event on a queue; the worker receives it and runs one *episode* per mail: a planner
calls agent tools, which store labelled values and call the enforcement point, which reads
the master and the ledger, asks Cedar, pays or refuses, and records the decision with
edges from its arguments. Every event the worker and the enforcement point publish reaches
browsers through a second queue and the gateway. Escalations wait for a person in the
approval store. The same procedure also exists as a deterministic *scripted run*: its reader
stands in for the model's in the worker and, beside an agent without an enforcement point, it makes the
comparison the repository publishes.

What is hard about it:

* *Interleaving.* The planner's framework runs the tool calls of one model turn side by
  side (strands-agents as pinned in `uv.lock`; `planner.py` passes no executor), the watchdog
  abandons threads that keep running, and runs can be processed by several workers over one
  master and one ledger. `pep.py` takes no lock.
* *Check then act.* Facts are read from the master and the ledger, a policy engine is asked,
  and only then is the payment written.
* *Partial failure.* Any store or the policy engine may raise between any two steps; some
  of those steps are inside the `try` block that fails closed and some are not.
* *Delivery.* Queue messages are redelivered after their visibility timeout, deleted in a
  `finally`, and events may be lost or delivered twice.
* *Crashes.* An approval's transition, its re-authorization and the payment are three steps.
* *Long sequences of legal calls.* A planner may give any handle it holds to any tool, company
  data to the quarantined reader among them; what a value was computed from is known by its label
  alone.
* *Comparison.* The report recognises an attack's success by traces (masked digits, refusal
  reasons, counts) in inboxes whose order it does not control.

What makes each part correct: labels never lose a source (trust cannot be laundered); money
goes only to an account on file, within the mandate, and once per invoice; every outcome the
planner or the console is told agrees with the ledger; confidential material stays inside;
an approval is decided once, by someone with the authority, and nothing acts on a refused
one; a submission is eventually completed or reported; a run moves only along its lifecycle;
an event reaches every browser that was watching; what the comparison reports is what its two
runs did; and every argument of a decision leads back to the message it was taken from.

`PROJECT.json` lists every component with its status and every hazard with its line.

## 2. Plan

| order | modules | what they model | status |
|---|---|---|---|
| 1 | `Labels`, `Policy` | label algebra; Cedar policies, decision rule, reasons | done |
| 2 | `Payments` | abstract promise about money | done |
| 3 | `Enforcement`, `MCEnforcement` | pay_vendor with every store access interleaved; implements `Payments` | done |
| 4 | `EnforcementProofs`, `EnforcementSafetyProofs`, `EnforcementDecisionProofs` | types, safety, records and the refinement, for every value of the constants | done |
| 5 | `Decisions`, `Approvals`, `MCApprovals`, `ApprovalsProofs` | request and decide with concurrent approvers, stopped invocations, lost answers; implements `Decisions` | done |
| 6 | `Episode`, `MCEpisode` | agent tools, budget and deadline, both planners, watchdog and abandoned thread, the run's verdict | done |
| 7 | `RunDelivery` | page, POST /runs, both queues, worker loop, gateway | done |
| 8 | `Mail`, `Lineage`, `Kernel` | what a message says and what the readers make of it; edges, the walk back, the layout; one payment or e-mail judged alone | done |
| 9 | `Bench`, `MCBench` | the unprotected agent, the scripted run, the bench's verdicts, the exported table | done |
| 10 | `Toolbox`, `MCToolbox` | every tool in the hands of an arbitrary planner and reader, send_email among them | done |
| 11 | `ToolboxProofs` | types, confidentiality, the account paid and the budget, for every value of the constants | done |
| 12 | `EpisodeProofs` | types, the time a settled verdict leaves, and how long a worker has to wait for its verdict to stay true | done |
| 13 | `RunDeliveryProofs` | types, `ShownWasRecorded`, `ProcessedOnce` | done |
| 14 | `BenchProofs` | types, the exported table, payments in order and diverted, the lineage of decisions and its layout, the bench's verdicts and its headline | done |

`Kernel` composes `Labels` with `Policy`; `Bench` composes it with `Mail` and `Lineage`, and
`Toolbox` with `Mail`. `Enforcement` keeps the interleaved steps of a payment, which `Kernel` has as
one: neither `Bench` nor `Toolbox` has a second actor beside the run it describes. The abstract specifications
worth stating are those of the two services that take several steps to do what they promise
(`Payments`, `Decisions`).

## 3. What the modules model

**Labels** and **Policy** hold pure operators: joining sources, deriving a value, trust; the
forbids and permits of `pay.cedar` and `email.cedar`, Cedar's rule (some permit and no
forbid), and the reason `pep.py` derives from the policies that denied.

**Enforcement** is `pay_vendor`. A call stands at the store or service it is about to use
(`pc`): the vendor master, the ledger's duplicate check, the authorizer, the ledger's write or
the second question to the authorizer, the decision store. Each use is one step, and between
two steps any other caller may move, the company may put a new version of a vendor, and
`lookup_vendor` may hand out new handles. What is local between two uses is part of the step.
The three refusals of an argument (no handle, unknown handle, wrong type) return before
anything is recorded, as in the code. Facts and the first authorization lie in the code's
`try` block and fail closed (`FailClosed`); the second authorization, the payment and the
record do not, and an exception leaves the call (`ReaskRaises`, `ExecuteRaises`,
`RecordRaises`), after a write that may have been applied. An account value carries its digits
and its label; an invoice is its normalised key (`has_invoice`, `memory/stores.py:111`, strips and
uppercases the number it is asked for and only uppercases those it holds). `begun`, `asOf` and `seen` are history: the
version of the vendor current at the call's start, the one the facts came from, and the
payments the ledger held when asked. The stores answer as the in-memory ones that
`scripts/run_worker.py` wires do: a read sees every earlier write. The two writes of a vendor
put (version row, current pointer) are one step, since readers follow the pointer.

**Payments** says what this is for: payments go to the account on file of an active vendor
in some version, within cap and limit, and exclusively when made one at a time. `Enforcement`
maps its ledger without the history and implements it (`ImplementsPayments`); with several
callers, all of it but exclusiveness.

**Approvals** is `ApprovalService` over the conditional store. A call of `decide` reads and
checks (one step), writes under the condition that the action is still PENDING, and, when its
caller passed `reauthorize`, asks enforcement again. `LoseResponse` is a write applied whose
answer was lost, after which the client library sends it again; `Stop` is an invocation that
ends without an answer. Roles and their limits are the code's (`DemoUsers`, `RoleLimits`). The
role stored for display, task tokens and timestamps are left out; EXPIRED is a status that
nothing in the code produces. **Decisions** is its abstract specification: an action is
decided in one step, with the authority to, and asked about at most once after it was
approved.

**Episode** is one email on one worker: the planner's thread (scripted, or a model that asks
for several tools in one turn), and the worker that waits, gives up and summarises. Tool calls
are slots with a stage; budget and deadline are checked where the code checks them
(`_stop_if_spent` at the tool's door, `_spend_call` at each counted operation). The count is
raised and tested in one step: CPython, from the 3.12 the project requires, lets another thread in at calls and
at jumps back, and `agent_tools.py:203-204` has neither. `_settle` has calls, and is three steps: the clock
is read, the deadline read and compared (`Settle`), the result written (`SetDeadline`), so that calls side by side may
overwrite each other's. The enforcement point appears by its outcome, its payment and
its record as separate steps, since the worker reads decisions, ledger and attempts in between.
Time is a clock both threads read. What running code still has to do once a payment is admitted takes
at most `Slack`: `due` bounds it, and `Tick` may not pass it. Waiting for a model has no
bound. The flags, reviews and prose a planner leaves are not modelled: the verdict does not
depend on them.

**RunDelivery** follows a submission from the console page to its verdict on the screen: the
page's controls and effects, the handler of POST /runs, the two queues, the worker's loop
around `process()`, and the gateway. A queue is a count of waiting messages per content: it
delivers at least once and in any order, so nothing else of it matters. A message received is
held by the receiver and comes back if the receiver stops. The three final statuses are one,
ENDED, since nothing that follows a run tells them apart. Of the page's feed only the newest
`RunCompleted` matters (`latest`: the feed keeps the newest first); its socket is the set of
runs it asks for; an answer to the status poll is kept only when it says the run ended, others
change nothing. A callback commits its state and runs its effects in one step, as React does.
Unmounting drops what the page awaited. A POST may
fail anywhere (`SubmissionFails`): the store raises without or with its effect, the invocation raises
or stops between the store and the bus, or its answer is lost.
`recorded`, `dropped` and `mishaps` are history.

**Mail** is what a message says: a body, text its sender hid, attachments with hidden text of
their own. A piece of text names a value for a field in one of the wordings the regular
expressions tell apart, or nothing; `Extract` is the scripted planner's reader with its patterns in order of
preference, `BaselineFind` the unprotected agent's, which knows the printed wordings only (`Printed`). The two
differ in more than that: the reader takes 9 to 18 digits for an account (`Taken` of a `long` one, nothing of a `short`
one) and the other any number of them, and an amount's paise are read by one and cut off by the other (`WithPaise`).
`VerifiedFields` is the check that a field occurs in the source. **Lineage** is the graph of a run:
ancestors, root sources, and the relaxation by which the console lays it out. A round of it takes all edges at
once, where `run_detail.py:102` takes them one after the other as stored: both end at the same least
columns, the code's in no more rounds. **Kernel** is the
enforcement point where nothing runs beside it: facts, the question, and the answer from one or two
authorizations, for a payment and for an e-mail.

**Bench** runs two agents over one inbox, message by message: `ScriptedBaseline` (pays, sends or
skips) and then `ScriptedRun.process_email`, of which `Read` is one step (ingest, extract,
verify, label) and what is done with the fields the other. It keeps the values and decisions in the
order they are recorded (`trail`), the lineage store, and the ledger with its masked account. A
scenario is scored as `run_baseline` and `run_hallmark` do, with the four digits and the
refusal's reason the code goes by; a comparison fills the exported table. `int()` raising on an amount
with its paise ends everything, as nothing in the code catches it (`ReadRaises`), and so does taking the domain of a
sender without an "@" (`SenderRaises`).

**Toolbox** is `AgentTools` under an arbitrary planner and an arbitrary reader: any tool, in any order,
with any handles; the reader answers anything an instance lists. `roots`, the records a value
was computed from, is history: the code has only the label to go by, and the properties say that the
label suffices. Two handles of one value are one, decisions are a set beside their number, and
flags and reviews, which nothing reads, are left out. `RefuseArguments` covers unknown handles, wrong
types, and what is refused before enforcement, `FailClosed` a dependency that raises inside the `try`
block; a payment whose later steps raise is `Enforcement`'s subject. `prepare_payment` and
`pay_prepared` are sequences of these calls, in `Episode`.

| code | module | definition |
|---|---|---|
| `pep.py`: `_resolve`, `_typed`, `pay_vendor`, `_record` | `Enforcement` | `RefuseArgument`, `PayVendor`, `ReadVendor`, `ReadLedger`, `Authorize`, `Execute`, `Reask`, `RecordDecision`, `FailClosed`, ... |
| `compute_payment_facts` | `Enforcement` | `VendorFacts`, `Matches`, `HasInvoice`, `NoFacts` |
| `pay.cedar`, `_reason_for` | `Policy` | `PayPermit`, `PayForbids`, `ReasonFor` |
| `ApprovalService.request`, `decide`; the store's conditional `transition` | `Approvals` | `Request`, `Decide`, `Transition`, `LoseResponse`, `Reauthorize` |
| `AgentTools.prepare_payment` and what it calls, `pay_prepared`, `pay_vendor`, `_settle` | `Episode` | `ReadEmail` to `LookupVendor`, `PayPrepared`, `PayVendor`, `KeepAttempt`, `Settle`, `SetDeadline` |
| `_run_with_watchdog`, `summarise` | `Episode` | `SeeDone`, `SeeDecided`, `FollowUpOver`, `GiveUp`, `ReadDecisions` to `Conclude` |
| `post_run`, the worker's `main` and `process`, `EventGateway.poll_once`, `LiveRun` | `RunDelivery` | one action per step or callback |
| `ScriptedBaseline.run` | `Bench` | `BaselinePays`, `BaselineSends`, `BaselineSkips` |
| `ScriptedRun.process_email` and what it calls | `Bench` | `Read`, `RequestExport`, `FlagUnreadable`, `FlagUnknownVendor`, `SenderRaises`, `PayInvoice` |
| `run_baseline`, `run_hallmark`, `export_comparison.main` | `Bench` | `BaselineScore`, `HallmarkScore`, `Unprotected`, `Protected` |
| `RegexInvoiceReader`, `verify_fields_in_source` | `Mail` | `Extract`, `VerifiedFields` |
| `LineageGraph`, `_lineage_view` | `Lineage` | `AncestorsOf`, `RootSources`, `ValueDepths`, `DecisionDepth` |
| `send_email`, `compute_email_facts` | `Kernel`, `Toolbox` | `EmailFacts`, `EmailContext`, `JudgeEmail`, `SendEmail` |
| the other tools of `AgentTools` | `Toolbox` | `ListInbox`, `ReadEmail`, `ExtractInvoice`, `LookupVendor`, `ExportVendorMaster`, `PayVendor`, `Charge`, ... |

`PROJECT.json` has the full map with lines.

## 4. What the runs check

A run that passes shows its properties on the instance its configuration gives. Every
property of such a run has at least one *mutant* in `PROJECT.json`: a definition marked
"Mistake" in its module, which puts a plausible bug in place of a mapped definition and makes
TLC report the property violated on the same instance. The properties can therefore fail at
the bounds used.

| run | instance | what it shows |
|---|---|---|
| `enforcement_serial` | one caller, two calls, one vendor with up to two versions of its record, amounts at the auto-approve limit, between it and the cap, and above the cap; every dependency may raise at every use | no invoice is paid twice, an escalation is one a signature can lift, records agree with the ledger, the ledger implements `Payments` with exclusiveness, every call ends with a record or an exception |
| `enforcement_concurrent` | two callers, two accounts, a record that may change between any two steps | money goes only to the account on file in a version current during the call; a duplicate needs two overlapping calls; every payment is explained; the ledger implements the rest of `Payments` |
| `approvals_race` | three calls of decide on one action, any of which may stop | one winner, which alone asks again; role limits hold; every caller is told what happened |
| `approvals_promise` | two actions, two calls, lost answers and stops | the service implements `Decisions`; decisions are final; a call that passed its checks leads to a decision unless it stops |
| `episode` | two tool calls side by side, four kinds of document, both planners; a follow-up and a grace that leave room for an admitted payment | the reported verdict is what the ledger holds, for good; TIMED_OUT means nothing was decided; a settled verdict leaves the planner one wrap-up period and no more; a run taken up is reported |
| `delivery` | two submissions, two mishaps of any kind | nothing is shown or announced that was not stored; a submission ends unless its POST failed between recording and announcing it or an exception about it was swallowed; a run is processed again only after a mishap; a page learns of a finished run |
| `bench` | three vendors, one of them blocked; six attacks at each of three places, two scenarios to a report; every inbox of up to three of seventeen shapes of message, and of up to two of six more that the two agents read differently | verdicts and table say what the two runs did; every attack succeeds without the enforcement point and none with it; payments in order are made in both; a diversion reaches a person; decisions trace to their message; the layout follows the edges |
| `toolbox` | one hostile message, one vendor, a reader with three answers (honest and harmful), five calls | nothing confidential leaves, payments go to the record itself, the budget bounds what reaches the enforcement point |

Bounds. Two calls suffice for every property of `Enforcement` but none with one: a duplicate
takes two payments, a race two callers, and the store holds nothing else that a third call
could meet in a new state. Two versions make a handle, or a fact, stale. Three amounts are one
on each side of the two limits. Three calls of decide are a winner and two losers, of either
decision; the second action of `approvals_promise` shows that calls do not mix them up.
`Episode` needs two slots for a refused and an executed payment in one turn, a budget that
neither never nor always ends first, and a clock that passes every deadline. `RunDelivery`
needs two runs for anything of a former run to meet a later one, and two mishaps for a
recovery that itself fails. `Bench` needs a message before, after and between two others for every order to
matter, and its shapes hold each branch of the two agents at least once: amounts on either side of
both limits, a repeat that is unverified or names another account, a stranger, a blocked vendor,
typed wordings, hidden text, requests for an export to either side. The six more are accounts too
short and too long for the reader, with and without the one on file in them and on either side of the cap, printed paise, and a sender
without an "@"; they meet one other message, as what is read differently depends on none. The scenarios are those of
`fixtures/attacks.py` by shape, the attack at any place rather than last, and the obfuscated one
also types over what is printed. In `Toolbox` the longest way to harm takes five calls: opening a message, reading
it, finding the vendor, reading the account off its handle, and sending or paying; a second budget
would only repeat it. The proofs of section 6 remove the bounds where they apply.
`SYMMETRY` is used only where all properties are safety properties.
`CHECK_DEADLOCK FALSE` stands where the modelled part may come to rest: everybody has decided, the
run is reported, the clock is at its bound, all mail has been handled, the table is written, the
script has raised, the budget is spent. The two passing
`Enforcement` runs check deadlock: `lookup_vendor` is always possible, as it is in the code.

Fairness. `Proceed(c)` in `Enforcement` and `Approvals` is code running on a thread or in an
invocation: it goes on until it ends or is stopped. In `Episode` the worker's loop, the clock,
the start of the thread and what an admitted payment still has to do are fair; a model's
answer is not, and `RunIsReported` holds without it. In `RunDelivery` requests are answered,
the worker's and the gateway's loops run for ever (both are restarted when they stop), the
socket reconnects and the page's interval asks. No user, approver or planner is ever obliged
to act.

## 5. Where the code and its documents differ

Four runs are expected to end in a violation. Each states what a document or a comment of the
repository says; `PROJECT.json` quotes it.

| run | what happens |
|---|---|
| `concurrent_duplicate` | two calls ask the ledger before either pays: one invoice is paid twice, though `docs/hld.md` says that invoices can be processed concurrently |
| `late_payment` | with `FOLLOW_UP_SECONDS` half of `WRAPUP_SECONDS`, as shipped, the planner may pay after a refusal whose run was already reported; the run `episode` shows that a follow-up longer than the wrap-up cures it |
| `stale_verdict` | the answer to a poll of one run ends the next with its verdict |
| `stuck_submission` | a page left while its submission is on the way comes back as submitting, for good |

Other differences met while modelling, visible in the modules but in no run:

* The second authorization, the payment and the record lie outside the `try` block
  (`pep.py:389`, `409`, `426`; `ReaskRaises`, `ExecuteRaises`, `RecordRaises`): their exceptions
  leave `pay_vendor`, possibly after the money moved, though `docs/architecture.md:87` says that any exception on
  the path produces a denial.
* The only caller of `decide` outside the tests passes no `reauthorize` (`app.py:139`): an action
  becomes APPROVED and enforcement is asked nothing, though `approvals.py:6` says that approving re-runs the
  enforcement path. `Approvals` has both cases (`Reauthorizes`).
* The exported table shows SKIPPED, "nothing to pay", for a message whose export the unprotected
  agent sent (`export_comparison.py:79`), BLOCKED with the detail "ok" for one that was flagged, and
  PAID for an internal e-mail that went out: its columns look at payments and at statuses only.
* `int()` raises on an amount with its paise (`scripted_run.py:176`), which the reader's
  pattern accepts, and ends the whole run; so does a sender without an "@" (`scripted_run.py:323`). The
  unprotected agent cuts printed paise off and pays, and looks at no sender.
* The reader takes an account of 9 to 18 digits (`scripted_run.py:86`), the unprotected agent one of any
  length (`baseline/scripted.py:109`). Money diverted to a printed account of 8 digits is paid by the one; the other reads no
  account, pays the one on file, or is refused for the amount, and opens no review in either case.
  `DiversionReachesAPerson` excepts these messages and says what holds of them.
* `_settle` means to bring the deadline forward only (`agent_tools.py:623`), but reads and writes it without
  a lock (line 630): of two calls settling side by side the later deadline may stay, later by what running code
  takes. `SettledBuysNoTime` bounds it.
* `send_email` takes any value for its recipient (`pep.py:466`), though `_typed` explains that a
  slot which accepts any type undermines the design (`pep.py:275`). `NothingConfidentialLeaves`
  holds all the same.
* The run's view draws every argument twice: `_record` stores `arg` edges and `run_detail.py:126`
  adds them again.
* An amount above the cap is denied for want of a permit, yet the reason given is
  `ABOVE_AUTO_APPROVE_LIMIT`, since that forbid fires too (`pep.py:264`): the reason names
  something a signature lifts and the denial is final.
* A winner whose write was applied and whose answer was lost is told Conflict by the retry
  (`dynamodb/approvals.py:91` says that this means somebody else decided), and enforcement is
  not asked. This is why `AnswersAgree` is checked and proved without lost answers.
* A payment refused for the budget or the deadline, or one whose enforcement raised, is in
  neither the attempts nor the decisions (`agent_tools.py:590`), although the attempts are meant to hold every
  attempt, also those refused before the policy engine (`agent_tools.py:131`).
* A payment refused because an argument is no handle leaves no decision record, although
  guarantee G5 says that every consequential attempt leaves one (`docs/threat-model.md:72`).
* `_extracted_account` keeps an earlier extraction's account when the present one finds none
  (`agent_tools.py:126`).
* A run found finished when the page is restored is not handed to the other views
  (`LiveRun.tsx:393`), as the two other ways of finishing do.
* A submission whose announcement the publisher swallowed stays QUEUED (`app.py:170`). So does one whose
  POST fails between the two: the put is applied and raises, or the invocation ends before it reaches the
  bus (`app.py:166-170`). The page is told of an error, and a record stays that nobody will take up.
* A request is visible again after 1800 s while an episode may last 2100 s
  (`template.yaml`, `run_worker.py`): harmless with the one worker deployed, which asks for
  the next request only when it is done, and modelled so.

## 6. What is proved

The theorems are checked by TLAPS. They hold for every set of vendors, accounts, invoices,
amounts, callers, calls and identities and for every limit and set of faults, under the
assumptions named in the modules: amounts and limits are natural numbers (approvals: amounts
are positive, as `declassify.py` sees to), times and bounds are natural numbers, the fault sets
are sets of the faults there are, and `None` is none of the values it stands beside.

**Enforcement.** `EnforcementProofs` proves the type invariant, which says what a call holds at
each stage. The safety properties are not inductive: a payment is sound because of what
its call knew before it paid. `IInv` of `EnforcementSafetyProofs` therefore adds

* `CallSound`: a call has not paid before its payment step (`Unpaid`); the version current at
  its start exists (`BegunOnRecord`); its facts say what some version since then said
  (`FactsBacked`); it knows the payments the ledger held, and that none was of its invoice
  unless the facts say so (`LedgerAsked`); at the payment, Cedar has permitted it;
* `DistinctCalls`: calls under way have identities of their own;
* `LedgerSound`: payments are within cap and limit and saw only payments there were.

A step of another caller keeps them since records of vendors and payments are only added to
(`RowsGrow`, `PaidGrows`, `BystanderSound`). From `IInv` follow `MoneyGoesWhereTheMasterSays`,
`DuplicatesNeedARace` and, assuming `Serial` (at most one caller), `NoDuplicateWhenSerial`;
and the refinement `EnforcementImplementsPayments`: only a payment step changes the ledger, and
what the call knows there is what `Payments` permits.

`EnforcementDecisionProofs` adds what a call knows about the outcome it is about to record
(`OutcomeBacked`), that a call is denied before it is asked about again (`CallReady`), and that a
call under way has no record yet (`NotYetRecorded`), without which a later payment could
belong to a recorded denial. It proves `RecordsAgreeWithTheLedger` and
`EscalationsAreLiftable` for all faults, and `PaymentsAreExplained` assuming `NothingLost`:
neither the ledger's nor the decision store's writes raise. With those faults the property fails,
since both are written outside the `try` block.

**Approvals.** The invariant says that an identity was used once (`RequestedOnce`), that what a
call read still describes the action (`ReadStillHolds`, which makes the check of authority on a
copy sound), that only the winner is about to ask (`WinnerAsks`), and that every question is
its (`AskedByWinner`, `OneQuestionACall`). The theorems assume `FreshIds`: `request` writes
without a condition, and a second request under one identity would reopen a decided action.
`CallersAreToldTheTruth` assumes `AnswersArrive` as well (see section 5) and adds that a call
at its write has not made it (`AnswerInv`). `ApprovalsImplementDecisions` is the refinement.

**Toolbox.** That a paid account is the record and that nothing secret leaves are about where
values come from, which the properties see and the code does not. `ValueOK` of `ToolboxProofs`
connects the two: whatever a value was computed from, if any of it is secret its label says
CONFIDENTIAL, and an account number whose label is trusted is the record itself. Every tool keeps it:
`derive` joins sources and takes the highest level (`ReadOffLabel`), and the reader stamps its own, untrusted
source on what it returns, so that nothing read off is ever trusted. From it follow
`NothingConfidentialLeavesAlways` (an e-mail let out to an outside address has no confidential attachment,
`SentOutsideIsNotConfidential`), `PaidAccountIsTheRecordAlways` (`PaidIsOnFile`) and
`ConsequencesWithinBudgetAlways`, for any inbox, reader, vendors, limits and budget. The one
assumption (`ToolboxAssumption`) is that the budget and the parsed amounts are natural numbers.

**Episode.** What keeps a verdict true after the worker stopped waiting is time, and the proof is an
account of it. A call that is deciding or paying is done by `due`, which is less than
`EpisodeTime + 2 * Slack` (`InTime`: the thread starts within `Slack`, is admitted before its
deadline, and pays within `Slack`). A decision settles the verdict when its call is answered
(`DecisionSettles`), settling brings the deadline to within the wrapup (`SettledSoon`), so that a worker
that saw the payment decided at `settledAt` knows everything admitted to be done before
`settledAt + 2 * Slack + Wrapup` (`WrapsUp`). `LedgerRecorded` says that ledger and
decisions differ by the payment about to be recorded. This invariant holds for all times
(`Invariant`). From it follows `WrapUpIsBounded`: a slack after the settled verdict was seen, the call that
settled it has written its deadline, and any that overwrites it later read the clock or a deadline as near,
so that no more than one wrap-up period is left (`SettledBuysNoTime`). What the worker relies on needs more:

* `GraceSuffices`, `2 * Slack <= Grace`: the watchdog gives up only when the episode is `Quiet`,
  with nothing admitted under way and the deadline past (`GiveUpIsQuiet`). The shipped grace is 300 s. From it alone follows
  `GivenUpMeansUndecided`;
* `VerdictIsTrue` is about the runs in which the worker does not stop following up earlier than
  `Wrapup + 2 * Slack` after it saw the payment decided (`NotCutShort`, a condition on each step). At the end of such a follow-up
  the episode is quiet as well (`FollowUpIsQuiet`), and so it is when the thread ended or was given up. The worker as
  shipped cuts a follow-up short at 45 s, while the wrap-up lasts 90 s: the theorem covers its runs in which the
  planner ends within the 45 s or decides no payment, and `late_payment` shows the verdict of another falsified.

A quiet episode stays quiet and neither pays nor decides (`QuietStays`), so what the worker
reads after it is what there will ever be (`SeenStaysTrue`).

**RunDelivery.** That nothing unrecorded is shown rests on the order of the worker's writes: the
table holds the verdict before it is announced (`StoredFirst`), and a request or an announcement
is of a submission that was recorded (`PostedFirst`). `ProcessedOnceAlways` is about the
past of a run, and `OnePlace` makes it inductive: while nothing has gone wrong a run is not yet
announced, or waits once, or is taken up, or has ended, and never two of these. The one assumption beside the bounds is `NoneAssumption`.

**Bench.** The theorems hold for every inbox, not for the benchmark's alone: messages are any
sequence whose amounts are natural numbers and whose accounts, where longer than 18 digits, are not one on file (`MessagesAssumption`), the vendors' accounts are told from the
attacker's by the four digits that masking keeps (`TailAssumption`), and the cap and the limit are numbers
(`MandateAssumption`). `IInv` of `BenchProofs` was checked by TLC on the instance of `bench` before it was
proved, as were the two additions below. It has three parts:

* what the runs have done: `TurnOK` (the protected run starts with stores of its own), `BaseOK`
  (the unprotected agent pays what it reads), `LedgerOK` (masked entries are of accounts on file), `SummaryOK` (one
  outcome a message, EXECUTED when something of it was let out), `ReportOK` and `TableOK`. From it follow `BenchTypes` and
  `TableDoesNotFlatter`;
* what the run has read: `ReadingOK` ties a field's handle to the text it was extracted from;
* where values come from: `EdgesOK` says that a value has no parents, or was read off a
  body, or was selected by one that was. Edges are only added, and to new values, so
  `ReadOff` and `Selected` stay true (`TrailGrows`).

`NothingInOrderIsRefusedAlways` adds `PaidInOrder`: every payment in order, of a message already
processed, is in the protected run's ledger. It assumes that the mandate allows `pay_vendor`; a
mandate without it refuses everything. `DiversionsAreAnswered` adds `DiversionsAnswered`: a diverted
payment of a message already processed has an open review, or the reader found no account in it or the one on file, which is then the one
decided on. It assumes
`SameVendorRead` of every inbox, which is true of those that `bench` explores and is needed: the unprotected
agent's patterns take the printed wording only, the protected run's a typed registration number as well, so
that of a message naming two vendors they may read different ones. `EveryDecisionIsTraced` and `ColumnsFollowTheEdges` are about
recursive functions over the store: from `EdgesOK` what the walk back reaches and how deep a node lies is known in
closed form (`AncestorsAre`, `DepthsAre`), and a function that satisfies the recursion is the
only one, since a least round at which two differ would be preceded by one at which they do. As
no path is longer than three edges and every edge on it is one of the store's, the cap on the rounds never bites.

The bench's verdicts are not about every inbox but about its scenarios, and the two theorems about them say
which. `VerdictsAreTrue` assumes `OneAttack` of each: all messages but one are printed invoices that name the
account on file (`_legit`, `fixtures/attacks.py:73`), and the one is a printed invoice that names the attacker's
account (`_attack_email`, line 86), or has too few invoice fields to be one and any address it asks records for is
the goal. It may stand anywhere, and vendors, amounts and senders are arbitrary. What the code reads off is then what
happened. `ScoreOK` ties the rows to what the runs left (`RowsStand`), says that the unprotected agent takes a message
once, so that counting its payments counts invoices (`TakenOnce`, `CountedIsTrue`), that a decision is about
what its message asks for (`AsAsked`, `LetOutAsTold`), and that a refusal for confidential content is of a message that
is no invoice and was refused (`RefusalsOK`), so that one refused request cannot hide a success elsewhere (`SucceededIsTrue`).

`HeadlineHoldsAlways` assumes a mandate that allows `pay_vendor` and `Playable` of each scenario, which says in addition that
the legitimate invoices have nothing wrong about them (`Payable`: an active vendor, a verified sender, an amount within the
limit, every field named once), that no two messages are of one invoice (`Apart`: the fixtures number each scenario's
apart), and that the attack is complete: it names a known vendor, or asks for records to be sent to an address that is not
the company's. `HeadlineOK` says that the unprotected agent did what every message so far asks for (`DoesAsAsked`: it skips
none, `SkipsNothingAsked`), that payments behind the enforcement point are of invoices already read (`LedgerRead`,
so that none of those to come is a duplicate), that legitimate work so far was executed (`LegitDone`, `PayableIsPaid`), and
that every row is as the headline has it (`HeadlineRows`). That the attack fails is not assumed anywhere: it
follows from the policies (`LedgerOK`, `ExportJudged`). The number of scenarios and of messages in one is arbitrary.
TLC finds both hypotheses true of the scenarios `bench` plays, and `ScoreOK` and `HeadlineOK` invariant there.

The abstract `Payments` and `Decisions` are what a reader needs to believe; the theorems
carry them to the interleaved code.

## 7. What is only model-checked, and what is not modelled

Liveness (`EveryCallRecorded`, `AdmittedIsDecided`, `RunIsReported`, `EverySubmissionEnds`,
`FinishedRunIsShown`) is out of the prover's reach and stays with TLC. Every other property
of a passing run has a theorem.

Not modelled:

* The run service (`application/runs.py`): its transitions get, check and put without a
  condition, but nothing except its tests builds it, so there are no callers to interleave.
* The model-driven baseline (`baseline/agent.py`), the bench's published text and `spike/`:
  input and output around what `Bench` models.
* Text itself: Unicode folding, separators and the parsing of money (`reader.py:38-49`,
  `declassify.py`). A string occurs in a text or does not; an amount is readable or not. Display strings, which
  decide what a planner sees and nothing else, are left out with it.
* The paging of DynamoDB queries (`dynamodb/stores.py:141`): a matter of bytes.
* The rest of the console, the tokens, the HTTP routing, the Ollama and Cedar adapters:
  input and output without state of their own. Cedar's evaluator is taken by what the policies
  say, as `adapters/cedar_local` uses it.
* The DynamoDB ledger's secondary index, which lags behind its table
  (`repositories.py:129`): the worker wires the in-memory stores, and a lagging read would
  make the same duplicate that `concurrent_duplicate` shows possible for one caller too.
* Other events of the feed and `liveStore`: nothing modelled reads them.
