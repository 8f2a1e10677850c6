------------------------------ MODULE Approvals ------------------------------
(***************************************************************************)
(* Human approval of escalated actions: ApprovalService (approvals.py)     *)
(* over the conditional store (dynamodb/approvals.py), called by the API's *)
(* decision endpoint (handlers/api/app.py) in any number of concurrent     *)
(* invocations.                                                            *)
(*                                                                         *)
(* A call of decide reads the action, checks the transition and the        *)
(* approver's authority on what it read, moves the stored status if it is  *)
(* still PENDING, and only then asks enforcement again.  The read, the     *)
(* write and the question are steps of their own: between them other calls *)
(* decide, the store's answer may be lost and the client retry, and the    *)
(* invocation may stop.                                                    *)
(***************************************************************************)
EXTENDS Naturals

CONSTANTS
    Ids,              \* identities of escalated actions
    Amounts,          \* amounts in paise
    ApLimit,          \* AP_LEAD_LIMIT_PAISE
    ControllerLimit,  \* the controller's entry of ROLE_LIMITS
    Calls,            \* the calls of decide there will be
    Reauthorizes,     \* whether the caller of decide passes reauthorize
    MaxRequests,      \* bound: requests under one identity; 1 when each is fresh
    Faults,           \* what may go wrong
    None

-----------------------------------------------------------------------------
(* Who may approve what *)

DemoUsers == [ananya |-> "AP_LEAD", vikram |-> "CONTROLLER", judge |-> "JUDGE"]
Approvers == DOMAIN DemoUsers

RoleLimits == [AP_LEAD |-> ApLimit, CONTROLLER |-> ControllerLimit]

\* A role without an entry may approve nothing: no amount is below one paisa.
MayApprove(role, amount) ==
    amount <= IF role \in DOMAIN RoleLimits THEN RoleLimits[role] ELSE 0

ApprovalTransitions ==
    [PENDING  |-> {"APPROVED", "REJECTED", "EXPIRED"},
     APPROVED |-> {}, REJECTED |-> {}, EXPIRED |-> {}]

ApprovalStatus == DOMAIN ApprovalTransitions

-----------------------------------------------------------------------------
(* State *)

\* The last field is history: the call whose write decided the action.
PendingAction ==
    [amount : Amounts, status : ApprovalStatus,
     decidedBy : Approvers \cup {None}, call : Calls \cup {None}]

\* An action without its history.
Decision ==
    [amount : Amounts, status : ApprovalStatus, decidedBy : Approvers \cup {None}]

\* What decide returns, or the error it raises.
Result ==
    [status : {"APPROVED", "REJECTED"}, executed : BOOLEAN]
    \cup [status : {"CONFLICT", "NOT_FOUND", "VALIDATION_ERROR"}, executed : {FALSE}]

ToolOutcome == {"EXECUTED", "PENDING_APPROVAL", "DENIED"}

Arguments ==
    [id : Ids, decision : {"APPROVE", "REJECT", "OTHER"}, approver : Approvers]

Question == [id : Ids, call : Calls, amount : Amounts, outcome : ToolOutcome]

ASSUME AmountsAssumption == Amounts \subseteq Nat \ {0}  \* MIN_PAISE, declassify.py
ASSUME LimitsAssumption ==
    ApLimit \in Nat /\ ControllerLimit \in Nat /\ MaxRequests \in Nat
ASSUME FaultsAssumption ==
    Faults \subseteq {"stop", "lost_response"} /\ Reauthorizes \in BOOLEAN
ASSUME NoneAssumption ==
    None \notin PendingAction \cup Decision \cup Arguments \cup Result \cup Calls \cup Approvers
                \cup Amounts \cup {"CONFLICT", "NOT_FOUND", "VALIDATION_ERROR"}

VARIABLES
    approvals,  \* the store: identity -> the action, None if there is none
    requests,   \* identity -> how many times it was requested
    pc,         \* call -> the step it is about to take
    req,        \* call -> its arguments
    read,       \* call -> the action it read
    answer,     \* call -> its result
    reasked     \* the questions put to enforcement again

vars == <<approvals, requests, pc, req, read, answer, reasked>>

-----------------------------------------------------------------------------
(* ApprovalService.request: an unconditional put *)

Request(id) ==
    /\ requests[id] < MaxRequests
    /\ \E amount \in Amounts :
         approvals' = [approvals EXCEPT ![id] =
             [amount |-> amount, status |-> "PENDING",
              decidedBy |-> None, call |-> None]]
    /\ requests' = [requests EXCEPT ![id] = @ + 1]
    /\ UNCHANGED <<pc, req, read, answer, reasked>>

-----------------------------------------------------------------------------
(* ApprovalService.decide *)

Target(decision) == IF decision = "APPROVE" THEN "APPROVED" ELSE "REJECTED"

\* Mistake: an answer says whether there was anybody to execute.
AnswerConfigured(c, status, executed) ==
    /\ answer' = [answer EXCEPT ![c] = [status |-> status, executed |-> Reauthorizes]]
    /\ pc' = [pc EXCEPT ![c] = "answered"]

Answer(c, status, executed) ==
    /\ answer' = [answer EXCEPT ![c] = [status |-> status, executed |-> executed]]
    /\ pc' = [pc EXCEPT ![c] = "answered"]

\* Mistake: the approver's authority is not looked at.
RefusalWithoutRole(action, arguments) ==
    IF arguments.decision = "OTHER" THEN "VALIDATION_ERROR"
    ELSE IF action = None THEN "NOT_FOUND"
    ELSE IF Target(arguments.decision) \notin ApprovalTransitions[action.status]
    THEN "CONFLICT"
    ELSE None

\* What the checks before the write raise, None when they pass.
Refusal(action, arguments) ==
    IF arguments.decision = "OTHER" THEN "VALIDATION_ERROR"
    ELSE IF action = None THEN "NOT_FOUND"
    ELSE IF \/ Target(arguments.decision) \notin ApprovalTransitions[action.status]
            \/ /\ Target(arguments.decision) = "APPROVED"
               /\ ~MayApprove(DemoUsers[arguments.approver], action.amount)
    THEN "CONFLICT"
    ELSE None

Decide(c, arguments) ==
    /\ pc[c] = "idle"
    /\ req' = [req EXCEPT ![c] = arguments]
    /\ LET refusal == Refusal(approvals[arguments.id], arguments)
       IN  \/ /\ refusal # None
              /\ Answer(c, refusal, FALSE)
              /\ UNCHANGED read
           \/ /\ refusal = None
              /\ pc' = [pc EXCEPT ![c] = "transition"]
              /\ read' = [read EXCEPT ![c] = approvals[arguments.id].amount]
              /\ UNCHANGED answer
    /\ UNCHANGED <<approvals, requests, reasked>>

\* The action as the call's write leaves it.
Settled(c) ==
    [amount |-> approvals[req[c].id].amount, status |-> Target(req[c].decision),
     decidedBy |-> req[c].approver, call |-> c]

\* Mistake: the write carries no condition.
MoveUnconditionally(c) ==
    approvals' = [approvals EXCEPT ![req[c].id] = Settled(c)]

\* Mistake: only approvals are written down.
MoveApprovalsOnly(c) ==
    /\ approvals[req[c].id].status = "PENDING"
    /\ IF req[c].decision = "APPROVE"
       THEN approvals' = [approvals EXCEPT ![req[c].id] = Settled(c)]
       ELSE UNCHANGED approvals

\* The conditional write: it moves an action only if it is still PENDING.
Move(c) ==
    /\ approvals[req[c].id].status = "PENDING"
    /\ approvals' = [approvals EXCEPT ![req[c].id] = Settled(c)]

\* Mistake: whether the write moved the action is not looked at.
TransitionUnchecked(c) ==
    /\ pc[c] = "transition"
    /\ Move(c) \/ (approvals[req[c].id].status # "PENDING" /\ UNCHANGED approvals)
    /\ IF req[c].decision = "APPROVE" /\ Reauthorizes
       THEN /\ pc' = [pc EXCEPT ![c] = "reauthorize"]
            /\ UNCHANGED answer
       ELSE Answer(c, Target(req[c].decision), FALSE)
    /\ UNCHANGED <<requests, req, read, reasked>>

Transition(c) ==
    /\ pc[c] = "transition"
    /\ \/ /\ Move(c)
          /\ IF req[c].decision = "APPROVE" /\ Reauthorizes
             THEN /\ pc' = [pc EXCEPT ![c] = "reauthorize"]
                  /\ UNCHANGED answer
             ELSE Answer(c, Target(req[c].decision), FALSE)
       \/ /\ approvals[req[c].id].status # "PENDING"
          /\ Answer(c, "CONFLICT", FALSE)
          /\ UNCHANGED approvals
    /\ UNCHANGED <<requests, req, read, reasked>>

\* The write is applied and its answer lost; the client sends it again, so
\* the call is still at its transition.
LoseResponse(c) ==
    /\ "lost_response" \in Faults
    /\ pc[c] = "transition"
    /\ Move(c)
    /\ UNCHANGED <<requests, pc, req, read, answer, reasked>>

\* Mistake: an approval is reported as an execution.
ReauthorizeExecuted(c) ==
    /\ pc[c] = "reauthorize"
    /\ \E outcome \in ToolOutcome :
         reasked' = reasked \cup
             {[id |-> req[c].id, call |-> c, amount |-> read[c], outcome |-> outcome]}
    /\ Answer(c, "APPROVED", TRUE)
    /\ UNCHANGED <<approvals, requests, req, read>>

\* Enforcement is asked again about the action as it was read.
Reauthorize(c) ==
    /\ pc[c] = "reauthorize"
    /\ \E outcome \in ToolOutcome :
         /\ reasked' = reasked \cup
                {[id |-> req[c].id, call |-> c, amount |-> read[c], outcome |-> outcome]}
         /\ Answer(c, "APPROVED", outcome = "EXECUTED")
    /\ UNCHANGED <<approvals, requests, req, read>>

\* The invocation ends without an answer: it crashes, runs out of time, or
\* the store raises.
Stop(c) ==
    /\ "stop" \in Faults
    /\ pc[c] \in {"transition", "reauthorize"}
    /\ pc' = [pc EXCEPT ![c] = "stopped"]
    /\ UNCHANGED <<approvals, requests, req, read, answer, reasked>>

-----------------------------------------------------------------------------
Init ==
    /\ approvals = [id \in Ids |-> None]
    /\ requests = [id \in Ids |-> 0]
    /\ pc = [c \in Calls |-> "idle"]
    /\ req = [c \in Calls |-> None]
    /\ read = [c \in Calls |-> None]
    /\ answer = [c \in Calls |-> None]
    /\ reasked = {}

Proceed(c) == Transition(c) \/ Reauthorize(c)

Next ==
    \/ \E id \in Ids : Request(id)
    \/ \E c \in Calls :
         \/ \E arguments \in Arguments : Decide(c, arguments)
         \/ Proceed(c)
         \/ LoseResponse(c)
         \/ Stop(c)

Spec == Init /\ [][Next]_vars

\* An invocation under way is running code and ends unless something stops
\* it; nobody is obliged to decide.
FairSpec == Spec /\ \A c \in Calls : WF_vars(Proceed(c))

-----------------------------------------------------------------------------
(* Properties *)

TypeOK ==
    /\ approvals \in [Ids -> PendingAction \cup {None}]
    /\ requests \in [Ids -> 0..MaxRequests]
    /\ pc \in [Calls -> {"idle", "transition", "reauthorize", "answered", "stopped"}]
    /\ req \in [Calls -> Arguments \cup {None}]
    /\ read \in [Calls -> Amounts \cup {None}]
    /\ answer \in [Calls -> Result \cup {None}]
    /\ reasked \subseteq Question
    /\ \A c \in Calls :
        /\ pc[c] # "idle" => req[c] # None
        /\ pc[c] \in {"transition", "reauthorize"} =>
             read[c] # None /\ approvals[req[c].id] # None

Decided(id) == approvals[id] # None /\ approvals[id].status # "PENDING"

\* However many calls race on one action, enforcement is asked about it again
\* at most once, and only for the call whose write approved it, with the
\* amount that was approved: the guarantee of the conditional write
\* (dynamodb/approvals.py) and of decide (approvals.py).
ReaskedOnceForTheWinner ==
    /\ \A p, q \in reasked : p.id = q.id => p = q
    /\ \A p \in reasked :
        /\ approvals[p.id].status = "APPROVED"
        /\ approvals[p.id].call = p.call
        /\ approvals[p.id].amount = p.amount

\* An approved action was approved by someone whose role covers its amount,
\* whoever else was deciding: may_approve is applied to a copy read before
\* the write.
AuthorityRespected ==
    \A id \in Ids :
        approvals[id] # None /\ approvals[id].status = "APPROVED" =>
            MayApprove(DemoUsers[approvals[id].decidedBy], approvals[id].amount)

\* What a caller is told agrees with the store: the winner is told its own
\* decision, an execution was the answer to its own question, and whoever got
\* as far as the write and was refused lost to another call.
AnswersAgree ==
    \A c \in Calls :
        answer[c] # None =>
            LET action == approvals[req[c].id]
            IN  /\ answer[c].status \in {"APPROVED", "REJECTED"} =>
                     action.status = answer[c].status /\ action.call = c
                /\ answer[c].executed <=>
                     \E q \in reasked : q.call = c /\ q.outcome = "EXECUTED"
                /\ answer[c].status = "CONFLICT" /\ read[c] # None =>
                     action.status # "PENDING" /\ action.call # c

\* A decision stands: nobody reopens, rewrites or reassigns it
\* (APPROVAL_TRANSITIONS in statuses.py).
DecisionIsFinal ==
    [][\A id \in Ids :
         Decided(id) => approvals'[id] = approvals[id]]_vars

\* Once some call passes the checks, the action is decided, by it or by one
\* it raced with, although answers of the store may be lost, unless the
\* invocation itself is stopped.
AdmittedIsDecided ==
    \A c \in Calls :
        pc[c] = "transition" ~>
            \/ req[c] # None /\ Decided(req[c].id)
            \/ pc[c] = "stopped"

-----------------------------------------------------------------------------
(* The service implements Decisions *)

Authority ==
    {pair \in Approvers \X Amounts : MayApprove(DemoUsers[pair[1]], pair[2])}

\* The actions without their history, and the questions without their outcome.
Known == [id \in Ids |->
    IF approvals[id] = None THEN None
    ELSE [amount |-> approvals[id].amount, status |-> approvals[id].status,
          decidedBy |-> approvals[id].decidedBy]]

Asked == {[id |-> q.id, call |-> q.call] : q \in reasked}

Promise == INSTANCE Decisions WITH actions <- Known, asked <- Asked

\* Whatever the interleaving, the store and the questions behave as if every
\* action were decided in one step, with authority, and asked about once.
ImplementsDecisions == Promise!Spec
=============================================================================
