------------------------------ MODULE Decisions ------------------------------
(***************************************************************************)
(* What the approval queue promises, with nothing of how: an escalated     *)
(* action is decided once, by someone whose authority covers its amount    *)
(* when the decision is to approve, and enforcement is asked about it      *)
(* again at most once, only after it was approved.  Read from approvals.py *)
(* and dynamodb/approvals.py.                                              *)
(***************************************************************************)
EXTENDS Naturals

CONSTANTS
    Ids, Amounts, Approvers,
    Authority,   \* the pairs <<approver, amount>> the approver's role covers
    Calls,       \* identities of decide calls
    None

VARIABLES
    actions,   \* identity -> the escalated action, None while there is none
    asked      \* which call asked enforcement again about which action

vars == <<actions, asked>>

Init ==
    /\ actions = [id \in Ids |-> None]
    /\ asked = {}

Escalate(id) ==
    /\ actions[id] = None
    /\ \E amount \in Amounts :
         actions' = [actions EXCEPT ![id] =
             [amount |-> amount, status |-> "PENDING", decidedBy |-> None]]
    /\ UNCHANGED asked

Settle(id, who, status) ==
    /\ actions[id] # None
    /\ actions[id].status = "PENDING"
    /\ status = "APPROVED" => <<who, actions[id].amount>> \in Authority
    /\ actions' = [actions EXCEPT ![id] =
           [amount |-> @.amount, status |-> status, decidedBy |-> who]]
    /\ UNCHANGED asked

AskAgain(id, c) ==
    /\ actions[id] # None
    /\ actions[id].status = "APPROVED"
    /\ \A question \in asked : question.id # id
    /\ asked' = asked \cup {[id |-> id, call |-> c]}
    /\ UNCHANGED actions

Next ==
    \E id \in Ids :
        \/ Escalate(id)
        \/ \E who \in Approvers, status \in {"APPROVED", "REJECTED"} :
             Settle(id, who, status)
        \/ \E c \in Calls : AskAgain(id, c)

Spec == Init /\ [][Next]_vars
=============================================================================
