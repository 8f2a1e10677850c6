--------------------------- MODULE ApprovalsProofs ---------------------------
(* Theorems about Approvals, for every value of its constants. *)
EXTENDS Approvals, TLAPS

-----------------------------------------------------------------------------
(* Types *)

\* A decision moves an action between statuses there are.
LEMMA TargetType == ASSUME NEW decision PROVE Target(decision) \in {"APPROVED", "REJECTED"}
BY DEF Target

\* The checks raise an error there is, or nothing.
LEMMA RefusalType ==
    ASSUME NEW action, NEW arguments
    PROVE  Refusal(action, arguments) \in
               {"CONFLICT", "NOT_FOUND", "VALIDATION_ERROR", None}
BY DEF Refusal

\* The checks pass only for an action that exists and is pending, a decision
\* the service knows, and an approver who may take it.
LEMMA AdmittedIsSound ==
    ASSUME NEW action \in PendingAction \cup {None}, NEW arguments \in Arguments,
           Refusal(action, arguments) = None
    PROVE  /\ action # None
           /\ action.status = "PENDING"
           /\ arguments.decision \in {"APPROVE", "REJECT"}
           /\ arguments.decision = "APPROVE" =>
                MayApprove(DemoUsers[arguments.approver], action.amount)
<1>1. None \notin {"VALIDATION_ERROR", "NOT_FOUND", "CONFLICT"}
  BY NoneAssumption
<1>. QED
  BY <1>1 DEF Refusal, Arguments, PendingAction, ApprovalStatus, ApprovalTransitions, Target

\* The variables start with their types.
LEMMA InitTypeOK == Init => TypeOK
BY LimitsAssumption DEF Init, TypeOK

\* The conditional write leaves a well formed store.
LEMMA MoveType ==
    ASSUME NEW c \in Calls, TypeOK, pc[c] = "transition", Move(c)
    PROVE  /\ req[c] \in Arguments
           /\ approvals[req[c].id] \in PendingAction
           /\ approvals' \in [Ids -> PendingAction \cup {None}]
           /\ \A id \in Ids : approvals[id] # None => approvals'[id] # None
<1>1. req[c] \in Arguments
  BY DEF TypeOK
<1>2. approvals[req[c].id] \in PendingAction
  BY <1>1 DEF TypeOK, Arguments
<1>3. Settled(c) \in PendingAction
  BY <1>1, <1>2, TargetType
     DEF Settled, PendingAction, Arguments, ApprovalStatus, ApprovalTransitions
<1>4. Settled(c) # None
  BY <1>3, NoneAssumption
<1>5. approvals' \in [Ids -> PendingAction \cup {None}]
  BY <1>1, <1>3 DEF TypeOK, Arguments, Move
<1>6. \A id \in Ids : approvals[id] # None => approvals'[id] # None
  BY <1>1, <1>4 DEF TypeOK, Arguments, Move
<1>. QED
  BY <1>1, <1>2, <1>5, <1>6

\* Every step keeps the types.
LEMMA StepTypeOK == TypeOK /\ [Next]_vars => TypeOK'
<1> SUFFICES ASSUME TypeOK, [Next]_vars PROVE TypeOK'
  OBVIOUS
<1>1. ASSUME NEW id \in Ids, Request(id) PROVE TypeOK'
  <2> PICK amount \in Amounts :
        approvals' = [approvals EXCEPT ![id] =
            [amount |-> amount, status |-> "PENDING",
             decidedBy |-> None, call |-> None]]
    BY <1>1 DEF Request
  <2>1. [amount |-> amount, status |-> "PENDING", decidedBy |-> None, call |-> None]
            \in PendingAction
    BY DEF PendingAction, ApprovalStatus, ApprovalTransitions
  <2>2. /\ approvals' \in [Ids -> PendingAction \cup {None}]
        /\ \A i \in Ids : approvals[i] # None => approvals'[i] # None
    BY <2>1, NoneAssumption DEF TypeOK
  <2>3. requests' \in [Ids -> 0..MaxRequests]
    BY <1>1, LimitsAssumption DEF TypeOK, Request
  <2>4. QED
    BY <1>1, <2>2, <2>3 DEF TypeOK, Request, Arguments
<1>2. ASSUME NEW c \in Calls, NEW arguments \in Arguments, Decide(c, arguments)
      PROVE  TypeOK'
  <2> DEFINE refusal == Refusal(approvals[arguments.id], arguments)
  <2>1. arguments # None /\ arguments.id \in Ids
    BY NoneAssumption DEF Arguments
  <2>2. /\ req' = [req EXCEPT ![c] = arguments]
        /\ UNCHANGED <<approvals, requests, reasked>>
    BY <1>2 DEF Decide
  <2>3. CASE refusal # None /\ Answer(c, refusal, FALSE) /\ UNCHANGED read
    <3>1. [status |-> refusal, executed |-> FALSE] \in Result
      BY <2>3, RefusalType DEF Result
    <3>2. QED
      BY <2>1, <2>2, <2>3, <3>1 DEF TypeOK, Answer
  <2>4. CASE /\ refusal = None
             /\ pc' = [pc EXCEPT ![c] = "transition"]
             /\ read' = [read EXCEPT ![c] = approvals[arguments.id].amount]
             /\ UNCHANGED answer
    <3>1. approvals[arguments.id] # None /\ approvals[arguments.id] \in PendingAction
      BY <2>1, <2>4, AdmittedIsSound DEF TypeOK
    <3>2. approvals[arguments.id].amount \in Amounts
          /\ approvals[arguments.id].amount # None
      BY <3>1, NoneAssumption DEF PendingAction
    <3>3. QED
      BY <2>1, <2>2, <2>4, <3>1, <3>2 DEF TypeOK
  <2>5. QED
    BY <1>2, <2>3, <2>4 DEF Decide
<1>3. ASSUME NEW c \in Calls, Transition(c) PROVE TypeOK'
  <2>1. CASE Move(c)
    <3>1. [status |-> Target(req[c].decision), executed |-> FALSE] \in Result
      BY TargetType DEF Result
    <3>2. [status |-> "CONFLICT", executed |-> FALSE] \in Result
      BY DEF Result
    <3>3. approvals' \in [Ids -> PendingAction \cup {None}]
          /\ \A id \in Ids : approvals[id] # None => approvals'[id] # None
      BY <1>3, <2>1, MoveType DEF Transition
    <3>4. /\ answer' \in [Calls -> Result \cup {None}]
          /\ pc' \in [Calls -> {"idle", "transition", "reauthorize", "answered", "stopped"}]
          /\ \A d \in Calls : pc'[d] # "idle" => pc[d] # "idle"
          /\ \A d \in Calls : pc'[d] \in {"transition", "reauthorize"} =>
                                pc[d] \in {"transition", "reauthorize"}
      BY <1>3, <3>1, <3>2 DEF TypeOK, Transition, Answer
    <3>5. \A d \in Calls : pc[d] \in {"transition", "reauthorize"} => req[d].id \in Ids
      BY DEF TypeOK, Arguments
    <3>6. QED
      BY <1>3, <3>3, <3>4, <3>5 DEF TypeOK, Transition
  <2>2. CASE ~Move(c)
    <3>1. [status |-> "CONFLICT", executed |-> FALSE] \in Result
      BY DEF Result
    <3>2. QED
      BY <1>3, <2>2, <3>1 DEF TypeOK, Transition, Answer
  <2>3. QED
    BY <2>1, <2>2
<1>4. ASSUME NEW c \in Calls, LoseResponse(c) PROVE TypeOK'
  <2>1. approvals' \in [Ids -> PendingAction \cup {None}]
        /\ \A id \in Ids : approvals[id] # None => approvals'[id] # None
    BY <1>4, MoveType DEF LoseResponse
  <2>2. QED
    BY <1>4, <2>1 DEF TypeOK, LoseResponse, Arguments
<1>5. ASSUME NEW c \in Calls, Reauthorize(c) PROVE TypeOK'
  <2> PICK outcome \in ToolOutcome :
        /\ reasked' = reasked \cup
             {[id |-> req[c].id, call |-> c, amount |-> read[c], outcome |-> outcome]}
        /\ Answer(c, "APPROVED", outcome = "EXECUTED")
    BY <1>5 DEF Reauthorize
  <2>1. [id |-> req[c].id, call |-> c, amount |-> read[c], outcome |-> outcome] \in Question
    BY <1>5 DEF TypeOK, Reauthorize, Question, Arguments
  <2>2. [status |-> "APPROVED", executed |-> outcome = "EXECUTED"] \in Result
    BY DEF Result
  <2>3. QED
    BY <1>5, <2>1, <2>2 DEF TypeOK, Reauthorize, Answer
<1>6. ASSUME NEW c \in Calls, Stop(c) PROVE TypeOK'
  BY <1>6 DEF TypeOK, Stop
<1>7. CASE UNCHANGED vars
  BY <1>7 DEF TypeOK, vars
<1>. QED
  BY <1>1, <1>2, <1>3, <1>4, <1>5, <1>6, <1>7 DEF Next, Proceed

\* Every variable keeps its type, and a call past its checks holds an
\* existing action, for any number of calls, actions and faults.
THEOREM TypeCorrect == Spec => []TypeOK
BY InitTypeOK, StepTypeOK, PTL DEF Spec
-----------------------------------------------------------------------------
(* The inductive invariant.  It needs each identity to be requested once:  *)
(* with a second request the store forgets a decision.                     *)

FreshIds == MaxRequests = 1

\* An action in the store has used up its identity.
RequestedOnce == \A id \in Ids : approvals[id] # None => requests[id] = 1

\* What a call read still describes the action, and the checks it passed
\* still hold: the amount never changes.
ReadStillHolds ==
    \A c \in Calls : pc[c] \in {"transition", "reauthorize"} =>
        /\ read[c] = approvals[req[c].id].amount
        /\ req[c].decision \in {"APPROVE", "REJECT"}
        /\ req[c].decision = "APPROVE" =>
             MayApprove(DemoUsers[req[c].approver], read[c])

\* Only the call whose write approved the action is about to ask again.
WinnerAsks ==
    \A c \in Calls : pc[c] = "reauthorize" =>
        /\ approvals[req[c].id].status = "APPROVED"
        /\ approvals[req[c].id].call = c

\* A question was asked by the winner, which has answered.
AskedByWinner ==
    \A q \in reasked :
        /\ pc[q.call] = "answered"
        /\ approvals[q.id] # None
        /\ approvals[q.id].status = "APPROVED"
        /\ approvals[q.id].call = q.call
        /\ approvals[q.id].amount = q.amount

OneQuestionACall == \A p, q \in reasked : p.call = q.call => p = q

IInv ==
    /\ TypeOK
    /\ RequestedOnce
    /\ ReadStillHolds
    /\ WinnerAsks
    /\ AskedByWinner
    /\ OneQuestionACall
    /\ AuthorityRespected

\* A step leaves decided actions alone and no action's amount changes.
LEMMA DecisionStands ==
    ASSUME FreshIds, TypeOK, RequestedOnce, [Next]_vars, NEW id \in Ids,
           approvals[id] # None
    PROVE  /\ approvals'[id] # None
           /\ approvals'[id].amount = approvals[id].amount
           /\ Decided(id) => approvals'[id] = approvals[id]
<1>1. ASSUME NEW i \in Ids, Request(i) PROVE approvals'[id] = approvals[id]
  <2>1. i # id
    BY <1>1 DEF Request, RequestedOnce, FreshIds
  <2>2. QED
    BY <1>1, <2>1 DEF Request, TypeOK
<1>2. ASSUME NEW c \in Calls, pc[c] = "transition", Move(c)
      PROVE  /\ approvals'[id] # None
             /\ approvals'[id].amount = approvals[id].amount
             /\ Decided(id) => approvals'[id] = approvals[id]
  <2>1. approvals'[id] # None /\ req[c].id \in Ids
    BY <1>2, MoveType DEF Arguments
  <2>2. approvals' = [approvals EXCEPT ![req[c].id] = Settled(c)]
        /\ approvals[req[c].id].status = "PENDING"
    BY <1>2 DEF Move
  <2>3. CASE id = req[c].id
    BY <2>1, <2>2, <2>3 DEF Settled, Decided, TypeOK
  <2>4. CASE id # req[c].id
    BY <2>1, <2>2, <2>4 DEF TypeOK
  <2>5. QED
    BY <2>3, <2>4
<1>3. ASSUME NEW c \in Calls, NEW arguments \in Arguments, Decide(c, arguments)
      PROVE  approvals'[id] = approvals[id]
  BY <1>3 DEF Decide
<1>4. ASSUME NEW c \in Calls, Transition(c) \/ LoseResponse(c)
      PROVE  \/ pc[c] = "transition" /\ Move(c)
             \/ UNCHANGED approvals
  BY <1>4 DEF Transition, LoseResponse
<1>5. ASSUME NEW c \in Calls, Reauthorize(c) \/ Stop(c) PROVE approvals'[id] = approvals[id]
  BY <1>5 DEF Reauthorize, Stop
<1>6. CASE UNCHANGED vars
  BY <1>6 DEF vars
<1>. QED
  BY <1>1, <1>2, <1>3, <1>4, <1>5, <1>6 DEF Next, Proceed

\* The inductive invariant holds at the start.
LEMMA InitIInv == Init => IInv
BY InitTypeOK DEF Init, IInv, RequestedOnce, ReadStillHolds, WinnerAsks,
   AskedByWinner, OneQuestionACall, AuthorityRespected

\* Identities stay used up.
LEMMA StepRequestedOnce == FreshIds /\ IInv /\ [Next]_vars => RequestedOnce'
<1> SUFFICES ASSUME FreshIds, IInv, [Next]_vars, NEW id \in Ids, approvals'[id] # None
             PROVE  requests'[id] = 1
  BY DEF RequestedOnce
<1> USE DEF IInv
<1>1. ASSUME NEW i \in Ids, Request(i) PROVE requests'[id] = 1
  BY <1>1 DEF Request, RequestedOnce, FreshIds, TypeOK
<1>2. ASSUME NEW c \in Calls, pc[c] = "transition", Move(c), UNCHANGED requests
      PROVE  requests'[id] = 1
  <2>1. /\ req[c].id \in Ids
        /\ approvals[req[c].id] # None
        /\ approvals' = [approvals EXCEPT ![req[c].id] = Settled(c)]
    <3>1. req[c] \in Arguments /\ approvals[req[c].id] \in PendingAction
      BY <1>2, MoveType
    <3>2. QED
      BY <1>2, <3>1, NoneAssumption DEF Arguments, Move
  <2>2. approvals[id] # None
    BY <2>1 DEF TypeOK
  <2>3. QED
    BY <1>2, <2>2 DEF RequestedOnce
<1>3. ASSUME UNCHANGED <<approvals, requests>> PROVE requests'[id] = 1
  BY <1>3 DEF RequestedOnce
<1>4. ASSUME NEW c \in Calls, Transition(c) \/ LoseResponse(c)
      PROVE  /\ UNCHANGED requests
             /\ \/ pc[c] = "transition" /\ Move(c)
                \/ UNCHANGED approvals
  BY <1>4 DEF Transition, LoseResponse
<1>. QED
  BY <1>1, <1>2, <1>3, <1>4 DEF Next, Proceed, Decide, Reauthorize, Stop, vars
\* A call past its checks either just passed them, or was past them before
\* and keeps its arguments and what it read.
LEMMA PastItsChecks ==
    ASSUME TypeOK, [Next]_vars, NEW d \in Calls,
           pc'[d] \in {"transition", "reauthorize"}
    PROVE  \/ /\ pc[d] \in {"transition", "reauthorize"}
              /\ pc'[d] = "transition" => pc[d] = "transition"
              /\ req'[d] = req[d] /\ read'[d] = read[d]
           \/ /\ pc'[d] = "transition"
              /\ \E arguments \in Arguments :
                   /\ Refusal(approvals[arguments.id], arguments) = None
                   /\ req'[d] = arguments
                   /\ read'[d] = approvals[arguments.id].amount
                   /\ UNCHANGED approvals
<1>1. ASSUME NEW c \in Calls, NEW arguments \in Arguments, Decide(c, arguments)
      PROVE  \/ c = d /\ pc'[d] = "transition"
                /\ Refusal(approvals[arguments.id], arguments) = None
                /\ req'[d] = arguments
                /\ read'[d] = approvals[arguments.id].amount
                /\ UNCHANGED approvals
             \/ pc'[d] = pc[d] /\ req'[d] = req[d] /\ read'[d] = read[d]
  BY <1>1 DEF Decide, Answer, TypeOK
<1>2. ASSUME NEW c \in Calls, Transition(c)
      PROVE  req' = req /\ read' = read
             /\ (pc'[d] = pc[d] \/ (pc[d] = "transition" /\ pc'[d] = "reauthorize"))
  BY <1>2 DEF Transition, Answer, TypeOK
<1>3. ASSUME NEW c \in Calls, LoseResponse(c) \/ Reauthorize(c) \/ Stop(c)
      PROVE  req' = req /\ read' = read /\ pc'[d] = pc[d]
  BY <1>3 DEF LoseResponse, Reauthorize, Stop, Answer, TypeOK
<1>4. ASSUME (\E id \in Ids : Request(id)) \/ UNCHANGED vars
      PROVE  req' = req /\ read' = read /\ pc'[d] = pc[d]
  BY <1>4 DEF Request, vars
<1>. QED
  BY <1>1, <1>2, <1>3, <1>4 DEF Next, Proceed

\* What a call read goes on holding.
LEMMA StepReadStillHolds == FreshIds /\ IInv /\ [Next]_vars => ReadStillHolds'
<1> SUFFICES ASSUME FreshIds, IInv, [Next]_vars, NEW d \in Calls,
                    pc'[d] \in {"transition", "reauthorize"}
             PROVE  /\ read'[d] = approvals'[req'[d].id].amount
                    /\ req'[d].decision \in {"APPROVE", "REJECT"}
                    /\ req'[d].decision = "APPROVE" =>
                         MayApprove(DemoUsers[req'[d].approver], read'[d])
  BY DEF ReadStillHolds
<1>1. CASE pc[d] \in {"transition", "reauthorize"} /\ req'[d] = req[d] /\ read'[d] = read[d]
  <2>1. req[d].id \in Ids /\ approvals[req[d].id] # None
    BY <1>1 DEF IInv, TypeOK, Arguments
  <2>2. approvals'[req[d].id].amount = approvals[req[d].id].amount
    BY <2>1, DecisionStands DEF IInv
  <2>3. QED
    BY <1>1, <2>2 DEF IInv, ReadStillHolds
<1>2. ASSUME NEW arguments \in Arguments,
             Refusal(approvals[arguments.id], arguments) = None,
             req'[d] = arguments, read'[d] = approvals[arguments.id].amount,
             UNCHANGED approvals
      PROVE  /\ read'[d] = approvals'[req'[d].id].amount
             /\ req'[d].decision \in {"APPROVE", "REJECT"}
             /\ req'[d].decision = "APPROVE" =>
                  MayApprove(DemoUsers[req'[d].approver], read'[d])
  <2>1. approvals[arguments.id] \in PendingAction \cup {None}
    BY DEF IInv, TypeOK, Arguments
  <2>2. QED
    BY <1>2, <2>1, AdmittedIsSound
<1>. QED
  BY <1>1, <1>2, PastItsChecks DEF IInv

\* A call comes to ask again only by its own write.
LEMMA StepWinnerAsks == FreshIds /\ IInv /\ [Next]_vars => WinnerAsks'
<1> SUFFICES ASSUME FreshIds, IInv, [Next]_vars, NEW d \in Calls, pc'[d] = "reauthorize"
             PROVE  /\ approvals'[req'[d].id].status = "APPROVED"
                    /\ approvals'[req'[d].id].call = d
  BY DEF WinnerAsks
<1>1. /\ pc[d] \in {"transition", "reauthorize"}
      /\ req'[d] = req[d]
  BY PastItsChecks DEF IInv
<1>2. req[d].id \in Ids /\ approvals[req[d].id] # None
  BY <1>1 DEF IInv, TypeOK, Arguments
<1>3. CASE pc[d] = "reauthorize"
  <2>1. /\ approvals[req[d].id].status = "APPROVED"
        /\ approvals[req[d].id].call = d
    BY <1>3 DEF IInv, WinnerAsks
  <2>2. approvals'[req[d].id] = approvals[req[d].id]
    BY <1>2, <2>1, DecisionStands DEF IInv, Decided
  <2>3. QED
    BY <1>1, <2>1, <2>2
<1>4. CASE pc[d] = "transition"
  <2>1. Transition(d)
    BY <1>4 DEF Next, Proceed, Request, Decide, Transition, LoseResponse, Reauthorize,
                Stop, Answer, vars, IInv, TypeOK
  <2>2. Move(d) /\ req[d].decision = "APPROVE"
    BY <1>4, <2>1 DEF Transition, Answer, IInv, TypeOK
  <2>3. approvals'[req[d].id] = Settled(d)
    BY <1>2, <2>2 DEF Move, IInv, TypeOK
  <2>4. QED
    BY <1>1, <2>2, <2>3 DEF Settled, Target
<1>. QED
  BY <1>1, <1>3, <1>4

\* A question is new only if it was asked by a call that was about to ask.
LEMMA NewQuestion ==
    ASSUME TypeOK, [Next]_vars, NEW q \in reasked', q \notin reasked
    PROVE  /\ q.call \in Calls
           /\ pc[q.call] = "reauthorize" /\ pc'[q.call] = "answered"
           /\ q.id = req[q.call].id /\ q.amount = read[q.call]
           /\ UNCHANGED approvals
           /\ \A p \in reasked' : p \in reasked \/ p = q
<1>1. PICK c \in Calls : Reauthorize(c)
  BY DEF Next, Proceed, Request, Decide, Transition, LoseResponse, Stop, vars
<1>2. PICK outcome \in ToolOutcome :
        reasked' = reasked \cup
            {[id |-> req[c].id, call |-> c, amount |-> read[c], outcome |-> outcome]}
  BY <1>1 DEF Reauthorize
<1>3. q = [id |-> req[c].id, call |-> c, amount |-> read[c], outcome |-> outcome]
  BY <1>2
<1>. QED
  BY <1>1, <1>2, <1>3 DEF Reauthorize, Answer, TypeOK

\* Whoever answered has answered for good.
LEMMA AnsweredStays ==
    ASSUME TypeOK, [Next]_vars, NEW c \in Calls, pc[c] = "answered"
    PROVE  pc'[c] = "answered" /\ req'[c] = req[c] /\ answer'[c] = answer[c]
                                /\ read'[c] = read[c]
BY DEF TypeOK, Next, Proceed, Request, Decide, Transition, LoseResponse, Reauthorize,
       Stop, Answer, vars

\* Questions stay the winner's.
LEMMA StepAskedByWinner == FreshIds /\ IInv /\ [Next]_vars => AskedByWinner'
<1> SUFFICES ASSUME FreshIds, IInv, [Next]_vars, NEW q \in reasked'
             PROVE  /\ pc'[q.call] = "answered"
                    /\ approvals'[q.id] # None
                    /\ approvals'[q.id].status = "APPROVED"
                    /\ approvals'[q.id].call = q.call
                    /\ approvals'[q.id].amount = q.amount
  BY DEF AskedByWinner
<1>1. CASE q \in reasked
  <2>1. q.id \in Ids /\ q.call \in Calls
    BY <1>1 DEF IInv, TypeOK, Question
  <2>2. /\ pc[q.call] = "answered"
        /\ approvals[q.id] # None
        /\ approvals[q.id].status = "APPROVED"
        /\ approvals[q.id].call = q.call
        /\ approvals[q.id].amount = q.amount
    BY <1>1 DEF IInv, AskedByWinner
  <2>3. approvals'[q.id] = approvals[q.id]
    BY <2>1, <2>2, DecisionStands DEF IInv, Decided
  <2>4. pc'[q.call] = "answered"
    BY <2>1, <2>2, AnsweredStays DEF IInv
  <2>5. QED
    BY <2>2, <2>3, <2>4
<1>2. CASE q \notin reasked
  <2>1. /\ q.call \in Calls
        /\ pc[q.call] = "reauthorize" /\ pc'[q.call] = "answered"
        /\ q.id = req[q.call].id /\ q.amount = read[q.call]
        /\ UNCHANGED approvals
    BY <1>2, NewQuestion DEF IInv
  <2>2. approvals[q.id] # None
    BY <2>1 DEF IInv, TypeOK
  <2>3. QED
    BY <2>1, <2>2 DEF IInv, WinnerAsks, ReadStillHolds
<1>. QED
  BY <1>1, <1>2

\* A call asks once.
LEMMA StepOneQuestionACall == IInv /\ [Next]_vars => OneQuestionACall'
<1> SUFFICES ASSUME IInv, [Next]_vars, NEW p \in reasked', NEW q \in reasked',
                    p.call = q.call
             PROVE  p = q
  BY DEF OneQuestionACall
<1>1. ASSUME NEW old \in reasked, NEW new \in reasked', new \notin reasked
      PROVE  old.call # new.call
  <2>1. pc[new.call] = "reauthorize"
    BY <1>1, NewQuestion DEF IInv
  <2>2. pc[old.call] = "answered"
    BY DEF IInv, AskedByWinner
  <2>3. QED
    BY <2>1, <2>2
<1>2. CASE p \in reasked /\ q \in reasked
  BY <1>2 DEF IInv, OneQuestionACall
<1>3. CASE p \notin reasked /\ q \notin reasked
  BY <1>3, NewQuestion DEF IInv
<1>. QED
  BY <1>1, <1>2, <1>3

\* An approval is written only with the authority it was checked for.
LEMMA StepAuthority == FreshIds /\ IInv /\ [Next]_vars => AuthorityRespected'
<1> SUFFICES ASSUME FreshIds, IInv, [Next]_vars, NEW id \in Ids,
                    approvals'[id] # None, approvals'[id].status = "APPROVED"
             PROVE  MayApprove(DemoUsers[approvals'[id].decidedBy], approvals'[id].amount)
  BY DEF AuthorityRespected
<1>1. CASE approvals'[id] = approvals[id]
  BY <1>1 DEF IInv, AuthorityRespected
<1>2. ASSUME NEW c \in Calls, pc[c] = "transition", Move(c),
             approvals'[id] # approvals[id]
      PROVE  MayApprove(DemoUsers[approvals'[id].decidedBy], approvals'[id].amount)
  <2>1. req[c].id = id /\ approvals'[id] = Settled(c)
    BY <1>2 DEF Move, IInv, TypeOK
  <2>2. req[c].decision = "APPROVE"
    BY <2>1 DEF Settled, Target
  <2>3. QED
    BY <1>2, <2>1, <2>2 DEF Settled, IInv, ReadStillHolds
<1>3. ASSUME NEW i \in Ids, Request(i) PROVE approvals'[id] = approvals[id]
  BY <1>3 DEF Request, IInv, TypeOK
<1>4. ASSUME NEW c \in Calls, Transition(c) \/ LoseResponse(c)
      PROVE  \/ pc[c] = "transition" /\ Move(c)
             \/ UNCHANGED approvals
  BY <1>4 DEF Transition, LoseResponse
<1>. QED
  BY <1>1, <1>2, <1>3, <1>4 DEF Next, Proceed, Decide, Reauthorize, Stop, vars

\* The inductive invariant holds throughout.
THEOREM Invariance == ASSUME FreshIds PROVE Spec => []IInv
<1>1. IInv /\ [Next]_vars => IInv'
  BY StepTypeOK, StepRequestedOnce, StepReadStillHolds, StepWinnerAsks,
     StepAskedByWinner, StepOneQuestionACall, StepAuthority DEF IInv
<1>. QED
  BY <1>1, InitIInv, PTL DEF Spec

\* Any number of approvers racing on an action ask enforcement about it at
\* most once, for the one whose write approved it.
THEOREM OneWinnerAsks == ASSUME FreshIds PROVE Spec => []ReaskedOnceForTheWinner
<1>1. IInv => ReaskedOnceForTheWinner
  BY DEF IInv, AskedByWinner, OneQuestionACall, ReaskedOnceForTheWinner
<1>. QED
  BY <1>1, Invariance, PTL

\* Nobody approves beyond the limit of their role.
THEOREM NoApprovalBeyondRole == ASSUME FreshIds PROVE Spec => []AuthorityRespected
<1>1. IInv => AuthorityRespected
  BY DEF IInv
<1>. QED
  BY <1>1, Invariance, PTL

\* A decision is never changed.
THEOREM DecisionsAreFinal == ASSUME FreshIds PROVE Spec => DecisionIsFinal
<1>1. IInv /\ [Next]_vars =>
        [\A id \in Ids : Decided(id) => approvals'[id] = approvals[id]]_vars
  BY DecisionStands DEF IInv, Decided
<1>. QED
  BY <1>1, Invariance, PTL DEF Spec, DecisionIsFinal
-----------------------------------------------------------------------------
(* The service implements Decisions *)

\* What the promise sees of an action.
LEMMA KnownActions ==
    ASSUME TypeOK, NEW id \in Ids
    PROVE  /\ approvals[id] = None => Known[id] = None
           /\ approvals[id] # None =>
                /\ Known[id] = [amount |-> approvals[id].amount,
                                status |-> approvals[id].status,
                                decidedBy |-> approvals[id].decidedBy]
                /\ Known[id] # None
<1>1. CASE approvals[id] # None
  <2>1. approvals[id] \in PendingAction
    BY <1>1 DEF TypeOK
  <2>2. Known[id] \in Decision
    BY <1>1, <2>1 DEF Known, PendingAction, Decision
  <2>3. QED
    BY <1>1, <2>2, NoneAssumption DEF Known
<1>. QED
  BY <1>1 DEF Known

\* A conditional write is a decision taken in one step, with authority.
LEMMA MoveSettles ==
    ASSUME IInv, NEW c \in Calls, pc[c] = "transition", Move(c), UNCHANGED reasked
    PROVE  \E status \in {"APPROVED", "REJECTED"} :
             Promise!Settle(req[c].id, req[c].approver, status)
<1> DEFINE id == req[c].id
<1>1. /\ id \in Ids /\ req[c].approver \in Approvers
      /\ approvals[id] \in PendingAction /\ approvals[id] # None
      /\ approvals[id].status = "PENDING"
      /\ approvals' = [approvals EXCEPT ![id] = Settled(c)]
      /\ Settled(c) # None
  <2>1. TypeOK
    BY DEF IInv
  <2>2. req[c] \in Arguments /\ approvals[id] \in PendingAction
    BY <2>1, MoveType
  <2>3. Settled(c) \in PendingAction
    BY <2>2, TargetType
       DEF Settled, PendingAction, Arguments, ApprovalStatus, ApprovalTransitions
  <2>4. QED
    BY <2>2, <2>3, NoneAssumption DEF Move, Arguments
<1>2. /\ Known[id] = [amount |-> approvals[id].amount, status |-> "PENDING",
                      decidedBy |-> approvals[id].decidedBy]
      /\ Known[id] # None
  BY <1>1, KnownActions DEF IInv
<1>3. Known' = [Known EXCEPT ![id] =
         [amount |-> approvals[id].amount, status |-> Target(req[c].decision),
          decidedBy |-> req[c].approver]]
  BY <1>1 DEF Known, Settled, IInv, TypeOK
<1>4. Target(req[c].decision) = "APPROVED" =>
        <<req[c].approver, Known[id].amount>> \in Authority
  <2> SUFFICES ASSUME Target(req[c].decision) = "APPROVED"
               PROVE  <<req[c].approver, Known[id].amount>> \in Authority
    OBVIOUS
  <2>1. req[c].decision = "APPROVE"
    BY DEF Target
  <2>2. MayApprove(DemoUsers[req[c].approver], approvals[id].amount)
    BY <2>1 DEF IInv, ReadStillHolds
  <2>3. approvals[id].amount \in Amounts
    BY <1>1 DEF PendingAction
  <2>4. QED
    BY <1>1, <1>2, <2>2, <2>3 DEF Authority
<1>5. Asked' = Asked
  BY DEF Asked
<1>6. Promise!Settle(id, req[c].approver, Target(req[c].decision))
  BY <1>2, <1>3, <1>4, <1>5 DEF Promise!Settle
<1>. QED
  BY <1>6, TargetType

\* Every step of the service is a step of the promise or leaves it alone.
LEMMA StepRefines == ASSUME FreshIds, IInv, [Next]_vars PROVE [Promise!Next]_(Promise!vars)
<1>1. ASSUME NEW id \in Ids, Request(id) PROVE Promise!Escalate(id)
  <2>1. approvals[id] = None
    BY <1>1 DEF Request, IInv, RequestedOnce, FreshIds
  <2>2. PICK amount \in Amounts :
        approvals' = [approvals EXCEPT ![id] =
            [amount |-> amount, status |-> "PENDING",
             decidedBy |-> None, call |-> None]]
    BY <1>1 DEF Request
  <2>3. [amount |-> amount, status |-> "PENDING", decidedBy |-> None, call |-> None] # None
    BY NoneAssumption DEF PendingAction, ApprovalStatus, ApprovalTransitions
  <2>4. Known[id] = None
    BY <2>1, KnownActions DEF IInv
  <2>5. Known' = [Known EXCEPT ![id] =
            [amount |-> amount, status |-> "PENDING", decidedBy |-> None]]
    BY <2>2, <2>3 DEF Known, IInv, TypeOK
  <2>6. Asked' = Asked
    BY <1>1 DEF Request, Asked
  <2>7. QED
    BY <2>4, <2>5, <2>6 DEF Promise!Escalate
<1>2. ASSUME NEW c \in Calls, pc[c] = "transition", Move(c), UNCHANGED reasked
      PROVE  Promise!Next
  <2>1. req[c].id \in Ids /\ req[c].approver \in Approvers
    BY <1>2, MoveType DEF IInv, Arguments
  <2>2. QED
    BY <1>2, <2>1, MoveSettles DEF Promise!Next
<1>3. ASSUME NEW c \in Calls, Transition(c) \/ LoseResponse(c)
      PROVE  /\ UNCHANGED reasked
             /\ \/ pc[c] = "transition" /\ Move(c)
                \/ UNCHANGED approvals
  BY <1>3 DEF Transition, LoseResponse
<1>4. ASSUME UNCHANGED <<approvals, reasked>> PROVE UNCHANGED Promise!vars
  BY <1>4 DEF Promise!vars, Known, Asked
<1>5. ASSUME NEW c \in Calls, Reauthorize(c) PROVE Promise!AskAgain(req[c].id, c)
  <2> DEFINE id == req[c].id
  <2> PICK outcome \in ToolOutcome :
        reasked' = reasked \cup
            {[id |-> id, call |-> c, amount |-> read[c], outcome |-> outcome]}
    BY <1>5 DEF Reauthorize
  <2>1. /\ pc[c] = "reauthorize" /\ id \in Ids /\ approvals[id] # None
        /\ approvals[id].status = "APPROVED" /\ approvals[id].call = c
        /\ UNCHANGED approvals
    BY <1>5 DEF Reauthorize, IInv, TypeOK, Arguments, WinnerAsks
  <2>2. Known[id] # None /\ Known[id].status = "APPROVED"
    <3>1. /\ Known[id] = [amount |-> approvals[id].amount,
                          status |-> approvals[id].status,
                          decidedBy |-> approvals[id].decidedBy]
          /\ Known[id] # None
      BY <2>1, KnownActions DEF IInv
    <3>2. QED
      BY <2>1, <3>1
  <2>3. \A question \in Asked : question.id # id
    <3> SUFFICES ASSUME NEW q \in reasked, q.id = id PROVE FALSE
      BY DEF Asked
    <3>1. approvals[id].call = q.call /\ pc[q.call] = "answered"
      BY DEF IInv, AskedByWinner
    <3>2. QED
      BY <2>1, <3>1
  <2>4. Asked' = Asked \cup {[id |-> id, call |-> c]}
    <3> DEFINE n == [id |-> id, call |-> c, amount |-> read[c], outcome |-> outcome]
    <3>1. reasked' = reasked \cup {n} /\ n.id = id /\ n.call = c
      OBVIOUS
    <3> HIDE DEF n, id
    <3>2. QED
      BY <3>1 DEF Asked
  <2>5. Known' = Known
    BY <2>1 DEF Known
  <2>6. QED
    BY <2>2, <2>3, <2>4, <2>5 DEF Promise!AskAgain
<1>6. ASSUME NEW c \in Calls, Reauthorize(c) PROVE Promise!Next
  <2>1. req[c].id \in Ids
    BY <1>6 DEF Reauthorize, IInv, TypeOK, Arguments
  <2>2. QED
    BY <1>5, <1>6, <2>1 DEF Promise!Next
<1>. QED
  BY <1>1, <1>2, <1>3, <1>4, <1>6
     DEF Next, Proceed, Decide, Stop, vars, Promise!Next

\* With fresh identities, the service behaves as if every action were decided
\* in one step, by someone with the authority, and asked about at most once.
THEOREM ApprovalsImplementDecisions == ASSUME FreshIds PROVE Spec => ImplementsDecisions
<1>1. Init => Promise!Init
  BY DEF Init, Promise!Init, Known, Asked
<1>. QED
  BY <1>1, StepRefines, Invariance, PTL DEF Spec, ImplementsDecisions, Promise!Spec
-----------------------------------------------------------------------------
(* What callers are told.  This needs the store's answers to arrive: a     *)
(* retried write finds its own decision.                                   *)

AnswersArrive == "lost_response" \notin Faults

\* An undecided action carries nobody's write.
UndecidedIsUnwritten ==
    \A id \in Ids : approvals[id] # None /\ approvals[id].status = "PENDING" =>
        approvals[id].call = None

\* A call that still has its write to make has not made it.
NotYetWritten ==
    \A c \in Calls : pc[c] = "transition" => approvals[req[c].id].call # c

\* Answers come at the end, and every call that read an action read one there is.
AnswersAtTheEnd ==
    \A c \in Calls :
        /\ answer[c] # None => pc[c] = "answered"
        /\ pc[c] = "idle" => read[c] = None
        /\ read[c] # None => pc[c] # "idle" /\ approvals[req[c].id] # None
        /\ answer[c] # None /\ answer[c].status \in {"APPROVED", "REJECTED"} =>
             read[c] # None

AnswerInv ==
    /\ UndecidedIsUnwritten
    /\ NotYetWritten
    /\ AnswersAtTheEnd
    /\ AnswersAgree

\* A write is written by its call.
LEMMA StepUndecided ==
    IInv /\ AnswerInv /\ [Next]_vars => UndecidedIsUnwritten'
<1> SUFFICES ASSUME IInv, AnswerInv, [Next]_vars, NEW id \in Ids,
                    approvals'[id] # None, approvals'[id].status = "PENDING"
             PROVE  approvals'[id].call = None
  BY DEF UndecidedIsUnwritten
<1>1. CASE approvals'[id] = approvals[id]
  BY <1>1 DEF AnswerInv, UndecidedIsUnwritten
<1>2. ASSUME NEW i \in Ids, Request(i), approvals'[id] # approvals[id]
      PROVE  approvals'[id].call = None
  BY <1>2 DEF Request, IInv, TypeOK
<1>3. ASSUME NEW c \in Calls, pc[c] = "transition", Move(c)
      PROVE  approvals'[id] = approvals[id]
  BY <1>3, TargetType DEF Move, Settled, IInv, TypeOK
<1>4. ASSUME NEW c \in Calls, Transition(c) \/ LoseResponse(c)
      PROVE  \/ pc[c] = "transition" /\ Move(c)
             \/ UNCHANGED approvals
  BY <1>4 DEF Transition, LoseResponse
<1>. QED
  BY <1>1, <1>2, <1>3, <1>4 DEF Next, Proceed, Decide, Reauthorize, Stop, vars

\* The call whose write decided an action is past its write.
LEMMA StepNotYetWritten ==
    AnswersArrive /\ FreshIds /\ IInv /\ AnswerInv /\ [Next]_vars => NotYetWritten'
<1> SUFFICES ASSUME AnswersArrive, FreshIds, IInv, AnswerInv, [Next]_vars,
                    NEW d \in Calls, pc'[d] = "transition"
             PROVE  approvals'[req'[d].id].call # d
  BY DEF NotYetWritten
<1>1. ASSUME NEW arguments \in Arguments,
             Refusal(approvals[arguments.id], arguments) = None,
             req'[d] = arguments, UNCHANGED approvals
      PROVE  approvals'[req'[d].id].call # d
  <2>1. arguments.id \in Ids /\ approvals[arguments.id] \in PendingAction \cup {None}
    BY DEF IInv, TypeOK, Arguments
  <2>2. approvals[arguments.id] # None /\ approvals[arguments.id].status = "PENDING"
    BY <1>1, <2>1, AdmittedIsSound
  <2>3. approvals[arguments.id].call = None
    BY <2>1, <2>2 DEF AnswerInv, UndecidedIsUnwritten
  <2>4. QED
    BY <1>1, <2>3, NoneAssumption
<1>2. CASE pc[d] = "transition" /\ req'[d] = req[d]
  <2>1. req[d].id \in Ids /\ approvals[req[d].id] # None /\ approvals[req[d].id].call # d
    BY <1>2 DEF IInv, TypeOK, Arguments, AnswerInv, NotYetWritten
  <2>2. CASE approvals'[req[d].id] = approvals[req[d].id]
    BY <1>2, <2>1, <2>2
  <2>3. ASSUME NEW c \in Calls, Transition(c), Move(c)
        PROVE  approvals'[req[d].id].call # d
    <3>1. c # d
      BY <2>3 DEF Transition, Answer, IInv, TypeOK
    <3>2. QED
      BY <2>1, <2>3, <3>1 DEF Move, Settled, IInv, TypeOK
  <2>4. ASSUME NEW c \in Calls, LoseResponse(c) PROVE FALSE
    BY <2>4 DEF LoseResponse, AnswersArrive
  <2>5. ASSUME NEW i \in Ids, Request(i) PROVE approvals'[req[d].id] = approvals[req[d].id]
    <3>1. i # req[d].id
      BY <2>1, <2>5 DEF Request, IInv, RequestedOnce, FreshIds
    <3>2. QED
      BY <2>1, <2>5, <3>1 DEF Request, IInv, TypeOK
  <2>6. ASSUME NEW c \in Calls, Transition(c), ~Move(c) PROVE UNCHANGED approvals
    BY <2>6 DEF Transition
  <2>7. QED
    BY <1>2, <2>2, <2>3, <2>4, <2>5, <2>6
       DEF Next, Proceed, Decide, Reauthorize, Stop, vars
<1>. QED
  BY <1>1, <1>2, PastItsChecks DEF IInv

\* Where an answer can come from.
LEMMA NewAnswer ==
    ASSUME IInv, AnswerInv, [Next]_vars, NEW c \in Calls,
           answer'[c] # None, answer[c] = None
    PROVE  \/ /\ read'[c] = None /\ UNCHANGED reasked
              /\ answer'[c].status \notin {"APPROVED", "REJECTED"}
              /\ answer'[c].executed = FALSE
           \/ /\ pc[c] = "transition" /\ req'[c] = req[c] /\ read'[c] = read[c]
              /\ UNCHANGED reasked
              /\ \/ Move(c) /\ answer'[c] =
                        [status |-> Target(req[c].decision), executed |-> FALSE]
                 \/ /\ approvals[req[c].id].status # "PENDING"
                    /\ UNCHANGED approvals
                    /\ answer'[c] = [status |-> "CONFLICT", executed |-> FALSE]
           \/ /\ pc[c] = "reauthorize" /\ req'[c] = req[c] /\ read'[c] = read[c]
              /\ UNCHANGED approvals
              /\ \E outcome \in ToolOutcome :
                   /\ reasked' = reasked \cup {[id |-> req[c].id, call |-> c,
                                    amount |-> read[c], outcome |-> outcome]}
                   /\ answer'[c] = [status |-> "APPROVED",
                                    executed |-> outcome = "EXECUTED"]
<1>1. ASSUME NEW d \in Calls, NEW arguments \in Arguments, Decide(d, arguments)
      PROVE  /\ read'[c] = None /\ UNCHANGED reasked
             /\ answer'[c].status \notin {"APPROVED", "REJECTED"}
             /\ answer'[c].executed = FALSE
  <2>1. d = c
    BY <1>1 DEF Decide, Answer, IInv, TypeOK
  <2>2. pc[c] = "idle" /\ read[c] = None
    BY <1>1, <2>1 DEF Decide, AnswerInv, AnswersAtTheEnd
  <2>3. /\ answer'[c] =
             [status |-> Refusal(approvals[arguments.id], arguments), executed |-> FALSE]
        /\ Refusal(approvals[arguments.id], arguments) # None
        /\ read' = read /\ reasked' = reasked
    BY <1>1, <2>1 DEF Decide, Answer, IInv, TypeOK
  <2>4. QED
    BY <2>2, <2>3, RefusalType
<1>2. ASSUME NEW d \in Calls, Transition(d)
      PROVE  /\ d = c
             /\ pc[c] = "transition" /\ req'[c] = req[c] /\ read'[c] = read[c]
             /\ UNCHANGED reasked
             /\ \/ Move(c) /\ answer'[c] =
                       [status |-> Target(req[c].decision), executed |-> FALSE]
                \/ /\ approvals[req[c].id].status # "PENDING"
                   /\ UNCHANGED approvals
                   /\ answer'[c] = [status |-> "CONFLICT", executed |-> FALSE]
  <2>1. d = c
    BY <1>2 DEF Transition, Answer, IInv, TypeOK
  <2>2. answer \in [Calls -> Result \cup {None}]
    BY DEF IInv, TypeOK
  <2>3. ASSUME NEW status, Answer(c, status, FALSE)
        PROVE  answer'[c] = [status |-> status, executed |-> FALSE]
    BY <2>2, <2>3 DEF Answer
  <2>4. /\ pc[c] = "transition" /\ UNCHANGED <<req, read, reasked>>
        /\ \/ Move(c) /\ Answer(c, Target(req[c].decision), FALSE)
           \/ /\ approvals[req[c].id].status # "PENDING"
              /\ UNCHANGED approvals
              /\ Answer(c, "CONFLICT", FALSE)
    BY <1>2, <2>1 DEF Transition
  <2>5. QED
    BY <2>1, <2>3, <2>4
<1>3. ASSUME NEW d \in Calls, Reauthorize(d)
      PROVE  /\ d = c
             /\ pc[c] = "reauthorize" /\ req'[c] = req[c] /\ read'[c] = read[c]
             /\ UNCHANGED approvals
             /\ \E outcome \in ToolOutcome :
                  /\ reasked' = reasked \cup {[id |-> req[c].id, call |-> c,
                                   amount |-> read[c], outcome |-> outcome]}
                  /\ answer'[c] = [status |-> "APPROVED",
                                   executed |-> outcome = "EXECUTED"]
  BY <1>3 DEF Reauthorize, Answer, IInv, TypeOK
<1>. QED
  BY <1>1, <1>2, <1>3 DEF Next, Proceed, Request, LoseResponse, Stop, vars
\* What a call keeps while it is under way, and when it begins to hold an action.
LEMMA Holding ==
    ASSUME IInv, AnswerInv, [Next]_vars, NEW c \in Calls
    PROVE  /\ pc'[c] = "idle" => pc[c] = "idle" /\ read'[c] = read[c]
           /\ \/ read'[c] = read[c] /\ (pc[c] # "idle" => req'[c] = req[c])
              \/ /\ pc'[c] = "transition"
                 /\ req'[c] \in Arguments /\ approvals[req'[c].id] # None
           /\ answer[c] = None /\ answer'[c] # None => pc'[c] = "answered"
<1>1. ASSUME NEW d \in Calls, NEW arguments \in Arguments, Decide(d, arguments)
      PROVE  /\ pc'[c] = "idle" => pc[c] = "idle" /\ read'[c] = read[c]
             /\ \/ read'[c] = read[c] /\ (pc[c] # "idle" => req'[c] = req[c])
                \/ /\ pc'[c] = "transition"
                   /\ req'[c] \in Arguments /\ approvals[req'[c].id] # None
             /\ answer[c] = None /\ answer'[c] # None => pc'[c] = "answered"
  <2>1. approvals[arguments.id] \in PendingAction \cup {None}
    BY DEF IInv, TypeOK, Arguments
  <2>2. Refusal(approvals[arguments.id], arguments) = None => approvals[arguments.id] # None
    BY <2>1, AdmittedIsSound
  <2>3. QED
    BY <1>1, <2>2 DEF Decide, Answer, IInv, TypeOK
<1>2. ASSUME NEW d \in Calls, Transition(d) \/ LoseResponse(d) \/ Reauthorize(d) \/ Stop(d)
      PROVE  /\ pc'[c] = "idle" => pc[c] = "idle"
             /\ read' = read /\ req' = req
             /\ answer[c] = None /\ answer'[c] # None => pc'[c] = "answered"
  BY <1>2 DEF Transition, LoseResponse, Reauthorize, Stop, Answer, IInv, TypeOK
<1>. QED
  BY <1>1, <1>2 DEF Next, Proceed, Request, vars

\* Answers go on coming at the end.
LEMMA StepAnswersAtTheEnd ==
    FreshIds /\ IInv /\ AnswerInv /\ [Next]_vars => AnswersAtTheEnd'
<1> SUFFICES ASSUME FreshIds, IInv, AnswerInv, [Next]_vars, NEW c \in Calls
             PROVE  /\ answer'[c] # None => pc'[c] = "answered"
                    /\ pc'[c] = "idle" => read'[c] = None
                    /\ read'[c] # None =>
                         pc'[c] # "idle" /\ approvals'[req'[c].id] # None
                    /\ answer'[c] # None /\ answer'[c].status \in {"APPROVED", "REJECTED"} =>
                         read'[c] # None
  BY DEF AnswersAtTheEnd
<1>1. answer'[c] # None => pc'[c] = "answered"
  BY Holding, AnsweredStays DEF AnswerInv, AnswersAtTheEnd, IInv
<1>2. pc'[c] = "idle" => read'[c] = None
  BY Holding DEF AnswerInv, AnswersAtTheEnd
<1>3. ASSUME read'[c] # None PROVE pc'[c] # "idle" /\ approvals'[req'[c].id] # None
  <2>1. req'[c].id \in Ids /\ approvals[req'[c].id] # None
    <3>1. CASE read'[c] = read[c] /\ (pc[c] # "idle" => req'[c] = req[c])
      BY <1>3, <3>1 DEF AnswerInv, AnswersAtTheEnd, IInv, TypeOK, Arguments
    <3>2. CASE req'[c] \in Arguments /\ approvals[req'[c].id] # None
      BY <3>2 DEF Arguments
    <3>3. QED
      BY <3>1, <3>2, Holding
  <2>2. QED
    BY <1>2, <1>3, <2>1, DecisionStands DEF IInv
<1>4. ASSUME answer'[c] # None, answer'[c].status \in {"APPROVED", "REJECTED"}
      PROVE  read'[c] # None
  <2>1. CASE answer[c] # None
    <3>1. answer'[c] = answer[c] /\ read'[c] = read[c]
      BY <2>1, AnsweredStays DEF AnswerInv, AnswersAtTheEnd, IInv
    <3>2. QED
      BY <1>4, <2>1, <3>1 DEF AnswerInv, AnswersAtTheEnd
  <2>2. CASE answer[c] = None
    BY <1>4, <2>2, NewAnswer DEF IInv, TypeOK
  <2>3. QED
    BY <2>1, <2>2
<1>. QED
  BY <1>1, <1>2, <1>3, <1>4

\* An answer agrees with the store when it is given and ever after.
LEMMA StepAnswersAgree ==
    AnswersArrive /\ FreshIds /\ IInv /\ AnswerInv /\ [Next]_vars => AnswersAgree'
<1> DEFINE Agrees(c) ==
      /\ answer[c].status \in {"APPROVED", "REJECTED"} =>
           approvals[req[c].id].status = answer[c].status /\ approvals[req[c].id].call = c
      /\ answer[c].executed <=>
           \E q \in reasked : q.call = c /\ q.outcome = "EXECUTED"
      /\ answer[c].status = "CONFLICT" /\ read[c] # None =>
           approvals[req[c].id].status # "PENDING" /\ approvals[req[c].id].call # c
<1> SUFFICES ASSUME AnswersArrive, FreshIds, IInv, AnswerInv, [Next]_vars,
                    NEW c \in Calls, answer'[c] # None
             PROVE  Agrees(c)'
  BY DEF AnswersAgree
<1> DEFINE id == req[c].id
<1>1. CASE answer[c] # None
  <2>1. /\ pc[c] = "answered" /\ Agrees(c)
        /\ req'[c] = req[c] /\ answer'[c] = answer[c] /\ read'[c] = read[c]
    BY <1>1, AnsweredStays DEF AnswerInv, AnswersAtTheEnd, AnswersAgree, IInv
  <2>2. id \in Ids
    BY <2>1 DEF IInv, TypeOK, Arguments
  <2>3. ASSUME read[c] # None, answer[c].status \in {"APPROVED", "REJECTED", "CONFLICT"}
        PROVE  approvals'[id] = approvals[id]
    <3>1. approvals[id] # None /\ approvals[id].status # "PENDING"
      BY <2>1, <2>3 DEF AnswerInv, AnswersAtTheEnd
    <3>2. QED
      BY <2>2, <3>1, DecisionStands DEF Decided, IInv
  <2>4. \A q \in reasked' : q.call = c => q \in reasked
    BY <2>1, NewQuestion DEF IInv
  <2>5. reasked \subseteq reasked'
    BY DEF Next, Proceed, Request, Decide, Transition, LoseResponse, Reauthorize, Stop, vars
  <2>6. answer[c].status \in {"APPROVED", "REJECTED"} => read[c] # None
    BY <1>1 DEF AnswerInv, AnswersAtTheEnd
  <2>7. QED
    BY <2>1, <2>3, <2>4, <2>5, <2>6
<1>2. CASE answer[c] = None
  <2>1. ASSUME pc[c] # "answered" PROVE \A q \in reasked : q.call # c
    BY <2>1 DEF IInv, AskedByWinner
  <2>2. pc[c] # "answered"
    BY <1>2, AnsweredStays DEF IInv
  <2>3. CASE /\ read'[c] = None /\ UNCHANGED reasked
             /\ answer'[c].status \notin {"APPROVED", "REJECTED"}
             /\ answer'[c].executed = FALSE
    BY <2>1, <2>2, <2>3
  <2>4. CASE /\ pc[c] = "transition" /\ req'[c] = req[c] /\ read'[c] = read[c]
             /\ UNCHANGED reasked
             /\ Move(c)
             /\ answer'[c] = [status |-> Target(req[c].decision), executed |-> FALSE]
    <3>1. id \in Ids
      BY <2>4 DEF IInv, TypeOK, Arguments
    <3>2. approvals'[id] = Settled(c)
      BY <2>4, <3>1 DEF Move, IInv, TypeOK
    <3>3. QED
      BY <2>1, <2>2, <2>4, <3>2, TargetType DEF Settled
  <2>5. CASE /\ pc[c] = "transition" /\ req'[c] = req[c] /\ read'[c] = read[c]
             /\ UNCHANGED reasked
             /\ approvals[id].status # "PENDING"
             /\ UNCHANGED approvals
             /\ answer'[c] = [status |-> "CONFLICT", executed |-> FALSE]
    BY <2>1, <2>2, <2>5 DEF AnswerInv, NotYetWritten
  <2>6. ASSUME NEW outcome \in ToolOutcome,
               pc[c] = "reauthorize", req'[c] = req[c], read'[c] = read[c],
               UNCHANGED approvals,
               reasked' = reasked \cup {[id |-> id, call |-> c,
                                amount |-> read[c], outcome |-> outcome]},
               answer'[c] = [status |-> "APPROVED", executed |-> outcome = "EXECUTED"]
        PROVE  Agrees(c)'
    <3>1. approvals[id].status = "APPROVED" /\ approvals[id].call = c
      BY <2>6 DEF IInv, WinnerAsks
    <3> DEFINE n == [id |-> id, call |-> c, amount |-> read[c], outcome |-> outcome]
    <3>2. reasked' = reasked \cup {n} /\ n.call = c /\ n.outcome = outcome
      BY <2>6
    <3> HIDE DEF n
    <3>3. (\E q \in reasked' : q.call = c /\ q.outcome = "EXECUTED") <=> outcome = "EXECUTED"
      BY <2>1, <2>2, <3>2
    <3>4. answer'[c].status = "APPROVED" /\ (answer'[c].executed <=> outcome = "EXECUTED")
      <4> DEFINE flag == outcome = "EXECUTED"
      <4>1. answer'[c] = [status |-> "APPROVED", executed |-> flag]
        BY <2>6
      <4>2. flag <=> outcome = "EXECUTED"
        OBVIOUS
      <4> HIDE DEF flag
      <4>3. answer'[c].status = "APPROVED" /\ answer'[c].executed = flag
        BY <4>1
      <4>4. QED
        BY <4>2, <4>3
    <3>5. QED
      BY <2>6, <3>1, <3>3, <3>4
  <2>7. QED
    BY <1>2, <2>3, <2>4, <2>5, <2>6, NewAnswer
<1>. QED
  BY <1>1, <1>2

\* Where no answer of the store is lost, what each caller is told agrees with
\* the store and with what enforcement did, then and ever after.
THEOREM CallersAreToldTheTruth ==
    ASSUME FreshIds, AnswersArrive PROVE Spec => []AnswersAgree
<1>1. Init => AnswerInv
  BY DEF Init, AnswerInv, UndecidedIsUnwritten, NotYetWritten, AnswersAtTheEnd, AnswersAgree
<1>2. IInv /\ AnswerInv /\ [Next]_vars => AnswerInv'
  BY StepUndecided, StepNotYetWritten, StepAnswersAtTheEnd, StepAnswersAgree DEF AnswerInv
<1>3. AnswerInv => AnswersAgree
  BY DEF AnswerInv
<1>. QED
  BY <1>1, <1>2, <1>3, Invariance, PTL DEF Spec
=============================================================================
