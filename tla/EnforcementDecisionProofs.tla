---------------------- MODULE EnforcementDecisionProofs ----------------------
(***************************************************************************)
(* What Enforcement records, for every value of its constants: a decision  *)
(* record agrees with the ledger, an escalation is one that a signature    *)
(* can lift, and a payment is explained.                                   *)
(*                                                                         *)
(* A record is written a step after the outcome it reports was settled,    *)
(* and outside the try block.  The invariant therefore says what a call    *)
(* that is about to be recorded knows, and that no call is recorded before *)
(* its end: so a payment made later is never that of a recorded denial.    *)
(***************************************************************************)
EXTENDS EnforcementSafetyProofs

Liftable(f, reason) ==
    /\ f.accountMatches
    /\ ~f.isDuplicate
    /\ f.vendorStatus = "ACTIVE"
    /\ f.amount <= MaxAmount
    /\ reason \in {"VENDOR_NOT_VERIFIED", "ABOVE_AUTO_APPROVE_LIMIT"}

Settles(entry, id, f) ==
    /\ entry.txn = id
    /\ entry.amount = f.amount
    /\ entry.amount <= MaxAmount /\ entry.amount <= AutoLimit
    /\ f.matchVerified

\* What a call knows about the outcome it is about to record.
OutcomeBacked(c) ==
    /\ verdict[c].outcome = "EXECUTED" =>
        /\ verdict[c].reason # "ENFORCEMENT_ERROR"
        /\ \E entry \in ledger : Settles(entry, req[c].id, facts[c])
    /\ verdict[c].outcome = "PENDING_APPROVAL" =>
        /\ verdict[c].reason # "ENFORCEMENT_ERROR"
        /\ Liftable(facts[c], verdict[c].reason)

CallReady(c) ==
    /\ pc[c] = "reask" => ~PayAllowed(Context(c, FALSE))
    /\ pc[c] = "decisions" => OutcomeBacked(c)

\* A call under way has no record yet.
NotYetRecorded ==
    \A d \in decisions :
        /\ d.call <= issued
        /\ \A c \in Callers : Active(c) => d.call # req[c].id

DecisionInv ==
    /\ IInv
    /\ \A c \in Callers : CallReady(c)
    /\ NotYetRecorded
    /\ OutcomeMatchesLedger
    /\ EscalationIsLiftable

-----------------------------------------------------------------------------
(* A denial that a signature lifts *)

\* Its reason is one of the two a signature can lift.
LEMMA LiftableReason ==
    ASSUME NEW fired, fired # {},
           fired \subseteq {"pay-vendor-match-required", "pay-above-auto-limit-needs-human"}
    PROVE  ReasonFor(fired) \in {"VENDOR_NOT_VERIFIED", "ABOVE_AUTO_APPROVE_LIMIT"}
<1> DEFINE ranks == {k \in 1..Len(ReasonPrecedence) : ReasonPrecedence[k] \in fired}
           top == CHOOSE k \in ranks : \A j \in ranks : k <= j
<1>1. ranks \subseteq {5, 6} /\ ranks # {}
  <2>1. \A k \in 1..Len(ReasonPrecedence) : ReasonPrecedence[k] \in fired => k \in {5, 6}
    BY DEF ReasonPrecedence
  <2>2. /\ 5 \in 1..Len(ReasonPrecedence) /\ 6 \in 1..Len(ReasonPrecedence)
        /\ ReasonPrecedence[5] = "pay-vendor-match-required"
        /\ ReasonPrecedence[6] = "pay-above-auto-limit-needs-human"
    BY DEF ReasonPrecedence
  <2>3. 5 \in ranks \/ 6 \in ranks
    BY <2>2
  <2>4. QED
    BY <2>1, <2>3
<1>2. \E k \in ranks : \A j \in ranks : k <= j
  <2> HIDE DEF ranks
  <2>1. CASE 5 \in ranks
    <3>1. \A j \in ranks : 5 <= j
      BY <1>1
    <3>2. QED
      BY <2>1, <3>1
  <2>2. CASE 5 \notin ranks
    <3>1. ranks = {6}
      BY <1>1, <2>2
    <3>2. QED
      BY <3>1
  <2>3. QED
    BY <2>1, <2>2
<1>3. top \in ranks
  BY <1>2
<1>4. PolicyReason[top] \in {"VENDOR_NOT_VERIFIED", "ABOVE_AUTO_APPROVE_LIMIT"}
  <2> HIDE DEF ranks, top
  <2> QED
    BY <1>1, <1>3 DEF PolicyReason
<1>5. ReasonFor(fired) = PolicyReason[top]
  BY <1>1 DEF ReasonFor
<1>6. QED
  BY <1>4, <1>5

\* The question asked as if a human had approved differs in nothing else.
LEMMA EscalationLiftable ==
    ASSUME NEW c, ~PayAllowed(Context(c, FALSE)), PayAllowed(Context(c, TRUE))
    PROVE  Liftable(facts[c], ReasonFor(PayForbids(Context(c, FALSE))))
<1>1. /\ facts[c].vendorStatus = "ACTIVE"
      /\ facts[c].amount <= MaxAmount
      /\ Trusted(req[c].account) /\ facts[c].accountMatches
      /\ ~facts[c].isDuplicate
  BY PermittedPayment DEF Context
<1>2. PayPermit(Context(c, FALSE))
  BY DEF PayAllowed, PayPermit, Context
<1>3. PayForbids(Context(c, FALSE)) # {}
  BY <1>2 DEF PayAllowed
<1>4. PayForbids(Context(c, FALSE)) \subseteq
        {"pay-vendor-match-required", "pay-above-auto-limit-needs-human"}
  BY <1>1 DEF PayForbids, Context
<1>5. QED
  BY <1>1, <1>3, <1>4, LiftableReason DEF Liftable

-----------------------------------------------------------------------------
(* What a call about to be recorded knows *)

\* While another call, the run or the company moves.
LEMMA BystanderReady ==
    ASSUME NEW d \in Callers, CallReady(d), ledger \subseteq ledger',
           UNCHANGED <<pc[d], req[d], facts[d], verdict[d]>>
    PROVE  CallReady(d)'
<1>1. Context(d, FALSE)' = Context(d, FALSE)
  BY DEF Context
<1>2. QED
  BY <1>1 DEF CallReady, OutcomeBacked, Settles, Liftable

\* Whatever a call does next, it knows what it then needs.
LEMMA OwnStepReady ==
    ASSUME DecisionInv, NEW c \in Callers, Proceed(c)
    PROVE  CallReady(c)'
<1>1. /\ TypeOK /\ CallSound(c) /\ CallReady(c)
      /\ pc \in [Callers -> Stage]
      /\ req \in [Callers -> Request \cup {None}]
      /\ facts \in [Callers -> PaymentFacts \cup {None}]
      /\ verdict \in [Callers -> Verdict \cup {None}]
  BY DEF DecisionInv, IInv, TypeOK
<1>2. CASE pc'[c] \notin {"reask", "decisions"}
  BY <1>2 DEF CallReady
<1>3. CASE ReadVendor(c) \/ ReadLedger(c) \/ RecordDecision(c) \/ ReaskRaises(c)
           \/ ExecuteRaises(c) \/ RecordRaises(c)
  <2>1. pc'[c] \in {"ledger_read", "authorizer", "idle"}
    BY <1>1, <1>3 DEF ReadVendor, ReadLedger, RecordDecision, ReaskRaises,
                      ExecuteRaises, RecordRaises, Return
  <2>2. QED
    BY <1>2, <2>1
<1>4. CASE Authorize(c)
  <2>1. pc'[c] = (IF PayAllowed(Context(c, FALSE)) THEN "ledger_write" ELSE "reask")
    BY <1>1, <1>4 DEF Authorize
  <2>2. Context(c, FALSE)' = Context(c, FALSE)
    BY <1>4 DEF Authorize, Context
  <2>3. QED
    BY <2>1, <2>2 DEF CallReady
<1>5. CASE Execute(c)
  <2>1. /\ pc[c] = "ledger_write" /\ pc'[c] = "decisions"
        /\ ledger' = ledger \cup {Entry(c)}
        /\ verdict'[c] = [outcome |-> "EXECUTED", reason |-> "OK"]
        /\ UNCHANGED <<req, facts>>
    BY <1>1, <1>5 DEF Execute, Decided
  <2>2. /\ facts[c].amount <= MaxAmount
        /\ facts[c].matchVerified /\ ~(facts[c].amount > AutoLimit)
    BY <1>1, <2>1, PermittedPayment DEF CallSound, Context
  <2>3. facts[c].amount \in Nat /\ AutoLimit \in Nat
    BY <1>1, <2>1, AmountsAssumption, LimitsAssumption DEF TypeOK, CallTypeOK, PaymentFacts
  <2>4. Settles(Entry(c), req[c].id, facts[c])
    BY <2>2, <2>3 DEF Settles, Entry
  <2>5. (\E entry \in ledger : Settles(entry, req[c].id, facts[c]))'
    BY <2>1, <2>4 DEF Settles
  <2>6. QED
    BY <2>1, <2>5 DEF CallReady, OutcomeBacked
<1>6. CASE Reask(c)
  <2>1. /\ pc[c] = "reask" /\ pc'[c] = "decisions"
        /\ verdict'[c].reason = ReasonFor(PayForbids(Context(c, FALSE)))
        /\ verdict'[c].outcome =
             (IF PayAllowed(Context(c, TRUE)) THEN "PENDING_APPROVAL" ELSE "DENIED")
        /\ UNCHANGED facts
    BY <1>1, <1>6 DEF Reask, Decided
  <2>2. ~PayAllowed(Context(c, FALSE))
    BY <1>1, <2>1 DEF CallReady
  <2>3. verdict'[c].outcome # "EXECUTED"
    BY <2>1
  <2>4. ASSUME verdict'[c].outcome = "PENDING_APPROVAL"
        PROVE  Liftable(facts'[c], verdict'[c].reason)
               /\ verdict'[c].reason # "ENFORCEMENT_ERROR"
    <3>1. Liftable(facts[c], verdict'[c].reason)
      BY <2>1, <2>2, <2>4, EscalationLiftable
    <3>2. QED
      BY <2>1, <3>1 DEF Liftable
  <2>5. QED
    BY <2>1, <2>3, <2>4 DEF CallReady, OutcomeBacked, Liftable
<1>7. CASE FailClosed(c)
  <2>1. pc'[c] = "decisions" /\ verdict'[c].outcome = "DENIED"
    BY <1>1, <1>7 DEF FailClosed, Decided
  <2>2. QED
    BY <2>1 DEF CallReady, OutcomeBacked
<1>8. QED
  BY <1>3, <1>4, <1>5, <1>6, <1>7 DEF Proceed

\* A step moves one call and leaves the others as they were.
LEMMA StepReady ==
    ASSUME DecisionInv, [Next]_vars
    PROVE  \A d \in Callers : CallReady(d)'
<1>1. TypeOK /\ \A d \in Callers : CallReady(d)
  BY DEF DecisionInv, IInv
<1>2. ledger \subseteq ledger'
  BY <1>1, LedgerStep
<1>3. CASE UNCHANGED <<pc, req, facts, verdict>>
  BY <1>1, <1>2, <1>3, BystanderReady
<1>4. ASSUME NEW c \in Callers, Proceed(c), NEW d \in Callers PROVE CallReady(d)'
  <2>1. CASE d = c
    BY <1>4, <2>1, OwnStepReady
  <2>2. CASE d # c
    BY <1>1, <1>2, <1>4, <2>2, ProceedFrame, BystanderReady
  <2>3. QED
    BY <2>1, <2>2
<1>5. ASSUME NEW c \in Callers, Call(c), NEW d \in Callers PROVE CallReady(d)'
  <2>1. CASE UNCHANGED <<pc, req, facts, verdict>>
    BY <1>3, <2>1
  <2>2. CASE /\ pc'[c] = "vendors"
             /\ \A e \in Callers : e # c =>
                  UNCHANGED <<pc[e], req[e], facts[e], verdict[e]>>
    <3>1. CASE d = c
      BY <2>2, <3>1 DEF CallReady
    <3>2. CASE d # c
      BY <1>1, <1>2, <2>2, <3>2, BystanderReady
    <3>3. QED
      BY <3>1, <3>2
  <2>3. ASSUME NEW vendor, NEW account, NEW amount, NEW invoice, NEW verified,
               PayVendor(c, vendor, account, amount, invoice, verified)
        PROVE  /\ pc'[c] = "vendors"
               /\ \A e \in Callers : e # c =>
                    UNCHANGED <<pc[e], req[e], facts[e], verdict[e]>>
    BY <1>1, <2>3 DEF PayVendor, TypeOK
  <2>4. ASSUME NEW k, NEW argument, RefuseArgument(c, k, argument)
        PROVE  UNCHANGED <<pc, req, facts, verdict>>
    BY <2>4 DEF RefuseArgument
  <2>5. QED
    BY <1>5, <2>1, <2>2, <2>3, <2>4 DEF Call
<1>6. QED
  BY <1>3, <1>4, <1>5 DEF Next, LookupVendor, PutVendor, vars

-----------------------------------------------------------------------------
(* The records *)

\* A step writes no record, or that of a call which then ends.
LEMMA DecisionStep ==
    ASSUME TypeOK, [Next]_vars
    PROVE  \/ decisions' = decisions
           \/ \E c \in Callers, linked \in BOOLEAN :
                /\ Proceed(c)
                /\ pc[c] = "decisions" /\ pc'[c] = "idle"
                /\ decisions' = decisions \cup
                     {Record(req[c].id, verdict[c], FactsToRecord(c), linked)}
                /\ UNCHANGED ledger
<1>1. CASE UNCHANGED vars
  BY <1>1 DEF vars
<1>2. ASSUME NEW v \in Vendors, LookupVendor(v) \/ PutVendor(v) PROVE decisions' = decisions
  BY <1>2 DEF LookupVendor, PutVendor
<1>3. ASSUME NEW c \in Callers, Call(c) PROVE decisions' = decisions
  BY <1>3 DEF Call, RefuseArgument, PayVendor, stores
<1>4. ASSUME NEW c \in Callers, Proceed(c)
      PROVE  \/ decisions' = decisions
             \/ \E linked \in BOOLEAN :
                  /\ pc[c] = "decisions" /\ pc'[c] = "idle"
                  /\ decisions' = decisions \cup
                       {Record(req[c].id, verdict[c], FactsToRecord(c), linked)}
                  /\ UNCHANGED ledger
  <2>1. pc \in [Callers -> Stage]
    BY DEF TypeOK
  <2>2. CASE RecordDecision(c)
    BY <2>1, <2>2 DEF RecordDecision, Return
  <2>3. CASE RecordRaises(c)
    BY <2>1, <2>3 DEF RecordRaises, Return
  <2>4. CASE ReadVendor(c) \/ ReadLedger(c) \/ Authorize(c) \/ Execute(c) \/ Reask(c)
             \/ FailClosed(c) \/ ReaskRaises(c) \/ ExecuteRaises(c)
    BY <2>4 DEF ReadVendor, ReadLedger, Authorize, Execute, Reask, FailClosed,
                ReaskRaises, ExecuteRaises, stores
  <2>5. QED
    BY <1>4, <2>2, <2>3, <2>4 DEF Proceed
<1>5. QED
  BY <1>1, <1>2, <1>3, <1>4 DEF Next

\* What a call knows makes its record true.
LEMMA NewRecordSound ==
    ASSUME DecisionInv, NEW c \in Callers, pc[c] = "decisions", NEW linked,
           NEW r, r = Record(req[c].id, verdict[c], FactsToRecord(c), linked)
    PROVE  /\ r.call = req[c].id
           /\ r.outcome = "EXECUTED" =>
                \E entry \in ledger : Settles(entry, r.call, r.facts)
           /\ r.outcome # "EXECUTED" => r.call \notin Paid
           /\ r.outcome = "PENDING_APPROVAL" => Liftable(r.facts, r.reason)
<1>1. /\ r.call = req[c].id
      /\ r.outcome = verdict[c].outcome
      /\ r.reason = verdict[c].reason
      /\ r.facts = FactsToRecord(c)
  BY DEF Record
<1>2. OutcomeBacked(c) /\ Unpaid(c)
  BY DEF DecisionInv, CallReady, IInv, CallSound
<1>3. verdict[c].reason # "ENFORCEMENT_ERROR" => r.facts = facts[c]
  BY <1>1 DEF FactsToRecord
<1>4. QED
  BY <1>1, <1>2, <1>3 DEF OutcomeBacked, Unpaid

\* Every record stays true, the one just written among them: payments are
\* only added, and one made now is that of a call without a record.
LEMMA StepRecordsSound ==
    ASSUME DecisionInv, IInv', [Next]_vars
    PROVE  NotYetRecorded' /\ OutcomeMatchesLedger' /\ EscalationIsLiftable'
<1>1. /\ TypeOK /\ TypeOK' /\ IInv
      /\ issued \in Nat /\ issued' \in Nat
  BY LimitsAssumption DEF DecisionInv, IInv, TypeOK
<1> DEFINE True(d) ==
        /\ d.outcome = "EXECUTED" =>
             \E entry \in ledger : Settles(entry, d.call, d.facts)
        /\ d.outcome # "EXECUTED" => d.call \notin Paid
        /\ d.outcome = "PENDING_APPROVAL" => Liftable(d.facts, d.reason)
        /\ d.call <= issued
<1>2. \A d \in decisions : True(d) /\ \A c \in Callers : Active(c) => d.call # req[c].id
  BY DEF DecisionInv, NotYetRecorded, OutcomeMatchesLedger, EscalationIsLiftable,
         Settles, Liftable, Paid
<1>3. /\ issued <= issued'
      /\ \A c \in Callers : Active(c)' =>
           \/ Active(c) /\ req'[c] = req[c]
           \/ req'[c].id = issued + 1 /\ issued' = issued + 1
  <2>1. CASE UNCHANGED <<issued, pc, req>>
    BY <1>1, <2>1 DEF Active
  <2>2. ASSUME NEW c \in Callers, Proceed(c)
        PROVE  /\ issued' = issued
               /\ \A e \in Callers : Active(e)' => Active(e) /\ req'[e] = req[e]
    BY <1>1, <2>2, ProceedFrame DEF Active
  <2>3. ASSUME NEW c, NEW k, NEW argument, RefuseArgument(c, k, argument)
        PROVE  issued' = issued + 1 /\ UNCHANGED <<pc, req>>
    BY <2>3 DEF RefuseArgument
  <2>4. ASSUME NEW c \in Callers, NEW vendor, NEW account, NEW amount, NEW invoice,
               NEW verified, PayVendor(c, vendor, account, amount, invoice, verified)
        PROVE  /\ issued' = issued + 1 /\ req'[c].id = issued + 1
               /\ \A e \in Callers : e # c => UNCHANGED <<pc[e], req[e]>>
    BY <1>1, <2>4 DEF PayVendor, TypeOK
  <2>5. ASSUME NEW c \in Callers, Call(c)
        PROVE  /\ issued' = issued + 1
               /\ \A e \in Callers : Active(e)' =>
                    (Active(e) /\ req'[e] = req[e]) \/ req'[e].id = issued + 1
    BY <2>3, <2>4, <2>5 DEF Call, Active
  <2>6. QED
    BY <1>1, <2>1, <2>2, <2>5 DEF Next, LookupVendor, PutVendor, vars
<1>4. ASSUME NEW d \in DecisionRecord, True(d),
             \A c \in Callers : Active(c) => d.call # req[c].id
      PROVE  True(d)' /\ \A c \in Callers : Active(c)' => d.call # req'[c].id
  <2>1. d.call \in Nat
    BY DEF DecisionRecord
  <2>2. d.call <= issued' /\ d.call # issued + 1
    BY <1>1, <1>3, <1>4, <2>1
  <2>3. CASE ledger' = ledger
    BY <1>3, <1>4, <2>2, <2>3 DEF Paid, Settles, Liftable
  <2>4. ASSUME NEW c \in Callers, pc[c] = "ledger_write", ledger' = ledger \cup {Entry(c)}
        PROVE  True(d)'
    <3>1. Paid' = Paid \cup {req[c].id}
      <4>1. Entry(c).txn = req[c].id
        BY DEF Entry
      <4>2. QED
        BY <2>4, <4>1, PaidGrows
    <3>2. d.call # req[c].id
      BY <1>4, <2>4 DEF Active
    <3>3. QED
      BY <1>4, <2>2, <2>4, <3>1, <3>2 DEF Settles, Liftable
  <2>5. QED
    BY <1>1, <1>3, <1>4, <2>2, <2>3, <2>4, LedgerStep
<1>5. \A d \in decisions' :
         True(d)' /\ \A c \in Callers : Active(c)' => d.call # req'[c].id
  <2>1. \A d \in decisions :
           True(d)' /\ \A c \in Callers : Active(c)' => d.call # req'[c].id
    <3>1. \A d \in decisions : d \in DecisionRecord
      BY <1>1 DEF TypeOK
    <3> HIDE DEF True
    <3>2. QED
      BY <1>2, <1>4, <3>1
  <2>2. ASSUME NEW c \in Callers, NEW linked \in BOOLEAN, NEW r,
               Proceed(c), pc[c] = "decisions", pc'[c] = "idle", UNCHANGED ledger,
               r = Record(req[c].id, verdict[c], FactsToRecord(c), linked)
        PROVE  True(r)' /\ \A e \in Callers : Active(e)' => r.call # req'[e].id
    <3>1. /\ r.call = req[c].id
          /\ r.outcome = "EXECUTED" =>
               \E entry \in ledger : Settles(entry, r.call, r.facts)
          /\ r.outcome # "EXECUTED" => r.call \notin Paid
          /\ r.outcome = "PENDING_APPROVAL" => Liftable(r.facts, r.reason)
      BY <2>2, NewRecordSound
    <3>2. r.call <= issued /\ issued' = issued
      BY <1>1, <2>2, <3>1, ProceedFrame DEF IInv, CallSound, Active
    <3>3. \A e \in Callers : Active(e)' => r.call # req'[e].id
      <4>1. \A e \in Callers : e # c => UNCHANGED <<pc[e], req[e]>>
        BY <1>1, <2>2, ProceedFrame
      <4>2. QED
        BY <1>1, <2>2, <3>1, <4>1 DEF IInv, DistinctCalls, Active
    <3>4. QED
      BY <2>2, <3>1, <3>2, <3>3 DEF Paid, Settles, Liftable
  <2> HIDE DEF True
  <2>3. QED
    BY <1>1, <2>1, <2>2, DecisionStep
<1>6. QED
  BY <1>5 DEF NotYetRecorded, OutcomeMatchesLedger, EscalationIsLiftable,
              Settles, Liftable, Paid

LEMMA InitDecisionInv == Init => DecisionInv
BY InitIInv DEF Init, DecisionInv, CallReady, NotYetRecorded, OutcomeMatchesLedger,
                EscalationIsLiftable

\* DecisionInv holds initially and every step keeps it.
THEOREM DecisionInvariance == Spec => []DecisionInv
<1>1. IInv' /\ DecisionInv /\ [Next]_vars => DecisionInv'
  BY StepReady, StepRecordsSound DEF DecisionInv
<1>2. QED
  BY InitDecisionInv, Invariance, <1>1, PTL DEF Spec

\* However many threads call the enforcement point and whichever dependencies
\* raise, an executed decision has its payment, within the cap and the limit
\* and for a verified sender, and any other has none: pay_vendor's order of
\* payment and record (G2).
THEOREM RecordsAgreeWithTheLedger == Spec => []OutcomeMatchesLedger
<1>1. DecisionInv => OutcomeMatchesLedger
  BY DEF DecisionInv
<1>2. QED
  BY <1>1, DecisionInvariance, PTL

\* Only what a signature can lift is escalated: the question pay_vendor asks
\* again with humanApproved set, over the four forbids of pay.cedar.
THEOREM EscalationsAreLiftable == Spec => []EscalationIsLiftable
<1>1. DecisionInv => EscalationIsLiftable
  BY DEF DecisionInv
<1>2. QED
  BY <1>1, DecisionInvariance, PTL

-----------------------------------------------------------------------------
(* Payments are explained, where the writes that follow do not raise *)

NothingLost == {"ledger_write", "decisions"} \cap Faults = {}

LEMMA StepAudited ==
    ASSUME NothingLost, IInv, PaymentIsAudited, [Next]_vars
    PROVE  PaymentIsAudited'
<1>1. TypeOK
  BY DEF IInv
<1> DEFINE Explained(txn) ==
        \/ \E d \in decisions : d.call = txn /\ d.outcome = "EXECUTED" /\ d.linked
        \/ \E c \in Callers : pc[c] = "decisions" /\ req[c].id = txn
<1>2. CASE UNCHANGED <<ledger, decisions, pc, req>>
  BY <1>2 DEF PaymentIsAudited
<1>3. ASSUME NEW c \in Callers, Call(c) PROVE PaymentIsAudited'
  <2>1. CASE UNCHANGED <<ledger, decisions, pc, req>>
    BY <1>2, <2>1
  <2>2. ASSUME NEW vendor, NEW account, NEW amount, NEW invoice, NEW verified,
               PayVendor(c, vendor, account, amount, invoice, verified)
        PROVE  PaymentIsAudited'
    <3>1. /\ UNCHANGED <<ledger, decisions>> /\ pc[c] = "idle"
          /\ \A e \in Callers : e # c => UNCHANGED <<pc[e], req[e]>>
      BY <1>1, <2>2 DEF PayVendor, TypeOK, stores
    <3>2. QED
      BY <3>1 DEF PaymentIsAudited
  <2>3. ASSUME NEW k, NEW argument, RefuseArgument(c, k, argument)
        PROVE  UNCHANGED <<ledger, decisions, pc, req>>
    BY <2>3 DEF RefuseArgument, stores
  <2>4. QED
    BY <1>3, <2>1, <2>2, <2>3 DEF Call
<1>4. ASSUME NEW c \in Callers, Proceed(c) PROVE PaymentIsAudited'
  <2>1. /\ \A e \in Callers : e # c => UNCHANGED <<pc[e], req[e]>>
        /\ pc \in [Callers -> Stage]
    BY <1>1, <1>4, ProceedFrame DEF TypeOK
  <2>2. CASE RecordDecision(c)
    <3>1. /\ pc[c] = "decisions" /\ ledger' = ledger
          /\ decisions' = decisions \cup
               {Record(req[c].id, verdict[c], FactsToRecord(c), TRUE)}
      BY <2>2 DEF RecordDecision
    <3>2. req[c].id \in Paid => verdict[c].outcome = "EXECUTED"
      BY <3>1 DEF IInv, CallSound, Unpaid
    <3>3. ASSUME NEW entry \in ledger PROVE Explained(entry.txn)'
      <4>1. CASE entry.txn = req[c].id
        <5> DEFINE r == Record(req[c].id, verdict[c], FactsToRecord(c), TRUE)
        <5>1. r.call = req[c].id /\ r.outcome = verdict[c].outcome /\ r.linked
          BY DEF Record
        <5>2. verdict[c].outcome = "EXECUTED"
          BY <3>2, <3>3, <4>1 DEF Paid
        <5>3. r \in decisions'
          BY <3>1
        <5> HIDE DEF r
        <5>4. QED
          BY <4>1, <5>1, <5>2, <5>3
      <4>2. CASE entry.txn # req[c].id
        BY <2>1, <3>1, <3>3, <4>2 DEF PaymentIsAudited
      <4>3. QED
        BY <4>1, <4>2
    <3>4. QED
      BY <3>1, <3>3 DEF PaymentIsAudited
  <2>3. CASE Execute(c)
    <3>1. /\ pc[c] = "ledger_write" /\ pc'[c] = "decisions"
          /\ ledger' = ledger \cup {Entry(c)}
          /\ UNCHANGED <<decisions, req>>
      BY <2>1, <2>3 DEF Execute
    <3>2. Entry(c).txn = req[c].id
      BY DEF Entry
    <3>3. QED
      BY <2>1, <3>1, <3>2 DEF PaymentIsAudited
  <2>4. CASE ReadVendor(c) \/ ReadLedger(c) \/ Authorize(c) \/ Reask(c)
             \/ FailClosed(c) \/ ReaskRaises(c)
    <3>1. UNCHANGED <<ledger, decisions>> /\ pc[c] # "decisions"
      BY <2>4 DEF ReadVendor, ReadLedger, Authorize, Reask, FailClosed, ReaskRaises, stores
    <3>2. QED
      BY <2>1, <3>1 DEF PaymentIsAudited
  <2>5. ~ExecuteRaises(c) /\ ~RecordRaises(c)
    BY DEF NothingLost, ExecuteRaises, RecordRaises
  <2>6. QED
    BY <1>4, <2>2, <2>3, <2>4, <2>5 DEF Proceed
<1>5. QED
  BY <1>2, <1>3, <1>4 DEF Next, LookupVendor, PutVendor, vars

\* Where neither the payment nor the record raises, every payment has its
\* decision record and that record's edges, or the call that made it is still
\* about to write them: pay_vendor pays first and records after (G5).
THEOREM PaymentsAreExplained == ASSUME NothingLost PROVE Spec => []PaymentIsAudited
<1>1. Init => PaymentIsAudited
  BY DEF Init, PaymentIsAudited
<1>2. IInv /\ PaymentIsAudited /\ [Next]_vars => PaymentIsAudited'
  BY StepAudited
<1>3. QED
  BY <1>1, <1>2, Invariance, PTL DEF Spec
=============================================================================
