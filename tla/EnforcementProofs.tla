-------------------------- MODULE EnforcementProofs --------------------------
(* Theorems about Enforcement, for every value of its constants. *)
EXTENDS Enforcement, TLAPS

-----------------------------------------------------------------------------
(* The operators the model is built from *)

\* The highest of a set of confidentiality levels is a level.
LEMMA MaxConfidentialityType ==
    ASSUME NEW levels \in SUBSET Confidentiality
    PROVE  MaxConfidentiality(levels) \in Confidentiality
<1>1. \E top \in levels \cup {"PUBLIC"} : \A level \in levels : Rank[level] <= Rank[top]
  <2>1. CASE "CONFIDENTIAL" \in levels
    BY <2>1 DEF Confidentiality, Rank
  <2>2. CASE "CONFIDENTIAL" \notin levels /\ "INTERNAL" \in levels
    BY <2>2 DEF Confidentiality, Rank
  <2>3. CASE "CONFIDENTIAL" \notin levels /\ "INTERNAL" \notin levels
    BY <2>3 DEF Confidentiality, Rank
  <2>4. QED
    BY <2>1, <2>2, <2>3
<1>2. MaxConfidentiality(levels) \in levels \cup {"PUBLIC"}
  BY <1>1 DEF MaxConfidentiality
<1>3. QED
  BY <1>2 DEF Confidentiality

\* What extract_invoice stores is well formed.
LEMMA ExtractedType ==
    Extracted \subseteq AccountValue \cup AmountValue \cup InvoiceValue \cup VendorValue
<1>1. MaxConfidentiality({i.confidentiality : i \in {Document}}) \in Confidentiality
  <2>1. {i.confidentiality : i \in {Document}} \in SUBSET Confidentiality
    BY DEF Document, Label, Confidentiality
  <2>2. QED
    BY <2>1, MaxConfidentialityType
<1>2. JoinSources({i.sources : i \in {Document}}) \cup {"MODEL_READER"} \in SUBSET Source
  BY DEF JoinSources, Document, Label, Source
<1>3. ASSUME NEW x, NEW vtype, NEW carried, x \in carried
      PROVE  Derive(x, vtype, {Document}, {"MODEL_READER"}) \in LabelledAs(vtype, carried)
  BY <1>1, <1>2, <1>3 DEF Derive, Label, LabelledAs
<1>4. \A a \in Accounts :
         Derive(a, "ACCOUNT_NUMBER", {Document}, {"MODEL_READER"}) \in AccountValue
  BY <1>3 DEF AccountValue
<1>5. \A m \in Amounts :
         Derive(m, "MONEY_PAISE", {Document}, {"MODEL_READER"}) \in AmountValue
  BY <1>3 DEF AmountValue
<1>6. \A i \in Invoices :
         Derive(i, "INVOICE_NUMBER", {Document}, {"MODEL_READER"}) \in InvoiceValue
  BY <1>3 DEF InvoiceValue
<1>7. QED
  BY <1>4, <1>5, <1>6 DEF Extracted

\* Every denial has a reason from the list.
LEMMA ReasonForType == ASSUME NEW fired PROVE ReasonFor(fired) \in Reason
<1> DEFINE ranks == {k \in 1..Len(ReasonPrecedence) : ReasonPrecedence[k] \in fired}
           top == CHOOSE k \in ranks : \A j \in ranks : k <= j
<1>1. ranks \subseteq 1..6
  BY DEF ReasonPrecedence
<1>2. CASE ranks = {}
  BY <1>2 DEF ReasonFor, Reason
<1>3. CASE ranks # {}
  <2>1. \E k \in ranks : \A j \in ranks : k <= j
    <3>1. CASE 1 \in ranks
      BY <1>1, <3>1
    <3>2. CASE 1 \notin ranks /\ 2 \in ranks
      BY <1>1, <3>2
    <3>3. CASE 1 \notin ranks /\ 2 \notin ranks /\ 3 \in ranks
      BY <1>1, <3>3
    <3>4. CASE 1 \notin ranks /\ 2 \notin ranks /\ 3 \notin ranks /\ 4 \in ranks
      BY <1>1, <3>4
    <3>5. CASE ranks \subseteq {5, 6}
      BY <1>3, <3>5
    <3>6. 1 \in ranks \/ 2 \in ranks \/ 3 \in ranks \/ 4 \in ranks
          \/ \A k \in ranks : k \in {5, 6}
      <4> HIDE DEF ranks
      <4> QED
        BY <1>1
    <3>7. QED
      <4> HIDE DEF ranks
      <4> QED
        BY <3>1, <3>2, <3>3, <3>4, <3>5, <3>6
  <2>2. top \in ranks
    BY <2>1
  <2>3. PolicyReason[top] \in Reason
    BY <1>1, <2>2 DEF PolicyReason, Reason
  <2>4. ReasonFor(fired) = PolicyReason[top]
    BY <1>3 DEF ReasonFor
  <2>5. QED
    BY <2>3, <2>4
<1>4. QED
  BY <1>2, <1>3

\* The kinds of the run's values are told apart by their type.
LEMMA ValueKinds ==
    ASSUME NEW x \in AccountValue \cup AmountValue \cup InvoiceValue \cup VendorValue
    PROVE  /\ x.vtype = "ACCOUNT_NUMBER" => x \in AccountValue
           /\ x.vtype = "MONEY_PAISE"    => x \in AmountValue
           /\ x.vtype = "INVOICE_NUMBER" => x \in InvoiceValue
           /\ x.value \in VendorName
BY DEF AccountValue, AmountValue, InvoiceValue, VendorValue, LabelledAs, VendorName

\* The current version of a vendor's record is one of its versions.
LEMMA CurrentIsRow ==
    ASSUME TypeOK, NEW v \in Vendors
    PROVE  /\ Current(v) \in Row
           /\ Current(v).account \in Accounts
           /\ Current(v).status \in Status
           /\ Len(rows[v]) \in Nat \ {0}
<1>1. rows[v] \in Seq(Row) /\ Len(rows[v]) > 0
  BY DEF TypeOK
<1>2. Len(rows[v]) \in Nat /\ Len(rows[v]) \in 1..Len(rows[v])
  BY <1>1
<1>3. rows[v][Len(rows[v])] \in Row
  BY <1>1, <1>2
<1>4. QED
  BY <1>2, <1>3 DEF Current, Row

\* What a step may do to the calls: the caller's own is still well typed and
\* the others are as they were.
LEMMA OneCallMoves ==
    ASSUME TypeOK, NEW c \in Callers,
           NEW newPc, NEW newReq, NEW newFacts, NEW newVerdict,
           newPc \in Stage, newReq \in Request \cup {None},
           newFacts \in PaymentFacts \cup {None}, newVerdict \in Verdict \cup {None},
           pc' = [pc EXCEPT ![c] = newPc], req' = [req EXCEPT ![c] = newReq],
           facts' = [facts EXCEPT ![c] = newFacts],
           verdict' = [verdict EXCEPT ![c] = newVerdict],
           newPc # "idle" => newReq \in Request,
           newPc \in {"ledger_read", "authorizer", "ledger_write", "reask"}
               => newFacts \in PaymentFacts,
           newPc = "decisions" =>
               /\ newVerdict \in Verdict
               /\ newVerdict.reason # "ENFORCEMENT_ERROR" => newFacts \in PaymentFacts
    PROVE  /\ pc' \in [Callers -> Stage]
           /\ req' \in [Callers -> Request \cup {None}]
           /\ facts' \in [Callers -> PaymentFacts \cup {None}]
           /\ verdict' \in [Callers -> Verdict \cup {None}]
           /\ \A d \in Callers : CallTypeOK(d)'
<1>1. /\ pc' \in [Callers -> Stage]
      /\ req' \in [Callers -> Request \cup {None}]
      /\ facts' \in [Callers -> PaymentFacts \cup {None}]
      /\ verdict' \in [Callers -> Verdict \cup {None}]
  BY DEF TypeOK
<1>2. CallTypeOK(c)'
  BY DEF TypeOK, CallTypeOK
<1>3. ASSUME NEW d \in Callers, d # c PROVE CallTypeOK(d)'
  BY <1>3 DEF TypeOK, CallTypeOK
<1>4. QED
  BY <1>1, <1>2, <1>3

\* Facts read from the master are well formed.
LEMMA VendorFactsType ==
    ASSUME TypeOK, NEW r \in Request
    PROVE  /\ NoFacts(r) \in PaymentFacts
           /\ r.vendor \in Vendors => VendorFacts(r) \in PaymentFacts
<1>1. /\ r.amount \in Amounts
      /\ r.verified \in BOOLEAN
  BY DEF Request
<1>2. NoFacts(r) \in PaymentFacts
  BY <1>1 DEF NoFacts, PaymentFacts
<1>3. ASSUME r.vendor \in Vendors PROVE VendorFacts(r) \in PaymentFacts
  <2>1. Matches(r.account, Current(r.vendor)) \in BOOLEAN
    BY DEF Matches
  <2>2. Current(r.vendor).status \in Status /\ Len(rows[r.vendor]) \in Nat
    BY <1>3, CurrentIsRow
  <2>3. QED
    BY <1>1, <2>1, <2>2 DEF VendorFacts, PaymentFacts
<1>4. QED
  BY <1>2, <1>3

\* A payment under way makes a well-formed ledger entry.
LEMMA EntryType ==
    ASSUME TypeOK, NEW c \in Callers, pc[c] = "ledger_write"
    PROVE  Entry(c) \in LedgerEntry
<1>1. req[c] \in Request /\ facts[c] \in PaymentFacts
  BY DEF TypeOK, CallTypeOK
<1>2. req[c].account \in AccountValue
  BY <1>1 DEF Request
<1>3. req[c].account.value \in Accounts /\ req[c].account.sources \in SUBSET Source
  BY <1>2 DEF AccountValue, LabelledAs
<1>4. QED
  BY <1>1, <1>3 DEF Entry, LedgerEntry, Request, PaymentFacts

\* A call about to be recorded makes a well-formed decision record.
LEMMA RecordType ==
    ASSUME TypeOK, NEW c \in Callers, pc[c] = "decisions", NEW linked \in BOOLEAN
    PROVE  Record(req[c].id, verdict[c], FactsToRecord(c), linked) \in DecisionRecord
<1>1. /\ req[c] \in Request
      /\ verdict[c] \in Verdict
      /\ verdict[c].reason # "ENFORCEMENT_ERROR" => facts[c] \in PaymentFacts
  BY DEF TypeOK, CallTypeOK
<1>2. FactsToRecord(c) \in PaymentFacts \cup {None}
  BY <1>1 DEF FactsToRecord
<1>3. QED
  BY <1>1, <1>2 DEF Record, DecisionRecord, Verdict, Request

-----------------------------------------------------------------------------
(* Type correctness *)

\* What the enforcement point does with a call keeps the types.
LEMMA ProceedTypeOK ==
    ASSUME TypeOK, NEW c \in Callers, Proceed(c)
    PROVE  TypeOK'
<1> DEFINE CallsTyped ==
        /\ pc' \in [Callers -> Stage]
        /\ req' \in [Callers -> Request \cup {None}]
        /\ facts' \in [Callers -> PaymentFacts \cup {None}]
        /\ verdict' \in [Callers -> Verdict \cup {None}]
        /\ \A d \in Callers : CallTypeOK(d)'
<1>1. /\ pc \in [Callers -> Stage]
      /\ req \in [Callers -> Request \cup {None}]
      /\ facts \in [Callers -> PaymentFacts \cup {None}]
      /\ verdict \in [Callers -> Verdict \cup {None}]
      /\ CallTypeOK(c)
  BY DEF TypeOK
<1>2. ASSUME NEW status, NEW reason, Return(c, status, reason) PROVE CallsTyped
  <2>1. /\ pc' = [pc EXCEPT ![c] = "idle"]
        /\ req' = [req EXCEPT ![c] = None]
        /\ facts' = [facts EXCEPT ![c] = None]
        /\ verdict' = [verdict EXCEPT ![c] = None]
    BY <1>2 DEF Return
  <2>2. CallTypeOK(c)'
    BY <1>1, <2>1 DEF CallTypeOK
  <2>3. ASSUME NEW d \in Callers, d # c PROVE CallTypeOK(d)'
    BY <1>1, <2>1, <2>3 DEF CallTypeOK, TypeOK
  <2>4. QED
    BY <1>1, <2>1, <2>2, <2>3 DEF Stage
<1>3. ASSUME NEW stage \in Stage, NEW f, NEW v, pc[c] # "idle", stage # "idle",
             f \in PaymentFacts \cup {None}, v \in Verdict \cup {None},
             stage \in {"ledger_read", "authorizer", "ledger_write", "reask"}
                 => f \in PaymentFacts,
             stage = "decisions" => v \in Verdict /\
                 (v.reason # "ENFORCEMENT_ERROR" => f \in PaymentFacts),
             pc' = [pc EXCEPT ![c] = stage], UNCHANGED req,
             facts' = [facts EXCEPT ![c] = f], verdict' = [verdict EXCEPT ![c] = v]
      PROVE  CallsTyped
  <2>1. req' = [req EXCEPT ![c] = req[c]] /\ req[c] \in Request
    BY <1>1, <1>3 DEF CallTypeOK
  <2>2. QED
    BY <1>3, <2>1, OneCallMoves
<1>4. /\ facts = [facts EXCEPT ![c] = facts[c]]
      /\ verdict = [verdict EXCEPT ![c] = verdict[c]]
      /\ facts[c] \in PaymentFacts \cup {None}
      /\ verdict[c] \in Verdict \cup {None}
  BY <1>1
<1>5. CASE ReadVendor(c)
  <2>1. req[c] \in Request
    BY <1>1, <1>5 DEF ReadVendor, CallTypeOK
  <2>2. CASE req[c].vendor \in Vendors
    <3>1. VendorFacts(req[c]) \in PaymentFacts
      BY <2>1, <2>2, VendorFactsType
    <3>2. CallsTyped
      BY <1>3, <1>4, <1>5, <2>2, <3>1 DEF ReadVendor, Stage
    <3>3. QED
      BY <1>5, <3>2 DEF ReadVendor, stores, TypeOK
  <2>3. CASE req[c].vendor \notin Vendors
    <3>1. NoFacts(req[c]) \in PaymentFacts
      BY <2>1, VendorFactsType
    <3>2. CallsTyped
      BY <1>3, <1>4, <1>5, <2>3, <3>1 DEF ReadVendor, Stage
    <3>3. QED
      BY <1>5, <3>2 DEF ReadVendor, stores, TypeOK
  <2>4. QED
    BY <2>2, <2>3
<1>6. CASE ReadLedger(c)
  <2> DEFINE f == [facts[c] EXCEPT
                     !.isDuplicate = HasInvoice(req[c].vendor, req[c].invoice),
                     !.seen = {entry.txn : entry \in ledger}]
  <2>1. facts[c] \in PaymentFacts
    BY <1>1, <1>6 DEF ReadLedger, CallTypeOK
  <2>2. {entry.txn : entry \in ledger} \in SUBSET (1..MaxCalls)
    BY DEF TypeOK, LedgerEntry
  <2>3. HasInvoice(req[c].vendor, req[c].invoice) \in BOOLEAN
    BY DEF HasInvoice
  <2>4. f \in PaymentFacts
    BY <2>1, <2>2, <2>3 DEF PaymentFacts
  <2>5. facts' = [facts EXCEPT ![c] = f]
    BY <1>1, <1>6 DEF ReadLedger
  <2> HIDE DEF f
  <2>6. CallsTyped
    BY <1>3, <1>4, <1>6, <2>4, <2>5 DEF ReadLedger, Stage
  <2>7. QED
    BY <1>6, <2>6 DEF ReadLedger, stores, TypeOK
<1>7. CASE Authorize(c)
  <2>1. facts[c] \in PaymentFacts
    BY <1>1, <1>7 DEF Authorize, CallTypeOK
  <2>2. PICK stage \in {"ledger_write", "reask"} : pc' = [pc EXCEPT ![c] = stage]
    BY <1>7 DEF Authorize
  <2>3. CallsTyped
    BY <1>3, <1>4, <1>7, <2>1, <2>2 DEF Authorize, Stage
  <2>4. QED
    BY <1>7, <2>3 DEF Authorize, stores, TypeOK
<1>8. CASE Execute(c)
  <2>1. facts[c] \in PaymentFacts /\ Entry(c) \in LedgerEntry
    BY <1>1, <1>8, EntryType DEF Execute, CallTypeOK
  <2>2. Decided("EXECUTED", "OK") \in Verdict
    BY DEF Decided, Verdict, Outcome
  <2>3. CallsTyped
    BY <1>3, <1>4, <1>8, <2>1, <2>2 DEF Execute, Stage
  <2>4. QED
    BY <1>8, <2>1, <2>3 DEF Execute, TypeOK
<1>9. CASE Reask(c)
  <2> DEFINE v == Decided(IF PayAllowed(Context(c, TRUE))
                          THEN "PENDING_APPROVAL" ELSE "DENIED",
                          ReasonFor(PayForbids(Context(c, FALSE))))
  <2>1. facts[c] \in PaymentFacts
    BY <1>1, <1>9 DEF Reask, CallTypeOK
  <2>2. v \in Verdict
    BY ReasonForType DEF Decided, Verdict, Outcome
  <2>3. verdict' = [verdict EXCEPT ![c] = v]
    BY <1>9 DEF Reask
  <2> HIDE DEF v
  <2>4. CallsTyped
    BY <1>3, <1>4, <1>9, <2>1, <2>2, <2>3 DEF Reask, Stage
  <2>5. QED
    BY <1>9, <2>4 DEF Reask, stores, TypeOK
<1>10. CASE RecordDecision(c)
  <2>1. Record(req[c].id, verdict[c], FactsToRecord(c), TRUE) \in DecisionRecord
    BY <1>10, RecordType DEF RecordDecision
  <2>2. CallsTyped
    BY <1>2, <1>10 DEF RecordDecision
  <2>3. QED
    BY <1>10, <2>1, <2>2 DEF RecordDecision, TypeOK
<1>11. CASE FailClosed(c)
  <2>1. Decided("DENIED", "ENFORCEMENT_ERROR") \in Verdict
    BY DEF Decided, Verdict, Outcome
  <2>2. Decided("DENIED", "ENFORCEMENT_ERROR").reason = "ENFORCEMENT_ERROR"
    BY DEF Decided
  <2>3. CallsTyped
    BY <1>3, <1>4, <1>11, <2>1, <2>2 DEF FailClosed, Stage
  <2>4. QED
    BY <1>11, <2>3 DEF FailClosed, stores, TypeOK
<1>12. CASE ReaskRaises(c)
  BY <1>2, <1>12 DEF ReaskRaises, stores, TypeOK
<1>13. CASE ExecuteRaises(c)
  <2>1. ledger' \subseteq LedgerEntry
    BY <1>13, EntryType DEF ExecuteRaises, TypeOK
  <2>2. QED
    BY <1>2, <1>13, <2>1 DEF ExecuteRaises, TypeOK
<1>14. CASE RecordRaises(c)
  <2>1. Record(req[c].id, verdict[c], FactsToRecord(c), FALSE) \in DecisionRecord
    BY <1>14, RecordType DEF RecordRaises
  <2>2. decisions' \subseteq DecisionRecord
    BY <1>14, <2>1 DEF RecordRaises, TypeOK
  <2>3. QED
    BY <1>2, <1>14, <2>2 DEF RecordRaises, TypeOK
<1>15. QED
  BY <1>5, <1>6, <1>7, <1>8, <1>9, <1>10, <1>11, <1>12, <1>13, <1>14 DEF Proceed

\* The specification is well typed from its first state.
LEMMA InitTypeOK == Init => TypeOK
<1> SUFFICES ASSUME Init PROVE TypeOK
  OBVIOUS
<1>1. rows \in [Vendors -> Seq(Row)] /\ \A v \in Vendors : Len(rows[v]) > 0
  <2>1. ASSUME NEW row \in Row PROVE <<row>> \in Seq(Row)
    OBVIOUS
  <2>2. rows \in [Vendors -> {<<row>> : row \in Row}]
    BY DEF Init
  <2>3. ASSUME NEW v \in Vendors PROVE rows[v] \in Seq(Row) /\ Len(rows[v]) = 1
    <3>1. PICK row \in Row : rows[v] = <<row>>
      BY <2>2
    <3>2. QED
      BY <2>1, <3>1
  <2>4. rows = [v \in Vendors |-> rows[v]]
    BY <2>2
  <2>5. [v \in Vendors |-> rows[v]] \in [Vendors -> Seq(Row)]
    BY <2>3, Zenon
  <2>6. rows \in [Vendors -> Seq(Row)]
    BY <2>4, <2>5, Zenon
  <2>7. \A v \in Vendors : Len(rows[v]) > 0
    BY <2>3
  <2>8. QED
    BY <2>6, <2>7
<1>2. values \subseteq AccountValue \cup AmountValue \cup InvoiceValue \cup VendorValue
  BY ExtractedType DEF Init
<1>3. issued \in 0..MaxCalls
  BY LimitsAssumption DEF Init
<1>4. \A c \in Callers : CallTypeOK(c)
  BY DEF Init, CallTypeOK
<1>5. QED
  BY <1>1, <1>2, <1>3, <1>4 DEF Init, TypeOK, Stage

\* Every step of the run, the company or a call keeps the types.
LEMMA StepTypeOK == TypeOK /\ [Next]_vars => TypeOK'
<1> SUFFICES ASSUME TypeOK, [Next]_vars PROVE TypeOK'
  OBVIOUS
<1>1. CASE UNCHANGED vars
  BY <1>1 DEF TypeOK, CallTypeOK, vars
<1>2. ASSUME NEW v \in Vendors, LookupVendor(v) PROVE TypeOK'
  <2>1. Label(v, "ENUM", {"COMPANY_DB"}, "INTERNAL") \in VendorValue
    BY DEF Label, VendorValue, LabelledAs, Source, Confidentiality
  <2>2. Label(Current(v).account, "ACCOUNT_NUMBER", {"COMPANY_DB"}, "CONFIDENTIAL")
            \in AccountValue
    BY CurrentIsRow DEF Label, AccountValue, LabelledAs, Source, Confidentiality
  <2>3. QED
    BY <1>2, <2>1, <2>2 DEF LookupVendor, TypeOK, CallTypeOK
<1>3. ASSUME NEW v \in Vendors, PutVendor(v) PROVE TypeOK'
  <2>1. PICK row \in Row : rows' = [rows EXCEPT ![v] = Append(@, row)]
    BY <1>3 DEF PutVendor
  <2>2. rows' \in [Vendors -> Seq(Row)] /\ \A u \in Vendors : Len(rows'[u]) > 0
    BY <2>1 DEF TypeOK
  <2>3. QED
    BY <1>3, <2>2 DEF PutVendor, TypeOK, CallTypeOK
<1>4. ASSUME NEW c \in Callers, NEW k \in 1..Len(Slots),
             NEW argument \in values \cup {NotAHandle, NoSuchHandle},
             RefuseArgument(c, k, argument)
      PROVE  TypeOK'
  <2>1. issued' \in 0..MaxCalls
    BY <1>4, LimitsAssumption DEF RefuseArgument, TypeOK
  <2>2. QED
    BY <1>4, <2>1 DEF RefuseArgument, TypeOK, CallTypeOK, stores
<1>5. ASSUME NEW c \in Callers, NEW vendor \in values,
             NEW account \in OfType("ACCOUNT_NUMBER"),
             NEW amount \in OfType("MONEY_PAISE"),
             NEW invoice \in OfType("INVOICE_NUMBER"), NEW verified \in BOOLEAN,
             PayVendor(c, vendor, account, amount, invoice, verified)
      PROVE  TypeOK'
  <2> DEFINE call == [id |-> issued + 1, vendor |-> vendor.value, account |-> account,
                      amount |-> amount.value, invoice |-> invoice.value,
                      verified |-> verified,
                      begun |-> IF vendor.value \in Vendors
                                THEN Len(rows[vendor.value]) ELSE 0]
  <2>1. issued + 1 \in 1..MaxCalls /\ issued' \in 0..MaxCalls
    BY <1>5, LimitsAssumption DEF PayVendor, TypeOK
  <2>2. /\ vendor.value \in VendorName
        /\ account \in AccountValue
        /\ amount.value \in Amounts
        /\ invoice.value \in Invoices
    BY ValueKinds DEF TypeOK, OfType, AmountValue, InvoiceValue, LabelledAs
  <2>3. (IF vendor.value \in Vendors THEN Len(rows[vendor.value]) ELSE 0) \in Nat
    BY CurrentIsRow
  <2>4. call \in Request
    BY <2>1, <2>2, <2>3 DEF Request
  <2>5. /\ pc' = [pc EXCEPT ![c] = "vendors"]
        /\ req' = [req EXCEPT ![c] = call]
        /\ facts' = [facts EXCEPT ![c] = facts[c]]
        /\ verdict' = [verdict EXCEPT ![c] = verdict[c]]
    BY <1>5 DEF PayVendor, TypeOK
  <2>6. facts[c] \in PaymentFacts \cup {None} /\ verdict[c] \in Verdict \cup {None}
    BY DEF TypeOK
  <2> HIDE DEF call
  <2>7. /\ pc' \in [Callers -> Stage]
        /\ req' \in [Callers -> Request \cup {None}]
        /\ facts' \in [Callers -> PaymentFacts \cup {None}]
        /\ verdict' \in [Callers -> Verdict \cup {None}]
        /\ \A d \in Callers : CallTypeOK(d)'
    <3>1. "vendors" \in Stage /\ "vendors" # "idle" /\ call \in Request \cup {None}
      BY <2>4 DEF Stage
    <3>2. QED
      BY <2>4, <2>5, <2>6, <3>1, OneCallMoves
  <2>8. QED
    BY <1>5, <2>1, <2>7 DEF PayVendor, stores, TypeOK
<1>6. ASSUME NEW c \in Callers, Proceed(c) PROVE TypeOK'
  BY <1>6, ProceedTypeOK
<1>7. QED
  BY <1>1, <1>2, <1>3, <1>4, <1>5, <1>6 DEF Next, Call

\* TypeOK holds of every behaviour: in particular a call always holds what its
\* next step uses, whichever dependencies raised before it.
THEOREM TypeCorrect == Spec => []TypeOK
<1>1. QED
  BY InitTypeOK, StepTypeOK, PTL DEF Spec
=============================================================================
