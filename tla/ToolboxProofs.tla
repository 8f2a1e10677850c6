---------------------------- MODULE ToolboxProofs ----------------------------
(* Theorems about Toolbox, for every value of its constants. *)
EXTENDS Toolbox, TLAPS

-----------------------------------------------------------------------------
(* What the label algebra and the policies give. *)

\* The level chosen is one of those there are, and none is above it.
LEMMA TopLevel ==
    ASSUME NEW levels \in SUBSET Confidentiality
    PROVE  /\ MaxConfidentiality(levels) \in Confidentiality
           /\ "CONFIDENTIAL" \in levels => MaxConfidentiality(levels) = "CONFIDENTIAL"
<1>. DEFINE S == levels \cup {"PUBLIC"}
            IsTop(top) == \A level \in levels : Rank[level] <= Rank[top]
<1>1. \E top \in S : IsTop(top)
  <2>1. CASE "CONFIDENTIAL" \in S
    BY <2>1 DEF Confidentiality, Rank
  <2>2. CASE "CONFIDENTIAL" \notin S /\ "INTERNAL" \in S
    BY <2>2 DEF Confidentiality, Rank
  <2>3. CASE "CONFIDENTIAL" \notin S /\ "INTERNAL" \notin S
    BY <2>3 DEF Confidentiality, Rank
  <2>. QED
    BY <2>1, <2>2, <2>3
<1>2. MaxConfidentiality(levels) \in S /\ IsTop(MaxConfidentiality(levels))
  BY <1>1 DEF MaxConfidentiality
<1>3. "CONFIDENTIAL" \in levels => MaxConfidentiality(levels) = "CONFIDENTIAL"
  <2>1. "CONFIDENTIAL" \in levels => Rank["CONFIDENTIAL"] <= Rank[MaxConfidentiality(levels)]
    BY <1>2
  <2>2. MaxConfidentiality(levels) \in Confidentiality
    BY <1>2 DEF Confidentiality
  <2>. HIDE DEF S, IsTop
  <2>. QED
    BY <2>1, <2>2 DEF Confidentiality, Rank
<1>. QED
  BY <1>2, <1>3 DEF Confidentiality

\* A value read off another has its parent's secrets, at its parent's level or
\* above, and a reader among its sources.
LEMMA ReadOffLabel ==
    ASSUME NEW source, NEW field, NEW string,
           source.label.confidentiality \in Confidentiality,
           source.label.sources \in SUBSET Source
    PROVE  LET read == ReadOff(source, field, string)
           IN  /\ read.roots = source.roots
               /\ read.label.sources \in SUBSET Source
               /\ ~Trusted(read.label)
               /\ read.label.confidentiality \in Confidentiality
               /\ source.label.confidentiality = "CONFIDENTIAL" =>
                      read.label.confidentiality = "CONFIDENTIAL"
<1>. DEFINE read == ReadOff(source, field, string)
<1>1. /\ read.roots = source.roots
      /\ read.label.sources = source.label.sources \cup {"MODEL_READER"}
      /\ read.label.confidentiality = MaxConfidentiality({source.label.confidentiality})
  <2>1. {i.confidentiality : i \in {source.label}} = {source.label.confidentiality}
    OBVIOUS
  <2>2. UNION {i.sources : i \in {source.label}} = source.label.sources
    OBVIOUS
  <2>. QED
    BY <2>1, <2>2 DEF ReadOff, Stored, Derive, Label, JoinSources
<1>2. ~Trusted(read.label)
  BY <1>1 DEF Trusted, IsTrusted, TrustedSources
<1>3. read.label.sources \in SUBSET Source
  BY <1>1 DEF Source
<1>4. {source.label.confidentiality} \in SUBSET Confidentiality
  OBVIOUS
<1>. QED
  BY <1>1, <1>2, <1>3, <1>4, TopLevel

\* An e-mail goes through to an outside address only if nothing it carries,
\* and not the template, is confidential.
LEMMA SentOutsideIsNotConfidential ==
    ASSUME NEW recipient, NEW labels, NEW template \in Confidentiality,
           \A a \in labels : a.confidentiality \in Confidentiality,
           JudgeEmail(EmailContext(recipient, EmailFacts(recipient, labels, template))).outcome = "EXECUTED",
           recipient.value \notin Internal
    PROVE  \A a \in labels : a.confidentiality # "CONFIDENTIAL"
<1>. DEFINE context == EmailContext(recipient, EmailFacts(recipient, labels, template))
            levels == {template} \cup {a.confidentiality : a \in labels}
<1>1. EmailAllowed(context)
  BY DEF JudgeEmail, Judged
<1>2. EmailForbids(context) = {}
  BY <1>1 DEF EmailAllowed
<1>3. context.bodyConfidentiality # "CONFIDENTIAL" \/ context.isInternal
  BY <1>2 DEF EmailForbids
<1>4. context.bodyConfidentiality = MaxConfidentiality(levels) /\ ~context.isInternal
  BY DEF EmailContext, EmailFacts
<1>5. levels \in SUBSET Confidentiality
  OBVIOUS
<1>6. "CONFIDENTIAL" \notin levels
  BY <1>3, <1>4, <1>5, TopLevel
<1>. QED
  BY <1>6

\* A payment goes through only to the digits on file, and only from a value
\* whose every source is the company's.
LEMMA PaidIsOnFile ==
    ASSUME NEW vendor, NEW account, NEW amount, NEW verified, NEW paidBefore,
           JudgePayment(PaymentContext(vendor, account, amount, verified, paidBefore)).outcome
               = "EXECUTED"
    PROVE  Trusted(account) /\ account.value = VendorMaster[vendor].account
<1>. DEFINE context == PaymentContext(vendor, account, amount, verified, paidBefore)
<1>1. PayAllowed(context)
  BY DEF JudgePayment, Judged
<1>2. PayForbids(context) = {}
  BY <1>1 DEF PayAllowed
<1>3. context.accountTrusted /\ context.accountMatches
  BY <1>2 DEF PayForbids
<1>4. /\ context.accountTrusted = Trusted(account)
      /\ context.accountMatches =
            (account.value = VendorMaster[vendor].account /\ Trusted(account))
  BY DEF PaymentContext
<1>. QED
  BY <1>3, <1>4

\* The answer is one of three.
LEMMA AnswerType ==
    ASSUME NEW context
    PROVE  /\ JudgePayment(context).outcome \in {"EXECUTED", "PENDING_APPROVAL", "DENIED"}
           /\ JudgeEmail(context).outcome \in {"EXECUTED", "PENDING_APPROVAL", "DENIED"}
BY DEF JudgePayment, JudgeEmail, Judged

-----------------------------------------------------------------------------
(* The inductive invariant.  The label is all the code has to go by: the   *)
(* invariant says that it tells of every secret, and that a trusted        *)
(* account number is the record itself.                                    *)

ValueOK(v) ==
    /\ v.label.vtype \in ValueType
    /\ v.label.sources \in SUBSET Source
    /\ v.label.confidentiality \in Confidentiality
    /\ v.label.vtype = "MONEY_PAISE" => v.label.value \in Nat
    /\ v.roots \in SUBSET Root
    /\ v.roots \cap Secret # {} => v.label.confidentiality = "CONFIDENTIAL"
    /\ Trusted(v.label) /\ v.label.vtype = "ACCOUNT_NUMBER" => v.roots = {"account"}

CallsOK ==
    /\ calls \in 0..(Budget + 1)
    /\ late \in BOOLEAN
    /\ recorded \in Nat
    /\ recorded <= calls
    /\ recorded <= Budget

DecisionsOK ==
    /\ attempts \subseteq {"EXECUTED", "PENDING_APPROVAL", "DENIED"}
    /\ \A decision \in decisions :
          /\ decision.tool \in {"pay_vendor", "send_email"}
          /\ decision.outcome \in {"EXECUTED", "PENDING_APPROVAL", "DENIED"}
          /\ decision.tool = "pay_vendor" => decision.outcome \in attempts

IInv ==
    /\ \A v \in values : ValueOK(v)
    /\ CallsOK
    /\ DecisionsOK
    /\ NothingConfidentialLeaves
    /\ PaidAccountIsTheRecord

\* The invariant gives every property of the runs.
LEMMA InvariantImplies ==
    IInv => TypeOK /\ NothingConfidentialLeaves /\ PaidAccountIsTheRecord
            /\ ConsequencesWithinBudget
BY DEF IInv, ValueOK, CallsOK, DecisionsOK, TypeOK, ConsequencesWithinBudget

LEMMA BudgetIsNatural == Budget \in Nat
BY Zenon, ToolboxAssumption

\* It holds when an episode starts.
LEMMA InitInvariant == Init => IInv
<1>. SUFFICES ASSUME Init PROVE IInv
  OBVIOUS
<1>1. CallsOK
  <2>1. calls = 0 /\ recorded = 0 /\ late \in BOOLEAN
    BY DEF Init
  <2>. QED
    BY <2>1, BudgetIsNatural DEF CallsOK
<1>2. DecisionsOK
  BY DEF Init, DecisionsOK
<1>3. NothingConfidentialLeaves /\ PaidAccountIsTheRecord
  BY DEF Init, NothingConfidentialLeaves, PaidAccountIsTheRecord, Executed
<1>. QED
  BY <1>1, <1>2, <1>3 DEF Init, IInv

\* A call that is paid for leaves room for one more decision.
LEMMA ChargeBudget ==
    ASSUME CallsOK, Charge
    PROVE  /\ calls' \in 0..(Budget + 1) /\ late' \in BOOLEAN
           /\ recorded + 1 <= calls' /\ recorded + 1 <= Budget
BY ToolboxAssumption DEF CallsOK, Charge, Affords

\* A tool that only stores values keeps the invariant if the values are well
\* labelled.
LEMMA StoreInvariant ==
    ASSUME IInv, NEW new, Store(new), \A v \in new : ValueOK(v), CallsOK'
    PROVE  IInv'
<1>1. \A v \in values' : ValueOK(v)
  BY DEF IInv, Store
<1>2. UNCHANGED <<decisions, recorded, ledger, attempts>>
  BY DEF Store, stores
<1>. QED
  BY <1>1, <1>2
     DEF IInv, DecisionsOK, NothingConfidentialLeaves, PaidAccountIsTheRecord, Executed

\* The same for a tool that costs a call and records nothing.
LEMMA ChargedCallsOK ==
    ASSUME CallsOK, Charge, UNCHANGED recorded
    PROVE  CallsOK'
BY ChargeBudget, ToolboxAssumption DEF CallsOK

-----------------------------------------------------------------------------
(* One lemma for each tool that stores values. *)

\* An entry of the inbox is the system's.
LEMMA ListInboxInvariant == ASSUME IInv, ListInbox PROVE IInv'
<1>1. \A message \in Messages : ValueOK(Entry(message))
  BY DEF ValueOK, Entry, Stored, Label, ValueType, Source, Confidentiality, Root, Secret
<1>2. CallsOK'
  BY DEF IInv, CallsOK, ListInbox, Store, stores
<1>. QED
  BY <1>1, <1>2, StoreInvariant DEF ListInbox

\* A message and its sender's domain come from outside.
LEMMA ReadEmailInvariant == ASSUME IInv, ReadEmail PROVE IInv'
<1>1. PICK message \in Messages :
          Store({Stored(Label(message, "FREE_TEXT", IngestSources(Content[message]), "INTERNAL"),
                        {"message"}),
                 Stored(Label(Content[message].domain, "DOMAIN", {"EXTERNAL_EMAIL"}, "INTERNAL"),
                        {"message"})})
  BY DEF ReadEmail
<1>2. IngestSources(Content[message]) \in SUBSET Source
  BY DEF IngestSources, Source
<1>3. ValueOK(Stored(Label(message, "FREE_TEXT", IngestSources(Content[message]), "INTERNAL"),
                     {"message"}))
  BY <1>2 DEF ValueOK, Stored, Label, ValueType, Confidentiality, Root, Secret
<1>4. ValueOK(Stored(Label(Content[message].domain, "DOMAIN", {"EXTERNAL_EMAIL"}, "INTERNAL"),
                     {"message"}))
  BY DEF ValueOK, Stored, Label, ValueType, Source, Confidentiality, Root, Secret
<1>5. CallsOK'
  BY <1>1, ChargedCallsOK DEF IInv, ReadEmail, Store, stores
<1>. QED
  BY <1>1, <1>3, <1>4, <1>5, StoreInvariant

\* What the reader returns is labelled by what it was given.
LEMMA ExtractInvoiceInvariant == ASSUME IInv, ExtractInvoice PROVE IInv'
<1>1. PICK source \in values, extraction \in Extractions :
          Store({ReadOff(source, field, extraction[field]) :
                     field \in {f \in DOMAIN extraction : Survives(source, extraction, f)}})
  BY DEF ExtractInvoice
<1>2. ASSUME NEW field \in DOMAIN extraction, Survives(source, extraction, field)
      PROVE  ValueOK(ReadOff(source, field, extraction[field]))
  <2>. DEFINE read == ReadOff(source, field, extraction[field])
  <2>1. ValueOK(source)
    BY DEF IInv
  <2>2. /\ read.roots = source.roots
        /\ read.label.sources \in SUBSET Source
        /\ ~Trusted(read.label)
        /\ read.label.confidentiality \in Confidentiality
        /\ source.label.confidentiality = "CONFIDENTIAL" =>
               read.label.confidentiality = "CONFIDENTIAL"
    BY <2>1, ReadOffLabel DEF ValueOK
  <2>3. field \in ExtractedField
    BY ToolboxAssumption
  <2>4. /\ read.label.vtype = ExtractedType(field)
        /\ read.label.value = IF field = "amount" THEN Paise[extraction[field]]
                              ELSE extraction[field]
    BY DEF ReadOff, Stored, Derive, Label
  <2>5. /\ ExtractedType(field) \in ValueType
        /\ ExtractedType(field) = "MONEY_PAISE" => field = "amount"
    BY <2>3 DEF ExtractedType, ExtractedField, Field, FieldType, ValueType
  <2>6. field = "amount" => Paise[extraction[field]] \in Nat
    BY <1>2, ToolboxAssumption DEF Survives
  <2>. QED
    BY <2>1, <2>2, <2>4, <2>5, <2>6 DEF ValueOK
<1>3. CallsOK'
  BY <1>1, ChargedCallsOK DEF IInv, ExtractInvoice, Store, stores
<1>. QED
  BY <1>1, <1>2, <1>3, StoreInvariant

\* The record of a vendor is the company's, its account confidential.
LEMMA LookupVendorInvariant == ASSUME IInv, LookupVendor PROVE IInv'
<1>1. PICK gstin \in values :
          Store(UNION {OnFile(vendor) :
                    vendor \in {v \in Vendors : VendorMaster[v].gstin = gstin.label.value}})
  BY DEF LookupVendor
<1>2. ASSUME NEW vendor \in Vendors
      PROVE  \A v \in OnFile(vendor) : ValueOK(v)
  BY DEF OnFile, ValueOK, Stored, Label, ValueType, Source, Confidentiality, Root, Secret
<1>3. CallsOK'
  BY <1>1, ChargedCallsOK DEF IInv, LookupVendor, Store, stores
<1>. QED
  BY <1>1, <1>2, <1>3, StoreInvariant

\* The export is confidential.
LEMMA ExportInvariant == ASSUME IInv, ExportVendorMaster PROVE IInv'
<1>1. ValueOK(Stored(Label(None, "DOCUMENT", {"COMPANY_DB"}, "CONFIDENTIAL"), {"export"}))
  BY DEF ValueOK, Stored, Label, ValueType, Source, Confidentiality, Root, Secret
<1>2. CallsOK'
  BY DEF IInv, CallsOK, ExportVendorMaster, Store, stores
<1>. QED
  BY <1>1, <1>2, StoreInvariant DEF ExportVendorMaster

-----------------------------------------------------------------------------
(* The consequential tools. *)

\* What is settled was trusted, and a trusted account number is the record.
LEMMA PayVendorInvariant == ASSUME IInv, PayVendor PROVE IInv'
<1>1. PICK vendor \in values, account \in values, amount \in values, invoice \in values,
           verified \in BOOLEAN :
          LET judged == AnswerPayment(vendor, account, amount, invoice, verified)
          IN  /\ WellTyped(account, amount, invoice)
              /\ Record("pay_vendor", judged,
                        [vendor |-> vendor.label.value, account |-> account.label.value,
                         roots |-> account.roots])
              /\ Settle(judged, [vendor |-> vendor.label.value, invoice |-> invoice.label.value,
                                 amount |-> amount.label.value])
  BY Zenon DEF PayVendor
<1>. DEFINE answer == AnswerPayment(vendor, account, amount, invoice, verified)
            new == [tool |-> "pay_vendor", outcome |-> answer.outcome, reason |-> answer.reason,
                    facts |-> [vendor |-> vendor.label.value, account |-> account.label.value,
                               roots |-> account.roots]]
<1>2. decisions' = decisions \cup {new} /\ recorded' = recorded + 1 /\ values' = values
  BY <1>1 DEF Record, PayVendor
<1>3. answer.outcome \in {"EXECUTED", "PENDING_APPROVAL", "DENIED"}
  BY AnswerType DEF AnswerPayment, Judged
<1>4. new.outcome = "EXECUTED" =>
          /\ new.facts.roots = {"account"}
          /\ new.facts.account = VendorMaster[new.facts.vendor].account
  <2>. SUFFICES ASSUME answer.outcome = "EXECUTED"
                PROVE  /\ account.roots = {"account"}
                       /\ account.label.value = VendorMaster[vendor.label.value].account
    OBVIOUS
  <2>1. vendor.label.value \in Vendors
    BY DEF AnswerPayment, Judged
  <2>2. /\ Trusted(account.label)
        /\ account.label.value = VendorMaster[vendor.label.value].account
    BY <2>1, PaidIsOnFile DEF AnswerPayment
  <2>3. ValueOK(account) /\ account.label.vtype = "ACCOUNT_NUMBER"
    BY <1>1 DEF IInv, WellTyped
  <2>. QED
    BY <2>2, <2>3 DEF ValueOK
<1>5. CallsOK'
  BY <1>2, ChargeBudget DEF IInv, CallsOK, PayVendor
<1>6. DecisionsOK'
  <2>1. attempts' = attempts \cup {answer.outcome}
    BY <1>1 DEF Settle
  <2>2. new.tool = "pay_vendor" /\ new.outcome = answer.outcome
    OBVIOUS
  <2>. HIDE DEF answer, new
  <2>. QED
    BY <1>2, <1>3, <2>1, <2>2 DEF IInv, DecisionsOK
<1>7. NothingConfidentialLeaves'
  BY <1>2 DEF IInv, NothingConfidentialLeaves, Executed
<1>8. PaidAccountIsTheRecord'
  BY <1>2, <1>4 DEF IInv, PaidAccountIsTheRecord, Executed
<1>. QED
  BY <1>2, <1>5, <1>6, <1>7, <1>8 DEF IInv

\* What is sent outside carries no confidential value, hence no secret.
LEMMA SendEmailInvariant == ASSUME IInv, SendEmail PROVE IInv'
<1>1. PICK recipient \in values, attachments \in SUBSET values :
          Record("send_email",
                 JudgeEmail(EmailContext(recipient.label,
                     EmailFacts(recipient.label, {a.label : a \in attachments},
                                TemplateLevel(attachments)))),
                 [outside |-> recipient.label.value \notin Internal,
                  carries |-> (UNION {a.roots : a \in attachments}) \cap Secret])
  BY DEF SendEmail
<1>. DEFINE labels == {a.label : a \in attachments}
            answer == JudgeEmail(EmailContext(recipient.label,
                          EmailFacts(recipient.label, labels, TemplateLevel(attachments))))
            new == [tool |-> "send_email", outcome |-> answer.outcome, reason |-> answer.reason,
                    facts |-> [outside |-> recipient.label.value \notin Internal,
                               carries |-> (UNION {a.roots : a \in attachments}) \cap Secret]]
<1>2. /\ decisions' = decisions \cup {new} /\ recorded' = recorded + 1
      /\ values' = values /\ attempts' = attempts
  BY <1>1 DEF Record, SendEmail
<1>3. answer.outcome \in {"EXECUTED", "PENDING_APPROVAL", "DENIED"}
  BY AnswerType
<1>4. new.outcome = "EXECUTED" /\ new.facts.outside => new.facts.carries = {}
  <2>. SUFFICES ASSUME answer.outcome = "EXECUTED", recipient.label.value \notin Internal
                PROVE  (UNION {a.roots : a \in attachments}) \cap Secret = {}
    OBVIOUS
  <2>1. \A a \in attachments : ValueOK(a)
    BY DEF IInv
  <2>2. \A l \in labels : l.confidentiality \in Confidentiality
    BY <2>1 DEF ValueOK
  <2>3. TemplateLevel(attachments) \in Confidentiality
    BY DEF TemplateLevel, Confidentiality
  <2>4. \A l \in labels : l.confidentiality # "CONFIDENTIAL"
    BY <2>2, <2>3, SentOutsideIsNotConfidential
  <2>5. \A a \in attachments : a.roots \cap Secret = {}
    BY <2>1, <2>4 DEF ValueOK
  <2>. QED
    BY <2>5
<1>5. CallsOK'
  BY <1>2, ChargeBudget DEF IInv, CallsOK, SendEmail
<1>6. DecisionsOK'
  BY <1>2, <1>3 DEF IInv, DecisionsOK
<1>7. NothingConfidentialLeaves'
  BY <1>2, <1>4 DEF IInv, NothingConfidentialLeaves, Executed
<1>8. PaidAccountIsTheRecord'
  BY <1>2 DEF IInv, PaidAccountIsTheRecord, Executed
<1>. QED
  BY <1>2, <1>5, <1>6, <1>7, <1>8 DEF IInv

\* What fails closed is one more denial.
LEMMA FailClosedInvariant == ASSUME IInv, FailClosed PROVE IInv'
<1>1. PICK tool \in {"pay_vendor", "send_email"} :
          /\ Record(tool, Judged("DENIED", "ENFORCEMENT_ERROR"), None)
          /\ attempts' = attempts \cup (IF tool = "pay_vendor" THEN {"DENIED"} ELSE {})
  BY DEF FailClosed
<1>. DEFINE new == [tool |-> tool, outcome |-> "DENIED", reason |-> "ENFORCEMENT_ERROR",
                    facts |-> None]
<1>2. decisions' = decisions \cup {new} /\ recorded' = recorded + 1 /\ values' = values
  BY <1>1 DEF Record, Judged, FailClosed
<1>3. CallsOK'
  BY <1>2, ChargeBudget DEF IInv, CallsOK, FailClosed
<1>4. DecisionsOK'
  BY <1>1, <1>2 DEF IInv, DecisionsOK
<1>5. NothingConfidentialLeaves' /\ PaidAccountIsTheRecord'
  BY <1>2 DEF IInv, NothingConfidentialLeaves, PaidAccountIsTheRecord, Executed
<1>. QED
  BY <1>2, <1>3, <1>4, <1>5 DEF IInv

-----------------------------------------------------------------------------
(* Every step. *)

\* The other actions leave values and decisions alone.
LEMMA QuietInvariant ==
    ASSUME IInv, UNCHANGED <<values, decisions, recorded>>, attempts \subseteq attempts',
           attempts' \subseteq attempts \cup {"DENIED"}, CallsOK'
    PROVE  IInv'
BY DEF IInv, DecisionsOK, NothingConfidentialLeaves, PaidAccountIsTheRecord, Executed

\* Every step of a planner keeps the invariant.
LEMMA StepInvariant == IInv /\ [Next]_vars => IInv'
<1>. SUFFICES ASSUME IInv, [Next]_vars PROVE IInv'
  OBVIOUS
<1>1. CASE RefuseCall
  <2>1. UNCHANGED <<values, decisions, recorded, attempts>>
    BY <1>1 DEF RefuseCall, stores
  <2>2. CallsOK'
    BY <1>1, <2>1, ToolboxAssumption DEF IInv, CallsOK, RefuseCall
  <2>. QED
    BY <2>1, <2>2, QuietInvariant
<1>2. CASE DeadlinePasses
  <2>1. UNCHANGED <<values, decisions, recorded, attempts>>
    BY <1>2 DEF DeadlinePasses, stores
  <2>2. CallsOK'
    BY <1>2, <2>1 DEF IInv, CallsOK, DeadlinePasses
  <2>. QED
    BY <2>1, <2>2, QuietInvariant
<1>3. CASE RefuseArguments
  <2>1. CallsOK'
    BY <1>3, ChargedCallsOK DEF IInv, RefuseArguments
  <2>. QED
    BY <1>3, <2>1, QuietInvariant DEF RefuseArguments
<1>4. CASE UNCHANGED vars
  <2>1. UNCHANGED <<values, decisions, recorded, attempts, calls, late>>
    BY <1>4 DEF vars, stores
  <2>2. CallsOK'
    BY <2>1 DEF IInv, CallsOK
  <2>. QED
    BY <2>1, <2>2, QuietInvariant
<1>. QED
  BY <1>1, <1>2, <1>3, <1>4, ListInboxInvariant, ReadEmailInvariant, ExtractInvoiceInvariant,
     LookupVendorInvariant, ExportInvariant, PayVendorInvariant, SendEmailInvariant,
     FailClosedInvariant
     DEF Next

\* The strengthened invariant holds throughout.
THEOREM Invariant == Spec => []IInv
BY InitInvariant, StepInvariant, PTL DEF Spec

\* Every value the tools store, and every decision, has its type, whatever
\* the planner calls and the reader answers.
THEOREM ToolboxTypes == Spec => []TypeOK
BY Invariant, InvariantImplies, PTL

\* Nothing computed from an export or from an account on file leaves in an
\* e-mail to an outside address, for any inbox, any reader and any sequence
\* of tool calls.
THEOREM NothingConfidentialLeavesAlways == Spec => []NothingConfidentialLeaves
BY Invariant, InvariantImplies, PTL

\* Every payment made went to the account the vendor master holds, from the
\* record itself and not from a reading of it.
THEOREM PaidAccountIsTheRecordAlways == Spec => []PaidAccountIsTheRecord
BY Invariant, InvariantImplies, PTL

\* The budget bounds what reaches the enforcement point, and every payment
\* decided is among the attempts.
THEOREM ConsequencesWithinBudgetAlways == Spec => []ConsequencesWithinBudget
BY Invariant, InvariantImplies, PTL
=============================================================================
