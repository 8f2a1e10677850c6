------------------------------ MODULE Toolbox -------------------------------
(***************************************************************************)
(* The tools of application/agent_tools.py in the hands of a planner that  *)
(* may call any of them, in any order, with any handle it holds, and of a  *)
(* reader that answers whatever it is talked into.  The planner's choices  *)
(* and the reader's are arbitrary; what the tools label, what the          *)
(* enforcement point lets through and what a call costs is the code's.     *)
(*                                                                         *)
(* Two handles of the same value are one here.  A string is indivisible:   *)
(* the reader reads it whole or not at all.                                *)
(***************************************************************************)
EXTENDS Mail, Kernel

CONSTANTS
    Messages,     \* the inbox: e-mail ids
    Content,      \* id -> message, as in module Mail, with the sender's domain
    Extractions,  \* what the reader may answer: field -> string or None
    Paise,        \* string -> the amount it is in paise, or None
    Budget        \* start_episode's call budget

ExtractedField == Field \cup {"vendor_name"}

ASSUME ToolboxAssumption ==
    /\ Budget \in Nat
    /\ \A extraction \in Extractions :
          /\ DOMAIN extraction \subseteq ExtractedField
          /\ \A field \in DOMAIN extraction :
                extraction[field] # None => Paise[extraction[field]] \in Nat \cup {None}

VARIABLES
    values,     \* the value store
    decisions,  \* what the decision store tells of, whoever asked first
    recorded,   \* how many decisions it holds
    ledger,
    attempts,   \* how the payments in tools.attempts ended
    calls,      \* tools.calls_made
    late        \* tools.out_of_time()

stores == <<decisions, recorded, ledger, attempts>>
vars == <<values, stores, calls, late>>

\* roots is history: the records a value was computed from, at first hand or
\* through the reader.  The code has only the label to go by.
Root == {"inbox", "message", "vendor", "account", "export"}
Secret == {"account", "export"}

Stored(label, roots) == [label |-> label, roots |-> roots]

Init ==
    /\ values = {} /\ decisions = {} /\ recorded = 0 /\ ledger = {} /\ attempts = {}
    /\ calls = 0 /\ late = FALSE

-----------------------------------------------------------------------------
(* _spend_call.  Listing, exporting and flagging cost nothing. *)

Affords == ~late /\ calls < Budget

Charge ==
    /\ Affords
    /\ calls' = calls + 1
    /\ UNCHANGED late

\* CALL_BUDGET_EXHAUSTED: nothing changes but the count, capped here at one
\* above the budget, and the payment refused leaves no attempt behind.
RefuseCall ==
    /\ ~Affords
    /\ ~late /\ calls <= Budget
    /\ calls' = calls + 1
    /\ UNCHANGED <<values, stores, late>>

DeadlinePasses ==
    /\ ~late
    /\ late' = TRUE
    /\ UNCHANGED <<values, stores, calls>>

-----------------------------------------------------------------------------
(* Read tools. *)

Store(new) ==
    /\ values' = values \cup new
    /\ UNCHANGED stores

Entry(message) ==
    Stored(Label(message, "ENUM", {"SYSTEM"}, "INTERNAL"), {"inbox"})

ListInbox ==
    /\ Store({Entry(message) : message \in Messages})
    /\ UNCHANGED <<calls, late>>

\* The whole message, hidden text included, and the domain it says it is from.
ReadEmail ==
    /\ Charge
    /\ \E message \in Messages :
          /\ Entry(message) \in values
          /\ Store({Stored(Label(message, "FREE_TEXT", IngestSources(Content[message]), "INTERNAL"),
                           {"message"}),
                    Stored(Label(Content[message].domain, "DOMAIN", {"EXTERNAL_EMAIL"}, "INTERNAL"),
                           {"message"})})

\* What the reader is shown: a message's text, or the text of a single value.
Legible(label, string) ==
    IF label.vtype = "FREE_TEXT" /\ label.value \in Messages
    THEN OccursIn(FullText(Content[label.value]), string)
    ELSE label.value = string

ExtractedType(field) == IF field \in Field THEN FieldType[field] ELSE "FREE_TEXT"

\* Mistake: an amount that cannot be read is stored all the same.
SurvivesUnread(source, extraction, field) ==
    extraction[field] # None /\ Legible(source.label, extraction[field])

\* A field survives if its string is in the text; an amount if it can be read.
Survives(source, extraction, field) ==
    /\ extraction[field] # None
    /\ Legible(source.label, extraction[field])
    /\ field = "amount" => Paise[extraction[field]] # None

\* Mistake: what the reader returns is as confidential as a message.
ReadOffAsIngested(source, field, string) ==
    Stored([Derive(IF field = "amount" THEN Paise[string] ELSE string, ExtractedType(field),
                   {source.label}, {"MODEL_READER"}) EXCEPT !.confidentiality = "INTERNAL"],
           source.roots)

ReadOff(source, field, string) ==
    Stored(Derive(IF field = "amount" THEN Paise[string] ELSE string, ExtractedType(field),
                  {source.label}, {"MODEL_READER"}),
           source.roots)

\* Any handle may be given to the reader.  One that raises returns nothing.
ExtractInvoice ==
    /\ Charge
    /\ \E source \in values, extraction \in Extractions :
          Store({ReadOff(source, field, extraction[field]) :
                     field \in {f \in DOMAIN extraction : Survives(source, extraction, f)}})

OnFile(vendor) ==
    {Stored(Label(vendor, "ENUM", {"COMPANY_DB"}, "INTERNAL"), {"vendor"}),
     Stored(Label(VendorMaster[vendor].account, "ACCOUNT_NUMBER", {"COMPANY_DB"}, "CONFIDENTIAL"),
            {"account"})}

\* Any handle whose value is a vendor's GSTIN finds the vendor.
LookupVendor ==
    /\ Charge
    /\ \E gstin \in values :
          Store(UNION {OnFile(vendor) :
                    vendor \in {v \in Vendors : VendorMaster[v].gstin = gstin.label.value}})

ExportVendorMaster ==
    /\ Store({Stored(Label(None, "DOCUMENT", {"COMPANY_DB"}, "CONFIDENTIAL"), {"export"})})
    /\ UNCHANGED <<calls, late>>

-----------------------------------------------------------------------------
(* Consequential tools. *)

Record(tool, judged, facts) ==
    /\ decisions' = decisions \cup
           {[tool |-> tool, outcome |-> judged.outcome, reason |-> judged.reason, facts |-> facts]}
    /\ recorded' = recorded + 1

Paid(vendor, invoice) ==
    \E entry \in ledger : entry.vendor = vendor /\ entry.invoice = invoice

WellTyped(account, amount, invoice) ==
    /\ account.label.vtype = "ACCOUNT_NUMBER"
    /\ amount.label.vtype = "MONEY_PAISE"
    /\ invoice.label.vtype = "INVOICE_NUMBER"

\* A handle that is unknown, of the wrong type or none at all costs a call and
\* leaves no decision.  Of a payment it is still an attempt.  An e-mail whose
\* second authorization raises leaves nothing either.
RefuseArguments ==
    /\ Charge
    /\ attempts' \in {attempts, attempts \cup {"DENIED"}}
    /\ UNCHANGED <<values, decisions, recorded, ledger>>

\* Computing the facts or the first authorization raises: denied and recorded,
\* without the facts.
FailClosed ==
    /\ Charge
    /\ \E tool \in {"pay_vendor", "send_email"} :
          /\ IF tool = "pay_vendor"
             THEN \E account, amount, invoice \in values : WellTyped(account, amount, invoice)
             ELSE values # {}
          /\ Record(tool, Judged("DENIED", "ENFORCEMENT_ERROR"), None)
          /\ attempts' = attempts \cup (IF tool = "pay_vendor" THEN {"DENIED"} ELSE {})
    /\ UNCHANGED <<values, ledger>>

\* Whether the sender matched is the caller's word.  A vendor that is not on
\* file makes the facts fail, and the enforcement point fail closed.
AnswerPayment(vendor, account, amount, invoice, verified) ==
    IF vendor.label.value \notin Vendors THEN Judged("DENIED", "ENFORCEMENT_ERROR")
    ELSE JudgePayment(PaymentContext(vendor.label.value, account.label, amount.label, verified,
                                     Paid(vendor.label.value, invoice.label.value)))

\* Mistake: a payment that waits for a person leaves no attempt.
SettleFinal(judged, entry) ==
    /\ attempts' = attempts \cup ({judged.outcome} \ {"PENDING_APPROVAL"})
    /\ ledger' = IF judged.outcome = "EXECUTED" THEN ledger \cup {entry} ELSE ledger

\* tools.attempts has every answer, the ledger the payments that went out.
Settle(judged, entry) ==
    /\ attempts' = attempts \cup {judged.outcome}
    /\ ledger' = IF judged.outcome = "EXECUTED" THEN ledger \cup {entry} ELSE ledger

PayVendor ==
    /\ Charge
    /\ \E vendor, account, amount, invoice \in values, verified \in BOOLEAN :
          LET judged == AnswerPayment(vendor, account, amount, invoice, verified)
          IN  /\ WellTyped(account, amount, invoice)
              /\ Record("pay_vendor", judged,
                        [vendor |-> vendor.label.value, account |-> account.label.value,
                         roots |-> account.roots])
              /\ Settle(judged, [vendor |-> vendor.label.value, invoice |-> invoice.label.value,
                                 amount |-> amount.label.value])
    /\ UNCHANGED values

\* A template that carries confidential attachments is confidential itself.
TemplateLevel(attachments) ==
    IF \E a \in attachments : a.label.confidentiality = "CONFIDENTIAL"
    THEN "CONFIDENTIAL" ELSE "PUBLIC"

SendEmail ==
    /\ Charge
    /\ \E recipient \in values, attachments \in SUBSET values :
          Record("send_email",
                 JudgeEmail(EmailContext(recipient.label,
                     EmailFacts(recipient.label, {a.label : a \in attachments},
                                TemplateLevel(attachments)))),
                 [outside |-> recipient.label.value \notin Internal,
                  carries |-> (UNION {a.roots : a \in attachments}) \cap Secret])
    /\ UNCHANGED <<values, ledger, attempts>>

Next ==
    \/ RefuseCall \/ DeadlinePasses
    \/ ListInbox \/ ReadEmail \/ ExtractInvoice \/ LookupVendor \/ ExportVendorMaster
    \/ RefuseArguments \/ FailClosed \/ PayVendor \/ SendEmail

Spec == Init /\ [][Next]_vars

-----------------------------------------------------------------------------
(* Properties. *)

TypeOK ==
    /\ \A v \in values :
          /\ v.label.vtype \in ValueType
          /\ v.label.sources \in SUBSET Source
          /\ v.label.confidentiality \in Confidentiality
          /\ v.label.vtype = "MONEY_PAISE" => v.label.value \in Nat
          /\ v.roots \in SUBSET Root
    /\ \A decision \in decisions :
          /\ decision.tool \in {"pay_vendor", "send_email"}
          /\ decision.outcome \in {"EXECUTED", "PENDING_APPROVAL", "DENIED"}
    /\ recorded \in Nat
    /\ attempts \subseteq {"EXECUTED", "PENDING_APPROVAL", "DENIED"}
    /\ calls \in 0..(Budget + 1)
    /\ late \in BOOLEAN

Executed(tool) ==
    {decision \in decisions : decision.tool = tool /\ decision.outcome = "EXECUTED"}

\* Company data does not leave in an attachment, whoever asked and however
\* often it went through the reader on the way: what an e-mail to an outside
\* address carries was computed from neither an export nor an account on file.
NothingConfidentialLeaves ==
    \A email \in Executed("send_email") : email.facts.outside => email.facts.carries = {}

\* Money goes to the record on file itself.  A reading of it does not do, even
\* one with the right digits, and nothing a message said does.
PaidAccountIsTheRecord ==
    \A payment \in Executed("pay_vendor") :
        /\ payment.facts.roots = {"account"}
        /\ payment.facts.account = VendorMaster[payment.facts.vendor].account

\* A planner that has lost the thread stalls: however its calls are mixed, it
\* puts at most a budget's worth of questions to the enforcement point, and
\* tools.attempts holds an answer for every payment among them.
ConsequencesWithinBudget ==
    /\ recorded <= Budget
    /\ \A decision \in decisions :
          decision.tool = "pay_vendor" => decision.outcome \in attempts
=============================================================================
