----------------------------- MODULE Enforcement -----------------------------
(***************************************************************************)
(* The policy enforcement point's pay_vendor (pep.py), the facts it        *)
(* computes (fact_checkers.py), and the stores it reads and writes: the    *)
(* vendor master, the run's labelled values, the payment ledger and the    *)
(* decision store.                                                         *)
(*                                                                         *)
(* Callers are the threads that may be inside pay_vendor at once: the      *)
(* planner runs the tool calls of one model turn side by side, and the     *)
(* kernel takes no lock.  Every read or write of a store is a step of its  *)
(* own; what a call computes between two of them is local.                 *)
(*                                                                         *)
(* A vendor's record is a sequence of versions, as the vendor table keeps  *)
(* one row per version and readers take the current one.                   *)
(***************************************************************************)
EXTENDS Labels, Policy, FiniteSets

CONSTANTS
    Vendors, Accounts, Invoices,
    Amounts,        \* amounts in paise
    MaxAmount,      \* mandate.max_amount_paise
    AutoLimit,      \* mandate.auto_approve_limit_paise
    AllowedActions, \* mandate.allowed_actions
    Callers,        \* threads that call the enforcement point
    MaxCalls,       \* bound: calls of pay_vendor
    MaxVersions,    \* bound: versions of one vendor's record
    Faults,         \* dependencies that may raise
    NotAHandle,     \* an argument that is no handle
    NoSuchHandle,   \* a handle the run's store does not hold
    None

Dependency == {"vendors", "ledger_read", "authorizer",
               "ledger_write", "decisions"}

ASSUME AmountsAssumption == Amounts \subseteq Nat
ASSUME LimitsAssumption ==
    MaxAmount \in Nat /\ AutoLimit \in Nat /\ MaxCalls \in Nat
ASSUME FaultsAssumption == Faults \subseteq Dependency

VARIABLES
    rows,       \* vendor -> the versions of its record
    values,     \* the labelled values of the run, named by handles
    ledger,     \* settled payments
    decisions,  \* decision records
    answers,    \* what each call returned to its caller
    issued,     \* how many calls have begun: the next call's identity
    pc,         \* caller -> the store or service its call is about to use
    req,        \* caller -> the resolved arguments of its call
    facts,      \* caller -> the facts computed so far
    verdict     \* caller -> the outcome about to be recorded

vars == <<rows, values, ledger, decisions, answers,
          issued, pc, req, facts, verdict>>

stores == <<rows, values, ledger, decisions>>

-----------------------------------------------------------------------------
(* Records *)

Status == {"ACTIVE", "BLOCKED"}
Row == [account : Accounts, status : Status]

LabelledAs(vtype, carried) ==
    [value : carried, vtype : {vtype},
     sources : SUBSET Source, confidentiality : Confidentiality]

AccountValue == LabelledAs("ACCOUNT_NUMBER", Accounts)
AmountValue  == LabelledAs("MONEY_PAISE", Amounts)
InvoiceValue == LabelledAs("INVOICE_NUMBER", Invoices)
VendorValue  == LabelledAs("ENUM", Vendors)

\* What a vendor handle may resolve to: anything the run holds a handle for.
VendorName == Vendors \cup Accounts \cup Amounts \cup Invoices

Request ==
    [id : 1..MaxCalls, vendor : VendorName,
     account : AccountValue, amount : Amounts, invoice : Invoices,
     verified : BOOLEAN, begun : Nat]

\* The last two fields are history: the version of the vendor's record the
\* facts were read from, and the payments the ledger held when it was asked.
PaymentFacts ==
    [accountMatches : BOOLEAN, matchVerified : BOOLEAN, isDuplicate : BOOLEAN,
     vendorStatus : Status \cup {"UNKNOWN"}, amount : Amounts,
     asOf : Nat, seen : SUBSET (1..MaxCalls)]

Outcome == {"EXECUTED", "DENIED", "PENDING_APPROVAL"}

Verdict == [outcome : Outcome, reason : Reason \cup {"OK", "ENFORCEMENT_ERROR"}]

\* The fields after account are history: the label of the account and what
\* the facts were read from.
LedgerEntry ==
    [txn : 1..MaxCalls, vendor : VendorName, invoice : Invoices,
     amount : Amounts, account : Accounts, sources : SUBSET Source,
     begun : Nat, asOf : Nat, seen : SUBSET (1..MaxCalls)]

DecisionRecord ==
    [call : 1..MaxCalls, outcome : Outcome,
     reason : Reason \cup {"OK", "ENFORCEMENT_ERROR"},
     facts : PaymentFacts \cup {None}, linked : BOOLEAN]

\* Where a call stands: the dependency it is about to use.
Stage == {"idle", "vendors", "ledger_read", "authorizer",
          "ledger_write", "reask", "decisions"}

Current(v) == rows[v][Len(rows[v])]

OfType(vtype) == {x \in values : x.vtype = vtype}

-----------------------------------------------------------------------------
(* The run's values *)

\* What read_email stores for a message with an attachment.
Document ==
    Label(None, "FREE_TEXT", {"EXTERNAL_EMAIL", "EXTERNAL_ATTACHMENT"}, "INTERNAL")

\* What extract_invoice can have stored: mail may propose any account,
\* amount and invoice number, the digits of a real account among them.
Extracted ==
    {Derive(a, "ACCOUNT_NUMBER", {Document}, {"MODEL_READER"}) : a \in Accounts}
    \cup {Derive(m, "MONEY_PAISE", {Document}, {"MODEL_READER"}) : m \in Amounts}
    \cup {Derive(i, "INVOICE_NUMBER", {Document}, {"MODEL_READER"}) : i \in Invoices}

\* lookup_vendor stores the vendor and its account as they are on file now.
LookupVendor(v) ==
    /\ values' = values \cup
        { Label(v, "ENUM", {"COMPANY_DB"}, "INTERNAL"),
          Label(Current(v).account, "ACCOUNT_NUMBER", {"COMPANY_DB"}, "CONFIDENTIAL") }
    /\ UNCHANGED <<rows, ledger, decisions, answers, issued, pc, req, facts, verdict>>

\* The company records a new version of a vendor and points readers at it.
PutVendor(v) ==
    /\ Len(rows[v]) < MaxVersions
    /\ \E row \in Row : rows' = [rows EXCEPT ![v] = Append(@, row)]
    /\ UNCHANGED <<values, ledger, decisions, answers, issued, pc, req, facts, verdict>>

-----------------------------------------------------------------------------
(* Steps 1 and 2: the arguments must be handles, of the right kind of value.*)

Slots == <<"vendor", "account", "amount", "invoice">>

\* The vendor's handle is resolved without asking for a type.
TypesFor(slot) ==
    CASE slot = "vendor"  -> ValueType
      [] slot = "account" -> {"ACCOUNT_NUMBER"}
      [] slot = "amount"  -> {"MONEY_PAISE"}
      [] slot = "invoice" -> {"INVOICE_NUMBER"}

Refusal(argument, slot) ==
    IF argument = NotAHandle THEN "ARG_MUST_BE_HANDLE"
    ELSE IF argument \notin values THEN "UNKNOWN_HANDLE"
    ELSE IF argument.vtype \notin TypesFor(slot) THEN "ARG_WRONG_TYPE"
    ELSE "OK"

Answer(id, status, reason) == [call |-> id, status |-> status, reason |-> reason]

\* Arguments are resolved in the order of Slots and the first that fails
\* refuses the call: those before it resolve, those after it are not looked
\* at.  The refusal is returned at once and leaves no decision record.
RefuseArgument(c, k, argument) ==
    /\ pc[c] = "idle"
    /\ issued < MaxCalls
    /\ \A j \in 1..(k - 1) : \E good \in values : Refusal(good, Slots[j]) = "OK"
    /\ Refusal(argument, Slots[k]) # "OK"
    /\ issued' = issued + 1
    /\ answers' = answers \cup
           {Answer(issued + 1, "DENIED", Refusal(argument, Slots[k]))}
    /\ UNCHANGED <<stores, pc, req, facts, verdict>>

PayVendor(c, vendor, account, amount, invoice, verified) ==
    /\ pc[c] = "idle"
    /\ issued < MaxCalls
    /\ Refusal(vendor, "vendor") = "OK"
    /\ Refusal(account, "account") = "OK"
    /\ Refusal(amount, "amount") = "OK"
    /\ Refusal(invoice, "invoice") = "OK"
    /\ issued' = issued + 1
    /\ req' = [req EXCEPT ![c] =
           [id |-> issued + 1, vendor |-> vendor.value, account |-> account,
            amount |-> amount.value, invoice |-> invoice.value,
            verified |-> verified,
            begun |-> IF vendor.value \in Vendors
                      THEN Len(rows[vendor.value]) ELSE 0]]
    /\ pc' = [pc EXCEPT ![c] = "vendors"]
    /\ UNCHANGED <<stores, answers, facts, verdict>>

-----------------------------------------------------------------------------
(* Step 3: facts, from the vendor master and then from the ledger.         *)

\* Mistake: a trusted account is taken for the account on file.
MatchesAnyTrusted(account, row) == Trusted(account)

\* The digits must be those on file and the value must be the company's own:
\* a document that echoes the real account is not thereby trusted.
Matches(account, row) == account.value = row.account /\ Trusted(account)

HasInvoice(vendor, invoice) ==
    \E entry \in ledger : entry.vendor = vendor /\ entry.invoice = invoice

\* Mistake: the status of a vendor that is not on file is left unset.
NoFactsUnset(r) ==
    [accountMatches |-> FALSE, matchVerified |-> FALSE, isDuplicate |-> FALSE,
     vendorStatus |-> None, amount |-> r.amount, asOf |-> 0, seen |-> {}]

NoFacts(r) ==
    [accountMatches |-> FALSE, matchVerified |-> FALSE, isDuplicate |-> FALSE,
     vendorStatus |-> "UNKNOWN", amount |-> r.amount, asOf |-> 0, seen |-> {}]

VendorFacts(r) ==
    [accountMatches |-> Matches(r.account, Current(r.vendor)),
     matchVerified |-> r.verified, isDuplicate |-> FALSE,
     vendorStatus |-> Current(r.vendor).status, amount |-> r.amount,
     asOf |-> Len(rows[r.vendor]), seen |-> {}]

\* A vendor that is not on file has no further facts: the ledger is not asked.
ReadVendor(c) ==
    /\ pc[c] = "vendors"
    /\ IF req[c].vendor \in Vendors
       THEN /\ facts' = [facts EXCEPT ![c] = VendorFacts(req[c])]
            /\ pc' = [pc EXCEPT ![c] = "ledger_read"]
       ELSE /\ facts' = [facts EXCEPT ![c] = NoFacts(req[c])]
            /\ pc' = [pc EXCEPT ![c] = "authorizer"]
    /\ UNCHANGED <<stores, answers, issued, req, verdict>>

\* Mistake: the ledger's answer is dropped.
ReadLedgerDropped(c) ==
    /\ pc[c] = "ledger_read"
    /\ facts' = [facts EXCEPT ![c].seen = {entry.txn : entry \in ledger}]
    /\ pc' = [pc EXCEPT ![c] = "authorizer"]
    /\ UNCHANGED <<stores, answers, issued, req, verdict>>

ReadLedger(c) ==
    /\ pc[c] = "ledger_read"
    /\ facts' = [facts EXCEPT
           ![c].isDuplicate = HasInvoice(req[c].vendor, req[c].invoice),
           ![c].seen = {entry.txn : entry \in ledger}]
    /\ pc' = [pc EXCEPT ![c] = "authorizer"]
    /\ UNCHANGED <<stores, answers, issued, req, verdict>>

-----------------------------------------------------------------------------
(* Step 4: authorization, and what follows from the answer.                *)

Context(c, humanApproved) ==
    [allowedActions |-> AllowedActions, maxAmount |-> MaxAmount,
     autoLimit |-> AutoLimit, amount |-> facts[c].amount,
     vendorStatus |-> facts[c].vendorStatus,
     accountTrusted |-> Trusted(req[c].account),
     accountMatches |-> facts[c].accountMatches,
     matchVerified |-> facts[c].matchVerified,
     isDuplicate |-> facts[c].isDuplicate,
     humanApproved |-> humanApproved]

Decided(outcome, reason) == [outcome |-> outcome, reason |-> reason]

\* A permitted payment is on its way to the ledger; a denied one is asked
\* again as if a human had approved it.
Authorize(c) ==
    /\ pc[c] = "authorizer"
    /\ pc' = [pc EXCEPT ![c] =
           IF PayAllowed(Context(c, FALSE)) THEN "ledger_write" ELSE "reask"]
    /\ UNCHANGED <<stores, answers, issued, req, facts, verdict>>

Entry(c) ==
    [txn |-> req[c].id, vendor |-> req[c].vendor, invoice |-> req[c].invoice,
     amount |-> facts[c].amount, account |-> req[c].account.value,
     sources |-> req[c].account.sources,
     begun |-> req[c].begun, asOf |-> facts[c].asOf, seen |-> facts[c].seen]

Return(c, status, reason) ==
    /\ answers' = answers \cup {Answer(req[c].id, status, reason)}
    /\ pc' = [pc EXCEPT ![c] = "idle"]
    /\ req' = [req EXCEPT ![c] = None]
    /\ facts' = [facts EXCEPT ![c] = None]
    /\ verdict' = [verdict EXCEPT ![c] = None]

\* Mistake: the payment returns without its decision record.
ExecuteUnrecorded(c) ==
    /\ pc[c] = "ledger_write"
    /\ ledger' = ledger \cup {Entry(c)}
    /\ Return(c, "EXECUTED", "OK")
    /\ UNCHANGED <<rows, values, decisions, issued>>

Execute(c) ==
    /\ pc[c] = "ledger_write"
    /\ ledger' = ledger \cup {Entry(c)}
    /\ verdict' = [verdict EXCEPT ![c] = Decided("EXECUTED", "OK")]
    /\ pc' = [pc EXCEPT ![c] = "decisions"]
    /\ UNCHANGED <<rows, values, decisions, answers, issued, req, facts>>

Reask(c) ==
    /\ pc[c] = "reask"
    /\ verdict' = [verdict EXCEPT ![c] =
           Decided(IF PayAllowed(Context(c, TRUE)) THEN "PENDING_APPROVAL" ELSE "DENIED",
                   ReasonFor(PayForbids(Context(c, FALSE))))]
    /\ pc' = [pc EXCEPT ![c] = "decisions"]
    /\ UNCHANGED <<stores, answers, issued, req, facts>>

Record(id, v, f, linked) ==
    [call |-> id, outcome |-> v.outcome, reason |-> v.reason,
     facts |-> f, linked |-> linked]

\* An enforcement error is recorded with no facts.
FactsToRecord(c) ==
    IF verdict[c].reason = "ENFORCEMENT_ERROR" THEN None ELSE facts[c]

\* _record: the decision, an edge from every argument to it, and two events
\* whose publishing can fail without any effect here.
RecordDecision(c) ==
    /\ pc[c] = "decisions"
    /\ decisions' = decisions \cup {Record(req[c].id, verdict[c], FactsToRecord(c), TRUE)}
    /\ Return(c, verdict[c].outcome, verdict[c].reason)
    /\ UNCHANGED <<rows, values, ledger, issued>>

-----------------------------------------------------------------------------
(* Dependencies that raise.  Fact computation and the first authorization  *)
(* are inside pay_vendor's try block; everything later is not.             *)

\* Mistake: the try block takes the payment in as well.
FailClosedLate(c) ==
    /\ pc[c] \in {"vendors", "ledger_read", "authorizer", "ledger_write"}
    /\ pc[c] \in Faults
    /\ ledger' = IF pc[c] = "ledger_write" THEN ledger \cup {Entry(c)} ELSE ledger
    /\ verdict' = [verdict EXCEPT ![c] = Decided("DENIED", "ENFORCEMENT_ERROR")]
    /\ pc' = [pc EXCEPT ![c] = "decisions"]
    /\ UNCHANGED <<rows, values, decisions, answers, issued, req, facts>>

\* Mistake: an enforcement error is returned without being recorded.
FailClosedSilently(c) ==
    /\ pc[c] \in {"vendors", "ledger_read", "authorizer"}
    /\ pc[c] \in Faults
    /\ Return(c, "DENIED", "ENFORCEMENT_ERROR")
    /\ UNCHANGED <<stores, issued>>

FailClosed(c) ==
    /\ pc[c] \in {"vendors", "ledger_read", "authorizer"}
    /\ pc[c] \in Faults
    /\ verdict' = [verdict EXCEPT ![c] = Decided("DENIED", "ENFORCEMENT_ERROR")]
    /\ pc' = [pc EXCEPT ![c] = "decisions"]
    /\ UNCHANGED <<stores, answers, issued, req, facts>>

\* The exception leaves pay_vendor; there is no result and no record.
ReaskRaises(c) ==
    /\ pc[c] = "reask"
    /\ "authorizer" \in Faults
    /\ Return(c, "RAISED", "authorizer")
    /\ UNCHANGED <<stores, issued>>

\* A write that raises may have been applied.
ExecuteRaises(c) ==
    /\ pc[c] = "ledger_write"
    /\ "ledger_write" \in Faults
    /\ ledger' \in {ledger, ledger \cup {Entry(c)}}
    /\ Return(c, "RAISED", "ledger_write")
    /\ UNCHANGED <<rows, values, decisions, issued>>

\* The record is lost, or it is kept and its edges are not.
RecordRaises(c) ==
    /\ pc[c] = "decisions"
    /\ "decisions" \in Faults
    /\ decisions' \in
           {decisions,
            decisions \cup {Record(req[c].id, verdict[c], FactsToRecord(c), FALSE)}}
    /\ Return(c, "RAISED", "decisions")
    /\ UNCHANGED <<rows, values, ledger, issued>>

-----------------------------------------------------------------------------
Init ==
    /\ rows \in [Vendors -> {<<row>> : row \in Row}]
    /\ values = Extracted
    /\ ledger = {}
    /\ decisions = {}
    /\ answers = {}
    /\ issued = 0
    /\ pc = [c \in Callers |-> "idle"]
    /\ req = [c \in Callers |-> None]
    /\ facts = [c \in Callers |-> None]
    /\ verdict = [c \in Callers |-> None]

Call(c) ==
    \/ \E k \in 1..Len(Slots), argument \in values \cup {NotAHandle, NoSuchHandle} :
           RefuseArgument(c, k, argument)
    \/ \E vendor \in values, account \in OfType("ACCOUNT_NUMBER"),
          amount \in OfType("MONEY_PAISE"), invoice \in OfType("INVOICE_NUMBER"),
          verified \in BOOLEAN :
           PayVendor(c, vendor, account, amount, invoice, verified)

\* What the enforcement point does once a call is under way.
Proceed(c) ==
    \/ ReadVendor(c)
    \/ ReadLedger(c)
    \/ Authorize(c)
    \/ Execute(c)
    \/ Reask(c)
    \/ RecordDecision(c)
    \/ FailClosed(c)
    \/ ReaskRaises(c)
    \/ ExecuteRaises(c)
    \/ RecordRaises(c)

Next ==
    \/ \E v \in Vendors : LookupVendor(v) \/ PutVendor(v)
    \/ \E c \in Callers : Call(c) \/ Proceed(c)

Spec == Init /\ [][Next]_vars

\* A call under way is code running on a thread: it does not stop by itself.
\* Nothing makes a planner call, or the company change a vendor.
FairSpec == Spec /\ \A c \in Callers : WF_vars(Proceed(c))

-----------------------------------------------------------------------------
\* What a call holds, by where it stands.
CallTypeOK(c) ==
    /\ pc[c] # "idle" => req[c] \in Request
    /\ pc[c] \in {"ledger_read", "authorizer", "ledger_write", "reask"}
           => facts[c] \in PaymentFacts
    /\ pc[c] = "decisions" =>
           /\ verdict[c] \in Verdict
           /\ verdict[c].reason # "ENFORCEMENT_ERROR" => facts[c] \in PaymentFacts

\* The types of the variables, and that a call holds what its next step uses.
TypeOK ==
    /\ rows \in [Vendors -> Seq(Row)]
    /\ \A v \in Vendors : Len(rows[v]) > 0
    /\ values \subseteq AccountValue \cup AmountValue \cup InvoiceValue \cup VendorValue
    /\ ledger \subseteq LedgerEntry
    /\ decisions \subseteq DecisionRecord
    /\ issued \in 0..MaxCalls
    /\ pc \in [Callers -> Stage]
    /\ req \in [Callers -> Request \cup {None}]
    /\ facts \in [Callers -> PaymentFacts \cup {None}]
    /\ verdict \in [Callers -> Verdict \cup {None}]
    /\ \A c \in Callers : CallTypeOK(c)

\* Every payment went to the account that the vendor's record held, as an
\* active vendor, in a version that was current during the call itself, and
\* the value that named the account was the company's own.  Stale handles and
\* digits echoed by a document are what could break it (G1).
DestinationOnFile ==
    \A entry \in ledger :
        /\ entry.vendor \in Vendors
        /\ entry.asOf \in entry.begun..Len(rows[entry.vendor])
        /\ rows[entry.vendor][entry.asOf] = [account |-> entry.account, status |-> "ACTIVE"]
        /\ IsTrusted(entry.sources)

\* Every executed decision has its payment, within the mandate's cap and its
\* auto-approve limit and for a sender that was verified; and a call that was
\* refused, escalated or failed closed has paid nothing (G2).
OutcomeMatchesLedger ==
    \A d \in decisions :
        IF d.outcome = "EXECUTED"
        THEN \E entry \in ledger :
                /\ entry.txn = d.call
                /\ entry.amount = d.facts.amount
                /\ entry.amount <= MaxAmount /\ entry.amount <= AutoLimit
                /\ d.facts.matchVerified
        ELSE \A entry \in ledger : entry.txn # d.call

\* Two payments of one invoice come only from calls that overlapped: neither
\* payment was in the ledger when the other call asked it.
DuplicateOnlyByRace ==
    \A e, f \in ledger :
        /\ e # f
        /\ e.vendor = f.vendor /\ e.invoice = f.invoice
        => e.txn \notin f.seen /\ f.txn \notin e.seen

\* An invoice of a vendor is paid at most once.
NoDuplicatePayment ==
    \A e, f \in ledger :
        e.vendor = f.vendor /\ e.invoice = f.invoice => e = f

\* A payment is always explained: its decision record and that record's edges
\* are there, or the call that made it is still about to write them (G5).
PaymentIsAudited ==
    \A entry \in ledger :
        \/ \E d \in decisions :
            d.call = entry.txn /\ d.outcome = "EXECUTED" /\ d.linked
        \/ \E c \in Callers : pc[c] = "decisions" /\ req[c].id = entry.txn

\* A call is escalated to a person only when the person's signature is all it
\* lacks: the destination, the duplicate check and the cap are not theirs to
\* waive, and the reason names something that is.
EscalationIsLiftable ==
    \A d \in decisions :
        d.outcome = "PENDING_APPROVAL" =>
            /\ d.facts.accountMatches
            /\ ~d.facts.isDuplicate
            /\ d.facts.vendorStatus = "ACTIVE"
            /\ d.facts.amount <= MaxAmount
            /\ d.reason \in {"VENDOR_NOT_VERIFIED", "ABOVE_AUTO_APPROVE_LIMIT"}

\* A call whose arguments resolved ends, and ends with a decision record
\* unless its caller sees an exception: a dependency that raises while facts
\* are computed or authorization is asked may not swallow the attempt (G5).
EveryCallRecorded ==
    \A id \in 1..MaxCalls :
        (\E c \in Callers : pc[c] # "idle" /\ req[c].id = id)
            ~> \/ \E d \in decisions : d.call = id
               \/ \E a \in answers : a.call = id /\ a.status = "RAISED"

-----------------------------------------------------------------------------
(* The ledger, as the abstract specification sees it.                      *)

Serial == \A c, d \in Callers : c = d

AbstractPaid ==
    {[txn |-> e.txn, vendor |-> e.vendor, invoice |-> e.invoice,
      amount |-> e.amount, account |-> e.account, asOf |-> e.asOf] : e \in ledger}

Promise == INSTANCE Payments
    WITH Calls <- 1..MaxCalls, Exclusive <- Serial, paid <- AbstractPaid

\* The enforcement point implements the promise about money.
ImplementsPayments == Promise!Spec
=============================================================================
