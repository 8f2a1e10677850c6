------------------------------- MODULE Kernel -------------------------------
(***************************************************************************)
(* The enforcement point as its two callers meet it when nothing runs      *)
(* beside them: the facts of one payment or one e-mail, and the answer     *)
(* that follows from asking the policies, once as things stand and, when   *)
(* they deny, once as if a person had approved.  Module Enforcement has    *)
(* the steps of a payment one by one, their interleavings and failures.    *)
(***************************************************************************)
EXTENDS Labels, Policy

CONSTANTS
    Vendors,
    VendorMaster,   \* vendor -> what is on file: account, status, contacts...
    Internal,       \* addresses in the company's own domain
    AllowedActions, \* mandate.allowed_actions
    MaxAmount,      \* mandate.max_amount_paise
    AutoLimit       \* mandate.auto_approve_limit_paise

\* A mandate cannot be constructed otherwise.
ASSUME MandateAssumption ==
    MaxAmount \in Nat \ {0} /\ AutoLimit \in Nat /\ AutoLimit <= MaxAmount

Judged(outcome, reason) == [outcome |-> outcome, reason |-> reason]

-----------------------------------------------------------------------------
(* pay_vendor *)

\* Mistake: the digits of the account are compared, its provenance is not.
PaymentContextDigitsOnly(vendor, account, amount, verified, paidBefore) ==
    [allowedActions |-> AllowedActions, maxAmount |-> MaxAmount,
     autoLimit |-> AutoLimit, amount |-> amount.value,
     vendorStatus |-> VendorMaster[vendor].status,
     accountTrusted |-> TRUE, accountMatches |-> TRUE,
     matchVerified |-> verified, isDuplicate |-> paidBefore,
     humanApproved |-> FALSE]

PaymentContext(vendor, account, amount, verified, paidBefore) ==
    [allowedActions |-> AllowedActions, maxAmount |-> MaxAmount,
     autoLimit |-> AutoLimit, amount |-> amount.value,
     vendorStatus |-> VendorMaster[vendor].status,
     accountTrusted |-> Trusted(account),
     accountMatches |-> account.value = VendorMaster[vendor].account /\ Trusted(account),
     matchVerified |-> verified, isDuplicate |-> paidBefore,
     humanApproved |-> FALSE]

JudgePayment(context) ==
    LET reason == ReasonFor(PayForbids(context))
    IN  IF PayAllowed(context) THEN Judged("EXECUTED", "OK")
        ELSE IF PayAllowed([context EXCEPT !.humanApproved = TRUE])
             THEN Judged("PENDING_APPROVAL", reason)
             ELSE Judged("DENIED", reason)

-----------------------------------------------------------------------------
(* send_email.  The recipient is resolved without asking for a type.       *)

KnownContacts == UNION {VendorMaster[v].contacts : v \in Vendors}

EmailFacts(recipient, attachments, template) ==
    [isInternal |-> recipient.value \in Internal,
     isKnownContact |-> recipient.value \in KnownContacts,
     bodyConfidentiality |->
         MaxConfidentiality({template} \cup {a.confidentiality : a \in attachments})]

EmailContext(recipient, facts) ==
    [allowedActions |-> AllowedActions, recipientTrusted |-> Trusted(recipient),
     isInternal |-> facts.isInternal, isKnownContact |-> facts.isKnownContact,
     bodyConfidentiality |-> facts.bodyConfidentiality, humanApproved |-> FALSE]

JudgeEmail(context) ==
    LET reason == ReasonFor(EmailForbids(context))
    IN  IF EmailAllowed(context) THEN Judged("EXECUTED", "OK")
        ELSE IF EmailAllowed([context EXCEPT !.humanApproved = TRUE])
             THEN Judged("PENDING_APPROVAL", reason)
             ELSE Judged("DENIED", reason)
=============================================================================
