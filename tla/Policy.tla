------------------------------- MODULE Policy -------------------------------
(***************************************************************************)
(* The Cedar policies over pay_vendor and send_email, Cedar's decision     *)
(* rule (deny by default, any forbid overrides every permit), and the      *)
(* reason the enforcement point derives from the policies that denied.     *)
(*                                                                         *)
(* A context is the record cedar_request_builder assembles: the mandate,   *)
(* the resource's attributes, the labels of the arguments and the facts.   *)
(***************************************************************************)
EXTENDS Naturals, Sequences

-----------------------------------------------------------------------------
(* pay.cedar.  Only two of the four forbids look at humanApproved.         *)

\* Mistake: a blocked vendor is as good as an active one.
PayPermitAnyStatus(ctx) ==
    /\ "pay_vendor" \in ctx.allowedActions
    /\ ctx.amount <= ctx.maxAmount

PayPermit(ctx) ==
    /\ "pay_vendor" \in ctx.allowedActions
    /\ ctx.vendorStatus = "ACTIVE"
    /\ ctx.amount <= ctx.maxAmount

\* Mistake: a human may waive the duplicate check.
PayForbidsWaivable(ctx) ==
    { policy \in {"pay-account-must-be-master", "pay-no-duplicates"} :
        \/ /\ policy = "pay-account-must-be-master"
           /\ ~(ctx.accountTrusted /\ ctx.accountMatches)
        \/ /\ policy = "pay-no-duplicates"
           /\ ctx.isDuplicate /\ ~ctx.humanApproved }

\* Mistake: only the destination is protected.
PayForbidsOnlyDestination(ctx) ==
    { policy \in {"pay-account-must-be-master"} :
        ~(ctx.accountTrusted /\ ctx.accountMatches) }

PayForbids(ctx) ==
    { policy \in {"pay-account-must-be-master", "pay-vendor-match-required",
                  "pay-no-duplicates", "pay-above-auto-limit-needs-human"} :
        \/ /\ policy = "pay-account-must-be-master"
           /\ ~(ctx.accountTrusted /\ ctx.accountMatches)
        \/ /\ policy = "pay-vendor-match-required"
           /\ ~(ctx.matchVerified \/ ctx.humanApproved)
        \/ /\ policy = "pay-no-duplicates"
           /\ ctx.isDuplicate
        \/ /\ policy = "pay-above-auto-limit-needs-human"
           /\ ctx.amount > ctx.autoLimit
           /\ ~ctx.humanApproved }

PayAllowed(ctx) == PayPermit(ctx) /\ PayForbids(ctx) = {}

-----------------------------------------------------------------------------
(* email.cedar.  Nothing here looks at humanApproved.                      *)

EmailPermit(ctx) == "send_email" \in ctx.allowedActions

EmailForbids(ctx) ==
    { policy \in {"email-recipient-must-be-trusted",
                  "email-confidential-internal-only"} :
        \/ /\ policy = "email-recipient-must-be-trusted"
           /\ ~(ctx.recipientTrusted \/ ctx.isKnownContact \/ ctx.isInternal)
        \/ /\ policy = "email-confidential-internal-only"
           /\ ctx.bodyConfidentiality = "CONFIDENTIAL"
           /\ ~ctx.isInternal }

EmailAllowed(ctx) == EmailPermit(ctx) /\ EmailForbids(ctx) = {}

-----------------------------------------------------------------------------
(* pep.py: POLICY_REASONS, REASON_PRECEDENCE and _reason_for.              *)

ReasonPrecedence ==
    << "pay-account-must-be-master", "email-confidential-internal-only",
       "pay-no-duplicates", "email-recipient-must-be-trusted",
       "pay-vendor-match-required", "pay-above-auto-limit-needs-human" >>

PolicyReason ==
    << "ACCOUNT_NOT_FROM_VENDOR_MASTER", "CONFIDENTIAL_TO_EXTERNAL",
       "DUPLICATE_INVOICE", "RECIPIENT_NOT_TRUSTED",
       "VENDOR_NOT_VERIFIED", "ABOVE_AUTO_APPROVE_LIMIT" >>

Reason == {"ACCOUNT_NOT_FROM_VENDOR_MASTER", "CONFIDENTIAL_TO_EXTERNAL",
           "DUPLICATE_INVOICE", "RECIPIENT_NOT_TRUSTED",
           "VENDOR_NOT_VERIFIED", "ABOVE_AUTO_APPROVE_LIMIT", "POLICY_DENIED"}

\* The most fundamental of the policies that denied decides the reason; a
\* denial that comes from no forbid, only from a missing permit, has none.
ReasonFor(fired) ==
    LET ranks == {k \in 1..Len(ReasonPrecedence) : ReasonPrecedence[k] \in fired}
    IN  IF ranks = {} THEN "POLICY_DENIED"
        ELSE PolicyReason[CHOOSE k \in ranks : \A j \in ranks : k <= j]
=============================================================================
