------------------------------- MODULE Labels -------------------------------
(***************************************************************************)
(* The label algebra of hallmark.domain: where a value came from, how      *)
(* confidential it is, and what a value derived from others inherits.      *)
(* A value is trusted only when every one of its sources is controlled by  *)
(* the company, and confidentiality is the highest of the inputs'.         *)
(***************************************************************************)
EXTENDS Naturals

Source == {"USER", "COMPANY_DB", "SYSTEM",
           "EXTERNAL_EMAIL", "EXTERNAL_ATTACHMENT", "WEB", "MODEL_READER"}

TrustedSources == {"USER", "COMPANY_DB", "SYSTEM"}

Confidentiality == {"PUBLIC", "INTERNAL", "CONFIDENTIAL"}

Rank == [PUBLIC |-> 0, INTERNAL |-> 1, CONFIDENTIAL |-> 2]

ValueType == {"MONEY_PAISE", "DATE", "GSTIN", "IFSC", "ACCOUNT_NUMBER",
              "EMAIL_ADDRESS", "DOMAIN", "INVOICE_NUMBER", "FREE_TEXT",
              "DOCUMENT", "ENUM"}

\* A value with no recorded provenance is not trusted.
IsTrusted(sources) == sources # {} /\ sources \subseteq TrustedSources

JoinSources(sourceSets) == UNION sourceSets

\* The most restrictive level; PUBLIC when there is no input.
MaxConfidentiality(levels) ==
    CHOOSE top \in levels \cup {"PUBLIC"} :
        \A level \in levels : Rank[level] <= Rank[top]

\* A value with its label.  The handle that names it, and the display string
\* that declassification may attach, change nothing here: neither touches
\* the value or its sources.
Label(value, vtype, sources, confidentiality) ==
    [value |-> value, vtype |-> vtype,
     sources |-> sources, confidentiality |-> confidentiality]

\* A value computed from others joins their labels; extraSources is the
\* provenance the operation itself adds.
Derive(value, vtype, inputs, extraSources) ==
    Label(value, vtype,
          JoinSources({i.sources : i \in inputs}) \cup extraSources,
          MaxConfidentiality({i.confidentiality : i \in inputs}))

Trusted(labeled) == IsTrusted(labeled.sources)
=============================================================================
