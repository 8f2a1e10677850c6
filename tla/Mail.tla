-------------------------------- MODULE Mail --------------------------------
(***************************************************************************)
(* What a message says, and what the two readers make of it.  A message is *)
(* a body, perhaps text its sender hid, and attachments that may hide text *)
(* of their own; an agent receives all of it.  A piece of text names, for  *)
(* each field of an invoice, a value in one of the wordings the patterns   *)
(* tell apart, or nothing.  Read from scripted_run.py, baseline/scripted.py*)
(* and reader.py.                                                          *)
(***************************************************************************)
EXTENDS Labels, Sequences

CONSTANT None

\* The due date and the branch code are read like the others and decide
\* nothing.  "export" is an address that company records are requested for.
Field == {"gstin", "invoice_number", "amount", "bank_account"}
Piece == Field \cup {"export"}

\* "usual": as the invoices print it ("INR 4,62,000", "Account: 88...").
\* "typed": as a person writes it ("Amount: 462000", "account no 88...").
\* "total": an amount both announced and in rupees ("Total INR 4,62,000").
\* "bare": an invoice number that no word announces.
\* "short", "long": a printed account of fewer than 9 digits, of more than 18;
\* a long one is [first |-> its first 18, rest |-> the others].
WithPaise == {"usual.00", "total.00", "typed.00"}    \* "Amount: 462000.00"
Wording == {"usual", "typed", "total", "bare", "short", "long"} \cup WithPaise

Named(value, wording) == [value |-> value, wording |-> wording]

Blank == [field \in Piece |-> None]

Present(pieces) == SelectSeq(pieces, LAMBDA piece : piece # None)

\* Mistake: what the sender hid is left out.
VisibleText(mail) == Present(<<mail.body>> \o [k \in 1..Len(mail.attachments) |-> mail.attachments[k].text])

FullText(mail) ==
    LET attached[k \in 0..Len(mail.attachments)] ==
            IF k = 0 THEN <<>>
            ELSE attached[k - 1] \o <<mail.attachments[k].text, mail.attachments[k].hidden>>
    IN  Present(<<mail.body, mail.hidden>> \o attached[Len(mail.attachments)])

Earliest(places) == CHOOSE k \in places : \A j \in places : k <= j

\* The first place in the text that names the field in one of the wordings.
First(text, field, wordings) ==
    LET hits == {k \in 1..Len(text) :
                    text[k][field] # None /\ text[k][field].wording \in wordings}
    IN  IF hits = {} THEN None ELSE text[Earliest(hits)][field]

-----------------------------------------------------------------------------
(* RegexInvoiceReader: patterns in order of preference, each searched in   *)
(* the whole text before the next one is tried.                            *)

Patterns ==
    [gstin |-> <<{"usual", "typed"}>>,
     invoice_number |-> <<{"usual", "typed"}, {"bare"}>>,
     amount |-> <<{"typed", "total", "typed.00", "total.00"}, {"usual", "usual.00"}>>,
     bank_account |-> <<{"usual", "typed", "long"}>>,
     export |-> <<{"usual"}>>]

\* The account's pattern takes 9 to 18 digits: of a long run, the first 18.
Taken(mention) ==
    IF mention.wording = "long" THEN [mention EXCEPT !.value = @.first] ELSE mention

Extract(text, field) ==
    LET found(k) == First(text, field, Patterns[field][k])
        matching == {k \in 1..Len(Patterns[field]) : found(k) # None}
    IN  IF matching = {} THEN None ELSE Taken(found(Earliest(matching)))

\* verify_fields_in_source: a field is kept only if its value occurs in the
\* text, whatever it occurs there as.  A pattern's match always does.
OccursIn(text, value) ==
    \E k \in 1..Len(text), field \in Piece :
        /\ text[k][field] # None
        /\ value \in {text[k][field].value, Taken(text[k][field]).value}

VerifiedFields(text) ==
    {field \in Field : /\ Extract(text, field) # None
                       /\ OccursIn(text, Extract(text, field).value)}

\* int() does not take a decimal point: reading such an amount raises.
AmountRaises(text) ==
    /\ "amount" \in VerifiedFields(text)
    /\ Extract(text, "amount").wording \in WithPaise

FieldType ==
    [gstin |-> "GSTIN", invoice_number |-> "INVOICE_NUMBER",
     amount |-> "MONEY_PAISE", bank_account |-> "ACCOUNT_NUMBER"]

\* The value every later one of the message derives from.
IngestSources(mail) ==
    {"EXTERNAL_EMAIL"} \cup
    (IF mail.attachments = <<>> THEN {} ELSE {"EXTERNAL_ATTACHMENT"})

-----------------------------------------------------------------------------
(* The unprotected agent's patterns know the printed wordings only: they   *)
(* cut the paise off an amount, and take an account of any length.         *)

Printed ==
    [gstin |-> {"usual"}, invoice_number |-> {"usual"},
     amount |-> {"usual", "total", "usual.00", "total.00"},
     bank_account |-> {"usual", "short", "long"}, export |-> {"usual"}]

BaselineFind(text, field) ==
    LET mention == First(text, field, Printed[field])
    IN  IF mention = None THEN None ELSE mention.value

BaselineReadsInvoice(text) == \A field \in Field : BaselineFind(text, field) # None
=============================================================================
