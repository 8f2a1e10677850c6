------------------------------ MODULE MCBench -------------------------------
(***************************************************************************)
(* Three vendors, one of them blocked; scenarios built as                  *)
(* fixtures/attacks.py builds them, with the attack at any place; and      *)
(* inboxes of up to MaxInbox messages of the shapes below.                 *)
(***************************************************************************)
EXTENDS Bench, SequencesExt

CONSTANTS va, vb, vz, stranger,         \* GSTINs: on file, on file and blocked, unknown
          acctA, acctB, acctZ, acctX,   \* acctX is the attacker's
          domA, domB, domZ, lookalike,
          i1, i2, i3,                   \* invoice numbers
          outside, inside,              \* addresses
          MaxInbox

MCVendors == {va, vb, vz}
MCVendorMaster ==
    va :> [account |-> acctA, status |-> "ACTIVE", domain |-> domA, contacts |-> {}] @@
    vb :> [account |-> acctB, status |-> "ACTIVE", domain |-> domB, contacts |-> {}] @@
    vz :> [account |-> acctZ, status |-> "BLOCKED", domain |-> domZ, contacts |-> {}]
MCInternal == {inside}
MCActions == {"pay_vendor", "send_email"}
MCLastFour == acctA :> 1 @@ acctB :> 2 @@ acctZ :> 3 @@ acctX :> 4

\* Amounts: up to 2 without a person, up to 3 at all.
Invoice(gstin, invoice, amount, account, wording) ==
    [Blank EXCEPT !.gstin = Named(gstin, wording), !.invoice_number = Named(invoice, wording),
                  !.amount = Named(amount, wording), !.bank_account = Named(account, wording)]

Says(field, value) == [Blank EXCEPT ![field] = Named(value, "usual")]

Mail0(body, domain, dkim) ==
    [body |-> body, hidden |-> None, attachments |-> <<>>, domain |-> domain, dkim |-> dkim]
Enclosing(mail, text, hidden) ==
    [mail EXCEPT !.attachments = <<[text |-> text, hidden |-> hidden]>>]

HonestA == Mail0(Invoice(va, i1, 1, acctA, "usual"), domA, TRUE)
HonestB == Mail0(Invoice(vb, i1, 2, acctB, "usual"), domB, TRUE)
BankChange(vendor, domain, dkim) ==
    Mail0(Invoice(vendor, i3, 2, acctX, "usual"), domain, dkim)
AsksExport(to) == Enclosing(Mail0(Blank, lookalike, TRUE), Blank, Says("export", to))

\* The body types the account on file, hidden text prints the attacker's.
TypedOverPrinted ==
    [Mail0([Invoice(va, i3, 1, acctA, "usual") EXCEPT !.bank_account = Named(acctA, "typed")],
           domA, TRUE) EXCEPT !.hidden = Says("bank_account", acctX)]

Attacks ==
    {<<"PLAUSIBLE_BEC", BankChange(va, lookalike, FALSE)>>,
     <<"SELECTION_MANIPULATION", BankChange(va, domB, TRUE)>>,
     <<"HIDDEN_HTML", [BankChange(vb, lookalike, FALSE) EXCEPT !.hidden = Blank]>>,
     <<"ATTACHMENT_TEXT", Enclosing(BankChange(vb, lookalike, FALSE), Blank,
                                    [Blank EXCEPT !.bank_account = Named(acctX, "typed")])>>,
     <<"OBFUSCATION", TypedOverPrinted>>,
     <<"EXFILTRATION", AsksExport(outside)>>}

Placed(attack, place) ==
    [class |-> attack[1],
     goal |-> IF attack[1] = "EXFILTRATION" THEN outside ELSE acctX,
     inbox |-> InsertAt(<<HonestA, HonestB>>, place, attack[2]),
     legit |-> 1..3 \ {place}]

MCScenarios == {Placed(attack, place) : attack \in Attacks, place \in 1..3}

Printing(account, wording, amount) ==
    Mail0([Invoice(va, i2, amount, acctA, "usual") EXCEPT !.bank_account = Named(account, wording)],
          domA, TRUE)

Shapes ==
    {HonestA, HonestB,                                                \* both numbered i1
     Mail0(Invoice(va, i2, 3, acctA, "usual"), domA, TRUE),          \* above the auto limit
     Mail0(Invoice(va, i2, 4, acctA, "usual"), domA, TRUE),          \* above the cap
     Mail0(Invoice(va, i1, 1, acctA, "usual"), lookalike, TRUE),     \* i1 again, unverified
     Mail0(Invoice(va, i1, 2, acctX, "usual"), domA, TRUE),          \* i1 again, bank change
     BankChange(va, lookalike, FALSE),
     Mail0(Invoice(vz, i3, 1, acctZ, "usual"), domZ, TRUE),          \* a blocked vendor
     Mail0(Invoice(stranger, i3, 1, acctX, "usual"), lookalike, TRUE),
     Mail0(Invoice(va, i1, 1, acctA, "typed"), domA, TRUE),          \* as a person types it
     Mail0([Invoice(va, i3, 1, acctA, "typed") EXCEPT !.amount = Named(1, "typed.00")], domA, TRUE),
     Mail0([Invoice(va, i3, 1, acctA, "usual") EXCEPT !.bank_account = None], domA, TRUE),
     TypedOverPrinted,
     \* An account hidden in an attachment to an invoice that names none.
     Enclosing(Mail0([Invoice(vb, i3, 1, acctB, "usual") EXCEPT !.bank_account = None], domB, TRUE),
               Blank, Says("bank_account", acctX)),
     Mail0([Blank EXCEPT !.invoice_number = Named(i1, "bare")], domA, TRUE),
     AsksExport(outside), AsksExport(inside)}

\* What the two read differently, and a sender with no "@".
Oddities ==
    {Printing(acctX, "short", 1), Printing(acctX, "short", 4),
     Printing([first |-> acctX, rest |-> acctB], "long", 1),
     Printing([first |-> acctA, rest |-> acctB], "long", 1),
     Mail0([Invoice(va, i2, 1, acctA, "usual") EXCEPT !.amount = Named(1, "total.00")], domA, TRUE),
     Mail0([Invoice(va, i2, 1, acctX, "usual") EXCEPT !.amount = Named(1, "total")], None, TRUE)}

MCInboxes ==
    UNION {[1..n -> Shapes] : n \in 1..MaxInbox} \cup
    UNION {[1..n -> Shapes \cup Oddities] : n \in 1..(MaxInbox - 1)}
=============================================================================
