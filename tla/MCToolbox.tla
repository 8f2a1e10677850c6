----------------------------- MODULE MCToolbox ------------------------------
(***************************************************************************)
(* One message from outside that names a vendor's GSTIN, the attacker's    *)
(* account, an amount and an address, and a reader that answers as a       *)
(* careful one would, and as one that puts each string where it does most  *)
(* harm.                                                                   *)
(***************************************************************************)
EXTENDS Toolbox, TLC

CONSTANTS m1, va, ga, acctA, acctX, domA, i1, outside, inside

MCVendorMaster ==
    va :> [account |-> acctA, status |-> "ACTIVE", domain |-> domA, gstin |-> ga,
           contacts |-> {outside}]

Hostile ==
    [Blank EXCEPT !.gstin = Named(ga, "usual"), !.invoice_number = Named(i1, "usual"),
                  !.amount = Named(1, "usual"), !.bank_account = Named(acctX, "usual"),
                  !.export = Named(outside, "usual")]

MCContent ==
    m1 :> [body |-> Hostile, hidden |-> None,
           attachments |-> <<[text |-> [Blank EXCEPT !.export = Named(inside, "usual")],
                              hidden |-> None]>>,
           domain |-> domA, dkim |-> TRUE]

Answer(gstin, invoice, amount, account, name) ==
    [gstin |-> gstin, invoice_number |-> invoice, amount |-> amount,
     bank_account |-> account, vendor_name |-> name]

\* In turn: the invoice, and an address within; an account on file read as one, as an amount,
\* and as a name; an address read as a name; an amount read again.
MCExtractions ==
    {Answer(ga, i1, 1, acctX, inside), Answer(None, None, acctA, acctA, acctA),
     Answer(None, None, 10, None, outside)}

\* One digit string reads ten times higher once it is an amount in paise.
MCPaise == [string \in {ga, i1, acctA, acctX, outside, inside, 1, 10} |->
               CASE string = 1 -> 10 [] string = 10 -> 100 [] OTHER -> None]
=============================================================================
