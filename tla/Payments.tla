------------------------------ MODULE Payments ------------------------------
(***************************************************************************)
(* What the enforcement point promises about money, with nothing of how.   *)
(*                                                                         *)
(* A payment made without a human goes to an account that the vendor       *)
(* master held for that vendor, as an active vendor, in the version the    *)
(* payment relied on; its amount is within the mandate's cap and its       *)
(* auto-approve limit; and, when payments are made one at a time, no       *)
(* invoice of a vendor is paid twice.  guarantees G1 and G2 of             *)
(* docs/threat-model.md, read from pep.py, fact_checkers.py and pay.cedar. *)
(***************************************************************************)
EXTENDS Naturals, Sequences

CONSTANTS
    Vendors, Accounts, Invoices, Amounts,
    Calls,       \* identities of pay_vendor calls
    MaxAmount,   \* mandate.max_amount_paise
    AutoLimit,   \* mandate.auto_approve_limit_paise
    Exclusive    \* TRUE when payments are made one at a time

VARIABLES
    rows,        \* vendor -> the versions of its record, the last one current
    paid         \* the payments made

vars == <<rows, paid>>

Row == [account : Accounts, status : {"ACTIVE", "BLOCKED"}]

Payment == [txn : Calls, vendor : Vendors, invoice : Invoices,
            amount : Amounts, account : Accounts, asOf : Nat]

Init ==
    /\ rows \in [Vendors -> {<<row>> : row \in Row}]
    /\ paid = {}

\* The company changes a vendor's record.
ChangeMaster(v) ==
    /\ \E row \in Row : rows' = [rows EXCEPT ![v] = Append(@, row)]
    /\ UNCHANGED paid

Permitted(p) ==
    /\ p.asOf \in 1..Len(rows[p.vendor])
    /\ rows[p.vendor][p.asOf] = [account |-> p.account, status |-> "ACTIVE"]
    /\ p.amount <= MaxAmount
    /\ p.amount <= AutoLimit
    /\ \A q \in paid :
        /\ q.txn # p.txn
        /\ Exclusive => <<q.vendor, q.invoice>> # <<p.vendor, p.invoice>>

Settle(p) ==
    /\ Permitted(p)
    /\ paid' = paid \cup {p}
    /\ UNCHANGED rows

\* asOf is bounded by the versions there are, so that the choice is finite.
Next ==
    \/ \E v \in Vendors : ChangeMaster(v)
    \/ \E p \in [txn : Calls, vendor : Vendors, invoice : Invoices,
                 amount : Amounts, account : Accounts,
                 asOf : UNION {1..Len(rows[v]) : v \in Vendors}] : Settle(p)

Spec == Init /\ [][Next]_vars
=============================================================================
