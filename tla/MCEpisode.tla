------------------------------ MODULE MCEpisode ------------------------------
(* Small instances of Episode. *)
EXTENDS Episode

Doc(supplier, account, invoice, terms) ==
    [supplier |-> supplier, account |-> account, invoice |-> invoice, terms |-> terms]

\* An unreadable document, one of an unknown supplier, one whose new account
\* is refused and whose payment to the account on file is not, and one that
\* names no account and needs a signature.
MCReadings ==
  LET i == CHOOSE any \in Invoices : TRUE
  IN
    { Doc("unnamed", None, None, "beyond"),
      Doc("unknown", None, i, "within"),
      Doc("known", "new", i, "within"),
      Doc("known", None, i, "unsigned") }

=============================================================================
