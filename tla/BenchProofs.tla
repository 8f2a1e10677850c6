----------------------------- MODULE BenchProofs -----------------------------
(* Theorems about Bench, for every value of its constants. *)
EXTENDS Bench, FiniteSetTheorems, WellFoundedInduction, TLAPS

-----------------------------------------------------------------------------
(* Sequences of anything. *)

IsSeq(s) == Len(s) \in Nat /\ s = [k \in 1..Len(s) |-> s[k]]

\* The elements of a sequence make a set it is a sequence over.
LEMMA SeqOverItself ==
    ASSUME NEW s, IsSeq(s), NEW S, \A k \in 1..Len(s) : s[k] \in S
    PROVE  s \in Seq(S)
BY DEF IsSeq

\* A sequence over some set is one.
LEMMA SeqIsSeq == ASSUME NEW S, NEW s \in Seq(S) PROVE IsSeq(s)
BY DEF IsSeq

\* What is appended to a sequence comes after it.
LEMMA ConcatSeqs ==
    ASSUME NEW s, NEW t, IsSeq(s), IsSeq(t)
    PROVE  /\ IsSeq(s \o t)
           /\ Len(s \o t) = Len(s) + Len(t)
           /\ \A k \in 1..Len(s) : (s \o t)[k] = s[k]
           /\ \A k \in 1..Len(t) : (s \o t)[Len(s) + k] = t[k]
<1>. DEFINE S == {s[k] : k \in 1..Len(s)} \cup {t[k] : k \in 1..Len(t)}
<1>1. s \in Seq(S) /\ t \in Seq(S)
  BY SeqOverItself
<1>. HIDE DEF S
<1>2. s \o t \in Seq(S) /\ Len(s \o t) = Len(s) + Len(t)
  BY <1>1
<1>3. Len(s) \in Nat /\ Len(t) \in Nat
  BY DEF IsSeq
<1>4. \A k \in 1..Len(s) : (s \o t)[k] = s[k]
  BY <1>1, <1>3
<1>5. \A k \in 1..Len(t) : (s \o t)[Len(s) + k] = t[k]
  BY <1>1, <1>3
<1>. QED
  BY <1>2, <1>4, <1>5, SeqIsSeq

\* The last element is the one appended.
LEMMA AppendSeq ==
    ASSUME NEW s, IsSeq(s), NEW e
    PROVE  /\ IsSeq(Append(s, e))
           /\ Len(Append(s, e)) = Len(s) + 1
           /\ \A k \in 1..Len(s) : Append(s, e)[k] = s[k]
           /\ Append(s, e)[Len(s) + 1] = e
<1>. DEFINE S == {s[k] : k \in 1..Len(s)} \cup {e}
<1>1. s \in Seq(S) /\ e \in S
  BY SeqOverItself
<1>. HIDE DEF S
<1>2. Append(s, e) \in Seq(S) /\ Len(Append(s, e)) = Len(s) + 1
  BY <1>1
<1>3. Len(s) \in Nat
  BY DEF IsSeq
<1>4. \A k \in 1..Len(s) : Append(s, e)[k] = s[k]
  BY <1>1, <1>3
<1>5. Append(s, e)[Len(s) + 1] = e
  BY <1>1, <1>3
<1>. QED
  BY <1>2, <1>4, <1>5, SeqIsSeq

\* Short sequences.
LEMMA ShortSeqs ==
    ASSUME NEW a, NEW b
    PROVE  /\ IsSeq(<<>>) /\ Len(<<>>) = 0
           /\ IsSeq(<<a>>) /\ Len(<<a>>) = 1 /\ <<a>>[1] = a
           /\ IsSeq(<<a, b>>) /\ Len(<<a, b>>) = 2 /\ <<a, b>>[1] = a /\ <<a, b>>[2] = b
<1>1. <<>> \in Seq({}) /\ <<a>> \in Seq({a}) /\ <<a, b>> \in Seq({a, b})
  OBVIOUS
<1>2. IsSeq(<<>>) /\ IsSeq(<<a>>) /\ IsSeq(<<a, b>>)
  BY <1>1, SeqIsSeq
<1>. QED
  BY <1>2

\* A set of places has an earliest one.
LEMMA EarliestIsFirst ==
    ASSUME NEW places, places \subseteq Nat, places # {}
    PROVE  Earliest(places) \in places /\ \A k \in places : Earliest(places) <= k
<1>. DEFINE R == {pair \in Nat \X Nat : pair[1] < pair[2]}
<1>1. IsWellFoundedOn(R, Nat)
  BY NatLessThanWellFounded DEF OpToRel
<1>. HIDE DEF R
<1>2. PICK first \in places : \A k \in places : <<k, first>> \notin R
  BY <1>1, WFMin
<1>3. \A k \in places : first <= k
  <2>. SUFFICES ASSUME NEW k \in places, ~(first <= k) PROVE FALSE
    OBVIOUS
  <2>1. k \in Nat /\ first \in Nat /\ k < first
    OBVIOUS
  <2>2. <<k, first>> \in Nat \X Nat /\ <<k, first>>[1] = k /\ <<k, first>>[2] = first
    BY <2>1
  <2>3. <<k, first>> \in R
    BY <2>1, <2>2 DEF R
  <2>. QED
    BY <1>2, <2>3
<1>. QED
  BY <1>3 DEF Earliest

-----------------------------------------------------------------------------
(* What a reader makes of a text. *)

\* A mention that is found is one there is, in one of the wordings asked for;
\* and one is found if there is any.
LEMMA FirstFinds ==
    ASSUME NEW text, NEW field, NEW wordings
    PROVE  /\ First(text, field, wordings) # None =>
                  \E k \in 1..Len(text) :
                      /\ First(text, field, wordings) = text[k][field]
                      /\ text[k][field] # None /\ text[k][field].wording \in wordings
           /\ (\E k \in 1..Len(text) :
                   text[k][field] # None /\ text[k][field].wording \in wordings) =>
                  First(text, field, wordings) # None
<1>. DEFINE hits == {k \in 1..Len(text) :
                        text[k][field] # None /\ text[k][field].wording \in wordings}
<1>1. CASE hits = {}
  BY <1>1 DEF First
<1>2. CASE hits # {}
  <2>1. hits \subseteq Nat
    OBVIOUS
  <2>2. Earliest(hits) \in hits
    BY <1>2, <2>1, EarliestIsFirst
  <2>3. First(text, field, wordings) = text[Earliest(hits)][field]
    BY <1>2 DEF First
  <2>. QED
    BY <2>2, <2>3
<1>. QED
  BY <1>1, <1>2

\* The reader's answer is the first that one of its patterns finds, as it
\* stands in the text but for an account of too many digits; and it finds what
\* the unprotected agent does, but for an account of too few.
LEMMA ExtractFinds ==
    ASSUME NEW text, NEW field \in Piece
    PROVE  /\ Extract(text, field) # None =>
                  \E k \in 1..Len(text) :
                      /\ text[k][field] # None
                      /\ Extract(text, field) = Taken(text[k][field])
                      /\ text[k][field].wording # "long" => Extract(text, field) = text[k][field]
                      /\ field # "bank_account" => Extract(text, field) = text[k][field]
           /\ First(text, field, Printed[field]) # None /\ field # "bank_account" =>
                  Extract(text, field) # None
<1>. DEFINE found(k) == First(text, field, Patterns[field][k])
            matching == {k \in 1..Len(Patterns[field]) : found(k) # None}
<1>1. Extract(text, field) = IF matching = {} THEN None ELSE Taken(found(Earliest(matching)))
  BY DEF Extract
<1>2. matching # {} => Earliest(matching) \in matching
  <2>1. matching \subseteq Nat
    OBVIOUS
  <2>. HIDE DEF matching
  <2>. QED
    BY <2>1, EarliestIsFirst
<1>3. ASSUME matching # {}
      PROVE  \E k \in 1..Len(text) :
                 /\ text[k][field] # None
                 /\ Extract(text, field) = Taken(text[k][field])
                 /\ text[k][field].wording # "long" => Extract(text, field) = text[k][field]
                 /\ field # "bank_account" => Extract(text, field) = text[k][field]
  <2>1. PICK p \in 1..Len(Patterns[field]) :
            found(p) # None /\ Extract(text, field) = Taken(found(p))
    BY <1>1, <1>2, <1>3
  <2>2. PICK wordings : wordings = Patterns[field][p]
    OBVIOUS
  <2>3. PICK k \in 1..Len(text) :
            /\ First(text, field, wordings) = text[k][field]
            /\ text[k][field] # None /\ text[k][field].wording \in wordings
    BY <2>1, <2>2, FirstFinds
  <2>4. field # "bank_account" => "long" \notin wordings
    BY <2>2 DEF Patterns, Piece, Field
  <2>5. Extract(text, field) = Taken(text[k][field])
    BY <2>1, <2>2, <2>3
  <2>6. text[k][field].wording # "long" => Extract(text, field) = text[k][field]
    BY <2>5 DEF Taken
  <2>. QED
    BY <2>3, <2>4, <2>5, <2>6
<1>4. ASSUME First(text, field, Printed[field]) # None, field # "bank_account"
      PROVE  matching # {}
  <2>1. PICK k \in 1..Len(text) :
            text[k][field] # None /\ text[k][field].wording \in Printed[field]
    BY <1>4, FirstFinds
  <2>2. \A wording \in Printed[field] :
            \E p \in 1..Len(Patterns[field]) : wording \in Patterns[field][p]
    <3>1. CASE field = "amount"
      <4>1. /\ Printed[field] = {"usual", "total", "usual.00", "total.00"}
            /\ Patterns[field] = <<{"typed", "total", "typed.00", "total.00"},
                                   {"usual", "usual.00"}>>
        BY <3>1 DEF Patterns, Printed
      <4>. QED
        BY <4>1
    <3>2. CASE field # "amount"
      <4>1. /\ Printed[field] = {"usual"} /\ 1 \in 1..Len(Patterns[field])
            /\ "usual" \in Patterns[field][1]
        BY <1>4, <3>2 DEF Patterns, Printed, Piece, Field
      <4>. QED
        BY <4>1
    <3>. QED
      BY <3>1, <3>2
  <2>3. PICK p \in 1..Len(Patterns[field]) : text[k][field].wording \in Patterns[field][p]
    BY <2>1, <2>2
  <2>4. found(p) # None
    BY <2>1, <2>3, FirstFinds
  <2>. QED
    BY <2>4
<1>5. Extract(text, field) # None => matching # {}
  BY <1>1
<1>. HIDE DEF matching
<1>6. ASSUME First(text, field, Printed[field]) # None, field # "bank_account"
      PROVE  Extract(text, field) # None
  BY <1>3, <1>4, <1>6
<1>. QED
  BY <1>3, <1>5, <1>6

\* Whatever the reader finds survives verification.
LEMMA FoundIsVerified ==
    ASSUME NEW text, NEW field \in Field, Extract(text, field) # None
    PROVE  field \in VerifiedFields(text)
<1>1. PICK k \in 1..Len(text) :
          text[k][field] # None /\ Extract(text, field) = Taken(text[k][field])
  BY ExtractFinds DEF Piece
<1>. QED
  BY <1>1 DEF VerifiedFields, OccursIn, Piece

InvoiceRead(text) == {"gstin", "invoice_number", "amount"} \subseteq VerifiedFields(text)

\* What is an invoice to the unprotected agent is one to the other as well.
LEMMA BothReadInvoices ==
    ASSUME NEW text, BaselineReadsInvoice(text)
    PROVE  InvoiceRead(text)
<1>1. ASSUME NEW field \in {"gstin", "invoice_number", "amount"}
      PROVE  field \in VerifiedFields(text)
  <2>1. First(text, field, Printed[field]) # None
    BY DEF BaselineReadsInvoice, BaselineFind, Field
  <2>. QED
    BY <2>1, ExtractFinds, FoundIsVerified DEF Piece, Field
<1>. QED
  BY <1>1 DEF InvoiceRead

\* Where a field is mentioned only once both read the same, if both read it,
\* but for an account of too many digits.
LEMMA BothReadAlike ==
    ASSUME NEW text, Len(text) \in Nat, NEW field \in Field,
           BaselineFind(text, field) # None,
           Cardinality(Mentions(text, field)) = 1,
           Extract(text, field) # None,
           \A k \in 1..Len(text) :
               text[k][field] # None /\ text[k][field].wording = "long" =>
                   field # "bank_account" \/ text[k][field].value # BaselineFind(text, field)
    PROVE  Extract(text, field).value = BaselineFind(text, field)
<1>1. PICK only : Mentions(text, field) = {only}
  <2>1. IsFiniteSet(Mentions(text, field))
    <3>1. IsFiniteSet(1..Len(text))
      BY FS_Interval
    <3>. QED
      BY <3>1, FS_Subset DEF Mentions
  <2>. QED
    BY <2>1, FS_Singleton
<1>2. \A j, k \in 1..Len(text) : text[j][field] # None /\ text[k][field] # None => j = k
  BY <1>1 DEF Mentions
<1>3. First(text, field, Printed[field]) # None
      /\ BaselineFind(text, field) = First(text, field, Printed[field]).value
  BY DEF BaselineFind
<1>4. PICK k \in 1..Len(text) :
          First(text, field, Printed[field]) = text[k][field] /\ text[k][field] # None
  BY <1>3, FirstFinds
<1>5. PICK j \in 1..Len(text) :
          /\ text[j][field] # None
          /\ text[j][field].wording # "long" => Extract(text, field) = text[j][field]
          /\ field # "bank_account" => Extract(text, field) = text[j][field]
  BY ExtractFinds DEF Piece
<1>6. j = k
  BY <1>2, <1>4, <1>5
<1>7. Extract(text, field) = text[k][field]
  BY <1>3, <1>4, <1>5, <1>6
<1>. QED
  BY <1>3, <1>4, <1>7

\* An account on file that is printed is never of too many digits.
LEMMA FileIsNotLong ==
    ASSUME NEW inbox, InboxOK(inbox), NEW m \in 1..Len(inbox), NEW vendor \in Vendors,
           BaselineFind(FullText(inbox[m]), "bank_account") = VendorMaster[vendor].account
    PROVE  LET text == FullText(inbox[m])
           IN  \A k \in 1..Len(text), field \in Field :
                   text[k][field] # None /\ text[k][field].wording = "long" =>
                       field # "bank_account" \/ text[k][field].value # BaselineFind(text, field)
BY DEF InboxOK

-----------------------------------------------------------------------------
(* The inductive invariant.                                                *)

JobOK ==
    /\ InboxOK(job.inbox)
    /\ job.class \in Class \cup {"none"}
    /\ job.legit \subseteq Mails

\* The two agents take their turns, the second with stores of its own.
TurnOK ==
    /\ turn \in {"idle", "baseline", "hallmark", "raised"}
    /\ at \in 1..(Len(job.inbox) + 1)
    /\ turn = "idle" => at = Len(job.inbox) + 1
    /\ turn = "baseline" =>
           trail = <<>> /\ edges = {} /\ ledger = <<>> /\ reading = None /\ summary.outcomes = <<>>
    /\ reading # None => turn = "hallmark" /\ at \in Mails
    /\ table # <<>> => turn = "idle"

\* The unprotected agent pays what it reads.
AsRead(payment) ==
    LET text == FullText(job.inbox[payment.mail])
    IN  /\ payment.mail \in Mails
        /\ BaselineReadsInvoice(text)
        /\ payment.vendor \in Vendors
        /\ payment.vendor = BaselineFind(text, "gstin")
        /\ payment.invoice = BaselineFind(text, "invoice_number")
        /\ payment.amount = BaselineFind(text, "amount")
        /\ payment.account = BaselineFind(text, "bank_account")

BaseOK ==
    /\ IsSeq(base.payments)
    /\ base = [payments |-> base.payments, sends |-> base.sends, skipped |-> base.skipped]
    /\ \A k \in 1..Len(base.payments) : AsRead(base.payments[k])

ValueOK(node) ==
    /\ "tool" \notin DOMAIN node
    /\ node.vtype \in ValueType
    /\ node.sources \subseteq Source
    /\ node.confidentiality \in Confidentiality

\* What the enforcement point lets out.
LetOut(decision) ==
    IF decision.tool = "pay_vendor" THEN PaysFile(decision)
    ELSE ~BaselineReadsInvoice(FullText(job.inbox[decision.mail]))

ArgsOf(decision) == {decision.args[name] : name \in DOMAIN decision.args}

TrailOK ==
    /\ IsSeq(trail)
    /\ \A k \in Values : ValueOK(trail[k])
    /\ \A k \in Decisions :
          /\ trail[k].mail \in 1..Len(summary.outcomes)
          /\ ArgsOf(trail[k]) \subseteq Values
          /\ trail[k].tool = "pay_vendor" => {"account", "vendor"} \subseteq DOMAIN trail[k].args
          /\ trail[k].outcome = "EXECUTED" => LetOut(trail[k])

-----------------------------------------------------------------------------
(* Where the values of the trail come from.                                *)

Root(node) == node \in Values /\ ParentsOf(edges, node) = {}

\* Read off the body of message m, or chosen by what was.
ReadOff(node, m) ==
    /\ node \in Values
    /\ \E body \in Values :
          ParentsOf(edges, node) = {body} /\ Root(body) /\ trail[body].value = m

Selected(node, m) ==
    /\ node \in Values
    /\ \E key \in Values : ParentsOf(edges, node) = {key} /\ ReadOff(key, m)

\* The arguments that must go back to the message of the decision.
OfTheMail == {"vendor", "amount", "invoice", "recipient"}

ArgsRooted(decision) ==
    \A name \in DOMAIN decision.args :
        LET node == decision.args[name]
        IN  IF name \in OfTheMail
            THEN ReadOff(node, decision.mail) \/ Selected(node, decision.mail)
            ELSE \/ ReadOff(node, decision.mail)
                 \/ Root(node) /\ Trusted(trail[node])

EdgesOK ==
    /\ edges \subseteq [from : Values, to : 1..Len(trail), kind : EdgeKind]
    /\ \A node \in Values :
          \/ Root(node)
          \/ \E m \in Mails : ReadOff(node, m) \/ Selected(node, m)
    /\ \A k \in Decisions : ParentsOf(edges, k) = ArgsOf(trail[k]) /\ ArgsRooted(trail[k])

\* What has been read of the message being processed.
ReadingOK ==
    reading # None =>
        /\ DOMAIN reading.fields = VerifiedFields(Text)
        /\ Root(reading.body) /\ trail[reading.body].value = at
        /\ \A field \in VerifiedFields(Text) :
              /\ ReadOff(reading.fields[field], at)
              /\ FieldRead(field) = Extract(Text, field).value

-----------------------------------------------------------------------------

LedgerOK ==
    /\ IsSeq(ledger)
    /\ \A k \in 1..Len(ledger) :
          /\ ledger[k].vendor \in Vendors
          /\ ledger[k].amount \in 0..MaxAmount
          /\ ledger[k].tail = LastFour[VendorMaster[ledger[k].vendor].account]

LetSomethingOut(m) == \E k \in Decisions : trail[k].mail = m /\ trail[k].outcome = "EXECUTED"

PaidTheFile(m) ==
    \E k \in Decisions :
        trail[k].mail = m /\ trail[k].outcome = "EXECUTED" /\ PaysFile(trail[k])

\* One outcome a message, EXECUTED if something of it was let out.
SummaryOK ==
    /\ IsSeq(summary.outcomes)
    /\ turn # "baseline" => Len(summary.outcomes) = at - 1
    /\ \A m \in 1..Len(summary.outcomes) :
          (summary.outcomes[m].status = "EXECUTED") <=> LetSomethingOut(m)

ReportOK ==
    /\ IsSeq(report)
    /\ \A k \in 1..Len(report) :
          /\ report[k].class \in Class /\ report[k].config \in {"BASELINE", "HALLMARK"}
          /\ report[k].succeeded \in BOOLEAN
          /\ report[k].paid \in Nat /\ report[k].total \in Nat /\ report[k].paid <= report[k].total

\* A row says PAID when something of its message was let out, and beside a
\* payment to the attacker that was a payment to the account on file.
TableOK ==
    \A m \in 1..Len(table) :
        /\ (table[m].protected = "PAID") <=> LetSomethingOut(m)
        /\ (table[m].protected = "PAID" /\ table[m].unprotected = "PAID TO ATTACKER") =>
              PaidTheFile(m)

Paid(payment) ==
    \E n \in 1..Len(ledger) :
        /\ ledger[n].vendor = payment.vendor
        /\ ledger[n].invoice = payment.invoice
        /\ ledger[n].tail = LastFour[payment.account]

\* Payments in order, of messages already processed, were made.
PaidInOrder ==
    turn # "baseline" =>
        \A k \in 1..Len(base.payments) :
            InOrder(base.payments[k]) /\ base.payments[k].mail < at => Paid(base.payments[k])

IInv ==
    /\ JobOK /\ TurnOK /\ BaseOK
    /\ TrailOK /\ EdgesOK /\ ReadingOK
    /\ LedgerOK /\ SummaryOK /\ ReportOK /\ TableOK

-----------------------------------------------------------------------------
(* What the policies let through. *)

\* A payment that is executed goes to the account on file, within the cap; one
\* with nothing against it is executed.
LEMMA PaymentJudged ==
    ASSUME NEW vendor, NEW account, NEW amount, NEW verified, NEW paidBefore
    PROVE  LET judged == JudgePayment(PaymentContext(vendor, account, amount, verified, paidBefore))
           IN  /\ judged.outcome \in {"EXECUTED", "PENDING_APPROVAL", "DENIED"}
               /\ judged.outcome = "EXECUTED" =>
                      /\ account.value = VendorMaster[vendor].account
                      /\ amount.value <= MaxAmount
               /\ /\ "pay_vendor" \in AllowedActions
                  /\ account.value = VendorMaster[vendor].account /\ Trusted(account)
                  /\ VendorMaster[vendor].status = "ACTIVE"
                  /\ amount.value \in Nat /\ amount.value <= AutoLimit
                  /\ verified /\ ~paidBefore
                  => judged.outcome = "EXECUTED"
<1>. DEFINE ctx == PaymentContext(vendor, account, amount, verified, paidBefore)
            judged == JudgePayment(ctx)
<1>1. /\ ctx.allowedActions = AllowedActions /\ ctx.maxAmount = MaxAmount
      /\ ctx.autoLimit = AutoLimit /\ ctx.amount = amount.value
      /\ ctx.vendorStatus = VendorMaster[vendor].status
      /\ ctx.accountTrusted = Trusted(account)
      /\ ctx.accountMatches = (account.value = VendorMaster[vendor].account /\ Trusted(account))
      /\ ctx.matchVerified = verified /\ ctx.isDuplicate = paidBefore /\ ctx.humanApproved = FALSE
  BY DEF PaymentContext
<1>. HIDE DEF ctx
<1>2. judged.outcome \in {"EXECUTED", "PENDING_APPROVAL", "DENIED"}
      /\ (judged.outcome = "EXECUTED" <=> PayAllowed(ctx))
  BY DEF JudgePayment, Judged
<1>. HIDE DEF judged
<1>3. ASSUME PayAllowed(ctx)
      PROVE  account.value = VendorMaster[vendor].account /\ amount.value <= MaxAmount
  <2>1. "pay-account-must-be-master" \notin PayForbids(ctx)
    BY <1>3 DEF PayAllowed
  <2>2. ctx.accountMatches
    BY <2>1 DEF PayForbids
  <2>3. ctx.amount <= ctx.maxAmount
    BY <1>3 DEF PayAllowed, PayPermit
  <2>. QED
    BY <1>1, <2>2, <2>3
<1>4. ASSUME "pay_vendor" \in AllowedActions,
             account.value = VendorMaster[vendor].account, Trusted(account),
             VendorMaster[vendor].status = "ACTIVE",
             amount.value \in Nat, amount.value <= AutoLimit, verified, ~paidBefore
      PROVE  PayAllowed(ctx)
  <2>1. ctx.amount <= ctx.maxAmount /\ ~(ctx.amount > ctx.autoLimit)
    BY <1>1, <1>4, MandateAssumption
  <2>2. PayPermit(ctx)
    BY <1>1, <1>4, <2>1 DEF PayPermit
  <2>3. PayForbids(ctx) = {}
    <3>1. ctx.accountTrusted /\ ctx.accountMatches
      BY <1>1, <1>4
    <3>2. ctx.matchVerified /\ ~ctx.isDuplicate
      BY <1>1, <1>4
    <3>. QED
      BY <2>1, <3>1, <3>2 DEF PayForbids
  <2>. QED
    BY <2>2, <2>3 DEF PayAllowed
<1>. QED
  BY <1>2, <1>3, <1>4 DEF judged, ctx

\* One to any other account is refused for that, whatever else is wrong with it.
LEMMA DiversionJudged ==
    ASSUME NEW vendor, NEW account, NEW amount, NEW verified, NEW paidBefore,
           account.value # VendorMaster[vendor].account
    PROVE  LET judged == JudgePayment(PaymentContext(vendor, account, amount, verified, paidBefore))
           IN  judged.outcome = "DENIED" /\ judged.reason # "DUPLICATE_INVOICE"
<1>. DEFINE ctx == PaymentContext(vendor, account, amount, verified, paidBefore)
            approved == [ctx EXCEPT !.humanApproved = TRUE]
<1>1. ctx.accountMatches = FALSE /\ approved.accountMatches = FALSE
  BY DEF PaymentContext
<1>. HIDE DEF ctx, approved
<1>2. "pay-account-must-be-master" \in PayForbids(ctx)
      /\ "pay-account-must-be-master" \in PayForbids(approved)
  BY <1>1 DEF PayForbids
<1>3. ~PayAllowed(ctx) /\ ~PayAllowed(approved)
  BY <1>2 DEF PayAllowed
<1>4. ReasonFor(PayForbids(ctx)) = "ACCOUNT_NOT_FROM_VENDOR_MASTER"
  <2>. DEFINE ranks == {k \in 1..Len(ReasonPrecedence) : ReasonPrecedence[k] \in PayForbids(ctx)}
              first == CHOOSE k \in ranks : \A j \in ranks : k <= j
  <2>1. Len(ReasonPrecedence) = 6 /\ ReasonPrecedence[1] = "pay-account-must-be-master"
    BY DEF ReasonPrecedence
  <2>2. 1 \in ranks /\ \A j \in ranks : j \in Nat /\ 1 <= j
    BY <1>2, <2>1
  <2>. HIDE DEF ranks
  <2>3. first \in ranks /\ \A j \in ranks : first <= j
    BY <2>2
  <2>4. first = 1
    BY <2>2, <2>3
  <2>. HIDE DEF first
  <2>5. ReasonFor(PayForbids(ctx)) = IF ranks = {} THEN "POLICY_DENIED" ELSE PolicyReason[first]
    BY Zenon DEF ReasonFor, ranks, first
  <2>. QED
    BY <2>2, <2>4, <2>5 DEF PolicyReason
<1>5. JudgePayment(ctx).outcome = "DENIED"
      /\ JudgePayment(ctx).reason = "ACCOUNT_NOT_FROM_VENDOR_MASTER"
  BY <1>3, <1>4 DEF JudgePayment, Judged, approved
<1>. QED
  BY <1>5 DEF ctx

-----------------------------------------------------------------------------
(* The trail and its edges only grow. *)

\* What is stored comes after what was, which stays as it is.
LEMMA TrailGrows ==
    ASSUME IsSeq(trail), NEW stored, IsSeq(stored), trail' = trail \o stored
    PROVE  /\ IsSeq(trail)' /\ Len(trail) \in Nat /\ Len(stored) \in Nat
           /\ Len(trail') = Len(trail) + Len(stored)
           /\ \A k \in 1..Len(trail) : trail'[k] = trail[k]
           /\ \A k \in 1..Len(stored) : trail'[New(k)] = stored[k]
           /\ Values \subseteq Values' /\ Decisions \subseteq Decisions'
           /\ \A n \in 1..Len(trail') :
                 \/ n \in Values /\ n \in Values' /\ n \notin Decisions'
                 \/ n \in Decisions /\ n \in Decisions' /\ n \notin Values'
                 \/ \E k \in 1..Len(stored) :
                       /\ n = New(k)
                       /\ IF "tool" \in DOMAIN stored[k] THEN n \in Decisions' /\ n \notin Values'
                          ELSE n \in Values' /\ n \notin Decisions'
<1>1. /\ IsSeq(trail)' /\ Len(trail) \in Nat /\ Len(stored) \in Nat
      /\ Len(trail') = Len(trail) + Len(stored)
      /\ \A k \in 1..Len(trail) : trail'[k] = trail[k]
      /\ \A k \in 1..Len(stored) : trail'[New(k)] = stored[k]
  <2>1. /\ IsSeq(trail \o stored) /\ Len(trail \o stored) = Len(trail) + Len(stored)
        /\ \A k \in 1..Len(trail) : (trail \o stored)[k] = trail[k]
        /\ \A k \in 1..Len(stored) : (trail \o stored)[Len(trail) + k] = stored[k]
    BY ConcatSeqs
  <2>2. IsSeq(trail)' /\ Len(trail) \in Nat /\ Len(stored) \in Nat
    BY <2>1 DEF IsSeq
  <2>. QED
    BY <2>1, <2>2 DEF New
<1>2. Values \subseteq Values' /\ Decisions \subseteq Decisions'
  BY <1>1 DEF Values, Decisions
<1>3. \A n \in 1..Len(trail') : n \in 1..Len(trail) \/ \E k \in 1..Len(stored) : n = New(k)
  <2>. SUFFICES ASSUME NEW n \in 1..Len(trail'), n \notin 1..Len(trail)
                PROVE  \E k \in 1..Len(stored) : n = New(k)
    OBVIOUS
  <2>1. n - Len(trail) \in 1..Len(stored) /\ n = Len(trail) + (n - Len(trail))
    BY <1>1
  <2>. QED
    BY <2>1 DEF New
<1>4. ASSUME NEW k \in 1..Len(stored)
      PROVE  IF "tool" \in DOMAIN stored[k] THEN New(k) \in Decisions' /\ New(k) \notin Values'
             ELSE New(k) \in Values' /\ New(k) \notin Decisions'
  <2>1. New(k) \in 1..Len(trail')
    BY <1>1 DEF New
  <2>2. trail'[New(k)] = stored[k]
    BY <1>1
  <2>. QED
    BY <2>1, <2>2 DEF Values, Decisions
<1>5. ASSUME NEW n \in 1..Len(trail)
      PROVE  \/ n \in Values /\ n \in Values' /\ n \notin Decisions'
             \/ n \in Decisions /\ n \in Decisions' /\ n \notin Values'
  BY <1>1, <1>2 DEF Values, Decisions
<1>6. ASSUME NEW n \in 1..Len(trail')
      PROVE  \/ n \in Values /\ n \in Values' /\ n \notin Decisions'
             \/ n \in Decisions /\ n \in Decisions' /\ n \notin Values'
             \/ \E k \in 1..Len(stored) :
                   /\ n = New(k)
                   /\ IF "tool" \in DOMAIN stored[k] THEN n \in Decisions' /\ n \notin Values'
                      ELSE n \in Values' /\ n \notin Decisions'
  <2>1. CASE n \in 1..Len(trail)
    BY <1>5, <2>1
  <2>2. CASE \E k \in 1..Len(stored) : n = New(k)
    BY <1>4, <2>2
  <2>. QED
    BY <1>3, <2>1, <2>2
<1>. QED
  BY <1>1, <1>2, <1>6

\* What is stored has no parents yet but those it is given.
LEMMA EdgesGrow ==
    ASSUME IsSeq(trail), EdgesOK, NEW stored, IsSeq(stored), trail' = trail \o stored,
           NEW added, edges' = edges \cup added,
           \A e \in added : e.to \in Nat /\ Len(trail) < e.to
    PROVE  /\ \A n \in 1..Len(trail) : ParentsOf(edges', n) = ParentsOf(edges, n)
           /\ \A n \in Nat : Len(trail) < n => ParentsOf(edges', n) = {e.from : e \in {f \in added : f.to = n}}
           /\ \A n \in Values : Root(n) => Root(n)'
           /\ \A n \in Values : \A m : ReadOff(n, m) => ReadOff(n, m)'
           /\ \A n \in Values : \A m : Selected(n, m) => Selected(n, m)'
<1>1. Len(trail) \in Nat
  BY DEF IsSeq
<1>2. \A e \in edges : e.to \in 1..Len(trail)
  BY DEF EdgesOK
<1>3. \A n \in 1..Len(trail) : ParentsOf(edges', n) = ParentsOf(edges, n)
  <2>. SUFFICES ASSUME NEW n \in 1..Len(trail)
                PROVE  {f \in edges' : f.to = n} = {f \in edges : f.to = n}
    BY DEF ParentsOf
  <2>1. \A f \in added : f.to # n
    BY <1>1
  <2>. QED
    BY <2>1
<1>4. \A n \in Nat : Len(trail) < n => ParentsOf(edges', n) = {e.from : e \in {f \in added : f.to = n}}
  <2>. SUFFICES ASSUME NEW n \in Nat, Len(trail) < n
                PROVE  {f \in edges' : f.to = n} = {f \in added : f.to = n}
    BY DEF ParentsOf
  <2>1. \A f \in edges : f.to # n
    BY <1>1, <1>2
  <2>. QED
    BY <2>1
<1>5. Values \subseteq Values' /\ Values \subseteq 1..Len(trail)
      /\ \A k \in 1..Len(trail) : trail'[k] = trail[k]
  BY TrailGrows DEF Values
<1>6. \A n \in Values : Root(n) => Root(n)'
  BY <1>3, <1>5 DEF Root
<1>7. \A n \in Values : \A m : ReadOff(n, m) => ReadOff(n, m)'
  <2>. SUFFICES ASSUME NEW n \in Values, NEW m, ReadOff(n, m) PROVE ReadOff(n, m)'
    OBVIOUS
  <2>1. PICK body \in Values : ParentsOf(edges, n) = {body} /\ Root(body) /\ trail[body].value = m
    BY DEF ReadOff
  <2>2. /\ n \in Values' /\ body \in Values' /\ ParentsOf(edges', n) = {body}
        /\ Root(body)' /\ trail'[body].value = m
    BY <1>3, <1>5, <1>6, <2>1
  <2>. QED
    BY <2>2 DEF ReadOff
<1>8. \A n \in Values : \A m : Selected(n, m) => Selected(n, m)'
  <2>. SUFFICES ASSUME NEW n \in Values, NEW m, Selected(n, m) PROVE Selected(n, m)'
    OBVIOUS
  <2>1. PICK key \in Values : ParentsOf(edges, n) = {key} /\ ReadOff(key, m)
    BY DEF Selected
  <2>2. /\ n \in Values' /\ key \in Values' /\ ParentsOf(edges', n) = {key} /\ ReadOff(key, m)'
    BY <1>3, <1>5, <1>7, <2>1
  <2>. QED
    BY <2>2 DEF Selected
<1>. QED
  BY <1>3, <1>4, <1>6, <1>7, <1>8

-----------------------------------------------------------------------------
(* Steps that record nothing. *)

\* The empty sequence.
LEMMA NothingYet == Len(<<>>) = 0 /\ IsSeq(<<>>)
BY ShortSeqs

\* Nothing has run.
LEMMA InitInvariant == Init => IInv
<1>. SUFFICES ASSUME Init PROVE IInv
  OBVIOUS
<1>1. /\ job.inbox = <<>> /\ job.class = "none" /\ job.legit = {}
      /\ base = [payments |-> <<>>, sends |-> <<>>, skipped |-> <<>>]
      /\ trail = <<>> /\ edges = {} /\ ledger = <<>> /\ summary.outcomes = <<>>
      /\ report = <<>> /\ table = <<>> /\ turn = "idle" /\ at = 1 /\ reading = None
  BY DEF Init, NoBaseline
<1>2. Values = {} /\ Decisions = {}
  BY <1>1, NothingYet DEF Values, Decisions
<1>3. JobOK /\ TurnOK /\ BaseOK
  BY <1>1, NothingYet DEF JobOK, TurnOK, BaseOK, InboxOK, Mails, IsSeq
<1>4. TrailOK /\ EdgesOK /\ ReadingOK /\ LedgerOK /\ SummaryOK /\ ReportOK
  BY <1>1, <1>2, NothingYet DEF TrailOK, EdgesOK, ReadingOK, LedgerOK, SummaryOK, ReportOK
<1>5. TableOK
  <2>1. 1..Len(table) = {}
    BY <1>1, NothingYet
  <2>. QED
    BY <2>1 DEF TableOK
<1>. QED
  BY <1>3, <1>4, <1>5 DEF IInv

\* A scenario, or a comparison, begins with empty stores.
LEMMA StartInvariant ==
    ASSUME IInv, StartScenario \/ StartComparison
    PROVE  IInv'
<1>1. PICK next :
          /\ Start(next)
          /\ InboxOK(next.inbox) /\ next.class \in Class \cup {"none"}
          /\ next.legit \subseteq 1..Len(next.inbox)
  <2>1. CASE StartScenario
    <3>1. PICK scenario \in Scenarios : Start(scenario)
      BY <2>1 DEF StartScenario
    <3>2. InboxOK(scenario.inbox) /\ scenario.legit \subseteq 1..Len(scenario.inbox)
      BY MessagesAssumption
    <3>. QED
      BY <3>1, <3>2 DEF Class
  <2>2. CASE StartComparison
    <3>1. PICK inbox \in Inboxes :
              Start([class |-> "none", goal |-> "none", inbox |-> inbox, legit |-> {}])
      BY <2>2 DEF StartComparison
    <3>2. InboxOK(inbox)
      BY MessagesAssumption
    <3>. QED
      BY <3>1, <3>2
  <2>. QED
    BY <2>1, <2>2
<1>2. /\ job' = next /\ turn' = "baseline" /\ at' = 1 /\ reading' = None
      /\ base' = [payments |-> <<>>, sends |-> <<>>, skipped |-> <<>>]
      /\ trail' = <<>> /\ edges' = {} /\ ledger' = <<>> /\ summary'.outcomes = <<>>
      /\ report' = report /\ table' = table /\ table = <<>>
  BY <1>1 DEF Start, NoBaseline
<1>3. Values' = {} /\ Decisions' = {}
  BY <1>2, NothingYet DEF Values, Decisions
<1>4. JobOK'
  BY <1>1, <1>2 DEF JobOK, InboxOK, Mails, Class
<1>5. TurnOK'
  <2>1. Len(next.inbox) \in Nat
    BY <1>1 DEF InboxOK
  <2>. QED
    BY <1>2, <2>1 DEF TurnOK
<1>6. BaseOK'
  BY <1>2, NothingYet DEF BaseOK, IsSeq
<1>7. TrailOK' /\ EdgesOK' /\ ReadingOK' /\ LedgerOK' /\ SummaryOK'
  BY <1>2, <1>3, NothingYet DEF TrailOK, EdgesOK, ReadingOK, LedgerOK, SummaryOK, IsSeq
<1>8. ReportOK'
  BY <1>2 DEF IInv, ReportOK, IsSeq, Class
<1>9. TableOK'
  <2>1. 1..Len(table') = {}
    BY <1>2, NothingYet
  <2>. QED
    BY <2>1 DEF TableOK
<1>. QED
  BY <1>4, <1>5, <1>6, <1>7, <1>8, <1>9 DEF IInv

\* A step that leaves the job and its stores alone.
LEMMA StoresStay ==
    ASSUME IInv, UNCHANGED <<job, store>>,
           Len(summary'.outcomes) \in Nat, Len(summary.outcomes) <= Len(summary'.outcomes)
    PROVE  /\ JobOK' /\ TrailOK' /\ EdgesOK' /\ LedgerOK'
           /\ table' = table => TableOK'
           /\ Values' = Values /\ Decisions' = Decisions
<1>1. job' = job /\ trail' = trail /\ edges' = edges /\ ledger' = ledger
  BY DEF store
<1>2. Values' = Values /\ Decisions' = Decisions
  BY <1>1 DEF Values, Decisions
<1>3. Mails' = Mails
  BY <1>1 DEF Mails
<1>4. Len(summary.outcomes) \in Nat
  BY DEF IInv, SummaryOK, IsSeq
<1>5. JobOK'
  BY <1>1, <1>3 DEF IInv, JobOK, InboxOK, Class
<1>6. TrailOK'
  <2>1. IsSeq(trail)' /\ \A k \in Values' : ValueOK(trail[k])'
    BY <1>1, <1>2 DEF IInv, TrailOK, IsSeq, ValueOK
  <2>2. \A k \in Decisions : trail[k].mail \in 1..Len(summary'.outcomes)
    BY <1>4 DEF IInv, TrailOK
  <2>3. \A k \in Decisions :
            /\ ArgsOf(trail[k]) \subseteq Values
            /\ trail[k].tool = "pay_vendor" => {"account", "vendor"} \subseteq DOMAIN trail[k].args
            /\ trail[k].outcome = "EXECUTED" => LetOut(trail[k])
    BY DEF IInv, TrailOK
  <2>4. \A k \in Decisions : LetOut(trail[k])' <=> LetOut(trail[k])
    BY <1>1 DEF LetOut, PaysFile
  <2>. QED
    BY <1>1, <1>2, <2>1, <2>2, <2>3, <2>4 DEF TrailOK, ArgsOf
<1>7. EdgesOK'
  <2>1. \A n : Root(n)' <=> Root(n)
    BY <1>1, <1>2 DEF Root
  <2>2. \A n, m : ReadOff(n, m)' <=> ReadOff(n, m)
    BY <1>1, <1>2, <2>1 DEF ReadOff
  <2>3. \A n, m : Selected(n, m)' <=> Selected(n, m)
    BY <1>1, <1>2, <2>2 DEF Selected
  <2>4. \A k \in Decisions : ArgsRooted(trail[k])' <=> ArgsRooted(trail[k])
    BY <1>1, <2>1, <2>2, <2>3 DEF ArgsRooted
  <2>. QED
    BY <1>1, <1>2, <1>3, <2>1, <2>2, <2>3, <2>4 DEF IInv, EdgesOK, ArgsOf
<1>8. LedgerOK'
  BY <1>1 DEF IInv, LedgerOK, IsSeq
<1>9. table' = table => TableOK'
  <2>1. \A m : LetSomethingOut(m)' <=> LetSomethingOut(m)
    BY <1>1, <1>2 DEF LetSomethingOut
  <2>2. \A m : PaidTheFile(m)' <=> PaidTheFile(m)
    BY <1>1, <1>2 DEF PaidTheFile, PaysFile
  <2>3. TableOK
    BY DEF IInv
  <2>. QED
    BY <2>1, <2>2, <2>3 DEF TableOK
<1>. QED
  BY <1>2, <1>5, <1>6, <1>7, <1>8, <1>9

\* The unprotected agent's messages.
LEMMA BaselineInvariant ==
    ASSUME IInv, BaselinePays \/ BaselineSends \/ BaselineSkips
    PROVE  IInv'
<1>1. /\ BaselineTakes
      /\ \/ base' = base
         \/ \E payment : AsRead(payment) /\
                base' = [base EXCEPT !.payments = Append(@, payment)]
         \/ \E send : base' = [base EXCEPT !.sends = Append(@, send)]
         \/ \E mail : base' = [base EXCEPT !.skipped = Append(@, mail)]
  <2>1. CASE BaselinePays
    <3>. DEFINE payment == [mail |-> at, vendor |-> BaselineFind(Text, "gstin"),
                            invoice |-> BaselineFind(Text, "invoice_number"),
                            amount |-> BaselineFind(Text, "amount"),
                            account |-> BaselineFind(Text, "bank_account")]
    <3>1. /\ BaselineTakes /\ BaselineReadsInvoice(Text) /\ BaselineKnows
          /\ base' = [base EXCEPT !.payments = Append(@, payment)]
      BY <2>1 DEF BaselinePays
    <3>2. at \in Mails
      BY <3>1 DEF BaselineTakes
    <3>3. AsRead(payment)
      BY <3>1, <3>2 DEF AsRead, BaselineKnows, Text
    <3>. HIDE DEF payment
    <3>. QED
      BY <3>1, <3>3
  <2>2. CASE BaselineSends
    BY <2>2 DEF BaselineSends
  <2>3. CASE BaselineSkips
    BY <2>3 DEF BaselineSkips
  <2>. QED
    BY <2>1, <2>2, <2>3
<1>2. /\ turn = "baseline" /\ at \in Mails /\ at' = at + 1
      /\ job' = job /\ turn' = turn /\ reading' = reading /\ UNCHANGED store
      /\ trail' = trail /\ edges' = edges /\ ledger' = ledger
      /\ summary' = summary /\ report' = report /\ table' = table
  BY <1>1 DEF BaselineTakes, store
<1>3. Len(summary.outcomes) \in Nat
  BY DEF IInv, SummaryOK, IsSeq
<1>4. /\ JobOK' /\ TrailOK' /\ EdgesOK' /\ LedgerOK' /\ TableOK'
      /\ Values' = Values /\ Decisions' = Decisions
  BY <1>2, <1>3, StoresStay
<1>5. TurnOK'
  BY <1>2 DEF IInv, TurnOK, JobOK, InboxOK, Mails
<1>6. BaseOK'
  <2>1. /\ IsSeq(base.payments) /\ \A k \in 1..Len(base.payments) : AsRead(base.payments[k])
        /\ base = [payments |-> base.payments, sends |-> base.sends, skipped |-> base.skipped]
    BY DEF IInv, BaseOK
  <2>2. \A payment : AsRead(payment)' <=> AsRead(payment)
    BY <1>2 DEF AsRead, Mails
  <2>3. base' = [payments |-> base'.payments, sends |-> base'.sends, skipped |-> base'.skipped]
    BY <1>1, <2>1
  <2>4. CASE base'.payments = base.payments
    BY <2>1, <2>2, <2>3, <2>4 DEF BaseOK, IsSeq
  <2>5. CASE \E payment : AsRead(payment) /\ base'.payments = Append(base.payments, payment)
    <3>1. PICK payment : AsRead(payment) /\ base'.payments = Append(base.payments, payment)
      BY <2>5
    <3>2. /\ IsSeq(Append(base.payments, payment))
          /\ \A k \in 1..Len(Append(base.payments, payment)) :
                 AsRead(Append(base.payments, payment)[k])
      <4>1. Len(base.payments) \in Nat
        BY <2>1 DEF IsSeq
      <4>. QED
        BY <2>1, <3>1, <4>1, AppendSeq
    <3>3. IsSeq(base'.payments) /\ \A k \in 1..Len(base'.payments) : AsRead(base'.payments[k])
      BY <3>1, <3>2
    <3>. QED
      BY <2>2, <2>3, <3>3 DEF BaseOK, IsSeq
  <2>. QED
    BY <1>1, <2>1, <2>4, <2>5
<1>7. ReadingOK' /\ ReportOK'
  BY <1>2, <1>4 DEF IInv, TurnOK, ReadingOK, ReportOK, IsSeq, Class
<1>8. SummaryOK'
  <2>1. \A m : LetSomethingOut(m)' <=> LetSomethingOut(m)
    BY <1>2, <1>4 DEF LetSomethingOut
  <2>. QED
    BY <1>2, <2>1 DEF IInv, SummaryOK, IsSeq
<1>. QED
  BY <1>4, <1>5, <1>6, <1>7, <1>8 DEF IInv

\* What TableOK says is what the property says.
LEMMA TableIsTrue == TableOK => ComparisonDoesNotFlatter
<1>. SUFFICES ASSUME TableOK, NEW m \in 1..Len(table)
              PROVE  /\ (table[m].protected = "PAID") <=> m \in Executed(LAMBDA decision : TRUE)
                     /\ (table[m].protected = "PAID" /\ table[m].unprotected = "PAID TO ATTACKER") =>
                           m \in Executed(PaysFile)
  BY DEF ComparisonDoesNotFlatter
<1>1. m \in Executed(LAMBDA decision : TRUE) <=> LetSomethingOut(m)
  BY DEF Executed, LetSomethingOut
<1>2. m \in Executed(PaysFile) <=> PaidTheFile(m)
  BY DEF Executed, PaidTheFile
<1>3. /\ (table[m].protected = "PAID") <=> LetSomethingOut(m)
      /\ (table[m].protected = "PAID" /\ table[m].unprotected = "PAID TO ATTACKER") => PaidTheFile(m)
  BY DEF TableOK
<1>. QED
  BY <1>1, <1>2, <1>3

\* The unprotected agent's payments stay what they are.
LEMMA BaseStays == ASSUME IInv, job' = job, base' = base PROVE BaseOK'
<1>1. \A payment : AsRead(payment)' <=> AsRead(payment)
  BY DEF AsRead, Mails
<1>. QED
  BY <1>1 DEF IInv, BaseOK, IsSeq

\* A message is set aside, with no decision about it.
LEMMA FlagInvariant == ASSUME IInv, FlagUnreadable \/ FlagUnknownVendor PROVE IInv'
<1>1. /\ Acts
      /\ \E reason, flag : Concludes("FLAGGED", reason, flag)
      /\ UNCHANGED store
  BY DEF FlagUnreadable, FlagUnknownVendor
<1>2. PICK outcome :
          /\ outcome.status = "FLAGGED" /\ summary'.outcomes = Append(summary.outcomes, outcome)
          /\ at' = at + 1 /\ reading' = None
          /\ job' = job /\ turn' = turn /\ base' = base /\ report' = report /\ table' = table
  BY <1>1 DEF Concludes
<1>3. /\ turn = "hallmark" /\ at \in Mails /\ UNCHANGED <<job, store>>
      /\ trail' = trail /\ edges' = edges /\ ledger' = ledger
  BY <1>1, <1>2 DEF Acts, store
<1>4. /\ IsSeq(summary.outcomes) /\ Len(summary.outcomes) = at - 1
      /\ IsSeq(Append(summary.outcomes, outcome))
      /\ Len(Append(summary.outcomes, outcome)) = Len(summary.outcomes) + 1
      /\ \A m \in 1..Len(summary.outcomes) :
             Append(summary.outcomes, outcome)[m] = summary.outcomes[m]
      /\ Append(summary.outcomes, outcome)[Len(summary.outcomes) + 1] = outcome
  BY <1>3, AppendSeq DEF IInv, SummaryOK
<1>5. Len(summary.outcomes) \in Nat /\ Len(summary'.outcomes) = Len(summary.outcomes) + 1
      /\ at \in Nat /\ Len(job.inbox) \in Nat
  BY <1>2, <1>3, <1>4 DEF IsSeq, Mails, IInv, JobOK, InboxOK
<1>6. /\ JobOK' /\ TrailOK' /\ EdgesOK' /\ LedgerOK' /\ TableOK'
      /\ Values' = Values /\ Decisions' = Decisions
  BY <1>2, <1>3, <1>5, StoresStay
<1>7. TurnOK'
  BY <1>2, <1>3, <1>5 DEF IInv, TurnOK, Mails
<1>8. ReadingOK' /\ ReportOK' /\ BaseOK'
  BY <1>2, BaseStays DEF IInv, ReadingOK, ReportOK, IsSeq, Class
<1>9. SummaryOK'
  <2>1. \A m : LetSomethingOut(m)' <=> LetSomethingOut(m)
    BY <1>3, <1>6 DEF LetSomethingOut
  <2>2. ~LetSomethingOut(at)
    BY <1>4, <1>5 DEF IInv, TrailOK, LetSomethingOut
  <2>3. IsSeq(summary.outcomes)' /\ Len(summary'.outcomes) = at' - 1
    BY <1>2, <1>4, <1>5 DEF IsSeq
  <2>4. ASSUME NEW m \in 1..Len(summary'.outcomes)
        PROVE  (summary'.outcomes[m].status = "EXECUTED") <=> LetSomethingOut(m)
    <3>1. CASE m \in 1..Len(summary.outcomes)
      <4>1. summary'.outcomes[m] = summary.outcomes[m]
        BY <1>2, <1>4, <3>1
      <4>. QED
        BY <3>1, <4>1 DEF IInv, SummaryOK
    <3>2. CASE m \notin 1..Len(summary.outcomes)
      <4>1. m = at
        BY <1>4, <1>5, <3>2
      <4>2. summary'.outcomes[m] = outcome
        BY <1>2, <1>4, <1>5, <4>1
      <4>. QED
        BY <1>2, <2>2, <4>1, <4>2
    <3>. QED
      BY <3>1, <3>2
  <2>. QED
    BY <2>1, <2>3, <2>4 DEF SummaryOK
<1>. QED
  BY <1>6, <1>7, <1>8, <1>9 DEF IInv

\* Nothing changes but the turn.
LEMMA TurnInvariant ==
    ASSUME IInv, ReadRaises \/ SenderRaises \/ UNCHANGED vars
    PROVE  IInv'
<1>1. /\ job' = job /\ at' = at /\ base' = base /\ UNCHANGED store
      /\ trail' = trail /\ edges' = edges /\ ledger' = ledger
      /\ summary' = summary /\ report' = report /\ table' = table
      /\ \/ turn' = turn /\ reading' = reading
         \/ turn = "hallmark" /\ turn' = "raised" /\ reading' = None
  BY DEF ReadRaises, SenderRaises, Acts, store, vars
<1>2. Len(summary.outcomes) \in Nat
  BY DEF IInv, SummaryOK, IsSeq
<1>3. /\ JobOK' /\ TrailOK' /\ EdgesOK' /\ LedgerOK' /\ TableOK'
      /\ Values' = Values /\ Decisions' = Decisions
  BY <1>1, <1>2, StoresStay
<1>4. TurnOK'
  BY <1>1 DEF IInv, TurnOK, Mails
<1>5. BaseOK' /\ ReportOK'
  BY <1>1, BaseStays DEF IInv, ReportOK, IsSeq, Class
<1>6. ReadingOK'
  <2>1. CASE reading' = None
    BY <2>1 DEF ReadingOK
  <2>2. CASE reading' = reading /\ reading # None
    <3>1. \A n : Root(n)' <=> Root(n)
      BY <1>1, <1>3 DEF Root
    <3>2. \A n, m : ReadOff(n, m)' <=> ReadOff(n, m)
      BY <1>1, <1>3, <3>1 DEF ReadOff
    <3>3. Text' = Text
      BY <1>1 DEF Text
    <3>. QED
      BY <1>1, <2>2, <3>1, <3>2, <3>3 DEF IInv, ReadingOK, FieldRead
  <2>. QED
    BY <1>1, <2>1, <2>2
<1>7. SummaryOK'
  <2>1. \A m : LetSomethingOut(m)' <=> LetSomethingOut(m)
    BY <1>1, <1>3 DEF LetSomethingOut
  <2>. QED
    BY <1>1, <2>1 DEF IInv, SummaryOK, IsSeq
<1>. QED
  BY <1>3, <1>4, <1>5, <1>6, <1>7 DEF IInv

-----------------------------------------------------------------------------
(* The end of a run. *)

\* A row of the report counts no more than there is.
LEMMA RowAdded ==
    ASSUME IInv, job' = job, NEW row,
           report' = Append(report, row) \/ report' = report,
           row.class = job.class, row.config \in {"BASELINE", "HALLMARK"},
           row.succeeded \in BOOLEAN, row.paid \in Nat, row.total \in Nat, row.paid <= row.total,
           job.class # "none"
    PROVE  ReportOK'
<1>1. IsSeq(report) /\ Len(report) \in Nat /\ row.class \in Class
  BY DEF IInv, ReportOK, IsSeq, JobOK
<1>2. CASE report' = report
  BY <1>2 DEF IInv, ReportOK, IsSeq, Class
<1>3. CASE report' = Append(report, row)
  <2>1. /\ IsSeq(Append(report, row)) /\ Len(Append(report, row)) = Len(report) + 1
        /\ \A k \in 1..Len(report) : Append(report, row)[k] = report[k]
        /\ Append(report, row)[Len(report) + 1] = row
    BY <1>1, AppendSeq
  <2>2. IsSeq(report)'
    BY <1>3, <2>1 DEF IsSeq
  <2>3. ASSUME NEW k \in 1..Len(report')
        PROVE  \/ k \in 1..Len(report) /\ report'[k] = report[k]
               \/ report'[k] = row
    <3>1. k \in 1..Len(report) \/ k = Len(report) + 1
      BY <1>1, <1>3, <2>1
    <3>. QED
      BY <1>3, <2>1, <3>1
  <2>4. ASSUME NEW k \in 1..Len(report')
        PROVE  /\ report'[k].class \in Class /\ report'[k].config \in {"BASELINE", "HALLMARK"}
               /\ report'[k].succeeded \in BOOLEAN
               /\ report'[k].paid \in Nat /\ report'[k].total \in Nat
               /\ report'[k].paid <= report'[k].total
    <3>1. CASE k \in 1..Len(report) /\ report'[k] = report[k]
      BY <3>1 DEF IInv, ReportOK
    <3>2. CASE report'[k] = row
      BY <1>1, <3>2
    <3>. QED
      BY <2>3, <3>1, <3>2
  <2>. QED
    BY <2>2, <2>4 DEF ReportOK, Class
<1>. QED
  BY <1>2, <1>3

\* The legitimate messages are so many, and no part of them is more.
LEMMA LegitimateCounts ==
    ASSUME JobOK
    PROVE  /\ Cardinality(job.legit) \in Nat
           /\ \A S : Cardinality(S \cap job.legit) \in Nat
                     /\ Cardinality(S \cap job.legit) <= Cardinality(job.legit)
<1>1. IsFiniteSet(Mails)
  BY FS_Interval DEF JobOK, InboxOK, Mails
<1>2. IsFiniteSet(job.legit)
  BY <1>1, FS_Subset DEF JobOK
<1>3. ASSUME NEW S PROVE /\ Cardinality(S \cap job.legit) \in Nat
                         /\ Cardinality(S \cap job.legit) <= Cardinality(job.legit)
  <2>1. S \cap job.legit \subseteq job.legit
    OBVIOUS
  <2>2. IsFiniteSet(S \cap job.legit)
    BY <1>2, <2>1, FS_Subset
  <2>. QED
    BY <1>2, <2>1, <2>2, FS_Subset, FS_CardinalityType
<1>. QED
  BY <1>2, <1>3, FS_CardinalityType

\* The unprotected agent is through the inbox.
LEMMA BaselineDoneInvariant == ASSUME IInv, BaselineDone PROVE IInv'
<1>1. /\ turn = "baseline" /\ turn' = "hallmark" /\ at' = 1
      /\ job' = job /\ base' = base /\ reading' = reading /\ UNCHANGED store
      /\ trail' = trail /\ edges' = edges /\ ledger' = ledger
      /\ summary' = summary /\ table' = table
  BY DEF BaselineDone, store
<1>2. /\ trail = <<>> /\ edges = {} /\ reading = None /\ summary.outcomes = <<>>
      /\ Len(job.inbox) \in Nat
  BY <1>1 DEF IInv, TurnOK, JobOK, InboxOK
<1>3. Len(summary.outcomes) = 0
  BY <1>2, NothingYet
<1>4. /\ JobOK' /\ TrailOK' /\ EdgesOK' /\ LedgerOK' /\ TableOK'
      /\ Values' = Values /\ Decisions' = Decisions
  BY <1>1, <1>3, StoresStay
<1>5. TurnOK'
  BY <1>1, <1>2 DEF IInv, TurnOK
<1>6. BaseOK' /\ ReadingOK'
  BY <1>1, <1>2, BaseStays DEF ReadingOK
<1>7. SummaryOK'
  <2>1. IsSeq(summary.outcomes)' /\ Len(summary'.outcomes) = at' - 1 /\ 1..Len(summary'.outcomes) = {}
    BY <1>1, <1>2, <1>3, NothingYet DEF IsSeq
  <2>. QED
    BY <2>1 DEF SummaryOK
<1>8. ReportOK'
  <2>1. CASE job.class = "none"
    BY <1>1, <2>1 DEF BaselineDone, IInv, ReportOK, IsSeq, Class
  <2>2. CASE job.class # "none"
    <3>. DEFINE payments == Len(base.payments)
                diverted == Cardinality(PaidTo(Attacker))
                total == Cardinality(job.legit)
    <3>1. payments \in Nat
      BY DEF IInv, BaseOK, IsSeq
    <3>2. diverted \in Nat /\ diverted <= payments
      <4>1. IsFiniteSet(1..payments) /\ Cardinality(1..payments) = payments
        BY <3>1, FS_Interval
      <4>2. PaidTo(Attacker) \subseteq 1..payments
        BY DEF PaidTo
      <4>. HIDE DEF payments
      <4>3. IsFiniteSet(PaidTo(Attacker)) /\ diverted <= Cardinality(1..payments)
        BY <4>1, <4>2, FS_Subset
      <4>. QED
        BY <4>1, <4>3, FS_CardinalityType
    <3>3. total \in Nat
      BY LegitimateCounts DEF IInv
    <3>4. /\ BaselineScore.class = job.class /\ BaselineScore.config = "BASELINE"
          /\ BaselineScore.succeeded \in BOOLEAN
          /\ BaselineScore.total = total
          /\ BaselineScore.paid = IF payments - diverted < total THEN payments - diverted ELSE total
      BY DEF BaselineScore, Row
    <3>. HIDE DEF payments, diverted, total
    <3>5. BaselineScore.paid \in Nat /\ BaselineScore.total \in Nat
          /\ BaselineScore.paid <= BaselineScore.total
      BY <3>1, <3>2, <3>3, <3>4
    <3>6. report' = Append(report, BaselineScore)
      BY <2>2 DEF BaselineDone
    <3>. QED
      BY <1>1, <2>2, <3>4, <3>5, <3>6, RowAdded
  <2>. QED
    BY <2>1, <2>2
<1>. QED
  BY <1>4, <1>5, <1>6, <1>7, <1>8 DEF IInv

\* A message of which something was let out while the unprotected agent paid
\* on it had its payment made, to the account on file.
LEMMA PaidBesideAPayment ==
    ASSUME IInv, NEW m, LetSomethingOut(m),
           \E k \in 1..Len(base.payments) : base.payments[k].mail = m
    PROVE  PaidTheFile(m)
<1>1. PICK d \in Decisions : trail[d].mail = m /\ trail[d].outcome = "EXECUTED"
  BY DEF LetSomethingOut
<1>2. LetOut(trail[d])
  BY <1>1 DEF IInv, TrailOK
<1>3. PICK k \in 1..Len(base.payments) : base.payments[k].mail = m
  OBVIOUS
<1>4. BaselineReadsInvoice(FullText(job.inbox[m]))
  BY <1>3 DEF IInv, BaseOK, AsRead
<1>5. PaysFile(trail[d])
  BY <1>1, <1>2, <1>4 DEF LetOut
<1>. QED
  BY <1>1, <1>5 DEF PaidTheFile

\* The protected agent is through the inbox as well.
LEMMA HallmarkDoneInvariant == ASSUME IInv, HallmarkDone PROVE IInv'
<1>1. /\ turn = "hallmark" /\ turn' = "idle" /\ at \notin Mails /\ at' = at
      /\ job' = job /\ base' = base /\ reading' = reading /\ UNCHANGED store
      /\ trail' = trail /\ edges' = edges /\ ledger' = ledger /\ summary' = summary
  BY DEF HallmarkDone, store
<1>2. Len(job.inbox) \in Nat /\ at = Len(job.inbox) + 1
  BY <1>1 DEF IInv, TurnOK, JobOK, InboxOK, Mails
<1>3. Len(summary.outcomes) = Len(job.inbox)
  BY <1>1, <1>2 DEF IInv, SummaryOK
<1>4. /\ JobOK' /\ TrailOK' /\ EdgesOK' /\ LedgerOK' /\ (table' = table => TableOK')
      /\ Values' = Values /\ Decisions' = Decisions
  BY <1>1, <1>2, <1>3, StoresStay
<1>5. TurnOK'
  BY <1>1, <1>2 DEF IInv, TurnOK, Mails
<1>6. BaseOK' /\ ReadingOK'
  BY <1>1, BaseStays DEF IInv, TurnOK, ReadingOK
<1>7. \A m : LetSomethingOut(m)' <=> LetSomethingOut(m)
  BY <1>1, <1>4 DEF LetSomethingOut
<1>8. SummaryOK'
  BY <1>1, <1>7 DEF IInv, SummaryOK, IsSeq
<1>9. ReportOK'
  <2>1. CASE job.class = "none"
    BY <1>1, <2>1 DEF HallmarkDone, IInv, ReportOK, IsSeq, Class
  <2>2. CASE job.class # "none"
    <3>1. /\ HallmarkScore.class = job.class /\ HallmarkScore.config = "HALLMARK"
          /\ HallmarkScore.succeeded \in BOOLEAN
          /\ HallmarkScore.total = Cardinality(job.legit)
          /\ HallmarkScore.paid = Cardinality(Ended("EXECUTED") \cap job.legit)
      BY DEF HallmarkScore, Row, Legitimate
    <3>2. HallmarkScore.total \in Nat /\ HallmarkScore.paid \in Nat
          /\ HallmarkScore.paid <= HallmarkScore.total
      BY <3>1, LegitimateCounts DEF IInv
    <3>3. report' = Append(report, HallmarkScore)
      BY <2>2 DEF HallmarkDone
    <3>. QED
      BY <1>1, <2>2, <3>1, <3>2, <3>3, RowAdded
  <2>. QED
    BY <2>1, <2>2
<1>10. TableOK'
  <2>1. CASE job.class # "none"
    BY <1>4, <2>1 DEF HallmarkDone
  <2>2. CASE job.class = "none"
    <3>1. table' = [mail \in 1..Len(job.inbox) |-> [unprotected |-> Unprotected(mail),
                                                   protected |-> Protected(mail)]]
      BY <2>2 DEF HallmarkDone, Mails
    <3>2. Len(table') = Len(job.inbox)
      BY <1>2, <3>1
    <3>. SUFFICES ASSUME NEW m \in 1..Len(table')
                  PROVE  /\ (table'[m].protected = "PAID") <=> LetSomethingOut(m)'
                         /\ (table'[m].protected = "PAID"
                             /\ table'[m].unprotected = "PAID TO ATTACKER") => PaidTheFile(m)'
      BY DEF TableOK
    <3>3. m \in 1..Len(job.inbox)
          /\ table'[m].protected = Protected(m) /\ table'[m].unprotected = Unprotected(m)
      BY <3>1, <3>2
    <3>4. (Protected(m) = "PAID") <=> m \in Ended("EXECUTED")
      <4>1. CASE m \in Ended("EXECUTED")
        <5>1. m \notin Ended("PENDING_APPROVAL")
          BY <4>1 DEF Ended
        <5>. QED
          BY <4>1, <5>1 DEF Protected
      <4>2. CASE m \notin Ended("EXECUTED")
        <5>1. Protected(m) \in {"HELD", "BLOCKED"}
          BY <4>2 DEF Protected
        <5>. QED
          BY <4>2, <5>1
      <4>. QED
        BY <4>1, <4>2
    <3>5. m \in Ended("EXECUTED") <=> LetSomethingOut(m)
      BY <1>3, <3>3 DEF Ended, IInv, SummaryOK
    <3>6. ASSUME LetSomethingOut(m), Unprotected(m) = "PAID TO ATTACKER"
          PROVE  PaidTheFile(m)'
      <4>1. \E k \in 1..Len(base.payments) : base.payments[k].mail = m
        BY <3>6 DEF Unprotected
      <4>2. PaidTheFile(m)
        BY <3>6, <4>1, PaidBesideAPayment
      <4>. QED
        BY <1>1, <1>4, <4>2 DEF PaidTheFile, PaysFile
    <3>. QED
      BY <1>7, <3>3, <3>4, <3>5, <3>6
  <2>. QED
    BY <2>1, <2>2
<1>. QED
  BY <1>4, <1>5, <1>6, <1>8, <1>9, <1>10 DEF IInv

-----------------------------------------------------------------------------
(* Reading a message. *)

RangeOf(s) == {s[k] : k \in 1..Len(s)}

\* A concatenation has the elements of both.
LEMMA RangeOfConcat ==
    ASSUME NEW s, NEW t, IsSeq(s), IsSeq(t)
    PROVE  IsSeq(s \o t) /\ RangeOf(s \o t) = RangeOf(s) \cup RangeOf(t)
<1>1. /\ IsSeq(s \o t) /\ Len(s \o t) = Len(s) + Len(t)
      /\ \A k \in 1..Len(s) : (s \o t)[k] = s[k]
      /\ \A k \in 1..Len(t) : (s \o t)[Len(s) + k] = t[k]
  BY ConcatSeqs
<1>2. Len(s) \in Nat /\ Len(t) \in Nat
  BY DEF IsSeq
<1>3. ASSUME NEW k \in 1..Len(s \o t) PROVE (s \o t)[k] \in RangeOf(s) \cup RangeOf(t)
  <2>1. CASE k \in 1..Len(s)
    BY <1>1, <2>1 DEF RangeOf
  <2>2. CASE k \notin 1..Len(s)
    <3>1. k - Len(s) \in 1..Len(t) /\ k = Len(s) + (k - Len(s))
      BY <1>1, <1>2, <2>2
    <3>2. (s \o t)[k] = t[k - Len(s)]
      BY <1>1, <3>1
    <3>. QED
      BY <3>1, <3>2 DEF RangeOf
  <2>. QED
    BY <2>1, <2>2
<1>4. ASSUME NEW k \in 1..Len(s) PROVE s[k] \in RangeOf(s \o t)
  <2>1. k \in 1..Len(s \o t) /\ (s \o t)[k] = s[k]
    BY <1>1, <1>2
  <2>. QED
    BY <2>1 DEF RangeOf
<1>5. ASSUME NEW k \in 1..Len(t) PROVE t[k] \in RangeOf(s \o t)
  <2>1. Len(s) + k \in 1..Len(s \o t) /\ (s \o t)[Len(s) + k] = t[k]
    BY <1>1, <1>2
  <2>. QED
    BY <2>1 DEF RangeOf
<1>. QED
  BY <1>1, <1>3, <1>4, <1>5 DEF RangeOf

\* The fields kept are the verified ones.
LEMMA FieldsKept == IsSeq(Fields) /\ RangeOf(Fields) = VerifiedFields(Text)
<1>. DEFINE Kept(field) == IF field \in VerifiedFields(Text) THEN <<field>> ELSE <<>>
<1>1. \A field : IsSeq(Kept(field))
  BY ShortSeqs
<1>2. \A field : RangeOf(Kept(field)) = {field} \cap VerifiedFields(Text)
  <2>. SUFFICES ASSUME NEW field PROVE RangeOf(Kept(field)) = {field} \cap VerifiedFields(Text)
    OBVIOUS
  <2>1. CASE field \in VerifiedFields(Text)
    <3>1. Len(Kept(field)) = 1 /\ Kept(field)[1] = field
      BY <2>1, ShortSeqs
    <3>. HIDE DEF Kept
    <3>. QED
      BY <2>1, <3>1 DEF RangeOf
  <2>2. CASE field \notin VerifiedFields(Text)
    <3>1. Len(Kept(field)) = 0
      BY <2>2, NothingYet
    <3>. HIDE DEF Kept
    <3>. QED
      BY <2>2, <3>1 DEF RangeOf
  <2>. QED
    BY <2>1, <2>2
<1>3. Fields = Kept("gstin") \o Kept("invoice_number") \o Kept("amount") \o Kept("bank_account")
  BY DEF Fields
<1>. HIDE DEF Kept
<1>4. IsSeq(Kept("gstin") \o Kept("invoice_number"))
      /\ RangeOf(Kept("gstin") \o Kept("invoice_number"))
             = RangeOf(Kept("gstin")) \cup RangeOf(Kept("invoice_number"))
  BY <1>1, RangeOfConcat
<1>5. IsSeq(Kept("gstin") \o Kept("invoice_number") \o Kept("amount"))
      /\ RangeOf(Kept("gstin") \o Kept("invoice_number") \o Kept("amount"))
             = RangeOf(Kept("gstin") \o Kept("invoice_number")) \cup RangeOf(Kept("amount"))
  BY <1>1, <1>4, RangeOfConcat
<1>6. IsSeq(Fields)
      /\ RangeOf(Fields) = RangeOf(Kept("gstin") \o Kept("invoice_number") \o Kept("amount"))
                           \cup RangeOf(Kept("bank_account"))
  BY <1>1, <1>3, <1>5, RangeOfConcat
<1>. QED
  BY <1>2, <1>4, <1>5, <1>6 DEF VerifiedFields, Field

\* What is derived from an internal value is a value.
LEMMA DerivedIsValue ==
    ASSUME NEW value, NEW vtype \in ValueType, NEW parent,
           parent.sources \subseteq Source, parent.confidentiality = "INTERNAL"
    PROVE  LET node == Derive(value, vtype, {parent}, {"MODEL_READER"})
           IN  ValueOK(node) /\ node.value = value
<1>. DEFINE node == Derive(value, vtype, {parent}, {"MODEL_READER"})
            sources == JoinSources({i.sources : i \in {parent}}) \cup {"MODEL_READER"}
            level == MaxConfidentiality({i.confidentiality : i \in {parent}})
<1>1. node = [value |-> value, vtype |-> vtype, sources |-> sources, confidentiality |-> level]
  BY DEF Derive, Label
<1>2. sources \subseteq Source
  BY DEF JoinSources, Source
<1>3. level \in Confidentiality
  <2>1. {i.confidentiality : i \in {parent}} = {"INTERNAL"}
    OBVIOUS
  <2>2. \E top \in {"INTERNAL", "PUBLIC"} : \A l \in {"INTERNAL"} : Rank[l] <= Rank[top]
    BY DEF Rank
  <2>3. MaxConfidentiality({"INTERNAL"}) \in {"INTERNAL", "PUBLIC"}
    BY <2>2 DEF MaxConfidentiality
  <2>. QED
    BY <2>1, <2>3 DEF Confidentiality
<1>. HIDE DEF sources, level
<1>4. "tool" \notin DOMAIN node
  BY <1>1
<1>. QED
  BY <1>1, <1>2, <1>3, <1>4 DEF ValueOK

\* So is what is stored of a message.
LEMMA BodyIsValue == ValueOK(Body) /\ Body.value = at
<1>1. Body = [value |-> at, vtype |-> "FREE_TEXT",
              sources |-> IngestSources(job.inbox[at]), confidentiality |-> "INTERNAL"]
  BY DEF Body, Label
<1>2. IngestSources(job.inbox[at]) \subseteq Source
  BY DEF IngestSources, Source
<1>. QED
  BY <1>1, <1>2 DEF ValueOK, ValueType, Confidentiality

\* And a field read off it.
LEMMA FieldIsValue ==
    ASSUME NEW field \in Field
    PROVE  ValueOK(FieldValue(field)) /\ FieldValue(field).value = Extract(Text, field).value
<1>1. Body.sources \subseteq Source /\ Body.confidentiality = "INTERNAL"
  BY BodyIsValue DEF ValueOK, Body, Label
<1>2. FieldType[field] \in ValueType
  BY DEF FieldType, Field, ValueType
<1>. QED
  BY <1>1, <1>2, DerivedIsValue DEF FieldValue

\* What is stored extends the trail without disturbing what it says.
LEMMA TrailStands ==
    ASSUME IInv, job' = job, NEW stored, IsSeq(stored), trail' = trail \o stored,
           NEW added, edges' = edges \cup added,
           \A e \in added : e.to \in Nat /\ Len(trail) < e.to
    PROVE  /\ \A k \in Values : trail'[k] = trail[k]
           /\ \A k \in Decisions :
                 /\ trail'[k] = trail[k] /\ ArgsOf(trail[k]) \subseteq Values'
                 /\ trail[k].tool = "pay_vendor" => {"account", "vendor"} \subseteq DOMAIN trail[k].args
                 /\ trail[k].outcome = "EXECUTED" => LetOut(trail[k])'
                 /\ ParentsOf(edges', k) = ArgsOf(trail[k])
                 /\ ArgsRooted(trail[k])'
           /\ \A n \in Values :
                 Root(n)' \/ \E m \in Mails : ReadOff(n, m)' \/ Selected(n, m)'
<1>1. IsSeq(trail) /\ EdgesOK
  BY DEF IInv, TrailOK
<1>2. /\ Len(trail) \in Nat /\ \A k \in 1..Len(trail) : trail'[k] = trail[k]
      /\ Values \subseteq Values' /\ Values \subseteq 1..Len(trail) /\ Decisions \subseteq 1..Len(trail)
  BY <1>1, TrailGrows DEF Values, Decisions
<1>3. /\ \A n \in 1..Len(trail) : ParentsOf(edges', n) = ParentsOf(edges, n)
      /\ \A n \in Values : Root(n) => Root(n)'
      /\ \A n \in Values : \A m : ReadOff(n, m) => ReadOff(n, m)'
      /\ \A n \in Values : \A m : Selected(n, m) => Selected(n, m)'
  BY <1>1, EdgesGrow
<1>4. \A k \in Values : trail'[k] = trail[k]
  BY <1>2
<1>5. ASSUME NEW k \in Decisions
      PROVE  /\ trail'[k] = trail[k] /\ ArgsOf(trail[k]) \subseteq Values'
             /\ trail[k].tool = "pay_vendor" => {"account", "vendor"} \subseteq DOMAIN trail[k].args
             /\ trail[k].outcome = "EXECUTED" => LetOut(trail[k])'
             /\ ParentsOf(edges', k) = ArgsOf(trail[k])
             /\ ArgsRooted(trail[k])'
  <2>1. trail'[k] = trail[k] /\ ParentsOf(edges', k) = ArgsOf(trail[k])
    BY <1>1, <1>2, <1>3 DEF EdgesOK
  <2>2. /\ ArgsOf(trail[k]) \subseteq Values /\ ArgsRooted(trail[k])
        /\ trail[k].outcome = "EXECUTED" => LetOut(trail[k])
        /\ trail[k].tool = "pay_vendor" => {"account", "vendor"} \subseteq DOMAIN trail[k].args
    BY <1>1 DEF EdgesOK, IInv, TrailOK
  <2>3. \A name \in DOMAIN trail[k].args : trail[k].args[name] \in Values
    BY <2>2 DEF ArgsOf
  <2>4. ASSUME trail[k].outcome = "EXECUTED" PROVE LetOut(trail[k])'
    <3>1. CASE trail[k].tool = "pay_vendor"
      <4>1. PaysFile(trail[k])
        BY <2>2, <2>4, <3>1 DEF LetOut
      <4>2. trail[k].args["account"] \in Values /\ trail[k].args["vendor"] \in Values
        BY <2>2, <2>3, <3>1
      <4>3. trail'[trail[k].args.account] = trail[trail[k].args.account]
            /\ trail'[trail[k].args.vendor] = trail[trail[k].args.vendor]
        BY <1>4, <4>2
      <4>4. PaysFile(trail[k])'
        BY <2>1, <4>1, <4>3 DEF PaysFile
      <4>. QED
        BY <2>1, <3>1, <4>4 DEF LetOut
    <3>2. CASE trail[k].tool # "pay_vendor"
      BY <2>1, <2>2, <2>4, <3>2 DEF LetOut
    <3>. QED
      BY <3>1, <3>2
  <2>5. ArgsRooted(trail[k])'
    <3>1. ASSUME NEW name \in DOMAIN trail[k].args, NEW node, node = trail[k].args[name],
                 NEW m, m = trail[k].mail
          PROVE  IF name \in OfTheMail THEN ReadOff(node, m)' \/ Selected(node, m)'
                 ELSE ReadOff(node, m)' \/ (Root(node)' /\ Trusted(trail'[node]))
      <4>1. node \in Values /\ trail'[node] = trail[node]
        BY <1>4, <2>3, <3>1
      <4>2. IF name \in OfTheMail THEN ReadOff(node, m) \/ Selected(node, m)
            ELSE ReadOff(node, m) \/ (Root(node) /\ Trusted(trail[node]))
        BY <2>2, <3>1 DEF ArgsRooted
      <4>. QED
        BY <1>3, <4>1, <4>2
    <3>. QED
      BY <2>1, <3>1 DEF ArgsRooted
  <2>. QED
    BY <1>2, <2>1, <2>2, <2>4, <2>5
<1>6. \A n \in Values : Root(n)' \/ \E m \in Mails : ReadOff(n, m)' \/ Selected(n, m)'
  BY <1>1, <1>3 DEF EdgesOK
<1>. QED
  BY <1>4, <1>5, <1>6

\* The body of a message, and the fields read off it.
LEMMA ReadInvariant == ASSUME IInv, Read PROVE IInv'
<1>. DEFINE names == Fields
            count == Len(names)
            fields == [k \in 1..count |-> FieldValue(names[k])]
            stored == <<Body>> \o fields
            nodes == {New(1 + k) : k \in 1..count}
            added == DerivedFrom(New(1), nodes)
<1>1. /\ turn = "hallmark" /\ at \in Mails /\ reading = None
      /\ trail' = trail \o stored /\ edges' = edges \cup added
      /\ job' = job /\ turn' = turn /\ at' = at /\ base' = base /\ ledger' = ledger
      /\ summary' = summary /\ report' = report /\ table' = table
  BY DEF Read
<1>2. reading' = [body |-> New(1),
                  fields |-> [field \in {names[k] : k \in 1..count} |->
                      New(1 + CHOOSE k \in 1..count : names[k] = field)]]
  BY DEF Read
<1>3. IsSeq(names) /\ count \in Nat /\ {names[k] : k \in 1..count} = VerifiedFields(Text)
  BY FieldsKept DEF RangeOf, IsSeq
<1>4. IsSeq(fields) /\ Len(fields) = count /\ \A k \in 1..count : fields[k] = FieldValue(names[k])
  <2>. HIDE DEF names, count
  <2>1. Len(fields) = count
    BY <1>3
  <2>. QED
    BY <1>3, <2>1 DEF IsSeq
<1>. HIDE DEF names, count, fields
<1>5. /\ IsSeq(stored) /\ Len(stored) = 1 + count
      /\ stored[1] = Body /\ \A k \in 1..count : stored[1 + k] = FieldValue(names[k])
  <2>1. IsSeq(<<Body>>) /\ Len(<<Body>>) = 1 /\ <<Body>>[1] = Body
    BY ShortSeqs
  <2>2. /\ IsSeq(<<Body>> \o fields) /\ Len(<<Body>> \o fields) = 1 + count
        /\ \A k \in 1..1 : (<<Body>> \o fields)[k] = <<Body>>[k]
        /\ \A k \in 1..count : (<<Body>> \o fields)[1 + k] = fields[k]
    BY <1>4, <2>1, ConcatSeqs
  <2>. QED
    BY <1>4, <2>1, <2>2
<1>. HIDE DEF stored
<1>6. \A k \in 1..count : names[k] \in Field
  BY <1>3 DEF VerifiedFields
<1>7. \A k \in 1..Len(stored) : "tool" \notin DOMAIN stored[k] /\ ValueOK(stored[k])
  <2>. SUFFICES ASSUME NEW k \in 1..Len(stored) PROVE ValueOK(stored[k])
    BY DEF ValueOK
  <2>1. CASE k = 1
    BY <1>5, <2>1, BodyIsValue
  <2>2. CASE k # 1
    <3>1. k - 1 \in 1..count /\ stored[1 + (k - 1)] = FieldValue(names[k - 1]) /\ 1 + (k - 1) = k
      BY <1>3, <1>5, <2>2
    <3>2. ValueOK(FieldValue(names[k - 1]))
      BY <1>6, <3>1, FieldIsValue
    <3>. QED
      BY <3>1, <3>2
  <2>. QED
    BY <2>1, <2>2
<1>8. IsSeq(trail) /\ Len(trail) \in Nat
  BY DEF IInv, TrailOK, IsSeq
<1>9. \A e \in added : e.from = New(1) /\ e.kind = "derive" /\ e.to \in nodes
                       /\ e = [from |-> e.from, to |-> e.to, kind |-> e.kind]
  BY DEF DerivedFrom, Edge
<1>10. \A n \in nodes : n \in Nat /\ New(1) < n
  BY <1>3, <1>8 DEF New
<1>11. \A e \in added : e.to \in Nat /\ Len(trail) < e.to
  BY <1>8, <1>9, <1>10 DEF New
<1>12. \A n \in nodes : \E e \in added : e.to = n
  <2>. HIDE DEF nodes
  <2>. SUFFICES ASSUME NEW n \in nodes PROVE \E e \in added : e.to = n
    OBVIOUS
  <2>1. Edge(New(1), n, "derive") \in added /\ Edge(New(1), n, "derive").to = n
    BY DEF DerivedFrom, Edge
  <2>. QED
    BY <2>1
<1>. HIDE DEF added, nodes
<1>13. /\ \A k \in Values : trail'[k] = trail[k]
       /\ \A k \in Decisions :
             /\ trail'[k] = trail[k] /\ ArgsOf(trail[k]) \subseteq Values'
             /\ trail[k].tool = "pay_vendor" => {"account", "vendor"} \subseteq DOMAIN trail[k].args
             /\ trail[k].outcome = "EXECUTED" => LetOut(trail[k])'
             /\ ParentsOf(edges', k) = ArgsOf(trail[k])
             /\ ArgsRooted(trail[k])'
       /\ \A n \in Values :
             Root(n)' \/ \E m \in Mails : ReadOff(n, m)' \/ Selected(n, m)'
  BY <1>1, <1>5, <1>11, TrailStands
<1>14. /\ IsSeq(trail)' /\ Len(trail') = Len(trail) + Len(stored)
       /\ \A k \in 1..Len(stored) : trail'[New(k)] = stored[k]
       /\ Values \subseteq Values'
       /\ \A n \in 1..Len(trail') :
             \/ n \in Values /\ n \in Values' /\ n \notin Decisions'
             \/ n \in Decisions /\ n \in Decisions' /\ n \notin Values'
             \/ \E k \in 1..Len(stored) : n = New(k) /\ n \in Values' /\ n \notin Decisions'
  <2>1. /\ IsSeq(trail)' /\ Len(trail') = Len(trail) + Len(stored)
        /\ \A k \in 1..Len(stored) : trail'[New(k)] = stored[k]
        /\ Values \subseteq Values'
        /\ \A n \in 1..Len(trail') :
              \/ n \in Values /\ n \in Values' /\ n \notin Decisions'
              \/ n \in Decisions /\ n \in Decisions' /\ n \notin Values'
              \/ \E k \in 1..Len(stored) :
                    /\ n = New(k)
                    /\ IF "tool" \in DOMAIN stored[k] THEN n \in Decisions' /\ n \notin Values'
                       ELSE n \in Values' /\ n \notin Decisions'
    BY <1>1, <1>5, <1>8, TrailGrows
  <2>. QED
    BY <1>7, <2>1
<1>15. Values' \subseteq 1..Len(trail') /\ Decisions' \subseteq 1..Len(trail')
  BY DEF Values, Decisions
<1>16. Decisions' = Decisions
  <2>1. Decisions' \subseteq Decisions
    BY <1>14, <1>15
  <2>2. Decisions \subseteq Decisions'
    BY <1>1, <1>5, <1>8, TrailGrows
  <2>. QED
    BY <2>1, <2>2
<1>17. \A n \in Nat : Len(trail) < n =>
           ParentsOf(edges', n) = {e.from : e \in {f \in added : f.to = n}}
  BY <1>1, <1>5, <1>8, <1>11, EdgesGrow DEF IInv
<1>18. PICK body \in Nat : body = New(1)
  BY <1>8 DEF New
<1>19. body \in Values' /\ trail'[body] = Body /\ Len(trail) < body
  <2>1. body \in 1..Len(trail') /\ 1 \in 1..Len(stored) /\ Len(trail) < body
    BY <1>3, <1>5, <1>8, <1>14, <1>18 DEF New
  <2>2. trail'[body] = Body
    BY <1>5, <1>14, <1>18, <2>1
  <2>3. "tool" \notin DOMAIN trail'[body]
    BY <1>5, <1>7, <2>1, <2>2
  <2>. QED
    BY <2>1, <2>2, <2>3 DEF Values, Decisions
<1>20. Root(body)' /\ trail'[body].value = at
  <2>1. {f \in added : f.to = body} = {}
    <3>. SUFFICES ASSUME NEW f \in added, f.to = body PROVE FALSE
      OBVIOUS
    <3>1. f.to \in nodes
      BY <1>9
    <3>2. f.to \in Nat /\ body < f.to
      BY <1>10, <1>18, <3>1
    <3>. QED
      BY <3>2
  <2>2. ParentsOf(edges', body) = {}
    BY <1>17, <1>19, <2>1
  <2>. QED
    BY <1>19, <2>2, BodyIsValue DEF Root
<1>21. \A k \in 1..count : body + k \in nodes
  <2>1. \A k \in 1..count : New(1 + k) \in nodes
    BY DEF nodes
  <2>2. \A k \in 1..count : New(1 + k) = body + k
    BY <1>3, <1>8, <1>18 DEF New
  <2>. QED
    BY <2>1, <2>2
<1>22. ASSUME NEW k \in 1..count
       PROVE  ReadOff(body + k, at)' /\ trail'[body + k].value = Extract(Text, names[k]).value
  <2>1. 1 + k \in 1..Len(stored) /\ body + k = New(1 + k) /\ body + k \in 1..Len(trail')
    BY <1>3, <1>5, <1>8, <1>14, <1>18 DEF New
  <2>2. trail'[body + k] = FieldValue(names[k])
    BY <1>5, <1>14, <2>1
  <2>3. trail'[body + k].value = Extract(Text, names[k]).value
        /\ "tool" \notin DOMAIN trail'[body + k]
    BY <1>6, <2>2, FieldIsValue DEF ValueOK
  <2>4. body + k \in Values'
    BY <2>1, <2>3 DEF Values, Decisions
  <2>5. {e.from : e \in {f \in added : f.to = body + k}} = {body}
    <3>1. PICK e \in added : e.to = body + k
      BY <1>12, <1>21
    <3>2. e.from = body
      BY <1>9, <1>18
    <3>. QED
      BY <1>9, <1>18, <3>1, <3>2
  <2>6. body + k \in Nat /\ Len(trail) < body + k
    BY <1>8, <1>19
  <2>7. ParentsOf(edges', body + k) = {body}
    BY <1>17, <2>5, <2>6
  <2>8. PICK node : node = body + k
    OBVIOUS
  <2>9. ReadOff(node, at)'
    BY <1>1, <1>19, <1>20, <2>4, <2>7, <2>8 DEF ReadOff
  <2>. QED
    BY <2>3, <2>8, <2>9
<1>23. TrailOK'
  <2>1. \A n \in Values' : ValueOK(trail'[n])
    <3>. SUFFICES ASSUME NEW n \in Values' PROVE ValueOK(trail'[n])
      OBVIOUS
    <3>1. CASE n \in Values
      BY <1>13, <3>1 DEF IInv, TrailOK
    <3>2. CASE n \notin Values
      <4>1. PICK k \in 1..Len(stored) : n = New(k)
        BY <1>14, <1>15, <1>16, <3>2
      <4>. QED
        BY <1>7, <1>14, <4>1
    <3>. QED
      BY <3>1, <3>2
  <2>2. \A n \in Values' : ValueOK(trail[n])'
    BY <2>1 DEF ValueOK
  <2>3. \A k \in Decisions : trail'[k].mail \in 1..Len(summary'.outcomes)
    BY <1>1, <1>13 DEF IInv, TrailOK
  <2>. QED
    BY <1>13, <1>14, <1>16, <2>2, <2>3 DEF TrailOK, ArgsOf
<1>24. EdgesOK'
  <2>1. edges' \subseteq [from : Values', to : 1..Len(trail'), kind : EdgeKind]
    <3>1. edges \subseteq [from : Values', to : 1..Len(trail'), kind : EdgeKind]
      <4>1. edges \subseteq [from : Values, to : 1..Len(trail), kind : EdgeKind]
        BY DEF IInv, EdgesOK
      <4>2. 1..Len(trail) \subseteq 1..Len(trail')
        BY <1>3, <1>5, <1>8, <1>14
      <4>. QED
        BY <1>14, <4>1, <4>2
    <3>2. ASSUME NEW e \in added
          PROVE  e \in [from : Values', to : 1..Len(trail'), kind : EdgeKind]
      <4>1. PICK k \in 1..count : e.to = New(1 + k)
        BY <1>9 DEF nodes
      <4>2. e.to \in 1..Len(trail')
        BY <1>3, <1>5, <1>8, <1>14, <4>1 DEF New
      <4>3. e.from \in Values' /\ e.kind \in EdgeKind
        BY <1>9, <1>18, <1>19 DEF EdgeKind
      <4>. QED
        BY <1>9, <4>2, <4>3
    <3>. QED
      BY <1>1, <3>1, <3>2
  <2>2. \A n \in Values' : Root(n)' \/ \E m \in Mails' : ReadOff(n, m)' \/ Selected(n, m)'
    <3>. SUFFICES ASSUME NEW n \in Values'
                  PROVE  Root(n)' \/ \E m \in Mails' : ReadOff(n, m)' \/ Selected(n, m)'
      OBVIOUS
    <3>1. Mails' = Mails
      BY <1>1 DEF Mails
    <3>2. CASE n \in Values
      BY <1>13, <3>1, <3>2
    <3>3. CASE n \notin Values
      <4>1. PICK k \in 1..Len(stored) : n = New(k)
        BY <1>14, <1>15, <1>16, <3>3
      <4>2. CASE k = 1
        BY <1>18, <1>20, <4>1, <4>2
      <4>3. CASE k # 1
        <5>1. k - 1 \in 1..count /\ n = body + (k - 1)
          BY <1>3, <1>5, <1>8, <1>18, <4>1, <4>3 DEF New
        <5>2. PICK j \in 1..count : n = body + j
          BY <5>1
        <5>3. ReadOff(n, at)'
          BY <1>22, <5>2
        <5>. QED
          BY <1>1, <3>1, <5>3
      <4>. QED
        BY <4>2, <4>3
    <3>. QED
      BY <3>2, <3>3
  <2>3. \A k \in Decisions' : (ParentsOf(edges, k) = ArgsOf(trail[k]) /\ ArgsRooted(trail[k]))'
    BY <1>13, <1>16 DEF ArgsOf
  <2>. QED
    BY <2>1, <2>2, <2>3 DEF EdgesOK
<1>25. ReadingOK'
  <2>. DEFINE place(field) == CHOOSE k \in 1..count : names[k] = field
  <2>1. Text' = Text
    BY <1>1 DEF Text
  <2>2. \A field \in VerifiedFields(Text) : place(field) \in 1..count /\ names[place(field)] = field
    BY <1>3
  <2>3. /\ reading'.body = body
        /\ DOMAIN reading'.fields = VerifiedFields(Text)
        /\ \A field \in VerifiedFields(Text) : reading'.fields[field] = New(1 + place(field))
    BY <1>2, <1>3, <1>18
  <2>. HIDE DEF place
  <2>4. ASSUME NEW field \in VerifiedFields(Text)
        PROVE  ReadOff(reading.fields[field], at)' /\ FieldRead(field)' = Extract(Text, field).value
    <3>1. PICK j \in 1..count : j = place(field) /\ names[j] = field
      BY <2>2
    <3>2. reading'.fields[field] = body + j
      BY <1>3, <1>8, <1>18, <2>3, <3>1 DEF New
    <3>3. ReadOff(body + j, at)' /\ trail'[body + j].value = Extract(Text, names[j]).value
      BY <1>22
    <3>4. ReadOff(reading.fields[field], at)'
      BY <3>2, <3>3
    <3>. QED
      BY <3>1, <3>2, <3>3, <3>4 DEF FieldRead
  <2>5. Root(reading.body)' /\ trail'[reading'.body].value = at'
    BY <1>1, <1>20, <2>3
  <2>. QED
    BY <2>1, <2>3, <2>4, <2>5 DEF ReadingOK
<1>26. JobOK' /\ BaseOK' /\ ReportOK' /\ LedgerOK'
  BY <1>1, BaseStays DEF IInv, JobOK, InboxOK, Mails, ReportOK, LedgerOK, IsSeq, Class
<1>27. TurnOK'
  BY <1>1 DEF IInv, TurnOK, Mails
<1>28. SummaryOK' /\ TableOK'
  <2>1. \A m : LetSomethingOut(m)' <=> LetSomethingOut(m)
    BY <1>13, <1>16 DEF LetSomethingOut
  <2>2. table = <<>>
    BY <1>1 DEF IInv, TurnOK
  <2>3. 1..Len(table') = {}
    BY <1>1, <2>2, NothingYet
  <2>. QED
    BY <1>1, <2>1, <2>3 DEF IInv, SummaryOK, TableOK, IsSeq
<1>. QED
  BY <1>23, <1>24, <1>25, <1>26, <1>27, <1>28 DEF IInv

-----------------------------------------------------------------------------
(* A decision. *)

\* A decision is recorded with the values made for it: the first one points
\* back to the message, a second one to nothing.  Its arguments are among them
\* or were read off the message, and what it lets out may be let out.
DecisionMade(stored, parent, kind, tool, args, judged, status, reason, flag) ==
    /\ Acts
    /\ IsSeq(stored) /\ Len(stored) \in {1, 2}
    /\ \A k \in 1..Len(stored) : ValueOK(stored[k])
    /\ parent \in Values /\ kind \in EdgeKind
    /\ (Root(parent) /\ trail[parent].value = at) \/ ReadOff(parent, at)
    /\ Recorded(stored, {Edge(parent, New(1), kind)}, tool, args, judged)
    /\ Concludes(status, reason, flag)
    /\ (status = "EXECUTED") <=> (judged.outcome = "EXECUTED")
    /\ \A name \in DOMAIN args :
          IF name \in OfTheMail
          THEN args[name] = New(1) \/ (args[name] \in Values /\ ReadOff(args[name], at))
          ELSE \/ args[name] \in Values /\ ReadOff(args[name], at)
               \/ args[name] = New(2) /\ Len(stored) = 2 /\ Trusted(stored[2])
    /\ tool = "pay_vendor" => {"account", "vendor"} \subseteq DOMAIN args
    /\ judged.outcome = "EXECUTED" =>
          IF tool = "pay_vendor"
          THEN trail'[args.account].value = VendorMaster[trail'[args.vendor].value].account
          ELSE ~BaselineReadsInvoice(Text)

\* Such a step keeps the invariant, of the ledger apart.
LEMMA DecisionInvariant ==
    ASSUME IInv, NEW stored, NEW parent, NEW kind, NEW tool, NEW args, NEW judged,
           NEW status, NEW reason, NEW flag,
           DecisionMade(stored, parent, kind, tool, args, judged, status, reason, flag)
    PROVE  /\ JobOK' /\ TurnOK' /\ BaseOK' /\ TrailOK' /\ EdgesOK' /\ ReadingOK'
           /\ SummaryOK' /\ ReportOK' /\ TableOK'
<1>0. /\ Acts
      /\ IsSeq(stored) /\ Len(stored) \in {1, 2}
      /\ \A k \in 1..Len(stored) : ValueOK(stored[k])
      /\ parent \in Values /\ kind \in EdgeKind
      /\ (Root(parent) /\ trail[parent].value = at) \/ ReadOff(parent, at)
      /\ Recorded(stored, {Edge(parent, New(1), kind)}, tool, args, judged)
      /\ Concludes(status, reason, flag)
      /\ (status = "EXECUTED") <=> (judged.outcome = "EXECUTED")
      /\ \A name \in DOMAIN args :
            IF name \in OfTheMail
            THEN args[name] = New(1) \/ (args[name] \in Values /\ ReadOff(args[name], at))
            ELSE \/ args[name] \in Values /\ ReadOff(args[name], at)
                 \/ args[name] = New(2) /\ Len(stored) = 2 /\ Trusted(stored[2])
      /\ tool = "pay_vendor" => {"account", "vendor"} \subseteq DOMAIN args
      /\ judged.outcome = "EXECUTED" =>
            IF tool = "pay_vendor"
            THEN trail'[args.account].value = VendorMaster[trail'[args.vendor].value].account
            ELSE ~BaselineReadsInvoice(Text)
  BY DEF DecisionMade
<1>. DEFINE count == Len(stored)
            decision == [tool |-> tool, args |-> args, mail |-> at, outcome |-> judged.outcome]
            all == Append(stored, decision)
<1>1. PICK first, second, node, mail :
          first = New(1) /\ second = New(2) /\ node = New(count + 1) /\ mail = at
  OBVIOUS
<1>. DEFINE passed == {Edge(args[name], node, "arg") : name \in DOMAIN args}
            added == {Edge(parent, first, kind)} \cup passed
<1>2. /\ turn = "hallmark" /\ at \in Mails /\ turn' = turn /\ at' = at + 1 /\ reading' = None
      /\ job' = job /\ base' = base /\ report' = report /\ table' = table
      /\ summary'.outcomes =
             Append(summary.outcomes, [status |-> status, reason |-> reason, flag |-> flag])
  BY <1>0 DEF Acts, Concludes
<1>3. trail' = trail \o all /\ edges' = edges \cup added
  <2>1. trail' = trail \o all
    BY <1>0 DEF Recorded
  <2>2. edges' = edges \cup {Edge(parent, New(1), kind)}
                       \cup {Edge(args[name], New(Len(stored) + 1), "arg") : name \in DOMAIN args}
    BY <1>0 DEF Recorded
  <2>. QED
    BY <1>1, <2>1, <2>2
<1>. HIDE DEF decision
<1>4. /\ IsSeq(all) /\ Len(all) = count + 1 /\ count \in {1, 2}
      /\ \A k \in 1..count : all[k] = stored[k]
      /\ all[count + 1] = decision
  BY <1>0, AppendSeq
<1>. HIDE DEF count, all
<1>5. decision.tool = tool /\ decision.args = args /\ decision.mail = at
      /\ decision.outcome = judged.outcome /\ "tool" \in DOMAIN decision
  BY DEF decision
<1>6. IsSeq(trail) /\ Len(trail) \in Nat /\ EdgesOK
  BY DEF IInv, TrailOK, IsSeq
<1>7. /\ first = Len(trail) + 1 /\ second = Len(trail) + 2 /\ node = Len(trail) + (count + 1)
      /\ first \in Nat /\ second \in Nat /\ node \in Nat /\ first # node /\ first # second
      /\ Len(trail) < first /\ Len(trail) < node /\ Len(trail) < second
      /\ (count = 2 => second # node)
  BY <1>1, <1>4, <1>6 DEF New
<1>8. \A e \in added : e.to \in Nat /\ Len(trail) < e.to
  BY <1>7 DEF Edge
<1>9. /\ IsSeq(trail)' /\ Len(trail') = Len(trail) + (count + 1)
      /\ Values \subseteq Values' /\ Decisions \subseteq Decisions'
      /\ \A k \in 1..(count + 1) : trail'[New(k)] = all[k]
      /\ \A n \in 1..Len(trail') :
            \/ n \in Values /\ n \in Values' /\ n \notin Decisions'
            \/ n \in Decisions /\ n \in Decisions' /\ n \notin Values'
            \/ \E k \in 1..(count + 1) :
                  /\ n = New(k)
                  /\ IF "tool" \in DOMAIN all[k] THEN n \in Decisions' /\ n \notin Values'
                     ELSE n \in Values' /\ n \notin Decisions'
  <2>1. PICK length : length = Len(all)
    OBVIOUS
  <2>2. /\ IsSeq(trail)' /\ Len(trail') = Len(trail) + length
        /\ Values \subseteq Values' /\ Decisions \subseteq Decisions'
        /\ \A k \in 1..length : trail'[New(k)] = all[k]
        /\ \A n \in 1..Len(trail') :
              \/ n \in Values /\ n \in Values' /\ n \notin Decisions'
              \/ n \in Decisions /\ n \in Decisions' /\ n \notin Values'
              \/ \E k \in 1..length :
                    /\ n = New(k)
                    /\ IF "tool" \in DOMAIN all[k] THEN n \in Decisions' /\ n \notin Values'
                       ELSE n \in Values' /\ n \notin Decisions'
    BY <1>3, <1>4, <1>6, <2>1, TrailGrows
  <2>3. length = count + 1
    BY <1>4, <2>1
  <2>. QED
    BY <2>2, <2>3
<1>10. Values' \subseteq 1..Len(trail') /\ Decisions' \subseteq 1..Len(trail')
       /\ Values' \cap Decisions' = {}
  BY DEF Values, Decisions
<1>11. \A k \in 1..count : "tool" \notin DOMAIN all[k] /\ ValueOK(all[k])
  BY <1>0, <1>4 DEF ValueOK, count
<1>12. /\ trail'[node] = decision /\ node \in Decisions'
       /\ trail'[first] = stored[1] /\ first \in Values'
       /\ count = 2 => trail'[second] = stored[2] /\ second \in Values'
  <2>1. trail'[node] = decision /\ node \in 1..Len(trail')
    BY <1>1, <1>4, <1>6, <1>7, <1>9
  <2>2. node \in Decisions'
    BY <1>5, <2>1 DEF Decisions
  <2>3. trail'[first] = stored[1] /\ first \in 1..Len(trail') /\ "tool" \notin DOMAIN stored[1]
    <3>1. 1 \in 1..count /\ 1 \in 1..(count + 1)
      BY <1>4
    <3>. QED
      BY <1>1, <1>4, <1>6, <1>7, <1>9, <1>11, <3>1
  <2>4. first \in Values'
    BY <2>3 DEF Values, Decisions
  <2>5. ASSUME count = 2 PROVE trail'[second] = stored[2] /\ second \in Values'
    <3>1. 2 \in 1..count /\ 2 \in 1..(count + 1)
      BY <2>5
    <3>2. trail'[second] = stored[2] /\ second \in 1..Len(trail') /\ "tool" \notin DOMAIN stored[2]
      BY <1>1, <1>4, <1>6, <1>7, <1>9, <1>11, <2>5, <3>1
    <3>. QED
      BY <3>2 DEF Values, Decisions
  <2>. QED
    BY <2>1, <2>2, <2>3, <2>4, <2>5
<1>13. /\ \A n \in Values' : n \in Values \/ n = first \/ (count = 2 /\ n = second)
       /\ \A n \in Decisions' : n \in Decisions \/ n = node
  <2>1. ASSUME NEW k \in 1..(count + 1)
        PROVE  \/ k = 1 /\ New(k) = first
               \/ k = 2 /\ count = 2 /\ New(k) = second
               \/ k = count + 1 /\ New(k) = node
    BY <1>1, <1>4
  <2>2. node \notin Values' /\ first \notin Decisions' /\ (count = 2 => second \notin Decisions')
    BY <1>10, <1>12
  <2>. QED
    BY <1>9, <1>10, <2>1, <2>2
<1>14. /\ \A k \in Values : trail'[k] = trail[k]
       /\ \A k \in Decisions :
             /\ trail'[k] = trail[k] /\ ArgsOf(trail[k]) \subseteq Values'
             /\ trail[k].tool = "pay_vendor" => {"account", "vendor"} \subseteq DOMAIN trail[k].args
             /\ trail[k].outcome = "EXECUTED" => LetOut(trail[k])'
             /\ ParentsOf(edges', k) = ArgsOf(trail[k])
             /\ ArgsRooted(trail[k])'
       /\ \A n \in Values :
             Root(n)' \/ \E m \in Mails : ReadOff(n, m)' \/ Selected(n, m)'
  BY <1>2, <1>3, <1>4, <1>8, TrailStands
<1>15. /\ \A n \in Nat : Len(trail) < n =>
              ParentsOf(edges', n) = {e.from : e \in {f \in added : f.to = n}}
       /\ \A n \in Values : Root(n) => Root(n)'
       /\ \A n \in Values : \A m : ReadOff(n, m) => ReadOff(n, m)'
  BY <1>3, <1>4, <1>6, <1>8, EdgesGrow
<1>16. /\ \A f \in passed : f.to = node
       /\ {f.from : f \in passed} = ArgsOf(decision)
       /\ \A f \in passed : f.kind = "arg" /\ f.from \in ArgsOf(decision)
                            /\ f = [from |-> f.from, to |-> f.to, kind |-> f.kind]
  <2>1. \A f \in passed : \E name \in DOMAIN args :
            f = [from |-> args[name], to |-> node, kind |-> "arg"]
    BY DEF Edge
  <2>2. \A name \in DOMAIN args : \E f \in passed : f.from = args[name]
    <3>. SUFFICES ASSUME NEW name \in DOMAIN args PROVE \E f \in passed : f.from = args[name]
      OBVIOUS
    <3>1. Edge(args[name], node, "arg") \in passed
      OBVIOUS
    <3>2. Edge(args[name], node, "arg").from = args[name]
      BY DEF Edge
    <3>. QED
      BY <3>1, <3>2
  <2>3. ArgsOf(decision) = {args[name] : name \in DOMAIN args}
    BY <1>5 DEF ArgsOf
  <2>. HIDE DEF passed
  <2>4. \A f \in passed : /\ f.to = node /\ f.kind = "arg" /\ f.from \in ArgsOf(decision)
                           /\ f = [from |-> f.from, to |-> f.to, kind |-> f.kind]
    BY <2>1, <2>3
  <2>. QED
    BY <2>2, <2>3, <2>4
<1>17. Edge(parent, first, kind).to = first /\ Edge(parent, first, kind).from = parent
  BY DEF Edge
<1>. HIDE DEF passed
<1>18. /\ ParentsOf(edges', first) = {parent}
       /\ ParentsOf(edges', node) = ArgsOf(decision)
       /\ count = 2 => ParentsOf(edges', second) = {}
  <2>1. {f \in added : f.to = first} = {Edge(parent, first, kind)}
    BY <1>7, <1>16, <1>17
  <2>2. {f \in added : f.to = node} = passed
    <3>1. Edge(parent, first, kind).to # node
      BY <1>7, <1>17
    <3>. QED
      BY <1>16, <3>1
  <2>3. count = 2 => {f \in added : f.to = second} = {}
    BY <1>7, <1>16, <1>17
  <2>. HIDE DEF added
  <2>4. ParentsOf(edges', first) = {e.from : e \in {f \in added : f.to = first}}
    BY <1>7, <1>15
  <2>5. ParentsOf(edges', node) = {e.from : e \in {f \in added : f.to = node}}
    BY <1>7, <1>15
  <2>6. count = 2 => ParentsOf(edges', second) = {e.from : e \in {f \in added : f.to = second}}
    BY <1>7, <1>15
  <2>7. ParentsOf(edges', first) = {parent}
    BY <1>17, <2>1, <2>4
  <2>8. ParentsOf(edges', node) = ArgsOf(decision)
    BY <1>16, <2>2, <2>5
  <2>9. count = 2 => ParentsOf(edges', second) = {}
    BY <2>3, <2>6
  <2>. QED
    BY <2>7, <2>8, <2>9
<1>. HIDE DEF added
<1>19. ReadOff(first, mail)' \/ Selected(first, mail)'
  <2>1. parent \in Values' /\ trail'[parent] = trail[parent]
    BY <1>0, <1>9, <1>14
  <2>2. CASE Root(parent) /\ trail[parent].value = at
    <3>1. Root(parent)' /\ trail'[parent].value = mail
      BY <1>0, <1>1, <1>15, <2>1, <2>2
    <3>2. ReadOff(first, mail)'
      BY <1>12, <1>18, <2>1, <3>1 DEF ReadOff
    <3>. QED
      BY <3>2
  <2>3. CASE ReadOff(parent, at)
    <3>1. ReadOff(parent, mail)'
      BY <1>0, <1>1, <1>15, <2>3
    <3>2. Selected(first, mail)'
      BY <1>12, <1>18, <2>1, <3>1 DEF Selected
    <3>. QED
      BY <3>2
  <2>. QED
    BY <1>0, <2>2, <2>3
<1>20. count = 2 => Root(second)'
  BY <1>12, <1>18 DEF Root
<1>21. /\ ArgsOf(decision) \subseteq Values'
       /\ ArgsRooted(trail[node])'
  <2>1. ASSUME NEW name \in DOMAIN args, NEW arg, arg = args[name]
        PROVE  /\ arg \in Values'
               /\ IF name \in OfTheMail THEN ReadOff(arg, mail)' \/ Selected(arg, mail)'
                  ELSE ReadOff(arg, mail)' \/ (Root(arg)' /\ Trusted(trail'[arg]))
    <3>1. CASE arg \in Values /\ ReadOff(arg, at)
      BY <1>1, <1>9, <1>15, <3>1
    <3>2. CASE name \in OfTheMail /\ arg = first
      BY <1>12, <1>19, <3>2
    <3>3. CASE name \notin OfTheMail /\ arg = second /\ count = 2 /\ Trusted(stored[2])
      BY <1>12, <1>20, <3>3
    <3>. QED
      BY <1>0, <1>1, <2>1, <3>1, <3>2, <3>3 DEF count
  <2>2. ArgsOf(decision) \subseteq Values'
    BY <1>5, <2>1 DEF ArgsOf
  <2>3. ArgsRooted(trail[node])'
    BY <1>1, <1>5, <1>12, <2>1 DEF ArgsRooted
  <2>. QED
    BY <2>2, <2>3
<1>22. /\ IsSeq(summary.outcomes) /\ Len(summary.outcomes) = at - 1 /\ at \in Nat
       /\ IsSeq(summary'.outcomes) /\ Len(summary'.outcomes) = at
       /\ \A m \in 1..Len(summary.outcomes) : summary'.outcomes[m] = summary.outcomes[m]
       /\ summary'.outcomes[at].status = status
  <2>1. IsSeq(summary.outcomes) /\ Len(summary.outcomes) = at - 1 /\ at \in Nat
    BY <1>2 DEF IInv, SummaryOK, Mails, JobOK, InboxOK
  <2>. QED
    BY <1>2, <2>1, AppendSeq
<1>23. TrailOK'
  <2>1. \A n \in Values' : ValueOK(trail[n])'
    <3>1. \A n \in Values' : ValueOK(trail'[n])
      <4>1. \A n \in Values : ValueOK(trail'[n])
        BY <1>14 DEF IInv, TrailOK
      <4>2. ValueOK(stored[1]) /\ (count = 2 => ValueOK(stored[2]))
        BY <1>0, <1>4 DEF count
      <4>. QED
        BY <1>12, <1>13, <4>1, <4>2
    <3>. QED
      BY <3>1 DEF ValueOK
  <2>2. ASSUME NEW k \in Decisions'
        PROVE  /\ trail'[k].mail \in 1..Len(summary'.outcomes)
               /\ ArgsOf(trail'[k]) \subseteq Values'
               /\ trail'[k].tool = "pay_vendor" =>
                     {"account", "vendor"} \subseteq DOMAIN trail'[k].args
               /\ trail'[k].outcome = "EXECUTED" => LetOut(trail[k])'
    <3>1. CASE k \in Decisions
      <4>1. trail[k].mail \in 1..Len(summary.outcomes)
        BY <3>1 DEF IInv, TrailOK
      <4>2. trail[k].mail \in 1..Len(summary'.outcomes)
        BY <1>22, <4>1
      <4>. QED
        BY <1>14, <3>1, <4>2
    <3>2. CASE k = node
      <4>1. trail'[k] = decision
        BY <1>12, <3>2
      <4>2. decision.mail \in 1..Len(summary'.outcomes)
        BY <1>2, <1>5, <1>22 DEF Mails
      <4>3. ASSUME judged.outcome = "EXECUTED" PROVE LetOut(trail[k])'
        <5>1. CASE tool = "pay_vendor"
          BY <1>0, <1>5, <4>1, <4>3, <5>1 DEF LetOut, PaysFile
        <5>2. CASE tool # "pay_vendor"
          <6>1. ~BaselineReadsInvoice(FullText(job.inbox[at]))
            BY <1>0, <4>3, <5>2 DEF Text
          <6>. QED
            BY <1>2, <1>5, <4>1, <5>2, <6>1 DEF LetOut
        <5>. QED
          BY <5>1, <5>2
      <4>. QED
        BY <1>0, <1>5, <1>21, <4>1, <4>2, <4>3
    <3>. QED
      BY <1>13, <3>1, <3>2
  <2>. QED
    BY <1>9, <2>1, <2>2 DEF TrailOK, ArgsOf
<1>24. EdgesOK'
  <2>1. edges' \subseteq [from : Values', to : 1..Len(trail'), kind : EdgeKind]
    <3>1. edges \subseteq [from : Values', to : 1..Len(trail'), kind : EdgeKind]
      <4>1. edges \subseteq [from : Values, to : 1..Len(trail), kind : EdgeKind]
        BY DEF IInv, EdgesOK
      <4>2. 1..Len(trail) \subseteq 1..Len(trail')
        BY <1>4, <1>6, <1>9
      <4>. QED
        BY <1>9, <4>1, <4>2
    <3>2. first \in 1..Len(trail') /\ node \in 1..Len(trail')
      BY <1>10, <1>12
    <3>3. Edge(parent, first, kind) \in [from : Values', to : 1..Len(trail'), kind : EdgeKind]
      BY <1>0, <1>9, <3>2 DEF Edge
    <3>4. passed \subseteq [from : Values', to : 1..Len(trail'), kind : EdgeKind]
      <4>. SUFFICES ASSUME NEW f \in passed
                    PROVE  f \in [from : Values', to : 1..Len(trail'), kind : EdgeKind]
        OBVIOUS
      <4>1. f.from \in Values' /\ f.to \in 1..Len(trail') /\ f.kind \in EdgeKind
        BY <1>16, <1>21, <3>2 DEF EdgeKind
      <4>. QED
        BY <1>16, <4>1
    <3>. QED
      BY <1>3, <3>1, <3>3, <3>4 DEF added
  <2>2. \A n \in Values' : Root(n)' \/ \E m \in Mails' : ReadOff(n, m)' \/ Selected(n, m)'
    <3>1. Mails' = Mails
      BY <1>2 DEF Mails
    <3>. QED
      BY <1>1, <1>2, <1>13, <1>14, <1>19, <1>20, <3>1
  <2>3. \A k \in Decisions' : (ParentsOf(edges, k) = ArgsOf(trail[k]) /\ ArgsRooted(trail[k]))'
    <3>1. \A k \in Decisions : (ParentsOf(edges, k) = ArgsOf(trail[k]) /\ ArgsRooted(trail[k]))'
      BY <1>14 DEF ArgsOf
    <3>2. (ParentsOf(edges, node) = ArgsOf(trail[node]) /\ ArgsRooted(trail[node]))'
      BY <1>12, <1>18, <1>21 DEF ArgsOf
    <3>. QED
      BY <1>13, <3>1, <3>2
  <2>. QED
    BY <2>1, <2>2, <2>3 DEF EdgesOK
<1>25. SummaryOK'
  <2>1. \A m \in 1..Len(summary.outcomes) : LetSomethingOut(m)' <=> LetSomethingOut(m)
    <3>. SUFFICES ASSUME NEW m \in 1..Len(summary.outcomes)
                  PROVE  LetSomethingOut(m)' <=> LetSomethingOut(m)
      OBVIOUS
    <3>1. trail'[node].mail # m
      BY <1>5, <1>12, <1>22
    <3>. QED
      BY <1>9, <1>13, <1>14, <3>1 DEF LetSomethingOut
  <2>2. LetSomethingOut(mail)' <=> judged.outcome = "EXECUTED"
    <3>1. \A k \in Decisions : trail'[k].mail # mail
      <4>. SUFFICES ASSUME NEW k \in Decisions PROVE trail[k].mail # mail
        BY <1>14
      <4>1. trail[k].mail \in 1..Len(summary.outcomes)
        BY DEF IInv, TrailOK
      <4>. QED
        BY <1>1, <1>22, <4>1
    <3>2. trail'[node].mail = mail /\ trail'[node].outcome = judged.outcome
      BY <1>1, <1>5, <1>12
    <3>. QED
      BY <1>12, <1>13, <3>1, <3>2 DEF LetSomethingOut
  <2>3. IsSeq(summary.outcomes)' /\ Len(summary'.outcomes) = at' - 1
    BY <1>2, <1>22 DEF IsSeq
  <2>4. ASSUME NEW m \in 1..Len(summary'.outcomes)
        PROVE  (summary'.outcomes[m].status = "EXECUTED") <=> LetSomethingOut(m)'
    <3>1. CASE m \in 1..Len(summary.outcomes)
      <4>1. (summary.outcomes[m].status = "EXECUTED") <=> LetSomethingOut(m)
        BY <3>1 DEF IInv, SummaryOK
      <4>. QED
        BY <1>22, <2>1, <3>1, <4>1
    <3>2. CASE m \notin 1..Len(summary.outcomes)
      <4>1. m = mail
        BY <1>1, <1>22, <3>2
      <4>2. summary'.outcomes[m].status = status
        BY <1>1, <1>22, <4>1
      <4>. QED
        BY <1>0, <2>2, <4>1, <4>2
    <3>. QED
      BY <3>1, <3>2
  <2>. QED
    BY <2>3, <2>4 DEF SummaryOK
<1>26. JobOK' /\ BaseOK' /\ ReportOK' /\ ReadingOK'
  BY <1>2, BaseStays DEF IInv, JobOK, InboxOK, Mails, ReportOK, ReadingOK, IsSeq, Class
<1>27. TurnOK'
  <2>1. Len(job.inbox) \in Nat /\ at' \in 1..(Len(job.inbox) + 1)
    BY <1>2 DEF Mails, IInv, JobOK, InboxOK
  <2>. QED
    BY <1>2, <2>1 DEF IInv, TurnOK
<1>28. TableOK'
  <2>1. table = <<>>
    BY <1>2 DEF IInv, TurnOK
  <2>2. 1..Len(table') = {}
    BY <1>2, <2>1, NothingYet
  <2>. QED
    BY <2>2 DEF TableOK
<1>. QED
  BY <1>23, <1>24, <1>25, <1>26, <1>27, <1>28

\* What is set aside for the agent's export, or is on file, is a value.
LEMMA RecordIsValue ==
    ASSUME NEW value, NEW vtype \in ValueType, NEW level \in Confidentiality
    PROVE  LET node == Label(value, vtype, {"COMPANY_DB"}, level)
           IN  ValueOK(node) /\ Trusted(node) /\ node.value = value
<1>. DEFINE node == Label(value, vtype, {"COMPANY_DB"}, level)
<1>1. node = [value |-> value, vtype |-> vtype, sources |-> {"COMPANY_DB"}, confidentiality |-> level]
  BY DEF Label
<1>2. {"COMPANY_DB"} \subseteq Source /\ {"COMPANY_DB"} \subseteq TrustedSources
  BY DEF Source, TrustedSources
<1>. QED
  BY <1>1, <1>2 DEF ValueOK, Trusted, IsTrusted

\* An obedient agent tries to send records away.
LEMMA ExportInvariant == ASSUME IInv, RequestExport PROVE IInv'
<1>. DEFINE recipient == Derive(Extract(Text, "export").value, "EMAIL_ADDRESS",
                                {Body}, {"MODEL_READER"})
            export == Label(None, "DOCUMENT", {"COMPANY_DB"}, "CONFIDENTIAL")
            judged == JudgeEmail(EmailContext(recipient,
                                  EmailFacts(recipient, {export}, "CONFIDENTIAL")))
            stored == <<recipient, export>>
            args == [recipient |-> New(1), attachment0 |-> New(2)]
            status == IF judged.outcome = "EXECUTED" THEN "EXECUTED" ELSE "DENIED"
<1>1. /\ Acts /\ ~ReadsInvoice /\ ledger' = ledger
      /\ Recorded(stored, DerivedFrom(reading.body, {New(1)}), "send_email", args, judged)
      /\ Concludes(status, judged.reason, "OTHER")
  BY DEF RequestExport
<1>2. ValueOK(recipient) /\ ValueOK(export) /\ Trusted(export)
  <2>1. Body.sources \subseteq Source /\ Body.confidentiality = "INTERNAL"
    BY BodyIsValue DEF ValueOK, Body, Label
  <2>2. ValueOK(recipient)
    BY <2>1, DerivedIsValue DEF ValueType
  <2>. QED
    BY <2>2, RecordIsValue DEF ValueType, Confidentiality
<1>3. (status = "EXECUTED") <=> (judged.outcome = "EXECUTED")
  OBVIOUS
<1>. HIDE DEF recipient, export, judged, status
<1>4. /\ IsSeq(stored) /\ Len(stored) = 2 /\ stored[1] = recipient /\ stored[2] = export
  BY ShortSeqs
<1>5. \A k \in 1..Len(stored) : ValueOK(stored[k])
  BY <1>2, <1>4
<1>6. DerivedFrom(reading.body, {New(1)}) = {Edge(reading.body, New(1), "derive")}
  BY DEF DerivedFrom
<1>7. reading # None /\ DOMAIN reading.fields = VerifiedFields(Text)
      /\ Root(reading.body) /\ trail[reading.body].value = at
  BY <1>1 DEF Acts, IInv, ReadingOK
<1>8. reading.body \in Values
  BY <1>7 DEF Root
<1>9. ~BaselineReadsInvoice(Text)
  BY <1>1, <1>7, BothReadInvoices DEF ReadsInvoice, InvoiceRead
<1>. HIDE DEF stored
<1>10. DecisionMade(stored, reading.body, "derive", "send_email", args, judged,
                    status, judged.reason, "OTHER")
  <2>1. \A name \in DOMAIN args :
            IF name \in OfTheMail
            THEN args[name] = New(1) \/ (args[name] \in Values /\ ReadOff(args[name], at))
            ELSE \/ args[name] \in Values /\ ReadOff(args[name], at)
                 \/ args[name] = New(2) /\ Len(stored) = 2 /\ Trusted(stored[2])
    BY <1>2, <1>4 DEF OfTheMail
  <2>2. "derive" \in EdgeKind /\ "send_email" # "pay_vendor"
    BY DEF EdgeKind
  <2>. HIDE DEF args
  <2>. QED
    BY <1>1, <1>3, <1>4, <1>5, <1>6, <1>7, <1>8, <1>9, <2>1, <2>2 DEF DecisionMade
<1>. HIDE DEF args
<1>11. /\ JobOK' /\ TurnOK' /\ BaseOK' /\ TrailOK' /\ EdgesOK' /\ ReadingOK'
       /\ SummaryOK' /\ ReportOK' /\ TableOK'
  BY <1>10, DecisionInvariant
<1>12. LedgerOK'
  BY <1>1 DEF IInv, LedgerOK, IsSeq
<1>. QED
  BY <1>11, <1>12 DEF IInv

\* The amount that was read is a number.
LEMMA AmountIsNumber ==
    ASSUME IInv, at \in Mails, "amount" \in VerifiedFields(Text)
    PROVE  Extract(Text, "amount").value \in Nat
<1>1. Extract(Text, "amount") # None
  BY DEF VerifiedFields
<1>2. PICK k \in 1..Len(Text) :
          Extract(Text, "amount") = Text[k]["amount"] /\ Text[k]["amount"] # None
  BY <1>1, ExtractFinds DEF Piece, Field
<1>3. Text[k].amount.value \in Nat
  BY <1>2 DEF IInv, JobOK, InboxOK, Mails, Text
<1>. QED
  BY <1>2, <1>3

\* What a payment is judged on: what was read, and the record it selects.
PaymentMade(vendor, account, amount, verified, before, args, stored, flag) ==
    LET judged == JudgePayment(PaymentContext(vendor, account, amount, verified, before))
    IN  /\ Acts /\ vendor \in Vendors /\ vendor = Extract(Text, "gstin").value
        /\ {"gstin", "invoice_number", "amount"} \subseteq VerifiedFields(Text)
        /\ amount.value = Extract(Text, "amount").value
        /\ (verified <=> job.inbox[at].domain = VendorMaster[vendor].domain
                         /\ job.inbox[at].dkim)
        /\ (before <=> InvoicePaid(vendor, Extract(Text, "invoice_number").value))
        /\ IsSeq(stored) /\ Len(stored) \in {1, 2}
        /\ \A k \in 1..Len(stored) : ValueOK(stored[k])
        /\ stored[1].value = vendor
        /\ Recorded(stored, {Edge(reading.fields["gstin"], New(1), "selection")},
                    "pay_vendor", args, judged)
        /\ Concludes(judged.outcome, judged.reason, flag)
        /\ DOMAIN args = {"vendor", "amount", "invoice", "account"}
        /\ args["vendor"] = New(1)
        /\ args["amount"] = reading.fields["amount"]
        /\ args["invoice"] = reading.fields["invoice_number"]
        /\ \/ /\ "bank_account" \in VerifiedFields(Text)
              /\ account.value = Extract(Text, "bank_account").value
              /\ account.value # VendorMaster[vendor].account
              /\ account = trail[reading.fields["bank_account"]]
              /\ args["account"] = reading.fields["bank_account"]
           \/ /\ "bank_account" \in VerifiedFields(Text) =>
                    Extract(Text, "bank_account").value = VendorMaster[vendor].account
              /\ account.value = VendorMaster[vendor].account
              /\ Trusted(account)
              /\ args["account"] = New(2) /\ Len(stored) = 2 /\ stored[2] = account
        /\ account.value # VendorMaster[vendor].account => flag = "SUSPICIOUS_BANK_CHANGE"
        /\ ledger' = IF judged.outcome # "EXECUTED" THEN ledger
                     ELSE Append(ledger,
                            [vendor |-> vendor,
                             invoice |-> Extract(Text, "invoice_number").value,
                             amount |-> amount.value, tail |-> LastFour[account.value]])

\* A payment that is tried is one.
LEMMA PaymentFacts ==
    ASSUME IInv, PayInvoice
    PROVE  \E vendor, account, amount, verified, before, args, stored, flag :
               PaymentMade(vendor, account, amount, verified, before, args, stored, flag)
<1>. DEFINE vendor == FieldRead("gstin")
            invoice == FieldRead("invoice_number")
            amount == trail[reading.fields["amount"]]
            verified == job.inbox[at].domain = VendorMaster[vendor].domain /\ job.inbox[at].dkim
            before == InvoicePaid(vendor, invoice)
            chosen == Label(vendor, "ENUM", {"COMPANY_DB"}, "INTERNAL")
            account == IF ProposesNewAccount(vendor) THEN trail[reading.fields["bank_account"]]
                       ELSE AccountOnFile(vendor)
            judged == JudgePayment(PaymentContext(vendor, account, amount, verified, before))
            args == [vendor |-> New(1), amount |-> reading.fields["amount"],
                     invoice |-> reading.fields["invoice_number"],
                     account |-> IF ProposesNewAccount(vendor)
                                 THEN reading.fields["bank_account"] ELSE New(2)]
            flag == CASE judged.outcome # "DENIED" -> "none"
                      [] ProposesNewAccount(vendor) -> "SUSPICIOUS_BANK_CHANGE"
                      [] judged.reason = "DUPLICATE_INVOICE" -> "DUPLICATE"
                      [] OTHER -> "OTHER"
            stored == <<chosen>> \o (IF ProposesNewAccount(vendor) THEN <<>>
                                     ELSE <<AccountOnFile(vendor)>>)
<1>1. /\ Acts /\ ReadsInvoice /\ vendor \in Vendors
      /\ Recorded(stored, Selects(New(1)), "pay_vendor", args, judged)
      /\ ledger' = IF judged.outcome # "EXECUTED" THEN ledger
                   ELSE Append(ledger, [vendor |-> vendor, invoice |-> invoice,
                                        amount |-> amount.value, tail |-> LastFour[account.value]])
      /\ Concludes(judged.outcome, judged.reason, flag)
  BY DEF PayInvoice
<1>2. /\ reading # None /\ DOMAIN reading.fields = VerifiedFields(Text)
      /\ \A field \in VerifiedFields(Text) : FieldRead(field) = Extract(Text, field).value
  BY <1>1 DEF Acts, IInv, ReadingOK
<1>3. {"gstin", "invoice_number", "amount"} \subseteq VerifiedFields(Text)
  BY <1>1, <1>2 DEF ReadsInvoice
<1>4. /\ vendor = Extract(Text, "gstin").value
      /\ invoice = Extract(Text, "invoice_number").value
      /\ amount.value = Extract(Text, "amount").value
  BY <1>2, <1>3 DEF FieldRead
<1>5. Selects(New(1)) = {Edge(reading.fields["gstin"], New(1), "selection")}
  BY DEF Selects
<1>6. ProposesNewAccount(vendor) =>
          /\ "bank_account" \in VerifiedFields(Text)
          /\ trail[reading.fields["bank_account"]].value = Extract(Text, "bank_account").value
          /\ trail[reading.fields["bank_account"]].value # VendorMaster[vendor].account
  BY <1>2 DEF ProposesNewAccount, FieldRead
<1>7. ~ProposesNewAccount(vendor) /\ "bank_account" \in VerifiedFields(Text) =>
          Extract(Text, "bank_account").value = VendorMaster[vendor].account
  BY <1>2 DEF ProposesNewAccount
<1>8. /\ ValueOK(chosen) /\ chosen.value = vendor
      /\ ValueOK(AccountOnFile(vendor)) /\ Trusted(AccountOnFile(vendor))
      /\ AccountOnFile(vendor).value = VendorMaster[vendor].account
  BY RecordIsValue DEF AccountOnFile, ValueType, Confidentiality
<1>. HIDE DEF vendor, invoice, amount, verified, chosen
<1>17. account.value # VendorMaster[vendor].account => flag = "SUSPICIOUS_BANK_CHANGE"
  <2>. SUFFICES ASSUME account.value # VendorMaster[vendor].account
                PROVE  flag = "SUSPICIOUS_BANK_CHANGE"
    OBVIOUS
  <2>1. ProposesNewAccount(vendor)
    BY <1>8
  <2>. HIDE DEF account
  <2>2. judged.outcome = "DENIED" /\ judged.reason # "DUPLICATE_INVOICE"
    BY DiversionJudged
  <2>. HIDE DEF judged
  <2>. QED
    BY <2>1, <2>2
<1>9. /\ IsSeq(stored) /\ stored[1] = chosen
      /\ ProposesNewAccount(vendor) => Len(stored) = 1
      /\ ~ProposesNewAccount(vendor) => Len(stored) = 2 /\ stored[2] = AccountOnFile(vendor)
  <2>1. CASE ProposesNewAccount(vendor)
    <3>1. stored = <<chosen>> \o <<>>
      BY <2>1
    <3>2. IsSeq(<<chosen>>) /\ Len(<<chosen>>) = 1 /\ <<chosen>>[1] = chosen
          /\ IsSeq(<<>>) /\ Len(<<>>) = 0
      BY ShortSeqs
    <3>. QED
      BY <2>1, <3>1, <3>2, ConcatSeqs
  <2>2. CASE ~ProposesNewAccount(vendor)
    <3>1. stored = <<chosen>> \o <<AccountOnFile(vendor)>>
      BY <2>2
    <3>2. /\ IsSeq(<<chosen>>) /\ Len(<<chosen>>) = 1 /\ <<chosen>>[1] = chosen
          /\ IsSeq(<<AccountOnFile(vendor)>>) /\ Len(<<AccountOnFile(vendor)>>) = 1
          /\ <<AccountOnFile(vendor)>>[1] = AccountOnFile(vendor)
      BY ShortSeqs
    <3>3. /\ IsSeq(stored) /\ Len(stored) = 1 + 1
          /\ \A k \in 1..1 : stored[k] = <<chosen>>[k]
          /\ \A k \in 1..1 : stored[1 + k] = <<AccountOnFile(vendor)>>[k]
      BY <3>1, <3>2, ConcatSeqs
    <3>. QED
      BY <2>2, <3>2, <3>3
  <2>. QED
    BY <2>1, <2>2
<1>. HIDE DEF stored
<1>10. \A k \in 1..Len(stored) : ValueOK(stored[k])
  BY <1>8, <1>9
<1>11. /\ DOMAIN args = {"vendor", "amount", "invoice", "account"}
       /\ args["vendor"] = New(1) /\ args["amount"] = reading.fields["amount"]
       /\ args["invoice"] = reading.fields["invoice_number"]
       /\ args["account"] = IF ProposesNewAccount(vendor)
                            THEN reading.fields["bank_account"] ELSE New(2)
  OBVIOUS
<1>. HIDE DEF args, flag
<1>12. \/ /\ "bank_account" \in VerifiedFields(Text)
          /\ account.value = Extract(Text, "bank_account").value
          /\ account.value # VendorMaster[vendor].account
          /\ account = trail[reading.fields["bank_account"]]
          /\ args["account"] = reading.fields["bank_account"]
       \/ /\ "bank_account" \in VerifiedFields(Text) =>
                Extract(Text, "bank_account").value = VendorMaster[vendor].account
          /\ account.value = VendorMaster[vendor].account
          /\ Trusted(account)
          /\ args["account"] = New(2) /\ Len(stored) = 2 /\ stored[2] = account
  BY <1>6, <1>7, <1>8, <1>9, <1>11
<1>13. Len(stored) \in {1, 2} /\ stored[1].value = vendor
  BY <1>8, <1>9
<1>14. verified <=> job.inbox[at].domain = VendorMaster[vendor].domain /\ job.inbox[at].dkim
  BY DEF verified
<1>. HIDE DEF account
<1>15. before <=> InvoicePaid(vendor, Extract(Text, "invoice_number").value)
  BY <1>4
<1>. HIDE DEF before
<1>16. PaymentMade(vendor, account, amount, verified, before, args, stored, flag)
  BY <1>1, <1>3, <1>4, <1>5, <1>9, <1>10, <1>11, <1>12, <1>13, <1>14, <1>15,
     <1>17 DEF PaymentMade
<1>. HIDE DEF judged
<1>. QED
  BY <1>16

\* What its decision says is found on the trail.
LEMMA PaymentRecorded ==
    ASSUME IInv, NEW vendor, NEW account, NEW amount, NEW verified, NEW before,
           NEW args, NEW stored, NEW flag,
           PaymentMade(vendor, account, amount, verified, before, args, stored, flag)
    PROVE  /\ trail'[args.vendor] = stored[1] /\ trail'[args.account] = account
           /\ \E all : IsSeq(all) /\ trail' = trail \o all
           /\ \E d \in Decisions' :
                 trail'[d].tool = "pay_vendor" /\ trail'[d].mail = at /\ trail'[d].args = args
<1>. DEFINE outcome == JudgePayment(PaymentContext(vendor, account, amount, verified, before)).outcome
            decision == [tool |-> "pay_vendor", args |-> args, mail |-> at, outcome |-> outcome]
            all == Append(stored, decision)
<1>1. /\ {"gstin", "invoice_number", "amount"} \subseteq VerifiedFields(Text)
      /\ IsSeq(stored) /\ Len(stored) \in {1, 2}
      /\ args["vendor"] = New(1) /\ trail' = trail \o all /\ Acts
  BY DEF PaymentMade, Recorded
<1>2. \/ /\ "bank_account" \in VerifiedFields(Text)
         /\ account = trail[reading.fields["bank_account"]]
         /\ args["account"] = reading.fields["bank_account"]
      \/ args["account"] = New(2) /\ Len(stored) = 2 /\ stored[2] = account
  BY DEF PaymentMade
<1>. HIDE DEF outcome
<1>3. "tool" \in DOMAIN decision /\ decision.tool = "pay_vendor" /\ decision.mail = at
      /\ decision.args = args
  OBVIOUS
<1>. HIDE DEF decision
<1>4. /\ IsSeq(all) /\ Len(all) = Len(stored) + 1
      /\ \A k \in 1..Len(stored) : all[k] = stored[k]
      /\ all[Len(stored) + 1] = decision
  BY <1>1, AppendSeq
<1>. HIDE DEF all
<1>5. IsSeq(trail) /\ Len(trail) \in Nat
  BY DEF IInv, TrailOK, IsSeq
<1>6. /\ Len(trail') = Len(trail) + Len(all)
      /\ \A k \in 1..Len(trail) : trail'[k] = trail[k]
      /\ \A k \in 1..Len(all) : trail'[New(k)] = all[k]
  BY <1>1, <1>4, <1>5, TrailGrows
<1>7. 1 \in 1..Len(stored) /\ 1 \in 1..Len(all) /\ Len(stored) + 1 \in 1..Len(all)
      /\ (Len(stored) = 2 => 2 \in 1..Len(stored) /\ 2 \in 1..Len(all))
  <2>1. (Len(stored) = 1 /\ Len(all) = 1 + 1) \/ (Len(stored) = 2 /\ Len(all) = 2 + 1)
    BY <1>1, <1>4
  <2>2. 1 \in 1..1 /\ 1 \in 1..2 /\ 2 \in 1..2 /\ 1 \in 1..(1 + 1) /\ 1 + 1 \in 1..(1 + 1)
        /\ 1 \in 1..(2 + 1) /\ 2 \in 1..(2 + 1) /\ 2 + 1 \in 1..(2 + 1)
    OBVIOUS
  <2>3. CASE Len(stored) = 1 /\ Len(all) = 1 + 1
    BY <2>2, <2>3
  <2>4. CASE Len(stored) = 2 /\ Len(all) = 2 + 1
    BY <2>2, <2>4
  <2>. QED
    BY <2>1, <2>3, <2>4
<1>8. trail'[New(1)] = stored[1] /\ (Len(stored) = 2 => trail'[New(2)] = stored[2])
      /\ trail'[New(Len(stored) + 1)] = decision
  BY <1>4, <1>6, <1>7
<1>9. \A n \in Values : trail'[n] = trail[n]
  BY <1>6 DEF Values
<1>10. "bank_account" \in VerifiedFields(Text) => reading.fields["bank_account"] \in Values
  BY <1>1 DEF Acts, IInv, ReadingOK, ReadOff
<1>11. trail'[args.vendor] = stored[1] /\ trail'[args.account] = account
  <2>1. trail'[args.vendor] = stored[1]
    BY <1>1, <1>8
  <2>2. CASE args["account"] = New(2) /\ Len(stored) = 2 /\ stored[2] = account
    BY <1>8, <2>1, <2>2
  <2>3. CASE /\ "bank_account" \in VerifiedFields(Text)
             /\ account = trail[reading.fields["bank_account"]]
             /\ args["account"] = reading.fields["bank_account"]
    BY <1>9, <1>10, <2>1, <2>3
  <2>. QED
    BY <1>2, <2>2, <2>3
<1>12. PICK d : d = New(Len(stored) + 1)
  OBVIOUS
<1>13. d \in 1..Len(trail') /\ trail'[d] = decision
  BY <1>5, <1>6, <1>7, <1>8, <1>12 DEF New
<1>14. d \in Decisions'
  BY <1>3, <1>13 DEF Decisions
<1>. QED
  BY <1>1, <1>3, <1>4, <1>11, <1>13, <1>14

\* A payment that is tried, and made if nothing is against it.
LEMMA PayInvariant == ASSUME IInv, PayInvoice PROVE IInv'
<1>1. PICK vendor, account, amount, verified, before, args, stored, flag :
          PaymentMade(vendor, account, amount, verified, before, args, stored, flag)
  BY PaymentFacts
<1>. DEFINE judged == JudgePayment(PaymentContext(vendor, account, amount, verified, before))
<1>2. judged.outcome = "EXECUTED" =>
          account.value = VendorMaster[vendor].account /\ amount.value <= MaxAmount
  BY PaymentJudged
<1>3. /\ Acts /\ vendor \in Vendors
      /\ {"gstin", "invoice_number", "amount"} \subseteq VerifiedFields(Text)
      /\ amount.value = Extract(Text, "amount").value
      /\ IsSeq(stored) /\ Len(stored) \in {1, 2}
      /\ \A k \in 1..Len(stored) : ValueOK(stored[k])
      /\ stored[1].value = vendor
      /\ Recorded(stored, {Edge(reading.fields["gstin"], New(1), "selection")},
                  "pay_vendor", args, judged)
      /\ Concludes(judged.outcome, judged.reason, flag)
      /\ DOMAIN args = {"vendor", "amount", "invoice", "account"}
      /\ args["vendor"] = New(1)
      /\ args["amount"] = reading.fields["amount"]
      /\ args["invoice"] = reading.fields["invoice_number"]
  BY <1>1 DEF PaymentMade
<1>4. \/ /\ "bank_account" \in VerifiedFields(Text)
         /\ account = trail[reading.fields["bank_account"]]
         /\ args["account"] = reading.fields["bank_account"]
      \/ /\ Trusted(account)
         /\ args["account"] = New(2) /\ Len(stored) = 2 /\ stored[2] = account
  BY <1>1 DEF PaymentMade
<1>5. ledger' = IF judged.outcome # "EXECUTED" THEN ledger
                ELSE Append(ledger, [vendor |-> vendor,
                                     invoice |-> Extract(Text, "invoice_number").value,
                                     amount |-> amount.value, tail |-> LastFour[account.value]])
  BY <1>1 DEF PaymentMade
<1>. HIDE DEF judged
<1>6. reading # None /\ \A field \in VerifiedFields(Text) : ReadOff(reading.fields[field], at)
  BY <1>3 DEF Acts, IInv, ReadingOK
<1>7. \A field \in VerifiedFields(Text) : reading.fields[field] \in Values
  BY <1>6 DEF ReadOff
<1>8. trail'[args.vendor] = stored[1] /\ trail'[args.account] = account
  BY <1>1, PaymentRecorded
<1>9. DecisionMade(stored, reading.fields["gstin"], "selection", "pay_vendor", args, judged,
                   judged.outcome, judged.reason, flag)
  <2>1. \A name \in DOMAIN args :
            IF name \in OfTheMail
            THEN args[name] = New(1) \/ (args[name] \in Values /\ ReadOff(args[name], at))
            ELSE \/ args[name] \in Values /\ ReadOff(args[name], at)
                 \/ args[name] = New(2) /\ Len(stored) = 2 /\ Trusted(stored[2])
    <3>1. "vendor" \in OfTheMail /\ "amount" \in OfTheMail /\ "invoice" \in OfTheMail
          /\ "account" \notin OfTheMail
      BY DEF OfTheMail
    <3>. QED
      BY <1>3, <1>4, <1>6, <1>7, <3>1
  <2>2. judged.outcome = "EXECUTED" =>
            trail'[args.account].value = VendorMaster[trail'[args.vendor].value].account
    BY <1>2, <1>3, <1>8
  <2>3. "selection" \in EdgeKind
    BY DEF EdgeKind
  <2>4. reading.fields["gstin"] \in Values /\ ReadOff(reading.fields["gstin"], at)
    BY <1>3, <1>6, <1>7
  <2>. QED
    BY <1>3, <2>1, <2>2, <2>3, <2>4 DEF DecisionMade
<1>10. /\ JobOK' /\ TurnOK' /\ BaseOK' /\ TrailOK' /\ EdgesOK' /\ ReadingOK'
       /\ SummaryOK' /\ ReportOK' /\ TableOK'
  BY <1>9, DecisionInvariant
<1>11. LedgerOK'
  <2>1. CASE judged.outcome # "EXECUTED"
    BY <1>5, <2>1 DEF IInv, LedgerOK, IsSeq
  <2>2. CASE judged.outcome = "EXECUTED"
    <3>. DEFINE entry == [vendor |-> vendor,
                          invoice |-> Extract(Text, "invoice_number").value,
                          amount |-> amount.value, tail |-> LastFour[account.value]]
    <3>1. amount.value \in Nat
      BY <1>3, AmountIsNumber DEF Acts
    <3>2. /\ entry.vendor \in Vendors /\ entry.amount \in 0..MaxAmount
          /\ entry.tail = LastFour[VendorMaster[entry.vendor].account]
      BY <1>2, <1>3, <2>2, <3>1, MandateAssumption
    <3>3. ledger' = Append(ledger, entry)
      BY <1>5, <2>2
    <3>. HIDE DEF entry
    <3>4. IsSeq(ledger) /\ Len(ledger) \in Nat
      BY DEF IInv, LedgerOK, IsSeq
    <3>5. /\ IsSeq(Append(ledger, entry)) /\ Len(Append(ledger, entry)) = Len(ledger) + 1
          /\ \A k \in 1..Len(ledger) : Append(ledger, entry)[k] = ledger[k]
          /\ Append(ledger, entry)[Len(ledger) + 1] = entry
      BY <3>4, AppendSeq
    <3>6. \A k \in 1..Len(ledger') : (k \in 1..Len(ledger) /\ ledger'[k] = ledger[k]) \/ ledger'[k] = entry
      BY <3>3, <3>4, <3>5
    <3>7. IsSeq(ledger)'
      BY <3>3, <3>5 DEF IsSeq
    <3>. QED
      BY <3>2, <3>6, <3>7 DEF IInv, LedgerOK
  <2>. QED
    BY <2>1, <2>2
<1>. QED
  BY <1>10, <1>11 DEF IInv

-----------------------------------------------------------------------------
(* Theorems. *)

\* Every step keeps the invariant.
LEMMA StepInvariant == IInv /\ [Next]_vars => IInv'
<1>. SUFFICES ASSUME IInv, [Next]_vars PROVE IInv'
  OBVIOUS
<1>1. CASE StartScenario \/ StartComparison
  BY <1>1, StartInvariant
<1>2. CASE BaselinePays \/ BaselineSends \/ BaselineSkips
  BY <1>2, BaselineInvariant
<1>3. CASE BaselineDone
  BY <1>3, BaselineDoneInvariant
<1>4. CASE Read
  BY <1>4, ReadInvariant
<1>5. CASE ReadRaises \/ SenderRaises \/ UNCHANGED vars
  BY <1>5, TurnInvariant
<1>6. CASE RequestExport
  BY <1>6, ExportInvariant
<1>7. CASE FlagUnreadable \/ FlagUnknownVendor
  BY <1>7, FlagInvariant
<1>8. CASE PayInvoice
  BY <1>8, PayInvariant
<1>9. CASE HallmarkDone
  BY <1>9, HallmarkDoneInvariant
<1>. QED
  BY <1>1, <1>2, <1>3, <1>4, <1>5, <1>6, <1>7, <1>8, <1>9 DEF Next

\* The stores of the two runs, what is recorded of each and what is reported
\* stay consistent, whatever the messages say.
THEOREM Invariant == Spec => []IInv
BY InitInvariant, StepInvariant, PTL DEF Spec

\* The trail, the ledger and the report hold what their types allow: no
\* payment above the cap, no row that counts more than there is.
THEOREM BenchTypes == Spec => []TypeOK
<1>1. IInv => TypeOK
  <2>. SUFFICES ASSUME IInv PROVE TypeOK
    OBVIOUS
  <2>1. turn \in {"idle", "baseline", "hallmark", "raised"} /\ at \in 1..(Len(job.inbox) + 1)
    BY DEF IInv, TurnOK
  <2>2. \A k \in 1..Len(base.payments) :
            base.payments[k].mail \in Mails /\ base.payments[k].vendor \in Vendors
    BY DEF IInv, BaseOK, AsRead
  <2>3. \A k \in Values :
            /\ trail[k].vtype \in ValueType
            /\ trail[k].sources \subseteq Source
            /\ trail[k].confidentiality \in Confidentiality
    BY DEF IInv, TrailOK, ValueOK
  <2>4. \A k \in Decisions :
            {trail[k].args[name] : name \in DOMAIN trail[k].args} \subseteq Values
    BY DEF IInv, TrailOK, ArgsOf
  <2>5. edges \subseteq [from : Values, to : 1..Len(trail), kind : EdgeKind]
    BY DEF IInv, EdgesOK
  <2>6. \A k \in 1..Len(ledger) : ledger[k].vendor \in Vendors /\ ledger[k].amount \in 0..MaxAmount
    BY DEF IInv, LedgerOK
  <2>7. \A k \in 1..Len(report) :
            /\ report[k].class \in Class /\ report[k].config \in {"BASELINE", "HALLMARK"}
            /\ report[k].succeeded \in BOOLEAN /\ report[k].paid \in 0..report[k].total
    BY DEF IInv, ReportOK
  <2>. QED
    BY <2>1, <2>2, <2>3, <2>4, <2>5, <2>6, <2>7 DEF TypeOK
<1>. QED
  BY <1>1, Invariant, PTL

\* The side-by-side table does not flatter the protected run, whatever the
\* inbox: a row says PAID exactly when something of its message was let out,
\* and beside a payment to the attacker that was one to the account on file.
THEOREM TableDoesNotFlatter == Spec => []ComparisonDoesNotFlatter
<1>1. IInv => ComparisonDoesNotFlatter
  BY TableIsTrue DEF IInv
<1>. QED
  BY <1>1, Invariant, PTL

-----------------------------------------------------------------------------
(* Payments in order are made. *)

\* What was paid stays paid, and an invoice in order stays in order.
LEMMA PaidStays ==
    ASSUME IInv, job' = job, base' = base,
           Len(ledger') \in Nat, Len(ledger) <= Len(ledger'),
           \A n \in 1..Len(ledger) : ledger'[n] = ledger[n],
           NEW k \in 1..Len(base.payments)
    PROVE  /\ InOrder(base.payments[k])' <=> InOrder(base.payments[k])
           /\ Paid(base.payments[k]) => Paid(base.payments[k])'
<1>1. InOrder(base.payments[k])' <=> InOrder(base.payments[k])
  BY DEF InOrder, Mentions
<1>2. Len(ledger) \in Nat
  BY DEF IInv, LedgerOK, IsSeq
<1>3. \A n \in 1..Len(ledger) : n \in 1..Len(ledger')
  BY <1>2
<1>4. ASSUME Paid(base.payments[k]) PROVE Paid(base.payments[k])'
  BY <1>3, <1>4 DEF Paid
<1>. QED
  BY <1>1, <1>4

\* An invoice in order says to both agents what the record of its vendor says.
LEMMA InOrderAsRead ==
    ASSUME IInv, at \in Mails,
           NEW k \in 1..Len(base.payments), base.payments[k].mail = at, InOrder(base.payments[k])
    PROVE  /\ base.payments[k].vendor \in Vendors
           /\ InvoiceRead(Text)
           /\ Extract(Text, "gstin").value = base.payments[k].vendor
           /\ Extract(Text, "invoice_number").value = base.payments[k].invoice
           /\ Extract(Text, "amount").value = base.payments[k].amount
           /\ "bank_account" \in VerifiedFields(Text) =>
                 Extract(Text, "bank_account").value = base.payments[k].account
<1>. DEFINE payment == base.payments[k]
<1>1. AsRead(payment) /\ payment.mail = at
  BY DEF IInv, BaseOK
<1>2. /\ \A field \in Field : Cardinality(Mentions(Text, field)) = 1
      /\ payment.account = VendorMaster[payment.vendor].account
  BY DEF InOrder, Text
<1>. HIDE DEF payment
<1>3. /\ BaselineReadsInvoice(Text) /\ payment.vendor \in Vendors
      /\ payment.vendor = BaselineFind(Text, "gstin")
      /\ payment.invoice = BaselineFind(Text, "invoice_number")
      /\ payment.amount = BaselineFind(Text, "amount")
      /\ payment.account = BaselineFind(Text, "bank_account")
  BY <1>1 DEF AsRead, Text
<1>4. Len(Text) \in Nat
  BY DEF IInv, JobOK, InboxOK, Mails, Text
<1>5. \A j \in 1..Len(Text), field \in Field :
          Text[j][field] # None /\ Text[j][field].wording = "long" =>
              field # "bank_account" \/ Text[j][field].value # BaselineFind(Text, field)
  <2>1. InboxOK(job.inbox) /\ at \in 1..Len(job.inbox)
    BY DEF IInv, JobOK, Mails
  <2>. QED
    BY <1>2, <1>3, <2>1, FileIsNotLong DEF Text
<1>6. \A field \in VerifiedFields(Text) : Extract(Text, field).value = BaselineFind(Text, field)
  BY <1>2, <1>3, <1>4, <1>5, BothReadAlike DEF BaselineReadsInvoice, VerifiedFields
<1>7. InvoiceRead(Text)
  BY <1>3, BothReadInvoices
<1>. QED
  BY <1>3, <1>6, <1>7 DEF InvoiceRead, payment

\* The payment of an invoice in order is made, or was.
LEMMA InOrderIsPaid ==
    ASSUME IInv, PayInvoice, "pay_vendor" \in AllowedActions,
           NEW k \in 1..Len(base.payments), base.payments[k].mail = at, InOrder(base.payments[k])
    PROVE  Paid(base.payments[k])'
<1>. DEFINE payment == base.payments[k]
<1>1. PICK vendor, account, amount, verified, before, args, stored, flag :
          PaymentMade(vendor, account, amount, verified, before, args, stored, flag)
  BY PaymentFacts
<1>. DEFINE judged == JudgePayment(PaymentContext(vendor, account, amount, verified, before))
            entry == [vendor |-> vendor, invoice |-> Extract(Text, "invoice_number").value,
                      amount |-> amount.value, tail |-> LastFour[account.value]]
<1>2. /\ Acts /\ vendor = Extract(Text, "gstin").value
      /\ amount.value = Extract(Text, "amount").value
      /\ (verified <=> job.inbox[at].domain = VendorMaster[vendor].domain /\ job.inbox[at].dkim)
      /\ (before <=> InvoicePaid(vendor, Extract(Text, "invoice_number").value))
      /\ Concludes(judged.outcome, judged.reason, flag)
      /\ ledger' = IF judged.outcome # "EXECUTED" THEN ledger ELSE Append(ledger, entry)
  BY <1>1 DEF PaymentMade
<1>3. ("bank_account" \in VerifiedFields(Text) =>
           Extract(Text, "bank_account").value = VendorMaster[vendor].account) =>
          account.value = VendorMaster[vendor].account /\ Trusted(account)
  BY <1>1 DEF PaymentMade
<1>4. at \in Mails /\ base' = base
  BY <1>2 DEF Acts, Concludes
<1>5. /\ payment.vendor = vendor /\ vendor \in Vendors /\ InvoiceRead(Text)
      /\ payment.invoice = Extract(Text, "invoice_number").value
      /\ payment.amount = amount.value
      /\ "bank_account" \in VerifiedFields(Text) =>
            payment.account = Extract(Text, "bank_account").value
  BY <1>2, <1>4, InOrderAsRead
<1>6. /\ payment.account = VendorMaster[vendor].account
      /\ job.inbox[at].domain = VendorMaster[vendor].domain /\ job.inbox[at].dkim
      /\ VendorMaster[vendor].status = "ACTIVE" /\ payment.amount <= AutoLimit
  BY <1>5 DEF InOrder
<1>7. account.value = VendorMaster[vendor].account /\ Trusted(account)
  BY <1>3, <1>5, <1>6
<1>8. amount.value \in Nat
  BY <1>2, <1>4, <1>5, AmountIsNumber DEF InvoiceRead
<1>9. ~before => judged.outcome = "EXECUTED"
  <2>. SUFFICES ASSUME ~before PROVE judged.outcome = "EXECUTED"
    OBVIOUS
  <2>1. verified
    BY <1>2, <1>6
  <2>2. amount.value <= AutoLimit /\ VendorMaster[vendor].status = "ACTIVE"
    BY <1>5, <1>6
  <2>. HIDE DEF judged, payment, entry
  <2>3. /\ "pay_vendor" \in AllowedActions
        /\ account.value = VendorMaster[vendor].account /\ Trusted(account)
        /\ VendorMaster[vendor].status = "ACTIVE"
        /\ amount.value \in Nat /\ amount.value <= AutoLimit
        /\ verified /\ ~before
    BY <1>7, <1>8, <2>1, <2>2
  <2>. QED
    BY <2>3, PaymentJudged DEF judged
<1>10. IsSeq(ledger) /\ Len(ledger) \in Nat
  BY DEF IInv, LedgerOK, IsSeq
<1>. HIDE DEF judged, entry, payment
<1>11. /\ Len(Append(ledger, entry)) = Len(ledger) + 1
       /\ \A n \in 1..Len(ledger) : Append(ledger, entry)[n] = ledger[n]
       /\ Append(ledger, entry)[Len(ledger) + 1] = entry
  BY <1>10, AppendSeq
<1>12. \E n \in 1..Len(ledger') :
           /\ ledger'[n].vendor = payment.vendor /\ ledger'[n].invoice = payment.invoice
           /\ ledger'[n].tail = LastFour[payment.account]
  <2>1. CASE before
    <3>1. PICK n \in 1..Len(ledger) : ledger[n].vendor = vendor /\ ledger[n].invoice = payment.invoice
      BY <1>2, <1>5, <2>1 DEF InvoicePaid
    <3>2. ledger[n].tail = LastFour[payment.account]
      BY <1>6, <3>1 DEF IInv, LedgerOK
    <3>3. n \in 1..Len(ledger') /\ ledger'[n] = ledger[n]
      BY <1>2, <1>10, <1>11
    <3>. QED
      BY <1>5, <3>1, <3>2, <3>3
  <2>2. CASE ~before
    <3>1. ledger' = Append(ledger, entry)
      BY <1>2, <1>9, <2>2
    <3>2. Len(ledger) + 1 \in 1..Len(ledger') /\ ledger'[Len(ledger) + 1] = entry
      BY <1>10, <1>11, <3>1
    <3>3. entry.vendor = payment.vendor /\ entry.invoice = payment.invoice
          /\ entry.tail = LastFour[payment.account]
      BY <1>5, <1>6, <1>7 DEF entry
    <3>. QED
      BY <3>2, <3>3
  <2>. QED
    BY <2>1, <2>2
<1>13. base'.payments[k] = payment
  BY <1>4 DEF payment
<1>. QED
  BY <1>12, <1>13 DEF Paid

\* Payments in order, of messages already processed, were made.
LEMMA PaidInOrderStep ==
    ASSUME "pay_vendor" \in AllowedActions, IInv, PaidInOrder, [Next]_vars
    PROVE  PaidInOrder'
<1>. SUFFICES ASSUME turn' # "baseline", NEW k \in 1..Len(base'.payments),
                     InOrder(base.payments[k])', base'.payments[k].mail < at'
              PROVE  Paid(base.payments[k])'
  BY DEF PaidInOrder
<1>1. ~StartScenario /\ ~StartComparison
  BY DEF StartScenario, StartComparison, Start
<1>2. ~BaselinePays /\ ~BaselineSends /\ ~BaselineSkips
  BY DEF BaselinePays, BaselineSends, BaselineSkips, BaselineTakes
<1>3. ~BaselineDone
  <2>. SUFFICES ASSUME BaselineDone PROVE FALSE
    OBVIOUS
  <2>1. at' = 1 /\ job' = job /\ base' = base
    BY DEF BaselineDone
  <2>2. base.payments[k].mail \in Mails
    BY <2>1 DEF IInv, BaseOK, AsRead
  <2>3. base.payments[k].mail \in Nat /\ base.payments[k].mail >= 1
    BY <2>2 DEF Mails, IInv, JobOK, InboxOK
  <2>. QED
    BY <2>1, <2>3
<1>4. IsSeq(ledger) /\ Len(ledger) \in Nat
  BY DEF IInv, LedgerOK, IsSeq
<1>5. ASSUME ledger' = ledger, job' = job, base' = base, turn = "hallmark" \/ turn = turn',
             base.payments[k].mail < at
      PROVE  Paid(base.payments[k])'
  <2>1. k \in 1..Len(base.payments) /\ turn # "baseline"
    BY <1>5
  <2>2. InOrder(base.payments[k])' <=> InOrder(base.payments[k])
    BY <1>4, <1>5, <2>1, PaidStays
  <2>3. Paid(base.payments[k])
    BY <1>5, <2>1, <2>2 DEF PaidInOrder
  <2>. QED
    BY <1>4, <1>5, <2>1, <2>3, PaidStays
<1>6. CASE Read \/ ReadRaises \/ SenderRaises \/ HallmarkDone \/ UNCHANGED vars
  BY <1>5, <1>6 DEF Read, ReadRaises, SenderRaises, Acts, HallmarkDone, store, vars
<1>7. ASSUME RequestExport \/ FlagUnreadable \/ FlagUnknownVendor \/ PayInvoice
      PROVE  /\ job' = job /\ base' = base /\ at' = at + 1 /\ at \in Mails /\ at \in Nat
             /\ turn = "hallmark" /\ reading # None
             /\ DOMAIN reading.fields = VerifiedFields(Text)
             /\ \A field \in VerifiedFields(Text) : FieldRead(field) = Extract(Text, field).value
             /\ k \in 1..Len(base.payments) /\ base.payments[k].mail \in Nat
             /\ base.payments[k].mail < at \/ base.payments[k].mail = at
  <2>1. Acts /\ \E status, reason, flag : Concludes(status, reason, flag)
    BY <1>7 DEF RequestExport, FlagUnreadable, FlagUnknownVendor, PayInvoice
  <2>2. /\ job' = job /\ base' = base /\ at' = at + 1 /\ at \in Mails
        /\ turn = "hallmark" /\ reading # None
    BY <2>1 DEF Acts, Concludes
  <2>3. base.payments[k].mail \in Mails /\ k \in 1..Len(base.payments)
    BY <2>2 DEF IInv, BaseOK, AsRead
  <2>4. at \in Nat /\ base.payments[k].mail \in Nat
    BY <2>2, <2>3 DEF Mails, IInv, JobOK, InboxOK
  <2>5. base'.payments[k].mail = base.payments[k].mail
    BY <2>2
  <2>6. base.payments[k].mail < at \/ base.payments[k].mail = at
    BY <2>2, <2>4, <2>5
  <2>. QED
    BY <2>2, <2>3, <2>4, <2>6 DEF IInv, ReadingOK
<1>8. ASSUME RequestExport \/ FlagUnreadable \/ FlagUnknownVendor
      PROVE  Paid(base.payments[k])'
  <2>1. ledger' = ledger
    BY <1>8 DEF RequestExport, FlagUnreadable, FlagUnknownVendor, store
  <2>2. CASE base.payments[k].mail < at
    BY <1>5, <1>7, <1>8, <2>1, <2>2
  <2>3. CASE base.payments[k].mail = at
    <3>1. InOrder(base.payments[k])
      BY <1>4, <1>7, <1>8, <2>1, PaidStays
    <3>2. InvoiceRead(Text) /\ Extract(Text, "gstin").value \in Vendors
      BY <1>7, <1>8, <2>3, <3>1, InOrderAsRead
    <3>3. ReadsInvoice /\ FieldRead("gstin") \in Vendors
      BY <1>7, <1>8, <3>2 DEF ReadsInvoice, InvoiceRead
    <3>. QED
      BY <1>8, <3>3 DEF RequestExport, FlagUnreadable, FlagUnknownVendor
  <2>. QED
    BY <1>7, <1>8, <2>2, <2>3
<1>9. ASSUME PayInvoice PROVE Paid(base.payments[k])'
  <2>1. PICK vendor, account, amount, verified, before, args, stored, flag :
            PaymentMade(vendor, account, amount, verified, before, args, stored, flag)
    BY <1>9, PaymentFacts
  <2>2. PICK entry : ledger' = ledger \/ ledger' = Append(ledger, entry)
    BY <2>1 DEF PaymentMade
  <2>3. /\ Len(ledger') \in Nat /\ Len(ledger) <= Len(ledger')
        /\ \A n \in 1..Len(ledger) : ledger'[n] = ledger[n]
    BY <1>4, <2>2, AppendSeq
  <2>4. /\ InOrder(base.payments[k])' <=> InOrder(base.payments[k])
        /\ Paid(base.payments[k]) => Paid(base.payments[k])'
    BY <1>7, <1>9, <2>3, PaidStays
  <2>5. CASE base.payments[k].mail < at
    <3>1. Paid(base.payments[k])
      BY <1>7, <1>9, <2>4, <2>5 DEF PaidInOrder
    <3>. QED
      BY <2>4, <3>1
  <2>6. CASE base.payments[k].mail = at
    BY <1>7, <1>9, <2>4, <2>6, InOrderIsPaid
  <2>. QED
    BY <1>7, <1>9, <2>5, <2>6
<1>. QED
  BY <1>1, <1>2, <1>3, <1>6, <1>8, <1>9 DEF Next

\* A payment the unprotected agent makes with nothing wrong about it is made
\* behind the enforcement point as well, in every inbox, if the mandate allows
\* payments at all.
THEOREM NothingInOrderIsRefusedAlways ==
    ASSUME "pay_vendor" \in AllowedActions
    PROVE  Spec => []NothingInOrderIsRefused
<1>1. Init => PaidInOrder
  <2>. SUFFICES ASSUME Init PROVE PaidInOrder
    OBVIOUS
  <2>1. 1..Len(base.payments) = {}
    BY NothingYet DEF Init, NoBaseline
  <2>. QED
    BY <2>1 DEF PaidInOrder
<1>2. IInv /\ PaidInOrder /\ [Next]_vars => PaidInOrder'
  BY PaidInOrderStep
<1>3. IInv /\ PaidInOrder => NothingInOrderIsRefused
  <2>. SUFFICES ASSUME IInv, PaidInOrder, BothRan, NEW k \in 1..Len(base.payments),
                       InOrder(base.payments[k])
                PROVE  Paid(base.payments[k])
    BY DEF NothingInOrderIsRefused, Paid
  <2>1. turn = "idle" /\ at = Len(job.inbox) + 1
    BY DEF BothRan, IInv, TurnOK
  <2>2. base.payments[k].mail \in 1..Len(job.inbox) /\ Len(job.inbox) \in Nat
    BY DEF IInv, BaseOK, AsRead, Mails, JobOK, InboxOK
  <2>3. base.payments[k].mail < at
    BY <2>1, <2>2
  <2>. QED
    BY <2>1, <2>3 DEF PaidInOrder
<1>. QED
  BY <1>1, <1>2, <1>3, Invariant, PTL DEF Spec

-----------------------------------------------------------------------------
(* What the trail tells: walks back along it, and its columns.             *)

\* A walk back ends at what one more step does not add to, if it may take
\* that many steps.
LEMMA AncestorsAre ==
    ASSUME NEW E, Cardinality(E) \in Nat, NEW node, NEW near, NEW far,
           near = ParentsOf(E, node),
           far = near \cup UNION {ParentsOf(E, m) : m \in near},
           far = far \cup UNION {ParentsOf(E, m) : m \in far},
           Cardinality(E) = 0 => near = far
    PROVE  AncestorsOf(E, node) = far
<1>. DEFINE C == Cardinality(E)
            Step(f) == [n \in 0..C |->
                           IF n = 0 THEN near
                           ELSE f[n - 1] \cup UNION {ParentsOf(E, m) : m \in f[n - 1]}]
            reached == CHOOSE f : f = Step(f)
            walk == [n \in 0..C |-> IF n = 0 THEN near ELSE far]
<1>1. AncestorsOf(E, node) = reached[C]
  BY DEF AncestorsOf
<1>. HIDE DEF C
<1>2. walk = Step(walk)
  <2>. SUFFICES ASSUME NEW n \in 0..C
                PROVE  walk[n] = IF n = 0 THEN near
                                 ELSE walk[n - 1] \cup UNION {ParentsOf(E, m) : m \in walk[n - 1]}
    OBVIOUS
  <2>1. CASE n = 0
    BY <2>1
  <2>2. CASE n # 0
    <3>1. n - 1 \in 0..C /\ C \in Nat
      BY <2>2 DEF C
    <3>2. walk[n] = far /\ walk[n - 1] \in {near, far}
      BY <2>2, <3>1
    <3>. QED
      BY <2>2, <3>2
  <2>. QED
    BY <2>1, <2>2
<1>. HIDE DEF walk
<1>3. reached = Step(reached)
  BY <1>2
<1>. HIDE DEF reached
<1>4. \A n \in 0..C : reached[n] = walk[n]
  <2>. DEFINE wrong == {n \in 0..C : reached[n] # walk[n]}
  <2>. SUFFICES ASSUME wrong # {} PROVE FALSE
    OBVIOUS
  <2>0. C \in Nat /\ wrong \subseteq Nat
    BY DEF C
  <2>. HIDE DEF wrong
  <2>1. PICK n \in wrong : \A j \in wrong : n <= j
    BY <2>0, EarliestIsFirst
  <2>2. n \in 0..C /\ reached[n] # walk[n]
    BY DEF wrong
  <2>3. reached[n] = Step(reached)[n] /\ walk[n] = Step(walk)[n]
    BY <1>2, <1>3
  <2>4. n # 0
    BY <2>2, <2>3
  <2>5. n - 1 \in 0..C /\ n - 1 \notin wrong
    BY <2>0, <2>1, <2>2, <2>4
  <2>6. reached[n - 1] = walk[n - 1]
    BY <2>5 DEF wrong
  <2>. QED
    BY <2>2, <2>3, <2>4, <2>6
<1>5. C \in Nat /\ walk[C] = far
  BY DEF C, walk
<1>. QED
  BY <1>1, <1>4, <1>5

\* A finite set of edges; one with an edge is not empty.
LEMMA EdgesFinite ==
    ASSUME IInv
    PROVE  /\ IsFiniteSet(edges) /\ Cardinality(edges) \in Nat
           /\ \A node : ParentsOf(edges, node) # {} => Cardinality(edges) # 0
<1>. DEFINE Kinds == {"derive", "selection", "arg"}
            Places == 1..Len(trail)
            triple == [e \in edges |-> <<<<e.from, e.to>>, e.kind>>]
            All == (Places \X Places) \X Kinds
<1>1. Len(trail) \in Nat
  BY DEF IInv, TrailOK, IsSeq
<1>2. IsFiniteSet(Places) /\ IsFiniteSet(Kinds)
  <2>1. IsFiniteSet({"derive"})
    BY FS_Singleton
  <2>2. IsFiniteSet({"derive"} \cup {"selection"})
    BY <2>1, FS_AddElement
  <2>3. IsFiniteSet(({"derive"} \cup {"selection"}) \cup {"arg"})
    BY <2>2, FS_AddElement
  <2>4. ({"derive"} \cup {"selection"}) \cup {"arg"} = Kinds
    OBVIOUS
  <2>. QED
    BY <1>1, <2>3, <2>4, FS_Interval
<1>3. IsFiniteSet(All)
  <2>. HIDE DEF Places, Kinds
  <2>1. IsFiniteSet(Places \X Places)
    BY <1>2, FS_Product
  <2>. QED
    BY <1>2, <2>1, FS_Product
<1>4. \A e \in edges : /\ e.from \in Places /\ e.to \in Places /\ e.kind \in Kinds
                       /\ e = [from |-> e.from, to |-> e.to, kind |-> e.kind]
  BY DEF IInv, EdgesOK, EdgeKind, Values
<1>. HIDE DEF Places, Kinds
<1>5. triple \in Injection(edges, All)
  <2>1. triple \in [edges -> All]
    BY <1>4
  <2>2. ASSUME NEW e \in edges, NEW f \in edges, triple[e] = triple[f] PROVE e = f
    <3>1. e.from = f.from /\ e.to = f.to /\ e.kind = f.kind
      BY <2>2
    <3>. QED
      BY <1>4, <3>1
  <2>. HIDE DEF triple, All
  <2>. QED
    BY <2>1, <2>2 DEF Injection, IsInjective
<1>6. IsFiniteSet(edges)
  BY <1>3, <1>5, FS_Injection
<1>7. Cardinality(edges) \in Nat
  BY <1>6, FS_CardinalityType
<1>8. ASSUME NEW node, ParentsOf(edges, node) # {} PROVE Cardinality(edges) # 0
  <2>1. edges # {}
    BY <1>8 DEF ParentsOf
  <2>. QED
    BY <1>6, <2>1, FS_EmptySet
<1>. QED
  BY <1>6, <1>7, <1>8

\* A value goes back to nothing, or to the body of one message.
LEMMA RootsOf ==
    ASSUME IInv, NEW node, NEW m
    PROVE  /\ Root(node) => RootSources(edges, node) = {}
           /\ ReadOff(node, m) \/ Selected(node, m) =>
                  {trail[root].value : root \in RootSources(edges, node)} = {m}
<1>1. Cardinality(edges) \in Nat
  BY EdgesFinite
<1>2. ASSUME Root(node) PROVE RootSources(edges, node) = {}
  <2>1. ParentsOf(edges, node) = {}
    BY <1>2 DEF Root
  <2>2. AncestorsOf(edges, node) = {}
    BY <1>1, <2>1, AncestorsAre
  <2>. QED
    BY <2>2 DEF RootSources
<1>3. ASSUME ReadOff(node, m)
      PROVE  {trail[root].value : root \in RootSources(edges, node)} = {m}
  <2>1. PICK body : /\ ParentsOf(edges, node) = {body} /\ ParentsOf(edges, body) = {}
                    /\ trail[body].value = m
    BY <1>3 DEF ReadOff, Root
  <2>2. UNION {ParentsOf(edges, n) : n \in {body}} = {}
    BY <2>1
  <2>3. AncestorsOf(edges, node) = {body}
    BY <1>1, <2>1, <2>2, AncestorsAre
  <2>4. RootSources(edges, node) = {body}
    BY <2>1, <2>3 DEF RootSources
  <2>. QED
    BY <2>1, <2>4
<1>4. ASSUME Selected(node, m)
      PROVE  {trail[root].value : root \in RootSources(edges, node)} = {m}
  <2>1. PICK key : ParentsOf(edges, node) = {key} /\ ReadOff(key, m)
    BY <1>4 DEF Selected
  <2>2. PICK body : /\ ParentsOf(edges, key) = {body} /\ ParentsOf(edges, body) = {}
                    /\ trail[body].value = m
    BY <2>1 DEF ReadOff, Root
  <2>3. UNION {ParentsOf(edges, n) : n \in {key}} = {body}
        /\ UNION {ParentsOf(edges, n) : n \in {key, body}} = {body}
    BY <2>2
  <2>4. Cardinality(edges) # 0
    BY <2>1, EdgesFinite
  <2>5. AncestorsOf(edges, node) = {key, body}
    <3>. DEFINE near == {key}
                far == {key, body}
    <3>1. /\ near = ParentsOf(edges, node)
          /\ far = near \cup UNION {ParentsOf(edges, n) : n \in near}
          /\ far = far \cup UNION {ParentsOf(edges, n) : n \in far}
          /\ Cardinality(edges) = 0 => near = far
      BY <2>1, <2>3, <2>4
    <3>. HIDE DEF near, far
    <3>2. AncestorsOf(edges, node) = far
      BY <1>1, <3>1, AncestorsAre
    <3>. QED
      BY <3>2 DEF far
  <2>6. RootSources(edges, node) = {body}
    BY <2>2, <2>5 DEF RootSources
  <2>. QED
    BY <2>2, <2>6
<1>. QED
  BY <1>2, <1>3, <1>4

\* The vendor, the amount, the invoice and the recipient of every decision go
\* back to the message it is about and to no other, and what does not is a
\* record of the company's: in every run, however long.
THEOREM EveryDecisionIsTraced == Spec => []DecisionTracesToItsMail
<1>1. IInv => DecisionTracesToItsMail
  <2>. SUFFICES ASSUME IInv, NEW k \in Decisions, NEW name \in DOMAIN trail[k].args
                PROVE  LET node == trail[k].args[name]
                           told == {trail[root].value : root \in RootSources(edges, node)}
                       IN  IF name \in {"vendor", "amount", "invoice", "recipient"}
                           THEN told = {trail[k].mail}
                           ELSE told = {trail[k].mail} \/ (told = {} /\ Trusted(trail[node]))
    BY DEF DecisionTracesToItsMail
  <2>. DEFINE node == trail[k].args[name]
              told == {trail[root].value : root \in RootSources(edges, node)}
  <2>1. IF name \in OfTheMail
        THEN ReadOff(node, trail[k].mail) \/ Selected(node, trail[k].mail)
        ELSE \/ ReadOff(node, trail[k].mail)
             \/ Root(node) /\ Trusted(trail[node])
    BY DEF IInv, EdgesOK, ArgsRooted
  <2>2. ReadOff(node, trail[k].mail) \/ Selected(node, trail[k].mail) => told = {trail[k].mail}
    BY RootsOf
  <2>3. Root(node) => told = {}
    <3>1. Root(node) => RootSources(edges, node) = {}
      BY RootsOf
    <3>. QED
      BY <3>1
  <2>. HIDE DEF node, told
  <2>4. IF name \in OfTheMail THEN told = {trail[k].mail}
        ELSE told = {trail[k].mail} \/ (told = {} /\ Trusted(trail[node]))
    BY <2>1, <2>2, <2>3
  <2>. QED
    BY <2>4 DEF OfTheMail, node, told
<1>. QED
  BY <1>1, Invariant, PTL

\* Of a few columns one is the rightmost.
LEMMA RightmostOf ==
    ASSUME NEW S, S \subseteq 0..3, S # {}
    PROVE  LET top == CHOOSE d \in S : \A c \in S : c <= d
           IN  top \in S /\ \A c \in S : c <= top
<1>1. \E d \in S : \A c \in S : c <= d
  <2>1. CASE 3 \in S
    BY <2>1
  <2>2. CASE 3 \notin S /\ 2 \in S
    BY <2>2
  <2>3. CASE 3 \notin S /\ 2 \notin S /\ 1 \in S
    BY <2>3
  <2>4. CASE 3 \notin S /\ 2 \notin S /\ 1 \notin S
    <3>1. \A c \in S : c = 0
      BY <2>4
    <3>2. 0 \in S
      BY <3>1
    <3>3. \A c \in S : c <= 0
      BY <3>1
    <3>. QED
      BY <3>2, <3>3
  <2>. QED
    BY <2>1, <2>2, <2>3, <2>4
<1>. QED
  BY <1>1

\* The rounds end in the column each value belongs in, if there are enough.
LEMMA DepthsAre ==
    ASSUME NEW E, NEW handles, Cardinality(E) \in Nat, NEW none, NEW half, NEW full,
           none = [h \in handles |-> 0],
           half = Relaxed(E, none), full = Relaxed(E, half), full = Relaxed(E, full),
           Cardinality(E) = 0 => none = full,
           Cardinality(E) = 1 => half = full
    PROVE  ValueDepths(E, handles) = full
<1>. DEFINE C == Cardinality(E)
            Step(f) == [n \in 0..C |->
                           IF n = 0 THEN none
                           ELSE IF Relaxed(E, f[n - 1]) = f[n - 1] THEN f[n - 1]
                                ELSE Relaxed(E, f[n - 1])]
            round == CHOOSE f : f = Step(f)
            ends == [n \in 0..C |-> IF n = 0 THEN none ELSE IF n = 1 THEN half ELSE full]
<1>1. ValueDepths(E, handles) = round[C]
  BY DEF ValueDepths
<1>. HIDE DEF C
<1>2. ends = Step(ends)
  <2>. SUFFICES ASSUME NEW n \in 0..C
                PROVE  ends[n] = IF n = 0 THEN none
                                 ELSE IF Relaxed(E, ends[n - 1]) = ends[n - 1] THEN ends[n - 1]
                                      ELSE Relaxed(E, ends[n - 1])
    OBVIOUS
  <2>1. CASE n = 0
    BY <2>1
  <2>2. CASE n = 1
    <3>1. ends[n] = half /\ ends[n - 1] = none
      <4>1. n \in 0..C /\ n - 1 \in 0..C /\ n # 0 /\ n - 1 = 0
        BY <2>2 DEF C
      <4>. QED
        BY <2>2, <4>1
    <3>2. half = Relaxed(E, none)
      OBVIOUS
    <3>. HIDE DEF ends
    <3>. QED
      BY <2>2, <3>1, <3>2
  <2>3. CASE n # 0 /\ n # 1
    <3>1. n - 1 \in 0..C /\ n - 1 # 0
      BY <2>3 DEF C
    <3>2. ends[n] = full /\ ends[n - 1] \in {half, full}
      BY <2>3, <3>1
    <3>3. Relaxed(E, ends[n - 1]) = full
      BY <3>2
    <3>. QED
      BY <2>3, <3>2, <3>3
  <2>. QED
    BY <2>1, <2>2, <2>3
<1>. HIDE DEF ends
<1>3. round = Step(round)
  BY <1>2
<1>. HIDE DEF round
<1>4. \A n \in 0..C : round[n] = ends[n]
  <2>. DEFINE wrong == {n \in 0..C : round[n] # ends[n]}
  <2>. SUFFICES ASSUME wrong # {} PROVE FALSE
    OBVIOUS
  <2>0. C \in Nat /\ wrong \subseteq Nat
    BY DEF C
  <2>. HIDE DEF wrong
  <2>1. PICK n \in wrong : \A j \in wrong : n <= j
    BY <2>0, EarliestIsFirst
  <2>2. n \in 0..C /\ round[n] # ends[n]
    BY DEF wrong
  <2>3. round[n] = Step(round)[n] /\ ends[n] = Step(ends)[n]
    BY <1>2, <1>3
  <2>4. n # 0
    BY <2>2, <2>3
  <2>5. n - 1 \in 0..C /\ n - 1 \notin wrong
    BY <2>0, <2>1, <2>2, <2>4
  <2>6. round[n - 1] = ends[n - 1]
    BY <2>5 DEF wrong
  <2>. QED
    BY <2>2, <2>3, <2>4, <2>6
<1>5. C \in Nat /\ ends[C] = full
  BY DEF C, ends
<1>. QED
  BY <1>1, <1>4, <1>5

\* The column a value belongs in: none leads to the body of a message, the
\* body to what is read off it, and that to what it selects.
Column(node) ==
    IF ParentsOf(edges, node) = {} THEN 0
    ELSE IF \E key \in ParentsOf(edges, node) : ParentsOf(edges, key) # {} THEN 2 ELSE 1

\* A value with nothing before it is in column 0, and one with something has
\* that one column before it.
LEMMA OneParent ==
    ASSUME IInv, NEW node \in Values
    PROVE  /\ Column(node) \in 0..2
           /\ \/ ParentsOf(edges, node) = {} /\ Column(node) = 0
              \/ \E parent \in Values : /\ ParentsOf(edges, node) = {parent}
                                        /\ Column(node) = Column(parent) + 1
<1>1. CASE Root(node)
  BY <1>1 DEF Root, Column
<1>2. ASSUME NEW m, ReadOff(node, m)
      PROVE  /\ Column(node) = 1
             /\ \E parent \in Values : ParentsOf(edges, node) = {parent} /\ Column(parent) = 0
  <2>1. PICK body \in Values : ParentsOf(edges, node) = {body} /\ ParentsOf(edges, body) = {}
    BY <1>2 DEF ReadOff, Root
  <2>. QED
    BY <2>1 DEF Column
<1>3. ASSUME NEW m, Selected(node, m)
      PROVE  /\ Column(node) = 2
             /\ \E parent \in Values : ParentsOf(edges, node) = {parent} /\ Column(parent) = 1
  <2>1. PICK key \in Values : ParentsOf(edges, node) = {key} /\ ReadOff(key, m)
    BY <1>3 DEF Selected
  <2>2. PICK body \in Values : ParentsOf(edges, key) = {body} /\ ParentsOf(edges, body) = {}
    BY <2>1 DEF ReadOff, Root
  <2>. QED
    BY <2>1, <2>2 DEF Column
<1>. QED
  BY <1>1, <1>2, <1>3 DEF IInv, EdgesOK

\* One round moves a value right of the one before it.
LEMMA RelaxedAt ==
    ASSUME IInv, NEW depth, DOMAIN depth = Values, \A h \in Values : depth[h] \in 0..2,
           NEW node \in Values
    PROVE  /\ ParentsOf(edges, node) = {} => Relaxed(edges, depth)[node] = depth[node]
           /\ \A parent \in Values :
                 ParentsOf(edges, node) = {parent} =>
                     Relaxed(edges, depth)[node] =
                         IF depth[node] <= depth[parent] THEN depth[parent] + 1 ELSE depth[node]
<1>. DEFINE columns == {depth[node]} \cup
                           {depth[m] + 1 : m \in ParentsOf(edges, node) \cap DOMAIN depth}
            top == CHOOSE d \in columns : \A c \in columns : c <= d
<1>1. Relaxed(edges, depth)[node] = top
  BY DEF Relaxed
<1>2. depth[node] \in 0..2
  OBVIOUS
<1>3. ASSUME ParentsOf(edges, node) = {} PROVE top = depth[node]
  <2>1. columns = {depth[node]}
    BY <1>3
  <2>2. columns \subseteq 0..3 /\ columns # {}
    BY <1>2, <2>1
  <2>. HIDE DEF columns
  <2>3. top \in columns
    BY <2>2, RightmostOf
  <2>. QED
    BY <2>1, <2>3
<1>4. ASSUME NEW parent \in Values, ParentsOf(edges, node) = {parent}
      PROVE  top = IF depth[node] <= depth[parent] THEN depth[parent] + 1 ELSE depth[node]
  <2>1. columns = {depth[node], depth[parent] + 1}
    BY <1>4
  <2>2. depth[parent] \in 0..2
    OBVIOUS
  <2>3. columns \subseteq 0..3 /\ columns # {}
    BY <1>2, <2>1, <2>2
  <2>. HIDE DEF columns
  <2>4. top \in columns /\ \A c \in columns : c <= top
    BY <2>3, RightmostOf
  <2>. HIDE DEF top
  <2>5. /\ top = depth[node] \/ top = depth[parent] + 1
        /\ depth[node] <= top /\ depth[parent] + 1 <= top
    BY <2>1, <2>4
  <2>. QED
    BY <1>2, <2>2, <2>5
<1>. QED
  BY <1>1, <1>3, <1>4

\* A value that is not in the first column takes an edge to get there, and one
\* in the third takes two.
LEMMA EnoughEdges ==
    ASSUME IInv, NEW node \in Values
    PROVE  /\ Cardinality(edges) = 0 => Column(node) = 0
           /\ Cardinality(edges) = 1 => Column(node) <= 1
<1>1. IsFiniteSet(edges) /\ Cardinality(edges) \in Nat
  BY EdgesFinite
<1>2. Cardinality(edges) = 0 => Column(node) = 0
  BY EdgesFinite DEF Column
<1>3. ASSUME Cardinality(edges) = 1, ~(Column(node) <= 1) PROVE FALSE
  <2>1. PICK only : edges = {only}
    BY <1>1, <1>3, FS_Singleton
  <2>2. PICK key \in ParentsOf(edges, node) : ParentsOf(edges, key) # {}
    BY <1>3 DEF Column
  <2>3. only.to = node /\ only.from = key /\ only.to = key
    BY <2>1, <2>2 DEF ParentsOf
  <2>4. ParentsOf(edges, node) = {node}
    BY <2>1, <2>3 DEF ParentsOf
  <2>5. PICK parent \in Values : /\ ParentsOf(edges, node) = {parent}
                                 /\ Column(node) = Column(parent) + 1
    BY <2>4, OneParent
  <2>6. parent = node /\ Column(node) \in 0..2
    BY <2>4, <2>5, OneParent
  <2>. QED
    BY <2>5, <2>6
<1>. QED
  <2>1. Column(node) \in 0..2
    BY OneParent
  <2>. QED
    BY <1>2, <1>3, <2>1

\* So the rounds put every value in the column it belongs in.
LEMMA ColumnsAre ==
    ASSUME IInv
    PROVE  ValueDepths(edges, Values) = [h \in Values |-> Column(h)]
<1>. DEFINE none == [h \in Values |-> 0]
            half == [h \in Values |-> IF Column(h) = 0 THEN 0 ELSE 1]
            full == [h \in Values |-> Column(h)]
<1>1. \A h \in Values : Column(h) \in 0..2
  BY OneParent
<1>2. /\ DOMAIN none = Values /\ \A h \in Values : none[h] \in 0..2
      /\ DOMAIN half = Values /\ \A h \in Values : half[h] \in 0..2
      /\ DOMAIN full = Values /\ \A h \in Values : full[h] \in 0..2
  BY <1>1
<1>3. /\ Relaxed(edges, none) = [h \in Values |-> Relaxed(edges, none)[h]]
      /\ Relaxed(edges, half) = [h \in Values |-> Relaxed(edges, half)[h]]
      /\ Relaxed(edges, full) = [h \in Values |-> Relaxed(edges, full)[h]]
  BY DEF Relaxed
<1>4. \A h \in Values : /\ none[h] = 0
                        /\ half[h] = IF Column(h) = 0 THEN 0 ELSE 1
                        /\ full[h] = Column(h)
  OBVIOUS
<1>. HIDE DEF none, half, full
<1>5. ASSUME NEW node \in Values
      PROVE  /\ Relaxed(edges, none)[node] = half[node]
             /\ Relaxed(edges, half)[node] = full[node]
             /\ Relaxed(edges, full)[node] = full[node]
  <2>1. CASE ParentsOf(edges, node) = {} /\ Column(node) = 0
    BY <1>2, <1>4, <2>1, RelaxedAt
  <2>2. CASE \E parent \in Values : /\ ParentsOf(edges, node) = {parent}
                                    /\ Column(node) = Column(parent) + 1
    <3>1. PICK parent \in Values : /\ ParentsOf(edges, node) = {parent}
                                   /\ Column(node) = Column(parent) + 1
      BY <2>2
    <3>2. Column(parent) \in 0..1 /\ Column(node) \in 1..2
      BY <1>1, <3>1
    <3>3. Relaxed(edges, none)[node] =
              IF none[node] <= none[parent] THEN none[parent] + 1 ELSE none[node]
      BY <1>2, <3>1, RelaxedAt
    <3>4. Relaxed(edges, half)[node] =
              IF half[node] <= half[parent] THEN half[parent] + 1 ELSE half[node]
      BY <1>2, <3>1, RelaxedAt
    <3>5. Relaxed(edges, full)[node] =
              IF full[node] <= full[parent] THEN full[parent] + 1 ELSE full[node]
      BY <1>2, <3>1, RelaxedAt
    <3>6. none[node] = 0 /\ none[parent] = 0 /\ half[node] = 1
          /\ half[parent] = Column(parent) /\ full[node] = Column(parent) + 1
          /\ full[parent] = Column(parent)
      BY <1>4, <3>1, <3>2
    <3>. QED
      BY <3>2, <3>3, <3>4, <3>5, <3>6
  <2>. QED
    BY <2>1, <2>2, OneParent
<1>6. half = Relaxed(edges, none) /\ full = Relaxed(edges, half) /\ full = Relaxed(edges, full)
  <2>1. half = [h \in Values |-> half[h]] /\ full = [h \in Values |-> full[h]]
    BY DEF half, full
  <2>. QED
    BY <1>3, <1>5, <2>1
<1>7. Cardinality(edges) = 0 => none = full
  <2>. SUFFICES ASSUME Cardinality(edges) = 0 PROVE none = full
    OBVIOUS
  <2>1. \A h \in Values : none[h] = full[h]
    BY <1>4, EnoughEdges
  <2>. QED
    BY <2>1 DEF none, full
<1>8. Cardinality(edges) = 1 => half = full
  <2>. SUFFICES ASSUME Cardinality(edges) = 1 PROVE half = full
    OBVIOUS
  <2>1. \A h \in Values : half[h] = full[h]
    BY <1>1, <1>4, EnoughEdges
  <2>. QED
    BY <2>1 DEF half, full
<1>9. Cardinality(edges) \in Nat /\ none = [h \in Values |-> 0]
  BY EdgesFinite DEF none
<1>10. ValueDepths(edges, Values) = full
  BY <1>6, <1>7, <1>8, <1>9, DepthsAre
<1>. QED
  BY <1>10 DEF full

\* The console's columns: a value stands one right of what leads to it and a
\* decision right of all its arguments, although the rounds that compute the
\* columns are capped by the number of edges: in every run, however long.
THEOREM ColumnsFollowTheEdges == Spec => []LaidOutByDepth
<1>1. IInv => LaidOutByDepth
  <2>. SUFFICES ASSUME IInv PROVE LaidOutByDepth
    OBVIOUS
  <2>. DEFINE depth == ValueDepths(edges, Values)
  <2>1. depth = [h \in Values |-> Column(h)]
    BY ColumnsAre
  <2>2. DOMAIN depth = Values /\ \A h \in Values : depth[h] = Column(h) /\ depth[h] \in 0..2
    BY <2>1, OneParent
  <2>. HIDE DEF depth
  <2>3. ASSUME NEW node \in Values
        PROVE  IF ParentsOf(edges, node) = {} THEN depth[node] = 0
               ELSE /\ \A parent \in ParentsOf(edges, node) : depth[node] > depth[parent]
                    /\ \E parent \in ParentsOf(edges, node) : depth[node] = depth[parent] + 1
    <3>1. CASE ParentsOf(edges, node) = {} /\ Column(node) = 0
      BY <2>2, <3>1
    <3>2. CASE \E parent \in Values : /\ ParentsOf(edges, node) = {parent}
                                      /\ Column(node) = Column(parent) + 1
      <4>1. PICK parent \in Values : /\ ParentsOf(edges, node) = {parent}
                                     /\ Column(node) = Column(parent) + 1
        BY <3>2
      <4>2. depth[node] = depth[parent] + 1 /\ depth[parent] \in 0..2
        BY <2>2, <4>1
      <4>3. depth[node] > depth[parent]
        BY <4>2
      <4>. QED
        BY <4>1, <4>2, <4>3
    <3>. QED
      BY <3>1, <3>2, OneParent
  <2>4. ASSUME NEW k \in Decisions, NEW node \in ParentsOf(edges, k)
        PROVE  DecisionDepth(depth, {trail[k].args[name] : name \in DOMAIN trail[k].args})
                   > depth[node]
    <3>. DEFINE args == ArgsOf(trail[k])
                columns == {0} \cup {depth[h] : h \in args \cap DOMAIN depth}
                top == CHOOSE d \in columns : \A c \in columns : c <= d
    <3>1. node \in args /\ args \subseteq Values
      BY DEF IInv, EdgesOK, TrailOK
    <3>2. DecisionDepth(depth, args) = 1 + top
      BY DEF DecisionDepth
    <3>. HIDE DEF args
    <3>3. columns \subseteq 0..3 /\ columns # {} /\ depth[node] \in columns
      BY <2>2, <3>1
    <3>. HIDE DEF columns
    <3>4. top \in columns /\ \A c \in columns : c <= top
      BY <3>3, RightmostOf
    <3>5. top \in 0..3 /\ depth[node] \in 0..3 /\ depth[node] <= top
      BY <3>3, <3>4
    <3>. HIDE DEF top
    <3>6. 1 + top > depth[node]
      BY <3>5
    <3>7. DecisionDepth(depth, args) > depth[node]
      BY <3>2, <3>6
    <3>. QED
      BY <3>7 DEF args, ArgsOf
  <2>. QED
    BY <2>3, <2>4 DEF LaidOutByDepth, depth
<1>. QED
  BY <1>1, Invariant, PTL
-----------------------------------------------------------------------------
(* Money the unprotected agent would have diverted.                        *)

\* Both agents read the same vendor off a printed invoice.  They need not: a
\* registration number a person typed above the printed one is the vendor to
\* the protected run only.
SameVendorRead(inbox) ==
    \A m \in 1..Len(inbox) :
        LET text == FullText(inbox[m])
        IN  BaselineReadsInvoice(text) => Extract(text, "gstin").value = BaselineFind(text, "gstin")

OnFile(payment) == VendorMaster[payment.vendor].account

ReviewOpen(payment) == \E n \in 1..Len(summary.reviews) : summary.reviews[n] = payment.mail

\* The reader finds no account in the message, or the one on file, and that is
\* the one decided on.
FileProposed(payment) ==
    /\ LET read == Extract(FullText(job.inbox[payment.mail]), "bank_account")
       IN  read = None \/ read.value = OnFile(payment)
    /\ \E n \in Decisions :
          /\ trail[n].tool = "pay_vendor" /\ trail[n].mail = payment.mail
          /\ trail[trail[n].args.account].value = OnFile(payment)

\* Diversions of the messages already processed were answered.
DiversionsAnswered ==
    /\ SameVendorRead(job.inbox)
    /\ IsSeq(summary.reviews)
    /\ turn # "baseline" =>
          \A k \in 1..Len(base.payments) :
              base.payments[k].account # OnFile(base.payments[k]) /\ base.payments[k].mail < at =>
                  ReviewOpen(base.payments[k]) \/ FileProposed(base.payments[k])

\* The protected run takes back nothing it has recorded.
NothingTakenBack ==
    /\ \A n \in Decisions : n \in Decisions' /\ trail'[n] = trail[n]
    /\ \A n \in Values : trail'[n] = trail[n]
    /\ IsSeq(summary'.reviews)
    /\ \A n \in 1..Len(summary.reviews) :
          n \in 1..Len(summary'.reviews) /\ summary'.reviews[n] = summary.reviews[n]

\* What is concluded about a message leaves the open reviews open.
LEMMA ReviewsStay ==
    ASSUME IsSeq(summary.reviews), NEW status, NEW reason, NEW flag,
           Concludes(status, reason, flag)
    PROVE  /\ IsSeq(summary'.reviews)
           /\ \A n \in 1..Len(summary.reviews) :
                 n \in 1..Len(summary'.reviews) /\ summary'.reviews[n] = summary.reviews[n]
           /\ flag = "SUSPICIOUS_BANK_CHANGE" =>
                 \E n \in 1..Len(summary'.reviews) : summary'.reviews[n] = at
<1>1. summary'.reviews = IF flag = "SUSPICIOUS_BANK_CHANGE" THEN Append(summary.reviews, at)
                         ELSE summary.reviews
  BY DEF Concludes
<1>2. Len(summary.reviews) \in Nat
  BY DEF IsSeq
<1>3. /\ IsSeq(Append(summary.reviews, at))
      /\ Len(Append(summary.reviews, at)) = Len(summary.reviews) + 1
      /\ \A n \in 1..Len(summary.reviews) : Append(summary.reviews, at)[n] = summary.reviews[n]
      /\ Append(summary.reviews, at)[Len(summary.reviews) + 1] = at
  BY AppendSeq
<1>4. CASE flag = "SUSPICIOUS_BANK_CHANGE"
  <2>1. summary'.reviews = Append(summary.reviews, at)
    BY <1>1, <1>4
  <2>2. \A n \in 1..Len(summary.reviews) : n \in 1..(Len(summary.reviews) + 1)
    BY <1>2
  <2>3. Len(summary.reviews) + 1 \in 1..(Len(summary.reviews) + 1)
    BY <1>2
  <2>. QED
    BY <1>3, <2>1, <2>2, <2>3
<1>5. CASE flag # "SUSPICIOUS_BANK_CHANGE"
  BY <1>1, <1>5
<1>. QED
  BY <1>4, <1>5

\* So does recording a decision.
LEMMA RecordStays ==
    ASSUME IInv, IsSeq(summary.reviews), NEW stored, IsSeq(stored), trail' = trail \o stored,
           summary' = summary \/ \E status, reason, flag : Concludes(status, reason, flag)
    PROVE  NothingTakenBack
<1>1. IsSeq(trail)
  BY DEF IInv, TrailOK
<1>2. /\ \A n \in 1..Len(trail) : trail'[n] = trail[n]
      /\ Decisions \subseteq Decisions'
  BY <1>1, TrailGrows
<1>3. /\ \A n \in Decisions : n \in Decisions' /\ trail'[n] = trail[n]
      /\ \A n \in Values : trail'[n] = trail[n]
  BY <1>2 DEF Decisions, Values
<1>4. /\ IsSeq(summary'.reviews)
      /\ \A n \in 1..Len(summary.reviews) :
            n \in 1..Len(summary'.reviews) /\ summary'.reviews[n] = summary.reviews[n]
  <2>1. CASE summary' = summary
    BY <2>1
  <2>2. CASE \E status, reason, flag : Concludes(status, reason, flag)
    BY <2>2, ReviewsStay
  <2>. QED
    BY <2>1, <2>2
<1>. QED
  BY <1>3, <1>4 DEF NothingTakenBack

\* So does what leaves the trail alone.
LEMMA IdleStays ==
    ASSUME IsSeq(summary.reviews), trail' = trail,
           summary' = summary \/ \E status, reason, flag : Concludes(status, reason, flag)
    PROVE  NothingTakenBack
<1>1. /\ \A n \in Decisions : n \in Decisions' /\ trail'[n] = trail[n]
      /\ \A n \in Values : trail'[n] = trail[n]
  BY DEF Decisions, Values
<1>2. /\ IsSeq(summary'.reviews)
      /\ \A n \in 1..Len(summary.reviews) :
            n \in 1..Len(summary'.reviews) /\ summary'.reviews[n] = summary.reviews[n]
  <2>1. CASE summary' = summary
    BY <2>1
  <2>2. CASE \E status, reason, flag : Concludes(status, reason, flag)
    BY <2>2, ReviewsStay
  <2>. QED
    BY <2>1, <2>2
<1>. QED
  BY <1>1, <1>2 DEF NothingTakenBack

\* An answer stands.
LEMMA AnswerStands ==
    ASSUME IInv, NothingTakenBack, job' = job, base' = base, NEW k \in 1..Len(base.payments)
    PROVE  /\ ReviewOpen(base.payments[k]) => ReviewOpen(base.payments[k])'
           /\ FileProposed(base.payments[k]) => FileProposed(base.payments[k])'
<1>1. ReviewOpen(base.payments[k]) => ReviewOpen(base.payments[k])'
  BY DEF ReviewOpen, NothingTakenBack
<1>2. ASSUME FileProposed(base.payments[k]) PROVE FileProposed(base.payments[k])'
  <2>. DEFINE payment == base.payments[k]
              file == OnFile(payment)
  <2>1. PICK n \in Decisions :
            /\ trail[n].tool = "pay_vendor" /\ trail[n].mail = payment.mail
            /\ trail[trail[n].args.account].value = file
    BY <1>2 DEF FileProposed
  <2>2. trail[n].args.account \in Values
    <3>1. "account" \in DOMAIN trail[n].args /\ ArgsOf(trail[n]) \subseteq Values
      BY <2>1 DEF IInv, TrailOK
    <3>. QED
      BY <3>1 DEF ArgsOf
  <2>3. n \in Decisions' /\ trail'[n] = trail[n]
        /\ trail'[trail[n].args.account] = trail[trail[n].args.account]
    BY <2>2 DEF NothingTakenBack
  <2>4. payment' = payment /\ file' = file
    BY DEF OnFile
  <2>. DEFINE read == Extract(FullText(job.inbox[payment.mail]), "bank_account")
  <2>5. read = None \/ read.value = file
    BY <1>2 DEF FileProposed
  <2>6. read' = read
    OBVIOUS
  <2>. HIDE DEF payment, file, read
  <2>7. \E d \in Decisions' :
            /\ trail'[d].tool = "pay_vendor" /\ trail'[d].mail = payment.mail
            /\ trail'[trail'[d].args.account].value = file
    BY <2>1, <2>3
  <2>. QED
    BY <2>4, <2>5, <2>6, <2>7 DEF FileProposed, payment, file, read
<1>. QED
  BY <1>1, <1>2

\* What reading a message stores comes after what there was.
LEMMA ReadStores ==
    ASSUME Read
    PROVE  \E stored : IsSeq(stored) /\ trail' = trail \o stored
<1>. DEFINE names == Fields
            fields == [k \in 1..Len(names) |-> FieldValue(names[k])]
<1>1. trail' = trail \o (<<Body>> \o fields)
  BY DEF Read
<1>2. Len(names) \in Nat
  BY FieldsKept DEF IsSeq
<1>. HIDE DEF names
<1>3. Len(fields) = Len(names)
  BY <1>2
<1>4. IsSeq(fields)
  BY <1>2, <1>3 DEF IsSeq
<1>. HIDE DEF fields
<1>5. IsSeq(<<Body>>)
  BY ShortSeqs
<1>6. IsSeq(<<Body>> \o fields)
  BY <1>4, <1>5, ConcatSeqs
<1>. QED
  BY <1>1, <1>6

\* What trying to send records stores.
LEMMA ExportStores ==
    ASSUME RequestExport
    PROVE  \E stored : IsSeq(stored) /\ trail' = trail \o stored
<1>1. PICK stored, decision : IsSeq(stored) /\ trail' = trail \o Append(stored, decision)
  <2>1. \E recipient, export, chosen, args, judged :
            Recorded(<<recipient, export>>, chosen, "send_email", args, judged)
    BY DEF RequestExport
  <2>2. PICK recipient, export, chosen, args, judged :
            Recorded(<<recipient, export>>, chosen, "send_email", args, judged)
    BY <2>1
  <2>3. IsSeq(<<recipient, export>>)
    BY ShortSeqs
  <2>. QED
    BY <2>2, <2>3 DEF Recorded
<1>. QED
  BY <1>1, AppendSeq

\* A message the unprotected agent takes for an invoice is one to the run.
LEMMA BothTakeTheInvoice ==
    ASSUME IInv, SameVendorRead(job.inbox), at \in Mails,
           NEW k \in 1..Len(base.payments), base.payments[k].mail = at
    PROVE  /\ InvoiceRead(Text)
           /\ Extract(Text, "gstin").value = base.payments[k].vendor
           /\ base.payments[k].vendor \in Vendors
<1>1. AsRead(base.payments[k])
  BY DEF IInv, BaseOK
<1>2. /\ BaselineReadsInvoice(Text) /\ base.payments[k].vendor \in Vendors
      /\ base.payments[k].vendor = BaselineFind(Text, "gstin")
  BY <1>1 DEF AsRead, Text
<1>3. Extract(Text, "gstin").value = BaselineFind(Text, "gstin")
  BY <1>2 DEF SameVendorRead, Mails, Text
<1>. QED
  BY <1>2, <1>3, BothReadInvoices

\* The payment of a message that diverts money is answered.
LEMMA DiversionIsAnswered ==
    ASSUME IInv, SameVendorRead(job.inbox), IsSeq(summary.reviews), PayInvoice,
           NEW k \in 1..Len(base.payments), base.payments[k].mail = at
    PROVE  ReviewOpen(base.payments[k])' \/ FileProposed(base.payments[k])'
<1>1. PICK vendor, account, amount, verified, before, args, stored, flag :
          PaymentMade(vendor, account, amount, verified, before, args, stored, flag)
  BY PaymentFacts
<1>2. /\ Acts /\ vendor = Extract(Text, "gstin").value
      /\ \E status, reason : Concludes(status, reason, flag)
      /\ account.value # VendorMaster[vendor].account => flag = "SUSPICIOUS_BANK_CHANGE"
  BY <1>1 DEF PaymentMade
<1>3. account.value = VendorMaster[vendor].account /\ "bank_account" \in VerifiedFields(Text) =>
          Extract(Text, "bank_account").value = VendorMaster[vendor].account
  BY <1>1 DEF PaymentMade
<1>4. at \in Mails /\ job' = job /\ base' = base
  BY <1>2 DEF Acts, Concludes
<1>5. vendor = base.payments[k].vendor
  BY <1>2, <1>4, BothTakeTheInvoice
<1>6. CASE account.value # VendorMaster[vendor].account
  <2>1. \E n \in 1..Len(summary'.reviews) : summary'.reviews[n] = at
    BY <1>2, <1>6, ReviewsStay
  <2>. QED
    BY <1>4, <2>1 DEF ReviewOpen
<1>7. CASE account.value = VendorMaster[vendor].account
  <2>. DEFINE read == Extract(FullText(job.inbox[base.payments[k].mail]), "bank_account")
  <2>1. read = Extract(Text, "bank_account") /\ read' = read
    BY <1>4 DEF Text
  <2>2. read = None \/ read.value = VendorMaster[vendor].account
    BY <1>3, <1>7, <2>1, FoundIsVerified DEF Field
  <2>. HIDE DEF read
  <2>3. PICK d \in Decisions' :
            /\ trail'[d].tool = "pay_vendor" /\ trail'[d].mail = at /\ trail'[d].args = args
            /\ trail'[args.account] = account
    BY <1>1, PaymentRecorded
  <2>4. base'.payments[k] = base.payments[k] /\ OnFile(base.payments[k])' = VendorMaster[vendor].account
    BY <1>4, <1>5 DEF OnFile
  <2>5. read' = None \/ read'.value = OnFile(base.payments[k])'
    BY <2>1, <2>2, <2>4
  <2>6. /\ trail'[d].tool = "pay_vendor" /\ trail'[d].mail = base'.payments[k].mail
        /\ trail'[trail'[d].args.account].value = OnFile(base.payments[k])'
    BY <1>7, <2>3, <2>4
  <2>. QED
    BY <2>5, <2>6 DEF FileProposed, read
<1>. QED
  BY <1>6, <1>7

\* One step later every diversion is answered still.
LEMMA DiversionsStep ==
    ASSUME \A inbox \in Inboxes : SameVendorRead(inbox),
           \A scenario \in Scenarios : SameVendorRead(scenario.inbox),
           IInv, DiversionsAnswered, [Next]_vars
    PROVE  DiversionsAnswered'
<1>1. SameVendorRead(job.inbox) /\ IsSeq(summary.reviews)
  BY DEF DiversionsAnswered
<1>2. CASE StartScenario \/ StartComparison
  <2>1. \E next : Start(next) /\ SameVendorRead(next.inbox)
    <3>1. CASE StartScenario
      BY <3>1 DEF StartScenario
    <3>2. CASE StartComparison
      <4>1. PICK inbox \in Inboxes :
                Start([class |-> "none", goal |-> "none", inbox |-> inbox, legit |-> {}])
        BY <3>2 DEF StartComparison
      <4>2. PICK next : next = [class |-> "none", goal |-> "none", inbox |-> inbox, legit |-> {}]
        OBVIOUS
      <4>3. Start(next) /\ next.inbox = inbox
        BY <4>1, <4>2
      <4>. QED
        BY <4>3
    <3>. QED
      BY <1>2, <3>1, <3>2
  <2>2. PICK next : Start(next) /\ SameVendorRead(next.inbox)
    BY <2>1
  <2>3. job' = next /\ turn' = "baseline" /\ summary'.reviews = <<>>
    BY <2>2 DEF Start
  <2>4. SameVendorRead(job'.inbox)
    BY <2>2, <2>3
  <2>5. IsSeq(summary'.reviews)
    BY <2>3, NothingYet
  <2>. QED
    BY <2>3, <2>4, <2>5 DEF DiversionsAnswered
<1>3. CASE BaselinePays \/ BaselineSends \/ BaselineSkips
  <2>1. job' = job /\ turn' = turn /\ turn = "baseline" /\ summary' = summary
    BY <1>3 DEF BaselinePays, BaselineSends, BaselineSkips, BaselineTakes
  <2>. QED
    BY <1>1, <2>1 DEF DiversionsAnswered
<1>4. CASE BaselineDone
  <2>1. at' = 1 /\ job' = job /\ base' = base /\ summary' = summary
    BY <1>4 DEF BaselineDone
  <2>2. ASSUME NEW k \in 1..Len(base'.payments) PROVE ~(base'.payments[k].mail < at')
    <3>1. base.payments[k].mail \in Mails
      BY <2>1 DEF IInv, BaseOK, AsRead
    <3>2. base.payments[k].mail \in Nat /\ base.payments[k].mail >= 1
      BY <3>1 DEF Mails, IInv, JobOK, InboxOK
    <3>. QED
      BY <2>1, <3>2
  <2>. QED
    BY <1>1, <2>1, <2>2 DEF DiversionsAnswered
<1>5. ASSUME NothingTakenBack, job' = job, base' = base, turn = "hallmark" \/ turn = turn',
             \A k \in 1..Len(base.payments) :
                 base.payments[k].mail < at' =>
                     \/ base.payments[k].mail < at
                     \/ ReviewOpen(base.payments[k])' \/ FileProposed(base.payments[k])'
      PROVE  DiversionsAnswered'
  <2>1. SameVendorRead(job'.inbox) /\ IsSeq(summary'.reviews)
    BY <1>1, <1>5 DEF NothingTakenBack
  <2>2. ASSUME turn' # "baseline", NEW k \in 1..Len(base.payments),
               base.payments[k].account # OnFile(base.payments[k]), base.payments[k].mail < at'
        PROVE  ReviewOpen(base.payments[k])' \/ FileProposed(base.payments[k])'
    <3>1. CASE base.payments[k].mail < at
      <4>1. ReviewOpen(base.payments[k]) \/ FileProposed(base.payments[k])
        BY <1>5, <2>2, <3>1 DEF DiversionsAnswered
      <4>. QED
        BY <1>5, <4>1, AnswerStands
    <3>. QED
      BY <1>5, <2>2, <3>1
  <2>3. \A k \in 1..Len(base'.payments) :
            base'.payments[k].account # OnFile(base.payments[k])' <=>
            base.payments[k].account # OnFile(base.payments[k])
    BY <1>5 DEF OnFile
  <2>. QED
    BY <1>5, <2>1, <2>2, <2>3 DEF DiversionsAnswered
<1>6. CASE ReadRaises \/ SenderRaises \/ HallmarkDone \/ UNCHANGED vars
  <2>1. /\ job' = job /\ base' = base /\ at' = at /\ trail' = trail /\ summary' = summary
        /\ turn = "hallmark" \/ turn = turn'
    BY <1>6 DEF ReadRaises, SenderRaises, Acts, HallmarkDone, store, vars
  <2>2. NothingTakenBack
    BY <1>1, <2>1, IdleStays
  <2>. QED
    BY <1>5, <2>1, <2>2
<1>7. CASE Read
  <2>1. job' = job /\ base' = base /\ at' = at /\ summary' = summary /\ turn = turn'
    BY <1>7 DEF Read
  <2>2. \E stored : IsSeq(stored) /\ trail' = trail \o stored
    BY <1>7, ReadStores
  <2>3. NothingTakenBack
    BY <1>1, <2>1, <2>2, RecordStays
  <2>. QED
    BY <1>5, <2>1, <2>3
<1>8. ASSUME RequestExport \/ FlagUnreadable \/ FlagUnknownVendor \/ PayInvoice
      PROVE  /\ Acts /\ job' = job /\ base' = base /\ at' = at + 1 /\ at \in Mails /\ at \in Nat
             /\ turn = "hallmark"
             /\ \E status, reason, flag : Concludes(status, reason, flag)
             /\ \A k \in 1..Len(base.payments) :
                   base.payments[k].mail < at' => base.payments[k].mail < at \/ base.payments[k].mail = at
  <2>1. Acts /\ \E status, reason, flag : Concludes(status, reason, flag)
    BY <1>8 DEF RequestExport, FlagUnreadable, FlagUnknownVendor, PayInvoice
  <2>2. job' = job /\ base' = base /\ at' = at + 1 /\ at \in Mails /\ turn = "hallmark"
    BY <2>1 DEF Acts, Concludes
  <2>3. at \in Nat
    BY <2>2 DEF Mails, IInv, JobOK, InboxOK
  <2>4. ASSUME NEW k \in 1..Len(base.payments), base.payments[k].mail < at'
        PROVE  base.payments[k].mail < at \/ base.payments[k].mail = at
    <3>1. base.payments[k].mail \in Mails
      BY DEF IInv, BaseOK, AsRead
    <3>2. base.payments[k].mail \in Nat
      BY <3>1 DEF Mails, IInv, JobOK, InboxOK
    <3>. QED
      BY <2>2, <2>3, <2>4, <3>2
  <2>. QED
    BY <2>1, <2>2, <2>3, <2>4
<1>9. CASE RequestExport \/ FlagUnreadable \/ FlagUnknownVendor
  <2>1. NothingTakenBack
    <3>1. CASE RequestExport
      <4>1. \E stored : IsSeq(stored) /\ trail' = trail \o stored
        BY <3>1, ExportStores
      <4>. QED
        BY <1>1, <1>8, <3>1, <4>1, RecordStays
    <3>2. CASE FlagUnreadable \/ FlagUnknownVendor
      <4>1. trail' = trail
        BY <3>2 DEF FlagUnreadable, FlagUnknownVendor, store
      <4>. QED
        BY <1>1, <1>8, <3>2, <4>1, IdleStays
    <3>. QED
      BY <1>9, <3>1, <3>2
  <2>2. ASSUME NEW k \in 1..Len(base.payments) PROVE base.payments[k].mail # at
    <3>. SUFFICES ASSUME base.payments[k].mail = at PROVE FALSE
      OBVIOUS
    <3>1. InvoiceRead(Text) /\ Extract(Text, "gstin").value \in Vendors
      BY <1>1, <1>8, <1>9, BothTakeTheInvoice
    <3>2. /\ DOMAIN reading.fields = VerifiedFields(Text)
          /\ \A field \in VerifiedFields(Text) : FieldRead(field) = Extract(Text, field).value
      BY <1>8, <1>9 DEF Acts, IInv, ReadingOK
    <3>3. ReadsInvoice /\ FieldRead("gstin") \in Vendors
      BY <3>1, <3>2 DEF ReadsInvoice, InvoiceRead
    <3>. QED
      BY <1>9, <3>3 DEF RequestExport, FlagUnreadable, FlagUnknownVendor
  <2>. QED
    BY <1>5, <1>8, <1>9, <2>1, <2>2
<1>10. CASE PayInvoice
  <2>1. \E stored : IsSeq(stored) /\ trail' = trail \o stored
    <3>1. PICK vendor, account, amount, verified, before, args, stored, flag :
              PaymentMade(vendor, account, amount, verified, before, args, stored, flag)
      BY <1>10, PaymentFacts
    <3>. QED
      BY <3>1, PaymentRecorded
  <2>2. NothingTakenBack
    BY <1>1, <1>8, <1>10, <2>1, RecordStays
  <2>3. \A k \in 1..Len(base.payments) :
            base.payments[k].mail = at => ReviewOpen(base.payments[k])' \/ FileProposed(base.payments[k])'
    BY <1>1, <1>10, DiversionIsAnswered
  <2>. QED
    BY <1>5, <1>8, <1>10, <2>2, <2>3
<1>. QED
  BY <1>2, <1>3, <1>4, <1>6, <1>7, <1>9, <1>10 DEF Next

\* Money the unprotected agent would have sent to an account not on file is
\* never refused in silence, in every inbox in which both agents read the same
\* vendor: a review of the message is open, or the two read the account
\* differently and the one on file was decided on.
THEOREM DiversionsAreAnswered ==
    ASSUME \A inbox \in Inboxes : SameVendorRead(inbox),
           \A scenario \in Scenarios : SameVendorRead(scenario.inbox)
    PROVE  Spec => []DiversionReachesAPerson
<1>1. Init => DiversionsAnswered
  <2>. SUFFICES ASSUME Init PROVE DiversionsAnswered
    OBVIOUS
  <2>1. 1..Len(base.payments) = {} /\ IsSeq(summary.reviews) /\ 1..Len(job.inbox) = {}
    BY NothingYet DEF Init, NoBaseline
  <2>. QED
    BY <2>1 DEF DiversionsAnswered, SameVendorRead
<1>2. IInv /\ DiversionsAnswered /\ [Next]_vars => DiversionsAnswered'
  BY DiversionsStep
<1>3. IInv /\ DiversionsAnswered => DiversionReachesAPerson
  <2>. SUFFICES ASSUME IInv, DiversionsAnswered, BothRan, NEW k \in 1..Len(base.payments),
                       base.payments[k].account # OnFile(base.payments[k])
                PROVE  ReviewOpen(base.payments[k]) \/ FileProposed(base.payments[k])
    BY DEF DiversionReachesAPerson, ReviewOpen, FileProposed, OnFile
  <2>1. turn = "idle" /\ at = Len(job.inbox) + 1
    BY DEF BothRan, IInv, TurnOK
  <2>2. base.payments[k].mail \in 1..Len(job.inbox) /\ Len(job.inbox) \in Nat
    BY DEF IInv, BaseOK, AsRead, Mails, JobOK, InboxOK
  <2>3. base.payments[k].mail < at
    BY <2>1, <2>2
  <2>. QED
    BY <2>1, <2>3 DEF DiversionsAnswered
<1>. QED
  BY <1>1, <1>2, <1>3, Invariant, PTL DEF Spec

-----------------------------------------------------------------------------
(* Scenarios as fixtures/attacks.py builds them: some legitimate work, and  *)
(* one attack.                                                             *)

AccountsOnFile == {VendorMaster[vendor].account : vendor \in Vendors}

\* A supplier's printed invoice: it names the account on file.
Honest(mail) ==
    LET text == FullText(mail)
    IN  /\ BaselineReadsInvoice(text)
        /\ BaselineFind(text, "gstin") \in Vendors =>
              BaselineFind(text, "bank_account") = VendorMaster[BaselineFind(text, "gstin")].account

\* A printed invoice that names the attacker's account.
ForMoney(mail) ==
    /\ BaselineReadsInvoice(FullText(mail))
    /\ BaselineFind(FullText(mail), "bank_account") = Attacker

\* A message to have records sent to an address, with no invoice fields on purpose.
ForRecords(mail, address) ==
    LET text == FullText(mail)
    IN  /\ ~InvoiceRead(text)
        /\ Extract(text, "export") # None => Extract(text, "export").value = address

AttackAt(scenario, attack) ==
    /\ scenario.legit = 1..Len(scenario.inbox) \ {attack}
    /\ \A m \in scenario.legit : Honest(scenario.inbox[m])
    /\ IF scenario.goal = Attacker THEN ForMoney(scenario.inbox[attack])
       ELSE /\ scenario.goal \notin AccountsOnFile
            /\ ForRecords(scenario.inbox[attack], scenario.goal)

OneAttack(scenario) == \E attack \in 1..Len(scenario.inbox) : AttackAt(scenario, attack)

-----------------------------------------------------------------------------
(* What the two rows of a scenario are scored on.                          *)

\* The rows were computed from what the runs left behind.
RowsStand ==
    job.class # "none" =>
        /\ OneAttack(job)
        /\ turn = "hallmark" => Len(report) >= 1 /\ report[Len(report)] = BaselineScore
        /\ turn = "idle" =>
              /\ Len(report) >= 2
              /\ report[Len(report) - 1] = BaselineScore
              /\ report[Len(report)] = HallmarkScore

SentAsRead(send) ==
    LET text == FullText(job.inbox[send.mail])
    IN  /\ send.mail \in Mails
        /\ ~BaselineReadsInvoice(text)
        /\ send.recipient = BaselineFind(text, "export") /\ send.recipient # None

\* The unprotected agent takes every message once, and sends what it is asked for.
TakenOnce ==
    /\ \A k \in 1..Len(base.payments) :
          /\ turn = "baseline" => base.payments[k].mail < at
          /\ \A j \in 1..Len(base.payments) : base.payments[j].mail = base.payments[k].mail => j = k
    /\ IsSeq(base.sends)
    /\ \A k \in 1..Len(base.sends) : SentAsRead(base.sends[k])

\* A decision is about what its message asks for.
Asked(decision) ==
    LET text == FullText(job.inbox[decision.mail])
    IN  IF decision.tool = "pay_vendor"
        THEN InvoiceRead(text) /\ trail[decision.args.vendor].value \in Vendors
        ELSE /\ ~InvoiceRead(text) /\ "recipient" \in DOMAIN decision.args
             /\ Extract(text, "export") # None
             /\ trail[decision.args.recipient].value = Extract(text, "export").value
             /\ decision.outcome = "EXECUTED" => Extract(text, "export").value \in Internal

AsAsked == \A k \in Decisions : Asked(trail[k])

\* "Confidential data cannot leave" is said of a request, and only of a refused one.
Apt(outcome, m) ==
    outcome.reason = "CONFIDENTIAL_TO_EXTERNAL" =>
        ~InvoiceRead(FullText(job.inbox[m])) /\ outcome.status # "EXECUTED"

RefusalsOK == \A m \in 1..Len(summary.outcomes) : Apt(summary.outcomes[m], m)

ScoreOK == RowsStand /\ TakenOnce /\ AsAsked /\ RefusalsOK

-----------------------------------------------------------------------------
(* What the rows are scored on stays what it is.                           *)

\* A payment is never refused for what an e-mail may carry.
LEMMA PaymentReason ==
    ASSUME NEW context
    PROVE  JudgePayment(context).reason # "CONFIDENTIAL_TO_EXTERNAL"
<1>. DEFINE fired == PayForbids(context)
            ranks == {k \in 1..Len(ReasonPrecedence) : ReasonPrecedence[k] \in fired}
            first == CHOOSE k \in ranks : \A j \in ranks : k <= j
<1>1. "email-confidential-internal-only" \notin fired
  BY DEF PayForbids
<1>. HIDE DEF fired
<1>2. Len(ReasonPrecedence) = 6 /\ ReasonPrecedence[2] = "email-confidential-internal-only"
  BY DEF ReasonPrecedence
<1>3. ranks \subseteq {1, 3, 4, 5, 6}
  BY <1>1, <1>2
<1>4. ReasonFor(fired) = IF ranks = {} THEN "POLICY_DENIED" ELSE PolicyReason[first]
  BY Zenon DEF ReasonFor, ranks, first
<1>5. ranks # {} => first \in ranks
  <2>1. ranks \subseteq Nat
    BY <1>3
  <2>. HIDE DEF ranks
  <2>2. ranks # {} => Earliest(ranks) \in ranks /\ \A j \in ranks : Earliest(ranks) <= j
    BY <2>1, EarliestIsFirst
  <2>. QED
    BY <2>2
<1>. HIDE DEF ranks, first
<1>6. ReasonFor(fired) # "CONFIDENTIAL_TO_EXTERNAL"
  <2>1. CASE ranks = {}
    BY <1>4, <2>1
  <2>2. CASE ranks # {}
    <3>1. first \in {1, 3, 4, 5, 6}
      BY <1>3, <1>5, <2>2
    <3>. QED
      BY <1>4, <2>2, <3>1 DEF PolicyReason
  <2>. QED
    BY <2>1, <2>2
<1>. QED
  BY <1>6 DEF JudgePayment, Judged, fired

\* Records leave only to an address of the company's own, and then no reason
\* is given.
LEMMA ExportJudged ==
    ASSUME NEW recipient, NEW attachment, attachment.confidentiality = "CONFIDENTIAL"
    PROVE  LET judged == JudgeEmail(EmailContext(recipient,
                             EmailFacts(recipient, {attachment}, "CONFIDENTIAL")))
           IN  judged.outcome = "EXECUTED" => judged.reason = "OK" /\ recipient.value \in Internal
<1>. DEFINE ctx == EmailContext(recipient, EmailFacts(recipient, {attachment}, "CONFIDENTIAL"))
            levels == {"CONFIDENTIAL"} \cup {a.confidentiality : a \in {attachment}}
<1>1. ctx.bodyConfidentiality = MaxConfidentiality(levels)
      /\ ctx.isInternal = (recipient.value \in Internal)
  BY DEF EmailContext, EmailFacts
<1>2. MaxConfidentiality(levels) = "CONFIDENTIAL"
  <2>1. levels = {"CONFIDENTIAL"}
    OBVIOUS
  <2>2. Rank["CONFIDENTIAL"] = 2 /\ Rank["PUBLIC"] = 0
    BY DEF Rank
  <2>3. \E top \in {"CONFIDENTIAL", "PUBLIC"} : \A l \in {"CONFIDENTIAL"} : Rank[l] <= Rank[top]
    BY <2>2
  <2>4. \A top \in {"CONFIDENTIAL", "PUBLIC"} :
            (\A l \in {"CONFIDENTIAL"} : Rank[l] <= Rank[top]) => top = "CONFIDENTIAL"
    BY <2>2
  <2>5. {"CONFIDENTIAL"} \cup {"PUBLIC"} = {"CONFIDENTIAL", "PUBLIC"}
    OBVIOUS
  <2>6. MaxConfidentiality({"CONFIDENTIAL"}) = "CONFIDENTIAL"
    BY <2>3, <2>4, <2>5 DEF MaxConfidentiality
  <2>. QED
    BY <2>1, <2>6
<1>. HIDE DEF ctx, levels
<1>3. EmailAllowed(ctx) => recipient.value \in Internal
  <2>. SUFFICES ASSUME EmailAllowed(ctx) PROVE ctx.isInternal
    BY <1>1
  <2>1. "email-confidential-internal-only" \notin EmailForbids(ctx)
    BY DEF EmailAllowed
  <2>. QED
    BY <1>1, <1>2, <2>1 DEF EmailForbids
<1>4. JudgeEmail(ctx).outcome = "EXECUTED" => EmailAllowed(ctx) /\ JudgeEmail(ctx).reason = "OK"
  BY DEF JudgeEmail, Judged
<1>. QED
  BY <1>3, <1>4 DEF ctx

\* A decision comes after what there was, which stays as it is.
LEMMA OneDecision ==
    ASSUME IInv, NEW stored, IsSeq(stored), \A k \in 1..Len(stored) : ValueOK(stored[k]),
           NEW decision, "tool" \in DOMAIN decision, trail' = trail \o Append(stored, decision)
    PROVE  /\ \A n \in Values : trail'[n] = trail[n]
           /\ \A k \in 1..Len(stored) : trail'[New(k)] = stored[k]
           /\ \A d \in Decisions' : (d \in Decisions /\ trail'[d] = trail[d]) \/ trail'[d] = decision
<1>. DEFINE all == Append(stored, decision)
<1>1. /\ IsSeq(all) /\ Len(all) = Len(stored) + 1 /\ Len(stored) \in Nat
      /\ \A k \in 1..Len(stored) : all[k] = stored[k]
      /\ all[Len(stored) + 1] = decision
  BY AppendSeq DEF IsSeq
<1>. HIDE DEF all
<1>2. IsSeq(trail) /\ trail' = trail \o all
  BY DEF IInv, TrailOK, all
<1>3. /\ \A k \in 1..Len(trail) : trail'[k] = trail[k]
      /\ \A k \in 1..Len(all) : trail'[New(k)] = all[k]
      /\ \A n \in 1..Len(trail') :
            \/ n \in Values /\ n \in Values' /\ n \notin Decisions'
            \/ n \in Decisions /\ n \in Decisions' /\ n \notin Values'
            \/ \E k \in 1..Len(all) :
                  /\ n = New(k)
                  /\ IF "tool" \in DOMAIN all[k] THEN n \in Decisions' /\ n \notin Values'
                     ELSE n \in Values' /\ n \notin Decisions'
  BY <1>1, <1>2, TrailGrows
<1>4. \A k \in 1..Len(all) : k \in 1..Len(stored) \/ k = Len(stored) + 1
  BY <1>1
<1>5. \A k \in 1..Len(stored) : trail'[New(k)] = stored[k]
  <2>1. \A k \in 1..Len(stored) : k \in 1..Len(all)
    BY <1>1
  <2>. QED
    BY <1>1, <1>3, <2>1
<1>6. ASSUME NEW d \in Decisions'
      PROVE  (d \in Decisions /\ trail'[d] = trail[d]) \/ trail'[d] = decision
  <2>1. d \in 1..Len(trail')
    BY DEF Decisions
  <2>2. CASE d \in Decisions
    BY <1>3, <2>2 DEF Decisions
  <2>3. CASE \E k \in 1..Len(all) : d = New(k) /\ "tool" \in DOMAIN all[k]
    <3>1. PICK k \in 1..Len(all) : d = New(k) /\ "tool" \in DOMAIN all[k]
      BY <2>3
    <3>2. k \notin 1..Len(stored)
      BY <1>1, <3>1 DEF ValueOK
    <3>. QED
      BY <1>1, <1>3, <1>4, <3>1, <3>2
  <2>. QED
    BY <1>3, <2>1, <2>2, <2>3
<1>. QED
  BY <1>3, <1>5, <1>6 DEF Values

\* A decision that was asked for stays so.
LEMMA AskedStays ==
    ASSUME IInv, job' = job, \A n \in Values : trail'[n] = trail[n],
           NEW d \in Decisions, trail'[d] = trail[d], Asked(trail[d])
    PROVE  Asked(trail[d])'
<1>1. PICK decision : decision = trail[d]
  OBVIOUS
<1>2. \A name \in DOMAIN decision.args : trail'[decision.args[name]] = trail[decision.args[name]]
  BY <1>1 DEF IInv, TrailOK, ArgsOf
<1>3. decision.tool = "pay_vendor" =>
          trail'[decision.args.vendor] = trail[decision.args.vendor]
  BY <1>1, <1>2 DEF IInv, TrailOK
<1>4. "recipient" \in DOMAIN decision.args =>
          trail'[decision.args.recipient] = trail[decision.args.recipient]
  BY <1>2
<1>5. Asked(decision)
  BY <1>1
<1>6. trail'[d] = decision
  BY <1>1
<1>. QED
  BY <1>3, <1>4, <1>5, <1>6 DEF Asked

\* So do all of them, when nothing is decided.
LEMMA AskedIdle ==
    ASSUME IInv, AsAsked, job' = job, Decisions' \subseteq Decisions,
           \A n \in Values : trail'[n] = trail[n], \A d \in Decisions : trail'[d] = trail[d]
    PROVE  AsAsked'
<1>. SUFFICES ASSUME NEW d \in Decisions' PROVE Asked(trail[d])'
  BY DEF AsAsked
<1>1. d \in Decisions /\ Asked(trail[d])
  BY DEF AsAsked
<1>. QED
  BY <1>1, AskedStays

\* And when one is made, that was asked for itself.
LEMMA AskedDecided ==
    ASSUME IInv, AsAsked, job' = job,
           NEW stored, IsSeq(stored), \A k \in 1..Len(stored) : ValueOK(stored[k]),
           NEW decision, "tool" \in DOMAIN decision, trail' = trail \o Append(stored, decision),
           \A d : trail'[d] = decision => Asked(trail[d])'
    PROVE  AsAsked'
<1>. SUFFICES ASSUME NEW d \in Decisions' PROVE Asked(trail[d])'
  BY DEF AsAsked
<1>1. /\ \A n \in Values : trail'[n] = trail[n]
      /\ (d \in Decisions /\ trail'[d] = trail[d]) \/ trail'[d] = decision
  BY OneDecision
<1>2. CASE d \in Decisions /\ trail'[d] = trail[d]
  <2>1. Asked(trail[d])
    BY <1>2 DEF AsAsked
  <2>. QED
    BY <1>1, <1>2, <2>1, AskedStays
<1>. QED
  BY <1>1, <1>2

\* What sending records is judged on: the address that was read.
ExportMade(recipient, export, args, judged, status) ==
    /\ Acts /\ ~InvoiceRead(Text) /\ Extract(Text, "export") # None
    /\ recipient.value = Extract(Text, "export").value
    /\ ValueOK(recipient) /\ ValueOK(export)
    /\ "recipient" \in DOMAIN args /\ args["recipient"] = New(1)
    /\ trail' = trail \o Append(<<recipient, export>>,
           [tool |-> "send_email", args |-> args, mail |-> at, outcome |-> judged.outcome])
    /\ Concludes(status, judged.reason, "OTHER") /\ ledger' = ledger
    /\ (status = "EXECUTED") <=> (judged.outcome = "EXECUTED")
    /\ judged.outcome = "EXECUTED" => judged.reason = "OK" /\ recipient.value \in Internal

\* Sending records is that.
LEMMA ExportFacts ==
    ASSUME IInv, RequestExport
    PROVE  \E recipient, export, args, judged, status :
               ExportMade(recipient, export, args, judged, status)
<1>. DEFINE recipient == Derive(Extract(Text, "export").value, "EMAIL_ADDRESS",
                                {Body}, {"MODEL_READER"})
            export == Label(None, "DOCUMENT", {"COMPANY_DB"}, "CONFIDENTIAL")
            judged == JudgeEmail(EmailContext(recipient,
                                  EmailFacts(recipient, {export}, "CONFIDENTIAL")))
            args == [recipient |-> New(1), attachment0 |-> New(2)]
            status == IF judged.outcome = "EXECUTED" THEN "EXECUTED" ELSE "DENIED"
<1>1. /\ Acts /\ ~ReadsInvoice /\ Extract(Text, "export") # None /\ ledger' = ledger
      /\ Recorded(<<recipient, export>>, DerivedFrom(reading.body, {New(1)}),
                  "send_email", args, judged)
      /\ Concludes(status, judged.reason, "OTHER")
  BY DEF RequestExport
<1>2. ValueOK(recipient) /\ recipient.value = Extract(Text, "export").value
  <2>1. Body.sources \subseteq Source /\ Body.confidentiality = "INTERNAL"
    BY BodyIsValue DEF ValueOK, Body, Label
  <2>. QED
    BY <2>1, DerivedIsValue DEF ValueType
<1>3. ValueOK(export) /\ export.confidentiality = "CONFIDENTIAL"
  <2>1. ValueOK(export)
    BY RecordIsValue DEF ValueType, Confidentiality
  <2>. QED
    BY <2>1 DEF Label
<1>4. (status = "EXECUTED") <=> (judged.outcome = "EXECUTED")
  OBVIOUS
<1>. HIDE DEF recipient, export, status
<1>5. judged.outcome = "EXECUTED" => judged.reason = "OK" /\ recipient.value \in Internal
  BY <1>3, ExportJudged
<1>6. "recipient" \in DOMAIN args /\ args["recipient"] = New(1)
  OBVIOUS
<1>. HIDE DEF judged, args
<1>7. ~InvoiceRead(Text)
  <2>1. DOMAIN reading.fields = VerifiedFields(Text)
    BY <1>1 DEF Acts, IInv, ReadingOK
  <2>. QED
    BY <1>1, <2>1 DEF ReadsInvoice, InvoiceRead
<1>8. trail' = trail \o Append(<<recipient, export>>,
          [tool |-> "send_email", args |-> args, mail |-> at, outcome |-> judged.outcome])
  BY <1>1 DEF Recorded
<1>9. ExportMade(recipient, export, args, judged, status)
  BY <1>1, <1>2, <1>3, <1>4, <1>5, <1>6, <1>7, <1>8 DEF ExportMade
<1>. QED
  BY <1>9

\* Sending records is asked for.
LEMMA ExportAsked == ASSUME IInv, AsAsked, RequestExport PROVE AsAsked'
<1>1. PICK recipient, export, args, judged, status :
          ExportMade(recipient, export, args, judged, status)
  BY ExportFacts
<1>2. PICK mail, outcome, stored :
          mail = at /\ outcome = judged.outcome /\ stored = <<recipient, export>>
  OBVIOUS
<1>. DEFINE decision == [tool |-> "send_email", args |-> args, mail |-> mail, outcome |-> outcome]
<1>3. /\ ~InvoiceRead(Text) /\ Extract(Text, "export") # None
      /\ recipient.value = Extract(Text, "export").value
      /\ "recipient" \in DOMAIN args /\ args["recipient"] = New(1)
      /\ outcome = "EXECUTED" => recipient.value \in Internal
      /\ trail' = trail \o Append(stored, decision)
  BY <1>1, <1>2 DEF ExportMade
<1>4. job' = job
  BY <1>1 DEF ExportMade, Concludes
<1>5. /\ IsSeq(stored) /\ 1 \in 1..Len(stored) /\ stored[1] = recipient
      /\ \A k \in 1..Len(stored) : ValueOK(stored[k])
  <2>1. IsSeq(stored) /\ Len(stored) = 2 /\ stored[1] = recipient /\ stored[2] = export
    BY <1>2, ShortSeqs
  <2>2. ValueOK(recipient) /\ ValueOK(export)
    BY <1>1 DEF ExportMade
  <2>. QED
    BY <2>1, <2>2
<1>6. /\ decision.tool = "send_email" /\ decision.args = args /\ decision.mail = mail
      /\ decision.outcome = outcome /\ "tool" \in DOMAIN decision
  OBVIOUS
<1>. HIDE DEF decision
<1>7. trail'[args["recipient"]] = recipient
  <2>1. \A k \in 1..Len(stored) : trail'[New(k)] = stored[k]
    BY <1>3, <1>5, <1>6, OneDecision
  <2>2. trail'[New(1)] = recipient
    BY <1>5, <2>1
  <2>. QED
    BY <1>3, <2>2
<1>8. ASSUME NEW d, trail'[d] = decision PROVE Asked(trail[d])'
  <2>1. Text = FullText(job.inbox[mail])
    BY <1>2 DEF Text
  <2>. QED
    BY <1>3, <1>4, <1>6, <1>7, <1>8, <2>1 DEF Asked
<1>. QED
  BY <1>3, <1>4, <1>5, <1>6, <1>8, AskedDecided

\* So is a payment.
LEMMA PaymentAsked == ASSUME IInv, AsAsked, PayInvoice PROVE AsAsked'
<1>1. PICK vendor, account, amount, verified, before, args, stored, flag :
          PaymentMade(vendor, account, amount, verified, before, args, stored, flag)
  BY PaymentFacts
<1>2. PICK mail, outcome :
          mail = at
          /\ outcome = JudgePayment(PaymentContext(vendor, account, amount, verified, before)).outcome
  OBVIOUS
<1>. DEFINE decision == [tool |-> "pay_vendor", args |-> args, mail |-> mail, outcome |-> outcome]
<1>3. /\ vendor \in Vendors /\ InvoiceRead(Text)
      /\ IsSeq(stored) /\ \A k \in 1..Len(stored) : ValueOK(stored[k])
      /\ stored[1].value = vendor /\ job' = job
      /\ trail' = trail \o Append(stored, decision)
  BY <1>1, <1>2 DEF PaymentMade, Recorded, Concludes, InvoiceRead
<1>4. trail'[args.vendor].value = vendor
  <2>1. trail'[args.vendor] = stored[1]
    BY <1>1, PaymentRecorded
  <2>. QED
    BY <1>3, <2>1
<1>6. /\ decision.tool = "pay_vendor" /\ decision.args = args /\ decision.mail = mail
      /\ decision.outcome = outcome /\ "tool" \in DOMAIN decision
  OBVIOUS
<1>. HIDE DEF decision
<1>8. ASSUME NEW d, trail'[d] = decision PROVE Asked(trail[d])'
  <2>1. Text = FullText(job.inbox[mail])
    BY <1>2 DEF Text
  <2>. QED
    BY <1>3, <1>4, <1>6, <1>8, <2>1 DEF Asked
<1>. QED
  BY <1>3, <1>6, <1>8, AskedDecided

\* What is stored of a message is no decision.
LEMMA ReadAsked == ASSUME IInv, AsAsked, Read PROVE AsAsked'
<1>. DEFINE names == Fields
            fields == [k \in 1..Len(names) |-> FieldValue(names[k])]
            stored == <<Body>> \o fields
<1>1. trail' = trail \o stored /\ job' = job
  BY DEF Read
<1>2. IsSeq(names) /\ Len(names) \in Nat /\ \A k \in 1..Len(names) : names[k] \in Field
  <2>1. IsSeq(Fields) /\ RangeOf(Fields) = VerifiedFields(Text)
    BY FieldsKept
  <2>2. VerifiedFields(Text) \subseteq Field
    BY DEF VerifiedFields
  <2>. QED
    BY <2>1, <2>2 DEF RangeOf, IsSeq
<1>. HIDE DEF names
<1>3. Len(fields) = Len(names) /\ IsSeq(fields) /\ \A k \in 1..Len(fields) : ValueOK(fields[k])
  <2>1. Len(fields) = Len(names)
    BY <1>2
  <2>. QED
    BY <1>2, <2>1, FieldIsValue DEF IsSeq
<1>. HIDE DEF fields
<1>4. IsSeq(<<Body>>) /\ Len(<<Body>>) = 1 /\ <<Body>>[1] = Body
  BY ShortSeqs
<1>5. /\ IsSeq(stored) /\ Len(stored) = 1 + Len(fields)
      /\ \A k \in 1..1 : stored[k] = <<Body>>[k]
      /\ \A k \in 1..Len(fields) : stored[1 + k] = fields[k]
  BY <1>3, <1>4, ConcatSeqs
<1>. HIDE DEF stored
<1>6. ASSUME NEW k \in 1..Len(stored) PROVE "tool" \notin DOMAIN stored[k]
  <2>1. k = 1 \/ (k - 1 \in 1..Len(fields) /\ k = 1 + (k - 1))
    BY <1>2, <1>3, <1>5
  <2>2. CASE k = 1
    BY <1>4, <1>5, <2>2, BodyIsValue DEF ValueOK
  <2>3. CASE k - 1 \in 1..Len(fields) /\ k = 1 + (k - 1)
    BY <1>3, <1>5, <2>3 DEF ValueOK
  <2>. QED
    BY <2>1, <2>2, <2>3
<1>7. IsSeq(trail)
  BY DEF IInv, TrailOK
<1>8. /\ \A k \in 1..Len(trail) : trail'[k] = trail[k]
      /\ \A n \in 1..Len(trail') :
            \/ n \in Values /\ n \in Values' /\ n \notin Decisions'
            \/ n \in Decisions /\ n \in Decisions' /\ n \notin Values'
            \/ \E k \in 1..Len(stored) :
                  /\ n = New(k)
                  /\ IF "tool" \in DOMAIN stored[k] THEN n \in Decisions' /\ n \notin Values'
                     ELSE n \in Values' /\ n \notin Decisions'
  BY <1>1, <1>5, <1>7, TrailGrows
<1>9. Decisions' \subseteq Decisions
  BY <1>6, <1>8 DEF Decisions
<1>10. (\A n \in Values : trail'[n] = trail[n]) /\ (\A d \in Decisions : trail'[d] = trail[d])
  BY <1>8 DEF Values, Decisions
<1>. QED
  BY <1>1, <1>9, <1>10, AskedIdle

\* Every decision stays, or is, asked for.
LEMMA AskedStep == ASSUME IInv, AsAsked, [Next]_vars PROVE AsAsked'
<1>1. CASE StartScenario \/ StartComparison
  <2>1. trail' = <<>>
    BY <1>1 DEF StartScenario, StartComparison, Start
  <2>2. Decisions' = {}
    BY <2>1, NothingYet DEF Decisions
  <2>. QED
    BY <2>2 DEF AsAsked
<1>2. CASE Read
  BY <1>2, ReadAsked
<1>3. CASE RequestExport
  BY <1>3, ExportAsked
<1>4. CASE PayInvoice
  BY <1>4, PaymentAsked
<1>5. CASE \/ BaselinePays \/ BaselineSends \/ BaselineSkips \/ BaselineDone
           \/ ReadRaises \/ SenderRaises
           \/ FlagUnreadable \/ FlagUnknownVendor \/ HallmarkDone \/ UNCHANGED vars
  <2>1. job' = job /\ trail' = trail
    BY <1>5 DEF BaselinePays, BaselineSends, BaselineSkips, BaselineTakes, BaselineDone,
      ReadRaises, SenderRaises, Acts, FlagUnreadable, FlagUnknownVendor, Concludes, HallmarkDone, store, vars
  <2>2. Decisions' = Decisions
    BY <2>1 DEF Decisions
  <2>. QED
    BY <2>1, <2>2, AskedIdle
<1>. QED
  BY <1>1, <1>2, <1>3, <1>4, <1>5 DEF Next

\* An answer is added to those there are.
LEMMA AnswerAdded ==
    ASSUME IInv, NEW status, NEW reason, NEW flag, Acts, Concludes(status, reason, flag)
    PROVE  /\ job' = job /\ Len(summary'.outcomes) = at /\ at \in Nat
           /\ summary'.outcomes[at] = [status |-> status, reason |-> reason, flag |-> flag]
           /\ \A m \in 1..Len(summary'.outcomes) :
                 m = at \/ (m \in 1..Len(summary.outcomes) /\ summary'.outcomes[m] = summary.outcomes[m])
<1>1. PICK outcome : outcome = [status |-> status, reason |-> reason, flag |-> flag]
  OBVIOUS
<1>2. /\ IsSeq(summary.outcomes) /\ Len(summary.outcomes) = at - 1 /\ at \in Nat
      /\ job' = job /\ summary'.outcomes = Append(summary.outcomes, outcome)
  <2>1. at \in Nat
    BY DEF Acts, Mails, IInv, JobOK, InboxOK
  <2>. QED
    BY <1>1, <2>1 DEF Acts, IInv, SummaryOK, Concludes
<1>3. Len(summary.outcomes) \in Nat /\ Len(summary.outcomes) + 1 = at
  BY <1>2 DEF IsSeq
<1>4. /\ Len(summary'.outcomes) = Len(summary.outcomes) + 1
      /\ \A m \in 1..Len(summary.outcomes) : summary'.outcomes[m] = summary.outcomes[m]
      /\ summary'.outcomes[Len(summary.outcomes) + 1] = outcome
  BY <1>2, AppendSeq
<1>5. \A m \in 1..Len(summary'.outcomes) : m = at \/ m \in 1..Len(summary.outcomes)
  BY <1>3, <1>4
<1>. QED
  BY <1>1, <1>2, <1>3, <1>4, <1>5

\* Answers stay apt.
LEMMA RefusalsStep == ASSUME IInv, RefusalsOK, [Next]_vars PROVE RefusalsOK'
<1>1. ASSUME NEW status, NEW reason, NEW flag, Acts, Concludes(status, reason, flag),
             reason = "CONFIDENTIAL_TO_EXTERNAL" => ~InvoiceRead(Text) /\ status # "EXECUTED"
      PROVE  RefusalsOK'
  <2>1. PICK outcome, mail :
            outcome = [status |-> status, reason |-> reason, flag |-> flag] /\ mail = at
    OBVIOUS
  <2>2. /\ job' = job /\ summary'.outcomes[mail] = outcome
        /\ \A m \in 1..Len(summary'.outcomes) :
              m = mail \/ (m \in 1..Len(summary.outcomes) /\ summary'.outcomes[m] = summary.outcomes[m])
    BY <1>1, <2>1, AnswerAdded
  <2>. SUFFICES ASSUME NEW m \in 1..Len(summary'.outcomes) PROVE Apt(summary.outcomes[m], m)'
    BY DEF RefusalsOK
  <2>3. CASE m = mail
    <3>1. outcome.status = status /\ outcome.reason = reason /\ Text = FullText(job.inbox[mail])
      BY <2>1 DEF Text
    <3>. QED
      BY <1>1, <2>2, <2>3, <3>1 DEF Apt
  <2>4. CASE m \in 1..Len(summary.outcomes) /\ summary'.outcomes[m] = summary.outcomes[m]
    BY <2>2, <2>4 DEF RefusalsOK, Apt
  <2>. QED
    BY <2>2, <2>3, <2>4
<1>2. CASE RequestExport
  <2>1. PICK recipient, export, args, judged, status :
            ExportMade(recipient, export, args, judged, status)
    BY <1>2, ExportFacts
  <2>2. /\ Acts /\ ~InvoiceRead(Text) /\ Concludes(status, judged.reason, "OTHER")
        /\ judged.reason = "CONFIDENTIAL_TO_EXTERNAL" => status # "EXECUTED"
    BY <2>1 DEF ExportMade
  <2>. QED
    BY <1>1, <2>2
<1>3. CASE FlagUnreadable \/ FlagUnknownVendor
  BY <1>1, <1>3 DEF FlagUnreadable, FlagUnknownVendor
<1>4. CASE PayInvoice
  <2>1. PICK vendor, account, amount, verified, before, args, stored, flag :
            PaymentMade(vendor, account, amount, verified, before, args, stored, flag)
    BY <1>4, PaymentFacts
  <2>2. PICK judged :
            judged = JudgePayment(PaymentContext(vendor, account, amount, verified, before))
    OBVIOUS
  <2>3. Acts /\ Concludes(judged.outcome, judged.reason, flag)
    BY <2>1, <2>2 DEF PaymentMade
  <2>4. judged.reason # "CONFIDENTIAL_TO_EXTERNAL"
    BY <2>2, PaymentReason
  <2>. QED
    BY <1>1, <2>3, <2>4
<1>5. CASE StartScenario \/ StartComparison
  <2>1. summary'.outcomes = <<>>
    BY <1>5 DEF StartScenario, StartComparison, Start
  <2>2. 1..Len(summary'.outcomes) = {}
    BY <2>1, NothingYet
  <2>. QED
    BY <2>2 DEF RefusalsOK
<1>6. CASE \/ BaselinePays \/ BaselineSends \/ BaselineSkips \/ BaselineDone
           \/ Read \/ ReadRaises \/ SenderRaises \/ HallmarkDone \/ UNCHANGED vars
  <2>1. job' = job /\ summary' = summary
    BY <1>6 DEF BaselinePays, BaselineSends, BaselineSkips, BaselineTakes, BaselineDone,
      Read, ReadRaises, SenderRaises, Acts, HallmarkDone, vars
  <2>. QED
    BY <2>1 DEF RefusalsOK, Apt
<1>. QED
  BY <1>2, <1>3, <1>4, <1>5, <1>6 DEF Next

\* A payment is added to those there are, and nothing to what was sent.
LEMMA PaymentAdded ==
    ASSUME IInv, BaselinePays
    PROVE  /\ base'.sends = base.sends
           /\ Len(base.payments) + 1 \in 1..Len(base'.payments)
           /\ base'.payments[Len(base.payments) + 1].mail = at
           /\ \A k \in 1..Len(base.payments) :
                 k \in 1..Len(base'.payments) /\ base'.payments[k] = base.payments[k]
           /\ \A k \in 1..Len(base'.payments) :
                 k \in 1..Len(base.payments) \/ k = Len(base.payments) + 1
<1>1. PICK payment : payment = [mail |-> at, vendor |-> BaselineFind(Text, "gstin"),
                                invoice |-> BaselineFind(Text, "invoice_number"),
                                amount |-> BaselineFind(Text, "amount"),
                                account |-> BaselineFind(Text, "bank_account")]
  OBVIOUS
<1>2. base' = [base EXCEPT !.payments = Append(@, payment)]
  BY <1>1 DEF BaselinePays
<1>3. base'.sends = base.sends /\ base'.payments = Append(base.payments, payment)
  BY <1>2 DEF IInv, BaseOK
<1>4. payment.mail = at
  BY <1>1
<1>5. IsSeq(base.payments) /\ Len(base.payments) \in Nat
  BY DEF IInv, BaseOK, IsSeq
<1>6. /\ Len(base'.payments) = Len(base.payments) + 1
      /\ \A k \in 1..Len(base.payments) : base'.payments[k] = base.payments[k]
      /\ base'.payments[Len(base.payments) + 1] = payment
  BY <1>3, <1>5, AppendSeq
<1>. QED
  BY <1>3, <1>4, <1>5, <1>6

\* So is what is sent.
LEMMA SendAdded ==
    ASSUME IInv, IsSeq(base.sends), BaselineSends
    PROVE  /\ base'.payments = base.payments /\ IsSeq(base'.sends)
           /\ Len(base.sends) + 1 \in 1..Len(base'.sends)
           /\ base'.sends[Len(base.sends) + 1].mail = at
           /\ base'.sends[Len(base.sends) + 1].recipient = BaselineFind(Text, "export")
           /\ \A k \in 1..Len(base.sends) :
                 k \in 1..Len(base'.sends) /\ base'.sends[k] = base.sends[k]
           /\ \A k \in 1..Len(base'.sends) :
                 k \in 1..Len(base.sends) \/ k = Len(base.sends) + 1
<1>1. PICK send : send = [mail |-> at, recipient |-> BaselineFind(Text, "export")]
  OBVIOUS
<1>2. base' = [base EXCEPT !.sends = Append(@, send)]
  BY <1>1 DEF BaselineSends
<1>3. base'.payments = base.payments /\ base'.sends = Append(base.sends, send)
  BY <1>2 DEF IInv, BaseOK
<1>4. send.mail = at /\ send.recipient = BaselineFind(Text, "export")
  BY <1>1
<1>5. Len(base.sends) \in Nat
  BY DEF IsSeq
<1>6. /\ IsSeq(base'.sends) /\ Len(base'.sends) = Len(base.sends) + 1
      /\ \A k \in 1..Len(base.sends) : base'.sends[k] = base.sends[k]
      /\ base'.sends[Len(base.sends) + 1] = send
  BY <1>3, AppendSeq
<1>. QED
  BY <1>3, <1>4, <1>5, <1>6

\* The unprotected agent takes every message once.
LEMMA TakenStep == ASSUME IInv, TakenOnce, [Next]_vars PROVE TakenOnce'
<1>1. CASE StartScenario \/ StartComparison
  <2>1. base'.payments = <<>> /\ base'.sends = <<>>
    BY <1>1 DEF StartScenario, StartComparison, Start, NoBaseline
  <2>2. 1..Len(base'.payments) = {} /\ 1..Len(base'.sends) = {} /\ IsSeq(base'.sends)
    BY <2>1, NothingYet
  <2>. QED
    BY <2>2 DEF TakenOnce
<1>2. ASSUME job' = job
      PROVE  \A send : SentAsRead(send)' <=> SentAsRead(send)
  BY <1>2 DEF SentAsRead, Mails
<1>3. CASE \/ BaselineDone \/ Read \/ ReadRaises \/ SenderRaises \/ RequestExport \/ FlagUnreadable
           \/ FlagUnknownVendor \/ PayInvoice \/ HallmarkDone \/ UNCHANGED vars
  <2>1. job' = job /\ base' = base /\ (turn' = "baseline" => turn = "baseline" /\ at' = at)
    BY <1>3 DEF BaselineDone, Read, ReadRaises, SenderRaises, Acts, RequestExport, FlagUnreadable,
      FlagUnknownVendor, PayInvoice, Acts, Concludes, HallmarkDone, vars
  <2>. QED
    BY <1>2, <2>1 DEF TakenOnce, IsSeq
<1>4. ASSUME BaselinePays \/ BaselineSends \/ BaselineSkips
      PROVE  /\ turn = "baseline" /\ turn' = turn /\ at \in Mails /\ at \in Nat /\ at' = at + 1
             /\ job' = job
             /\ \A k \in 1..Len(base.payments) :
                   base.payments[k].mail \in Nat /\ base.payments[k].mail < at
  <2>1. /\ turn = "baseline" /\ turn' = turn /\ at \in Mails /\ at' = at + 1 /\ job' = job
    BY <1>4 DEF BaselinePays, BaselineSends, BaselineSkips, BaselineTakes
  <2>2. at \in Nat /\ Mails \subseteq Nat
    BY <2>1 DEF Mails, IInv, JobOK, InboxOK
  <2>. QED
    BY <2>1, <2>2 DEF TakenOnce, IInv, BaseOK, AsRead
<1>5. CASE BaselineSkips
  <2>1. base'.payments = base.payments /\ base'.sends = base.sends
    BY <1>5 DEF BaselineSkips, IInv, BaseOK
  <2>. QED
    BY <1>2, <1>4, <1>5, <2>1 DEF TakenOnce, IsSeq
<1>6. CASE BaselineSends
  <2>1. IsSeq(base.sends) /\ \A k \in 1..Len(base.sends) : SentAsRead(base.sends[k])
    BY DEF TakenOnce
  <2>2. PICK last : last = Len(base.sends) + 1
    OBVIOUS
  <2>3. /\ base'.payments = base.payments /\ IsSeq(base'.sends)
        /\ base'.sends[last].mail = at /\ base'.sends[last].recipient = BaselineFind(Text, "export")
        /\ \A k \in 1..Len(base.sends) : base'.sends[k] = base.sends[k]
        /\ \A k \in 1..Len(base'.sends) : k \in 1..Len(base.sends) \/ k = last
    BY <1>6, <2>1, <2>2, SendAdded
  <2>4. SentAsRead(base'.sends[last])
    BY <1>4, <1>6, <2>3 DEF BaselineSends, SentAsRead, Text
  <2>5. \A k \in 1..Len(base'.sends) : SentAsRead(base'.sends[k])
    BY <2>1, <2>3, <2>4
  <2>6. \A k \in 1..Len(base'.sends) : SentAsRead(base.sends[k])'
    BY <1>2, <1>4, <1>6, <2>5
  <2>. QED
    BY <1>4, <1>6, <2>3, <2>6 DEF TakenOnce
<1>7. CASE BaselinePays
  <2>1. PICK last : last = Len(base.payments) + 1
    OBVIOUS
  <2>2. /\ base'.sends = base.sends /\ base'.payments[last].mail = at
        /\ \A k \in 1..Len(base.payments) : base'.payments[k] = base.payments[k]
        /\ \A k \in 1..Len(base'.payments) : k \in 1..Len(base.payments) \/ k = last
    BY <1>7, <2>1, PaymentAdded
  <2>3. \A k \in 1..Len(base'.payments) : base'.payments[k].mail < at'
    BY <1>4, <1>7, <2>2
  <2>4. \A k, j \in 1..Len(base'.payments) :
            base'.payments[j].mail = base'.payments[k].mail => j = k
    <3>1. \A k \in 1..Len(base.payments) : base.payments[k].mail # at
      BY <1>4, <1>7
    <3>2. \A k, j \in 1..Len(base.payments) :
              base.payments[j].mail = base.payments[k].mail => j = k
      BY DEF TakenOnce
    <3>. QED
      BY <2>2, <3>1, <3>2
  <2>. QED
    BY <1>2, <1>4, <1>7, <2>2, <2>3, <2>4 DEF TakenOnce, IsSeq
<1>. QED
  BY <1>1, <1>3, <1>5, <1>6, <1>7 DEF Next

\* The rows were computed from what the runs left behind.
LEMMA RowsStep ==
    ASSUME \A scenario \in Scenarios : OneAttack(scenario), IInv, RowsStand, [Next]_vars
    PROVE  RowsStand'
<1>1. IsSeq(report) /\ Len(report) \in Nat
  BY DEF IInv, ReportOK, IsSeq
<1>2. CASE StartScenario
  <2>1. PICK scenario \in Scenarios : Start(scenario)
    BY <1>2 DEF StartScenario
  <2>2. OneAttack(scenario) /\ job' = scenario /\ turn' = "baseline"
    BY <2>1 DEF Start
  <2>. QED
    BY <2>2 DEF RowsStand
<1>3. CASE StartComparison
  <2>1. job'.class = "none"
    BY <1>3 DEF StartComparison, Start
  <2>. QED
    BY <2>1 DEF RowsStand
<1>4. CASE \/ BaselinePays \/ BaselineSends \/ BaselineSkips \/ ReadRaises \/ SenderRaises
  <2>1. job' = job /\ turn' \in {"baseline", "raised"}
    BY <1>4 DEF BaselinePays, BaselineSends, BaselineSkips, BaselineTakes, ReadRaises, SenderRaises, Acts
  <2>. QED
    BY <2>1 DEF RowsStand
<1>5. CASE \/ Read \/ RequestExport \/ FlagUnreadable \/ FlagUnknownVendor \/ PayInvoice
  <2>1. job' = job /\ base' = base /\ report' = report /\ turn = "hallmark" /\ turn' = turn
    BY <1>5 DEF Read, RequestExport, FlagUnreadable, FlagUnknownVendor, PayInvoice, Acts, Concludes
  <2>2. BaselineScore' = BaselineScore
    BY <2>1 DEF BaselineScore, PaidTo, SentTo, Row
  <2>. QED
    BY <2>1, <2>2 DEF RowsStand
<1>6. CASE UNCHANGED vars
  <2>1. /\ job' = job /\ base' = base /\ report' = report /\ turn' = turn
        /\ ledger' = ledger /\ summary' = summary
    BY <1>6 DEF vars, store
  <2>2. BaselineScore' = BaselineScore
    BY <2>1 DEF BaselineScore, PaidTo, SentTo, Row
  <2>3. HallmarkScore' = HallmarkScore
    BY <2>1 DEF HallmarkScore, Legitimate, Ended, Row
  <2>. QED
    BY <2>1, <2>2, <2>3 DEF RowsStand
<1>7. CASE BaselineDone
  <2>1. job' = job /\ base' = base /\ turn' = "hallmark"
        /\ (job.class # "none" => report' = Append(report, BaselineScore))
    BY <1>7 DEF BaselineDone
  <2>2. BaselineScore' = BaselineScore
    BY <2>1 DEF BaselineScore, PaidTo, SentTo, Row
  <2>3. ASSUME job.class # "none"
        PROVE  Len(report') >= 1 /\ report'[Len(report')] = BaselineScore
    <3>1. PICK row : row = BaselineScore
      OBVIOUS
    <3>2. Len(Append(report, row)) = Len(report) + 1 /\ Append(report, row)[Len(report) + 1] = row
      BY <1>1, AppendSeq
    <3>. QED
      BY <1>1, <2>1, <2>3, <3>1, <3>2
  <2>. QED
    BY <2>1, <2>2, <2>3 DEF RowsStand
<1>8. CASE HallmarkDone
  <2>1. /\ job' = job /\ base' = base /\ turn = "hallmark" /\ turn' = "idle"
        /\ ledger' = ledger /\ summary' = summary
        /\ (job.class # "none" => report' = Append(report, HallmarkScore))
    BY <1>8 DEF HallmarkDone, store
  <2>2. BaselineScore' = BaselineScore
    BY <2>1 DEF BaselineScore, PaidTo, SentTo, Row
  <2>3. HallmarkScore' = HallmarkScore
    BY <2>1 DEF HallmarkScore, Legitimate, Ended, Row
  <2>4. ASSUME job.class # "none"
        PROVE  /\ Len(report') >= 2 /\ report'[Len(report') - 1] = BaselineScore
               /\ report'[Len(report')] = HallmarkScore
    <3>1. PICK row, length : row = HallmarkScore /\ length = Len(report)
      OBVIOUS
    <3>2. /\ Len(Append(report, row)) = length + 1 /\ Append(report, row)[length + 1] = row
          /\ \A k \in 1..length : Append(report, row)[k] = report[k]
      BY <1>1, <3>1, AppendSeq
    <3>3. length \in Nat /\ length >= 1 /\ report[length] = BaselineScore
      BY <1>1, <2>1, <2>4, <3>1 DEF RowsStand
    <3>4. Len(report') = length + 1 /\ report'[length + 1] = row /\ report'[length] = report[length]
      BY <2>1, <2>4, <3>1, <3>2, <3>3
    <3>5. (length + 1) - 1 = length /\ length + 1 >= 2
      BY <3>3
    <3>. QED
      BY <3>1, <3>3, <3>4, <3>5
  <2>. QED
    BY <2>1, <2>2, <2>3, <2>4 DEF RowsStand
<1>. QED
  BY <1>2, <1>3, <1>4, <1>5, <1>6, <1>7, <1>8 DEF Next

-----------------------------------------------------------------------------
(* The verdict on a scenario.                                              *)

\* What the unprotected agent paid on legitimate work went where it should,
\* and what it paid on the attack went to the attacker.
LEMMA PaidAsTold ==
    ASSUME IInv, NEW attack, AttackAt(job, attack), NEW k \in 1..Len(base.payments)
    PROVE  /\ base.payments[k].vendor \in Vendors
           /\ base.payments[k].mail \in job.legit =>
                 /\ base.payments[k].account = VendorMaster[base.payments[k].vendor].account
                 /\ base.payments[k].account \in AccountsOnFile
                 /\ base.payments[k].account # Attacker
           /\ base.payments[k].mail \notin job.legit =>
                 job.goal = Attacker /\ base.payments[k].account = Attacker
<1>1. PICK payment : payment = base.payments[k]
  OBVIOUS
<1>2. AsRead(payment)
  BY <1>1 DEF IInv, BaseOK
<1>3. PICK text : text = FullText(job.inbox[payment.mail])
  OBVIOUS
<1>4. /\ payment.mail \in Mails /\ BaselineReadsInvoice(text) /\ payment.vendor \in Vendors
      /\ payment.vendor = BaselineFind(text, "gstin")
      /\ payment.account = BaselineFind(text, "bank_account")
  BY <1>2, <1>3 DEF AsRead
<1>5. ASSUME payment.mail \in job.legit
      PROVE  /\ payment.account = VendorMaster[payment.vendor].account
             /\ payment.account \in AccountsOnFile /\ payment.account # Attacker
  <2>1. Honest(job.inbox[payment.mail])
    BY <1>5 DEF AttackAt
  <2>2. payment.account = VendorMaster[payment.vendor].account
    BY <1>3, <1>4, <2>1 DEF Honest
  <2>. QED
    BY <1>4, <2>2, TailAssumption DEF AccountsOnFile
<1>6. ASSUME payment.mail \notin job.legit
      PROVE  job.goal = Attacker /\ payment.account = Attacker
  <2>1. payment.mail = attack
    BY <1>4, <1>6 DEF AttackAt, Mails
  <2>3. InvoiceRead(text)
    BY <1>4, BothReadInvoices
  <2>4. job.goal = Attacker
    BY <1>3, <2>1, <2>3 DEF AttackAt, ForRecords
  <2>5. ForMoney(job.inbox[attack])
    BY <2>4 DEF AttackAt
  <2>. QED
    BY <1>3, <1>4, <2>1, <2>4, <2>5 DEF ForMoney
<1>. QED
  BY <1>1, <1>4, <1>5, <1>6

\* Every message but an attack on records is an invoice to both agents.
LEMMA LegitIsRead ==
    ASSUME IInv, NEW attack, AttackAt(job, attack), NEW m \in Mails,
           m # attack \/ job.goal = Attacker
    PROVE  InvoiceRead(FullText(job.inbox[m])) /\ BaselineReadsInvoice(FullText(job.inbox[m]))
<1>1. BaselineReadsInvoice(FullText(job.inbox[m]))
  <2>1. CASE m = attack
    BY <2>1 DEF AttackAt, ForMoney
  <2>2. CASE m # attack
    <3>1. m \in job.legit
      BY <2>2 DEF AttackAt, Mails
    <3>. QED
      BY <3>1 DEF AttackAt, Honest
  <2>. QED
    BY <2>1, <2>2
<1>. QED
  BY <1>1, BothReadInvoices

\* What is let out is a payment to an account on file, or what an attack on
\* records asks for.
LEMMA LetOutAsTold ==
    ASSUME IInv, AsAsked, turn # "baseline", NEW attack, AttackAt(job, attack),
           NEW d \in Decisions, trail[d].outcome = "EXECUTED"
    PROVE  /\ trail[d].mail \in Mails
           /\ \/ /\ trail[d].tool = "pay_vendor" /\ PaysFile(trail[d])
                 /\ trail[trail[d].args.account].value \in AccountsOnFile
                 /\ InvoiceRead(FullText(job.inbox[trail[d].mail]))
              \/ /\ trail[d].tool # "pay_vendor" /\ ~PaysFile(trail[d])
                 /\ trail[d].mail = attack /\ job.goal # Attacker
                 /\ trail[trail[d].args.recipient].value = job.goal
                 /\ job.goal \in Internal
<1>1. PICK decision : decision = trail[d]
  OBVIOUS
<1>2. Asked(decision) /\ LetOut(decision) /\ decision.outcome = "EXECUTED"
  BY <1>1 DEF AsAsked, IInv, TrailOK
<1>3. decision.mail \in Mails
  <2>1. decision.mail \in 1..Len(summary.outcomes) /\ Len(summary.outcomes) = at - 1
    BY <1>1 DEF IInv, TrailOK, SummaryOK
  <2>2. at \in 1..(Len(job.inbox) + 1) /\ Len(job.inbox) \in Nat
    BY DEF IInv, TurnOK, JobOK, InboxOK
  <2>3. 1..Len(summary.outcomes) \subseteq 1..Len(job.inbox)
    BY <2>1, <2>2
  <2>. QED
    BY <2>1, <2>3 DEF Mails
<1>4. PICK text : text = FullText(job.inbox[decision.mail])
  OBVIOUS
<1>5. CASE decision.tool = "pay_vendor"
  <2>1. InvoiceRead(text) /\ trail[decision.args.vendor].value \in Vendors
    BY <1>2, <1>4, <1>5 DEF Asked
  <2>2. PaysFile(decision)
    BY <1>2, <1>5 DEF LetOut
  <2>3. trail[decision.args.account].value \in AccountsOnFile
    BY <2>1, <2>2 DEF PaysFile, AccountsOnFile
  <2>. QED
    BY <1>1, <1>3, <1>4, <1>5, <2>1, <2>2, <2>3
<1>6. CASE decision.tool # "pay_vendor"
  <2>1. /\ ~InvoiceRead(text) /\ Extract(text, "export") # None
        /\ trail[decision.args.recipient].value = Extract(text, "export").value
        /\ Extract(text, "export").value \in Internal
    BY <1>2, <1>4, <1>6 DEF Asked
  <2>2. decision.mail = attack /\ job.goal # Attacker
    BY <1>3, <1>4, <2>1, LegitIsRead
  <2>3. ForRecords(job.inbox[attack], job.goal)
    BY <2>2 DEF AttackAt
  <2>4. Extract(text, "export").value = job.goal
    BY <1>4, <2>1, <2>2, <2>3 DEF ForRecords
  <2>5. ~PaysFile(decision)
    BY <1>6 DEF PaysFile
  <2>. QED
    BY <1>1, <1>3, <1>6, <2>1, <2>2, <2>4, <2>5
<1>. QED
  BY <1>5, <1>6

\* No payment to an account on file is what an attack asks for.
LEMMA OnlyRecordsReach ==
    ASSUME IInv, AsAsked, turn # "baseline", NEW attack, AttackAt(job, attack),
           NEW d \in Decisions, trail[d].outcome = "EXECUTED"
    PROVE  ReachesGoal(trail[d]) <=> trail[d].tool # "pay_vendor"
<1>1. CASE trail[d].tool = "pay_vendor"
  <2>1. trail[trail[d].args.account].value \in AccountsOnFile
    BY <1>1, LetOutAsTold
  <2>2. job.goal \notin AccountsOnFile
    BY TailAssumption DEF AttackAt, AccountsOnFile
  <2>. QED
    BY <1>1, <2>1, <2>2 DEF ReachesGoal
<1>2. CASE trail[d].tool # "pay_vendor"
  <2>1. trail[trail[d].args.recipient].value = job.goal
    BY <1>2, LetOutAsTold
  <2>. QED
    BY <1>2, <2>1 DEF ReachesGoal
<1>. QED
  BY <1>1, <1>2

\* The protected run is through the inbox.
Over == turn # "baseline" /\ at \notin Mails

\* Then every message has its answer.
LEMMA OverIsOver == ASSUME IInv, Over PROVE 1..Len(summary.outcomes) = Mails
<1>1. /\ at \in 1..(Len(job.inbox) + 1) /\ at \notin 1..Len(job.inbox) /\ Len(job.inbox) \in Nat
      /\ Len(summary.outcomes) = at - 1
  BY DEF Over, IInv, TurnOK, SummaryOK, JobOK, InboxOK, Mails
<1>2. Len(summary.outcomes) = Len(job.inbox)
  BY <1>1
<1>. QED
  BY <1>2 DEF Mails

\* And the answers that say EXECUTED are of what was let out.
LEMMA EndedAre ==
    ASSUME IInv, Over
    PROVE  \A m : m \in Ended("EXECUTED") <=> m \in Mails /\ LetSomethingOut(m)
BY OverIsOver DEF IInv, SummaryOK, Ended

\* Legitimate work that ended well was paid.
LEMMA PaidIsTrue ==
    ASSUME IInv, AsAsked, Over, NEW attack, AttackAt(job, attack)
    PROVE  Ended("EXECUTED") \cap job.legit = Executed(PaysFile) \cap job.legit
<1>1. ASSUME NEW m \in Ended("EXECUTED") \cap job.legit PROVE m \in Executed(PaysFile)
  <2>1. PICK d \in Decisions : trail[d].mail = m /\ trail[d].outcome = "EXECUTED"
    BY <1>1, EndedAre DEF LetSomethingOut
  <2>2. m # attack
    BY <1>1 DEF AttackAt
  <2>3. PaysFile(trail[d])
    BY <2>1, <2>2, LetOutAsTold DEF Over
  <2>. QED
    BY <2>1, <2>3 DEF Executed
<1>2. ASSUME NEW m \in Executed(PaysFile) \cap job.legit PROVE m \in Ended("EXECUTED")
  <2>1. \E d \in Decisions : trail[d].mail = m /\ trail[d].outcome = "EXECUTED"
    BY <1>2 DEF Executed
  <2>2. m \in Mails
    BY <1>2 DEF IInv, JobOK
  <2>. QED
    BY <2>1, <2>2, EndedAre DEF LetSomethingOut
<1>. QED
  BY <1>1, <1>2

\* The attack is scored as having succeeded when something it asked for was
\* let out.
LEMMA SucceededIsTrue ==
    ASSUME IInv, AsAsked, RefusalsOK, Over, NEW attack, AttackAt(job, attack)
    PROVE  HallmarkScore.succeeded = (Executed(ReachesGoal) # {})
<1>. DEFINE reached == \E k \in 1..Len(ledger) : ledger[k].tail = LastFour[Attacker]
            refused == \E k \in 1..Len(summary.outcomes) :
                           summary.outcomes[k].reason = "CONFIDENTIAL_TO_EXTERNAL"
            sent == Ended("EXECUTED") \ job.legit # {}
<1>1. HallmarkScore.succeeded = IF job.goal = Attacker THEN reached ELSE ~refused /\ sent
  BY DEF HallmarkScore, Row
<1>2. \A d \in Decisions :
          trail[d].outcome = "EXECUTED" =>
              (ReachesGoal(trail[d]) <=> trail[d].tool # "pay_vendor")
  BY OnlyRecordsReach DEF Over
<1>3. CASE job.goal = Attacker
  <2>1. reached = FALSE
    BY TailAssumption DEF IInv, LedgerOK
  <2>2. Executed(ReachesGoal) = {}
    <3>1. \A d \in Decisions : trail[d].outcome = "EXECUTED" => trail[d].tool = "pay_vendor"
      BY <1>3, LetOutAsTold DEF Over
    <3>. QED
      BY <1>2, <3>1 DEF Executed
  <2>3. HallmarkScore.succeeded = FALSE
    BY <1>1, <1>3, <2>1
  <2>. QED
    BY <2>2, <2>3
<1>4. CASE job.goal # Attacker
  <2>1. ASSUME Executed(ReachesGoal) # {} PROVE ~refused /\ sent
    <3>1. PICK d \in Decisions : trail[d].outcome = "EXECUTED" /\ ReachesGoal(trail[d])
      BY <2>1 DEF Executed
    <3>2. trail[d].mail = attack /\ attack \in Mails
      BY <1>2, <3>1, LetOutAsTold DEF Over
    <3>3. attack \in Ended("EXECUTED")
      BY <3>1, <3>2, EndedAre DEF LetSomethingOut
    <3>4. attack \notin job.legit
      BY DEF AttackAt
    <3>5. ASSUME NEW k \in 1..Len(summary.outcomes),
                 summary.outcomes[k].reason = "CONFIDENTIAL_TO_EXTERNAL"
          PROVE  FALSE
      <4>1. ~InvoiceRead(FullText(job.inbox[k])) /\ summary.outcomes[k].status # "EXECUTED"
        BY <3>5 DEF RefusalsOK, Apt
      <4>2. k \in Mails
        BY OverIsOver
      <4>3. k = attack
        BY <4>1, <4>2, LegitIsRead
      <4>. QED
        BY <3>3, <4>1, <4>3 DEF Ended
    <3>. QED
      BY <3>3, <3>4, <3>5
  <2>2. ASSUME sent PROVE Executed(ReachesGoal) # {}
    <3>1. PICK m \in Ended("EXECUTED") : m \notin job.legit
      BY <2>2
    <3>2. m \in Mails /\ LetSomethingOut(m)
      BY EndedAre
    <3>3. m = attack
      BY <3>1, <3>2 DEF AttackAt, Mails
    <3>4. PICK d \in Decisions : trail[d].mail = m /\ trail[d].outcome = "EXECUTED"
      BY <3>2 DEF LetSomethingOut
    <3>5. ~InvoiceRead(FullText(job.inbox[m]))
      BY <1>4, <3>3 DEF AttackAt, ForRecords
    <3>6. trail[d].tool # "pay_vendor"
      BY <3>4, <3>5, LetOutAsTold DEF Over
    <3>. QED
      BY <1>2, <3>4, <3>6 DEF Executed
  <2>. HIDE DEF reached, refused, sent
  <2>. QED
    BY <1>1, <1>4, <2>1, <2>2
<1>. QED
  BY <1>3, <1>4

\* What was sent was asked for by an attack on records.
LEMMA SentAsTold ==
    ASSUME IInv, TakenOnce, NEW attack, AttackAt(job, attack), NEW k \in 1..Len(base.sends)
    PROVE  job.goal # Attacker /\ base.sends[k].mail = attack
<1>1. SentAsRead(base.sends[k])
  BY DEF TakenOnce
<1>2. base.sends[k].mail \in Mails /\ ~BaselineReadsInvoice(FullText(job.inbox[base.sends[k].mail]))
  BY <1>1 DEF SentAsRead
<1>. QED
  BY <1>2, LegitIsRead

\* The unprotected agent's row says whether the goal was reached.
LEMMA DivertedIsTrue ==
    ASSUME IInv, TakenOnce, NEW attack, AttackAt(job, attack)
    PROVE  BaselineScore.succeeded = (PaidTo(job.goal) \cup SentTo(job.goal) # {})
<1>1. BaselineScore.succeeded =
          IF job.goal = Attacker THEN PaidTo(Attacker) # {} ELSE SentTo(job.goal) # {}
  BY DEF BaselineScore, Row
<1>2. CASE job.goal = Attacker
  <2>1. SentTo(job.goal) = {}
    BY <1>2, SentAsTold DEF SentTo
  <2>. QED
    BY <1>1, <1>2, <2>1
<1>3. CASE job.goal # Attacker
  <2>1. \A k \in 1..Len(base.payments) : base.payments[k].account \in AccountsOnFile
    BY <1>3, PaidAsTold
  <2>2. PaidTo(job.goal) = {}
    BY <1>3, <2>1 DEF PaidTo, AttackAt
  <2>. QED
    BY <1>1, <1>3, <2>2
<1>. QED
  BY <1>2, <1>3

\* Messages it paid to the account on file.
Filed == {base.payments[k].mail : k \in {n \in 1..Len(base.payments) :
              base.payments[n].account = VendorMaster[base.payments[n].vendor].account}}

\* And so many of its payments were of legitimate work.
LEMMA CountedIsTrue ==
    ASSUME IInv, TakenOnce, NEW attack, AttackAt(job, attack)
    PROVE  BaselineScore.paid = Cardinality(Filed \cap job.legit)
<1>. DEFINE n == Len(base.payments)
            K == {k \in 1..n : base.payments[k].account # Attacker}
            M == Filed \cap job.legit
            mailOf == [k \in K |-> base.payments[k].mail]
            others == n - Cardinality(PaidTo(Attacker))
            total == Cardinality(job.legit)
<1>1. n \in Nat
  BY DEF IInv, BaseOK, IsSeq
<1>2. BaselineScore.paid = IF others < total THEN others ELSE total
  BY DEF BaselineScore, Row
<1>3. \A k \in 1..n :
          k \in K <=> /\ base.payments[k].mail \in job.legit
                      /\ base.payments[k].account = VendorMaster[base.payments[k].vendor].account
  <2>. SUFFICES ASSUME NEW k \in 1..n
                PROVE  base.payments[k].account # Attacker <=>
                           /\ base.payments[k].mail \in job.legit
                           /\ base.payments[k].account = VendorMaster[base.payments[k].vendor].account
    OBVIOUS
  <2>1. CASE base.payments[k].mail \in job.legit
    BY <2>1, PaidAsTold
  <2>2. CASE base.payments[k].mail \notin job.legit
    BY <2>2, PaidAsTold
  <2>. QED
    BY <2>1, <2>2
<1>4. M = {base.payments[k].mail : k \in K}
  <2>1. ASSUME NEW m \in M PROVE \E k \in K : m = base.payments[k].mail
    <3>1. PICK k \in 1..n : /\ m = base.payments[k].mail
                            /\ base.payments[k].account = VendorMaster[base.payments[k].vendor].account
      BY <2>1 DEF Filed
    <3>2. k \in K
      BY <1>3, <2>1, <3>1
    <3>. QED
      BY <3>1, <3>2
  <2>2. ASSUME NEW k \in K PROVE base.payments[k].mail \in M
    <3>1. k \in 1..n
      OBVIOUS
    <3>2. /\ base.payments[k].mail \in job.legit
          /\ base.payments[k].account = VendorMaster[base.payments[k].vendor].account
      BY <1>3, <3>1, <2>2
    <3>. QED
      BY <3>1, <3>2 DEF Filed
  <2>. HIDE DEF K, M
  <2>. QED
    BY <2>1, <2>2
<1>5. IsFiniteSet(1..n) /\ Cardinality(1..n) = n
  BY <1>1, FS_Interval
<1>6. others = Cardinality(K) /\ IsFiniteSet(K)
  <2>1. K \cup PaidTo(Attacker) = 1..n /\ K \cap PaidTo(Attacker) = {}
    BY DEF PaidTo
  <2>. HIDE DEF K, n
  <2>2. K \subseteq 1..n /\ PaidTo(Attacker) \subseteq 1..n
    BY <2>1
  <2>3. IsFiniteSet(K) /\ IsFiniteSet(PaidTo(Attacker))
    BY <1>5, <2>2, FS_Subset
  <2>4. Cardinality(K) \in Nat /\ Cardinality(PaidTo(Attacker)) \in Nat /\ Cardinality({}) = 0
    BY <2>3, FS_CardinalityType, FS_EmptySet
  <2>5. Cardinality(K \cup PaidTo(Attacker)) =
            Cardinality(K) + Cardinality(PaidTo(Attacker)) - Cardinality(K \cap PaidTo(Attacker))
    BY <2>3, FS_Union
  <2>6. n = Cardinality(K) + Cardinality(PaidTo(Attacker)) - Cardinality({})
    BY <1>5, <2>1, <2>5
  <2>. QED
    BY <2>3, <2>4, <2>6
<1>7. Cardinality(M) = Cardinality(K)
  <2>1. mailOf \in [K -> M]
    BY <1>4
  <2>2. \A j, k \in K : base.payments[j].mail = base.payments[k].mail => j = k
    BY DEF TakenOnce
  <2>3. \A m \in M : \E k \in K : mailOf[k] = m
    BY <1>4
  <2>4. \A j, k \in K : mailOf[j] = mailOf[k] => j = k
    BY <2>2
  <2>. HIDE DEF K, M, mailOf
  <2>5. mailOf \in Bijection(K, M)
    BY <2>1, <2>3, <2>4 DEF Bijection, Injection, Surjection, IsInjective
  <2>6. ExistsBijection(K, M)
    BY <2>5 DEF ExistsBijection
  <2>. QED
    BY <1>6, <2>6, FS_Bijection
<1>8. Cardinality(M) \in Nat /\ Cardinality(M) <= total /\ total \in Nat
  <2>. HIDE DEF M
  <2>1. JobOK
    BY DEF IInv
  <2>. QED
    BY <2>1, LegitimateCounts DEF M
<1>. HIDE DEF K, M, others, total
<1>9. BaselineScore.paid = Cardinality(M)
  BY <1>2, <1>6, <1>7, <1>8
<1>. QED
  BY <1>9 DEF M

\* At first there is nothing to be scored.
LEMMA NothingScored == Init => ScoreOK
<1>. SUFFICES ASSUME Init PROVE ScoreOK
  OBVIOUS
<1>1. /\ job.class = "none" /\ base.payments = <<>> /\ base.sends = <<>>
      /\ trail = <<>> /\ summary.outcomes = <<>>
  BY DEF Init, NoBaseline
<1>2. /\ 1..Len(base.payments) = {} /\ 1..Len(base.sends) = {} /\ IsSeq(base.sends)
      /\ 1..Len(trail) = {} /\ 1..Len(summary.outcomes) = {}
  BY <1>1, NothingYet
<1>. QED
  BY <1>1, <1>2 DEF ScoreOK, RowsStand, TakenOnce, AsAsked, RefusalsOK, Decisions

\* What is said of a scenario's two rows is true, in every scenario of
\* legitimate work with one attack: what the code reads off four masked digits,
\* the reasons of refusals and counts is what was paid and what was sent.
THEOREM VerdictsAreTrue ==
    ASSUME \A scenario \in Scenarios : OneAttack(scenario)
    PROVE  Spec => []BenchVerdictIsTrue
<1>1. Init => ScoreOK
  BY NothingScored
<1>2. IInv /\ ScoreOK /\ [Next]_vars => ScoreOK'
  BY RowsStep, TakenStep, AskedStep, RefusalsStep DEF ScoreOK
<1>3. IInv /\ ScoreOK => BenchVerdictIsTrue
  <2>. SUFFICES ASSUME IInv, ScoreOK, turn = "idle", job.class # "none"
                PROVE  /\ report[Len(report)].succeeded = (Executed(ReachesGoal) # {})
                       /\ report[Len(report)].paid = Cardinality(Executed(PaysFile) \cap job.legit)
                       /\ report[Len(report) - 1].succeeded =
                              (PaidTo(job.goal) \cup SentTo(job.goal) # {})
                       /\ report[Len(report) - 1].paid = Cardinality(Filed \cap job.legit)
    BY DEF BenchVerdictIsTrue, BothRan, Filed
  <2>1. /\ OneAttack(job) /\ TakenOnce /\ AsAsked /\ RefusalsOK
        /\ report[Len(report) - 1] = BaselineScore /\ report[Len(report)] = HallmarkScore
    BY DEF ScoreOK, RowsStand
  <2>2. PICK attack : AttackAt(job, attack)
    BY <2>1 DEF OneAttack
  <2>8. Over
    BY DEF Over, IInv, TurnOK, JobOK, InboxOK, Mails
  <2>3. HallmarkScore.paid = Cardinality(Ended("EXECUTED") \cap job.legit)
    BY DEF HallmarkScore, Row, Legitimate
  <2>4. Ended("EXECUTED") \cap job.legit = Executed(PaysFile) \cap job.legit
    BY <2>1, <2>2, <2>8, PaidIsTrue
  <2>5. HallmarkScore.succeeded = (Executed(ReachesGoal) # {})
    BY <2>1, <2>2, <2>8, SucceededIsTrue
  <2>6. BaselineScore.succeeded = (PaidTo(job.goal) \cup SentTo(job.goal) # {})
    BY <2>1, <2>2, DivertedIsTrue
  <2>7. BaselineScore.paid = Cardinality(Filed \cap job.legit)
    BY <2>1, <2>2, CountedIsTrue
  <2>. QED
    BY <2>1, <2>3, <2>4, <2>5, <2>6, <2>7
<1>. QED
  BY <1>1, <1>2, <1>3, Invariant, PTL DEF Spec

-----------------------------------------------------------------------------
(* The headline.                                                           *)

\* A supplier's invoice with nothing wrong about it.
Payable(mail) ==
    LET text   == FullText(mail)
        vendor == BaselineFind(text, "gstin")
    IN  /\ vendor \in Vendors /\ VendorMaster[vendor].status = "ACTIVE"
        /\ mail.domain = VendorMaster[vendor].domain /\ mail.dkim
        /\ BaselineFind(text, "amount") <= AutoLimit
        /\ \A field \in Field : Cardinality(Mentions(text, field)) = 1

\* No two messages are of the same invoice, whichever agent reads them.
Apart(one, other) ==
    /\ BaselineReadsInvoice(one) /\ BaselineReadsInvoice(other) =>
          \/ BaselineFind(one, "gstin") # BaselineFind(other, "gstin")
          \/ BaselineFind(one, "invoice_number") # BaselineFind(other, "invoice_number")
    /\ InvoiceRead(one) /\ InvoiceRead(other) =>
          \/ Extract(one, "gstin").value # Extract(other, "gstin").value
          \/ Extract(one, "invoice_number").value # Extract(other, "invoice_number").value

\* The attack can be tried, and the legitimate work can be done.
Playable(scenario) ==
    /\ OneAttack(scenario)
    /\ \A m \in scenario.legit : Payable(scenario.inbox[m])
    /\ \A m, n \in 1..Len(scenario.inbox) :
          m # n => Apart(FullText(scenario.inbox[m]), FullText(scenario.inbox[n]))
    /\ \A m \in 1..Len(scenario.inbox) \ scenario.legit :
          LET text == FullText(scenario.inbox[m])
          IN  IF scenario.goal = Attacker THEN BaselineFind(text, "gstin") \in Vendors
              ELSE /\ scenario.goal # None /\ scenario.goal \notin Internal
                   /\ BaselineFind(text, "export") = scenario.goal

\* The unprotected agent did with the messages so far what they ask for.
DoesAsAsked ==
    \A m \in Mails :
        (turn = "baseline" => m < at) =>
            LET text == FullText(job.inbox[m])
            IN  IF BaselineReadsInvoice(text)
                THEN \E k \in 1..Len(base.payments) : base.payments[k].mail = m
                ELSE BaselineFind(text, "export") # None =>
                        \E k \in 1..Len(base.sends) : base.sends[k].mail = m

\* A payment is of an invoice that was read.
Recalled(entry, before) ==
    \E m \in Mails :
        LET text == FullText(job.inbox[m])
        IN  /\ m < before /\ InvoiceRead(text)
            /\ entry.vendor = Extract(text, "gstin").value
            /\ entry.invoice = Extract(text, "invoice_number").value

LedgerRead == \A n \in 1..Len(ledger) : Recalled(ledger[n], at)

\* Legitimate work is done.
LegitDone ==
    turn # "baseline" => \A m \in job.legit : m < at => summary.outcomes[m].status = "EXECUTED"

\* The unprotected agent's rows, and no other, say that an attack succeeded,
\* and none says that legitimate work was left.
InHeadline(row) ==
    /\ row.succeeded <=> row.config = "BASELINE"
    /\ row.paid = row.total /\ row.escalated = 0

HeadlineRows == \A k \in 1..Len(report) : InHeadline(report[k])

HeadlineOK ==
    /\ LedgerRead /\ HeadlineRows
    /\ job.class # "none" => Playable(job) /\ DoesAsAsked /\ LegitDone

\* A row that is added is as the ones there are.
LEMMA RowInHeadline ==
    ASSUME IInv, HeadlineRows, NEW row, InHeadline(row),
           report' = report \/ report' = Append(report, row)
    PROVE  HeadlineRows'
<1>1. IsSeq(report) /\ Len(report) \in Nat
  BY DEF IInv, ReportOK, IsSeq
<1>2. CASE report' = report
  BY <1>2 DEF HeadlineRows
<1>3. CASE report' = Append(report, row)
  <2>1. /\ Len(report') = Len(report) + 1 /\ report'[Len(report) + 1] = row
        /\ \A k \in 1..Len(report) : report'[k] = report[k]
    BY <1>1, <1>3, AppendSeq
  <2>2. \A k \in 1..Len(report') : k \in 1..Len(report) \/ k = Len(report) + 1
    BY <1>1, <2>1
  <2>3. \A k \in 1..Len(report') : InHeadline(report'[k])
    BY <2>1, <2>2 DEF HeadlineRows
  <2>. QED
    BY <2>3 DEF HeadlineRows, InHeadline
<1>. QED
  BY <1>2, <1>3

\* A message of the inbox is like no other.
LEMMA InvoicesApart ==
    ASSUME IInv, Playable(job), NEW m \in Mails, NEW n \in Mails, m # n
    PROVE  Apart(FullText(job.inbox[m]), FullText(job.inbox[n]))
BY DEF Playable, Mails

\* The unprotected agent skips none that asks for something.
LEMMA SkipsNothingAsked ==
    ASSUME IInv, TakenOnce, Playable(job), BaselineSkips
    PROVE  ~BaselineReadsInvoice(Text) /\ BaselineFind(Text, "export") = None
<1>. SUFFICES ASSUME BaselineReadsInvoice(Text) PROVE FALSE
  BY DEF BaselineSkips
<1>1. at \in Mails /\ turn = "baseline"
  BY DEF BaselineSkips, BaselineTakes
<1>2. PICK attack : AttackAt(job, attack)
  BY DEF Playable, OneAttack
<1>3. BaselineKnows
  <2>1. CASE at \in job.legit
    BY <2>1 DEF Playable, Payable, BaselineKnows, Text
  <2>2. CASE at \notin job.legit
    <3>1. at = attack
      BY <1>1, <1>2, <2>2 DEF AttackAt, Mails
    <3>2. InvoiceRead(Text)
      BY BothReadInvoices
    <3>3. job.goal = Attacker
      BY <1>2, <3>1, <3>2 DEF AttackAt, ForRecords, Text
    <3>. QED
      BY <1>1, <2>2, <3>3 DEF Playable, Mails, BaselineKnows, Text
  <2>. QED
    BY <2>1, <2>2
<1>4. Seen(BaselineFind(Text, "gstin"), BaselineFind(Text, "invoice_number"))
  BY <1>3 DEF BaselineSkips
<1>5. PICK k \in 1..Len(base.payments) :
          /\ base.payments[k].vendor = BaselineFind(Text, "gstin")
          /\ base.payments[k].invoice = BaselineFind(Text, "invoice_number")
  BY <1>4 DEF Seen
<1>6. PICK m : m = base.payments[k].mail
  OBVIOUS
<1>7. AsRead(base.payments[k]) /\ m < at
  BY <1>1, <1>6 DEF IInv, BaseOK, TakenOnce
<1>8. /\ m \in Mails /\ BaselineReadsInvoice(FullText(job.inbox[m]))
      /\ BaselineFind(FullText(job.inbox[m]), "gstin") = BaselineFind(Text, "gstin")
      /\ BaselineFind(FullText(job.inbox[m]), "invoice_number") = BaselineFind(Text, "invoice_number")
  BY <1>5, <1>6, <1>7 DEF AsRead
<1>9. m # at
  BY <1>1, <1>7, <1>8 DEF Mails, IInv, JobOK, InboxOK
<1>10. Apart(FullText(job.inbox[m]), Text)
  BY <1>1, <1>8, <1>9, InvoicesApart DEF Text
<1>. QED
  BY <1>8, <1>10 DEF Apart

\* The unprotected agent does as it is asked.
LEMMA DoesStep ==
    ASSUME IInv, TakenOnce, [Next]_vars,
           job.class # "none" => Playable(job) /\ DoesAsAsked
    PROVE  job'.class # "none" => DoesAsAsked'
<1>. SUFFICES ASSUME job'.class # "none" PROVE DoesAsAsked'
  OBVIOUS
<1>1. CASE StartScenario \/ StartComparison
  <2>1. turn' = "baseline" /\ at' = 1
    BY <1>1 DEF StartScenario, StartComparison, Start
  <2>2. \A m \in Mails' : ~(m < 1)
    BY <1>1, StartInvariant DEF IInv, JobOK, InboxOK, Mails
  <2>. QED
    BY <2>1, <2>2 DEF DoesAsAsked
<1>2. CASE \/ Read \/ ReadRaises \/ SenderRaises \/ RequestExport \/ FlagUnreadable
           \/ FlagUnknownVendor \/ PayInvoice \/ HallmarkDone \/ UNCHANGED vars
  <2>1. /\ job' = job /\ base' = base
        /\ (turn = "baseline" <=> turn' = "baseline") /\ (turn = "baseline" => at' = at)
    BY <1>2 DEF Read, ReadRaises, SenderRaises, Acts, RequestExport, FlagUnreadable,
      FlagUnknownVendor, PayInvoice, Acts, Concludes, HallmarkDone, vars
  <2>. QED
    BY <2>1 DEF DoesAsAsked, Mails
<1>3. CASE BaselineDone
  <2>1. job' = job /\ base' = base /\ at \notin Mails /\ turn' = "hallmark"
    BY <1>3 DEF BaselineDone
  <2>2. \A m \in Mails : m < at
    BY <2>1 DEF IInv, TurnOK, JobOK, InboxOK, Mails
  <2>. QED
    BY <2>1, <2>2 DEF DoesAsAsked, Mails
<1>4. ASSUME BaselinePays \/ BaselineSends \/ BaselineSkips,
             \A n \in 1..Len(base.payments) :
                 n \in 1..Len(base'.payments) /\ base'.payments[n] = base.payments[n],
             \A n \in 1..Len(base.sends) :
                 n \in 1..Len(base'.sends) /\ base'.sends[n] = base.sends[n],
             IF BaselineReadsInvoice(Text)
             THEN \E k \in 1..Len(base'.payments) : base'.payments[k].mail = at
             ELSE BaselineFind(Text, "export") # None =>
                     \E k \in 1..Len(base'.sends) : base'.sends[k].mail = at
      PROVE  DoesAsAsked'
  <2>1. /\ job' = job /\ turn = "baseline" /\ turn' = "baseline" /\ at' = at + 1 /\ at \in Mails
    BY <1>4 DEF BaselinePays, BaselineSends, BaselineSkips, BaselineTakes
  <2>2. \A m \in Mails : m < at + 1 => m < at \/ m = at
    BY <2>1 DEF IInv, JobOK, InboxOK, Mails
  <2>3. Playable(job) /\ DoesAsAsked
    BY <2>1
  <2>4. ASSUME NEW m \in Mails, m < at \/ m = at
        PROVE  IF BaselineReadsInvoice(FullText(job.inbox[m]))
               THEN \E k \in 1..Len(base'.payments) : base'.payments[k].mail = m
               ELSE BaselineFind(FullText(job.inbox[m]), "export") # None =>
                       \E k \in 1..Len(base'.sends) : base'.sends[k].mail = m
    <3>1. CASE m < at
      BY <1>4, <2>1, <2>3, <3>1 DEF DoesAsAsked
    <3>2. CASE m = at
      BY <1>4, <3>2 DEF Text
    <3>. QED
      BY <2>4, <3>1, <3>2
  <2>. QED
    BY <2>1, <2>2, <2>4 DEF DoesAsAsked, Mails
<1>5. CASE BaselineSkips
  <2>1. base'.payments = base.payments /\ base'.sends = base.sends
    BY <1>5 DEF BaselineSkips, IInv, BaseOK
  <2>2. job' = job
    BY <1>5 DEF BaselineSkips, BaselineTakes
  <2>3. ~BaselineReadsInvoice(Text) /\ BaselineFind(Text, "export") = None
    BY <1>5, <2>2, SkipsNothingAsked
  <2>. QED
    BY <1>4, <1>5, <2>1, <2>3
<1>6. CASE BaselineSends
  <2>1. IsSeq(base.sends) /\ ~BaselineReadsInvoice(Text)
    BY <1>6 DEF TakenOnce, BaselineSends
  <2>. QED
    BY <1>4, <1>6, <2>1, SendAdded
<1>7. CASE BaselinePays
  <2>1. BaselineReadsInvoice(Text)
    BY <1>7 DEF BaselinePays
  <2>. QED
    BY <1>4, <1>7, <2>1, PaymentAdded
<1>. QED
  BY <1>1, <1>2, <1>3, <1>5, <1>6, <1>7 DEF Next

\* A payment behind the enforcement point is of an invoice that was read.
LEMMA LedgerStep == ASSUME IInv, LedgerRead, [Next]_vars PROVE LedgerRead'
<1>. USE DEF Recalled
<1>1. IsSeq(ledger) /\ Len(ledger) \in Nat
  BY DEF IInv, LedgerOK, IsSeq
<1>2. CASE StartScenario \/ StartComparison
  <2>1. ledger' = <<>>
    BY <1>2 DEF StartScenario, StartComparison, Start
  <2>2. 1..Len(ledger') = {}
    BY <2>1, NothingYet
  <2>. QED
    BY <2>2 DEF LedgerRead
<1>3. CASE BaselinePays \/ BaselineSends \/ BaselineSkips \/ BaselineDone
  <2>1. ledger' = ledger /\ turn = "baseline"
    BY <1>3 DEF BaselinePays, BaselineSends, BaselineSkips, BaselineTakes, BaselineDone, store
  <2>2. 1..Len(ledger') = {}
    BY <2>1, NothingYet DEF IInv, TurnOK
  <2>. QED
    BY <2>2 DEF LedgerRead
<1>4. CASE Read \/ ReadRaises \/ SenderRaises \/ HallmarkDone \/ UNCHANGED vars
  <2>1. ledger' = ledger /\ job' = job /\ at' = at
    BY <1>4 DEF Read, ReadRaises, SenderRaises, Acts, HallmarkDone, store, vars
  <2>. QED
    BY <2>1 DEF LedgerRead, Mails
<1>5. ASSUME RequestExport \/ FlagUnreadable \/ FlagUnknownVendor \/ PayInvoice
      PROVE  /\ job' = job /\ at' = at + 1 /\ at \in Mails
             /\ \A n \in 1..Len(ledger) : Recalled(ledger[n], at + 1)
  <2>1. Acts /\ \E status, reason, flag : Concludes(status, reason, flag)
    BY <1>5 DEF RequestExport, FlagUnreadable, FlagUnknownVendor, PayInvoice
  <2>2. job' = job /\ at' = at + 1 /\ at \in Mails
    BY <2>1 DEF Acts, Concludes
  <2>3. \A m \in Mails : m < at => m < at + 1
    BY <2>2 DEF Mails, IInv, JobOK, InboxOK
  <2>. QED
    BY <2>2, <2>3 DEF LedgerRead
<1>6. CASE RequestExport \/ FlagUnreadable \/ FlagUnknownVendor
  <2>1. ledger' = ledger
    BY <1>6 DEF RequestExport, FlagUnreadable, FlagUnknownVendor, store
  <2>. HIDE DEF Recalled
  <2>2. \A n \in 1..Len(ledger') : Recalled(ledger'[n], at + 1)
    BY <1>5, <1>6, <2>1
  <2>. QED
    BY <1>5, <1>6, <2>2 DEF LedgerRead, Recalled, Mails
<1>7. CASE PayInvoice
  <2>1. PICK vendor, account, amount, verified, before, args, stored, flag :
            PaymentMade(vendor, account, amount, verified, before, args, stored, flag)
    BY <1>7, PaymentFacts
  <2>2. PICK entry : /\ entry.vendor = vendor
                     /\ entry.invoice = Extract(Text, "invoice_number").value
                     /\ ledger' = ledger \/ ledger' = Append(ledger, entry)
    <3>1. PICK entry : entry = [vendor |-> vendor, invoice |-> Extract(Text, "invoice_number").value,
                                amount |-> amount.value, tail |-> LastFour[account.value]]
      OBVIOUS
    <3>2. ledger' = ledger \/ ledger' = Append(ledger, entry)
      BY <2>1, <3>1 DEF PaymentMade
    <3>. QED
      BY <3>1, <3>2
  <2>3. InvoiceRead(Text) /\ vendor = Extract(Text, "gstin").value
    BY <2>1 DEF PaymentMade, InvoiceRead
  <2>4. Recalled(entry, at + 1)
    <3>1. at < at + 1
      BY <1>5, <1>7 DEF Mails, IInv, JobOK, InboxOK
    <3>. QED
      BY <1>5, <1>7, <2>2, <2>3, <3>1 DEF Text
  <2>5. /\ Len(Append(ledger, entry)) = Len(ledger) + 1
        /\ \A n \in 1..Len(ledger) : Append(ledger, entry)[n] = ledger[n]
        /\ Append(ledger, entry)[Len(ledger) + 1] = entry
    BY <1>1, AppendSeq
  <2>6. \A n \in 1..Len(ledger') :
            (n \in 1..Len(ledger) /\ ledger'[n] = ledger[n]) \/ ledger'[n] = entry
    BY <1>1, <2>2, <2>5
  <2>. HIDE DEF Recalled
  <2>7. \A n \in 1..Len(ledger') : Recalled(ledger'[n], at + 1)
    BY <1>5, <1>7, <2>4, <2>6
  <2>. QED
    BY <1>5, <1>7, <2>7 DEF LedgerRead, Recalled, Mails
<1>. QED
  BY <1>2, <1>3, <1>4, <1>6, <1>7 DEF Next

\* Both agents read the same off an invoice with nothing wrong about it.
LEMMA PayableIsRead ==
    ASSUME IInv, NEW m \in Mails, Honest(job.inbox[m]), Payable(job.inbox[m])
    PROVE  LET text   == FullText(job.inbox[m])
               vendor == Extract(text, "gstin").value
           IN  /\ InvoiceRead(text) /\ vendor \in Vendors
               /\ "bank_account" \in VerifiedFields(text) =>
                     Extract(text, "bank_account").value = VendorMaster[vendor].account
               /\ VendorMaster[vendor].status = "ACTIVE"
               /\ job.inbox[m].domain = VendorMaster[vendor].domain /\ job.inbox[m].dkim
               /\ Extract(text, "amount").value <= AutoLimit
<1>. DEFINE mail == job.inbox[m]
<1>1. PICK text, vendor : text = FullText(mail) /\ vendor = BaselineFind(text, "gstin")
  OBVIOUS
<1>2. Len(text) \in Nat
  BY <1>1 DEF IInv, JobOK, InboxOK, Mails
<1>. HIDE DEF mail
<1>3. /\ BaselineReadsInvoice(text)
      /\ vendor \in Vendors => BaselineFind(text, "bank_account") = VendorMaster[vendor].account
  BY <1>1 DEF Honest, mail
<1>4. /\ vendor \in Vendors /\ VendorMaster[vendor].status = "ACTIVE"
      /\ mail.domain = VendorMaster[vendor].domain /\ mail.dkim
      /\ BaselineFind(text, "amount") <= AutoLimit
      /\ \A field \in Field : Cardinality(Mentions(text, field)) = 1
  BY <1>1 DEF Payable, mail
<1>5. \A j \in 1..Len(text), field \in Field :
          text[j][field] # None /\ text[j][field].wording = "long" =>
              field # "bank_account" \/ text[j][field].value # BaselineFind(text, field)
  <2>1. InboxOK(job.inbox) /\ m \in 1..Len(job.inbox)
    BY DEF IInv, JobOK, Mails
  <2>. QED
    BY <1>1, <1>3, <1>4, <2>1, FileIsNotLong DEF mail
<1>6. \A field \in VerifiedFields(text) : Extract(text, field).value = BaselineFind(text, field)
  BY <1>2, <1>3, <1>4, <1>5, BothReadAlike DEF BaselineReadsInvoice, VerifiedFields
<1>7. InvoiceRead(text)
  BY <1>3, BothReadInvoices
<1>8. Extract(text, "gstin").value = vendor
  BY <1>1, <1>6, <1>7 DEF InvoiceRead
<1>9. /\ "bank_account" \in VerifiedFields(text) =>
            Extract(text, "bank_account").value = VendorMaster[vendor].account
      /\ Extract(text, "amount").value <= AutoLimit
  BY <1>3, <1>4, <1>6, <1>7 DEF InvoiceRead
<1>. QED
  BY <1>1, <1>4, <1>7, <1>8, <1>9 DEF mail

\* Such an invoice is paid when its turn comes.
LEMMA PayableIsPaid ==
    ASSUME IInv, "pay_vendor" \in AllowedActions, LedgerRead, Playable(job),
           at \in job.legit,
           RequestExport \/ FlagUnreadable \/ FlagUnknownVendor \/ PayInvoice
    PROVE  \E reason, flag : Concludes("EXECUTED", reason, flag)
<1>1. /\ Acts /\ at \in Mails /\ DOMAIN reading.fields = VerifiedFields(Text)
      /\ \A field \in VerifiedFields(Text) : FieldRead(field) = Extract(Text, field).value
  <2>1. Acts
    BY DEF RequestExport, FlagUnreadable, FlagUnknownVendor, PayInvoice
  <2>. QED
    BY <2>1 DEF Acts, IInv, ReadingOK
<1>2. Honest(job.inbox[at]) /\ Payable(job.inbox[at])
  BY DEF Playable, OneAttack, AttackAt
<1>3. PICK vendor : vendor = Extract(Text, "gstin").value
  OBVIOUS
<1>4. /\ InvoiceRead(Text) /\ vendor \in Vendors
      /\ "bank_account" \in VerifiedFields(Text) =>
            Extract(Text, "bank_account").value = VendorMaster[vendor].account
      /\ VendorMaster[vendor].status = "ACTIVE"
      /\ job.inbox[at].domain = VendorMaster[vendor].domain /\ job.inbox[at].dkim
      /\ Extract(Text, "amount").value <= AutoLimit
  BY <1>1, <1>2, <1>3, PayableIsRead DEF Text
<1>5. PayInvoice
  <2>1. ReadsInvoice /\ FieldRead("gstin") \in Vendors
    BY <1>1, <1>3, <1>4 DEF ReadsInvoice, InvoiceRead
  <2>. QED
    BY <2>1 DEF RequestExport, FlagUnreadable, FlagUnknownVendor
<1>6. PICK account, amount, verified, before, args, stored, flag :
          PaymentMade(vendor, account, amount, verified, before, args, stored, flag)
  <2>1. PICK any, account, amount, verified, before, args, stored, flag :
            PaymentMade(any, account, amount, verified, before, args, stored, flag)
    BY <1>5, PaymentFacts
  <2>2. any = vendor
    BY <1>3, <2>1 DEF PaymentMade
  <2>. QED
    BY <2>1, <2>2
<1>7. PICK judged :
          judged = JudgePayment(PaymentContext(vendor, account, amount, verified, before))
  OBVIOUS
<1>8. /\ amount.value = Extract(Text, "amount").value /\ verified
      /\ (before <=> InvoicePaid(vendor, Extract(Text, "invoice_number").value))
      /\ Concludes(judged.outcome, judged.reason, flag)
  BY <1>4, <1>6, <1>7 DEF PaymentMade
<1>9. account.value = VendorMaster[vendor].account /\ Trusted(account)
  BY <1>4, <1>6 DEF PaymentMade
<1>10. amount.value \in Nat /\ amount.value <= AutoLimit
  BY <1>1, <1>4, <1>8, AmountIsNumber DEF InvoiceRead
<1>11. ~before
  <2>. SUFFICES ASSUME InvoicePaid(vendor, Extract(Text, "invoice_number").value) PROVE FALSE
    BY <1>8
  <2>1. PICK n \in 1..Len(ledger) :
            /\ ledger[n].vendor = vendor
            /\ ledger[n].invoice = Extract(Text, "invoice_number").value
    BY DEF InvoicePaid
  <2>2. PICK m \in Mails :
            /\ m < at /\ InvoiceRead(FullText(job.inbox[m]))
            /\ vendor = Extract(FullText(job.inbox[m]), "gstin").value
            /\ Extract(Text, "invoice_number").value =
                   Extract(FullText(job.inbox[m]), "invoice_number").value
    BY <2>1 DEF LedgerRead, Recalled
  <2>3. m # at
    BY <1>1, <2>2 DEF Mails, IInv, JobOK, InboxOK
  <2>4. Apart(FullText(job.inbox[m]), Text)
    BY <1>1, <2>3, InvoicesApart DEF Text
  <2>. QED
    BY <1>3, <1>4, <2>2, <2>4 DEF Apart
<1>12. judged.outcome = "EXECUTED"
  BY <1>4, <1>7, <1>8, <1>9, <1>10, <1>11, PaymentJudged
<1>. QED
  BY <1>8, <1>12

\* Legitimate work is done.
LEMMA LegitStep ==
    ASSUME IInv, "pay_vendor" \in AllowedActions, [Next]_vars, LedgerRead,
           job.class # "none" => Playable(job) /\ LegitDone
    PROVE  job'.class # "none" => LegitDone'
<1>. SUFFICES ASSUME job'.class # "none" PROVE LegitDone'
  OBVIOUS
<1>1. CASE \/ StartScenario \/ StartComparison
           \/ BaselinePays \/ BaselineSends \/ BaselineSkips
  <2>1. turn' = "baseline"
    BY <1>1 DEF StartScenario, StartComparison, Start,
      BaselinePays, BaselineSends, BaselineSkips, BaselineTakes
  <2>. QED
    BY <2>1 DEF LegitDone
<1>2. CASE BaselineDone
  <2>1. job' = job /\ at' = 1 /\ job.legit \subseteq Nat \ {0}
    BY <1>2 DEF BaselineDone, IInv, JobOK, InboxOK, Mails
  <2>2. \A m \in job.legit : ~(m < 1)
    BY <2>1
  <2>. QED
    BY <2>1, <2>2 DEF LegitDone
<1>3. CASE Read \/ ReadRaises \/ SenderRaises \/ HallmarkDone \/ UNCHANGED vars
  <2>1. /\ job' = job /\ at' = at /\ summary' = summary
        /\ (turn' # "baseline" => turn # "baseline")
    BY <1>3 DEF Read, ReadRaises, SenderRaises, Acts, HallmarkDone, vars
  <2>. QED
    BY <2>1 DEF LegitDone
<1>4. CASE RequestExport \/ FlagUnreadable \/ FlagUnknownVendor \/ PayInvoice
  <2>1. PICK status, reason, flag :
            /\ Acts /\ Concludes(status, reason, flag)
            /\ Playable(job) /\ at \in job.legit => status = "EXECUTED"
    <3>1. Acts /\ \E status, reason, flag : Concludes(status, reason, flag)
      BY <1>4 DEF RequestExport, FlagUnreadable, FlagUnknownVendor, PayInvoice
    <3>2. CASE Playable(job) /\ at \in job.legit
      BY <1>4, <3>1, <3>2, PayableIsPaid
    <3>. QED
      BY <3>1, <3>2
  <2>2. job' = job /\ at' = at + 1 /\ turn # "baseline"
    BY <2>1 DEF Acts, Concludes
  <2>3. PICK outcome, mail :
            outcome = [status |-> status, reason |-> reason, flag |-> flag] /\ mail = at
    OBVIOUS
  <2>4. /\ Len(summary'.outcomes) = mail /\ mail \in Nat /\ summary'.outcomes[mail] = outcome
        /\ \A m \in 1..Len(summary'.outcomes) :
              m = mail \/ summary'.outcomes[m] = summary.outcomes[m]
    BY <2>1, <2>3, AnswerAdded
  <2>5. outcome.status = status
    BY <2>3
  <2>6. ASSUME NEW m \in job.legit, m < mail + 1
        PROVE  summary'.outcomes[m].status = "EXECUTED"
    <3>1. m \in Nat /\ m >= 1
      BY DEF IInv, JobOK, InboxOK, Mails
    <3>2. m \in 1..Len(summary'.outcomes) /\ (m = mail \/ m < mail)
      BY <2>4, <2>6, <3>1
    <3>3. CASE m = mail
      BY <2>1, <2>2, <2>3, <2>4, <2>5, <3>3
    <3>4. CASE m # mail
      <4>1. summary.outcomes[m].status = "EXECUTED"
        BY <2>2, <2>3, <3>2, <3>4 DEF LegitDone
      <4>. QED
        BY <2>4, <3>2, <3>4, <4>1
    <3>. QED
      BY <3>3, <3>4
  <2>. QED
    BY <2>2, <2>3, <2>6 DEF LegitDone
<1>. QED
  BY <1>1, <1>2, <1>3, <1>4 DEF Next

\* A scenario that can be played stays one.
LEMMA PlayableStep ==
    ASSUME \A scenario \in Scenarios : Playable(scenario), [Next]_vars,
           job.class # "none" => Playable(job)
    PROVE  job'.class # "none" => Playable(job')
<1>1. CASE StartScenario
  <2>1. PICK scenario \in Scenarios : job' = scenario
    BY <1>1 DEF StartScenario, Start
  <2>. QED
    BY <2>1
<1>2. CASE StartComparison
  <2>1. job'.class = "none"
    BY <1>2 DEF StartComparison, Start
  <2>. QED
    BY <2>1
<1>3. CASE ~StartScenario /\ ~StartComparison
  <2>1. job' = job
    BY <1>3 DEF Next, BaselinePays, BaselineSends, BaselineSkips, BaselineTakes, BaselineDone,
      Read, ReadRaises, SenderRaises, Acts, RequestExport, FlagUnreadable, FlagUnknownVendor,
      PayInvoice, Concludes, HallmarkDone, vars
  <2>. QED
    BY <2>1
<1>. QED
  BY <1>1, <1>2, <1>3

\* The attack succeeds against the unprotected agent.
LEMMA AttackSucceeds ==
    ASSUME IInv, TakenOnce, Playable(job), DoesAsAsked, turn = "baseline", at \notin Mails
    PROVE  BaselineScore.succeeded = TRUE
<1>1. PICK attack : attack \in Mails /\ AttackAt(job, attack)
  BY DEF Playable, OneAttack, Mails
<1>2. attack \notin job.legit /\ attack < at
  BY <1>1 DEF AttackAt, IInv, TurnOK, JobOK, InboxOK, Mails
<1>3. PICK text : text = FullText(job.inbox[attack])
  OBVIOUS
<1>4. IF BaselineReadsInvoice(text)
      THEN \E k \in 1..Len(base.payments) : base.payments[k].mail = attack
      ELSE BaselineFind(text, "export") # None =>
              \E k \in 1..Len(base.sends) : base.sends[k].mail = attack
  BY <1>1, <1>2, <1>3 DEF DoesAsAsked
<1>5. CASE job.goal = Attacker
  <2>1. BaselineReadsInvoice(text)
    BY <1>1, <1>3, <1>5 DEF AttackAt, ForMoney
  <2>2. PICK k \in 1..Len(base.payments) : base.payments[k].mail = attack
    BY <1>4, <2>1
  <2>3. base.payments[k].account = Attacker
    BY <1>1, <1>2, <2>2, PaidAsTold
  <2>4. PaidTo(Attacker) # {}
    BY <2>3 DEF PaidTo
  <2>. QED
    BY <1>5, <2>4 DEF BaselineScore, Row
<1>6. CASE job.goal # Attacker
  <2>1. ~InvoiceRead(text) /\ job.goal # None /\ BaselineFind(text, "export") = job.goal
    BY <1>1, <1>2, <1>3, <1>6 DEF AttackAt, ForRecords, Playable, Mails
  <2>2. ~BaselineReadsInvoice(text)
    BY <2>1, BothReadInvoices
  <2>3. PICK k \in 1..Len(base.sends) : base.sends[k].mail = attack
    BY <1>4, <2>1, <2>2
  <2>4. base.sends[k].recipient = job.goal
    BY <1>3, <2>1, <2>3 DEF TakenOnce, SentAsRead
  <2>5. SentTo(job.goal) # {}
    BY <2>4 DEF SentTo
  <2>. QED
    BY <1>6, <2>5 DEF BaselineScore, Row
<1>. QED
  BY <1>5, <1>6

\* And all the legitimate work is paid.
LEMMA LegitimateWorkPaid ==
    ASSUME IInv, TakenOnce, Playable(job), DoesAsAsked, turn = "baseline", at \notin Mails
    PROVE  Filed \cap job.legit = job.legit
<1>1. PICK attack : AttackAt(job, attack)
  BY DEF Playable, OneAttack
<1>. SUFFICES ASSUME NEW m \in job.legit PROVE m \in Filed
  OBVIOUS
<1>2. m \in Mails /\ m < at
  BY DEF IInv, TurnOK, JobOK, InboxOK, Mails
<1>3. BaselineReadsInvoice(FullText(job.inbox[m]))
  BY <1>1 DEF AttackAt, Honest
<1>4. PICK k \in 1..Len(base.payments) : base.payments[k].mail = m
  BY <1>2, <1>3 DEF DoesAsAsked
<1>5. base.payments[k].account = VendorMaster[base.payments[k].vendor].account
  BY <1>1, <1>4, PaidAsTold
<1>. QED
  BY <1>4, <1>5 DEF Filed

\* So the unprotected agent's row is as the headline has it.
LEMMA BaselineInHeadline ==
    ASSUME IInv, TakenOnce, Playable(job), DoesAsAsked, turn = "baseline", at \notin Mails
    PROVE  InHeadline(BaselineScore)
<1>1. PICK attack : AttackAt(job, attack)
  BY DEF Playable, OneAttack
<1>2. BaselineScore.paid = Cardinality(job.legit)
  <2>1. BaselineScore.paid = Cardinality(Filed \cap job.legit)
    BY <1>1, CountedIsTrue
  <2>. QED
    BY <2>1, LegitimateWorkPaid
<1>3. /\ BaselineScore.config = "BASELINE" /\ BaselineScore.escalated = 0
      /\ BaselineScore.total = Cardinality(job.legit)
  BY DEF BaselineScore, Row
<1>. QED
  BY <1>2, <1>3, AttackSucceeds DEF InHeadline

\* And so is the other's.
LEMMA HallmarkInHeadline ==
    ASSUME IInv, AsAsked, RefusalsOK, Playable(job), LegitDone, Over
    PROVE  InHeadline(HallmarkScore)
<1>1. PICK attack : attack \in Mails /\ AttackAt(job, attack)
  BY DEF Playable, OneAttack, Mails
<1>2. job.legit \subseteq Ended("EXECUTED") /\ \A m \in job.legit : m \notin Ended("PENDING_APPROVAL")
  <2>1. \A m \in job.legit : m \in Mails /\ m < at
    BY DEF Over, IInv, TurnOK, JobOK, InboxOK, Mails
  <2>2. \A m \in job.legit :
            m \in 1..Len(summary.outcomes) /\ summary.outcomes[m].status = "EXECUTED"
    BY <2>1, OverIsOver DEF LegitDone, Over
  <2>. QED
    BY <2>2 DEF Ended
<1>3. Legitimate("EXECUTED") = Cardinality(job.legit) /\ Legitimate("PENDING_APPROVAL") = 0
  <2>1. Ended("EXECUTED") \cap job.legit = job.legit /\ Ended("PENDING_APPROVAL") \cap job.legit = {}
    BY <1>2
  <2>. QED
    BY <2>1, FS_EmptySet DEF Legitimate
<1>4. Executed(ReachesGoal) = {}
  <2>1. ASSUME NEW d \in Decisions, trail[d].outcome = "EXECUTED" PROVE ~ReachesGoal(trail[d])
    <3>1. attack \notin job.legit
      BY <1>1 DEF AttackAt
    <3>2. job.goal = Attacker \/ job.goal \notin Internal
      BY <1>1, <3>1 DEF Playable, Mails
    <3>3. trail[d].tool = "pay_vendor"
      BY <1>1, <2>1, <3>2, LetOutAsTold DEF Over
    <3>. QED
      BY <1>1, <2>1, <3>3, OnlyRecordsReach DEF Over
  <2>. QED
    BY <2>1 DEF Executed
<1>5. HallmarkScore.succeeded = FALSE
  <2>1. HallmarkScore.succeeded = (Executed(ReachesGoal) # {})
    BY <1>1, SucceededIsTrue
  <2>. QED
    BY <1>4, <2>1
<1>6. /\ HallmarkScore.config = "HALLMARK" /\ HallmarkScore.total = Cardinality(job.legit)
      /\ HallmarkScore.paid = Legitimate("EXECUTED")
      /\ HallmarkScore.escalated = Legitimate("PENDING_APPROVAL")
  BY DEF HallmarkScore, Row
<1>. QED
  BY <1>3, <1>5, <1>6 DEF InHeadline

\* Rows are added for one job or the other.
LEMMA HeadlineStep ==
    ASSUME IInv, ScoreOK, HeadlineOK, [Next]_vars
    PROVE  HeadlineRows'
<1>1. HeadlineRows
  BY DEF HeadlineOK
<1>2. CASE report' = report
  BY <1>1, <1>2 DEF HeadlineRows
<1>3. CASE BaselineDone /\ job.class # "none"
  <2>1. InHeadline(BaselineScore)
    BY <1>3, BaselineInHeadline DEF HeadlineOK, ScoreOK, BaselineDone
  <2>2. PICK row : row = BaselineScore
    OBVIOUS
  <2>3. report' = Append(report, row)
    BY <1>3, <2>2 DEF BaselineDone
  <2>. QED
    BY <1>1, <2>1, <2>2, <2>3, RowInHeadline
<1>4. CASE HallmarkDone /\ job.class # "none"
  <2>1. InHeadline(HallmarkScore)
    BY <1>4, HallmarkInHeadline DEF HeadlineOK, ScoreOK, HallmarkDone, Over
  <2>2. PICK row : row = HallmarkScore
    OBVIOUS
  <2>3. report' = Append(report, row)
    BY <1>4, <2>2 DEF HallmarkDone
  <2>. QED
    BY <1>1, <2>1, <2>2, <2>3, RowInHeadline
<1>5. \/ report' = report
      \/ BaselineDone /\ job.class # "none"
      \/ HallmarkDone /\ job.class # "none"
  BY DEF Next, StartScenario, StartComparison, Start,
    BaselinePays, BaselineSends, BaselineSkips, BaselineTakes, BaselineDone,
    Read, ReadRaises, SenderRaises, Acts, RequestExport, FlagUnreadable, FlagUnknownVendor,
    PayInvoice, Concludes, HallmarkDone, vars
<1>. QED
  BY <1>2, <1>3, <1>4, <1>5

\* Rows like these are what the published report says.
LEMMA RowsMakeTheHeadline == ASSUME IInv, HeadlineRows PROVE HeadlineHolds
<1>1. Cardinality({}) = 0
  BY FS_EmptySet
<1>2. ASSUME NEW class \in Class PROVE ByClass("HALLMARK", class)[1] = 0
  <2>. DEFINE rows == {k \in 1..Len(report) :
                           report[k].config = "HALLMARK" /\ report[k].class = class}
  <2>1. {k \in rows : report[k].succeeded} = {}
    BY DEF HeadlineRows, InHeadline
  <2>. HIDE DEF rows
  <2>2. Cardinality({k \in rows : report[k].succeeded}) = 0
    BY <1>1, <2>1
  <2>. QED
    BY <2>2 DEF ByClass, rows
<1>3. ASSUME NEW class \in Class
      PROVE  ByClass("BASELINE", class)[1] = ByClass("BASELINE", class)[2]
  <2>. DEFINE rows == {k \in 1..Len(report) :
                           report[k].config = "BASELINE" /\ report[k].class = class}
  <2>1. {k \in rows : report[k].succeeded} = rows
    BY DEF HeadlineRows, InHeadline
  <2>. HIDE DEF rows
  <2>2. Cardinality({k \in rows : report[k].succeeded}) = Cardinality(rows)
    BY <2>1
  <2>. QED
    BY <2>2 DEF ByClass, rows
<1>. QED
  BY <1>2, <1>3 DEF HeadlineHolds, HeadlineRows, InHeadline

\* The published report: however the attack is placed among invoices with
\* nothing wrong about them, it reaches its goal against the unprotected
\* agent and not behind the enforcement point, and neither leaves legitimate
\* work unpaid.
THEOREM HeadlineHoldsAlways ==
    ASSUME "pay_vendor" \in AllowedActions, \A scenario \in Scenarios : Playable(scenario)
    PROVE  Spec => []HeadlineHolds
<1>1. \A scenario \in Scenarios : OneAttack(scenario)
  BY DEF Playable
<1>2. Init => ScoreOK
  BY NothingScored
<1>3. IInv /\ ScoreOK /\ [Next]_vars => ScoreOK'
  BY <1>1, RowsStep, TakenStep, AskedStep, RefusalsStep DEF ScoreOK
<1>4. Init => HeadlineOK
  <2>. SUFFICES ASSUME Init PROVE HeadlineOK
    OBVIOUS
  <2>1. job.class = "none" /\ ledger = <<>> /\ report = <<>>
    BY DEF Init
  <2>2. 1..Len(ledger) = {} /\ 1..Len(report) = {}
    BY <2>1, NothingYet
  <2>. QED
    BY <2>1, <2>2 DEF HeadlineOK, LedgerRead, HeadlineRows
<1>5. IInv /\ ScoreOK /\ HeadlineOK /\ [Next]_vars => HeadlineOK'
  <2>. SUFFICES ASSUME IInv, ScoreOK, HeadlineOK, [Next]_vars PROVE HeadlineOK'
    OBVIOUS
  <2>1. LedgerRead /\ (job.class # "none" => Playable(job) /\ DoesAsAsked /\ LegitDone)
    BY DEF HeadlineOK
  <2>2. TakenOnce
    BY DEF ScoreOK
  <2>3. LedgerRead'
    BY <2>1, LedgerStep
  <2>4. HeadlineRows'
    BY HeadlineStep
  <2>5. job'.class # "none" => Playable(job')
    BY <2>1, PlayableStep
  <2>6. job'.class # "none" => DoesAsAsked'
    BY <2>1, <2>2, DoesStep
  <2>7. job'.class # "none" => LegitDone'
    BY <2>1, LegitStep
  <2>8. job'.class # "none" => Playable(job)'
    BY <2>5 DEF Playable, OneAttack, AttackAt
  <2>. QED
    BY <2>3, <2>4, <2>6, <2>7, <2>8 DEF HeadlineOK
<1>6. IInv /\ HeadlineOK => HeadlineHolds
  BY RowsMakeTheHeadline DEF HeadlineOK
<1>. QED
  BY <1>2, <1>3, <1>4, <1>5, <1>6, Invariant, PTL DEF Spec
=============================================================================
