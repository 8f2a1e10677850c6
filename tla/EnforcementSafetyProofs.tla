----------------------- MODULE EnforcementSafetyProofs -----------------------
(***************************************************************************)
(* The safety of Enforcement, for every value of its constants: where      *)
(* money goes, how often, and that it implements the promise in Payments.  *)
(*                                                                         *)
(* None of these is inductive by itself.  A payment is sound because of    *)
(* what the call knew before it paid, so the invariant says what a call    *)
(* knows at each stage; and what it knows stays true because records of a  *)
(* vendor are only added to, payments too, and no two calls share an       *)
(* identity.                                                               *)
(***************************************************************************)
EXTENDS EnforcementProofs

Paid == {entry.txn : entry \in ledger}

Active(c) == pc[c] # "idle"

\* A call has not paid before it is about to record that it has.
Unpaid(c) ==
    \/ pc[c] \in {"vendors", "ledger_read", "authorizer", "ledger_write", "reask"}
    \/ pc[c] = "decisions" /\ verdict[c].outcome # "EXECUTED"
    => req[c].id \notin Paid

\* The version of the vendor's record that was current when the call began.
BegunOnRecord(c) ==
    Active(c) /\ req[c].vendor \in Vendors
        => req[c].begun \in 1..Len(rows[req[c].vendor])

\* The facts say what some version of the vendor's record said since then.
FactsBacked(c) ==
    facts[c].vendorStatus # "UNKNOWN" =>
        /\ req[c].vendor \in Vendors
        /\ facts[c].asOf \in req[c].begun..Len(rows[req[c].vendor])
        /\ rows[req[c].vendor][facts[c].asOf].status = facts[c].vendorStatus
        /\ facts[c].accountMatches =>
            /\ rows[req[c].vendor][facts[c].asOf].account = req[c].account.value
            /\ Trusted(req[c].account)

\* A call that asked the ledger knows the payments there were, and that none
\* of them was of its invoice unless its facts say so.
LedgerAsked(c) ==
    /\ facts[c].seen \subseteq Paid
    /\ ~facts[c].isDuplicate =>
        \A entry \in ledger :
            entry.vendor = req[c].vendor /\ entry.invoice = req[c].invoice
                => entry.txn \notin facts[c].seen
    /\ Serial /\ facts[c].vendorStatus # "UNKNOWN" => facts[c].seen = Paid

\* What a call knows at each stage.
CallSound(c) ==
    /\ Active(c) => req[c].id <= issued
    /\ Unpaid(c)
    /\ BegunOnRecord(c)
    /\ pc[c] \in {"ledger_read", "authorizer", "ledger_write"} => FactsBacked(c)
    /\ pc[c] \in {"authorizer", "ledger_write"} => LedgerAsked(c)
    /\ pc[c] = "ledger_write" => PayAllowed(Context(c, FALSE))

\* Calls have identities of their own.
DistinctCalls ==
    \A c, d \in Callers :
        Active(c) /\ Active(d) /\ c # d => req[c].id # req[d].id

\* A payment relies on a version there was, and saw only payments there were.
LedgerSound ==
    \A entry \in ledger :
        /\ entry.txn <= issued
        /\ entry.begun >= 1
        /\ entry.seen \subseteq Paid
        /\ entry.amount <= MaxAmount /\ entry.amount <= AutoLimit

IInv ==
    /\ TypeOK
    /\ \A c \in Callers : CallSound(c)
    /\ DistinctCalls
    /\ LedgerSound
    /\ DestinationOnFile
    /\ DuplicateOnlyByRace
    /\ Serial => NoDuplicatePayment

-----------------------------------------------------------------------------
(* What a step may change *)

\* A vendor's record is only ever added to.
LEMMA RowsGrow ==
    ASSUME TypeOK, [Next]_vars, NEW v \in Vendors
    PROVE  /\ Len(rows[v]) \in Nat /\ Len(rows'[v]) \in Nat
           /\ Len(rows[v]) <= Len(rows'[v])
           /\ \A k \in 1..Len(rows[v]) : rows'[v][k] = rows[v][k]
<1>1. rows[v] \in Seq(Row) /\ Len(rows[v]) \in Nat
  BY DEF TypeOK
<1>2. CASE UNCHANGED rows
  BY <1>1, <1>2
<1>3. ASSUME NEW u \in Vendors, PutVendor(u)
      PROVE  /\ Len(rows'[v]) \in Nat
             /\ Len(rows[v]) <= Len(rows'[v])
             /\ \A k \in 1..Len(rows[v]) : rows'[v][k] = rows[v][k]
  <2>1. PICK row \in Row : rows' = [rows EXCEPT ![u] = Append(@, row)]
    BY <1>3 DEF PutVendor
  <2>2. CASE u = v
    <3>1. rows'[v] = Append(rows[v], row)
      BY <2>1, <2>2 DEF TypeOK
    <3>2. QED
      BY <1>1, <3>1
  <2>3. CASE u # v
    BY <1>1, <2>1, <2>3 DEF TypeOK
  <2>4. QED
    BY <2>2, <2>3
<1>4. ASSUME NEW c \in Callers, Proceed(c) PROVE UNCHANGED rows
  BY <1>4 DEF Proceed, ReadVendor, ReadLedger, Authorize, Execute, Reask,
              RecordDecision, FailClosed, ReaskRaises, ExecuteRaises, RecordRaises,
              stores
<1>5. ASSUME NEW c \in Callers, Call(c) PROVE UNCHANGED rows
  BY <1>5 DEF Call, RefuseArgument, PayVendor, stores
<1>6. QED
  BY <1>1, <1>2, <1>3, <1>4, <1>5 DEF Next, LookupVendor, vars

\* A step of one call leaves the others, the issued identities and the
\* master as they are, and pays at most what that call was about to pay.
LEMMA ProceedFrame ==
    ASSUME TypeOK, NEW c \in Callers, Proceed(c)
    PROVE  /\ UNCHANGED <<rows, issued>>
           /\ UNCHANGED req[c] \/ pc'[c] = "idle"
           /\ Active(c)
           /\ \A d \in Callers : d # c =>
                UNCHANGED <<pc[d], req[d], facts[d], verdict[d]>>
           /\ \/ UNCHANGED ledger
              \/ /\ pc[c] = "ledger_write"
                 /\ ledger' = ledger \cup {Entry(c)}
                 /\ \/ pc'[c] = "idle"
                    \/ pc'[c] = "decisions" /\ verdict'[c].outcome = "EXECUTED"
<1>1. /\ pc \in [Callers -> Stage]
      /\ req \in [Callers -> Request \cup {None}]
      /\ facts \in [Callers -> PaymentFacts \cup {None}]
      /\ verdict \in [Callers -> Verdict \cup {None}]
  BY DEF TypeOK
<1>2. CASE ReadVendor(c) \/ ReadLedger(c) \/ Authorize(c) \/ Reask(c) \/ FailClosed(c)
  BY <1>1, <1>2 DEF ReadVendor, ReadLedger, Authorize, Reask, FailClosed, stores, Active
<1>3. CASE RecordDecision(c) \/ ReaskRaises(c) \/ RecordRaises(c)
  BY <1>1, <1>3 DEF RecordDecision, ReaskRaises, RecordRaises, Return, stores, Active
<1>4. CASE Execute(c) \/ ExecuteRaises(c)
  BY <1>1, <1>4 DEF Execute, ExecuteRaises, Return, Decided, stores, Active
<1>5. QED
  BY <1>2, <1>3, <1>4 DEF Proceed

-----------------------------------------------------------------------------
(* What a call knows stays true *)

\* A payment adds its identity to those paid.
LEMMA PaidGrows ==
    ASSUME NEW n, ledger' = ledger \cup {n}
    PROVE  Paid' = Paid \cup {n.txn}
<1>1. ASSUME NEW x \in Paid' PROVE x \in Paid \cup {n.txn}
  BY <1>1 DEF Paid
<1>2. ASSUME NEW x \in Paid \cup {n.txn} PROVE x \in Paid'
  BY <1>2 DEF Paid
<1>3. QED
  BY <1>1, <1>2

\* While another call, the run or the company moves.
LEMMA BystanderSound ==
    ASSUME TypeOK, [Next]_vars, NEW d \in Callers, CallSound(d), NEW n,
           UNCHANGED <<pc[d], req[d], facts[d], verdict[d]>>,
           issued \in Nat, issued' \in Nat, issued <= issued',
           \/ ledger' = ledger
           \/ /\ ~Serial
              /\ ledger' = ledger \cup {n}
              /\ n.txn \notin Paid
              /\ Active(d) => n.txn # req[d].id
    PROVE  CallSound(d)'
<1>1. Active(d) => req[d] \in Request
  BY DEF Active, TypeOK, CallTypeOK
<1>2. (Active(d) => req[d].id <= issued)'
  BY <1>1 DEF CallSound, Active, Request
<1>3. Unpaid(d)'
  <2>1. CASE ledger' = ledger
    BY <2>1 DEF CallSound, Unpaid, Paid
  <2>2. CASE ledger' # ledger
    <3>1. ledger' = ledger \cup {n} /\ (Active(d) => n.txn # req[d].id)
      BY <2>2
    <3>2. Paid' = Paid \cup {n.txn}
      BY <3>1, PaidGrows
    <3>3. QED
      BY <3>1, <3>2 DEF CallSound, Unpaid, Active
  <2>3. QED
    BY <2>1, <2>2
<1>4. BegunOnRecord(d)'
  <2> SUFFICES ASSUME Active(d), req[d].vendor \in Vendors
               PROVE  req[d].begun \in 1..Len(rows'[req[d].vendor])
    BY DEF BegunOnRecord, Active
  <2>1. req[d].begun \in 1..Len(rows[req[d].vendor])
    BY DEF CallSound, BegunOnRecord
  <2>2. QED
    BY <2>1, RowsGrow
<1>5. ASSUME pc[d] \in {"ledger_read", "authorizer", "ledger_write"}
      PROVE  FactsBacked(d)'
  <2> SUFFICES ASSUME facts[d].vendorStatus # "UNKNOWN" PROVE FactsBacked(d)'
    BY DEF FactsBacked
  <2> DEFINE v == req[d].vendor
             k == facts[d].asOf
  <2>1. /\ v \in Vendors
        /\ k \in req[d].begun..Len(rows[v])
        /\ rows[v][k].status = facts[d].vendorStatus
        /\ facts[d].accountMatches =>
              rows[v][k].account = req[d].account.value /\ Trusted(req[d].account)
    BY <1>5 DEF CallSound, FactsBacked
  <2>2. req[d].begun \in 1..Len(rows[v])
    BY <1>5, <2>1 DEF CallSound, BegunOnRecord, Active
  <2>3. /\ Len(rows[v]) \in Nat /\ Len(rows'[v]) \in Nat
        /\ Len(rows[v]) <= Len(rows'[v])
        /\ \A j \in 1..Len(rows[v]) : rows'[v][j] = rows[v][j]
    BY <2>1, RowsGrow
  <2> HIDE DEF v, k
  <2>4. k \in 1..Len(rows[v]) /\ k \in req[d].begun..Len(rows'[v])
    BY <2>1, <2>2, <2>3
  <2>5. rows'[v][k] = rows[v][k]
    BY <2>3, <2>4
  <2>6. QED
    BY <2>1, <2>4, <2>5 DEF FactsBacked, v, k
<1>6. ASSUME pc[d] \in {"authorizer", "ledger_write"} PROVE LedgerAsked(d)'
  <2>1. LedgerAsked(d)
    BY <1>6 DEF CallSound
  <2>2. CASE ledger' = ledger
    BY <2>1, <2>2 DEF LedgerAsked, Paid, Serial
  <2>3. CASE ledger' # ledger
    <3>1. ledger' = ledger \cup {n} /\ n.txn \notin Paid
      BY <2>3
    <3>2. Paid' = Paid \cup {n.txn}
      BY <3>1, PaidGrows
    <3>3. n.txn \notin facts[d].seen
      BY <2>1, <3>1 DEF LedgerAsked
    <3>4. ~Serial /\ ~Serial'
      BY <2>3 DEF Serial
    <3>5. QED
      BY <2>1, <3>1, <3>2, <3>3, <3>4 DEF LedgerAsked
  <2>4. QED
    BY <2>2, <2>3
<1>7. (pc[d] = "ledger_write" => PayAllowed(Context(d, FALSE)))'
  <2>1. Context(d, FALSE)' = Context(d, FALSE)
    BY DEF Context
  <2>2. QED
    BY <2>1 DEF CallSound
<1>8. QED
  BY <1>2, <1>3, <1>4, <1>5, <1>6, <1>7 DEF CallSound

\* While the call itself moves.
LEMMA OwnStepSound ==
    ASSUME TypeOK, TypeOK', NEW c \in Callers, CallSound(c), Proceed(c)
    PROVE  CallSound(c)'
<1>1. /\ pc \in [Callers -> Stage]
      /\ req \in [Callers -> Request \cup {None}]
      /\ facts \in [Callers -> PaymentFacts \cup {None}]
      /\ verdict \in [Callers -> Verdict \cup {None}]
      /\ Active(c)
      /\ req[c] \in Request
      /\ UNCHANGED <<rows, issued>>
  BY ProceedFrame DEF TypeOK, CallTypeOK, Active
<1>2. CASE pc'[c] = "idle"
  BY <1>2 DEF CallSound, Active, Unpaid, BegunOnRecord
<1>3. ASSUME UNCHANGED req[c], pc'[c] # "idle"
      PROVE  (Active(c) => req[c].id <= issued)' /\ BegunOnRecord(c)'
  BY <1>1, <1>3 DEF CallSound, Active, BegunOnRecord
<1>4. CASE ReadVendor(c)
  <2>1. UNCHANGED <<req[c], ledger>> /\ pc'[c] \in {"ledger_read", "authorizer"}
    BY <1>1, <1>4 DEF ReadVendor, stores
  <2>2. Unpaid(c)'
    BY <1>4, <2>1 DEF ReadVendor, CallSound, Unpaid, Paid
  <2>3. CASE req[c].vendor \in Vendors
    <3>1. /\ facts'[c] = VendorFacts(req[c])
          /\ pc'[c] = "ledger_read"
      BY <1>1, <1>4, <2>3 DEF ReadVendor
    <3>2. /\ req[c].begun \in 1..Len(rows[req[c].vendor])
          /\ Len(rows[req[c].vendor]) \in Nat
      BY <1>1, <2>3, CurrentIsRow DEF CallSound, BegunOnRecord
    <3>3. /\ facts'[c].asOf = Len(rows[req[c].vendor])
          /\ facts'[c].vendorStatus = rows[req[c].vendor][facts'[c].asOf].status
          /\ facts'[c].accountMatches = Matches(req[c].account, Current(req[c].vendor))
          /\ Current(req[c].vendor) = rows[req[c].vendor][facts'[c].asOf]
      BY <3>1 DEF VendorFacts, Current
    <3>4. facts'[c].accountMatches =>
                /\ rows[req[c].vendor][facts'[c].asOf].account = req[c].account.value
                /\ Trusted(req[c].account)
      BY <3>3 DEF Matches
    <3>5. facts'[c].asOf \in req[c].begun..Len(rows[req[c].vendor])
      BY <3>2, <3>3
    <3>6. FactsBacked(c)'
      BY <1>1, <2>1, <2>3, <3>3, <3>4, <3>5 DEF FactsBacked
    <3>7. QED
      BY <1>3, <2>1, <2>2, <3>1, <3>6 DEF CallSound
  <2>4. CASE req[c].vendor \notin Vendors
    <3>1. /\ facts'[c] = NoFacts(req[c])
          /\ pc'[c] = "authorizer"
      BY <1>1, <1>4, <2>4 DEF ReadVendor
    <3>2. FactsBacked(c)' /\ LedgerAsked(c)'
      BY <3>1 DEF FactsBacked, LedgerAsked, NoFacts
    <3>3. QED
      BY <1>3, <2>1, <2>2, <3>1, <3>2 DEF CallSound
  <2>5. QED
    BY <2>3, <2>4
<1>5. CASE ReadLedger(c)
  <2>1. /\ UNCHANGED <<req[c], ledger>>
        /\ pc'[c] = "authorizer"
        /\ facts'[c] = [facts[c] EXCEPT
                          !.isDuplicate = HasInvoice(req[c].vendor, req[c].invoice),
                          !.seen = Paid]
        /\ facts[c] \in PaymentFacts
    BY <1>1, <1>5 DEF ReadLedger, stores, Paid, TypeOK, CallTypeOK
  <2>2. /\ facts'[c].isDuplicate = HasInvoice(req[c].vendor, req[c].invoice)
        /\ facts'[c].seen = Paid
        /\ facts'[c].vendorStatus = facts[c].vendorStatus
        /\ facts'[c].asOf = facts[c].asOf
        /\ facts'[c].accountMatches = facts[c].accountMatches
    BY <2>1 DEF PaymentFacts
  <2>3. FactsBacked(c)'
    BY <1>1, <1>5, <2>1, <2>2 DEF ReadLedger, CallSound, FactsBacked
  <2>4. LedgerAsked(c)'
    BY <2>1, <2>2 DEF LedgerAsked, HasInvoice, Paid, Serial
  <2>5. Unpaid(c)'
    BY <1>5, <2>1 DEF ReadLedger, CallSound, Unpaid, Paid
  <2>6. QED
    BY <1>3, <2>1, <2>3, <2>4, <2>5 DEF CallSound
<1>6. CASE Authorize(c)
  <2>1. /\ UNCHANGED <<req[c], facts[c], ledger>>
        /\ pc[c] = "authorizer"
        /\ pc'[c] = IF PayAllowed(Context(c, FALSE)) THEN "ledger_write" ELSE "reask"
    BY <1>1, <1>6 DEF Authorize, stores
  <2>2. Context(c, FALSE)' = Context(c, FALSE)
    BY <2>1 DEF Context
  <2>3. FactsBacked(c)' /\ LedgerAsked(c)' /\ Unpaid(c)'
    BY <1>1, <2>1 DEF CallSound, FactsBacked, LedgerAsked, Unpaid, Paid, Serial
  <2>4. QED
    BY <1>3, <2>1, <2>2, <2>3 DEF CallSound
<1>7. CASE Execute(c)
  <2>1. /\ UNCHANGED req[c]
        /\ pc'[c] = "decisions"
        /\ verdict'[c].outcome = "EXECUTED"
    BY <1>1, <1>7 DEF Execute, Decided
  <2>2. QED
    BY <1>3, <2>1 DEF CallSound, Unpaid
<1>8. CASE Reask(c) \/ FailClosed(c)
  <2>1. /\ UNCHANGED <<req[c], ledger>>
        /\ pc[c] \in {"vendors", "ledger_read", "authorizer", "reask"}
        /\ pc'[c] = "decisions"
    BY <1>1, <1>8 DEF Reask, FailClosed, stores
  <2>2. Unpaid(c)'
    BY <2>1 DEF CallSound, Unpaid, Paid
  <2>3. QED
    BY <1>3, <2>1, <2>2 DEF CallSound
<1>9. CASE RecordDecision(c) \/ ReaskRaises(c) \/ ExecuteRaises(c) \/ RecordRaises(c)
  <2>1. pc'[c] = "idle"
    BY <1>1, <1>9 DEF RecordDecision, ReaskRaises, ExecuteRaises, RecordRaises, Return
  <2>2. QED
    BY <1>2, <2>1
<1>10. QED
  BY <1>4, <1>5, <1>6, <1>7, <1>8, <1>9 DEF Proceed

-----------------------------------------------------------------------------
(* A payment about to be made *)

\* A permitted payment is one that no forbid applies to.
LEMMA PermittedPayment ==
    ASSUME NEW ctx, PayAllowed(ctx)
    PROVE  /\ ctx.vendorStatus = "ACTIVE"
           /\ ctx.amount <= ctx.maxAmount
           /\ ctx.accountTrusted /\ ctx.accountMatches
           /\ ~ctx.isDuplicate
           /\ ctx.humanApproved \/ (ctx.matchVerified /\ ~(ctx.amount > ctx.autoLimit))
<1>1. PayPermit(ctx) /\ PayForbids(ctx) = {}
  BY DEF PayAllowed
<1>2. /\ "pay-account-must-be-master" \notin PayForbids(ctx)
      /\ "pay-vendor-match-required" \notin PayForbids(ctx)
      /\ "pay-no-duplicates" \notin PayForbids(ctx)
      /\ "pay-above-auto-limit-needs-human" \notin PayForbids(ctx)
  BY <1>1
<1>3. QED
  BY <1>1, <1>2 DEF PayPermit, PayForbids

\* What the call knows is what makes its payment sound.
LEMMA NewEntrySound ==
    ASSUME TypeOK, NEW c \in Callers, CallSound(c), pc[c] = "ledger_write"
    PROVE  /\ Entry(c).txn = req[c].id
           /\ Entry(c).txn \notin Paid
           /\ Entry(c).txn <= issued
           /\ Entry(c).vendor \in Vendors
           /\ Entry(c).begun >= 1
           /\ Entry(c).asOf \in Entry(c).begun..Len(rows[Entry(c).vendor])
           /\ rows[Entry(c).vendor][Entry(c).asOf]
                = [account |-> Entry(c).account, status |-> "ACTIVE"]
           /\ IsTrusted(Entry(c).sources)
           /\ Entry(c).amount <= MaxAmount /\ Entry(c).amount <= AutoLimit
           /\ Entry(c).seen \subseteq Paid
           /\ \A e \in ledger :
                e.vendor = Entry(c).vendor /\ e.invoice = Entry(c).invoice
                    => e.txn \notin Entry(c).seen
           /\ Serial => Entry(c).seen = Paid
<1> DEFINE v == req[c].vendor
           k == facts[c].asOf
<1>1. /\ req[c] \in Request /\ facts[c] \in PaymentFacts
      /\ Entry(c).txn = req[c].id /\ Entry(c).vendor = v /\ Entry(c).begun = req[c].begun
      /\ Entry(c).asOf = k /\ Entry(c).account = req[c].account.value
      /\ Entry(c).sources = req[c].account.sources
      /\ Entry(c).amount = facts[c].amount /\ Entry(c).seen = facts[c].seen
      /\ Entry(c).invoice = req[c].invoice
  BY DEF TypeOK, CallTypeOK, Entry
<1>2. /\ req[c].id <= issued
      /\ req[c].id \notin Paid
      /\ BegunOnRecord(c) /\ FactsBacked(c) /\ LedgerAsked(c)
      /\ PayAllowed(Context(c, FALSE))
  BY DEF CallSound, Unpaid, Active
<1>3. /\ facts[c].vendorStatus = "ACTIVE"
      /\ facts[c].amount <= MaxAmount
      /\ Trusted(req[c].account)
      /\ facts[c].accountMatches
      /\ ~facts[c].isDuplicate
      /\ ~(facts[c].amount > AutoLimit)
  BY <1>2, PermittedPayment DEF Context
<1>4. /\ v \in Vendors
      /\ k \in req[c].begun..Len(rows[v])
      /\ rows[v][k].status = "ACTIVE"
      /\ rows[v][k].account = req[c].account.value
      /\ req[c].begun \in 1..Len(rows[v])
  BY <1>2, <1>3 DEF FactsBacked, BegunOnRecord, Active
<1>5. rows[v][k] \in Row
  <2>1. rows[v] \in Seq(Row) /\ Len(rows[v]) \in Nat
    BY <1>4 DEF TypeOK
  <2> HIDE DEF v, k
  <2>2. k \in 1..Len(rows[v])
    BY <1>4, <2>1
  <2>3. QED
    BY <2>1, <2>2
<1>6. rows[v][k] = [account |-> req[c].account.value, status |-> "ACTIVE"]
  <2> HIDE DEF v, k
  <2> QED
    BY <1>4, <1>5 DEF Row
<1>7. Entry(c).amount <= AutoLimit
  <2>1. facts[c].amount \in Nat /\ AutoLimit \in Nat
    BY <1>1, AmountsAssumption, LimitsAssumption DEF PaymentFacts
  <2>2. QED
    BY <1>1, <1>3, <2>1
<1>8. req[c].begun >= 1
  BY <1>4
<1>9. IsTrusted(Entry(c).sources)
  BY <1>1, <1>3 DEF Trusted
<1>10. /\ facts[c].seen \subseteq Paid
       /\ \A e \in ledger :
            e.vendor = req[c].vendor /\ e.invoice = req[c].invoice
                => e.txn \notin facts[c].seen
       /\ Serial => facts[c].seen = Paid
  BY <1>2, <1>3 DEF LedgerAsked
<1> HIDE DEF v, k
<1>11. QED
  BY <1>1, <1>2, <1>3, <1>4, <1>6, <1>7, <1>8, <1>9, <1>10 DEF v, k

-----------------------------------------------------------------------------
(* The invariant is inductive *)

LEMMA InitIInv == Init => IInv
<1> SUFFICES ASSUME Init PROVE IInv
  OBVIOUS
<1>1. TypeOK
  BY InitTypeOK
<1>2. \A c \in Callers : CallSound(c)
  BY DEF Init, CallSound, Active, Unpaid, BegunOnRecord
<1>3. DistinctCalls
  BY DEF Init, DistinctCalls, Active
<1>4. LedgerSound /\ DestinationOnFile /\ DuplicateOnlyByRace /\ NoDuplicatePayment
  BY DEF Init, LedgerSound, DestinationOnFile, DuplicateOnlyByRace, NoDuplicatePayment
<1>5. QED
  BY <1>1, <1>2, <1>3, <1>4 DEF IInv

\* A step either leaves the ledger alone or adds the payment that some call
\* was about to make.
LEMMA LedgerStep ==
    ASSUME TypeOK, [Next]_vars
    PROVE  \/ ledger' = ledger
           \/ \E c \in Callers : /\ Proceed(c)
                               /\ pc[c] = "ledger_write"
                               /\ ledger' = ledger \cup {Entry(c)}
<1>1. CASE UNCHANGED vars
  BY <1>1 DEF vars
<1>2. ASSUME NEW v \in Vendors, LookupVendor(v) \/ PutVendor(v) PROVE ledger' = ledger
  BY <1>2 DEF LookupVendor, PutVendor
<1>3. ASSUME NEW c \in Callers, Call(c) PROVE ledger' = ledger
  BY <1>3 DEF Call, RefuseArgument, PayVendor, stores
<1>4. ASSUME NEW c \in Callers, Proceed(c)
      PROVE  ledger' = ledger \/ (pc[c] = "ledger_write" /\ ledger' = ledger \cup {Entry(c)})
  BY <1>4, ProceedFrame
<1>5. QED
  BY <1>1, <1>2, <1>3, <1>4 DEF Next

\* A new call has an identity of its own, and begins at the current version.
LEMMA BeginSound ==
    ASSUME IInv, [Next]_vars, NEW c \in Callers, NEW vendor \in values,
           NEW account \in OfType("ACCOUNT_NUMBER"), NEW amount \in OfType("MONEY_PAISE"),
           NEW invoice \in OfType("INVOICE_NUMBER"), NEW verified \in BOOLEAN,
           PayVendor(c, vendor, account, amount, invoice, verified)
    PROVE  DistinctCalls' /\ \A d \in Callers : CallSound(d)'
<1>1. /\ TypeOK
      /\ pc[c] = "idle"
      /\ pc'[c] = "vendors"
      /\ req'[c].id = issued + 1
      /\ req'[c].vendor \in Vendors => req'[c].begun = Len(rows[req'[c].vendor])
      /\ issued' = issued + 1
      /\ UNCHANGED <<rows, ledger, facts, verdict>>
      /\ \A d \in Callers : d # c => UNCHANGED <<pc[d], req[d]>>
  BY DEF IInv, PayVendor, TypeOK, stores
<1>2. issued \in Nat /\ issued' \in Nat
  BY <1>1, LimitsAssumption DEF TypeOK
<1>3. ASSUME NEW d \in Callers, d # c PROVE CallSound(d)'
  BY <1>1, <1>2, <1>3, BystanderSound DEF IInv
<1>4. CallSound(c)'
  <2>1. req'[c].id \notin Paid'
    <3>1. ASSUME NEW entry \in ledger PROVE entry.txn # issued + 1
      <4>1. entry.txn <= issued /\ entry.txn \in 1..MaxCalls
        BY <1>1 DEF IInv, LedgerSound, TypeOK, LedgerEntry
      <4>2. QED
        BY <1>2, <4>1
    <3>2. QED
      BY <1>1, <3>1 DEF Paid
  <2>2. req'[c].vendor \in Vendors => req'[c].begun \in 1..Len(rows'[req'[c].vendor])
    BY <1>1, CurrentIsRow
  <2>3. QED
    BY <1>1, <1>2, <2>1, <2>2 DEF CallSound, Unpaid, BegunOnRecord
<1>5. DistinctCalls'
  <2>1. ASSUME NEW d \in Callers, d # c, Active(d) PROVE req[d].id # issued + 1
    <3>1. req[d].id <= issued /\ req[d].id \in 1..MaxCalls
      BY <1>1, <2>1 DEF IInv, CallSound, Active, TypeOK, CallTypeOK, Request
    <3>2. QED
      BY <1>2, <3>1
  <2>2. QED
    BY <1>1, <2>1 DEF IInv, DistinctCalls, Active
<1>6. QED
  BY <1>3, <1>4, <1>5

\* What every call knows is kept by every step.
LEMMA StepCallsSound ==
    ASSUME IInv, TypeOK', [Next]_vars
    PROVE  DistinctCalls' /\ \A d \in Callers : CallSound(d)'
<1>1. TypeOK /\ issued \in Nat /\ issued' \in Nat
  BY LimitsAssumption DEF IInv, TypeOK
<1>2. CASE UNCHANGED <<pc, req, facts, verdict, ledger>> /\ issued <= issued'
  <2>1. ASSUME NEW d \in Callers PROVE CallSound(d)'
    BY <1>1, <1>2, BystanderSound DEF IInv
  <2>2. DistinctCalls'
    BY <1>2 DEF IInv, DistinctCalls, Active
  <2>3. QED
    BY <2>1, <2>2
<1>3. CASE UNCHANGED vars
  BY <1>1, <1>2, <1>3 DEF vars
<1>4. ASSUME NEW v \in Vendors, LookupVendor(v) \/ PutVendor(v)
      PROVE  DistinctCalls' /\ \A d \in Callers : CallSound(d)'
  BY <1>1, <1>2, <1>4 DEF LookupVendor, PutVendor
<1>5. ASSUME NEW c \in Callers, NEW k \in 1..Len(Slots),
             NEW argument \in values \cup {NotAHandle, NoSuchHandle},
             RefuseArgument(c, k, argument)
      PROVE  DistinctCalls' /\ \A d \in Callers : CallSound(d)'
  <2>1. UNCHANGED <<pc, req, facts, verdict, ledger>> /\ issued' = issued + 1
    BY <1>5 DEF RefuseArgument, stores
  <2>2. QED
    BY <1>1, <1>2, <2>1
<1>6. ASSUME NEW c \in Callers, Proceed(c)
      PROVE  DistinctCalls' /\ \A d \in Callers : CallSound(d)'
  <2>1. /\ CallSound(c)'
        /\ issued' = issued
        /\ Active(c)
        /\ \A d \in Callers : d # c => UNCHANGED <<pc[d], req[d], facts[d], verdict[d]>>
        /\ pc'[c] = "idle" \/ req'[c] = req[c]
    BY <1>1, <1>6, OwnStepSound, ProceedFrame DEF IInv
  <2>2. ASSUME NEW d \in Callers, d # c PROVE CallSound(d)'
    <3>1. CASE ledger' = ledger
      BY <1>1, <2>1, <2>2, <3>1, BystanderSound DEF IInv
    <3>2. CASE ledger' # ledger
      <4>1. pc[c] = "ledger_write" /\ ledger' = ledger \cup {Entry(c)}
        BY <1>1, <1>6, <3>2, ProceedFrame
      <4>2. Entry(c).txn = req[c].id /\ Entry(c).txn \notin Paid
        BY <1>1, <4>1, NewEntrySound DEF IInv
      <4>3. Active(d) => req[c].id # req[d].id
        BY <2>1, <2>2 DEF IInv, DistinctCalls
      <4>4. ~Serial
        BY <2>2 DEF Serial
      <4>5. QED
        BY <1>1, <2>1, <2>2, <4>1, <4>2, <4>3, <4>4, BystanderSound DEF IInv
    <3>3. QED
      BY <3>1, <3>2
  <2>3. DistinctCalls'
    BY <2>1 DEF IInv, DistinctCalls, Active
  <2>4. QED
    BY <2>1, <2>2, <2>3
<1>7. ASSUME NEW c \in Callers, Call(c)
      PROVE  DistinctCalls' /\ \A d \in Callers : CallSound(d)'
  BY <1>5, <1>7, BeginSound DEF Call
<1>8. QED
  BY <1>3, <1>4, <1>6, <1>7 DEF Next

\* Every payment in the ledger stays sound, the one just made among them.
LEMMA StepLedgerSound ==
    ASSUME IInv, TypeOK', [Next]_vars
    PROVE  LedgerSound' /\ DestinationOnFile'
<1>1. /\ TypeOK
      /\ issued \in Nat /\ issued' \in Nat
      /\ LedgerSound /\ DestinationOnFile
  BY LimitsAssumption DEF IInv, TypeOK
<1>2. issued <= issued'
  <2>1. CASE UNCHANGED issued
    BY <1>1, <2>1
  <2>2. CASE issued' = issued + 1
    BY <1>1, <2>2
  <2>3. ASSUME NEW c \in Callers, Proceed(c) PROVE UNCHANGED issued
    BY <1>1, <2>3, ProceedFrame
  <2>4. ASSUME NEW c \in Callers, Call(c) PROVE issued' = issued + 1
    BY <2>4 DEF Call, RefuseArgument, PayVendor
  <2>5. QED
    BY <2>1, <2>2, <2>3, <2>4 DEF Next, LookupVendor, PutVendor, vars
<1> DEFINE Sound(e) ==
        /\ e.txn <= issued
        /\ e.begun >= 1
        /\ e.seen \subseteq Paid
        /\ e.amount <= MaxAmount /\ e.amount <= AutoLimit
        /\ e.vendor \in Vendors
        /\ e.asOf \in e.begun..Len(rows[e.vendor])
        /\ rows[e.vendor][e.asOf] = [account |-> e.account, status |-> "ACTIVE"]
        /\ IsTrusted(e.sources)
<1>3. \A e \in ledger' : e \in ledger \/ Sound(e)
  <2>1. ASSUME NEW c \in Callers, pc[c] = "ledger_write" PROVE Sound(Entry(c))
    BY <1>1, <2>1, NewEntrySound DEF IInv
  <2> HIDE DEF Sound
  <2>2. QED
    BY <1>1, <2>1, LedgerStep
<1>4. \A e \in ledger : Sound(e)
  BY <1>1 DEF LedgerSound, DestinationOnFile
<1>5. Paid \subseteq Paid'
  BY <1>1, LedgerStep DEF Paid
<1>6. ASSUME NEW e \in LedgerEntry, Sound(e) PROVE Sound(e)'
  <2>1. e.txn \in Nat /\ e.begun \in Nat /\ e.asOf \in Nat
    BY DEF LedgerEntry
  <2>2. e.txn <= issued'
    BY <1>1, <1>2, <1>6, <2>1, LimitsAssumption
  <2>3. /\ Len(rows[e.vendor]) \in Nat /\ Len(rows'[e.vendor]) \in Nat
        /\ Len(rows[e.vendor]) <= Len(rows'[e.vendor])
        /\ \A k \in 1..Len(rows[e.vendor]) : rows'[e.vendor][k] = rows[e.vendor][k]
    BY <1>1, <1>6, RowsGrow
  <2>4. e.asOf \in e.begun..Len(rows'[e.vendor]) /\ e.asOf \in 1..Len(rows[e.vendor])
    BY <1>6, <2>1, <2>3
  <2>5. rows'[e.vendor][e.asOf] = rows[e.vendor][e.asOf]
    BY <2>3, <2>4
  <2>6. QED
    BY <1>5, <1>6, <2>2, <2>4, <2>5
<1>7. \A e \in ledger' : Sound(e)'
  <2> HIDE DEF Sound
  <2>1. \A e \in ledger' : e \in LedgerEntry
    BY DEF TypeOK
  <2>2. QED
    BY <1>3, <1>4, <1>6, <2>1
<1>8. QED
  BY <1>7 DEF LedgerSound, DestinationOnFile

\* Two payments of one invoice keep not having seen each other.
LEMMA StepDuplicate ==
    ASSUME IInv, [Next]_vars
    PROVE  DuplicateOnlyByRace' /\ (Serial => NoDuplicatePayment)'
<1>1. TypeOK /\ DuplicateOnlyByRace /\ LedgerSound /\ (Serial => NoDuplicatePayment)
  BY DEF IInv
<1>2. CASE ledger' = ledger
  BY <1>1, <1>2 DEF DuplicateOnlyByRace, NoDuplicatePayment, Serial
<1>3. ASSUME NEW c \in Callers, pc[c] = "ledger_write", ledger' = ledger \cup {Entry(c)}
      PROVE  DuplicateOnlyByRace' /\ (Serial => NoDuplicatePayment)'
  <2> DEFINE n == Entry(c)
  <2>1. /\ n.txn \notin Paid
        /\ n.seen \subseteq Paid
        /\ \A e \in ledger : e.vendor = n.vendor /\ e.invoice = n.invoice
                => e.txn \notin n.seen
        /\ Serial => n.seen = Paid
    BY <1>1, <1>3, NewEntrySound DEF IInv
  <2> HIDE DEF n
  <2>2. \A e \in ledger : n.txn \notin e.seen /\ e.txn \in Paid
    BY <1>1, <2>1 DEF LedgerSound, Paid
  <2>3. DuplicateOnlyByRace'
    <3> SUFFICES ASSUME NEW e \in ledger \cup {n}, NEW f \in ledger \cup {n}, e # f,
                        e.vendor = f.vendor, e.invoice = f.invoice
                 PROVE  e.txn \notin f.seen /\ f.txn \notin e.seen
      BY <1>3 DEF DuplicateOnlyByRace, n
    <3>1. CASE e \in ledger /\ f \in ledger
      BY <1>1, <3>1 DEF DuplicateOnlyByRace
    <3>2. CASE e = n \/ f = n
      BY <2>1, <2>2, <3>2
    <3>3. QED
      BY <3>1, <3>2
  <2>4. ASSUME Serial PROVE NoDuplicatePayment'
    <3> SUFFICES ASSUME NEW e \in ledger \cup {n}, NEW f \in ledger \cup {n},
                        e.vendor = f.vendor, e.invoice = f.invoice
                 PROVE  e = f
      BY <1>3 DEF NoDuplicatePayment, n
    <3>1. CASE e \in ledger /\ f \in ledger
      BY <1>1, <2>4, <3>1 DEF NoDuplicatePayment
    <3>2. CASE e = n \/ f = n
      BY <2>1, <2>2, <2>4, <3>2
    <3>3. QED
      BY <3>1, <3>2
  <2>5. QED
    BY <2>3, <2>4 DEF Serial
<1>4. QED
  BY <1>1, <1>2, <1>3, LedgerStep

\* IInv holds initially and every step keeps it.
THEOREM Invariance == Spec => []IInv
<1>1. IInv /\ [Next]_vars => IInv'
  <2> SUFFICES ASSUME IInv, [Next]_vars PROVE IInv'
    OBVIOUS
  <2>1. TypeOK'
    BY StepTypeOK DEF IInv
  <2>2. QED
    BY <2>1, StepCallsSound, StepLedgerSound, StepDuplicate DEF IInv
<1>2. QED
  BY InitIInv, <1>1, PTL DEF Spec

-----------------------------------------------------------------------------
(* The theorems *)

\* Money never goes anywhere but to the account that the vendor's record held,
\* as an active vendor, while the call ran, named by a value of the company's
\* own: pay_vendor, the facts it computes and pay.cedar together (G1).
THEOREM MoneyGoesWhereTheMasterSays == Spec => []DestinationOnFile
<1>1. IInv => DestinationOnFile
  BY DEF IInv
<1>2. QED
  BY <1>1, Invariance, PTL

\* However many threads call the enforcement point, an invoice is paid twice
\* only by two calls of which neither payment was there when the other asked
\* the ledger: has_invoice and record, with no lock between them.
THEOREM DuplicatesNeedARace == Spec => []DuplicateOnlyByRace
<1>1. IInv => DuplicateOnlyByRace
  BY DEF IInv
<1>2. QED
  BY <1>1, Invariance, PTL

\* With one caller at a time no invoice is paid twice, whatever the documents
\* say and whichever dependencies raise (G2).
THEOREM NoDuplicateWhenSerial == ASSUME Serial PROVE Spec => []NoDuplicatePayment
<1>1. IInv => NoDuplicatePayment
  BY DEF IInv
<1>2. QED
  BY <1>1, Invariance, PTL

-----------------------------------------------------------------------------
(* The enforcement point implements Payments *)

\* A payment as the abstract specification sees it.
Abstract(e) == [txn |-> e.txn, vendor |-> e.vendor, invoice |-> e.invoice,
                amount |-> e.amount, account |-> e.account, asOf |-> e.asOf]

\* Every step is a step of Payments or changes nothing Payments looks at.
LEMMA StepRefines ==
    ASSUME IInv, [Next]_vars
    PROVE  [Promise!Next]_(Promise!vars)
<1>1. TypeOK /\ \A c \in Callers : CallSound(c)
  BY DEF IInv
<1>2. ASSUME NEW v \in Vendors, PutVendor(v) PROVE Promise!ChangeMaster(v)
  BY <1>2 DEF PutVendor, Promise!ChangeMaster, Promise!Row, Row, Status, AbstractPaid
<1>3. CASE UNCHANGED rows /\ ledger' = ledger
  BY <1>3 DEF Promise!vars, AbstractPaid
<1>4. ASSUME NEW c \in Callers, Proceed(c), pc[c] = "ledger_write",
             ledger' = ledger \cup {Entry(c)}
      PROVE  Promise!Next
  <2> DEFINE n == Entry(c)
             p == Abstract(n)
  <2>1. n \in LedgerEntry
    BY <1>1, <1>4, EntryType
  <2>2. /\ n.txn \notin Paid
        /\ n.vendor \in Vendors
        /\ n.begun >= 1
        /\ n.asOf \in n.begun..Len(rows[n.vendor])
        /\ rows[n.vendor][n.asOf] = [account |-> n.account, status |-> "ACTIVE"]
        /\ n.amount <= MaxAmount /\ n.amount <= AutoLimit
        /\ \A e \in ledger : e.vendor = n.vendor /\ e.invoice = n.invoice
                => e.txn \notin n.seen
        /\ Serial => n.seen = Paid
    BY <1>1, <1>4, NewEntrySound
  <2>3. UNCHANGED rows
    BY <1>1, <1>4, ProceedFrame
  <2> HIDE DEF n
  <2>4. /\ p.txn = n.txn /\ p.vendor = n.vendor /\ p.invoice = n.invoice
        /\ p.amount = n.amount /\ p.account = n.account /\ p.asOf = n.asOf
    BY DEF Abstract
  <2>5. n.asOf \in 1..Len(rows[n.vendor])
    BY <1>1, <2>1, <2>2, CurrentIsRow DEF LedgerEntry
  <2>6. p \in [txn : 1..MaxCalls, vendor : Vendors, invoice : Invoices,
               amount : Amounts, account : Accounts,
               asOf : UNION {1..Len(rows[v]) : v \in Vendors}]
    BY <2>1, <2>2, <2>5 DEF Abstract, LedgerEntry
  <2>7. ASSUME NEW q \in AbstractPaid
        PROVE  /\ q.txn # p.txn
               /\ Serial => <<q.vendor, q.invoice>> # <<p.vendor, p.invoice>>
    <3>1. PICK e \in ledger : q = Abstract(e)
      BY DEF AbstractPaid, Abstract
    <3>2. q.txn = e.txn /\ q.vendor = e.vendor /\ q.invoice = e.invoice /\ e.txn \in Paid
      BY <3>1 DEF Abstract, Paid
    <3>3. QED
      BY <2>2, <2>4, <3>2
  <2>8. Promise!Permitted(p)
    BY <2>2, <2>4, <2>5, <2>7 DEF Promise!Permitted
  <2>9. AbstractPaid' = AbstractPaid \cup {p}
    BY <1>4 DEF AbstractPaid, Abstract, n
  <2> HIDE DEF p
  <2>10. Promise!Settle(p)
    BY <2>3, <2>8, <2>9 DEF Promise!Settle
  <2>11. QED
    BY <2>6, <2>10 DEF Promise!Next
<1>5. ledger' = ledger \/ \E c \in Callers :
          Proceed(c) /\ pc[c] = "ledger_write" /\ ledger' = ledger \cup {Entry(c)}
  BY <1>1, LedgerStep
<1>6. UNCHANGED rows \/ \E v \in Vendors : PutVendor(v)
  <2>1. ASSUME NEW c \in Callers, Proceed(c) PROVE UNCHANGED rows
    BY <1>1, <2>1, ProceedFrame
  <2>2. ASSUME NEW c \in Callers, Call(c) PROVE UNCHANGED rows
    BY <2>2 DEF Call, RefuseArgument, PayVendor, stores
  <2>3. QED
    BY <2>1, <2>2 DEF Next, LookupVendor, vars
<1>7. QED
  BY <1>2, <1>3, <1>4, <1>5, <1>6 DEF Promise!Next

\* Whatever the callers, the documents, the company and failing dependencies
\* do, the payments the enforcement point makes are payments that Payments
\* allows: on file, within the cap and the limit, one per call and, with one
\* caller at a time, one per invoice.
THEOREM EnforcementImplementsPayments == Spec => ImplementsPayments
<1>1. Init => Promise!Init
  BY DEF Init, Promise!Init, Promise!Row, Row, Status, AbstractPaid
<1>2. QED
  BY <1>1, StepRefines, Invariance, PTL DEF Spec, ImplementsPayments, Promise!Spec
=============================================================================
