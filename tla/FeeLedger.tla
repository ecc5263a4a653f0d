------------------------------ MODULE FeeLedger ------------------------------
(***************************************************************************)
(* Fee structures, invoices, adjustments, payments and refunds:            *)
(* src/src/modules/fees/fee.service.ts.                                    *)
(*                                                                         *)
(* The ledger of an invoice is append-only and the code only ever sums it, *)
(* so an invoice carries the four sums; payment rows stay visible because  *)
(* a refund names one.  Invoices are never deleted and payment rows never  *)
(* change, so where a handler's first read checks nothing but those, the   *)
(* read and the write that follows it are one step.                        *)
(***************************************************************************)
EXTENDS Integers, Requests

CONSTANTS
    Invoices,      \* ids of invoices
    Structures,    \* (program, academic year, category) keys of fee structures
    Payments,      \* ids of payment rows, refunds included
    Amounts,       \* amounts a request body may carry
    MaxAdjusted    \* bound: fines plus discounts on one invoice

\* z.coerce.number().int().min(1)
ASSUME FeeAssumption ==
    /\ Amounts \subseteq Nat \ {0}
    /\ "NONE" \notin Structures \cup Payments
    /\ Structures \cap Invoices = {}
    /\ MaxAdjusted \in Nat

VARIABLES
    structures,  \* fee structure rows that exist
    invoice,     \* invoice[i]: the invoice row with the sums of its ledger
    payment,     \* payment[p]: the payment row
    unannounced, \* history: invoices that became PAID with no webhook since
    repeated     \* history: invoices announced again without becoming PAID again

vars == <<mode, structures, invoice, payment, req, unannounced, repeated>>

InvoiceStatus == {"PENDING", "PARTIAL", "PAID", "OVERDUE", "WAIVED"}
NoRow         == [amount |-> 0]
InvoiceRow    ==
    [amount : Amounts, status : InvoiceStatus, structure : Structures \cup {"NONE"},
     pastDue : BOOLEAN, fines : Nat, discounts : Nat, paid : Nat, refunded : Nat]
\* original: the payment a refund refunds, "NONE" for a payment (isRefund = false)
PaymentRow    == [amount : Amounts, i : Invoices, original : Payments \cup {"NONE"}]

Request ==
    {Idle}
      \cup [pc : {"insertStructure", "countInvoices", "deleteStructure", "insertInvoice"},
            k : Structures]
      \cup [pc : {"pay"}, i : Invoices, amount : Amounts]
      \* recompute: paying is TRUE when recordPayment called it
      \cup [pc : {"recompute"}, i : Invoices, paying : BOOLEAN]
      \cup [pc : {"setStatus"}, i : Invoices, paying : BOOLEAN, status : InvoiceStatus]
      \cup [pc : {"webhook"}, i : Invoices]

Exists(i)   == invoice[i] # NoRow
Recorded(p) == payment[p] # NoRow

TypeOK ==
    /\ structures \subseteq Structures
    /\ invoice \in [Invoices -> InvoiceRow \cup {NoRow}]
    /\ payment \in [Payments -> PaymentRow \cup {NoRow}]
    /\ req \in [Reqs -> Request]
    /\ unannounced \subseteq Invoices
    /\ repeated \subseteq Invoices

Init ==
    /\ mode \in Modes
    /\ structures = {}
    /\ invoice = [i \in Invoices |-> NoRow]
    /\ payment = [p \in Payments |-> NoRow]
    /\ req = [r \in Reqs |-> Idle]
    /\ unannounced = {}
    /\ repeated = {}

-----------------------------------------------------------------------------
\* Request bookkeeping.

Touches(q) ==
    CASE req[q].pc \in {"insertStructure", "countInvoices", "deleteStructure", "insertInvoice"} ->
           {req[q].k}
      [] req[q].pc \in {"pay", "recompute", "setStatus", "webhook"} -> {req[q].i}
      [] OTHER -> {}

\* The code serialises nothing (MayOverlap); otherwise requests
\* on one row take turns.
MayStart(r, rows) ==
    /\ req[r] = Idle
    /\ MayOverlap \/ \A q \in Reqs : Touches(q) \cap rows = {}

\* The server stops, or a query fails: earlier queries of r stay committed.
Die(r) ==
    /\ Faults /\ req[r] # Idle
    /\ Done(r)
    /\ UNCHANGED <<structures, invoice, payment, unannounced, repeated>>

-----------------------------------------------------------------------------
\* Fee structures.

CreateFeeStructure(r, k) ==
    /\ MayStart(r, {k})
    /\ k \notin structures                              \* else DUPLICATE_STRUCTURE
    /\ Goto(r, [pc |-> "insertStructure", k |-> k])
    /\ UNCHANGED <<structures, invoice, payment, unannounced, repeated>>

\* The unique index makes a second insert fail: no second row.
StructureInsert(r) ==
    /\ At(r, "insertStructure")
    /\ structures' = structures \cup {req[r].k}
    /\ Done(r)
    /\ UNCHANGED <<invoice, payment, unannounced, repeated>>

DeleteFeeStructure(r, k) ==
    /\ MayStart(r, {k})
    /\ k \in structures                                 \* else 404
    /\ Goto(r, [pc |-> "countInvoices", k |-> k])
    /\ UNCHANGED <<structures, invoice, payment, unannounced, repeated>>

HasStructure(i, k) == Exists(i) /\ invoice[i].structure = k

Unused(k) == \A i \in Invoices : ~HasStructure(i, k)

CountInvoices(r) ==
    /\ At(r, "countInvoices")
    /\ IF Unused(req[r].k)
       THEN Goto(r, [pc |-> "deleteStructure", k |-> req[r].k])
       ELSE Done(r)                                     \* STRUCTURE_IN_USE
    /\ UNCHANGED <<structures, invoice, payment, unannounced, repeated>>

\* feeStructureId is optional, so its foreign key is ON DELETE SET NULL.
StructureDelete(r) ==
    /\ At(r, "deleteStructure")
    /\ structures' = structures \ {req[r].k}
    /\ invoice' = [i \in Invoices |->
                     IF HasStructure(i, req[r].k)
                     THEN [invoice[i] EXCEPT !.structure = "NONE"] ELSE invoice[i]]
    /\ Done(r)
    /\ UNCHANGED <<payment, unannounced, repeated>>

-----------------------------------------------------------------------------
\* Invoices.  The due date lies ahead or is already past when one is created.

NewInvoice(amount, k, past) ==
    [amount |-> amount, status |-> "PENDING", structure |-> k, pastDue |-> past,
     fines |-> 0, discounts |-> 0, paid |-> 0, refunded |-> 0]

CreateInvoice(r, i, amount, past) ==
    /\ MayStart(r, {})
    /\ ~Exists(i)
    /\ invoice' = [invoice EXCEPT ![i] = NewInvoice(amount, "NONE", past)]
    /\ UNCHANGED <<structures, payment, req, unannounced, repeated>>

CreateInvoiceFor(r, k) ==
    /\ MayStart(r, {k})
    /\ k \in structures                                 \* else 400
    /\ Goto(r, [pc |-> "insertInvoice", k |-> k])
    /\ UNCHANGED <<structures, invoice, payment, unannounced, repeated>>

\* The foreign key refuses a structure deleted since it was looked up.
InvoiceInsert(r, i, amount, past) ==
    /\ At(r, "insertInvoice")
    /\ ~Exists(i)
    /\ IF req[r].k \in structures
       THEN invoice' = [invoice EXCEPT ![i] = NewInvoice(amount, req[r].k, past)]
       ELSE UNCHANGED invoice
    /\ Done(r)
    /\ UNCHANGED <<structures, payment, unannounced, repeated>>

\* The clock reaches an invoice's due date; nothing rewrites the status.
DueDatePasses(i) ==
    /\ Exists(i) /\ ~invoice[i].pastDue
    /\ invoice' = [invoice EXCEPT ![i].pastDue = TRUE]
    /\ UNCHANGED <<structures, payment, req, unannounced, repeated>>

AddFine(r, i, a) ==
    /\ MayStart(r, {i})
    /\ Exists(i)                                        \* else 404
    /\ invoice[i].fines + invoice[i].discounts + a <= MaxAdjusted
    /\ invoice' = [invoice EXCEPT ![i].fines = @ + a]
    /\ Goto(r, [pc |-> "recompute", i |-> i, paying |-> FALSE])
    /\ UNCHANGED <<structures, payment, unannounced, repeated>>

\* A DISCOUNT or a SCHOLARSHIP: recomputeInvoiceStatus treats them alike.
AddDiscount(r, i, a) ==
    /\ MayStart(r, {i})
    /\ Exists(i)                                        \* else 404
    /\ invoice[i].fines + invoice[i].discounts + a <= MaxAdjusted
    /\ invoice' = [invoice EXCEPT ![i].discounts = @ + a]
    /\ Goto(r, [pc |-> "recompute", i |-> i, paying |-> FALSE])
    /\ UNCHANGED <<structures, payment, unannounced, repeated>>

WaiveInvoice(r, i) ==
    /\ MayStart(r, {i})
    /\ Exists(i)                                        \* else 404
    /\ invoice' = [invoice EXCEPT ![i].status = "WAIVED"]
    /\ UNCHANGED <<structures, payment, req, unannounced, repeated>>

-----------------------------------------------------------------------------
\* recordPayment: check the stored status, insert the payment, recompute.

Mutant_Payable(i) == Exists(i) /\ invoice[i].status # "WAIVED"
Payable(i) == Exists(i) /\ invoice[i].status \notin {"PAID", "WAIVED"}

RecordPayment(r, i, a) ==
    /\ MayStart(r, {i})
    /\ Payable(i)                                       \* else 404 or INVOICE_SETTLED
    /\ Goto(r, [pc |-> "pay", i |-> i, amount |-> a])
    /\ UNCHANGED <<structures, invoice, payment, unannounced, repeated>>

PaymentInsert(r, p) ==
    /\ At(r, "pay")
    /\ ~Recorded(p)
    /\ LET i == req[r].i  a == req[r].amount IN
         /\ payment' = [payment EXCEPT ![p] = [amount |-> a, i |-> i, original |-> "NONE"]]
         /\ invoice' = [invoice EXCEPT ![i].paid = @ + a]
         /\ Goto(r, [pc |-> "recompute", i |-> i, paying |-> TRUE])
    /\ UNCHANGED <<structures, unannounced, repeated>>

\* refundPayment: the amount is compared with the original payment alone,
\* not with what earlier refunds left of it.
Mutant_Refundable(p, a) == Recorded(p) /\ payment[p].original = "NONE"
Refundable(p, a) ==
    /\ Recorded(p)                                      \* else 404
    /\ payment[p].original = "NONE"                     \* else CANNOT_REFUND_A_REFUND
    /\ a <= payment[p].amount                           \* else 400

\* The refund would leave the invoice as it was.
Mutant_RefundPayment(r, p, refund, a) ==
    /\ Refundable(p, a)
    /\ ~Recorded(refund)
    /\ MayStart(r, {payment[p].i})
    /\ LET i == payment[p].i IN
         /\ payment' = [payment EXCEPT ![refund] = [amount |-> a, i |-> i, original |-> p]]
         /\ invoice' = [invoice EXCEPT ![i].refunded = @ + a]
    /\ UNCHANGED <<structures, req, unannounced, repeated>>

RefundPayment(r, p, refund, a) ==
    /\ Refundable(p, a)
    /\ ~Recorded(refund)
    /\ MayStart(r, {payment[p].i})
    /\ LET i == payment[p].i IN
         /\ payment' = [payment EXCEPT ![refund] = [amount |-> a, i |-> i, original |-> p]]
         /\ invoice' = [invoice EXCEPT ![i].refunded = @ + a]
         /\ Goto(r, [pc |-> "recompute", i |-> i, paying |-> FALSE])
    /\ UNCHANGED <<structures, unannounced, repeated>>

-----------------------------------------------------------------------------
\* recomputeInvoiceStatus.

MaxOf(a, b)  == IF a >= b THEN a ELSE b
Owed(row)    == MaxOf(0, row.amount + row.fines - row.discounts)
NetPaid(row) == row.paid - row.refunded
Settled(row) == Owed(row) = 0 \/ NetPaid(row) >= Owed(row)

LedgerStatus(row) ==
    CASE Settled(row) -> "PAID"
      [] ~Settled(row) /\ NetPaid(row) > 0 -> "PARTIAL"
      [] ~Settled(row) /\ NetPaid(row) <= 0 -> IF row.pastDue THEN "OVERDUE" ELSE "PENDING"

\* One query reads the invoice with its whole ledger.  WAIVED is left alone.
Mutant_Recompute(r) ==
    /\ At(r, "recompute")
    /\ Goto(r, [pc |-> "setStatus", i |-> req[r].i, paying |-> req[r].paying,
                status |-> LedgerStatus(invoice[req[r].i])])
    /\ UNCHANGED <<structures, invoice, payment, unannounced, repeated>>

Recompute(r) ==
    /\ At(r, "recompute")
    /\ LET row == invoice[req[r].i] IN
         IF row.status = "WAIVED"
         THEN Done(r)
         ELSE Goto(r, [pc |-> "setStatus", i |-> req[r].i, paying |-> req[r].paying,
                       status |-> LedgerStatus(row)])
    /\ UNCHANGED <<structures, invoice, payment, unannounced, repeated>>

\* The next query overwrites whatever status is there by now.
SetStatus(r) ==
    /\ At(r, "setStatus")
    /\ LET i == req[r].i  status == req[r].status IN
         /\ invoice' = [invoice EXCEPT ![i].status = status]
         /\ unannounced' = IF invoice[i].status # "PAID" /\ status = "PAID"
                           THEN unannounced \cup {i} ELSE unannounced
         /\ IF req[r].paying /\ status = "PAID"
            THEN Goto(r, [pc |-> "webhook", i |-> i])
            ELSE Done(r)
    /\ UNCHANGED <<structures, payment, repeated>>

\* triggerWebhooks(fee.invoice.paid), after the payment's audit row.
TriggerPaid(r) ==
    /\ At(r, "webhook")
    /\ LET i == req[r].i IN
         /\ repeated' = IF i \in unannounced THEN repeated ELSE repeated \cup {i}
         /\ unannounced' = unannounced \ {i}
    /\ Done(r)
    /\ UNCHANGED <<structures, invoice, payment>>

-----------------------------------------------------------------------------
Begin(r) ==
    \/ \E k \in Structures :
         CreateFeeStructure(r, k) \/ DeleteFeeStructure(r, k) \/ CreateInvoiceFor(r, k)
    \/ \E i \in Invoices :
         \/ WaiveInvoice(r, i)
         \/ \E a \in Amounts :
              \/ \E past \in BOOLEAN : CreateInvoice(r, i, a, past)
              \/ AddFine(r, i, a) \/ AddDiscount(r, i, a) \/ RecordPayment(r, i, a)
    \/ \E p, refund \in Payments, a \in Amounts : RefundPayment(r, p, refund, a)

Continue(r) ==
    \/ StructureInsert(r) \/ CountInvoices(r) \/ StructureDelete(r)
    \/ \E i \in Invoices, a \in Amounts, past \in BOOLEAN : InvoiceInsert(r, i, a, past)
    \/ \E p \in Payments : PaymentInsert(r, p)
    \/ Recompute(r) \/ SetStatus(r) \/ TriggerPaid(r)

Next ==
    /\ \/ \E r \in Reqs : Begin(r) \/ Continue(r) \/ Die(r)
       \/ \E i \in Invoices : DueDatePasses(i)
    /\ UNCHANGED mode

Spec == Init /\ [][Next]_vars

-----------------------------------------------------------------------------
\* Properties.

Untouched(i) == \A r \in Reqs : i \notin Touches(r)

\* The stored status is the one the ledger gives, once no request is at work on
\* the invoice: recomputeInvoiceStatus ran after the last write, if requests take
\* turns and none dies.  A date that passes turns PENDING into OVERDUE only at
\* the next write.
StatusMatchesLedger ==
    ~MayOverlap /\ ~Faults =>
      \A i \in Invoices :
        Exists(i) /\ Untouched(i) /\ invoice[i].status # "WAIVED" =>
          \/ invoice[i].status = LedgerStatus(invoice[i])
          \/ invoice[i].status = "PENDING" /\ LedgerStatus(invoice[i]) = "OVERDUE"

KeepsWaived(i) == Exists(i) /\ invoice[i].status = "WAIVED" => invoice'[i].status = "WAIVED"

\* As long as requests take turns, WAIVED is a sticky manual override: no
\* recompute takes it back.
WaivedIsSticky == [][~MayOverlap => \A i \in Invoices : KeepsWaived(i)]_vars

\* recordPayment accepts no payment for an invoice that is paid up or waived,
\* going by the ledger and not by the stored status, if requests take turns and
\* none dies.
NoPaymentOnceSettled ==
    [][~MayOverlap /\ ~Faults =>
         \A i \in Invoices :
           Exists(i) /\ invoice'[i].paid > invoice[i].paid =>
             invoice[i].status # "WAIVED" /\ ~Settled(invoice[i])]_vars

\* Without fines and refunds an invoice's debt only shrinks, so however many
\* recomputes overlap or die, PAID is never stored for an unsettled invoice.
PaidIsEarned ==
    \A i \in Invoices :
      Exists(i) /\ invoice[i].status = "PAID" /\ invoice[i].fines = 0 /\ invoice[i].refunded = 0 =>
        Settled(invoice[i])

\* Every refund is of a real payment of the same invoice, and no larger.
RefundsAreOfPayments ==
    \A p \in Payments :
      Recorded(p) /\ payment[p].original # "NONE" =>
        LET o == payment[payment[p].original] IN
          o # NoRow /\ o.original = "NONE" /\ o.i = payment[p].i /\ payment[p].amount <= o.amount

\* fee.invoice.paid is sent at most once each time an invoice becomes PAID, as
\* long as requests take turns.
AnnouncedOnce == ~MayOverlap => repeated = {}

\* deleteFeeStructure never takes the structure from an invoice billed by it, as
\* long as requests take turns.
InvoiceKeepsStructure ==
    [][~MayOverlap =>
         \A i \in Invoices :
           Exists(i) /\ invoice[i].structure # "NONE" =>
             invoice'[i].structure = invoice[i].structure]_vars

\* The ledger holds together: settled invoices are, refunds are of payments, and a
\* payment is announced once.
LedgerSound == TypeOK /\ PaidIsEarned /\ RefundsAreOfPayments /\ AnnouncedOnce

\* As long as requests take turns, a waiver stands and an invoice stays with the
\* structure it was billed by.
NothingTakenBack == WaivedIsSticky /\ InvoiceKeepsStructure

=============================================================================
