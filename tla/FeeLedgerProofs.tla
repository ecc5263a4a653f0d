--------------------------- MODULE FeeLedgerProofs ---------------------------
(***************************************************************************)
(* Proofs about FeeLedger, for any sets of requests, invoices, structures, *)
(* payments and amounts.                                                   *)
(***************************************************************************)
EXTENDS FeeLedger, TLAPS

\* A request at work on an invoice holds the id of one that exists, and so
\* does a payment row: invoices are never deleted.
InvoicesExist ==
    /\ \A q \in Reqs :
         req[q].pc \in {"pay", "recompute", "setStatus", "webhook"} => Exists(req[q].i)
    /\ \A p \in Payments : Recorded(p) => Exists(payment[p].i)

TypeInv == TypeOK /\ InvoicesExist

\* What a request holds at each pc, read off the Request union.
LEMMA RequestShape ==
  ASSUME NEW x \in Request
  PROVE  /\ x.pc \in {"insertStructure", "countInvoices", "deleteStructure", "insertInvoice"} =>
              x.k \in Structures
         /\ x.pc \in {"pay", "recompute", "setStatus", "webhook"} => x.i \in Invoices
         /\ x.pc = "pay" => x.amount \in Amounts
         /\ x.pc \in {"recompute", "setStatus"} => x.paying \in BOOLEAN
         /\ x.pc = "setStatus" => x.status \in InvoiceStatus
         /\ x.pc \in {"idle", "insertStructure", "countInvoices", "deleteStructure",
                      "insertInvoice", "pay", "recompute", "setStatus", "webhook"}
BY DEF Request, Idle

LEMMA RequestStep ==
  ASSUME TypeOK, NEW r \in Reqs, NEW x \in Request, Goto(r, x)
  PROVE  /\ req' \in [Reqs -> Request]
         /\ req'[r] = x
         /\ \A q \in Reqs \ {r} : req'[q] = req[q]
BY DEF TypeOK, Goto

LEMMA IdleStep ==
  ASSUME TypeOK, NEW r \in Reqs, Done(r)
  PROVE  /\ req' \in [Reqs -> Request]
         /\ req'[r] = Idle
         /\ \A q \in Reqs \ {r} : req'[q] = req[q]
BY RequestStep DEF Done, Request, Idle

\* The status the ledger gives is one of the five.
LEMMA LedgerStatusType ==
  ASSUME NEW row \in InvoiceRow
  PROVE  /\ LedgerStatus(row) \in {"PENDING", "PARTIAL", "PAID", "OVERDUE"}
         /\ LedgerStatus(row) = "PAID" <=> Settled(row)
<1>1. NetPaid(row) \in Int
  BY DEF NetPaid, InvoiceRow
<1>2. CASE Settled(row)
  BY <1>2 DEF LedgerStatus
<1>3. CASE ~Settled(row) /\ NetPaid(row) > 0
  BY <1>3 DEF LedgerStatus
<1>4. CASE ~Settled(row) /\ NetPaid(row) <= 0
  <2>1. ~(NetPaid(row) > 0)
    BY <1>1, <1>4
  <2>2. LedgerStatus(row) = IF row.pastDue THEN "OVERDUE" ELSE "PENDING"
    BY <1>4, <2>1 DEF LedgerStatus
  <2>3. QED BY <1>4, <2>2
<1>5. QED BY <1>1, <1>2, <1>3, <1>4

\* A fresh invoice owes all of its amount.
LEMMA NewInvoiceStatus ==
  ASSUME NEW a \in Amounts, NEW k \in Structures \cup {"NONE"}, NEW past \in BOOLEAN
  PROVE  /\ NewInvoice(a, k, past) \in InvoiceRow
         /\ NewInvoice(a, k, past) # NoRow
         /\ ~Settled(NewInvoice(a, k, past))
         /\ LedgerStatus(NewInvoice(a, k, past)) = IF past THEN "OVERDUE" ELSE "PENDING"
<1> DEFINE row == NewInvoice(a, k, past)
<1>1. a \in Nat /\ a > 0
  BY FeeAssumption
<1>2. row \in InvoiceRow /\ row # NoRow
  BY <1>1 DEF NewInvoice, InvoiceRow, NoRow, InvoiceStatus
<1>3. Owed(row) = a /\ NetPaid(row) = 0
  BY <1>1 DEF NewInvoice, Owed, NetPaid, MaxOf
<1>4. ~Settled(row)
  BY <1>1, <1>3 DEF Settled
<1>5. LedgerStatus(row) = IF row.pastDue THEN "OVERDUE" ELSE "PENDING"
  BY <1>3, <1>4 DEF LedgerStatus
<1>6. QED BY <1>2, <1>4, <1>5 DEF NewInvoice

\* Writing one column of an invoice row gives a row.
LEMMA RowUpdate ==
  ASSUME NEW row \in InvoiceRow, NEW n \in Nat
  PROVE  /\ row # NoRow
         /\ \A x \in InvoiceStatus : [row EXCEPT !.status = x] \in InvoiceRow
         /\ \A x \in Structures \cup {"NONE"} : [row EXCEPT !.structure = x] \in InvoiceRow
         /\ [row EXCEPT !.pastDue = TRUE] \in InvoiceRow
         /\ [row EXCEPT !.fines = @ + n] \in InvoiceRow
         /\ [row EXCEPT !.discounts = @ + n] \in InvoiceRow
         /\ [row EXCEPT !.paid = @ + n] \in InvoiceRow
         /\ [row EXCEPT !.refunded = @ + n] \in InvoiceRow
<1>1. row # NoRow
  BY FeeAssumption DEF InvoiceRow, NoRow
<1>2. row.fines \in Nat /\ row.discounts \in Nat /\ row.paid \in Nat /\ row.refunded \in Nat
  BY DEF InvoiceRow
<1>3. \A x \in InvoiceStatus : [row EXCEPT !.status = x] \in InvoiceRow
  BY DEF InvoiceRow
<1>4. \A x \in Structures \cup {"NONE"} : [row EXCEPT !.structure = x] \in InvoiceRow
  BY DEF InvoiceRow
<1>5. [row EXCEPT !.pastDue = TRUE] \in InvoiceRow
  BY DEF InvoiceRow
<1>6. \A x \in Nat : /\ [row EXCEPT !.fines = x] \in InvoiceRow
                     /\ [row EXCEPT !.discounts = x] \in InvoiceRow
                     /\ [row EXCEPT !.paid = x] \in InvoiceRow
                     /\ [row EXCEPT !.refunded = x] \in InvoiceRow
  BY DEF InvoiceRow
<1>7. row.fines + n \in Nat /\ row.discounts + n \in Nat /\ row.paid + n \in Nat /\ row.refunded + n \in Nat
  BY <1>2
<1>8. /\ [row EXCEPT !.fines = @ + n] \in InvoiceRow
      /\ [row EXCEPT !.discounts = @ + n] \in InvoiceRow
      /\ [row EXCEPT !.paid = @ + n] \in InvoiceRow
      /\ [row EXCEPT !.refunded = @ + n] \in InvoiceRow
  BY <1>6, <1>7
<1>9. QED BY <1>1, <1>3, <1>4, <1>5, <1>8

\* Replacing the row of an invoice by a row keeps the table typed, and no
\* invoice disappears.
LEMMA RowStep ==
  ASSUME TypeOK, NEW i \in Invoices, NEW row \in InvoiceRow,
         invoice' = [invoice EXCEPT ![i] = row]
  PROVE  /\ invoice' \in [Invoices -> InvoiceRow \cup {NoRow}]
         /\ \A j \in Invoices : Exists(j) => Exists(j)'
         /\ invoice'[i] = row
         /\ \A j \in Invoices \ {i} : invoice'[j] = invoice[j]
<1>1. invoice'[i] = row /\ \A j \in Invoices \ {i} : invoice'[j] = invoice[j]
  BY DEF TypeOK
<1>2. row # NoRow
  BY RowUpdate
<1>3. QED BY <1>1, <1>2 DEF TypeOK, Exists

-----------------------------------------------------------------------------
\* Type correctness.

\* Steps that change only the request, an existing invoice row, or neither.
LEMMA KeptInvoices ==
  ASSUME TypeInv, NEW r \in Reqs, UNCHANGED payment,
         \A i \in Invoices : Exists(i) => Exists(i)',
         \A q \in Reqs \ {r} : req'[q] = req[q],
         req'[r].pc \in {"pay", "recompute", "setStatus", "webhook"} => Exists(req[r].i)'
  PROVE  InvoicesExist'
<1>1. ASSUME NEW p \in Payments, Recorded(p)' PROVE Exists(payment[p].i)'
  <2>1. payment[p].i \in Invoices /\ Exists(payment[p].i)
    BY <1>1 DEF TypeInv, TypeOK, InvoicesExist, PaymentRow, Recorded
  <2>2. QED BY <2>1
<1>2. ASSUME NEW q \in Reqs, req'[q].pc \in {"pay", "recompute", "setStatus", "webhook"}
      PROVE  Exists(req[q].i)'
  <2>1. CASE q = r
    BY <1>2, <2>1
  <2>2. CASE q # r
    <3>1. req'[q] = req[q] /\ req[q] \in Request
      BY <2>2 DEF TypeInv, TypeOK
    <3>2. req[q].i \in Invoices /\ Exists(req[q].i)
      BY <1>2, <3>1, RequestShape DEF TypeInv, InvoicesExist
    <3>3. QED BY <3>1, <3>2
  <2>3. QED BY <2>1, <2>2
<1>3. QED BY <1>1, <1>2 DEF InvoicesExist, Recorded

LEMMA BeginTypeInv ==
  ASSUME TypeInv, NEW r \in Reqs, Begin(r)
  PROVE  TypeInv'
<1> USE DEF TypeInv
<1>1. ASSUME NEW k \in Structures, CreateFeeStructure(r, k) PROVE TypeInv'
  BY <1>1, RequestStep, KeptInvoices DEF CreateFeeStructure, Request, TypeOK, Exists
<1>2. ASSUME NEW k \in Structures, DeleteFeeStructure(r, k) PROVE TypeInv'
  BY <1>2, RequestStep, KeptInvoices DEF DeleteFeeStructure, Request, TypeOK, Exists
<1>3. ASSUME NEW k \in Structures, CreateInvoiceFor(r, k) PROVE TypeInv'
  BY <1>3, RequestStep, KeptInvoices DEF CreateInvoiceFor, Request, TypeOK, Exists
<1>4. ASSUME NEW i \in Invoices, WaiveInvoice(r, i) PROVE TypeInv'
  <2>1. invoice' \in [Invoices -> InvoiceRow \cup {NoRow}] /\ \A j \in Invoices : Exists(j) => Exists(j)'
    <3>1. invoice[i] \in InvoiceRow
      BY <1>4 DEF WaiveInvoice, Exists, TypeOK
    <3>2. QED BY <1>4, <3>1, RowUpdate, RowStep, FeeAssumption DEF WaiveInvoice, InvoiceStatus
  <2>2. QED BY <1>4, <2>1, KeptInvoices DEF WaiveInvoice, TypeOK, InvoicesExist, MayStart, Idle
<1>5. ASSUME NEW i \in Invoices, NEW a \in Amounts, NEW past \in BOOLEAN, CreateInvoice(r, i, a, past)
      PROVE  TypeInv'
  <2>1. invoice' \in [Invoices -> InvoiceRow \cup {NoRow}] /\ \A j \in Invoices : Exists(j) => Exists(j)'
    BY <1>5, NewInvoiceStatus DEF CreateInvoice, TypeOK, Exists
  <2>2. QED BY <1>5, <2>1, KeptInvoices DEF CreateInvoice, TypeOK, InvoicesExist, MayStart, Idle
<1>6. ASSUME NEW i \in Invoices, NEW a \in Amounts, AddFine(r, i, a) PROVE TypeInv'
  <2>1. invoice' \in [Invoices -> InvoiceRow \cup {NoRow}] /\ \A j \in Invoices : Exists(j) => Exists(j)'
    <3>1. invoice[i] \in InvoiceRow
      BY <1>6 DEF AddFine, Exists, TypeOK
    <3>2. [invoice[i] EXCEPT !.fines = @ + a] \in InvoiceRow
      BY <3>1, RowUpdate, FeeAssumption
    <3>3. QED BY <1>6, <3>2, RowStep DEF AddFine
  <2>2. req' \in [Reqs -> Request] /\ req'[r].i = i /\ \A q \in Reqs \ {r} : req'[q] = req[q]
    <3> DEFINE x == [pc |-> "recompute", i |-> i, paying |-> FALSE]
    <3>1. Goto(r, x)
      BY <1>6 DEF AddFine
    <3>2. x \in Request
      BY DEF Request
    <3>3. QED BY <3>1, <3>2, RequestStep
  <2>3. QED BY <1>6, <2>1, <2>2, KeptInvoices DEF AddFine, TypeOK
<1>7. ASSUME NEW i \in Invoices, NEW a \in Amounts, AddDiscount(r, i, a) PROVE TypeInv'
  <2>1. invoice' \in [Invoices -> InvoiceRow \cup {NoRow}] /\ \A j \in Invoices : Exists(j) => Exists(j)'
    <3>1. invoice[i] \in InvoiceRow
      BY <1>7 DEF AddDiscount, Exists, TypeOK
    <3>2. [invoice[i] EXCEPT !.discounts = @ + a] \in InvoiceRow
      BY <3>1, RowUpdate, FeeAssumption
    <3>3. QED BY <1>7, <3>2, RowStep DEF AddDiscount
  <2>2. req' \in [Reqs -> Request] /\ req'[r].i = i /\ \A q \in Reqs \ {r} : req'[q] = req[q]
    <3> DEFINE x == [pc |-> "recompute", i |-> i, paying |-> FALSE]
    <3>1. Goto(r, x)
      BY <1>7 DEF AddDiscount
    <3>2. x \in Request
      BY DEF Request
    <3>3. QED BY <3>1, <3>2, RequestStep
  <2>3. QED BY <1>7, <2>1, <2>2, KeptInvoices DEF AddDiscount, TypeOK
<1>8. ASSUME NEW i \in Invoices, NEW a \in Amounts, RecordPayment(r, i, a) PROVE TypeInv'
  <2>1. req' \in [Reqs -> Request] /\ req'[r].i = i /\ \A q \in Reqs \ {r} : req'[q] = req[q]
    BY <1>8, RequestStep DEF RecordPayment, Request
  <2>2. QED BY <1>8, <2>1, KeptInvoices DEF RecordPayment, Payable, TypeOK, Exists
<1>9. ASSUME NEW p \in Payments, NEW refund \in Payments, NEW a \in Amounts, RefundPayment(r, p, refund, a)
      PROVE  TypeInv'
  <2>1. payment[p] \in PaymentRow /\ payment[p].i \in Invoices /\ Exists(payment[p].i)
    BY <1>9 DEF RefundPayment, Refundable, Recorded, TypeOK, InvoicesExist, PaymentRow
  <2>2. invoice' \in [Invoices -> InvoiceRow \cup {NoRow}] /\ \A j \in Invoices : Exists(j) => Exists(j)'
    <3>1. invoice[payment[p].i] \in InvoiceRow
      BY <2>1 DEF Exists, TypeOK
    <3>2. [invoice[payment[p].i] EXCEPT !.refunded = @ + a] \in InvoiceRow
      BY <3>1, <2>1, RowUpdate, FeeAssumption
    <3>3. QED BY <1>9, <2>1, <3>2, RowStep DEF RefundPayment
  <2>3. req' \in [Reqs -> Request] /\ req'[r].i = payment[p].i /\ \A q \in Reqs \ {r} : req'[q] = req[q]
    <3> DEFINE x == [pc |-> "recompute", i |-> payment[p].i, paying |-> FALSE]
    <3>1. Goto(r, x)
      BY <1>9 DEF RefundPayment
    <3>2. x \in Request
      BY <2>1 DEF Request
    <3>3. QED BY <3>1, <3>2, RequestStep
  <2>4. payment' \in [Payments -> PaymentRow \cup {NoRow}]
    BY <1>9, <2>1 DEF RefundPayment, TypeOK, PaymentRow
  <2>5. ASSUME NEW x \in Payments, Recorded(x)' PROVE Exists(payment[x].i)'
    <3>1. CASE x = refund
      BY <1>9, <2>1, <2>2, <3>1 DEF RefundPayment, TypeOK
    <3>2. CASE x # refund
      <4>1. payment'[x] = payment[x] /\ payment[x].i \in Invoices /\ Exists(payment[x].i)
        BY <1>9, <2>5, <3>2 DEF RefundPayment, TypeOK, Recorded, InvoicesExist, PaymentRow
      <4>2. QED BY <4>1, <2>2
    <3>3. QED BY <3>1, <3>2
  <2>6. ASSUME NEW q \in Reqs, req'[q].pc \in {"pay", "recompute", "setStatus", "webhook"}
        PROVE  Exists(req[q].i)'
    <3>1. CASE q = r
      BY <2>1, <2>2, <2>3, <3>1
    <3>2. CASE q # r
      BY <2>2, <2>3, <2>6, <3>2, RequestShape DEF TypeOK, InvoicesExist
    <3>3. QED BY <3>1, <3>2
  <2>7. QED BY <1>9, <2>2, <2>3, <2>4, <2>5, <2>6 DEF RefundPayment, TypeOK, InvoicesExist
<1>10. QED BY <1>1, <1>2, <1>3, <1>4, <1>5, <1>6, <1>7, <1>8, <1>9 DEF Begin

LEMMA ContinueTypeInv ==
  ASSUME TypeInv, NEW r \in Reqs, Continue(r) \/ Die(r)
  PROVE  TypeInv'
<1> USE DEF TypeInv
<1> req[r] \in Request
  BY DEF TypeOK
<1>1. CASE StructureInsert(r)
  BY <1>1, IdleStep, KeptInvoices, RequestShape DEF StructureInsert, At, Idle, TypeOK, Exists
<1>2. CASE CountInvoices(r)
  <2>1. CASE Unused(req[r].k)
    BY <1>2, <2>1, RequestStep, KeptInvoices, RequestShape DEF CountInvoices, At, Request, TypeOK, Exists
  <2>2. CASE ~Unused(req[r].k)
    BY <1>2, <2>2, IdleStep, KeptInvoices DEF CountInvoices, Idle, TypeOK, Exists
  <2>3. QED BY <2>1, <2>2
<1>3. CASE StructureDelete(r)
  <2>1. invoice' \in [Invoices -> InvoiceRow \cup {NoRow}] /\ \A j \in Invoices : Exists(j) => Exists(j)'
    BY <1>3, RowUpdate DEF StructureDelete, HasStructure, TypeOK, Exists
  <2>2. QED BY <1>3, <2>1, IdleStep, KeptInvoices DEF StructureDelete, Idle, TypeOK
<1>4. ASSUME NEW i \in Invoices, NEW a \in Amounts, NEW past \in BOOLEAN, InvoiceInsert(r, i, a, past)
      PROVE  TypeInv'
  <2>1. invoice' \in [Invoices -> InvoiceRow \cup {NoRow}] /\ \A j \in Invoices : Exists(j) => Exists(j)'
    BY <1>4, NewInvoiceStatus, RequestShape DEF InvoiceInsert, At, TypeOK, Exists
  <2>2. QED BY <1>4, <2>1, IdleStep, KeptInvoices DEF InvoiceInsert, Idle, TypeOK
<1>5. ASSUME NEW p \in Payments, PaymentInsert(r, p) PROVE TypeInv'
  <2>1. req[r].i \in Invoices /\ Exists(req[r].i) /\ req[r].amount \in Amounts
    BY <1>5, RequestShape DEF PaymentInsert, At, InvoicesExist
  <2>2. invoice' \in [Invoices -> InvoiceRow \cup {NoRow}] /\ \A j \in Invoices : Exists(j) => Exists(j)'
    <3>1. invoice[req[r].i] \in InvoiceRow
      BY <2>1 DEF Exists, TypeOK
    <3>2. [invoice[req[r].i] EXCEPT !.paid = @ + req[r].amount] \in InvoiceRow
      BY <3>1, <2>1, RowUpdate, FeeAssumption
    <3>3. QED BY <1>5, <2>1, <3>2, RowStep DEF PaymentInsert
  <2>3. req' \in [Reqs -> Request] /\ req'[r].i = req[r].i /\ \A q \in Reqs \ {r} : req'[q] = req[q]
    <3> DEFINE x == [pc |-> "recompute", i |-> req[r].i, paying |-> TRUE]
    <3>1. Goto(r, x)
      BY <1>5 DEF PaymentInsert
    <3>2. x \in Request
      BY <2>1 DEF Request
    <3>3. QED BY <3>1, <3>2, RequestStep
  <2>4. payment' \in [Payments -> PaymentRow \cup {NoRow}]
    BY <1>5, <2>1 DEF PaymentInsert, TypeOK, PaymentRow
  <2>5. ASSUME NEW x \in Payments, Recorded(x)' PROVE Exists(payment[x].i)'
    <3>1. CASE x = p
      BY <1>5, <2>1, <2>2, <3>1 DEF PaymentInsert, TypeOK
    <3>2. CASE x # p
      <4>1. payment'[x] = payment[x] /\ payment[x].i \in Invoices /\ Exists(payment[x].i)
        BY <1>5, <2>5, <3>2 DEF PaymentInsert, TypeOK, Recorded, InvoicesExist, PaymentRow
      <4>2. QED BY <4>1, <2>2
    <3>3. QED BY <3>1, <3>2
  <2>6. ASSUME NEW q \in Reqs, req'[q].pc \in {"pay", "recompute", "setStatus", "webhook"}
        PROVE  Exists(req[q].i)'
    <3>1. CASE q = r
      BY <2>1, <2>2, <2>3, <3>1
    <3>2. CASE q # r
      BY <2>2, <2>3, <2>6, <3>2, RequestShape DEF TypeOK, InvoicesExist
    <3>3. QED BY <3>1, <3>2
  <2>7. QED BY <1>5, <2>2, <2>3, <2>4, <2>5, <2>6 DEF PaymentInsert, TypeOK, InvoicesExist
<1>6. CASE Recompute(r)
  <2>1. req[r].i \in Invoices /\ Exists(req[r].i) /\ req[r].paying \in BOOLEAN
    BY <1>6, RequestShape DEF Recompute, At, InvoicesExist
  <2>2. LedgerStatus(invoice[req[r].i]) \in InvoiceStatus
    BY <2>1, LedgerStatusType DEF TypeOK, Exists, InvoiceStatus
  <2>3. /\ req' \in [Reqs -> Request] /\ \A q \in Reqs \ {r} : req'[q] = req[q]
        /\ req'[r] = Idle \/ req'[r].i = req[r].i
    <3>1. CASE invoice[req[r].i].status = "WAIVED"
      BY <1>6, <3>1, IdleStep DEF Recompute
    <3>2. CASE invoice[req[r].i].status # "WAIVED"
      BY <1>6, <2>1, <2>2, <3>2, RequestStep DEF Recompute, Request
    <3>3. QED BY <3>1, <3>2
  <2>4. QED BY <1>6, <2>1, <2>3, KeptInvoices DEF Recompute, Idle, TypeOK, Exists
<1>7. CASE SetStatus(r)
  <2>1. req[r].i \in Invoices /\ Exists(req[r].i) /\ req[r].status \in InvoiceStatus
    BY <1>7, RequestShape DEF SetStatus, At, InvoicesExist
  <2>2. invoice' \in [Invoices -> InvoiceRow \cup {NoRow}] /\ \A j \in Invoices : Exists(j) => Exists(j)'
    <3>1. invoice[req[r].i] \in InvoiceRow
      BY <2>1 DEF Exists, TypeOK
    <3>2. QED BY <1>7, <2>1, <3>1, RowUpdate, RowStep DEF SetStatus
  <2>3. /\ req' \in [Reqs -> Request] /\ \A q \in Reqs \ {r} : req'[q] = req[q]
        /\ req'[r] = Idle \/ req'[r].i = req[r].i
    <3>1. CASE req[r].paying /\ req[r].status = "PAID"
      BY <1>7, <2>1, <3>1, RequestStep DEF SetStatus, Request
    <3>2. CASE ~(req[r].paying /\ req[r].status = "PAID")
      BY <1>7, <3>2, IdleStep DEF SetStatus
    <3>3. QED BY <3>1, <3>2
  <2>4. InvoicesExist'
    BY <1>7, <2>1, <2>2, <2>3, KeptInvoices DEF SetStatus, Idle
  <2>5. unannounced' \subseteq Invoices
    BY <1>7, <2>1 DEF SetStatus, TypeOK
  <2>6. QED BY <1>7, <2>2, <2>3, <2>4, <2>5 DEF SetStatus, TypeOK
<1>8. CASE TriggerPaid(r)
  <2>1. req[r].i \in Invoices
    BY <1>8, RequestShape DEF TriggerPaid, At
  <2>2. QED BY <1>8, <2>1, IdleStep, KeptInvoices DEF TriggerPaid, Idle, TypeOK, Exists
<1>9. CASE Die(r)
  BY <1>9, IdleStep, KeptInvoices DEF Die, Idle, TypeOK, Exists
<1>10. QED BY <1>1, <1>2, <1>3, <1>4, <1>5, <1>6, <1>7, <1>8, <1>9 DEF Continue

LEMMA InitTypeInv == Init => TypeInv
BY DEF Init, TypeInv, TypeOK, InvoicesExist, Recorded, Request, Idle

LEMMA NextTypeInv == TypeInv /\ [Next]_vars => TypeInv'
<1> SUFFICES ASSUME TypeInv, [Next]_vars PROVE TypeInv'
  OBVIOUS
<1>1. ASSUME NEW r \in Reqs, Begin(r) \/ Continue(r) \/ Die(r) PROVE TypeInv'
  BY <1>1, BeginTypeInv, ContinueTypeInv
<1>2. ASSUME NEW i \in Invoices, DueDatePasses(i) PROVE TypeInv'
  <2>1. invoice' \in [Invoices -> InvoiceRow \cup {NoRow}] /\ \A j \in Invoices : Exists(j) => Exists(j)'
    <3>1. invoice[i] \in InvoiceRow
      BY <1>2 DEF DueDatePasses, Exists, TypeInv, TypeOK
    <3>2. QED BY <1>2, <3>1, RowUpdate, RowStep DEF DueDatePasses, TypeInv
  <2>2. InvoicesExist'
    BY <1>2, <2>1, RequestShape
       DEF DueDatePasses, TypeInv, TypeOK, InvoicesExist, PaymentRow, Recorded
  <2>3. QED BY <1>2, <2>1, <2>2 DEF DueDatePasses, TypeInv, TypeOK
<1>3. CASE UNCHANGED vars
  BY <1>3 DEF vars, TypeInv, TypeOK, InvoicesExist, Exists, Recorded
<1>4. QED BY <1>1, <1>2, <1>3 DEF Next

\* Rows and requests stay well typed, and no request or payment points at an
\* invoice that does not exist, however requests overlap and die.
THEOREM TypeCorrect == Spec => [](TypeOK /\ InvoicesExist)
<1>1. TypeInv => TypeOK /\ InvoicesExist
  BY DEF TypeInv
<1>2. QED BY <1>1, InitTypeInv, NextTypeInv, PTL DEF Spec

-----------------------------------------------------------------------------
\* What a step may do to an invoice: the ledger only grows, and the status is
\* kept, waived or overwritten with the value a recompute held; only a payment
\* adds to what is paid, only a deletion takes the structure away.
Grows(old, new) ==
    /\ new.amount = old.amount
    /\ new.fines >= old.fines /\ new.discounts >= old.discounts
    /\ new.paid >= old.paid /\ new.refunded >= old.refunded

InvoiceStep(i) ==
    /\ Grows(invoice[i], invoice'[i])
    /\ \/ invoice'[i].status \in {invoice[i].status, "WAIVED"}
       \/ \E r \in Reqs : /\ At(r, "setStatus") /\ req[r].i = i
                          /\ invoice'[i].status = req[r].status
    /\ \/ invoice'[i].paid = invoice[i].paid
       \/ \E r \in Reqs : At(r, "pay") /\ req[r].i = i
    /\ \/ invoice'[i].structure = invoice[i].structure
       \/ \E r \in Reqs : At(r, "deleteStructure") /\ HasStructure(i, req[r].k)

LEMMA SameRow ==
  ASSUME TypeOK, NEW i \in Invoices, Exists(i), invoice'[i] = invoice[i]
  PROVE  InvoiceStep(i)
<1>1. invoice[i] \in InvoiceRow
  BY DEF TypeOK, Exists
<1>2. Grows(invoice[i], invoice'[i])
  BY <1>1, FeeAssumption DEF Grows, InvoiceRow
<1>3. QED BY <1>2 DEF InvoiceStep

\* One column of the row of i is written.
LEMMA ColumnStep ==
  ASSUME TypeOK, NEW i \in Invoices, Exists(i), NEW n \in Nat,
         \/ invoice' = [invoice EXCEPT ![i].fines = @ + n]
         \/ invoice' = [invoice EXCEPT ![i].discounts = @ + n]
         \/ \E r \in Reqs : /\ At(r, "pay") /\ req[r].i = i
                            /\ invoice' = [invoice EXCEPT ![i].paid = @ + n]
         \/ invoice' = [invoice EXCEPT ![i].refunded = @ + n]
         \/ invoice' = [invoice EXCEPT ![i].pastDue = TRUE]
         \/ invoice' = [invoice EXCEPT ![i].status = "WAIVED"]
         \/ \E r \in Reqs : /\ At(r, "setStatus") /\ req[r].i = i
                            /\ invoice' = [invoice EXCEPT ![i].status = req[r].status]
  PROVE  \A j \in Invoices : Exists(j) => InvoiceStep(j)
<1>1. \A j \in Invoices \ {i} : invoice'[j] = invoice[j]
  BY DEF TypeOK
<1>2. invoice[i] \in InvoiceRow /\ i \in DOMAIN invoice
  BY DEF TypeOK, Exists
<1>3. InvoiceStep(i)
  <2>1. /\ invoice[i].fines \in Nat /\ invoice[i].discounts \in Nat
        /\ invoice[i].paid \in Nat /\ invoice[i].refunded \in Nat
        /\ invoice[i].amount \in Nat
    BY <1>2, FeeAssumption DEF InvoiceRow
  <2>2. CASE invoice' = [invoice EXCEPT ![i].fines = @ + n]
    <3>1. invoice'[i] = [invoice[i] EXCEPT !.fines = @ + n] BY <1>2, <2>2
    <3>2. QED BY <1>2, <2>1, <3>1 DEF InvoiceStep, Grows, InvoiceRow
  <2>3. CASE invoice' = [invoice EXCEPT ![i].discounts = @ + n]
    <3>1. invoice'[i] = [invoice[i] EXCEPT !.discounts = @ + n] BY <1>2, <2>3
    <3>2. QED BY <1>2, <2>1, <3>1 DEF InvoiceStep, Grows, InvoiceRow
  <2>4. ASSUME NEW r \in Reqs, At(r, "pay"), req[r].i = i,
               invoice' = [invoice EXCEPT ![i].paid = @ + n]
        PROVE  InvoiceStep(i)
    <3>1. invoice'[i] = [invoice[i] EXCEPT !.paid = @ + n] BY <1>2, <2>4
    <3>2. QED BY <1>2, <2>1, <3>1 DEF InvoiceStep, Grows, InvoiceRow
  <2>5. CASE invoice' = [invoice EXCEPT ![i].refunded = @ + n]
    <3>1. invoice'[i] = [invoice[i] EXCEPT !.refunded = @ + n] BY <1>2, <2>5
    <3>2. QED BY <1>2, <2>1, <3>1 DEF InvoiceStep, Grows, InvoiceRow
  <2>6. CASE invoice' = [invoice EXCEPT ![i].pastDue = TRUE]
    <3>1. invoice'[i] = [invoice[i] EXCEPT !.pastDue = TRUE] BY <1>2, <2>6
    <3>2. QED BY <1>2, <2>1, <3>1 DEF InvoiceStep, Grows, InvoiceRow
  <2>7. CASE invoice' = [invoice EXCEPT ![i].status = "WAIVED"]
    <3>1. invoice'[i] = [invoice[i] EXCEPT !.status = "WAIVED"] BY <1>2, <2>7
    <3>2. QED BY <1>2, <2>1, <3>1 DEF InvoiceStep, Grows, InvoiceRow
  <2>8. ASSUME NEW r \in Reqs, At(r, "setStatus"), req[r].i = i,
               invoice' = [invoice EXCEPT ![i].status = req[r].status]
        PROVE  InvoiceStep(i)
    <3>1. invoice'[i] = [invoice[i] EXCEPT !.status = req[r].status] BY <1>2, <2>8
    <3>2. QED BY <1>2, <2>1, <2>8, <3>1 DEF InvoiceStep, Grows, InvoiceRow
  <2>9. QED BY <2>2, <2>3, <2>4, <2>5, <2>6, <2>7, <2>8
<1>4. QED BY <1>1, <1>3, SameRow

\* An invoice row that appears is a new one.
Fresh(i) ==
    \E a \in Amounts, k \in Structures \cup {"NONE"}, past \in BOOLEAN :
       invoice'[i] = NewInvoice(a, k, past)

LEMMA InvoiceSteps ==
  ASSUME TypeInv, [Next]_vars, NEW i \in Invoices
  PROVE  /\ Exists(i) => InvoiceStep(i)
         /\ ~Exists(i) => invoice'[i] = NoRow \/ Fresh(i)
<1> USE DEF TypeInv
<1> DEFINE Goal == /\ Exists(i) => InvoiceStep(i)
                   /\ ~Exists(i) => invoice'[i] = NoRow \/ Fresh(i)
<1>1. CASE UNCHANGED invoice
  BY <1>1, SameRow DEF Exists
<1>2. ASSUME NEW r \in Reqs, NEW j \in Invoices, WaiveInvoice(r, j) PROVE Goal
  <2>1. \A l \in Invoices : Exists(l) => InvoiceStep(l)
    BY <1>2, ColumnStep DEF WaiveInvoice
  <2>2. QED BY <1>2, <2>1 DEF WaiveInvoice, Exists, TypeOK
<1>3. ASSUME NEW r \in Reqs, NEW j \in Invoices, NEW a \in Amounts, NEW past \in BOOLEAN,
             CreateInvoice(r, j, a, past)
      PROVE  Goal
  BY <1>3, SameRow DEF CreateInvoice, Exists, TypeOK, Fresh
<1>4. ASSUME NEW r \in Reqs, NEW j \in Invoices, NEW a \in Amounts, AddFine(r, j, a) PROVE Goal
  <2>1. \A l \in Invoices : Exists(l) => InvoiceStep(l)
    BY <1>4, ColumnStep, FeeAssumption DEF AddFine
  <2>2. QED BY <1>4, <2>1 DEF AddFine, Exists, TypeOK
<1>5. ASSUME NEW r \in Reqs, NEW j \in Invoices, NEW a \in Amounts, AddDiscount(r, j, a) PROVE Goal
  <2>1. \A l \in Invoices : Exists(l) => InvoiceStep(l)
    BY <1>5, ColumnStep, FeeAssumption DEF AddDiscount
  <2>2. QED BY <1>5, <2>1 DEF AddDiscount, Exists, TypeOK
<1>6. ASSUME NEW r \in Reqs, NEW p \in Payments, NEW refund \in Payments, NEW a \in Amounts,
             RefundPayment(r, p, refund, a)
      PROVE  Goal
  <2>1. payment[p].i \in Invoices /\ Exists(payment[p].i)
    BY <1>6 DEF RefundPayment, Refundable, Recorded, TypeOK, InvoicesExist, PaymentRow
  <2>2. invoice' = [invoice EXCEPT ![payment[p].i].refunded = @ + a]
    BY <1>6 DEF RefundPayment
  <2>3. \A l \in Invoices : Exists(l) => InvoiceStep(l)
    BY <2>1, <2>2, ColumnStep, FeeAssumption
  <2>4. QED BY <2>1, <2>2, <2>3 DEF Exists, TypeOK
<1>7. ASSUME NEW r \in Reqs, StructureDelete(r) PROVE Goal
  <2>1. CASE HasStructure(i, req[r].k)
    <3>1. invoice'[i] = [invoice[i] EXCEPT !.structure = "NONE"] /\ invoice[i] \in InvoiceRow
      BY <1>7, <2>1 DEF StructureDelete, HasStructure, Exists, TypeOK
    <3>2. Grows(invoice[i], invoice'[i]) /\ UNCHANGED <<invoice[i].status, invoice[i].paid>>
      BY <3>1, FeeAssumption DEF Grows, InvoiceRow
    <3>3. QED BY <1>7, <2>1, <3>2 DEF StructureDelete, InvoiceStep, HasStructure
  <2>2. CASE ~HasStructure(i, req[r].k)
    BY <1>7, <2>2, SameRow DEF StructureDelete, Exists
  <2>3. QED BY <2>1, <2>2
<1>8. ASSUME NEW r \in Reqs, NEW j \in Invoices, NEW a \in Amounts, NEW past \in BOOLEAN,
             InvoiceInsert(r, j, a, past)
      PROVE  Goal
  <2>1. CASE req[r].k \in structures
    BY <1>8, <2>1, SameRow DEF InvoiceInsert, Exists, TypeOK, Fresh
  <2>2. CASE req[r].k \notin structures
    BY <1>8, <2>2, <1>1 DEF InvoiceInsert
  <2>3. QED BY <2>1, <2>2
<1>9. ASSUME NEW r \in Reqs, NEW p \in Payments, PaymentInsert(r, p) PROVE Goal
  <2>1. req[r].i \in Invoices /\ Exists(req[r].i) /\ req[r].amount \in Amounts
    BY <1>9, RequestShape DEF PaymentInsert, At, InvoicesExist, TypeOK
  <2>2. invoice' = [invoice EXCEPT ![req[r].i].paid = @ + req[r].amount] /\ At(r, "pay")
    BY <1>9 DEF PaymentInsert
  <2>3. \A l \in Invoices : Exists(l) => InvoiceStep(l)
    BY <2>1, <2>2, ColumnStep, FeeAssumption
  <2>4. QED BY <2>1, <2>2, <2>3 DEF Exists, TypeOK
<1>10. ASSUME NEW r \in Reqs, SetStatus(r) PROVE Goal
  <2>1. req[r].i \in Invoices /\ Exists(req[r].i) /\ At(r, "setStatus")
    BY <1>10, RequestShape DEF SetStatus, At, InvoicesExist, TypeOK
  <2>2. invoice' = [invoice EXCEPT ![req[r].i].status = req[r].status]
    BY <1>10 DEF SetStatus
  <2>3. \A l \in Invoices : Exists(l) => InvoiceStep(l)
    BY <2>1, <2>2, ColumnStep
  <2>4. QED BY <2>1, <2>2, <2>3 DEF Exists, TypeOK
<1>11. ASSUME NEW j \in Invoices, DueDatePasses(j) PROVE Goal
  <2>1. \A l \in Invoices : Exists(l) => InvoiceStep(l)
    BY <1>11, ColumnStep DEF DueDatePasses
  <2>2. QED BY <1>11, <2>1 DEF DueDatePasses, Exists, TypeOK
<1>12. QED
  BY <1>1, <1>2, <1>3, <1>4, <1>5, <1>6, <1>7, <1>8, <1>9, <1>10, <1>11
  DEF Next, vars, Begin, Continue, Die, CreateFeeStructure, DeleteFeeStructure, CreateInvoiceFor,
      RecordPayment, StructureInsert, CountInvoices, Recompute, TriggerPaid

-----------------------------------------------------------------------------
\* PaidIsEarned.

\* Storing status x in this row would not overstate what has been paid.
Earned(row, x) == x = "PAID" /\ row.fines = 0 /\ row.refunded = 0 => Settled(row)

EarnedInv ==
    /\ TypeInv
    /\ \A i \in Invoices : Exists(i) => Earned(invoice[i], invoice[i].status)
    /\ \A q \in Reqs : req[q].pc = "setStatus" => Earned(invoice[req[q].i], req[q].status)

\* A debt that only shrinks stays settled.
LEMMA EarnedGrows ==
  ASSUME NEW old \in InvoiceRow, NEW new \in InvoiceRow, Grows(old, new), NEW x, Earned(old, x)
  PROVE  Earned(new, x)
<1>1. SUFFICES ASSUME x = "PAID", new.fines = 0, new.refunded = 0 PROVE Settled(new)
  BY DEF Earned
<1>2. /\ old.amount \in Nat /\ old.fines \in Nat /\ old.discounts \in Nat
      /\ old.paid \in Nat /\ old.refunded \in Nat
      /\ new.discounts \in Nat /\ new.paid \in Nat
  BY FeeAssumption DEF InvoiceRow
<1>3. old.fines = 0 /\ old.refunded = 0
  BY <1>1, <1>2 DEF Grows
<1>4. Settled(old)
  BY <1>1, <1>3 DEF Earned
<1>5. /\ NetPaid(old) = old.paid /\ NetPaid(new) = new.paid
      /\ Owed(old) = MaxOf(0, old.amount - old.discounts)
      /\ Owed(new) = MaxOf(0, old.amount - new.discounts)
  BY <1>1, <1>2, <1>3 DEF NetPaid, Owed, Grows
<1>6. Owed(new) <= Owed(old) /\ Owed(new) >= 0 /\ Owed(old) \in Int /\ Owed(new) \in Int
  BY <1>2, <1>5 DEF MaxOf, Grows
<1>7. QED BY <1>2, <1>4, <1>5, <1>6 DEF Settled, Grows

\* A request about to write a status either still holds it or has just read it
\* off the ledger.
LEMMA StatusRead ==
  ASSUME TypeInv, [Next]_vars, NEW q \in Reqs, req'[q].pc = "setStatus"
  PROVE  \/ req'[q] = req[q]
         \/ /\ At(q, "recompute") /\ UNCHANGED invoice
            /\ req[q].i \in Invoices /\ req'[q].i = req[q].i /\ req'[q].paying = req[q].paying
            /\ invoice[req[q].i].status # "WAIVED"
            /\ req'[q].status = LedgerStatus(invoice[req[q].i])
<1> USE DEF TypeInv, TypeOK
<1>1. CASE UNCHANGED req
  BY <1>1
<1>2. ASSUME NEW r \in Reqs, Begin(r) PROVE req'[q] = req[q]
  <2> DEFINE P == UNCHANGED req \/ \E x : Goto(r, x) /\ x.pc # "setStatus"
  <2>1. P
    <3>1. ASSUME NEW k \in Structures, CreateFeeStructure(r, k) \/ DeleteFeeStructure(r, k) \/ CreateInvoiceFor(r, k)
          PROVE  P
      BY <3>1 DEF CreateFeeStructure, DeleteFeeStructure, CreateInvoiceFor
    <3>2. ASSUME NEW i \in Invoices, WaiveInvoice(r, i) PROVE P
      BY <3>2 DEF WaiveInvoice
    <3>3. ASSUME NEW i \in Invoices, NEW a \in Amounts, NEW past \in BOOLEAN, CreateInvoice(r, i, a, past) PROVE P
      BY <3>3 DEF CreateInvoice
    <3>4. ASSUME NEW i \in Invoices, NEW a \in Amounts, AddFine(r, i, a) PROVE P
      BY <3>4 DEF AddFine
    <3>5. ASSUME NEW i \in Invoices, NEW a \in Amounts, AddDiscount(r, i, a) PROVE P
      BY <3>5 DEF AddDiscount
    <3>6. ASSUME NEW i \in Invoices, NEW a \in Amounts, RecordPayment(r, i, a) PROVE P
      BY <3>6 DEF RecordPayment
    <3>7. ASSUME NEW p \in Payments, NEW refund \in Payments, NEW a \in Amounts, RefundPayment(r, p, refund, a) PROVE P
      BY <3>7 DEF RefundPayment
    <3>8. QED BY <1>2, <3>1, <3>2, <3>3, <3>4, <3>5, <3>6, <3>7 DEF Begin
  <2>2. QED BY <2>1 DEF Goto
<1>3. ASSUME NEW r \in Reqs, Recompute(r) PROVE \/ req'[q] = req[q]
                                               \/ /\ At(q, "recompute") /\ UNCHANGED invoice
                                                  /\ req[q].i \in Invoices /\ req'[q].i = req[q].i
                                                  /\ req'[q].paying = req[q].paying
                                                  /\ invoice[req[q].i].status # "WAIVED"
                                                  /\ req'[q].status = LedgerStatus(invoice[req[q].i])
  <2>1. CASE invoice[req[r].i].status = "WAIVED"
    BY <1>3, <2>1 DEF Recompute, Done, Goto, Idle
  <2>2. CASE invoice[req[r].i].status # "WAIVED"
    <3>1. req[r].i \in Invoices
      BY <1>3, RequestShape DEF Recompute, At
    <3>2. req' = [req EXCEPT ![r] = [pc |-> "setStatus", i |-> req[r].i, paying |-> req[r].paying,
                                     status |-> LedgerStatus(invoice[req[r].i])]]
      BY <1>3, <2>2 DEF Recompute, Goto
    <3>3. CASE q = r
      BY <1>3, <2>2, <3>1, <3>2, <3>3 DEF Recompute
    <3>4. CASE q # r
      BY <3>2, <3>4
    <3>5. QED BY <3>3, <3>4
  <2>3. QED BY <2>1, <2>2
<1>4. ASSUME NEW r \in Reqs, Continue(r) \/ Die(r), ~Recompute(r) PROVE req'[q] = req[q]
  <2>1. \E x : Goto(r, x) /\ x.pc # "setStatus"
    BY <1>4
    DEF Continue, StructureInsert, CountInvoices, StructureDelete, InvoiceInsert, PaymentInsert,
        SetStatus, TriggerPaid, Die, Done, Idle
  <2>2. QED BY <2>1 DEF Goto
<1>5. ASSUME NEW j \in Invoices, DueDatePasses(j) PROVE req'[q] = req[q]
  BY <1>5 DEF DueDatePasses
<1>6. QED BY <1>1, <1>2, <1>3, <1>4, <1>5 DEF Next, vars

LEMMA NextEarnedInv == EarnedInv /\ [Next]_vars => EarnedInv'
<1> SUFFICES ASSUME EarnedInv, [Next]_vars PROVE EarnedInv'
  OBVIOUS
<1>1. TypeInv /\ TypeInv'
  BY NextTypeInv DEF EarnedInv
<1>2. ASSUME NEW i \in Invoices, Exists(i)' PROVE Earned(invoice'[i], invoice'[i].status)
  <2>1. CASE Exists(i)
    <3>1. invoice[i] \in InvoiceRow /\ invoice'[i] \in InvoiceRow
      BY <1>1, <1>2, <2>1 DEF TypeInv, TypeOK, Exists
    <3>2. InvoiceStep(i)
      BY <1>1, <2>1, InvoiceSteps
    <3>3. Earned(invoice[i], invoice'[i].status)
      BY <2>1, <3>2 DEF InvoiceStep, EarnedInv, At, Earned
    <3>4. QED BY <3>1, <3>2, <3>3, EarnedGrows DEF InvoiceStep
  <2>2. CASE ~Exists(i)
    <3>1. Fresh(i)
      BY <1>1, <1>2, <2>2, InvoiceSteps DEF Exists
    <3>2. invoice'[i].status = "PENDING"
      BY <3>1 DEF Fresh, NewInvoice
    <3>3. QED BY <3>2 DEF Earned
  <2>3. QED BY <2>1, <2>2
<1>3. ASSUME NEW q \in Reqs, req'[q].pc = "setStatus"
      PROVE  Earned(invoice'[req'[q].i], req'[q].status)
  <2>1. CASE req'[q] = req[q]
    <3>1. req[q].i \in Invoices /\ Exists(req[q].i)
      BY <1>1, <1>3, <2>1, RequestShape DEF TypeInv, TypeOK, InvoicesExist
    <3>2. InvoiceStep(req[q].i)
      BY <1>1, <3>1, InvoiceSteps
    <3>3. invoice[req[q].i] \in InvoiceRow /\ invoice'[req[q].i] \in InvoiceRow
      <4>1. Exists(req[q].i)'
        BY <1>1, <1>3, <2>1 DEF TypeInv, InvoicesExist, Exists
      <4>2. invoice'[req[q].i] # NoRow
        BY <4>1, <2>1 DEF Exists
      <4>3. QED BY <1>1, <3>1, <4>2 DEF TypeInv, TypeOK, Exists
    <3>4. Earned(invoice[req[q].i], req[q].status)
      BY <1>3, <2>1 DEF EarnedInv
    <3>5. QED BY <2>1, <3>2, <3>3, <3>4, EarnedGrows DEF InvoiceStep
  <2>2. CASE req'[q] # req[q]
    <3>1. /\ At(q, "recompute") /\ req[q].i \in Invoices /\ req'[q].i = req[q].i
          /\ req'[q].status = LedgerStatus(invoice[req[q].i]) /\ UNCHANGED invoice
      BY <1>1, <1>3, <2>2, StatusRead
    <3>2. invoice[req[q].i] \in InvoiceRow
      BY <1>1, <3>1 DEF At, TypeInv, TypeOK, InvoicesExist, Exists
    <3>3. QED BY <3>1, <3>2, LedgerStatusType DEF Earned
  <2>3. QED BY <2>1, <2>2
<1>4. QED BY <1>1, <1>2, <1>3 DEF EarnedInv

\* Without fines and refunds PAID is never stored for an unsettled invoice,
\* however many recomputes overlap or die: a stale status understates only.
THEOREM PaidEarned == Spec => []PaidIsEarned
<1>1. Init => EarnedInv
  BY InitTypeInv DEF Init, EarnedInv, Exists, Idle
<1>2. EarnedInv => PaidIsEarned
  BY DEF EarnedInv, PaidIsEarned, Earned
<1>3. QED BY <1>1, <1>2, NextEarnedInv, PTL DEF Spec

-----------------------------------------------------------------------------
\* Requests that take turns.

\* The status x is the one the ledger of this row gives, up to a due date that
\* has passed since.
Agrees(x, row) ==
    x = LedgerStatus(row) \/ (x = "PENDING" /\ LedgerStatus(row) = "OVERDUE")

Matches(i) ==
    Exists(i) /\ invoice[i].status # "WAIVED" => Agrees(invoice[i].status, invoice[i])

\* Requests own disjoint sets of rows,
Exclusive == \A p, q \in Reqs : p # q => Touches(p) \cap Touches(q) = {}

\* so what request q checked and read is still true when it writes.
Held(q) ==
    LET row == invoice[req[q].i] IN
      /\ req[q].pc = "deleteStructure" => Unused(req[q].k)
      /\ req[q].pc = "pay" => row.status \notin {"PAID", "WAIVED"}
      /\ req[q].pc = "pay" /\ ~Faults => Agrees(row.status, row)
      /\ req[q].pc = "recompute" /\ req[q].paying => row.status \notin {"PAID", "WAIVED"}
      /\ req[q].pc = "setStatus" =>
           /\ row.status # "WAIVED"
           /\ req[q].paying => row.status # "PAID"
           /\ Agrees(req[q].status, row)
      /\ req[q].pc = "webhook" => req[q].i \in unannounced /\ Agrees(row.status, row)

\* No event has been repeated so far.
NoneRepeated == repeated = {}

SerialInv ==
    /\ TypeInv
    /\ Exclusive
    /\ \A q \in Reqs : Held(q)
    /\ NoneRepeated
    /\ ~Faults => \A i \in Invoices : Untouched(i) => Matches(i)

\* The step leaves invoice i alone, except that its due date may pass and its
\* structure may be deleted.
Kept(i) ==
    /\ Exists(i) =>
         /\ invoice'[i].status = invoice[i].status /\ invoice'[i].amount = invoice[i].amount
         /\ invoice'[i].fines = invoice[i].fines /\ invoice'[i].discounts = invoice[i].discounts
         /\ invoice'[i].paid = invoice[i].paid /\ invoice'[i].refunded = invoice[i].refunded
         /\ invoice[i].pastDue => invoice'[i].pastDue
    /\ ~Exists(i) => ~Exists(i)'
    /\ i \in unannounced' <=> i \in unannounced

\* What a step of request r does to the others and establishes itself.
Frame(r) ==
    /\ \A q \in Reqs \ {r} : req'[q] = req[q]
    /\ Touches(r)' \subseteq Touches(r) \/ MayStart(r, Touches(r)')
    /\ \A i \in Invoices : \/ Kept(i) \/ i \in Touches(r) \/ ~Exists(i)
                           \/ MayStart(r, {i})
    /\ \A k \in Structures : Unused(k) => Unused(k)' \/ k \in Touches(r)

Establishes(r) ==
    /\ Held(r)'
    /\ NoneRepeated'
    /\ ~Faults => \A i \in Invoices :
         (Kept(i) /\ i \notin Touches(r)) \/ i \in Touches(r)' \/ Matches(i)'

LEMMA AgreesKept ==
  ASSUME NEW old \in InvoiceRow, NEW new \in InvoiceRow, NEW x, Agrees(x, old),
         new.amount = old.amount, new.fines = old.fines, new.discounts = old.discounts,
         new.paid = old.paid, new.refunded = old.refunded, old.pastDue => new.pastDue
  PROVE  Agrees(x, new)
<1>1. NetPaid(new) = NetPaid(old) /\ NetPaid(old) \in Int /\ Owed(new) = Owed(old)
  BY DEF NetPaid, Owed, InvoiceRow
<1>2. Settled(new) <=> Settled(old)
  BY <1>1 DEF Settled
<1>3. CASE Settled(old) \/ NetPaid(old) > 0
  <2>1. LedgerStatus(new) = LedgerStatus(old)
    <3>1. CASE Settled(old)
      BY <1>2, <3>1 DEF LedgerStatus
    <3>2. CASE ~Settled(old)
      BY <1>1, <1>2, <1>3, <3>2 DEF LedgerStatus
    <3>3. QED BY <3>1, <3>2
  <2>2. QED BY <2>1 DEF Agrees
<1>4. CASE ~Settled(old) /\ ~(NetPaid(old) > 0)
  <2>1. NetPaid(old) <= 0
    BY <1>1, <1>4
  <2>2. /\ LedgerStatus(old) = IF old.pastDue THEN "OVERDUE" ELSE "PENDING"
        /\ LedgerStatus(new) = IF new.pastDue THEN "OVERDUE" ELSE "PENDING"
    BY <1>1, <1>2, <1>4, <2>1 DEF LedgerStatus
  <2>3. QED BY <2>2 DEF Agrees
<1>5. QED BY <1>3, <1>4

\* The cases of Touches, and their rows.
LEMMA TouchedRows ==
  ASSUME NEW q \in Reqs
  PROVE  /\ req[q].pc \in {"insertStructure", "countInvoices", "deleteStructure", "insertInvoice"} =>
              Touches(q) = {req[q].k}
         /\ req[q].pc \in {"pay", "recompute", "setStatus", "webhook"} => Touches(q) = {req[q].i}
         /\ req[q].pc = "idle" => Touches(q) = {}
BY DEF Touches

\* What a request holds survives steps that keep the rows it works on.
LEMMA HeldKept ==
  ASSUME UNCHANGED Faults, TypeInv, TypeInv', NEW q \in Reqs, Held(q), req'[q] = req[q],
         \A i \in Invoices : i \in Touches(q) /\ Exists(i) => Kept(i),
         \A k \in Structures : k \in Touches(q) /\ Unused(k) => Unused(k)'
  PROVE  Held(q)'
<1>1. req[q] \in Request
  BY DEF TypeInv, TypeOK
<1>2. CASE req[q].pc = "deleteStructure"
  <2>1. req[q].k \in Structures /\ req[q].k \in Touches(q)
    BY <1>1, <1>2, RequestShape, TouchedRows
  <2>2. Unused(req[q].k)'
    BY <1>2, <2>1 DEF Held
  <2>3. QED BY <1>2, <2>2 DEF Held
<1>3. CASE req[q].pc \in {"pay", "recompute", "setStatus", "webhook"}
  <2> DEFINE i == req[q].i
  <2>1. i \in Invoices /\ i \in Touches(q) /\ Exists(i)
    BY <1>1, <1>3, RequestShape, TouchedRows DEF TypeInv, InvoicesExist
  <2>2. Kept(i)
    BY <2>1
  <2>3. invoice'[i] # NoRow
    BY <1>3, <2>1 DEF TypeInv, InvoicesExist, Exists
  <2>4. invoice[i] \in InvoiceRow /\ invoice'[i] \in InvoiceRow
    BY <2>1, <2>3 DEF TypeInv, TypeOK, Exists
  <2>5. \A x : Agrees(x, invoice[i]) => Agrees(x, invoice'[i])
    BY <2>1, <2>2, <2>4, AgreesKept DEF Kept
  <2>6. invoice'[i].status = invoice[i].status /\ (i \in unannounced' <=> i \in unannounced)
    BY <2>1, <2>2 DEF Kept
  <2>7. QED BY <1>3, <2>5, <2>6 DEF Held
<1>4. QED BY <1>1, <1>2, <1>3, RequestShape DEF Held

LEMMA AllKept ==
  ASSUME UNCHANGED <<invoice, unannounced>>
  PROVE  /\ \A i \in Invoices : Kept(i)
         /\ \A k \in Structures : Unused(k) => Unused(k)'
BY DEF Kept, Exists, Unused, HasStructure

\* A request that starts on row x, or is answered, in a step that writes nothing.
LEMMA ReadStep ==
  ASSUME UNCHANGED Faults, SerialInv, NEW r \in Reqs, UNCHANGED <<invoice, unannounced, repeated>>,
         NEW x \in Request, Goto(r, x), Held(r)',
         Touches(r)' \subseteq Touches(r) \/ MayStart(r, Touches(r)'),
         ~Faults => Touches(r) \subseteq Touches(r)'
  PROVE  Frame(r) /\ Establishes(r)
<1>1. \A q \in Reqs \ {r} : req'[q] = req[q]
  BY RequestStep DEF SerialInv, TypeInv
<1>2. \A i \in Invoices : Kept(i)
  BY AllKept
<1>3. \A k \in Structures : Unused(k) => Unused(k)'
  BY AllKept
<1>4. QED BY <1>1, <1>2, <1>3 DEF Frame, Establishes, SerialInv, NoneRepeated

\* A step that writes to the row of invoice i and leaves r at work on it.
LEMMA WriteStep ==
  ASSUME UNCHANGED Faults, SerialInv, NEW r \in Reqs, NEW i \in Invoices, NEW row \in InvoiceRow, Exists(i),
         invoice' = [invoice EXCEPT ![i] = row], row.structure = invoice[i].structure,
         UNCHANGED <<unannounced, repeated>>,
         NEW x \in Request, Goto(r, x), Held(r)',
         Touches(r) = {i} \/ (Touches(r) = {} /\ MayStart(r, {i})), Touches(r)' = {i}
  PROVE  Frame(r) /\ Establishes(r)
<1>1. \A q \in Reqs \ {r} : req'[q] = req[q]
  BY RequestStep DEF SerialInv, TypeInv
<1>2. /\ invoice'[i] = row /\ \A j \in Invoices \ {i} : invoice'[j] = invoice[j]
      /\ row # NoRow
  BY RowStep, RowUpdate DEF SerialInv, TypeInv
<1>3. \A j \in Invoices \ {i} : Kept(j)
  BY <1>2 DEF Kept, Exists
<1>4. \A k \in Structures : Unused(k) => Unused(k)'
  BY <1>2 DEF Unused, HasStructure, Exists
<1>5. QED BY <1>1, <1>3, <1>4 DEF Frame, Establishes, SerialInv, NoneRepeated

LEMMA BeginStep ==
  ASSUME UNCHANGED Faults, SerialInv, ~MayOverlap, NEW r \in Reqs, Begin(r)
  PROVE  Frame(r) /\ Establishes(r)
<1> USE DEF SerialInv, TypeInv
<1>0. req[r] = Idle /\ req[r].pc = "idle" /\ Touches(r) = {}
  <2>1. req[r] = Idle
    BY DEF Begin, CreateFeeStructure, DeleteFeeStructure, CreateInvoiceFor, WaiveInvoice,
           CreateInvoice, AddFine, AddDiscount, RecordPayment, RefundPayment, MayStart
  <2>2. QED BY <2>1, TouchedRows DEF Idle
<1>1. ASSUME NEW k \in Structures, NEW l \in {"insertStructure", "countInvoices", "insertInvoice"},
             MayStart(r, {k}), Goto(r, [pc |-> l, k |-> k]),
             UNCHANGED <<invoice, unannounced, repeated>>
      PROVE  Frame(r) /\ Establishes(r)
  <2> DEFINE x == [pc |-> l, k |-> k]
  <2>1. x \in Request
    BY DEF Request
  <2>2. req'[r] = x
    BY <1>1, <2>1, RequestStep
  <2>3. Touches(r)' = {k}
    BY <2>2 DEF Touches
  <2>4. Held(r)'
    BY <2>2 DEF Held
  <2>5. QED BY <1>0, <1>1, <2>1, <2>3, <2>4, ReadStep
<1>2. ASSUME NEW k \in Structures, CreateFeeStructure(r, k) \/ DeleteFeeStructure(r, k) \/ CreateInvoiceFor(r, k)
      PROVE  Frame(r) /\ Establishes(r)
  BY <1>1, <1>2 DEF CreateFeeStructure, DeleteFeeStructure, CreateInvoiceFor
<1>3. ASSUME NEW i \in Invoices, NEW a \in Amounts, RecordPayment(r, i, a)
      PROVE  Frame(r) /\ Establishes(r)
  <2> DEFINE x == [pc |-> "pay", i |-> i, amount |-> a]
  <2>1. x \in Request
    BY DEF Request
  <2>2. req'[r] = x /\ UNCHANGED <<invoice, unannounced, repeated>> /\ MayStart(r, {i}) /\ Payable(i)
    BY <1>3, <2>1, RequestStep DEF RecordPayment
  <2>3. Touches(r)' = {i}
    BY <2>2 DEF Touches
  <2>4. ~Faults => Agrees(invoice[i].status, invoice[i])
    <3>1. Untouched(i) /\ Exists(i) /\ invoice[i].status # "WAIVED"
      BY <2>2 DEF MayStart, Untouched, Payable
    <3>2. QED BY <3>1 DEF Matches
  <2>5. Held(r)'
    BY <2>2, <2>4 DEF Held, Payable
  <2>6. QED BY <1>0, <1>3, <2>1, <2>2, <2>3, <2>5, ReadStep DEF RecordPayment

<1>4. ASSUME NEW i \in Invoices, NEW row \in InvoiceRow, Exists(i), MayStart(r, {i}),
             invoice' = [invoice EXCEPT ![i] = row], row.structure = invoice[i].structure,
             UNCHANGED <<unannounced, repeated>>,
             Goto(r, [pc |-> "recompute", i |-> i, paying |-> FALSE])
      PROVE  Frame(r) /\ Establishes(r)
  <2> DEFINE x == [pc |-> "recompute", i |-> i, paying |-> FALSE]
  <2>1. x \in Request
    BY DEF Request
  <2>2. req'[r] = x
    BY <1>4, <2>1, RequestStep
  <2>3. Touches(r)' = {i}
    BY <2>2 DEF Touches
  <2>4. Held(r)'
    BY <2>2 DEF Held
  <2>5. QED BY <1>0, <1>4, <2>1, <2>3, <2>4, WriteStep
<1>5. ASSUME NEW i \in Invoices, NEW a \in Amounts, AddFine(r, i, a)
      PROVE  Frame(r) /\ Establishes(r)
  <2>1. Exists(i) /\ invoice[i] \in InvoiceRow /\ a \in Nat
    BY <1>5, FeeAssumption DEF AddFine, Exists, TypeOK
  <2>2. /\ [invoice[i] EXCEPT !.fines = @ + a] \in InvoiceRow
        /\ [invoice[i] EXCEPT !.fines = @ + a].structure = invoice[i].structure
    BY <2>1, RowUpdate DEF InvoiceRow
  <2>3. QED BY <1>4, <1>5, <2>1, <2>2 DEF AddFine
<1>6. ASSUME NEW i \in Invoices, NEW a \in Amounts, AddDiscount(r, i, a)
      PROVE  Frame(r) /\ Establishes(r)
  <2>1. Exists(i) /\ invoice[i] \in InvoiceRow /\ a \in Nat
    BY <1>6, FeeAssumption DEF AddDiscount, Exists, TypeOK
  <2>2. /\ [invoice[i] EXCEPT !.discounts = @ + a] \in InvoiceRow
        /\ [invoice[i] EXCEPT !.discounts = @ + a].structure = invoice[i].structure
    BY <2>1, RowUpdate DEF InvoiceRow
  <2>3. QED BY <1>4, <1>6, <2>1, <2>2 DEF AddDiscount
<1>7. ASSUME NEW p \in Payments, NEW refund \in Payments, NEW a \in Amounts, RefundPayment(r, p, refund, a)
      PROVE  Frame(r) /\ Establishes(r)
  <2> DEFINE i == payment[p].i
  <2>1. i \in Invoices /\ Exists(i) /\ invoice[i] \in InvoiceRow /\ a \in Nat
    BY <1>7, FeeAssumption
       DEF RefundPayment, Refundable, Recorded, TypeOK, InvoicesExist, PaymentRow, Exists
  <2>2. /\ [invoice[i] EXCEPT !.refunded = @ + a] \in InvoiceRow
        /\ [invoice[i] EXCEPT !.refunded = @ + a].structure = invoice[i].structure
    BY <2>1, RowUpdate DEF InvoiceRow
  <2>3. QED BY <1>4, <1>7, <2>1, <2>2 DEF RefundPayment
<1>8. ASSUME NEW i \in Invoices, WaiveInvoice(r, i)
      PROVE  Frame(r) /\ Establishes(r)
  <2>1. invoice[i] \in InvoiceRow /\ Exists(i) /\ MayStart(r, {i}) /\ req' = req
    BY <1>8 DEF WaiveInvoice, Exists, TypeOK
  <2>2. /\ invoice'[i].status = "WAIVED" /\ invoice'[i].structure = invoice[i].structure
        /\ \A j \in Invoices \ {i} : invoice'[j] = invoice[j]
    BY <1>8, <2>1 DEF WaiveInvoice, InvoiceRow, TypeOK
  <2>3. \A j \in Invoices \ {i} : Kept(j)
    BY <1>8, <2>2 DEF WaiveInvoice, Kept, Exists
  <2>4. \A k \in Structures : Unused(k) => Unused(k)'
    BY <2>1, <2>2 DEF Unused, HasStructure, Exists
  <2>5. Touches(r)' = {}
    BY <1>0, <2>1 DEF Touches
  <2>6. Held(r)' /\ NoneRepeated'
    BY <1>0, <1>8, <2>1 DEF WaiveInvoice, Held, NoneRepeated
  <2>7. Matches(i)'
    BY <2>2 DEF Matches
  <2>8. QED BY <1>0, <2>1, <2>3, <2>4, <2>5, <2>6, <2>7 DEF Frame, Establishes
<1>9. ASSUME NEW i \in Invoices, NEW a \in Amounts, NEW past \in BOOLEAN, CreateInvoice(r, i, a, past)
      PROVE  Frame(r) /\ Establishes(r)
  <2>1. /\ ~Exists(i) /\ req' = req /\ UNCHANGED <<unannounced, repeated>>
        /\ invoice'[i] = NewInvoice(a, "NONE", past)
        /\ \A j \in Invoices \ {i} : invoice'[j] = invoice[j]
    BY <1>9 DEF CreateInvoice, TypeOK
  <2>2. \A j \in Invoices \ {i} : Kept(j)
    BY <2>1 DEF Kept, Exists
  <2>3. \A k \in Structures : Unused(k) => Unused(k)'
    BY <2>1, FeeAssumption DEF Unused, HasStructure, Exists, NewInvoice
  <2>4. Touches(r)' = {}
    BY <1>0, <2>1 DEF Touches
  <2>5. Held(r)' /\ NoneRepeated'
    BY <1>0, <2>1 DEF Held, NoneRepeated
  <2>6. Matches(i)'
    BY <2>1, NewInvoiceStatus DEF Matches, Agrees, NewInvoice
  <2>7. QED BY <1>0, <2>1, <2>2, <2>3, <2>4, <2>5, <2>6 DEF Frame, Establishes
<1>10. QED BY <1>2, <1>3, <1>5, <1>6, <1>7, <1>8, <1>9 DEF Begin

LEMMA ContinueStep ==
  ASSUME UNCHANGED Faults, SerialInv, NEW r \in Reqs, Continue(r) \/ Die(r)
  PROVE  Frame(r) /\ Establishes(r)
<1> USE DEF SerialInv, TypeInv
<1>0. req[r] \in Request
  BY DEF TypeOK
\* Answering gives the rows back.
<1>1. ASSUME Done(r)
      PROVE  /\ \A q \in Reqs \ {r} : req'[q] = req[q]
             /\ req'[r] = Idle /\ Touches(r)' = {} /\ Held(r)'
  <2>1. req'[r] = Idle /\ \A q \in Reqs \ {r} : req'[q] = req[q]
    BY <1>1, IdleStep
  <2>2. QED BY <2>1 DEF Touches, Held, Idle
\* Steps on a fee structure: no invoice but the inserted one is at stake.
<1>2. CASE StructureInsert(r) \/ CountInvoices(r)
  <2>1. /\ UNCHANGED <<invoice, unannounced, repeated>>
        /\ Touches(r) = {req[r].k} /\ req[r].k \in Structures
    BY <1>0, <1>2, RequestShape, TouchedRows DEF StructureInsert, CountInvoices, At
  <2> DEFINE x == [pc |-> "deleteStructure", k |-> req[r].k]
  <2>2. Done(r) \/ (Goto(r, x) /\ Unused(req[r].k))
    BY <1>2 DEF StructureInsert, CountInvoices
  <2>3. CASE Done(r)
    <3>1. \A i \in Invoices : i \notin Touches(r)
      BY <2>1, FeeAssumption
    <3>2. QED BY <1>1, <2>1, <2>3, <3>1, AllKept DEF Frame, Establishes, NoneRepeated
  <2>4. CASE Goto(r, x) /\ Unused(req[r].k)
    <3>1. x \in Request
      BY <2>1 DEF Request
    <3>2. req'[r] = x
      BY <2>4, <3>1, RequestStep
    <3>3. Touches(r)' = Touches(r) /\ Held(r)'
      BY <2>1, <2>4, <3>2, AllKept DEF Touches, Held
    <3>4. QED BY <2>1, <2>4, <3>1, <3>3, ReadStep
  <2>5. QED BY <2>2, <2>3, <2>4
<1>3. CASE StructureDelete(r)
  <2>1. /\ UNCHANGED <<unannounced, repeated>> /\ Done(r)
        /\ Touches(r) = {req[r].k} /\ req[r].k \in Structures
    BY <1>0, <1>3, RequestShape, TouchedRows DEF StructureDelete, At
  <2>2. \A i \in Invoices : Kept(i) /\ i \notin Touches(r)
    <3>1. TAKE i \in Invoices
    <3>2. CASE HasStructure(i, req[r].k)
      <4>1. invoice'[i] = [invoice[i] EXCEPT !.structure = "NONE"] /\ invoice[i] \in InvoiceRow
        BY <1>3, <3>2 DEF StructureDelete, HasStructure, Exists, TypeOK
      <4>2. QED BY <2>1, <3>2, <4>1, FeeAssumption DEF Kept, InvoiceRow, HasStructure
    <3>3. CASE ~HasStructure(i, req[r].k)
      BY <1>3, <2>1, <3>3, FeeAssumption DEF StructureDelete, Kept, Exists
    <3>4. QED BY <3>2, <3>3
  <2>3. \A k \in Structures : Unused(k) => Unused(k)'
    <3>1. TAKE k \in Structures
    <3>2. ASSUME NEW i \in Invoices, HasStructure(i, k)' PROVE HasStructure(i, k)
      <4>1. CASE HasStructure(i, req[r].k)
        <5>1. invoice'[i] = [invoice[i] EXCEPT !.structure = "NONE"] /\ invoice[i] \in InvoiceRow
          BY <1>3, <4>1 DEF StructureDelete, HasStructure, Exists, TypeOK
        <5>2. invoice'[i].structure = "NONE"
          BY <5>1 DEF InvoiceRow
        <5>3. QED BY <3>2, <5>2, FeeAssumption DEF HasStructure
      <4>2. CASE ~HasStructure(i, req[r].k)
        BY <1>3, <3>2, <4>2 DEF StructureDelete, HasStructure, Exists
      <4>3. QED BY <4>1, <4>2
    <3>3. QED BY <3>2 DEF Unused
  <2>4. QED BY <1>1, <2>1, <2>2, <2>3 DEF Frame, Establishes, NoneRepeated
<1>4. ASSUME NEW i \in Invoices, NEW a \in Amounts, NEW past \in BOOLEAN, InvoiceInsert(r, i, a, past)
      PROVE  Frame(r) /\ Establishes(r)
  <2> DEFINE k == req[r].k
  <2>1. /\ UNCHANGED <<unannounced, repeated>> /\ Done(r) /\ ~Exists(i)
        /\ Touches(r) = {k} /\ k \in Structures
    BY <1>0, <1>4, RequestShape, TouchedRows DEF InvoiceInsert, At
  <2>2. \A j \in Invoices : j \notin Touches(r)
    BY <2>1, FeeAssumption
  <2>3. CASE k \in structures
    <3>1. invoice'[i] = NewInvoice(a, k, past) /\ \A j \in Invoices \ {i} : invoice'[j] = invoice[j]
      BY <1>4, <2>3 DEF InvoiceInsert, TypeOK
    <3>2. \A j \in Invoices \ {i} : Kept(j)
      BY <2>1, <3>1 DEF Kept, Exists
    <3>3. \A l \in Structures : Unused(l) => Unused(l)' \/ l = k
      BY <2>1, <3>1 DEF Unused, HasStructure, Exists, NewInvoice
    <3>4. Matches(i)'
      BY <2>1, <3>1, NewInvoiceStatus DEF Matches, Agrees, NewInvoice
    <3>5. QED BY <1>1, <2>1, <2>2, <3>2, <3>3, <3>4 DEF Frame, Establishes, NoneRepeated
  <2>4. CASE k \notin structures
    <3>1. UNCHANGED invoice
      BY <1>4, <2>4 DEF InvoiceInsert
    <3>2. QED BY <1>1, <2>1, <2>2, <3>1, AllKept DEF Frame, Establishes, NoneRepeated
  <2>5. QED BY <2>3, <2>4
\* Steps on an invoice.
<1>5. ASSUME req[r].pc \in {"pay", "recompute", "setStatus", "webhook"}
      PROVE  /\ req[r].i \in Invoices /\ Touches(r) = {req[r].i}
             /\ Exists(req[r].i) /\ invoice[req[r].i] \in InvoiceRow
  BY <1>0, <1>5, RequestShape, TouchedRows DEF InvoicesExist, TypeOK, Exists
<1>6. ASSUME NEW p \in Payments, PaymentInsert(r, p)
      PROVE  Frame(r) /\ Establishes(r)
  <2>0. PICK i : i = req[r].i
    OBVIOUS
  <2> DEFINE x == [pc |-> "recompute", i |-> i, paying |-> TRUE]
             row == [invoice[i] EXCEPT !.paid = @ + req[r].amount]
  <2>1. /\ req[r].pc = "pay" /\ req[r].amount \in Nat /\ UNCHANGED <<unannounced, repeated>>
        /\ invoice' = [invoice EXCEPT ![i] = row] /\ Goto(r, x)
    BY <2>0, <1>0, <1>6, RequestShape, FeeAssumption DEF PaymentInsert, At
  <2>2. row \in InvoiceRow /\ row.structure = invoice[i].structure /\ row.status = invoice[i].status
    BY <2>0, <1>5, <2>1, RowUpdate DEF InvoiceRow
  <2>3. x \in Request
    BY <2>0, <1>5, <2>1 DEF Request
  <2>4. req'[r] = x
    BY <2>1, <2>3, RequestStep
  <2>5. Touches(r)' = {i}
    BY <2>4 DEF Touches
  <2>6. invoice'[i] = row
    BY <2>0, <1>5, <2>1 DEF TypeOK
  <2>7. Held(r)'
    BY <2>0, <2>1, <2>2, <2>4, <2>6 DEF Held
  <2>8. QED BY <2>0, <1>5, <2>1, <2>2, <2>3, <2>5, <2>7, WriteStep
<1>7. CASE Recompute(r)
  <2>0. PICK i : i = req[r].i
    OBVIOUS
  <2> DEFINE x == [pc |-> "setStatus", i |-> i, paying |-> req[r].paying,
                   status |-> LedgerStatus(invoice[i])]
  <2>1. req[r].pc = "recompute" /\ UNCHANGED <<invoice, unannounced, repeated>> /\ req[r].paying \in BOOLEAN
    BY <2>0, <1>0, <1>7, RequestShape DEF Recompute, At
  <2>2. CASE invoice[i].status = "WAIVED"
    <3>1. Done(r)
      BY <2>0, <1>7, <2>2 DEF Recompute
    <3>2. Matches(i)'
      BY <2>1, <2>2 DEF Matches
    <3>3. QED BY <2>0, <1>1, <1>5, <2>1, <3>1, <3>2, AllKept DEF Frame, Establishes, NoneRepeated
  <2>3. CASE invoice[i].status # "WAIVED"
    <3>1. Goto(r, x)
      BY <2>0, <1>7, <2>3 DEF Recompute
    <3>2. x \in Request
      BY <2>0, <1>5, <2>1, LedgerStatusType DEF Request, InvoiceStatus
    <3>3. req'[r] = x
      BY <3>1, <3>2, RequestStep
    <3>4. Touches(r)' = {i}
      BY <3>3 DEF Touches
    <3>5. Held(r)'
      BY <2>0, <2>1, <2>3, <3>3 DEF Held, Agrees
    <3>6. QED BY <2>0, <1>5, <2>1, <3>1, <3>2, <3>4, <3>5, ReadStep
  <2>4. QED BY <2>2, <2>3
<1>8. CASE SetStatus(r)
  <2>0. PICK i : i = req[r].i
    OBVIOUS
  <2> DEFINE x == [pc |-> "webhook", i |-> i]
             row == [invoice[i] EXCEPT !.status = req[r].status]
  <2>1. /\ req[r].pc = "setStatus" /\ UNCHANGED repeated
        /\ req[r].status \in InvoiceStatus /\ req[r].paying \in BOOLEAN
        /\ invoice' = [invoice EXCEPT ![i] = row]
    BY <2>0, <1>0, <1>8, RequestShape DEF SetStatus, At
  <2>2. row \in InvoiceRow
    BY <2>0, <1>5, <2>1, RowUpdate
  <2>3. /\ row.structure = invoice[i].structure /\ row.status = req[r].status
        /\ row.amount = invoice[i].amount /\ row.fines = invoice[i].fines
        /\ row.discounts = invoice[i].discounts /\ row.paid = invoice[i].paid
        /\ row.refunded = invoice[i].refunded /\ row.pastDue = invoice[i].pastDue
    BY <2>0, <1>5, <2>1 DEF InvoiceRow
  <2>4. /\ invoice'[i] = row /\ row # NoRow
        /\ \A j \in Invoices \ {i} : invoice'[j] = invoice[j]
        /\ \A j \in Invoices \ {i} : j \in unannounced' <=> j \in unannounced
    BY <2>0, <1>5, <1>8, <2>1, <2>2, RowUpdate DEF SetStatus, TypeOK
  <2>5. Agrees(invoice'[i].status, invoice'[i])
    <3>1. Agrees(req[r].status, invoice[i])
      BY <2>0, <2>1 DEF Held
    <3>2. Agrees(req[r].status, row)
      BY <2>0, <1>5, <2>1, <2>2, <2>3, <3>1, AgreesKept
    <3>3. QED BY <2>3, <2>4, <3>2
  <2>6. \A j \in Invoices \ {i} : Kept(j)
    BY <2>4 DEF Kept, Exists
  <2>7. \A k \in Structures : Unused(k) => Unused(k)'
    BY <2>0, <1>5, <2>1, <2>3, <2>4 DEF Unused, HasStructure, Exists
  <2>8. CASE req[r].paying /\ req[r].status = "PAID"
    <3>1. Goto(r, x) /\ i \in unannounced'
      BY <2>0, <1>8, <2>1, <2>8 DEF SetStatus, Held
    <3>2. x \in Request
      BY <2>0, <1>5, <2>1 DEF Request
    <3>3. req'[r] = x /\ \A q \in Reqs \ {r} : req'[q] = req[q]
      BY <3>1, <3>2, RequestStep
    <3>4. Touches(r)' = {i}
      BY <3>3 DEF Touches
    <3>5. Held(r)'
      BY <2>5, <3>1, <3>3 DEF Held
    <3>6. QED BY <2>0, <1>5, <2>1, <2>6, <2>7, <3>3, <3>4, <3>5 DEF Frame, Establishes, NoneRepeated
  <2>9. CASE ~(req[r].paying /\ req[r].status = "PAID")
    <3>1. Done(r)
      BY <2>0, <1>8, <2>9 DEF SetStatus
    <3>2. Matches(i)'
      BY <2>5 DEF Matches
    <3>3. QED BY <2>0, <1>1, <1>5, <2>1, <2>6, <2>7, <3>1, <3>2 DEF Frame, Establishes, NoneRepeated
  <2>10. QED BY <2>8, <2>9
<1>9. CASE TriggerPaid(r)
  <2>0. PICK i : i = req[r].i
    OBVIOUS
  <2>1. /\ req[r].pc = "webhook" /\ UNCHANGED invoice /\ Done(r)
        /\ \A j \in Invoices \ {i} : j \in unannounced' <=> j \in unannounced
    BY <2>0, <1>9 DEF TriggerPaid, At
  <2>2. i \in unannounced /\ Agrees(invoice[i].status, invoice[i])
    BY <2>0, <2>1 DEF Held
  <2>3. NoneRepeated'
    BY <2>0, <1>9, <2>2 DEF TriggerPaid, NoneRepeated
  <2>4. Matches(i)'
    BY <2>1, <2>2 DEF Matches
  <2>5. \A j \in Invoices \ {i} : Kept(j)
    BY <2>1 DEF Kept, Exists
  <2>6. \A k \in Structures : Unused(k) => Unused(k)'
    BY <2>1 DEF Unused, HasStructure, Exists
  <2>7. QED BY <2>0, <1>1, <1>5, <2>1, <2>3, <2>4, <2>5, <2>6 DEF Frame, Establishes
<1>10. CASE Die(r)
  BY <1>1, <1>10, AllKept DEF Die, Frame, Establishes, NoneRepeated
<1>11. QED BY <1>2, <1>3, <1>4, <1>6, <1>7, <1>8, <1>9, <1>10 DEF Continue

-----------------------------------------------------------------------------
\* The invariant of requests that take turns.

LEMMA InitSerialInv == Init => SerialInv
BY InitTypeInv
   DEF Init, SerialInv, Exclusive, Held, NoneRepeated, Matches, Exists, Touches, Idle

\* A step that keeps the requests and every invoice, such as the clock's.
LEMMA QuietStep ==
  ASSUME UNCHANGED Faults, SerialInv, TypeInv', UNCHANGED <<req, unannounced, repeated>>,
         \A i \in Invoices : Kept(i),
         \A k \in Structures : Unused(k) => Unused(k)'
  PROVE  SerialInv'
<1>1. \A q \in Reqs : Held(q)'
  BY HeldKept DEF SerialInv
<1>2. Exclusive' /\ NoneRepeated'
  BY DEF SerialInv, Exclusive, Touches, NoneRepeated
<1>3. ASSUME ~Faults, NEW i \in Invoices, Untouched(i)' PROVE Matches(i)'
  <2>1. Untouched(i)
    BY <1>3 DEF Untouched, Touches
  <2>2. CASE Exists(i) /\ Exists(i)'
    <3>1. invoice[i] \in InvoiceRow /\ invoice'[i] \in InvoiceRow
      BY <2>2 DEF SerialInv, TypeInv, TypeOK, Exists
    <3>2. Matches(i) /\ Kept(i)
      BY <1>3, <2>1 DEF SerialInv
    <3>3. Agrees(invoice[i].status, invoice[i]) => Agrees(invoice[i].status, invoice'[i])
      BY <2>2, <3>1, <3>2, AgreesKept DEF Kept
    <3>4. QED BY <2>2, <3>2, <3>3 DEF Matches, Kept
  <2>3. CASE ~(Exists(i) /\ Exists(i)')
    BY <2>3 DEF Kept, Matches
  <2>4. QED BY <2>2, <2>3
<1>4. QED BY <1>1, <1>2, <1>3 DEF SerialInv

LEMMA RequestsStep ==
  ASSUME UNCHANGED Faults, SerialInv, TypeInv', ~MayOverlap, NEW r \in Reqs, Frame(r), Establishes(r)
  PROVE  SerialInv'
<1>1. ASSUME NEW q \in Reqs \ {r}
      PROVE  /\ req'[q] = req[q] /\ Touches(q)' = Touches(q)
             /\ Touches(r) \cap Touches(q) = {} /\ Touches(r)' \cap Touches(q) = {}
  <2>1. req'[q] = req[q]
    BY DEF Frame
  <2>2. Touches(q)' = Touches(q)
    BY <2>1 DEF Touches
  <2>3. Touches(r) \cap Touches(q) = {}
    BY DEF SerialInv, Exclusive
  <2>4. Touches(r)' \cap Touches(q) = {}
    BY <2>3 DEF Frame, MayStart
  <2>5. QED BY <2>1, <2>2, <2>3, <2>4
<1>2. Exclusive'
  <2>1. SUFFICES ASSUME NEW p \in Reqs, NEW q \in Reqs, p # q
                 PROVE  Touches(p)' \cap Touches(q)' = {}
    BY DEF Exclusive
  <2>2. CASE p = r
    BY <1>1, <2>1, <2>2
  <2>3. CASE q = r
    <3>1. Touches(r)' \cap Touches(p)' = {}
      BY <1>1, <2>1, <2>3
    <3>2. QED BY <2>3, <3>1
  <2>4. CASE p # r /\ q # r
    BY <1>1, <2>1, <2>4 DEF SerialInv, Exclusive
  <2>5. QED BY <2>2, <2>3, <2>4
<1>3. ASSUME NEW q \in Reqs \ {r} PROVE Held(q)'
  <2>1. \A i \in Invoices : i \in Touches(q) /\ Exists(i) => Kept(i)
    BY <1>1 DEF Frame, MayStart
  <2>2. \A k \in Structures : k \in Touches(q) /\ Unused(k) => Unused(k)'
    BY <1>1 DEF Frame
  <2>3. QED BY <1>1, <2>1, <2>2, HeldKept DEF SerialInv
<1>4. ASSUME ~Faults, NEW i \in Invoices, Untouched(i)' PROVE Matches(i)'
  <2>1. i \notin Touches(r)' /\ \A q \in Reqs \ {r} : i \notin Touches(q)
    BY <1>1, <1>4 DEF Untouched
  <2>2. CASE Matches(i)'
    BY <2>2
  <2>3. CASE Kept(i) /\ i \notin Touches(r)
    <3>1. Matches(i)
      BY <1>4, <2>1, <2>3 DEF Untouched, SerialInv
    <3>2. CASE Exists(i) /\ Exists(i)'
      <4>1. invoice[i] \in InvoiceRow /\ invoice'[i] \in InvoiceRow
        BY <3>2 DEF SerialInv, TypeInv, TypeOK, Exists
      <4>2. Agrees(invoice[i].status, invoice[i]) => Agrees(invoice[i].status, invoice'[i])
        BY <2>3, <3>2, <4>1, AgreesKept DEF Kept
      <4>3. QED BY <2>3, <3>1, <3>2, <4>2 DEF Matches, Kept
    <3>3. CASE ~(Exists(i) /\ Exists(i)')
      BY <2>3, <3>3 DEF Kept, Matches
    <3>4. QED BY <3>2, <3>3
  <2>4. QED BY <1>4, <2>1, <2>2, <2>3 DEF Establishes
<1>5. QED BY <1>2, <1>3, <1>4 DEF SerialInv, Establishes

LEMMA NextSerialInv == ~MayOverlap /\ SerialInv /\ [Next]_vars => SerialInv'
<1> SUFFICES ASSUME ~MayOverlap, SerialInv, [Next]_vars PROVE SerialInv'
  OBVIOUS
<1>1. TypeInv'
  BY NextTypeInv DEF SerialInv
<1> UNCHANGED Faults
  BY DEF Next, vars, Faults
<1>2. ASSUME NEW r \in Reqs, Begin(r) \/ Continue(r) \/ Die(r) PROVE SerialInv'
  BY <1>1, <1>2, BeginStep, ContinueStep, RequestsStep
<1>3. ASSUME NEW j \in Invoices, DueDatePasses(j) PROVE SerialInv'
  <2>1. /\ invoice' = [invoice EXCEPT ![j].pastDue = TRUE] /\ invoice[j] \in InvoiceRow /\ Exists(j)
        /\ UNCHANGED <<req, unannounced, repeated>>
    BY <1>3 DEF DueDatePasses, SerialInv, TypeInv, TypeOK, Exists
  <2>2. /\ invoice'[j] = [invoice[j] EXCEPT !.pastDue = TRUE]
        /\ \A i \in Invoices \ {j} : invoice'[i] = invoice[i]
    BY <2>1 DEF SerialInv, TypeInv, TypeOK
  <2>3. Kept(j) /\ invoice'[j].structure = invoice[j].structure
    BY <2>1, <2>2 DEF Kept, InvoiceRow
  <2>4. \A i \in Invoices : Kept(i)
    BY <2>1, <2>2, <2>3 DEF Kept, Exists
  <2>5. \A k \in Structures : Unused(k) => Unused(k)'
    BY <2>1, <2>2, <2>3 DEF Unused, HasStructure, Exists
  <2>6. QED BY <1>1, <2>1, <2>4, <2>5, QuietStep
<1>4. CASE UNCHANGED vars
  BY <1>1, <1>4, AllKept, QuietStep DEF vars
<1>5. QED BY <1>2, <1>3, <1>4 DEF Next

\* Requests take turns in every state or in none: the invariant holds throughout.
LEMMA SerialAlways == Spec => [](~MayOverlap => SerialInv)
<1>1. [Next]_vars => MayOverlap' = MayOverlap
  BY DEF Next, vars, MayOverlap
<1>2. (~MayOverlap => SerialInv) /\ [Next]_vars => (~MayOverlap => SerialInv)'
  BY <1>1, NextSerialInv
<1>3. Init => (~MayOverlap => SerialInv)
  BY InitSerialInv
<1>4. QED BY <1>2, <1>3, PTL DEF Spec

\* If requests on one invoice take turns, WAIVED is never taken back, even
\* when requests die half-way.
THEOREM WaivedSticky == Spec => WaivedIsSticky
<1> DEFINE Step == ~MayOverlap => \A i \in Invoices : KeepsWaived(i)
<1>1. (~MayOverlap => SerialInv) /\ [Next]_vars => Step
  BY InvoiceSteps DEF SerialInv, InvoiceStep, Held, At, KeepsWaived
<1>2. (~MayOverlap => SerialInv) /\ [Next]_vars => [Step]_vars
  BY <1>1
<1>3. QED BY <1>2, SerialAlways, PTL DEF Spec, WaivedIsSticky

\* If requests take turns, the structure of an invoice is never deleted.
THEOREM KeepsStructure == Spec => InvoiceKeepsStructure
<1> DEFINE Step ==
      ~MayOverlap =>
        \A i \in Invoices :
          Exists(i) /\ invoice[i].structure # "NONE" =>
            invoice'[i].structure = invoice[i].structure
<1>1. (~MayOverlap => SerialInv) /\ [Next]_vars => Step
  BY InvoiceSteps DEF SerialInv, InvoiceStep, Held, At, Unused
<1>2. (~MayOverlap => SerialInv) /\ [Next]_vars => [Step]_vars
  BY <1>1
<1>3. QED BY <1>2, SerialAlways, PTL DEF Spec, InvoiceKeepsStructure

\* If requests take turns, fee.invoice.paid is sent at most once each time an
\* invoice becomes PAID.
THEOREM PaidAnnouncedOnce == Spec => []AnnouncedOnce
<1>1. (~MayOverlap => SerialInv) => AnnouncedOnce
  BY DEF SerialInv, NoneRepeated, AnnouncedOnce
<1>2. QED BY <1>1, SerialAlways, PTL

\* If requests take turns and none dies, the stored status is the ledger's.
THEOREM StatusMatches == Spec => []StatusMatchesLedger
<1>1. (~MayOverlap => SerialInv) => StatusMatchesLedger
  BY DEF SerialInv, StatusMatchesLedger, Matches, Agrees
<1>2. QED BY <1>1, SerialAlways, PTL

\* If requests take turns and none dies, no settled invoice takes a payment.
THEOREM NoOverpayment == Spec => NoPaymentOnceSettled
<1> DEFINE Step == \A i \in Invoices :
             Exists(i) /\ invoice'[i].paid > invoice[i].paid =>
               invoice[i].status # "WAIVED" /\ ~Settled(invoice[i])
<1>1. ASSUME SerialInv, ~Faults, [Next]_vars PROVE Step
  <2>1. SUFFICES ASSUME NEW i \in Invoices, Exists(i), invoice'[i].paid > invoice[i].paid
                 PROVE  invoice[i].status # "WAIVED" /\ ~Settled(invoice[i])
    OBVIOUS
  <2>2. invoice[i] \in InvoiceRow /\ invoice[i].paid \in Nat
    BY <1>1, <2>1 DEF SerialInv, TypeInv, TypeOK, Exists, InvoiceRow
  <2>3. PICK r \in Reqs : At(r, "pay") /\ req[r].i = i
    BY <1>1, <2>1, <2>2, InvoiceSteps DEF SerialInv, InvoiceStep
  <2>4. invoice[i].status \notin {"PAID", "WAIVED"} /\ Agrees(invoice[i].status, invoice[i])
    BY <1>1, <2>3 DEF SerialInv, Held, At
  <2>5. LedgerStatus(invoice[i]) # "PAID"
    BY <2>4 DEF Agrees
  <2>6. QED BY <2>2, <2>4, <2>5, LedgerStatusType
<1>2. (~MayOverlap => SerialInv) /\ [Next]_vars => [~MayOverlap /\ ~Faults => Step]_vars
  BY <1>1
<1>3. QED BY <1>2, SerialAlways, PTL DEF Spec, NoPaymentOnceSettled

\* Every refund is of a real payment of the same invoice and no larger, however
\* requests overlap: payment rows never change.
THEOREM RefundsCorrect == Spec => []RefundsAreOfPayments
<1>1. Init => RefundsAreOfPayments
  BY DEF Init, RefundsAreOfPayments, Recorded
<1>2. TypeInv /\ RefundsAreOfPayments /\ [Next]_vars => RefundsAreOfPayments'
  <2> SUFFICES ASSUME TypeInv, RefundsAreOfPayments, [Next]_vars PROVE RefundsAreOfPayments'
    OBVIOUS
  <2>1. CASE UNCHANGED payment
    BY <2>1 DEF RefundsAreOfPayments, Recorded
  <2>2. ASSUME NEW r \in Reqs, NEW p \in Payments, NEW refund \in Payments, NEW a \in Amounts,
               RefundPayment(r, p, refund, a)
        PROVE  RefundsAreOfPayments'
    <3>1. /\ payment[p] \in PaymentRow /\ payment[p].original = "NONE" /\ a <= payment[p].amount
          /\ payment[refund] = NoRow /\ refund # p
          /\ payment'[refund] = [amount |-> a, i |-> payment[p].i, original |-> p]
          /\ \A q \in Payments \ {refund} : payment'[q] = payment[q]
      BY <2>2 DEF RefundPayment, Refundable, Recorded, TypeInv, TypeOK
    <3>2. payment[p] # NoRow
      BY <2>2 DEF RefundPayment, Refundable, Recorded
    <3>3. ASSUME NEW q \in Payments, Recorded(q), payment[q].original # "NONE"
          PROVE  payment[q].original \in Payments \ {refund}
      BY <3>1, <3>3 DEF RefundsAreOfPayments, TypeInv, TypeOK, PaymentRow, Recorded
    <3>4. QED BY <3>1, <3>2, <3>3 DEF RefundsAreOfPayments, Recorded
  <2>3. ASSUME NEW r \in Reqs, NEW p \in Payments, PaymentInsert(r, p) PROVE RefundsAreOfPayments'
    <3>1. /\ payment[p] = NoRow
          /\ payment'[p].original = "NONE"
          /\ \A q \in Payments \ {p} : payment'[q] = payment[q]
      BY <2>3 DEF PaymentInsert, Recorded, TypeInv, TypeOK
    <3>2. ASSUME NEW q \in Payments, Recorded(q), payment[q].original # "NONE"
          PROVE  payment[q].original \in Payments \ {p}
      BY <3>1, <3>2 DEF RefundsAreOfPayments, TypeInv, TypeOK, PaymentRow, Recorded
    <3>3. QED BY <3>1, <3>2 DEF RefundsAreOfPayments, Recorded
  <2>4. ASSUME NEW r \in Reqs, Begin(r) PROVE RefundsAreOfPayments'
    BY <2>1, <2>2, <2>4
    DEF Begin, CreateFeeStructure, DeleteFeeStructure, CreateInvoiceFor, WaiveInvoice,
        CreateInvoice, AddFine, AddDiscount, RecordPayment
  <2>5. ASSUME NEW r \in Reqs, Continue(r) \/ Die(r) PROVE RefundsAreOfPayments'
    BY <2>1, <2>3, <2>5
    DEF Continue, Die, StructureInsert, CountInvoices, StructureDelete, InvoiceInsert,
        Recompute, SetStatus, TriggerPaid
  <2>6. QED BY <2>1, <2>4, <2>5 DEF Next, vars, DueDatePasses
<1>3. QED BY <1>1, <1>2, InitTypeInv, NextTypeInv, PTL DEF Spec

-----------------------------------------------------------------------------
\* Together: what the rows of the ledger say of each other, under the condition
\* each part names.
THEOREM LedgerCorrect == Spec => []LedgerSound
BY TypeCorrect, PaidEarned, RefundsCorrect, PaidAnnouncedOnce, PTL DEF LedgerSound

\* Together: if requests take turns, neither a waiver nor an invoice's structure
\* is taken back.
THEOREM InvoicesStand == Spec => NothingTakenBack
BY WaivedSticky, KeepsStructure, PTL DEF NothingTakenBack

=============================================================================
