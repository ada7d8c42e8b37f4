--------------------------- MODULE BillingProofs ---------------------------
(***************************************************************************)
(* Proofs about Billing for every set of requests, customers, work orders, *)
(* attempts and amounts.  The second part is about sums: what the accounts *)
(* and the invoices say is what the rows of invoices and payments add up   *)
(* to, and each commit is one posting of the abstract ledger.              *)
(***************************************************************************)
EXTENDS Billing, TotalsProofs, TLAPS

----------------------------------------------------------------------------
(* The helpers of the model *)

LEMMA AtLeastZeroType ==
    ASSUME NEW n \in Int
    PROVE  AtLeastZero(n) \in Nat /\ (n >= 0 => AtLeastZero(n) = n)
BY DEF AtLeastZero

LEMMA StatusForType ==
    ASSUME NEW paid \in Int, NEW left \in Int
    PROVE  StatusFor(paid, left) \in {"PAID", "PARTIALLY_PAID", "UNPAID"}
BY DEF StatusFor

\* The advance used is bounded by the invoice it pays.
LEMMA AdvanceUsedType ==
    ASSUME TypeOK, NEW r \in Requests
    PROVE  AdvanceUsed(r) \in Nat /\ AdvanceUsed(r) <= req[r].amount
<1>1. req[r].amount \in Nat /\ req[r].offset \in Nat /\ seen[r].balance \in Int
  BY DEF TypeOK, Request, Seen
<1>2. QED
  BY <1>1 DEF AdvanceUsed, SmallerOf

\* A payment changes the amounts and the status of an invoice, a cancellation
\* its work order, remaining amount and status.
LEMMA SettledType ==
    ASSUME NEW row \in InvoiceRow, NEW paid \in Nat
    PROVE  /\ Settled(row, paid) \in InvoiceRow
           /\ Settled(row, paid).customer = row.customer
           /\ Settled(row, paid).wo = row.wo
           /\ Settled(row, paid).grand = row.grand
           /\ Settled(row, paid).paid = paid
           /\ Settled(row, paid).remaining = AtLeastZero(row.grand - paid)
           /\ Settled(row, paid).status = StatusFor(paid, row.grand - paid)
<1>1. row.grand \in Nat
  BY DEF InvoiceRow
<1>2. AtLeastZero(row.grand - paid) \in Nat
  BY <1>1, AtLeastZeroType
<1>3. StatusFor(paid, row.grand - paid) \in InvoiceStatus
  BY <1>1, StatusForType DEF InvoiceStatus
<1>4. QED
  BY <1>2, <1>3 DEF Settled, InvoiceRow

LEMMA VoidedType ==
    ASSUME NEW row \in InvoiceRow
    PROVE  /\ Voided(row) \in InvoiceRow
           /\ Voided(row).customer = row.customer
           /\ Voided(row).wo = None
           /\ Voided(row).grand = row.grand
           /\ Voided(row).paid = row.paid
           /\ Voided(row).remaining = 0
           /\ Voided(row).status = "CANCELLED"
BY DEF Voided, InvoiceRow, InvoiceStatus

----------------------------------------------------------------------------
(* Type correctness *)

LEMMA NullRowTypes ==
    /\ NothingSeen \in Seen
    /\ NoRequest \in Request
    /\ NoInvoice \in InvoiceRow
    /\ NoPayment \in PaymentRow
    /\ NoAttempt \in AttemptRow
BY DEF NothingSeen, Seen, NoRequest, Request, NoInvoice, InvoiceRow, NoPayment,
       PaymentRow, NoAttempt, AttemptRow, InvoiceStatus, PaymentMethod

LEMMA InitType == Init => TypeOK
BY NullRowTypes DEF Init, TypeOK, AccountRow, WorkOrderStatus, Phase

LEMMA BeginType ==
    ASSUME TypeOK, NEW r \in Requests, NEW op \in {"create", "pay", "cancel"},
           NEW c \in Customers \cup {None}, NEW w \in WorkOrders \cup {None},
           NEW i \in Requests \cup {None}, NEW a \in Nat, NEW o \in Nat,
           NEW t \in Attempts \cup {None}, Begin(r, op, c, w, i, a, o, t)
    PROVE  TypeOK'
<1>1. [op |-> op, customer |-> c, wo |-> w, invoice |-> i, amount |-> a,
       offset |-> o, attempt |-> t] \in Request
  BY DEF Request
<1>2. QED
  BY <1>1 DEF TypeOK, Begin, Phase, tables

LEMMA FinishType ==
    ASSUME TypeOK, NEW r \in Requests, Finish(r)
    PROVE  /\ req' \in [Requests -> Request]
           /\ phase' \in [Requests -> Phase]
           /\ seen' \in [Requests -> Seen]
           /\ lock' \in [Customers -> Requests \cup {None}]
BY NullRowTypes DEF TypeOK, Finish, Phase

LEMMA StartType ==
    ASSUME TypeOK, NEW r \in Requests,
           \/ \E c \in Customers, w \in WorkOrders \cup {None}, g \in GrandTotals,
                 o \in PayAmounts \cup {0} : StartCreate(r, c, w, g, o)
           \/ \E i \in Requests, a \in PayAmounts : StartPayment(r, i, a)
           \/ \E c \in Customers, a \in PayAmounts : StartAdvance(r, c, a)
           \/ \E t \in Attempts, i \in Requests : StartWebhook(r, t, i)
           \/ \E i \in Requests : StartCancel(r, i)
    PROVE  TypeOK'
<1>1. \A i \in Requests : invoice[i].customer \in Customers \cup {None}
  BY DEF TypeOK, InvoiceRow
<1>2. GrandTotals \subseteq Nat /\ PayAmounts \cup {0} \subseteq Nat
  BY AmountsAssumption DEF AmountsAssumption
<1>3. \A t \in Attempts : attempt[t].amount \in Nat
  BY DEF TypeOK, AttemptRow
<1>4. CASE \E c \in Customers, w \in WorkOrders \cup {None}, g \in GrandTotals,
              o \in PayAmounts \cup {0} : StartCreate(r, c, w, g, o)
  BY <1>2, <1>4, BeginType DEF StartCreate
<1>5. CASE \E i \in Requests, a \in PayAmounts : StartPayment(r, i, a)
  BY <1>1, <1>2, <1>5, BeginType DEF StartPayment
<1>6. CASE \E c \in Customers, a \in PayAmounts : StartAdvance(r, c, a)
  BY <1>2, <1>6, BeginType DEF StartAdvance
<1>7. CASE \E t \in Attempts, i \in Requests : StartWebhook(r, t, i)
  BY <1>1, <1>3, <1>7, BeginType DEF StartWebhook
<1>8. CASE \E i \in Requests : StartCancel(r, i)
  BY <1>1, <1>8, BeginType DEF StartCancel
<1>9. QED
  BY <1>4, <1>5, <1>6, <1>7, <1>8

LEMMA CommitCreateType ==
    ASSUME TypeOK, NEW r \in Requests, req[r].customer \in Customers, CommitCreate(r)
    PROVE  TypeOK'
<1> DEFINE c == req[r].customer
           w == req[r].wo
           g == req[r].amount
           used == AdvanceUsed(r)
           left == AtLeastZero(g - used)
<1>1. /\ w \in WorkOrders \cup {None} /\ g \in Nat
      /\ account[c] \in AccountRow
  BY DEF TypeOK, Request
<1>2. used \in Nat
  BY AdvanceUsedType
<1>3. left \in Nat /\ StatusFor(used, left) \in InvoiceStatus
  BY <1>1, <1>2, AtLeastZeroType, StatusForType DEF InvoiceStatus
<1> HIDE DEF used, left
<1>4. invoice' \in [Requests -> InvoiceRow]
  <2>1. [customer |-> c, wo |-> w, grand |-> g, paid |-> used,
         remaining |-> left, status |-> StatusFor(used, left)] \in InvoiceRow
    BY <1>1, <1>2, <1>3 DEF InvoiceRow
  <2>2. QED
    BY <2>1 DEF CommitCreate, TypeOK, used, left
<1>5. payment' \in [Requests -> PaymentRow]
  <2>1. [customer |-> c, invoice |-> r, amount |-> used,
         method |-> "ADVANCE_OFFSET", attempt |-> None] \in PaymentRow
    BY <1>2 DEF PaymentRow, PaymentMethod
  <2>2. QED
    BY <2>1 DEF CommitCreate, TypeOK, used
<1>6. account' \in [Customers -> AccountRow]
  BY <1>1 DEF CommitCreate, TypeOK, AccountRow
<1>7. workOrder' \in [WorkOrders -> WorkOrderStatus]
  BY DEF CommitCreate, TypeOK, WorkOrderStatus
<1>8. QED
  BY <1>4, <1>5, <1>6, <1>7, FinishType DEF CommitCreate, TypeOK

LEMMA CommitPaymentType ==
    ASSUME TypeOK, NEW r \in Requests, req[r].customer \in Customers, CommitPayment(r)
    PROVE  TypeOK'
<1> DEFINE c == req[r].customer
           i == req[r].invoice
           t == req[r].attempt
           a == req[r].amount
           paid == seen[r].paid + a
<1>1. /\ i \in Requests \cup {None} /\ t \in Attempts \cup {None} /\ a \in Nat
      /\ paid \in Nat
      /\ account[c] \in AccountRow
  BY DEF TypeOK, Request, Seen
<1> HIDE DEF paid
<1>2. invoice' \in [Requests -> InvoiceRow]
  <2>1. \A row \in InvoiceRow : Settled(row, paid) \in InvoiceRow
    BY <1>1, SettledType
  <2>2. QED
    BY <1>1, <2>1 DEF CommitPayment, TypeOK, paid
<1>3. payment' \in [Requests -> PaymentRow]
  <2>1. [customer |-> c, invoice |-> i, amount |-> a,
         method |-> IF t = None THEN "CASH" ELSE "ONLINE", attempt |-> t] \in PaymentRow
    BY <1>1 DEF PaymentRow, PaymentMethod
  <2>2. QED
    BY <2>1 DEF CommitPayment, TypeOK
<1>4. account' \in [Customers -> AccountRow]
  BY <1>1 DEF CommitPayment, TypeOK, AccountRow
<1>5. attempt' \in [Attempts -> AttemptRow]
  BY <1>1 DEF CommitPayment, TypeOK, AttemptRow
<1>6. QED
  BY <1>2, <1>3, <1>4, <1>5, FinishType DEF CommitPayment, TypeOK

LEMMA CommitCancelType ==
    ASSUME TypeOK, NEW r \in Requests, req[r].customer \in Customers,
           req[r].invoice \in Requests, CommitCancel(r)
    PROVE  TypeOK'
<1> DEFINE c == req[r].customer
           i == req[r].invoice
           s == seen[r]
           debits == AtLeastZero(s.debits - invoice[i].grand)
<1>1. /\ s \in Seen /\ s.debits \in Nat /\ s.credits \in Nat
      /\ invoice[i] \in InvoiceRow /\ invoice[i].grand \in Nat
      /\ account[c] \in AccountRow
  BY DEF TypeOK, Seen, InvoiceRow
<1>2. debits \in Nat
  BY <1>1, AtLeastZeroType
<1> HIDE DEF debits
<1>3. invoice' \in [Requests -> InvoiceRow]
  BY <1>1, VoidedType DEF CommitCancel, TypeOK
<1>4. account' \in [Customers -> AccountRow]
  BY <1>1, <1>2 DEF CommitCancel, TypeOK, AccountRow, debits
<1>5. workOrder' \in [WorkOrders -> WorkOrderStatus]
  BY DEF CommitCancel, TypeOK, WorkOrderStatus
<1>6. QED
  BY <1>3, <1>4, <1>5, FinishType DEF CommitCancel, TypeOK

----------------------------------------------------------------------------
(* The advisory lock *)

\* The requests of one customer are inside their transactions one at a time.
LEMMA OneInTransaction ==
    ASSUME LockHeld, NEW r \in Requests, NEW q \in Requests,
           InTransaction(r), InTransaction(q),
           req[r].customer = req[q].customer
    PROVE  r = q
BY DEF LockHeld

\* Taking and releasing the lock keeps it with the request in the transaction.
LEMMA LockHeldBegin ==
    ASSUME TypeOK, LockHeld, NEW r \in Requests, phase[r] = "idle",
           NEW op, NEW c, NEW w, NEW i, NEW a, NEW o, NEW t,
           Begin(r, op, c, w, i, a, o, t)
    PROVE  LockHeld'
BY DEF TypeOK, LockHeld, InTransaction, Begin

LEMMA LockHeldFinish ==
    ASSUME TypeOK, LockHeld, NEW r \in Requests, InTransaction(r),
           req[r].customer \in Customers,
           \A q \in Requests : phase[q] # "idle" => req[q].customer \in Customers,
           Finish(r)
    PROVE  LockHeld'
<1> SUFFICES ASSUME NEW q \in Requests, InTransaction(q)'
             PROVE  lock'[req'[q].customer] = q
  BY DEF LockHeld
<1>1. q # r /\ phase'[q] = phase[q] /\ req'[q] = req[q]
  BY DEF Finish, InTransaction, TypeOK
<1>2. InTransaction(q) /\ lock[req[q].customer] = q /\ req[q].customer \in Customers
  BY <1>1 DEF InTransaction, LockHeld
<1>3. req[q].customer # req[r].customer
  BY <1>1, <1>2, OneInTransaction
<1>4. QED
  BY <1>1, <1>2, <1>3 DEF Finish, TypeOK

----------------------------------------------------------------------------
(* Steps that leave the tables alone *)

BooksOK == RowsOK /\ LedgerBalanced /\ InvoiceCoherent
           /\ OneActiveInvoicePerWorkOrder /\ GatewayBookedOnce

LEMMA BooksUnchanged ==
    ASSUME BooksOK, UNCHANGED tables
    PROVE  BooksOK'
BY DEF BooksOK, tables, RowsOK, LedgerBalanced, InvoiceCoherent, Active,
       OneActiveInvoicePerWorkOrder, GatewayBookedOnce, Booked

\* A request that does not move keeps what is known of it.
LEMMA OtherRequest ==
    ASSUME NEW q \in Requests, RequestOK(q), ReadStillValid(q), UNCHANGED tables,
           req'[q] = req[q], phase'[q] = phase[q], seen'[q] = seen[q]
    PROVE  RequestOK(q)' /\ ReadStillValid(q)'
<1>1. RequestOK(q)'
  BY DEF RequestOK, Targets, tables
<1>2. ReadStillValid(q)'
  BY DEF ReadStillValid, tables, Snapshot, MayPay, MayCancel, Invoiced, Booked, Active
<1>3. QED
  BY <1>1, <1>2

LEMMA BeginKeepsInv ==
    ASSUME IInv, NEW r \in Requests, phase[r] = "idle",
           NEW op \in {"create", "pay", "cancel"},
           NEW c \in Customers, NEW w \in WorkOrders \cup {None},
           NEW i \in Requests \cup {None}, NEW a \in Nat, NEW o \in Nat,
           NEW t \in Attempts \cup {None}, Begin(r, op, c, w, i, a, o, t),
           op \in {"create", "pay"} => invoice[r] = NoInvoice /\ payment[r] = NoPayment,
           op = "create" => (w # None => CustomerOf[w] = c) /\ i = None,
           op # "create" /\ i # None => invoice[i].status # "ABSENT" /\ invoice[i].customer = c,
           op = "cancel" => i # None,
           t # None => /\ op = "pay" /\ i # None
                       /\ attempt[t].status # "ABSENT" /\ attempt[t].invoice = i
    PROVE  IInv'
<1>1. TypeOK'
  BY BeginType DEF IInv
<1>2. LockHeld'
  BY LockHeldBegin DEF IInv
<1>3. BooksOK'
  BY BooksUnchanged DEF IInv, BooksOK, Begin
<1>4. ASSUME NEW q \in Requests, q # r
      PROVE  RequestOK(q)' /\ ReadStillValid(q)'
  BY <1>4, OtherRequest DEF IInv, Begin, TypeOK
<1>5. /\ req'[r] = [op |-> op, customer |-> c, wo |-> w, invoice |-> i, amount |-> a,
                    offset |-> o, attempt |-> t]
      /\ phase'[r] = "ready"
      /\ UNCHANGED tables
  BY DEF Begin, IInv, TypeOK
<1>6. RequestOK(r)' /\ ReadStillValid(r)'
  BY <1>5, SetsAssumption DEF RequestOK, Targets, ReadStillValid, tables, SetsAssumption
<1>7. QED
  BY <1>1, <1>2, <1>3, <1>4, <1>6 DEF IInv, BooksOK

LEMMA StartKeepsInv ==
    ASSUME IInv, NEW r \in Requests,
           \/ \E c \in Customers, w \in WorkOrders \cup {None}, g \in GrandTotals,
                 o \in PayAmounts \cup {0} : StartCreate(r, c, w, g, o)
           \/ \E i \in Requests, a \in PayAmounts : StartPayment(r, i, a)
           \/ \E c \in Customers, a \in PayAmounts : StartAdvance(r, c, a)
           \/ \E t \in Attempts, i \in Requests : StartWebhook(r, t, i)
           \/ \E i \in Requests : StartCancel(r, i)
    PROVE  IInv'
<1>1. \A i \in Requests : Active(i) =>
          /\ i # None
          /\ invoice[i].status # "ABSENT"
          /\ invoice[i].customer \in Customers
  BY SetsAssumption DEF IInv, RowsOK, Active, SetsAssumption
<1>2. GrandTotals \subseteq Nat /\ PayAmounts \cup {0} \subseteq Nat /\ 0 \in Nat
  BY AmountsAssumption DEF AmountsAssumption
<1>3. \A t \in Attempts : attempt[t].amount \in Nat /\ t # None
  BY SetsAssumption DEF IInv, TypeOK, AttemptRow, SetsAssumption
<1>4. CASE \E c \in Customers, w \in WorkOrders \cup {None}, g \in GrandTotals,
              o \in PayAmounts \cup {0} : StartCreate(r, c, w, g, o)
  BY <1>2, <1>4, BeginKeepsInv DEF StartCreate, Fresh
<1>5. CASE \E i \in Requests, a \in PayAmounts : StartPayment(r, i, a)
  BY <1>1, <1>2, <1>5, BeginKeepsInv DEF StartPayment, Fresh, Payable
<1>6. CASE \E c \in Customers, a \in PayAmounts : StartAdvance(r, c, a)
  BY <1>2, <1>6, BeginKeepsInv DEF StartAdvance, Fresh
<1>7. CASE \E t \in Attempts, i \in Requests : StartWebhook(r, t, i)
  BY <1>1, <1>3, <1>7, BeginKeepsInv DEF StartWebhook, Fresh, Payable
<1>8. CASE \E i \in Requests : StartCancel(r, i)
  BY <1>1, <1>8, BeginKeepsInv DEF StartCancel
<1>9. QED
  BY <1>4, <1>5, <1>6, <1>7, <1>8

LEMMA AcquireLockKeepsInv ==
    ASSUME IInv, NEW r \in Requests, AcquireLock(r)
    PROVE  IInv'
<1>1. TypeOK'
  BY DEF IInv, AcquireLock, TypeOK, tables, Phase
<1>2. BooksOK'
  BY BooksUnchanged DEF IInv, BooksOK, AcquireLock
<1>3. req[r].customer \in Customers /\ phase[r] = "ready"
  BY DEF IInv, RequestOK, AcquireLock
<1>4. LockHeld'
  <2> SUFFICES ASSUME NEW q \in Requests, InTransaction(q)'
               PROVE  lock'[req'[q].customer] = q
    BY DEF LockHeld
  <2>1. CASE q = r
    BY <2>1, <1>3 DEF AcquireLock, IInv, TypeOK
  <2>2. CASE q # r
    <3>1. InTransaction(q) /\ lock[req[q].customer] = q /\ q # None
      BY <2>2, SetsAssumption DEF AcquireLock, IInv, TypeOK, LockHeld, InTransaction,
         SetsAssumption
    <3>2. req[q].customer # req[r].customer
      BY <3>1 DEF AcquireLock
    <3>3. QED
      BY <3>1, <3>2, <1>3 DEF AcquireLock, IInv, TypeOK
  <2>3. QED
    BY <2>1, <2>2
<1>5. ASSUME NEW q \in Requests, q # r
      PROVE  RequestOK(q)' /\ ReadStillValid(q)'
  BY <1>5, OtherRequest DEF IInv, AcquireLock, TypeOK
<1>6. /\ req' = req /\ phase'[r] = "locked" /\ UNCHANGED tables
  BY DEF AcquireLock, IInv, TypeOK
<1>7. RequestOK(r)' /\ ReadStillValid(r)'
  BY <1>3, <1>6 DEF IInv, RequestOK, Targets, ReadStillValid, tables
<1>8. QED
  BY <1>1, <1>2, <1>4, <1>5, <1>7 DEF IInv, BooksOK

LEMMA SnapshotType ==
    ASSUME TypeOK, NEW r \in Requests, req[r].customer \in Customers
    PROVE  Snapshot(r) \in Seen
<1>1. account[req[r].customer] \in AccountRow
  BY DEF TypeOK
<1>2. req[r].invoice \in Requests \cup {None}
  BY DEF TypeOK, Request
<1>3. \A i \in Requests : invoice[i].paid \in Nat /\ invoice[i].wo \in WorkOrders \cup {None}
  BY DEF TypeOK, InvoiceRow
<1>4. QED
  BY <1>1, <1>2, <1>3 DEF Snapshot, Seen, AccountRow

LEMMA ReadKeepsInv ==
    ASSUME IInv, NEW r \in Requests, Read(r)
    PROVE  IInv'
<1>1. req[r].customer \in Customers /\ phase[r] = "locked"
  BY DEF IInv, RequestOK, Read
<1>2. TypeOK'
  BY <1>1, SnapshotType DEF IInv, Read, TypeOK, tables, Phase
<1>3. BooksOK'
  BY BooksUnchanged DEF IInv, BooksOK, Read
<1>4. LockHeld'
  BY DEF IInv, LockHeld, InTransaction, Read, TypeOK
<1>5. ASSUME NEW q \in Requests, q # r
      PROVE  RequestOK(q)' /\ ReadStillValid(q)'
  BY <1>5, OtherRequest DEF IInv, Read, TypeOK
<1>6. /\ req' = req /\ phase'[r] = "read" /\ UNCHANGED tables
      /\ seen'[r] = Snapshot(r)
  BY DEF Read, IInv, TypeOK
<1>7. RequestOK(r)'
  BY <1>1, <1>6 DEF IInv, RequestOK, Targets, tables
<1>8. ReadStillValid(r)'
  <2>1. seen'[r] = Snapshot(r)'
    BY <1>6 DEF Snapshot, tables
  <2>2. Accepted(r)
    BY DEF Read
  <2>3. QED
    BY <1>6, <2>1, <2>2 DEF ReadStillValid, Accepted, MayCreate, MayPay, MayCancel,
       Invoiced, Booked, Active, tables
<1>9. QED
  BY <1>2, <1>3, <1>4, <1>5, <1>7, <1>8 DEF IInv, BooksOK

\* The request that ends is idle again and claims nothing.
LEMMA Finished ==
    ASSUME TypeOK, NEW r \in Requests, Finish(r)
    PROVE  /\ RequestOK(r)' /\ ReadStillValid(r)'
           /\ \A q \in Requests : q # r =>
                 req'[q] = req[q] /\ phase'[q] = phase[q] /\ seen'[q] = seen[q]
BY SetsAssumption DEF Finish, TypeOK, RequestOK, ReadStillValid, NoRequest, SetsAssumption

LEMMA RollbackKeepsInv ==
    ASSUME IInv, NEW r \in Requests, Reject(r) \/ Abort(r)
    PROVE  IInv'
<1>1. InTransaction(r) /\ Finish(r) /\ UNCHANGED tables
  BY DEF Reject, Abort, InTransaction
<1>2. \A q \in Requests : phase[q] # "idle" => req[q].customer \in Customers
  BY DEF IInv, RequestOK
<1>3. TypeOK'
  BY <1>1, FinishType DEF IInv, TypeOK, tables
<1>4. LockHeld'
  BY <1>1, <1>2, LockHeldFinish DEF IInv, InTransaction
<1>5. BooksOK'
  BY <1>1, BooksUnchanged DEF IInv, BooksOK
<1>6. ASSUME NEW q \in Requests
      PROVE  RequestOK(q)' /\ ReadStillValid(q)'
  BY <1>1, <1>6, OtherRequest, Finished DEF IInv
<1>7. QED
  BY <1>3, <1>4, <1>5, <1>6 DEF IInv, BooksOK

----------------------------------------------------------------------------
(* Commits *)

\* What a commit of request r may change: the account of its customer, that
\* customer's invoices, the rows named r, and the attempt it books.
CommitFrame(r) ==
    /\ \A d \in Customers : d # req[r].customer => account'[d] = account[d]
    /\ \A i \in Requests :
          \/ invoice'[i] = invoice[i]
          \/ /\ i = r
             /\ req[r].op = "create"
             /\ invoice'[i].customer = req[r].customer
             /\ invoice'[i].wo = req[r].wo
             /\ invoice'[i].status \in InvoiceStatus
          \/ /\ i = req[r].invoice
             /\ req[r].op # "create"
             /\ invoice'[i].customer = invoice[i].customer
             /\ invoice'[i].wo \in {invoice[i].wo, None}
             /\ invoice'[i].status \in InvoiceStatus
             /\ Active(i)
    /\ \A p \in Requests : p # r => payment'[p] = payment[p]
    /\ payment'[r] = payment[r] \/ payment'[r].attempt \in {req[r].attempt, None}
    /\ \A t \in Attempts :
          /\ attempt'[t].invoice = attempt[t].invoice
          /\ attempt[t].status # "ABSENT" => attempt'[t].status # "ABSENT"
          /\ attempt[t].status = "ABSENT" => attempt'[t].status = "ABSENT"

\* What is known of another request survives the commit: the lock keeps every
\* request of the same customer out of its transaction.
LEMMA CommitOther ==
    ASSUME IInv, NEW r \in Requests, NEW q \in Requests, q # r,
           phase[r] = "read", CommitFrame(r),
           req'[q] = req[q], phase'[q] = phase[q], seen'[q] = seen[q]
    PROVE  RequestOK(q)' /\ ReadStillValid(q)'
<1>1. req[r].customer \in Customers /\ RequestOK(r) /\ RequestOK(q) /\ ReadStillValid(q)
  BY DEF IInv, RequestOK
<1>2. RequestOK(q)'
  <2>1. \A i \in Requests : invoice[i].status # "ABSENT" =>
          invoice'[i].status # "ABSENT" /\ invoice'[i].customer = invoice[i].customer
    <3>1. req[r].op = "create" => invoice[r].status = "ABSENT"
      BY <1>1 DEF RequestOK, NoInvoice
    <3>2. "ABSENT" \notin InvoiceStatus
      BY DEF InvoiceStatus
    <3>3. ASSUME NEW i \in Requests, invoice[i].status # "ABSENT"
          PROVE  invoice'[i].status # "ABSENT" /\ invoice'[i].customer = invoice[i].customer
      <4>1. CASE invoice'[i] = invoice[i]
        BY <3>3, <4>1
      <4>2. CASE invoice'[i] # invoice[i]
        BY <3>1, <3>2, <3>3, <4>2 DEF CommitFrame
      <4>3. QED
        BY <4>1, <4>2
    <3>4. QED
      BY <3>3
  <2>2. invoice[q] = NoInvoice => invoice'[q] = NoInvoice
    BY DEF CommitFrame, Active, NoInvoice
  <2>3. payment'[q] = payment[q]
    BY DEF CommitFrame
  <2>4. \A i \in Requests : Targets(q, i) => Targets(q, i)'
    BY <2>1 DEF Targets
  <2>5. req[q].attempt \in Attempts \cup {None} /\ req[q].invoice \in Requests \cup {None}
    BY DEF IInv, TypeOK, Request
  <2>6. QED
    BY <1>1, <2>1, <2>2, <2>3, <2>4, <2>5 DEF RequestOK, CommitFrame, Targets
<1>3. ReadStillValid(q)'
  <2> SUFFICES ASSUME phase[q] = "read"
               PROVE  ReadStillValid(q)'
    BY DEF ReadStillValid
  <2>1. req[q].customer # req[r].customer /\ req[q].customer \in Customers
    BY <1>1, OneInTransaction DEF IInv, InTransaction, RequestOK
  <2>2. account'[req[q].customer] = account[req[q].customer]
    BY <2>1 DEF CommitFrame
  <2>3. ASSUME NEW i \in Requests, i = req[q].invoice
        PROVE  invoice'[i] = invoice[i]
    <3>1. i # None
      BY SetsAssumption DEF SetsAssumption
    <3>2. req[q].op \in {"create", "pay", "cancel"} /\ req[r].op \in {"create", "pay", "cancel"}
      BY <1>1 DEF IInv, TypeOK, Request, RequestOK
    <3>3. Targets(q, i)
      BY <1>1, <2>3, <3>1, <3>2 DEF RequestOK
    <3>4. req[r].op = "create" => i # r
      BY <1>1, <3>3 DEF RequestOK, Targets, NoInvoice
    <3>5. req[r].op # "create" => i # req[r].invoice
      BY <1>1, <2>1, <3>1, <3>2, <3>3 DEF RequestOK, Targets
    <3>6. QED
      BY <3>4, <3>5 DEF CommitFrame
  <2>4. req[q].invoice \in Requests \cup {None}
    BY DEF IInv, TypeOK, Request
  <2>5. Snapshot(q)' = Snapshot(q)
    BY <2>2, <2>3, <2>4 DEF Snapshot
  <2>6. ASSUME req[q].op = "create", req[q].wo # None, Invoiced(req[q].wo)'
        PROVE  FALSE
    <3> DEFINE w == req[q].wo
    <3>1. PICK i \in Requests : Active(i)' /\ invoice'[i].wo = w
      BY <2>6 DEF Invoiced
    <3>2. ~(Active(i) /\ invoice[i].wo = w)
      BY <1>1, <2>6 DEF ReadStillValid, Invoiced
    <3>3. CASE i = r /\ req[r].op = "create" /\ req[r].wo = w
      BY <1>1, <2>1, <2>6, <3>3 DEF RequestOK
    <3>4. QED
      BY <2>6, <3>1, <3>2, <3>3 DEF CommitFrame, Active
  <2>7. ASSUME req[q].op = "pay" PROVE MayPay(q)'
    <3>1. MayPay(q)
      BY <1>1, <2>7 DEF ReadStillValid
    <3>2. ASSUME req[q].attempt # None PROVE ~Booked(req[q].attempt)'
      <4>1. req[r].attempt # req[q].attempt
        BY <1>1, <2>1, <3>2 DEF RequestOK, Targets
      <4>2. QED
        BY <3>1, <3>2, <4>1 DEF MayPay, Booked, CommitFrame
    <3>3. QED
      BY <2>3, <2>4, <3>1, <3>2 DEF MayPay, Active
  <2>8. ASSUME req[q].op = "cancel" PROVE MayCancel(q)'
    BY <1>1, <2>3, <2>8 DEF MayCancel, Active, ReadStillValid, RequestOK, Targets
  <2>9. QED
    BY <2>5, <2>6, <2>7, <2>8, <1>1 DEF ReadStillValid
<1>4. QED
  BY <1>2, <1>3

\* A commit that respects the frame and keeps the books keeps the invariant.
LEMMA CommitKeepsInv ==
    ASSUME IInv, NEW r \in Requests, phase[r] = "read", Finish(r),
           CommitFrame(r), TypeOK', BooksOK'
    PROVE  IInv'
<1>1. LockHeld'
  BY LockHeldFinish DEF IInv, InTransaction, RequestOK
<1>2. ASSUME NEW q \in Requests
      PROVE  RequestOK(q)' /\ ReadStillValid(q)'
  BY Finished, CommitOther DEF IInv
<1>3. QED
  BY <1>1, <1>2 DEF IInv, BooksOK

LEMMA CommitCreateBooks ==
    ASSUME IInv, NEW r \in Requests, CommitCreate(r)
    PROVE  CommitFrame(r) /\ BooksOK'
<1> DEFINE c == req[r].customer
           w == req[r].wo
           g == req[r].amount
           used == AdvanceUsed(r)
           left == AtLeastZero(g - used)
           row == [customer |-> c, wo |-> w, grand |-> g, paid |-> used,
                   remaining |-> left, status |-> StatusFor(used, left)]
<1>1. /\ TypeOK /\ RequestOK(r) /\ ReadStillValid(r) /\ BooksOK
      /\ phase[r] = "read" /\ req[r].op = "create" /\ c \in Customers
      /\ g \in Nat /\ w \in WorkOrders \cup {None}
  BY DEF IInv, BooksOK, CommitCreate, RequestOK, TypeOK, Request
<1>2. used \in Nat /\ used <= g
  BY <1>1, AdvanceUsedType
<1>3. left = g - used
  BY <1>1, <1>2 DEF AtLeastZero
<1>4. StatusFor(used, left) \in InvoiceStatus \ {"CANCELLED"}
  BY <1>1, <1>2, <1>3, StatusForType DEF InvoiceStatus
<1> HIDE DEF used, left
<1>5. /\ invoice' = [invoice EXCEPT ![r] = row]
      /\ \A p \in Requests : p # r => payment'[p] = payment[p]
      /\ payment'[r].attempt = None
      /\ account' = [account EXCEPT ![c] =
            [debits |-> @.debits + g, credits |-> @.credits, balance |-> @.balance + g]]
      /\ attempt' = attempt
  BY <1>1 DEF CommitCreate, used, left, TypeOK, RequestOK, NoPayment
<1>6. /\ invoice'[r] = row
      /\ \A i \in Requests : i # r => invoice'[i] = invoice[i]
      /\ invoice[r] = NoInvoice
      /\ payment[r] = NoPayment
  BY <1>1, <1>5 DEF TypeOK, RequestOK
<1>7. row.status \in InvoiceStatus
  BY <1>4
<1>8. CommitFrame(r)
  BY <1>1, <1>5, <1>6, <1>7 DEF CommitFrame, TypeOK
<1>9. RowsOK'
  BY <1>1, <1>5, <1>6, <1>7 DEF BooksOK, RowsOK, RequestOK, InvoiceStatus
<1>10. LedgerBalanced'
  BY <1>1, <1>5 DEF BooksOK, LedgerBalanced, TypeOK, AccountRow
<1>11. InvoiceCoherent'
  BY <1>1, <1>2, <1>3, <1>6 DEF BooksOK, InvoiceCoherent, Active
<1>12. OneActiveInvoicePerWorkOrder'
  BY <1>1, <1>6 DEF BooksOK, OneActiveInvoicePerWorkOrder, Active, ReadStillValid, Invoiced
<1>13. GatewayBookedOnce'
  <2>1. payment[r].attempt = None
    BY <1>6 DEF NoPayment
  <2>2. \A p \in Requests : payment'[p].attempt = payment[p].attempt
    BY <1>5, <2>1
  <2>3. QED
    BY <1>1, <1>5, <2>2 DEF BooksOK, GatewayBookedOnce, Booked
<1>14. QED
  BY <1>8, <1>9, <1>10, <1>11, <1>12, <1>13 DEF BooksOK

LEMMA CommitPaymentBooks ==
    ASSUME IInv, NEW r \in Requests, CommitPayment(r)
    PROVE  CommitFrame(r) /\ BooksOK'
<1> DEFINE c == req[r].customer
           i == req[r].invoice
           t == req[r].attempt
           a == req[r].amount
           paid == seen[r].paid + a
<1>1. /\ TypeOK /\ RequestOK(r) /\ ReadStillValid(r) /\ BooksOK
      /\ phase[r] = "read" /\ req[r].op = "pay" /\ c \in Customers
      /\ a \in Nat /\ paid \in Nat
      /\ i \in Requests \cup {None} /\ t \in Attempts \cup {None}
      /\ MayPay(r)
  BY DEF IInv, BooksOK, CommitPayment, RequestOK, ReadStillValid, TypeOK, Request, Seen
<1>2. ASSUME i # None
      PROVE  /\ i \in Requests /\ Active(i) /\ invoice[i] \in InvoiceRow
             /\ paid = invoice[i].paid + a
             /\ invoice[i].paid \in Nat /\ invoice[i].grand \in Nat /\ invoice[i].remaining \in Nat
             /\ a <= invoice[i].remaining
             /\ invoice'[i] = Settled(invoice[i], paid)
  BY <1>1, <1>2 DEF ReadStillValid, Snapshot, MayPay, TypeOK, InvoiceRow, CommitPayment
<1>3. /\ \A p \in Requests : p # r => payment'[p] = payment[p]
      /\ payment'[r].attempt = t
      /\ account' = [account EXCEPT ![c] =
            [debits |-> @.debits, credits |-> @.credits + a, balance |-> @.balance - a]]
      /\ \A j \in Requests : j # i => invoice'[j] = invoice[j]
  BY <1>1 DEF CommitPayment, TypeOK
<1> HIDE DEF paid
<1>4. ASSUME i # None
      PROVE  /\ invoice'[i].customer = invoice[i].customer
             /\ invoice'[i].wo = invoice[i].wo
             /\ invoice'[i].grand = invoice[i].grand
             /\ invoice'[i].paid = paid
             /\ invoice'[i].remaining = AtLeastZero(invoice[i].grand - paid)
             /\ invoice'[i].status = StatusFor(paid, invoice[i].grand - paid)
             /\ invoice'[i].status \in InvoiceStatus \ {"CANCELLED"}
  <2> DEFINE old == invoice[i]
             new == Settled(old, paid)
  <2>1. /\ new.customer = old.customer
        /\ new.wo = old.wo
        /\ new.grand = old.grand
        /\ new.paid = paid
        /\ new.remaining = AtLeastZero(old.grand - paid)
        /\ new.status = StatusFor(paid, old.grand - paid)
    BY <1>1, <1>2, <1>4, SettledType
  <2>2. StatusFor(paid, old.grand - paid) \in {"PAID", "PARTIALLY_PAID", "UNPAID"}
    BY <1>1, <1>2, <1>4, StatusForType
  <2>3. invoice'[i] = new
    BY <1>2, <1>4
  <2>4. QED
    BY <2>1, <2>2, <2>3 DEF InvoiceStatus
<1>5. \A u \in Attempts : /\ u # t => attempt'[u] = attempt[u]
                          /\ attempt'[u].invoice = attempt[u].invoice
                          /\ u = t => attempt'[u].status = "PAID" /\ attempt[u].status # "ABSENT"
  BY <1>1, SetsAssumption DEF CommitPayment, TypeOK, RequestOK, SetsAssumption
<1>6. CommitFrame(r)
  <2>1. \A d \in Customers : d # c => account'[d] = account[d]
    BY <1>3 DEF TypeOK
  <2>2. \A j \in Requests : j # i \/ (Active(j) /\ invoice'[j].status \in InvoiceStatus
                                      /\ invoice'[j].customer = invoice[j].customer
                                      /\ invoice'[j].wo = invoice[j].wo)
    BY <1>2, <1>4, SetsAssumption DEF SetsAssumption
  <2>3. QED
    BY <1>1, <1>3, <1>5, <2>1, <2>2 DEF CommitFrame
<1>7. RowsOK'
  <2>1. ASSUME NEW j \in Requests
        PROVE  /\ invoice'[j].customer = invoice[j].customer /\ invoice'[j].wo = invoice[j].wo
               /\ invoice'[j].status # "ABSENT" <=> invoice[j].status # "ABSENT"
    <3>1. CASE j # i
      BY <1>3, <3>1
    <3>2. CASE j = i
      <4>1. i # None
        BY <3>2, SetsAssumption DEF SetsAssumption
      <4>2. invoice[i].status # "ABSENT" /\ invoice'[i].status # "ABSENT"
        BY <1>2, <1>4, <4>1 DEF Active, InvoiceStatus
      <4> QED
        BY <1>4, <3>2, <4>1, <4>2
    <3> QED
      BY <3>1, <3>2
  <2>2. RowsOK
    BY <1>1 DEF BooksOK
  <2>3. \A u \in Attempts : /\ attempt'[u].invoice = attempt[u].invoice
                            /\ attempt'[u].status # "ABSENT" => attempt[u].status # "ABSENT"
    BY <1>5
  <2> QED
    BY <2>1, <2>2, <2>3 DEF RowsOK
<1>8. LedgerBalanced'
  BY <1>1, <1>3 DEF BooksOK, LedgerBalanced, TypeOK, AccountRow
<1>9. InvoiceCoherent'
  <2>1. ASSUME i # None
        PROVE  /\ AtLeastZero(invoice[i].grand - paid) = invoice[i].grand - paid
               /\ invoice[i].paid + invoice[i].remaining = invoice[i].grand
    BY <1>1, <1>2, <2>1 DEF BooksOK, InvoiceCoherent, AtLeastZero
  <2>2. ASSUME NEW j \in Requests, Active(j)'
        PROVE  /\ invoice'[j].paid + invoice'[j].remaining = invoice'[j].grand
               /\ invoice'[j].status = StatusFor(invoice'[j].paid, invoice'[j].remaining)
    <3>1. CASE j = i /\ i # None
      BY <1>1, <1>2, <1>4, <2>1, <3>1
    <3>2. CASE j # i
      BY <1>1, <1>3, <2>2, <3>2 DEF BooksOK, InvoiceCoherent, Active
    <3>3. QED
      BY <3>1, <3>2, SetsAssumption DEF SetsAssumption
  <2>3. QED
    BY <2>2 DEF InvoiceCoherent
<1>10. OneActiveInvoicePerWorkOrder'
  <2>1. \A j \in Requests : invoice'[j].wo = invoice[j].wo /\ (Active(j)' => Active(j))
    BY <1>2, <1>3, <1>4, SetsAssumption DEF Active, SetsAssumption
  <2>2. QED
    BY <1>1, <2>1 DEF BooksOK, OneActiveInvoicePerWorkOrder
<1>11. GatewayBookedOnce'
  <2>1. payment[r].attempt = None
    BY <1>1 DEF RequestOK, NoPayment
  <2>2. t # None => ~Booked(t)
    BY <1>1 DEF MayPay
  <2>3. ASSUME NEW u \in Attempts
        PROVE  /\ (attempt'[u].status = "PAID" <=> Booked(u)')
               /\ \A p, q \in Requests :
                     payment'[p].attempt = u /\ payment'[q].attempt = u => p = q
    <3>1. u # None
      BY SetsAssumption DEF SetsAssumption
    <3>2. CASE u = t
      BY <1>3, <1>5, <2>2, <3>1, <3>2 DEF Booked
    <3>3. CASE u # t
      BY <1>1, <1>3, <1>5, <2>1, <3>1, <3>3 DEF Booked, BooksOK, GatewayBookedOnce
    <3>4. QED
      BY <3>2, <3>3
  <2>4. QED
    BY <2>3 DEF GatewayBookedOnce
<1>12. QED
  BY <1>6, <1>7, <1>8, <1>9, <1>10, <1>11 DEF BooksOK

LEMMA CommitCancelBooks ==
    ASSUME IInv, NEW r \in Requests, CommitCancel(r)
    PROVE  /\ req[r].invoice \in Requests
           /\ CommitFrame(r) /\ BooksOK'
<1> DEFINE c == req[r].customer
           i == req[r].invoice
           s == seen[r]
           debits == AtLeastZero(s.debits - invoice[i].grand)
<1>1. /\ TypeOK /\ RequestOK(r) /\ ReadStillValid(r) /\ BooksOK
      /\ phase[r] = "read" /\ req[r].op = "cancel" /\ c \in Customers
      /\ i \in Requests /\ Active(i) /\ invoice[i] \in InvoiceRow
      /\ invoice[i].grand \in Nat
  BY DEF IInv, BooksOK, CommitCancel, RequestOK, Targets, ReadStillValid, MayCancel,
         TypeOK, InvoiceRow
<1>2. s.debits = account[c].debits /\ s.credits = account[c].credits
  BY <1>1 DEF ReadStillValid, Snapshot
<1>3. debits \in Nat
  BY <1>1, <1>2, AtLeastZeroType DEF TypeOK, AccountRow
<1> HIDE DEF debits
<1>4. /\ payment' = payment /\ attempt' = attempt
      /\ account' = [account EXCEPT ![c] =
            [debits |-> debits, credits |-> @.credits, balance |-> debits - s.credits]]
      /\ \A j \in Requests : j # i => invoice'[j] = invoice[j]
      /\ invoice'[i] = Voided(invoice[i])
  BY <1>1 DEF CommitCancel, TypeOK, debits
<1>5. /\ invoice'[i].customer = invoice[i].customer
      /\ invoice'[i].wo = None
      /\ invoice'[i].status = "CANCELLED"
  BY <1>1, <1>4, VoidedType
<1>7. CommitFrame(r)
  BY <1>1, <1>4, <1>5 DEF CommitFrame, TypeOK, InvoiceStatus
<1>8. RowsOK'
  BY <1>1, <1>4, <1>5 DEF BooksOK, RowsOK, Active
<1>9. LedgerBalanced'
  BY <1>1, <1>2, <1>4 DEF BooksOK, LedgerBalanced, TypeOK, AccountRow
<1>10. InvoiceCoherent'
  BY <1>1, <1>4, <1>5 DEF BooksOK, InvoiceCoherent, Active
<1>11. OneActiveInvoicePerWorkOrder'
  BY <1>1, <1>4, <1>5 DEF BooksOK, OneActiveInvoicePerWorkOrder, Active
<1>12. GatewayBookedOnce'
  BY <1>1, <1>4 DEF BooksOK, GatewayBookedOnce, Booked
<1>13. QED
  BY <1>1, <1>7, <1>8, <1>9, <1>10, <1>11, <1>12 DEF BooksOK

----------------------------------------------------------------------------
(* Steps that no request takes *)

LEMMA CreateAttemptKeepsInv ==
    ASSUME IInv, NEW t \in Attempts, NEW i \in Requests, CreateAttempt(t, i)
    PROVE  IInv'
<1> DEFINE row == [invoice |-> i, amount |-> invoice[i].grand - invoice[i].paid,
                   status |-> "PENDING"]
<1>1. /\ attempt' = [attempt EXCEPT ![t] = row] /\ attempt[t] = NoAttempt
      /\ Active(i) /\ invoice[i].grand > invoice[i].paid
      /\ UNCHANGED <<invoice, payment, account, workOrder, lock, req, phase, seen>>
  BY DEF CreateAttempt
<1>2. TypeOK'
  <2>1. invoice[i].grand - invoice[i].paid \in Nat
    BY <1>1 DEF IInv, TypeOK, InvoiceRow
  <2>2. row \in AttemptRow
    BY <2>1 DEF AttemptRow
  <2>3. QED
    BY <1>1, <2>2 DEF IInv, TypeOK
<1>3. LockHeld'
  BY <1>1 DEF IInv, LockHeld, InTransaction
<1>4. \A u \in Attempts : attempt[u].status # "ABSENT" => attempt'[u] = attempt[u]
  BY <1>1 DEF IInv, TypeOK, NoAttempt
<1>5. ASSUME NEW q \in Requests
      PROVE  RequestOK(q)' /\ ReadStillValid(q)'
  <2>1. req[q].attempt \in Attempts \cup {None}
    BY DEF IInv, TypeOK, Request
  <2>2. RequestOK(q)'
    BY <1>1, <1>4, <2>1 DEF IInv, RequestOK, Targets
  <2>3. ReadStillValid(q)'
    BY <1>1 DEF IInv, ReadStillValid, Snapshot, MayPay, MayCancel, Invoiced, Booked, Active
  <2>4. QED
    BY <2>2, <2>3
<1>6. RowsOK'
  BY <1>1, <1>4 DEF IInv, RowsOK, Active, TypeOK
<1>7. LedgerBalanced' /\ InvoiceCoherent' /\ OneActiveInvoicePerWorkOrder'
  BY <1>1 DEF IInv, LedgerBalanced, InvoiceCoherent, OneActiveInvoicePerWorkOrder, Active
<1>8. GatewayBookedOnce'
  BY <1>1 DEF IInv, GatewayBookedOnce, Booked, TypeOK, NoAttempt
<1>9. QED
  BY <1>2, <1>3, <1>5, <1>6, <1>7, <1>8 DEF IInv

LEMMA WorkOrderStepKeepsInv ==
    ASSUME IInv, NEW w \in WorkOrders, NEW s \in WorkOrderStatus, ChangeWorkOrderStatus(w, s)
    PROVE  IInv'
<1>1. UNCHANGED <<invoice, payment, account, attempt, lock, req, phase, seen>>
  BY DEF ChangeWorkOrderStatus
<1>2. TypeOK'
  BY DEF IInv, TypeOK, ChangeWorkOrderStatus
<1>3. LockHeld'
  BY <1>1 DEF IInv, LockHeld, InTransaction
<1>4. ASSUME NEW q \in Requests
      PROVE  RequestOK(q)' /\ ReadStillValid(q)'
  <2>1. RequestOK(q)'
    BY <1>1 DEF IInv, RequestOK, Targets
  <2>2. ReadStillValid(q)'
    BY <1>1 DEF IInv, ReadStillValid, Snapshot, MayPay, MayCancel, Invoiced, Booked, Active
  <2>3. QED
    BY <2>1, <2>2
<1>5. RowsOK' /\ LedgerBalanced' /\ InvoiceCoherent' /\ OneActiveInvoicePerWorkOrder'
  BY <1>1 DEF IInv, RowsOK, LedgerBalanced, InvoiceCoherent, OneActiveInvoicePerWorkOrder,
     Active
<1>6. GatewayBookedOnce'
  BY <1>1 DEF IInv, GatewayBookedOnce, Booked
<1>7. QED
  BY <1>2, <1>3, <1>4, <1>5, <1>6 DEF IInv

----------------------------------------------------------------------------
(* The inductive invariant and what follows from it *)

LEMMA InitInv == Init => IInv
<1> SUFFICES ASSUME Init PROVE IInv
  OBVIOUS
<1>1. TypeOK
  BY InitType
<1>2. LockHeld
  BY DEF Init, LockHeld, InTransaction
<1>3. ASSUME NEW r \in Requests PROVE RequestOK(r) /\ ReadStillValid(r)
  BY DEF Init, RequestOK, ReadStillValid, NoRequest
<1>4. RowsOK /\ InvoiceCoherent /\ OneActiveInvoicePerWorkOrder
  BY DEF Init, RowsOK, InvoiceCoherent, OneActiveInvoicePerWorkOrder, Active, NoInvoice, NoAttempt
<1>5. LedgerBalanced
  BY DEF Init, LedgerBalanced
<1>6. GatewayBookedOnce
  BY SetsAssumption DEF Init, GatewayBookedOnce, Booked, NoAttempt, NoPayment, SetsAssumption
<1>7. QED
  BY <1>1, <1>2, <1>3, <1>4, <1>5, <1>6 DEF IInv

LEMMA NextInv == IInv /\ [Next]_vars => IInv'
<1> SUFFICES ASSUME IInv, [Next]_vars PROVE IInv'
  OBVIOUS
<1>1. ASSUME NEW r \in Requests, CommitCreate(r) PROVE IInv'
  BY <1>1, CommitCreateType, CommitCreateBooks, CommitKeepsInv DEF IInv, CommitCreate, RequestOK
<1>2. ASSUME NEW r \in Requests, CommitPayment(r) PROVE IInv'
  BY <1>2, CommitPaymentType, CommitPaymentBooks, CommitKeepsInv
  DEF IInv, CommitPayment, RequestOK
<1>3. ASSUME NEW r \in Requests, CommitCancel(r) PROVE IInv'
  BY <1>3, CommitCancelType, CommitCancelBooks, CommitKeepsInv DEF IInv, CommitCancel, RequestOK
<1>4. CASE UNCHANGED vars
  <2>1. TypeOK' /\ LockHeld'
    BY <1>4 DEF vars, tables, IInv, TypeOK, LockHeld, InTransaction
  <2>2. BooksOK'
    BY <1>4, BooksUnchanged DEF vars, IInv, BooksOK
  <2>3. ASSUME NEW q \in Requests PROVE RequestOK(q)' /\ ReadStillValid(q)'
    BY <1>4, OtherRequest DEF vars, IInv
  <2>4. QED
    BY <2>1, <2>2, <2>3 DEF IInv, BooksOK
<1>5. QED
  BY <1>1, <1>2, <1>3, <1>4, StartKeepsInv, AcquireLockKeepsInv, ReadKeepsInv,
     RollbackKeepsInv, CreateAttemptKeepsInv, WorkOrderStepKeepsInv DEF Next

LEMMA Invariance == Spec => []IInv
BY InitInv, NextInv, PTL DEF Spec

\* The rows of every table keep the shape the schema gives them.
THEOREM TypeCorrect == Spec => []TypeOK
<1>1. IInv => TypeOK
  BY DEF IInv
<1>2. QED
  BY <1>1, Invariance, PTL

\* The balance of an account is its debits minus its credits, for any number
\* of concurrent requests: the relative updates of create and pay and the
\* absolute update of cancel never lose one another's effect.
THEOREM BalanceIsDebitsMinusCredits == Spec => []LedgerBalanced
<1>1. IInv => LedgerBalanced
  BY DEF IInv
<1>2. QED
  BY <1>1, Invariance, PTL

\* No interleaving of payments, notifications and cancellations overpays an
\* invoice or leaves its status and its amounts in disagreement.
THEOREM InvoicesCoherent == Spec => []InvoiceCoherent
<1>1. IInv => InvoiceCoherent
  BY DEF IInv
<1>2. QED
  BY <1>1, Invariance, PTL

\* Two requests never both invoice one work order.
THEOREM WorkOrderInvoicedOnce == Spec => []OneActiveInvoicePerWorkOrder
<1>1. IInv => OneActiveInvoicePerWorkOrder
  BY DEF IInv
<1>2. QED
  BY <1>1, Invariance, PTL

\* However often PayTR repeats a notification, its attempt is booked once.
THEOREM AttemptBookedOnce == Spec => []GatewayBookedOnce
<1>1. IInv => GatewayBookedOnce
  BY DEF IInv
<1>2. QED
  BY <1>1, Invariance, PTL

\* A request in flight never touches an invoice that was cancelled meanwhile.
THEOREM CancellationFinal == Spec => CancelledIsFinal
<1> DEFINE Untouched == \A i \in Requests :
              invoice[i].status = "CANCELLED" => invoice'[i] = invoice[i]
<1>1. ASSUME IInv, [Next]_vars PROVE Untouched
  <2>1. ASSUME NEW r \in Requests, CommitFrame(r), RequestOK(r) PROVE Untouched
    BY <2>1 DEF CommitFrame, RequestOK, NoInvoice, Active
  <2>2. ASSUME NEW r \in Requests, CommitCreate(r) PROVE Untouched
    BY <1>1, <2>1, <2>2, CommitCreateBooks DEF IInv
  <2>3. ASSUME NEW r \in Requests, CommitPayment(r) PROVE Untouched
    BY <1>1, <2>1, <2>3, CommitPaymentBooks DEF IInv
  <2>4. ASSUME NEW r \in Requests, CommitCancel(r) PROVE Untouched
    BY <1>1, <2>1, <2>4, CommitCancelBooks DEF IInv
  <2>5. CASE UNCHANGED invoice
    BY <2>5
  <2>6. QED
    BY <1>1, <2>2, <2>3, <2>4, <2>5
    DEF Next, StartCreate, StartPayment, StartAdvance, StartWebhook, StartCancel, Begin,
        AcquireLock, Read, Reject, Abort, CreateAttempt, ChangeWorkOrderStatus, tables, vars
<1>2. IInv /\ [Next]_vars => [Untouched]_invoice
  BY <1>1
<1>3. QED
  BY <1>2, Invariance, PTL DEF Spec, CancelledIsFinal

----------------------------------------------------------------------------
(* Rows and amounts *)

LEMMA RowsFinite ==
    ASSUME NEW S, S \subseteq Requests
    PROVE  IsFiniteSet(S)
BY SetsAssumption, FS_Subset DEF SetsAssumption

LEMMA AmountsAreNat ==
    ASSUME TypeOK, NEW x \in Requests
    PROVE  Grand[x] \in Nat /\ Paid[x] \in Nat /\ Amount[x] \in Nat
BY DEF TypeOK, InvoiceRow, PaymentRow, Grand, Paid, Amount

LEMMA SetsOfRows ==
    ASSUME NEW c
    PROVE  /\ ActiveInvoices(c) \subseteq Requests /\ IsFiniteSet(ActiveInvoices(c))
           /\ Receipts(c) \subseteq Requests /\ IsFiniteSet(Receipts(c))
           /\ Attached(c) \subseteq Requests /\ IsFiniteSet(Attached(c))
           /\ PaymentsOf(c) \subseteq Requests /\ IsFiniteSet(PaymentsOf(c))
<1>1. /\ ActiveInvoices(c) \subseteq Requests
      /\ Receipts(c) \subseteq Requests
      /\ Attached(c) \subseteq Requests
      /\ PaymentsOf(c) \subseteq Requests
  BY DEF ActiveInvoices, Receipts, Attached, PaymentsOf
<1>2. QED
  BY <1>1, RowsFinite

\* The charges in force cover what is said to be paid of them.
LEMMA PaidWithinDebits ==
    ASSUME TypeOK, InvoiceCoherent, DebitsMatchInvoices, AttachedIsPaid, NEW c \in Customers
    PROVE  /\ Total(Attached(c), Amount) \in Nat
           /\ Total(Attached(c), Amount) <= account[c].debits
<1>1. \A i \in ActiveInvoices(c) : Paid[i] \in Nat /\ Grand[i] \in Nat /\ Paid[i] <= Grand[i]
  BY DEF ActiveInvoices, InvoiceCoherent, TypeOK, InvoiceRow, Paid, Grand
<1>2. Total(ActiveInvoices(c), Paid) <= Total(ActiveInvoices(c), Grand)
  BY <1>1, SetsOfRows, TotalMonotone
<1>3. Total(Attached(c), Amount) \in Nat
  BY SetsOfRows, AmountsAreNat, TotalType
<1>4. QED
  BY <1>2, <1>3 DEF DebitsMatchInvoices, AttachedIsPaid

\* The debits of an account contain every charge in force.
LEMMA ChargeWithinDebits ==
    ASSUME TypeOK, DebitsMatchInvoices, NEW c \in Customers, NEW i \in Requests,
           Active(i), invoice[i].customer = c
    PROVE  /\ Total(ActiveInvoices(c) \ {i}, Grand) = account[c].debits - invoice[i].grand
           /\ AtLeastZero(account[c].debits - invoice[i].grand)
                 = account[c].debits - invoice[i].grand
<1>1. i \in ActiveInvoices(c)
  BY DEF ActiveInvoices
<1>2. \A j \in ActiveInvoices(c) : Grand[j] \in Nat
  BY AmountsAreNat, SetsOfRows
<1>3. /\ Total(ActiveInvoices(c) \ {i}, Grand) = Total(ActiveInvoices(c), Grand) - Grand[i]
      /\ Grand[i] <= Total(ActiveInvoices(c), Grand)
  BY <1>1, <1>2, SetsOfRows, TotalRemove
<1>4. account[c].debits = Total(ActiveInvoices(c), Grand) /\ account[c].debits \in Nat
  BY DEF DebitsMatchInvoices, TypeOK, AccountRow
<1>5. Grand[i] = invoice[i].grand /\ Grand[i] \in Nat
  BY AmountsAreNat DEF Grand
<1>6. QED
  BY <1>3, <1>4, <1>5, AtLeastZeroType

----------------------------------------------------------------------------
(* A new invoice *)

LEMMA CreateMoney ==
    ASSUME IInv, MoneyInv, NEW r \in Requests, CommitCreate(r), TypeOK',
           NEW c \in Customers, c = req[r].customer
    PROVE  MoneyInv'
<1> DEFINE g == req[r].amount
           used == AdvanceUsed(r)
           left == AtLeastZero(g - used)
<1>1. /\ TypeOK /\ RequestOK(r) /\ ReadStillValid(r) /\ LedgerBalanced /\ InvoiceCoherent
      /\ phase[r] = "read" /\ req[r].op = "create" /\ c # None
      /\ g \in Nat /\ invoice[r] = NoInvoice /\ payment[r] = NoPayment
      /\ r # None
  BY SetsAssumption DEF IInv, CommitCreate, RequestOK, TypeOK, Request, SetsAssumption
<1>2. used \in Nat
  BY <1>1, AdvanceUsedType
<1>3. used = 0 \/ used <= account[c].credits - account[c].debits
  <2>1. seen[r].balance = account[c].balance
    BY <1>1 DEF ReadStillValid, Snapshot
  <2>2. account[c].balance = account[c].debits - account[c].credits
    BY <1>1 DEF LedgerBalanced
  <2>3. /\ account[c].debits \in Nat /\ account[c].credits \in Nat
        /\ account[c].balance \in Int /\ req[r].offset \in Nat
    BY <1>1 DEF TypeOK, AccountRow, Request
  <2>4. QED
    BY <1>1, <2>1, <2>2, <2>3 DEF AdvanceUsed, SmallerOf
<1>4. StatusFor(used, left) \in {"PAID", "PARTIALLY_PAID", "UNPAID"}
  BY <1>1, <1>2, StatusForType, AtLeastZeroType
<1> HIDE DEF used, left
<1>5. /\ invoice'[r].customer = c /\ invoice'[r].grand = g /\ invoice'[r].paid = used
      /\ invoice'[r].status = StatusFor(used, left)
      /\ \A i \in Requests : i # r => invoice'[i] = invoice[i]
  BY <1>1 DEF CommitCreate, TypeOK, used, left
<1>6. /\ \A p \in Requests : p # r => payment'[p] = payment[p]
      /\ used = 0 => payment'[r] = payment[r]
      /\ used # 0 => /\ payment'[r].customer = c /\ payment'[r].invoice = r
                     /\ payment'[r].amount = used
                     /\ payment'[r].method = "ADVANCE_OFFSET"
  BY <1>1 DEF CommitCreate, TypeOK, used
<1>7. /\ account'[c].debits = account[c].debits + g
      /\ account'[c].credits = account[c].credits
      /\ \A d \in Customers : d # c => account'[d] = account[d]
  BY <1>1 DEF CommitCreate, TypeOK
<1>8. Active(r)' /\ ~Active(r)
  BY <1>1, <1>4, <1>5 DEF Active, NoInvoice
<1>9. /\ \A i \in Requests : i # r => (Active(i)' <=> Active(i))
      /\ \A p \in Requests : payment[p].invoice # r
      /\ payment[r].invoice = None /\ payment[r].customer = None /\ payment[r].method = "ABSENT"
      /\ payment[r].amount = 0
  BY <1>1, <1>5 DEF Active, MoneyInv, PaymentsKnown, NoPayment, NoInvoice
<1>10. /\ \A i \in Requests : i # r => Grand'[i] = Grand[i] /\ Paid'[i] = Paid[i]
       /\ \A p \in Requests : p # r => Amount'[p] = Amount[p]
       /\ Grand'[r] = g /\ Paid'[r] = used /\ Amount'[r] = used
  BY <1>1, <1>5, <1>6, <1>9 DEF Grand, Paid, Amount
<1>11. \A x \in Requests : Grand'[x] \in Nat /\ Paid'[x] \in Nat /\ Amount'[x] \in Nat
  BY <1>1, <1>2, <1>10, AmountsAreNat
<1>12. /\ ActiveInvoices(c)' = ActiveInvoices(c) \cup {r}
       /\ \A d \in Customers : d # c => ActiveInvoices(d)' = ActiveInvoices(d)
       /\ \A d \in Customers : r \notin ActiveInvoices(d)
  BY <1>5, <1>8, <1>9 DEF ActiveInvoices
<1>13. \A d \in Customers : Receipts(d)' = Receipts(d) /\ r \notin Receipts(d)
  BY <1>6, <1>9 DEF Receipts
<1>14. /\ \A d \in Customers : used = 0 \/ d # c => Attached(d)' = Attached(d)
       /\ used # 0 => Attached(c)' = Attached(c) \cup {r}
       /\ \A d \in Customers : r \notin Attached(d)
  <2>1. \A d \in Customers : r \notin Attached(d)
    BY <1>9 DEF Attached
  <2>2. \A p \in Requests, d \in Customers : p # r => (p \in Attached(d)' <=> p \in Attached(d))
    <3> SUFFICES ASSUME NEW p \in Requests, NEW d \in Customers, p # r
                 PROVE  p \in Attached(d)' <=> p \in Attached(d)
      OBVIOUS
    <3>1. payment'[p] = payment[p] /\ payment[p].invoice # r
      BY <1>6, <1>9
    <3>2. payment[p].invoice \in Requests \cup {None}
      BY <1>1 DEF TypeOK, PaymentRow
    <3>3. payment[p].invoice # None => (Active(payment[p].invoice)' <=> Active(payment[p].invoice))
      BY <1>9, <3>1, <3>2
    <3>4. QED
      BY <3>1, <3>2, <3>3 DEF Attached, Active
  <2>3. \A d \in Customers : r \in Attached(d)' <=> used # 0 /\ d = c
    BY <1>1, <1>6, <1>8, <1>9 DEF Attached, Active
  <2>4. \A d \in Customers : Attached(d)' \subseteq Requests /\ Attached(d) \subseteq Requests
    BY DEF Attached
  <2>5. QED
    BY <2>1, <2>2, <2>3, <2>4
<1>15. PaymentsKnown'
  <2>1. \A i \in Requests : invoice[i].status # "ABSENT" =>
           invoice'[i].status # "ABSENT" /\ invoice'[i].customer = invoice[i].customer
    BY <1>1, <1>5 DEF NoInvoice
  <2>2. invoice'[r].status # "ABSENT"
    BY <1>8 DEF Active
  <2>3. QED
    BY <1>1, <1>5, <1>6, <2>1, <2>2 DEF MoneyInv, PaymentsKnown
<1>16. DebitsMatchInvoices'
  <2>1. Total(ActiveInvoices(c) \cup {r}, Grand') = Total(ActiveInvoices(c), Grand) + g
    BY <1>1, <1>10, <1>11, <1>12, SetsOfRows, TotalExtend
  <2>2. \A d \in Customers : Total(ActiveInvoices(d), Grand') = Total(ActiveInvoices(d), Grand)
    BY <1>10, <1>12, SetsOfRows, TotalSame
  <2>3. QED
    BY <1>7, <1>12, <2>1, <2>2 DEF MoneyInv, DebitsMatchInvoices
<1>17. \A d \in Customers : Total(Receipts(d), Amount)' = Total(Receipts(d), Amount)
  <2>1. \A d \in Customers : Total(Receipts(d), Amount') = Total(Receipts(d), Amount)
    BY <1>10, <1>13, SetsOfRows, TotalSame
  <2>2. QED
    BY <1>13, <2>1
<1>18. CreditsMatchReceipts'
  BY <1>7, <1>17 DEF MoneyInv, CreditsMatchReceipts
<1>19. /\ Total(Attached(c), Amount)' = Total(Attached(c), Amount) + used
       /\ \A d \in Customers : d # c => Total(Attached(d), Amount)' = Total(Attached(d), Amount)
  <2>1. \A d \in Customers : Total(Attached(d), Amount') = Total(Attached(d), Amount)
    BY <1>10, <1>14, SetsOfRows, TotalSame
  <2>2. Total(Attached(c) \cup {r}, Amount') = Total(Attached(c), Amount) + used
    <3>1. /\ IsFiniteSet(Attached(c)) /\ r \notin Attached(c)
          /\ \A y \in Attached(c) : Amount[y] = Amount'[y]
          /\ \A y \in Attached(c) \cup {r} : Amount'[y] \in Nat
      BY <1>10, <1>11, <1>14, SetsOfRows
    <3>2. Total(Attached(c) \cup {r}, Amount') = Total(Attached(c), Amount') + Amount'[r]
      BY <3>1, TotalAdd
    <3>3. Total(Attached(c), Amount') = Total(Attached(c), Amount)
      BY <3>1, TotalSame
    <3>4. QED
      BY <1>10, <3>2, <3>3
  <2>3. Total(Attached(c), Amount) \in Nat
    BY <1>1, AmountsAreNat, SetsOfRows, TotalType
  <2>4. QED
    BY <1>14, <2>1, <2>2, <2>3
<1>20. AttachedIsPaid'
  <2>1. Total(ActiveInvoices(c) \cup {r}, Paid') = Total(ActiveInvoices(c), Paid) + used
    <3>1. /\ IsFiniteSet(ActiveInvoices(c)) /\ r \notin ActiveInvoices(c)
          /\ \A y \in ActiveInvoices(c) : Paid[y] = Paid'[y]
          /\ \A y \in ActiveInvoices(c) \cup {r} : Paid'[y] \in Nat
      BY <1>10, <1>11, <1>12, SetsOfRows
    <3>2. Total(ActiveInvoices(c) \cup {r}, Paid') = Total(ActiveInvoices(c), Paid') + Paid'[r]
      BY <3>1, TotalAdd
    <3>3. Total(ActiveInvoices(c), Paid') = Total(ActiveInvoices(c), Paid)
      BY <3>1, TotalSame
    <3>4. QED
      BY <1>10, <3>2, <3>3
  <2>2. \A d \in Customers : Total(ActiveInvoices(d), Paid') = Total(ActiveInvoices(d), Paid)
    BY <1>10, <1>12, SetsOfRows, TotalSame
  <2>3. QED
    BY <1>12, <1>19, <2>1, <2>2 DEF MoneyInv, AttachedIsPaid
<1>21. PaidMatchesPayments'
  <2> SUFFICES ASSUME NEW i \in Requests, invoice'[i].status # "ABSENT"
               PROVE  invoice'[i].paid = Total(PaymentsOf(i), Amount)'
    BY DEF PaidMatchesPayments
  <2>1. CASE i # r
    <3>1. PaymentsOf(i)' = PaymentsOf(i) /\ r \notin PaymentsOf(i)
      BY <1>1, <1>6, <1>9, <2>1, SetsAssumption DEF PaymentsOf, SetsAssumption
    <3>2. Total(PaymentsOf(i), Amount') = Total(PaymentsOf(i), Amount)
      BY <1>10, <3>1, SetsOfRows, TotalSame
    <3>3. QED
      BY <1>5, <2>1, <3>1, <3>2 DEF MoneyInv, PaidMatchesPayments
  <2>2. CASE i = r /\ used = 0
    <3>1. PaymentsOf(r)' = {}
      BY <1>6, <1>9, <2>2 DEF PaymentsOf
    <3>2. QED
      BY <1>5, <2>2, <3>1, TotalEmpty
  <2>3. CASE i = r /\ used # 0
    <3>1. PaymentsOf(r)' = {r}
      BY <1>6, <1>9, <2>3 DEF PaymentsOf
    <3>2. Total({r}, Amount') = used
      BY <1>10, <1>11, TotalSingleton
    <3>3. QED
      BY <1>5, <2>3, <3>1, <3>2
  <2>4. QED
    BY <2>1, <2>2, <2>3
<1>22. AdvanceNotOverspent'
  <2>1. \A d \in Customers : d # c => Total(Attached(d), Amount)' <= Total(Receipts(d), Amount)'
    BY <1>17, <1>19 DEF MoneyInv, AdvanceNotOverspent
  <2>2. Total(Attached(c), Amount) \in Nat /\ Total(Attached(c), Amount) <= account[c].debits
    BY <1>1, PaidWithinDebits DEF MoneyInv
  <2>3. /\ Total(Attached(c), Amount) <= Total(Receipts(c), Amount)
        /\ Total(Receipts(c), Amount) = account[c].credits
        /\ account[c].credits \in Nat /\ account[c].debits \in Nat
    BY <1>1 DEF MoneyInv, AdvanceNotOverspent, CreditsMatchReceipts, TypeOK, AccountRow
  <2>4. Total(Attached(c), Amount) + used <= Total(Receipts(c), Amount)
    BY <1>2, <1>3, <2>2, <2>3
  <2>5. QED
    BY <1>17, <1>19, <2>1, <2>4 DEF AdvanceNotOverspent
<1>23. QED
  BY <1>15, <1>16, <1>18, <1>20, <1>21, <1>22 DEF MoneyInv
----------------------------------------------------------------------------
(* A payment *)

LEMMA PaymentMoney ==
    ASSUME IInv, MoneyInv, NEW r \in Requests, CommitPayment(r), TypeOK',
           NEW c \in Customers, c = req[r].customer,
           NEW i \in Requests \cup {None}, i = req[r].invoice
    PROVE  MoneyInv'
<1> DEFINE a == req[r].amount
           paid == seen[r].paid + a
<1>1. /\ TypeOK /\ RequestOK(r) /\ ReadStillValid(r)
      /\ phase[r] = "read" /\ req[r].op = "pay" /\ c # None
      /\ a \in Nat /\ payment[r] = NoPayment /\ r # None
  BY SetsAssumption DEF IInv, CommitPayment, RequestOK, TypeOK, Request, SetsAssumption
<1>2. ASSUME i # None
      PROVE  /\ i \in Requests /\ Active(i) /\ invoice[i].customer = c
             /\ paid = invoice[i].paid + a
             /\ invoice[i] \in InvoiceRow /\ paid \in Nat
             /\ invoice[i].grand \in Nat /\ invoice[i].paid \in Nat
  BY <1>1, <1>2 DEF ReadStillValid, Snapshot, MayPay, TypeOK, InvoiceRow, RequestOK, Targets
<1>3. /\ i # None => invoice'[i] = Settled(invoice[i], paid)
      /\ \A j \in Requests : j # i => invoice'[j] = invoice[j]
  BY <1>1, <1>2 DEF CommitPayment, TypeOK
<1> HIDE DEF paid
<1>4. ASSUME i # None
      PROVE  /\ invoice'[i].customer = c
             /\ invoice'[i].grand = invoice[i].grand
             /\ invoice'[i].paid = paid
             /\ invoice'[i].status \in {"PAID", "PARTIALLY_PAID", "UNPAID"}
  <2> DEFINE old == invoice[i]
  <2>1. /\ Settled(old, paid).customer = old.customer
        /\ Settled(old, paid).grand = old.grand
        /\ Settled(old, paid).paid = paid
        /\ Settled(old, paid).status = StatusFor(paid, old.grand - paid)
    BY <1>2, <1>4, SettledType
  <2>2. StatusFor(paid, old.grand - paid) \in {"PAID", "PARTIALLY_PAID", "UNPAID"}
    BY <1>2, <1>4, StatusForType
  <2>3. QED
    BY <1>2, <1>3, <1>4, <2>1, <2>2
<1>5. /\ \A p \in Requests : p # r => payment'[p] = payment[p]
      /\ payment'[r].customer = c /\ payment'[r].invoice = i
      /\ payment'[r].amount = a /\ payment'[r].method \in {"CASH", "ONLINE"}
  BY <1>1 DEF CommitPayment, TypeOK
<1>6. /\ account'[c].debits = account[c].debits
      /\ account'[c].credits = account[c].credits + a
      /\ \A d \in Customers : d # c => account'[d] = account[d]
  BY <1>1 DEF CommitPayment, TypeOK
<1>7. /\ \A j \in Requests : Active(j)' <=> Active(j)
      /\ \A j \in Requests : /\ invoice'[j].customer = invoice[j].customer
                             /\ invoice'[j].grand = invoice[j].grand
                             /\ invoice[j].status # "ABSENT" <=> invoice'[j].status # "ABSENT"
  BY <1>2, <1>3, <1>4, SetsAssumption DEF Active, SetsAssumption
<1>8. payment[r].invoice = None /\ payment[r].customer = None /\ payment[r].method = "ABSENT"
  BY <1>1 DEF NoPayment
<1>9. /\ \A j \in Requests : Grand'[j] = Grand[j] /\ (j # i => Paid'[j] = Paid[j])
      /\ \A p \in Requests : p # r => Amount'[p] = Amount[p]
      /\ Amount'[r] = a
      /\ i # None => Paid'[i] = Paid[i] + a
  BY <1>2, <1>3, <1>4, <1>5, <1>7 DEF Grand, Paid, Amount
<1>10. \A x \in Requests : Grand'[x] \in Nat /\ Paid'[x] \in Nat /\ Amount'[x] \in Nat
  <2>1. \A x \in Requests : Grand[x] \in Nat /\ Paid[x] \in Nat /\ Amount[x] \in Nat
    BY <1>1, AmountsAreNat
  <2>2. \A x \in Requests : Amount'[x] \in Nat /\ Grand'[x] \in Nat
    BY <1>1, <1>9, <2>1
  <2>3. \A x \in Requests : Paid'[x] \in Nat
    BY <1>1, <1>9, <2>1, SetsAssumption DEF SetsAssumption
  <2>4. QED
    BY <2>2, <2>3
<1>11. \A d \in Customers : ActiveInvoices(d)' = ActiveInvoices(d)
  BY <1>7 DEF ActiveInvoices
<1>12. /\ Receipts(c)' = Receipts(c) \cup {r}
       /\ \A d \in Customers : d # c => Receipts(d)' = Receipts(d)
       /\ \A d \in Customers : r \notin Receipts(d)
  BY <1>1, <1>5, <1>8 DEF Receipts
<1>13. /\ \A d \in Customers : i = None \/ d # c => Attached(d)' = Attached(d)
       /\ i # None => Attached(c)' = Attached(c) \cup {r}
       /\ \A d \in Customers : r \notin Attached(d)
  <2>1. \A d \in Customers : r \notin Attached(d)
    BY <1>8 DEF Attached
  <2>2. \A p \in Requests, d \in Customers : p # r => (p \in Attached(d)' <=> p \in Attached(d))
    <3> SUFFICES ASSUME NEW p \in Requests, NEW d \in Customers, p # r
                 PROVE  p \in Attached(d)' <=> p \in Attached(d)
      OBVIOUS
    <3>1. payment'[p] = payment[p]
      BY <1>5
    <3>2. payment[p].invoice \in Requests \cup {None}
      BY <1>1 DEF TypeOK, PaymentRow
    <3>3. payment[p].invoice # None => (Active(payment[p].invoice)' <=> Active(payment[p].invoice))
      BY <1>7, <3>1, <3>2
    <3>4. QED
      BY <3>1, <3>2, <3>3 DEF Attached, Active
  <2>3. \A d \in Customers : r \in Attached(d)' <=> i # None /\ d = c
    <3>1. i # None => Active(i)'
      BY <1>2, <1>7
    <3>2. QED
      BY <1>1, <1>5, <3>1 DEF Attached, Active
  <2>4. \A d \in Customers : Attached(d)' \subseteq Requests /\ Attached(d) \subseteq Requests
    BY DEF Attached
  <2>5. QED
    BY <2>1, <2>2, <2>3, <2>4
<1>14. PaymentsKnown'
  <2>1. i # None => invoice'[i].status # "ABSENT"
    BY <1>4
  <2>2. QED
    BY <1>2, <1>4, <1>5, <1>7, <2>1 DEF MoneyInv, PaymentsKnown
<1>15. DebitsMatchInvoices'
  <2>1. \A d \in Customers : Total(ActiveInvoices(d), Grand') = Total(ActiveInvoices(d), Grand)
    BY <1>9, SetsOfRows, TotalSame
  <2>2. QED
    BY <1>6, <1>11, <2>1 DEF MoneyInv, DebitsMatchInvoices
<1>16. /\ Total(Receipts(c), Amount)' = Total(Receipts(c), Amount) + a
       /\ \A d \in Customers : d # c => Total(Receipts(d), Amount)' = Total(Receipts(d), Amount)
  <2>1. \A d \in Customers : Total(Receipts(d), Amount') = Total(Receipts(d), Amount)
    BY <1>9, <1>12, SetsOfRows, TotalSame
  <2>2. /\ IsFiniteSet(Receipts(c)) /\ r \notin Receipts(c)
        /\ \A y \in Receipts(c) \cup {r} : Amount'[y] \in Nat
    BY <1>10, <1>12, SetsOfRows
  <2>3. Total(Receipts(c) \cup {r}, Amount') = Total(Receipts(c), Amount') + Amount'[r]
    BY <2>2, TotalAdd
  <2>4. QED
    BY <1>9, <1>12, <2>1, <2>3
<1>17. CreditsMatchReceipts'
  BY <1>6, <1>16 DEF MoneyInv, CreditsMatchReceipts
<1>18. /\ i # None => Total(Attached(c), Amount)' = Total(Attached(c), Amount) + a
       /\ \A d \in Customers : i = None \/ d # c =>
             Total(Attached(d), Amount)' = Total(Attached(d), Amount)
  <2>1. \A d \in Customers : Total(Attached(d), Amount') = Total(Attached(d), Amount)
    BY <1>9, <1>13, SetsOfRows, TotalSame
  <2>2. /\ IsFiniteSet(Attached(c)) /\ r \notin Attached(c)
        /\ \A y \in Attached(c) \cup {r} : Amount'[y] \in Nat
    BY <1>10, <1>13, SetsOfRows
  <2>3. Total(Attached(c) \cup {r}, Amount') = Total(Attached(c), Amount') + Amount'[r]
    BY <2>2, TotalAdd
  <2>4. QED
    BY <1>9, <1>13, <2>1, <2>3
<1>19. AttachedIsPaid'
  <2>1. \A d \in Customers : i = None \/ d # c =>
           Total(ActiveInvoices(d), Paid') = Total(ActiveInvoices(d), Paid)
    <3>1. \A d \in Customers : i = None \/ d # c => \A j \in ActiveInvoices(d) : Paid'[j] = Paid[j]
      BY <1>2, <1>9, SetsAssumption DEF ActiveInvoices, SetsAssumption
    <3>2. QED
      BY <3>1, TotalSame
  <2>2. ASSUME i # None
        PROVE  Total(ActiveInvoices(c), Paid') = Total(ActiveInvoices(c), Paid) + a
    <3>1. i \in ActiveInvoices(c) /\ IsFiniteSet(ActiveInvoices(c))
          /\ ActiveInvoices(c) \subseteq Requests
      BY <1>2, <2>2, SetsOfRows DEF ActiveInvoices
    <3>2. /\ \A j \in ActiveInvoices(c) : Paid[j] \in Nat /\ Paid'[j] \in Nat
          /\ \A j \in ActiveInvoices(c) \ {i} : Paid[j] = Paid'[j]
      BY <1>1, <1>9, <1>10, <3>1, AmountsAreNat
    <3>3. Total(ActiveInvoices(c), Paid') = Total(ActiveInvoices(c), Paid) - Paid[i] + Paid'[i]
      BY <3>1, <3>2, TotalChange
    <3>4. Total(ActiveInvoices(c), Paid) \in Nat /\ Paid[i] \in Nat
      BY <3>1, <3>2, TotalType
    <3>5. QED
      BY <1>1, <1>9, <2>2, <3>3, <3>4
  <2>3. QED
    BY <1>11, <1>18, <2>1, <2>2 DEF MoneyInv, AttachedIsPaid
<1>20. PaidMatchesPayments'
  <2> SUFFICES ASSUME NEW j \in Requests, invoice'[j].status # "ABSENT"
               PROVE  invoice'[j].paid = Total(PaymentsOf(j), Amount)'
    BY DEF PaidMatchesPayments
  <2>1. r \notin PaymentsOf(j)
    BY <1>8, SetsAssumption DEF PaymentsOf, SetsAssumption
  <2>2. Total(PaymentsOf(j), Amount') = Total(PaymentsOf(j), Amount)
    BY <1>9, <2>1, SetsOfRows, TotalSame
  <2>3. invoice[j].paid = Total(PaymentsOf(j), Amount)
    BY <1>7 DEF MoneyInv, PaidMatchesPayments
  <2>4. CASE j # i
    <3>1. PaymentsOf(j)' = PaymentsOf(j)
      BY <1>5, <1>8, <2>4, SetsAssumption DEF PaymentsOf, SetsAssumption
    <3>2. QED
      BY <1>3, <2>2, <2>3, <2>4, <3>1
  <2>5. CASE j = i
    <3>1. PaymentsOf(j)' = PaymentsOf(j) \cup {r}
      BY <1>5, <1>8, <2>5 DEF PaymentsOf
    <3>2. /\ IsFiniteSet(PaymentsOf(j))
          /\ \A y \in PaymentsOf(j) \cup {r} : Amount'[y] \in Nat
      BY <1>10, SetsOfRows
    <3>3. Total(PaymentsOf(j) \cup {r}, Amount') = Total(PaymentsOf(j), Amount') + Amount'[r]
      BY <2>1, <3>2, TotalAdd
    <3>4. invoice'[j].paid = invoice[j].paid + a
      BY <1>2, <1>4, <2>5, SetsAssumption DEF SetsAssumption
    <3>5. QED
      BY <1>9, <2>2, <2>3, <3>1, <3>3, <3>4
  <2>6. QED
    BY <2>4, <2>5
<1>21. AdvanceNotOverspent'
  <2>1. \A d \in Customers : d # c => Total(Attached(d), Amount)' <= Total(Receipts(d), Amount)'
    BY <1>16, <1>18 DEF MoneyInv, AdvanceNotOverspent
  <2>2. /\ Total(Attached(c), Amount) \in Nat /\ Total(Receipts(c), Amount) \in Nat
        /\ Total(Attached(c), Amount) <= Total(Receipts(c), Amount)
    <3>1. Total(Attached(c), Amount) \in Nat /\ Total(Receipts(c), Amount) \in Nat
      BY <1>1, AmountsAreNat, SetsOfRows, TotalType
    <3>2. QED
      BY <3>1 DEF MoneyInv, AdvanceNotOverspent
  <2>3. Total(Attached(c), Amount)' <= Total(Receipts(c), Amount)'
    BY <1>1, <1>16, <1>18, <2>2
  <2>4. QED
    BY <2>1, <2>3 DEF AdvanceNotOverspent
<1>22. QED
  BY <1>14, <1>15, <1>17, <1>19, <1>20, <1>21 DEF MoneyInv

----------------------------------------------------------------------------
(* A cancellation *)

\* Invoices, payments and accounts are written by the three commits only.
LEMMA OnlyCommitsWrite ==
    ASSUME Next, ~UNCHANGED <<invoice, payment, account>>
    PROVE  \E r \in Requests : CommitCreate(r) \/ CommitPayment(r) \/ CommitCancel(r)
<1>1. ASSUME NEW r, NEW op, NEW c, NEW w, NEW i, NEW a, NEW o, NEW t, Begin(r, op, c, w, i, a, o, t)
      PROVE  UNCHANGED <<invoice, payment, account>>
  BY <1>1 DEF Begin, tables
<1>2. ASSUME NEW r, AcquireLock(r) \/ Read(r) \/ Reject(r) \/ Abort(r)
      PROVE  UNCHANGED <<invoice, payment, account>>
  BY <1>2 DEF AcquireLock, Read, Reject, Abort, tables
<1>3. ASSUME NEW t, NEW i, CreateAttempt(t, i) PROVE UNCHANGED <<invoice, payment, account>>
  BY <1>3 DEF CreateAttempt
<1>4. ASSUME NEW w, NEW s, ChangeWorkOrderStatus(w, s) PROVE UNCHANGED <<invoice, payment, account>>
  BY <1>4 DEF ChangeWorkOrderStatus
<1>5. ASSUME NEW r \in Requests,
             \/ \E c \in Customers, w \in WorkOrders \cup {None}, g \in GrandTotals,
                   o \in PayAmounts \cup {0} : StartCreate(r, c, w, g, o)
             \/ \E i \in Requests, a \in PayAmounts : StartPayment(r, i, a)
             \/ \E c \in Customers, a \in PayAmounts : StartAdvance(r, c, a)
             \/ \E t \in Attempts, i \in Requests : StartWebhook(r, t, i)
             \/ \E i \in Requests : StartCancel(r, i)
      PROVE  UNCHANGED <<invoice, payment, account>>
  BY <1>1, <1>5, Zenon DEF StartCreate, StartPayment, StartAdvance, StartWebhook, StartCancel
<1> QED
  BY <1>2, <1>3, <1>4, <1>5, Zenon DEF Next

\* What a cancellation goes by: the invoice is the customer's and in force, and the
\* account is as it was read.
LEMMA CancelReads ==
    ASSUME IInv, NEW r \in Requests, CommitCancel(r)
    PROVE  /\ TypeOK /\ RequestOK(r) /\ ReadStillValid(r)
           /\ phase[r] = "read" /\ req[r].op = "cancel"
           /\ req[r].customer \in Customers /\ req[r].invoice \in Requests
           /\ Active(req[r].invoice) /\ invoice[req[r].invoice].customer = req[r].customer
           /\ invoice[req[r].invoice] \in InvoiceRow
           /\ seen[r].debits = account[req[r].customer].debits
           /\ seen[r].credits = account[req[r].customer].credits
<1>1. TypeOK /\ RequestOK(r) /\ ReadStillValid(r)
  BY DEF IInv
<1>2. phase[r] = "read" /\ req[r].op = "cancel"
  BY DEF CommitCancel
<1>3. /\ req[r].customer \in Customers /\ req[r].invoice \in Requests
      /\ invoice[req[r].invoice].customer = req[r].customer
  BY <1>1, <1>2 DEF RequestOK, Targets
<1>4. Active(req[r].invoice)
  BY <1>1, <1>2 DEF ReadStillValid, MayCancel
<1>5. invoice[req[r].invoice] \in InvoiceRow
  BY <1>1, <1>3 DEF TypeOK
<1>6. seen[r] = Snapshot(r)
  BY <1>1, <1>2 DEF ReadStillValid
<1>7. /\ seen[r].debits = account[req[r].customer].debits
      /\ seen[r].credits = account[req[r].customer].credits
  BY <1>6 DEF Snapshot
<1> QED
  BY <1>1, <1>2, <1>3, <1>4, <1>5, <1>7

LEMMA CancelMoney ==
    ASSUME IInv, MoneyInv, NEW r \in Requests, CommitCancel(r), TypeOK',
           NEW c \in Customers, c = req[r].customer,
           NEW i \in Requests, i = req[r].invoice
    PROVE  MoneyInv'
<1> DEFINE s == seen[r]
           debits == AtLeastZero(s.debits - invoice[i].grand)
<1>1. /\ TypeOK /\ RequestOK(r) /\ ReadStillValid(r)
      /\ phase[r] = "read" /\ req[r].op = "cancel"
      /\ Active(i) /\ invoice[i].customer = c /\ i # None
      /\ invoice[i] \in InvoiceRow /\ s.debits = account[c].debits
  BY CancelReads, SetsAssumption DEF SetsAssumption
<1>2. /\ payment' = payment
      /\ \A j \in Requests : j # i => invoice'[j] = invoice[j]
      /\ invoice'[i] = Voided(invoice[i])
      /\ account'[c].debits = debits /\ account'[c].credits = account[c].credits
      /\ \A d \in Customers : d # c => account'[d] = account[d]
  BY <1>1 DEF CommitCancel, TypeOK
<1> HIDE DEF debits
<1>3. /\ invoice'[i].customer = c
      /\ invoice'[i].grand = invoice[i].grand /\ invoice'[i].paid = invoice[i].paid
      /\ invoice'[i].status = "CANCELLED"
  BY <1>1, <1>2, VoidedType
<1>4. /\ \A j \in Requests : Active(j)' <=> Active(j) /\ j # i
      /\ \A j \in Requests : /\ invoice'[j].customer = invoice[j].customer
                             /\ invoice'[j].grand = invoice[j].grand
                             /\ invoice'[j].paid = invoice[j].paid
                             /\ invoice[j].status # "ABSENT" <=> invoice'[j].status # "ABSENT"
  BY <1>1, <1>2, <1>3 DEF Active
<1>5. Grand' = Grand /\ Paid' = Paid /\ Amount' = Amount
  BY <1>2, <1>4 DEF Grand, Paid, Amount
<1>6. /\ ActiveInvoices(c)' = ActiveInvoices(c) \ {i}
      /\ i \in ActiveInvoices(c)
      /\ \A d \in Customers : d # c => ActiveInvoices(d)' = ActiveInvoices(d)
  BY <1>1, <1>4 DEF ActiveInvoices
<1>7. /\ \A d \in Customers : Receipts(d)' = Receipts(d)
      /\ \A j \in Requests : PaymentsOf(j)' = PaymentsOf(j)
  BY <1>2 DEF Receipts, PaymentsOf
<1>8. /\ Attached(c)' = Attached(c) \ PaymentsOf(i)
      /\ PaymentsOf(i) \subseteq Attached(c)
      /\ \A d \in Customers : d # c => Attached(d)' = Attached(d)
  <2>1. \A p \in Requests : payment[p].invoice = i => payment[p].customer = c
    BY <1>1 DEF MoneyInv, PaymentsKnown, NoPayment
  <2>2. \A p \in Requests, d \in Customers :
           p \in Attached(d)' <=> p \in Attached(d) /\ payment[p].invoice # i
    <3> SUFFICES ASSUME NEW p \in Requests, NEW d \in Customers
                 PROVE  p \in Attached(d)' <=> p \in Attached(d) /\ payment[p].invoice # i
      OBVIOUS
    <3>1. payment[p].invoice \in Requests \cup {None}
      BY <1>1 DEF TypeOK, PaymentRow
    <3>2. payment[p].invoice # None =>
             (Active(payment[p].invoice)' <=> Active(payment[p].invoice) /\ payment[p].invoice # i)
      BY <1>2, <1>4, <3>1
    <3>3. QED
      BY <1>2, <3>1, <3>2 DEF Attached, Active
  <2>3. \A d \in Customers : Attached(d)' \subseteq Requests /\ Attached(d) \subseteq Requests
    BY DEF Attached
  <2>4. PaymentsOf(i) = {p \in Requests : payment[p].invoice = i}
    BY DEF PaymentsOf
  <2>5. PaymentsOf(i) \subseteq Attached(c)
    BY <1>1, <2>1, <2>4 DEF Attached
  <2>6. \A d \in Customers : d # c => \A p \in Attached(d) : payment[p].invoice # i
    BY <2>1 DEF Attached
  <2>7. QED
    BY <2>2, <2>3, <2>4, <2>5, <2>6
<1>9. PaymentsKnown'
  BY <1>2, <1>4 DEF MoneyInv, PaymentsKnown
<1>10. DebitsMatchInvoices'
  <2>1. /\ Total(ActiveInvoices(c) \ {i}, Grand) = account[c].debits - invoice[i].grand
        /\ debits = account[c].debits - invoice[i].grand
    BY <1>1, ChargeWithinDebits DEF MoneyInv, debits
  <2>2. \A d \in Customers : d # c => account[d].debits = Total(ActiveInvoices(d), Grand)
    BY DEF MoneyInv, DebitsMatchInvoices
  <2>3. QED
    BY <1>2, <1>5, <1>6, <2>1, <2>2 DEF DebitsMatchInvoices
<1>11. CreditsMatchReceipts'
  BY <1>2, <1>5, <1>7 DEF MoneyInv, CreditsMatchReceipts
<1>12. PaidMatchesPayments'
  BY <1>4, <1>5, <1>7 DEF MoneyInv, PaidMatchesPayments
<1>13. /\ Total(Attached(c), Amount)' = Total(Attached(c), Amount) - invoice[i].paid
       /\ \A d \in Customers : d # c => Total(Attached(d), Amount)' = Total(Attached(d), Amount)
       /\ Total(Attached(c), Amount) \in Nat
  <2> DEFINE rest == Attached(c) \ PaymentsOf(i)
  <2>1. /\ IsFiniteSet(rest) /\ IsFiniteSet(PaymentsOf(i)) /\ rest \cap PaymentsOf(i) = {}
        /\ rest \cup PaymentsOf(i) = Attached(c)
        /\ \A y \in rest \cup PaymentsOf(i) : Amount[y] \in Nat
    <3>1. rest \subseteq Requests
      BY SetsOfRows
    <3>2. IsFiniteSet(rest) /\ IsFiniteSet(PaymentsOf(i))
      BY <3>1, RowsFinite, SetsOfRows
    <3>3. QED
      BY <1>1, <1>8, <3>2, SetsOfRows, AmountsAreNat
  <2>2. Total(rest \cup PaymentsOf(i), Amount) = Total(rest, Amount) + Total(PaymentsOf(i), Amount)
    BY <2>1, TotalDisjoint
  <2>3. Total(rest, Amount) \in Nat /\ Total(PaymentsOf(i), Amount) \in Nat
    BY <2>1, TotalType
  <2>4. invoice[i].paid = Total(PaymentsOf(i), Amount)
    BY <1>1 DEF MoneyInv, PaidMatchesPayments, Active
  <2>5. Total(Attached(c), Amount) = Total(rest, Amount) + invoice[i].paid
    BY <2>1, <2>2, <2>4
  <2>6. Total(Attached(c), Amount)' = Total(rest, Amount)
    BY <1>5, <1>8
  <2>7. QED
    BY <1>5, <1>8, <2>3, <2>4, <2>5, <2>6
<1>14. AttachedIsPaid'
  <2>1. \A j \in ActiveInvoices(c) : Paid[j] \in Nat
    BY <1>1, AmountsAreNat, SetsOfRows
  <2>2. Total(ActiveInvoices(c) \ {i}, Paid) = Total(ActiveInvoices(c), Paid) - Paid[i]
    BY <1>6, <2>1, SetsOfRows, TotalRemove
  <2>3. Paid[i] = invoice[i].paid
    BY DEF Paid
  <2>4. \A d \in Customers : Total(Attached(d), Amount) = Total(ActiveInvoices(d), Paid)
    BY DEF MoneyInv, AttachedIsPaid
  <2>5. QED
    BY <1>5, <1>6, <1>13, <2>2, <2>3, <2>4 DEF AttachedIsPaid
<1>15. AdvanceNotOverspent'
  <2>1. \A d \in Customers : Total(Attached(d), Amount) <= Total(Receipts(d), Amount)
    BY DEF MoneyInv, AdvanceNotOverspent
  <2>2. Total(Receipts(c), Amount) \in Nat /\ invoice[i].paid \in Nat
    BY <1>1, AmountsAreNat, SetsOfRows, TotalType DEF InvoiceRow
  <2>3. QED
    BY <1>5, <1>7, <1>13, <2>1, <2>2 DEF AdvanceNotOverspent
<1>16. QED
  BY <1>9, <1>10, <1>11, <1>12, <1>14, <1>15 DEF MoneyInv

----------------------------------------------------------------------------
(* The sums hold in every reachable state *)

LEMMA InitMoney == Init => MoneyInv
<1> SUFFICES ASSUME Init PROVE MoneyInv
  OBVIOUS
<1>1. /\ \A i \in Requests : ~Active(i) /\ invoice[i].status = "ABSENT"
      /\ \A p \in Requests : payment[p] = NoPayment
      /\ \A c \in Customers : account[c].debits = 0 /\ account[c].credits = 0
  BY DEF Init, Active, NoInvoice
<1>2. \A c \in Customers : ActiveInvoices(c) = {} /\ Receipts(c) = {} /\ Attached(c) = {}
  BY <1>1, SetsAssumption DEF ActiveInvoices, Receipts, Attached, NoPayment, SetsAssumption
<1>3. Total({}, Grand) = 0 /\ Total({}, Paid) = 0 /\ Total({}, Amount) = 0
  BY TotalEmpty
<1>4. ASSUME NEW c \in Customers
      PROVE  /\ Total(ActiveInvoices(c), Grand) = 0 /\ Total(ActiveInvoices(c), Paid) = 0
             /\ Total(Receipts(c), Amount) = 0 /\ Total(Attached(c), Amount) = 0
  BY <1>2, <1>3
<1>5. PaymentsKnown /\ PaidMatchesPayments
  BY <1>1 DEF PaymentsKnown, PaidMatchesPayments
<1>6. AttachedIsPaid /\ AdvanceNotOverspent
  BY <1>4 DEF AttachedIsPaid, AdvanceNotOverspent
<1>7. DebitsMatchInvoices /\ CreditsMatchReceipts
  BY <1>1, <1>4 DEF DebitsMatchInvoices, CreditsMatchReceipts
<1>8. QED
  BY <1>5, <1>6, <1>7 DEF MoneyInv

LEMMA MoneyUnchanged ==
    ASSUME MoneyInv, UNCHANGED <<invoice, payment, account>>
    PROVE  MoneyInv'
<1>1. Grand' = Grand /\ Paid' = Paid /\ Amount' = Amount
  BY DEF Grand, Paid, Amount
<1>2. \A x : /\ ActiveInvoices(x)' = ActiveInvoices(x)
             /\ Receipts(x)' = Receipts(x)
             /\ Attached(x)' = Attached(x)
             /\ PaymentsOf(x)' = PaymentsOf(x)
  BY DEF ActiveInvoices, Receipts, Attached, PaymentsOf, Active
<1>3. PaymentsKnown'
  BY DEF MoneyInv, PaymentsKnown
<1>4. AttachedIsPaid' /\ AdvanceNotOverspent'
  BY <1>1, <1>2 DEF MoneyInv, AttachedIsPaid, AdvanceNotOverspent
<1>5. DebitsMatchInvoices' /\ CreditsMatchReceipts' /\ PaidMatchesPayments'
  BY <1>1, <1>2 DEF MoneyInv, DebitsMatchInvoices, CreditsMatchReceipts, PaidMatchesPayments
<1>6. QED
  BY <1>3, <1>4, <1>5 DEF MoneyInv

\* Only the three commits touch invoices, payments or accounts.
LEMMA NextMoney ==
    ASSUME IInv, IInv', MoneyInv, [Next]_vars
    PROVE  MoneyInv'
<1>1. TypeOK'
  BY DEF IInv
<1>2. ASSUME NEW r \in Requests
      PROVE  /\ req[r].invoice \in Requests \cup {None}
             /\ phase[r] = "read" => req[r].customer \in Customers
             /\ req[r].op = "cancel" => req[r].invoice \in Requests
  BY DEF IInv, TypeOK, Request, RequestOK, Targets
<1>3. ASSUME NEW r \in Requests, CommitCreate(r) PROVE MoneyInv'
  <2>1. req[r].customer \in Customers
    BY <1>2, <1>3 DEF CommitCreate
  <2>2. PICK c \in Customers : c = req[r].customer
    BY <2>1
  <2>3. QED
    BY <1>1, <1>3, <2>2, CreateMoney
<1>4. ASSUME NEW r \in Requests, CommitPayment(r) PROVE MoneyInv'
  <2>1. req[r].customer \in Customers /\ req[r].invoice \in Requests \cup {None}
    BY <1>2, <1>4 DEF CommitPayment
  <2>2. PICK c \in Customers, i \in Requests \cup {None} :
           c = req[r].customer /\ i = req[r].invoice
    BY <2>1
  <2>3. QED
    BY <1>1, <1>4, <2>2, PaymentMoney
<1>5. ASSUME NEW r \in Requests, CommitCancel(r) PROVE MoneyInv'
  <2>1. req[r].customer \in Customers /\ req[r].invoice \in Requests
    BY <1>2, <1>5 DEF CommitCancel
  <2>2. PICK c \in Customers, i \in Requests : c = req[r].customer /\ i = req[r].invoice
    BY <2>1
  <2>3. QED
    BY <1>1, <1>5, <2>2, CancelMoney
<1>6. CASE UNCHANGED <<invoice, payment, account>>
  BY <1>6, MoneyUnchanged
<1>7. QED
  <2>1. CASE UNCHANGED vars
    BY <1>6, <2>1 DEF vars, tables
  <2>2. CASE Next
    BY <1>3, <1>4, <1>5, <1>6, <2>2, OnlyCommitsWrite
  <2>3. QED
    BY <2>1, <2>2

LEMMA MoneyInvariance == Spec => []MoneyInv
<1>1. MoneyInv /\ IInv /\ IInv' /\ [Next]_vars => MoneyInv'
  BY NextMoney
<1>2. QED
  BY <1>1, InitMoney, Invariance, PTL DEF Spec

\* total_debits is the sum of the invoices in force, total_credits of the money
\* received, and paid_amount of an invoice of its payments: no interleaving loses
\* a document or counts one twice.
THEOREM MoneyIsItsDocuments == Spec => []MoneyMatchesDocuments
<1>1. MoneyInv => MoneyMatchesDocuments
  BY DEF MoneyInv, MoneyMatchesDocuments, AccountMatchesDocuments
<1>2. QED
  BY <1>1, MoneyInvariance, PTL

\* No advance is spent twice: what is attached to invoices in force was paid.
THEOREM AdvanceSpentOnce == Spec => []AdvanceNotOverspent
<1>1. MoneyInv => AdvanceNotOverspent
  BY DEF MoneyInv
<1>2. QED
  BY <1>1, MoneyInvariance, PTL

----------------------------------------------------------------------------
(* The ledger the requests implement *)

LEMMA InitLedger == Init => Abstract!Init
<1> SUFFICES ASSUME Init PROVE Abstract!Init
  OBVIOUS
<1>1. Charges = [d \in Requests |-> Abstract!Blank]
  BY DEF Init, Charges, Abstract!Blank, NoInvoice
<1>2. Received = [d \in Requests |-> Abstract!Blank]
  BY DEF Init, Received, Abstract!Blank, NoPayment
<1>3. Balances = [c \in Customers |-> 0]
  BY DEF Init, Balances
<1>4. QED
  BY <1>1, <1>2, <1>3 DEF Abstract!Init

LEMMA CreateIsCharge ==
    ASSUME IInv, NEW r \in Requests, CommitCreate(r)
    PROVE  Abstract!Next
<1> DEFINE c == req[r].customer
           g == req[r].amount
           used == AdvanceUsed(r)
           left == AtLeastZero(g - used)
<1>1. /\ TypeOK /\ RequestOK(r) /\ c \in Customers /\ g \in Nat
      /\ invoice[r] = NoInvoice /\ payment[r] = NoPayment
  BY DEF IInv, CommitCreate, RequestOK, TypeOK, Request
<1>2. StatusFor(used, left) \in {"PAID", "PARTIALLY_PAID", "UNPAID"}
  BY <1>1, AdvanceUsedType, StatusForType, AtLeastZeroType
<1> HIDE DEF used, left
<1>3. /\ invoice'[r].customer = c /\ invoice'[r].grand = g
      /\ invoice'[r].status = StatusFor(used, left)
      /\ \A i \in Requests : i # r => invoice'[i] = invoice[i]
      /\ \A p \in Requests : p # r => payment'[p] = payment[p]
      /\ payment'[r].method \in {"ABSENT", "ADVANCE_OFFSET"}
      /\ account' = [account EXCEPT ![c] =
            [debits |-> @.debits + g, credits |-> @.credits, balance |-> @.balance + g]]
  BY <1>1 DEF CommitCreate, TypeOK, used, left, NoPayment
<1>4. Charges[r] = Abstract!Blank
  BY <1>1 DEF Charges, Abstract!Blank, NoInvoice
<1>5. Charges'[r] = [state |-> "posted", customer |-> c, amount |-> g]
  BY <1>2, <1>3 DEF Charges
<1>6. \A e \in Requests \ {r} : Charges'[e] = Charges[e]
  BY <1>3 DEF Charges
<1>7. Received' = Received
  BY <1>1, <1>3 DEF Received, NoPayment
<1>8. Balances' = [Balances EXCEPT ![c] = @ + g]
  BY <1>1, <1>3 DEF Balances, TypeOK
<1>9. Abstract!Charge(r, c)
  BY <1>1, <1>4, <1>5, <1>6, <1>7, <1>8 DEF Abstract!Charge, Abstract!Posted
<1>10. QED
  <2>1. PICK d \in Customers : d = c
    BY <1>1
  <2>2. Abstract!Charge(r, d)
    BY <1>9, <2>1 DEF Abstract!Charge, Abstract!Posted
  <2>3. QED
    BY <2>2 DEF Abstract!Next

LEMMA PaymentIsReceipt ==
    ASSUME IInv, NEW r \in Requests, CommitPayment(r)
    PROVE  Abstract!Next
<1> DEFINE c == req[r].customer
           i == req[r].invoice
           a == req[r].amount
           paid == seen[r].paid + a
<1>1. /\ TypeOK /\ RequestOK(r) /\ ReadStillValid(r) /\ c \in Customers /\ a \in Nat
      /\ payment[r] = NoPayment /\ i \in Requests \cup {None}
      /\ paid \in Nat
  BY DEF IInv, CommitPayment, RequestOK, TypeOK, Request, Seen
<1>2. ASSUME i # None
      PROVE  i \in Requests /\ Active(i) /\ invoice[i] \in InvoiceRow /\ invoice[i].grand \in Nat
  BY <1>1, <1>2 DEF CommitPayment, ReadStillValid, MayPay, TypeOK, InvoiceRow
<1>3. /\ i # None => invoice'[i] = Settled(invoice[i], paid)
      /\ \A j \in Requests : j # i => invoice'[j] = invoice[j]
      /\ \A p \in Requests : p # r => payment'[p] = payment[p]
      /\ payment'[r].customer = c /\ payment'[r].amount = a
      /\ payment'[r].method \in {"CASH", "ONLINE"}
      /\ account' = [account EXCEPT ![c] =
            [debits |-> @.debits, credits |-> @.credits + a, balance |-> @.balance - a]]
  BY <1>1, <1>2 DEF CommitPayment, TypeOK
<1> HIDE DEF paid
<1>4. ASSUME NEW j \in Requests PROVE Charges'[j] = Charges[j]
  <2>1. CASE j = i
    <3>1. /\ Settled(invoice[j], paid).customer = invoice[j].customer
          /\ Settled(invoice[j], paid).grand = invoice[j].grand
          /\ Settled(invoice[j], paid).status = StatusFor(paid, invoice[j].grand - paid)
      BY <1>1, <1>2, <2>1, SettledType DEF TypeOK
    <3>2. StatusFor(paid, invoice[j].grand - paid) \in {"PAID", "PARTIALLY_PAID", "UNPAID"}
      BY <1>1, StatusForType DEF TypeOK, InvoiceRow
    <3>3. invoice'[j] = Settled(invoice[j], paid) /\ Active(j)
      BY <1>2, <1>3, <2>1, SetsAssumption DEF SetsAssumption
    <3>4. QED
      BY <3>1, <3>2, <3>3 DEF Charges, Active
  <2>2. CASE j # i
    BY <1>3, <2>2 DEF Charges
  <2>3. QED
    BY <2>1, <2>2
<1>5. Charges' = Charges
  BY <1>4 DEF Charges
<1>6. Received[r] = Abstract!Blank
  BY <1>1 DEF Received, Abstract!Blank, NoPayment
<1>7. Received'[r] = [state |-> "posted", customer |-> c, amount |-> a]
  BY <1>3 DEF Received
<1>8. \A e \in Requests \ {r} : Received'[e] = Received[e]
  BY <1>3 DEF Received
<1>9. Balances' = [Balances EXCEPT ![c] = @ - a]
  BY <1>1, <1>3 DEF Balances, TypeOK
<1>10. Abstract!Receive(r, c)
  BY <1>1, <1>5, <1>6, <1>7, <1>8, <1>9 DEF Abstract!Receive, Abstract!Posted
<1>11. QED
  <2>1. PICK d \in Customers : d = c
    BY <1>1
  <2>2. Abstract!Receive(r, d)
    BY <1>10, <2>1 DEF Abstract!Receive, Abstract!Posted
  <2>3. QED
    BY <2>2 DEF Abstract!Next

\* The account is written from what was read; because debits contain the
\* charge, the Math.max of the code never bites.
LEMMA CancelIsReversal ==
    ASSUME IInv, MoneyInv, NEW r \in Requests, CommitCancel(r)
    PROVE  Abstract!Next
<1> DEFINE c == req[r].customer
           i == req[r].invoice
           s == seen[r]
           g == invoice[i].grand
           debits == AtLeastZero(s.debits - g)
<1>1. /\ TypeOK /\ c \in Customers /\ i \in Requests /\ Active(i)
      /\ invoice[i].customer = c /\ invoice[i] \in InvoiceRow /\ g \in Nat
      /\ s.debits = account[c].debits /\ s.credits = account[c].credits
      /\ account[c].balance = account[c].debits - account[c].credits
      /\ account[c] \in AccountRow
  <2>1. /\ TypeOK /\ c \in Customers /\ i \in Requests /\ Active(i)
        /\ invoice[i].customer = c /\ invoice[i] \in InvoiceRow
        /\ s.debits = account[c].debits /\ s.credits = account[c].credits
    BY CancelReads
  <2>2. g \in Nat
    BY <2>1 DEF InvoiceRow
  <2>3. account[c] \in AccountRow
    BY <2>1 DEF TypeOK
  <2>4. account[c].balance = account[c].debits - account[c].credits
    BY <2>1 DEF IInv, BooksOK, LedgerBalanced
  <2> QED
    BY <2>1, <2>2, <2>3, <2>4
<1>2. /\ payment' = payment
      /\ \A j \in Requests : j # i => invoice'[j] = invoice[j]
      /\ invoice'[i] = Voided(invoice[i])
      /\ account' = [account EXCEPT ![c] =
            [debits |-> debits, credits |-> @.credits, balance |-> debits - s.credits]]
  BY <1>1 DEF CommitCancel, TypeOK
<1>3. debits = account[c].debits - g
  BY <1>1, ChargeWithinDebits DEF MoneyInv
<1> HIDE DEF debits
<1>4. /\ invoice'[i].customer = c /\ invoice'[i].grand = g /\ invoice'[i].status = "CANCELLED"
  BY <1>1, <1>2, VoidedType
<1>5. Charges[i] = [state |-> "posted", customer |-> c, amount |-> g]
  <2>1. Charges[i] = [state |-> CASE invoice[i].status = "ABSENT" -> "blank"
                                  [] invoice[i].status = "CANCELLED" -> "reversed"
                                  [] OTHER -> "posted",
                      customer |-> invoice[i].customer, amount |-> invoice[i].grand]
    BY <1>1, Zenon DEF Charges
  <2>2. (CASE invoice[i].status = "ABSENT" -> "blank"
           [] invoice[i].status = "CANCELLED" -> "reversed"
           [] OTHER -> "posted") = "posted"
    BY <1>1 DEF Active
  <2> QED
    BY <1>1, <2>1, <2>2
<1>6. Charges'[i] = [state |-> "reversed", customer |-> c, amount |-> g]
  <2>1. Charges'[i] = [state |-> CASE invoice'[i].status = "ABSENT" -> "blank"
                                   [] invoice'[i].status = "CANCELLED" -> "reversed"
                                   [] OTHER -> "posted",
                       customer |-> invoice'[i].customer, amount |-> invoice'[i].grand]
    BY <1>1, Zenon DEF Charges
  <2>2. (CASE invoice'[i].status = "ABSENT" -> "blank"
           [] invoice'[i].status = "CANCELLED" -> "reversed"
           [] OTHER -> "posted") = "reversed"
    BY <1>4
  <2> QED
    BY <1>4, <2>1, <2>2
<1>7. \A j \in Requests : j # i => Charges'[j] = Charges[j]
  BY <1>2 DEF Charges
<1>8. Charges' = [Charges EXCEPT ![i] = [state |-> "reversed", customer |-> c, amount |-> g]]
  <2>1. Charges = [j \in Requests |-> Charges[j]] /\ Charges' = [j \in Requests |-> Charges'[j]]
    BY DEF Charges
  <2> QED
    BY <1>6, <1>7, <2>1
<1>9. Received' = Received
  BY <1>2 DEF Received
<1>10. account'[c].balance = account[c].balance - g
  <2>1. account'[c].balance = debits - s.credits
    BY <1>1, <1>2 DEF TypeOK
  <2>2. QED
    BY <1>1, <1>3, <2>1 DEF AccountRow
<1>11. Balances' = [Balances EXCEPT ![c] = @ - g]
  <2>1. \A d \in Customers \ {c} : account'[d] = account[d]
    BY <1>1, <1>2 DEF TypeOK
  <2> QED
    BY <1>1, <1>10, <2>1 DEF Balances
<1>12. Abstract!Reverse(i)
  BY <1>1, <1>5, <1>8, <1>9, <1>11 DEF Abstract!Reverse
<1>13. QED
  BY <1>1, <1>12 DEF Abstract!Next

\* Billing implements the ledger: the commits are its postings and every other
\* step leaves it alone.
THEOREM BillingImplementsLedger == Spec => LedgerImplemented
<1>1. ASSUME IInv, MoneyInv, [Next]_vars PROVE [Abstract!Next]_(Abstract!ledger)
  <2>1. CASE UNCHANGED <<invoice, payment, account>>
    BY <2>1 DEF Abstract!ledger, Charges, Received, Balances
  <2>2. CASE UNCHANGED vars
    BY <2>1, <2>2 DEF vars, tables
  <2>3. CASE Next
    BY <1>1, <2>1, <2>3, CreateIsCharge, PaymentIsReceipt, CancelIsReversal, OnlyCommitsWrite
  <2>4. QED
    BY <1>1, <2>2, <2>3
<1>2. IInv /\ MoneyInv /\ [Next]_vars => [Abstract!Next]_(Abstract!ledger)
  BY <1>1
<1>3. QED
  BY <1>2, InitLedger, Invariance, MoneyInvariance, PTL DEF Spec, LedgerImplemented, Abstract!Spec
============================================================================
