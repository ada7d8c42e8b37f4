------------------------------ MODULE Billing ------------------------------
(***************************************************************************)
(* Invoices, payments and the customer's current account ("cari hesap").   *)
(*                                                                         *)
(* Every monetary write of the service is a request whose database         *)
(* transaction first takes pg_advisory_xact_lock on tenant:customer, then  *)
(* re-reads the rows it depends on and finally writes.  The transactions   *)
(* run at READ COMMITTED and the checks made before the transaction are    *)
(* made without the lock, so a request goes through the phases             *)
(*                                                                         *)
(*   idle -> ready      the unlocked checks passed, the arguments are held *)
(*        -> locked     the advisory lock is held                          *)
(*        -> read       the locked checks passed, seen holds what was      *)
(*                      read and will be used for the writes               *)
(*        -> idle       COMMIT or ROLLBACK; either releases the lock       *)
(*                                                                         *)
(* Amounts are integers, in cents (the columns are DECIMAL(12,2)).  A row  *)
(* is named by the request whose transaction inserted it: a request slot   *)
(* inserts at most one invoice and one payment, which bounds the model.    *)
(*                                                                         *)
(* The unique indexes on invoices.work_order_id and on the gateway         *)
(* reference of payments are left out: OneActiveInvoicePerWorkOrder and    *)
(* GatewayBookedOnce say that no statement ever runs into them.            *)
(***************************************************************************)
EXTENDS Totals

CONSTANTS
    Requests,      \* request slots, and the names of the rows they insert
    Customers,
    WorkOrders,
    Attempts,      \* PayTR payment attempts (merchant_oid)
    CustomerOf,    \* the customer of a work order
    GrandTotals,   \* what calculateInvoiceTotals may return
    PayAmounts,    \* amounts a cashier or an offset request may name
    None           \* SQL NULL

ASSUME SetsAssumption ==
    /\ IsFiniteSet(Requests)
    /\ None \notin Requests \cup Customers \cup WorkOrders \cup Attempts
    /\ CustomerOf \in [WorkOrders -> Customers]

ASSUME AmountsAssumption ==
    /\ GrandTotals \subseteq Nat
    /\ PayAmounts \subseteq Nat \ {0}

VARIABLES
    invoice,       \* table invoices
    payment,       \* table payments
    account,       \* table current_accounts, one row per customer
    attempt,       \* table payment_attempts
    workOrder,     \* column work_orders.status
    lock,          \* holder of the advisory lock of each customer
    req,           \* the arguments of each request
    phase,         \* how far it has come
    seen           \* what it read under the lock

tables == <<invoice, payment, account, attempt, workOrder>>
vars == <<tables, lock, req, phase, seen>>

----------------------------------------------------------------------------
(* Rows *)

InvoiceStatus == {"UNPAID", "PARTIALLY_PAID", "PAID", "CANCELLED"}

InvoiceRow == [customer : Customers \cup {None}, wo : WorkOrders \cup {None},
               grand : Nat, paid : Nat, remaining : Nat,
               status : InvoiceStatus \cup {"ABSENT"}]

NoInvoice == [customer |-> None, wo |-> None, grand |-> 0, paid |-> 0,
              remaining |-> 0, status |-> "ABSENT"]

PaymentMethod == {"CASH", "ONLINE", "ADVANCE_OFFSET"}

PaymentRow == [customer : Customers \cup {None}, invoice : Requests \cup {None},
               amount : Nat, method : PaymentMethod \cup {"ABSENT"},
               attempt : Attempts \cup {None}]

NoPayment == [customer |-> None, invoice |-> None, amount |-> 0,
              method |-> "ABSENT", attempt |-> None]

AccountRow == [debits : Nat, credits : Nat, balance : Int]

AttemptRow == [invoice : Requests \cup {None}, amount : Nat,
               status : {"ABSENT", "PENDING", "PAID"}]

NoAttempt == [invoice |-> None, amount |-> 0, status |-> "ABSENT"]

\* QUEUE and IN_PROGRESS are one status here: no monetary check tells them apart.
WorkOrderStatus == {"IN_PROGRESS", "COMPLETED", "CANCELLED"}

\* What a request read under the lock and carries to its writes.
Seen == [paid : Nat, debits : Nat, credits : Nat, balance : Int,
         wo : WorkOrders \cup {None}]

NothingSeen == [paid |-> 0, debits |-> 0, credits |-> 0, balance |-> 0,
                wo |-> None]

Request == [op : {"none", "create", "pay", "cancel"},
            customer : Customers \cup {None}, wo : WorkOrders \cup {None},
            invoice : Requests \cup {None}, amount : Nat, offset : Nat,
            attempt : Attempts \cup {None}]

NoRequest == [op |-> "none", customer |-> None, wo |-> None, invoice |-> None,
              amount |-> 0, offset |-> 0, attempt |-> None]

Phase == {"idle", "ready", "locked", "read"}

TypeOK ==
    /\ invoice \in [Requests -> InvoiceRow]
    /\ payment \in [Requests -> PaymentRow]
    /\ account \in [Customers -> AccountRow]
    /\ attempt \in [Attempts -> AttemptRow]
    /\ workOrder \in [WorkOrders -> WorkOrderStatus]
    /\ lock \in [Customers -> Requests \cup {None}]
    /\ req \in [Requests -> Request]
    /\ phase \in [Requests -> Phase]
    /\ seen \in [Requests -> Seen]

Init ==
    /\ invoice = [r \in Requests |-> NoInvoice]
    /\ payment = [r \in Requests |-> NoPayment]
    /\ account = [c \in Customers |-> [debits |-> 0, credits |-> 0, balance |-> 0]]
    /\ attempt = [t \in Attempts |-> NoAttempt]
    /\ workOrder = [w \in WorkOrders |-> "IN_PROGRESS"]
    /\ lock = [c \in Customers |-> None]
    /\ req = [r \in Requests |-> NoRequest]
    /\ phase = [r \in Requests |-> "idle"]
    /\ seen = [r \in Requests |-> NothingSeen]

----------------------------------------------------------------------------
(* Helpers *)

SmallerOf(m, n) == IF m <= n THEN m ELSE n
AtLeastZero(n) == IF n < 0 THEN 0 ELSE n

Active(i) == invoice[i].status \notin {"ABSENT", "CANCELLED"}

\* The status the code derives from the amounts of an invoice.
StatusFor(paid, remaining) ==
    IF remaining <= 0 THEN "PAID"
    ELSE IF paid > 0 THEN "PARTIALLY_PAID" ELSE "UNPAID"

\* Some invoice that is not cancelled already names work order w.
Invoiced(w) == \E i \in Requests : Active(i) /\ invoice[i].wo = w

\* The gateway attempt t has been booked as a payment.
Booked(t) == \E p \in Requests : payment[p].attempt = t

\* A slot whose insertions are still available.
Fresh(r) ==
    /\ phase[r] = "idle"
    /\ invoice[r] = NoInvoice
    /\ payment[r] = NoPayment

\* The handler holds its arguments and waits for its transaction to start.
Begin(r, op, c, w, i, a, o, t) ==
    /\ req' = [req EXCEPT ![r] = [op |-> op, customer |-> c, wo |-> w, invoice |-> i,
                                  amount |-> a, offset |-> o, attempt |-> t]]
    /\ phase' = [phase EXCEPT ![r] = "ready"]
    /\ UNCHANGED <<tables, lock, seen>>

\* Variant: a session-level advisory lock, which COMMIT does not release.
Finish_KeepsLock(r) ==
    /\ req' = [req EXCEPT ![r] = NoRequest]
    /\ phase' = [phase EXCEPT ![r] = "idle"]
    /\ seen' = [seen EXCEPT ![r] = NothingSeen]
    /\ UNCHANGED lock

\* COMMIT and ROLLBACK end the request and release its advisory lock.
Finish(r) ==
    /\ req' = [req EXCEPT ![r] = NoRequest]
    /\ phase' = [phase EXCEPT ![r] = "idle"]
    /\ seen' = [seen EXCEPT ![r] = NothingSeen]
    /\ lock' = [lock EXCEPT ![req[r].customer] = None]

----------------------------------------------------------------------------
(* The unlocked part of the requests *)

\* POST /invoices, or the automatic invoice of a completed work order: the
\* use case only builds the entity; every check is inside the transaction.
\* The customer of an invoiced work order must be the customer invoiced.
StartCreate(r, c, w, g, o) ==
    /\ Fresh(r)
    /\ w # None => CustomerOf[w] = c
    /\ Begin(r, "create", c, w, None, g, o, None)

\* The invoice checks PaymentsService.create makes before its transaction.
Payable(i, a) ==
    /\ Active(i)
    /\ invoice[i].status # "PAID"
    /\ a <= invoice[i].remaining

\* POST /payments against an invoice.
StartPayment(r, i, a) ==
    /\ Fresh(r)
    /\ Payable(i, a)
    /\ Begin(r, "pay", invoice[i].customer, None, i, a, 0, None)

\* POST /payments without an invoice: an advance on the current account.
StartAdvance(r, c, a) ==
    /\ Fresh(r)
    /\ Begin(r, "pay", c, None, None, a, 0, None)

\* createPayTrPaymentToken: a pending attempt for what remains to be paid.
\* The attempt is left behind if the gateway call that follows fails.
CreateAttempt(t, i) ==
    /\ attempt[t] = NoAttempt
    /\ Active(i)
    /\ invoice[i].status # "PAID"
    /\ invoice[i].grand > invoice[i].paid
    /\ attempt' = [attempt EXCEPT ![t] =
           [invoice |-> i, amount |-> invoice[i].grand - invoice[i].paid,
            status |-> "PENDING"]]
    /\ UNCHANGED <<invoice, payment, account, workOrder, lock, req, phase, seen>>

\* A successful PayTR notification for attempt t of invoice i.  The gateway
\* repeats it until it is answered OK, so it may arrive again at any time,
\* also while an earlier delivery is still being handled.
StartWebhook(r, t, i) ==
    /\ Fresh(r)
    /\ attempt[t].status = "PENDING"
    /\ attempt[t].invoice = i
    /\ Payable(i, attempt[t].amount)
    /\ ~Booked(t)
    /\ Begin(r, "pay", invoice[i].customer, None, i, attempt[t].amount, 0, t)

\* POST /invoices/:id/cancel.  canCancel is checked on an unlocked read.
StartCancel(r, i) ==
    /\ phase[r] = "idle"
    /\ Active(i)
    /\ Begin(r, "cancel", invoice[i].customer, None, i, 0, 0, None)

----------------------------------------------------------------------------
(* The transactions *)

\* Variant: no advisory lock, as in a transaction that relies on READ COMMITTED.
AcquireLock_Unlocked(r) ==
    /\ phase[r] = "ready"
    /\ phase' = [phase EXCEPT ![r] = "locked"]
    /\ UNCHANGED <<tables, lock, req, seen>>

\* SELECT pg_advisory_xact_lock(hashtext(tenantId || ':' || customerId))
AcquireLock(r) ==
    LET c == req[r].customer
    IN  /\ phase[r] = "ready"
        /\ lock[c] = None
        /\ lock' = [lock EXCEPT ![c] = r]
        /\ phase' = [phase EXCEPT ![r] = "locked"]
        /\ UNCHANGED <<tables, req, seen>>

\* Variants: a check made only before the transaction.
MayCreate_OrderOnly(r) == req[r].wo # None => workOrder[req[r].wo] # "CANCELLED"
MayPay_NoAmountCheck(r) ==
    LET i == req[r].invoice
        t == req[r].attempt
    IN  /\ t # None => ~Booked(t)
        /\ i # None => Active(i)

\* The checks each transaction repeats under the lock.
MayCreate(r) ==
    LET w == req[r].wo
    IN  w # None => workOrder[w] # "CANCELLED" /\ ~Invoiced(w)

MayPay(r) ==
    LET i == req[r].invoice
        t == req[r].attempt
    IN  /\ t # None => ~Booked(t)
        /\ i # None => Active(i) /\ req[r].amount <= invoice[i].remaining

MayCancel(r) == Active(req[r].invoice)

Accepted(r) ==
    \/ req[r].op = "create" /\ MayCreate(r)
    \/ req[r].op = "pay" /\ MayPay(r)
    \/ req[r].op = "cancel" /\ MayCancel(r)

\* The rows read under the lock.
Snapshot(r) ==
    LET a == account[req[r].customer]
        i == req[r].invoice
    IN  [paid    |-> IF i = None THEN 0 ELSE invoice[i].paid,
         debits  |-> a.debits,
         credits |-> a.credits,
         balance |-> a.balance,
         wo      |-> IF i = None THEN None ELSE invoice[i].wo]

Read(r) ==
    /\ phase[r] = "locked"
    /\ Accepted(r)
    /\ phase' = [phase EXCEPT ![r] = "read"]
    /\ seen' = [seen EXCEPT ![r] = Snapshot(r)]
    /\ UNCHANGED <<tables, lock, req>>

\* A locked check fails: the transaction rolls back (the delivery of an
\* attempt already booked returns the existing payment, with no write).
Reject(r) ==
    /\ phase[r] = "locked"
    /\ ~Accepted(r)
    /\ Finish(r)
    /\ UNCHANGED tables

\* A statement fails, the interactive transaction times out, or the process
\* dies: PostgreSQL rolls back and frees the lock.
Abort(r) ==
    /\ phase[r] \in {"locked", "read"}
    /\ Finish(r)
    /\ UNCHANGED tables

\* Variants: an account that owes money taken for one in credit, and an offset
\* not limited to the credit there is.
AdvanceUsed_AnyBalance(r) ==
    IF req[r].offset > 0
    THEN SmallerOf(req[r].amount, SmallerOf(-seen[r].balance, req[r].offset))
    ELSE 0
AdvanceUsed_WholeOffset(r) ==
    IF req[r].offset > 0 /\ seen[r].balance < 0
    THEN SmallerOf(req[r].amount, req[r].offset)
    ELSE 0

\* The part of a new invoice paid by the customer's advance: nothing unless
\* the request asks for it and the account is in credit.
AdvanceUsed(r) ==
    LET b == seen[r].balance
    IN  IF req[r].offset > 0 /\ b < 0
        THEN SmallerOf(req[r].amount, SmallerOf(-b, req[r].offset))
        ELSE 0

CommitCreate(r) ==
    LET c == req[r].customer
        w == req[r].wo
        g == req[r].amount
        used == AdvanceUsed(r)
        left == AtLeastZero(g - used)
    IN  /\ phase[r] = "read"
        /\ req[r].op = "create"
        /\ invoice' = [invoice EXCEPT ![r] =
               [customer |-> c, wo |-> w, grand |-> g, paid |-> used,
                remaining |-> left, status |-> StatusFor(used, left)]]
        /\ payment' = IF used = 0 THEN payment
                      ELSE [payment EXCEPT ![r] =
                               [customer |-> c, invoice |-> r, amount |-> used,
                                method |-> "ADVANCE_OFFSET", attempt |-> None]]
        /\ account' = [account EXCEPT ![c] =
               [debits |-> @.debits + g, credits |-> @.credits, balance |-> @.balance + g]]
        /\ workOrder' = IF w = None THEN workOrder
                        ELSE [workOrder EXCEPT ![w] = "COMPLETED"]
        /\ Finish(r)
        /\ UNCHANGED attempt

\* The invoice with a new paid amount, and with what a cancellation leaves of it.
Settled(row, paid) ==
    [row EXCEPT !.paid = paid, !.remaining = AtLeastZero(row.grand - paid),
                !.status = StatusFor(paid, row.grand - paid)]

Voided(row) ==
    [row EXCEPT !.wo = None, !.remaining = 0, !.status = "CANCELLED"]

\* The invoice columns are written from what was read; the account columns
\* are incremented in place.
CommitPayment(r) ==
    LET c == req[r].customer
        i == req[r].invoice
        t == req[r].attempt
        a == req[r].amount
        paid == seen[r].paid + a
    IN  /\ phase[r] = "read"
        /\ req[r].op = "pay"
        /\ payment' = [payment EXCEPT ![r] =
               [customer |-> c, invoice |-> i, amount |-> a,
                method |-> IF t = None THEN "CASH" ELSE "ONLINE", attempt |-> t]]
        /\ invoice' = IF i = None THEN invoice
                      ELSE [invoice EXCEPT ![i] = Settled(@, paid)]
        /\ account' = [account EXCEPT ![c] =
               [debits |-> @.debits, credits |-> @.credits + a, balance |-> @.balance - a]]
        /\ attempt' = IF t = None THEN attempt
                      ELSE [attempt EXCEPT ![t] = [invoice |-> @.invoice,
                                                   amount |-> @.amount,
                                                   status |-> "PAID"]]
        /\ Finish(r)
        /\ UNCHANGED workOrder

\* The payments stay, as credit; debits and balance are written from what was
\* read; the work order is detached and reopened whatever its status.
CommitCancel(r) ==
    LET c == req[r].customer
        i == req[r].invoice
        s == seen[r]
        debits == AtLeastZero(s.debits - invoice[i].grand)
    IN  /\ phase[r] = "read"
        /\ req[r].op = "cancel"
        /\ invoice' = [invoice EXCEPT ![i] = Voided(@)]
        /\ account' = [account EXCEPT ![c] =
               [debits |-> debits, credits |-> @.credits, balance |-> debits - s.credits]]
        /\ workOrder' = IF s.wo = None THEN workOrder
                        ELSE [workOrder EXCEPT ![s.wo] = "IN_PROGRESS"]
        /\ Finish(r)
        /\ UNCHANGED <<payment, attempt>>

\* The work-order module writes the status of an order without any of these
\* locks (updateStatus, rollbackStatus).
ChangeWorkOrderStatus(w, s) ==
    /\ workOrder[w] # s
    /\ workOrder' = [workOrder EXCEPT ![w] = s]
    /\ UNCHANGED <<invoice, payment, account, attempt, lock, req, phase, seen>>

Next ==
    \/ \E r \in Requests :
          \/ \E c \in Customers, w \in WorkOrders \cup {None}, g \in GrandTotals,
                o \in PayAmounts \cup {0} : StartCreate(r, c, w, g, o)
          \/ \E i \in Requests, a \in PayAmounts : StartPayment(r, i, a)
          \/ \E c \in Customers, a \in PayAmounts : StartAdvance(r, c, a)
          \/ \E t \in Attempts, i \in Requests : StartWebhook(r, t, i)
          \/ \E i \in Requests : StartCancel(r, i)
          \/ AcquireLock(r)
          \/ Read(r)
          \/ Reject(r)
          \/ Abort(r)
          \/ CommitCreate(r)
          \/ CommitPayment(r)
          \/ CommitCancel(r)
    \/ \E t \in Attempts, i \in Requests : CreateAttempt(t, i)
    \/ \E w \in WorkOrders, s \in WorkOrderStatus : ChangeWorkOrderStatus(w, s)

Spec == Init /\ [][Next]_vars

\* A handler that was accepted runs on: the event loop schedules it, the
\* database answers or fails, and PostgreSQL grants an advisory lock to the
\* sessions waiting for it in the order they asked (so a waiter that keeps
\* finding the lock free gets it: strong fairness).
Fairness ==
    \A r \in Requests :
        /\ SF_vars(AcquireLock(r))
        /\ WF_vars(Read(r) \/ Reject(r))
        /\ WF_vars(CommitCreate(r) \/ CommitPayment(r) \/ CommitCancel(r))

FairSpec == Spec /\ Fairness

----------------------------------------------------------------------------
(* Properties *)

Grand == [i \in Requests |-> invoice[i].grand]
Amount == [p \in Requests |-> payment[p].amount]

ActiveInvoices(c) == {i \in Requests : Active(i) /\ invoice[i].customer = c}

\* The payments that brought money in; an advance offset only moves it.
Receipts(c) == {p \in Requests : /\ payment[p].customer = c
                                 /\ payment[p].method \in {"CASH", "ONLINE"}}

PaymentsOf(i) == {p \in Requests : payment[p].invoice = i}

\* The balance of a current account is always its debits minus its credits,
\* although create and pay increment the columns in place and cancel writes
\* debits and balance from what it read earlier.
LedgerBalanced ==
    \A c \in Customers :
        account[c].balance = account[c].debits - account[c].credits

\* total_debits is exactly what the customer's invoices that are not cancelled
\* charge: no charge is lost or reversed twice by interleaved requests, and
\* the Math.max(0, ..) of the cancellation never hides a difference.
DebitsMatchInvoices ==
    \A c \in Customers : account[c].debits = Total(ActiveInvoices(c), Grand)

\* total_credits is exactly the money received, each payment counted once;
\* an advance offset adds no credit and a cancellation takes none away.
CreditsMatchReceipts ==
    \A c \in Customers : account[c].credits = Total(Receipts(c), Amount)

\* The account is the sum of its documents: no interleaving of new invoices,
\* payments, notifications and cancellations loses, repeats or hides one.
AccountMatchesDocuments == DebitsMatchInvoices /\ CreditsMatchReceipts

\* paid_amount of an invoice is the sum of the payments attached to it, also
\* after its cancellation.
PaidMatchesPayments ==
    \A i \in Requests :
        invoice[i].status # "ABSENT" =>
            invoice[i].paid = Total(PaymentsOf(i), Amount)

\* Every derived amount is the sum of the documents it is derived from.
MoneyMatchesDocuments == AccountMatchesDocuments /\ PaidMatchesPayments

\* The amounts and the status of an invoice agree: it is never overpaid, and
\* what remains, what is paid and the status tell the same story.
InvoiceCoherent ==
    \A i \in Requests : Active(i) =>
        /\ invoice[i].paid + invoice[i].remaining = invoice[i].grand
        /\ invoice[i].status = StatusFor(invoice[i].paid, invoice[i].remaining)

\* A work order has at most one invoice that is not cancelled, even when two
\* requests (a cashier and the automatic invoice of a completed order) race.
OneActiveInvoicePerWorkOrder ==
    \A i, j \in Requests :
        /\ Active(i) /\ Active(j)
        /\ invoice[i].wo # None
        /\ invoice[i].wo = invoice[j].wo
        => i = j

\* An attempt is PAID exactly when it has been booked, and it is booked as one
\* payment however often and however concurrently PayTR notifies.
GatewayBookedOnce ==
    \A t \in Attempts :
        /\ attempt[t].status = "PAID" <=> Booked(t)
        /\ \A p, q \in Requests :
              payment[p].attempt = t /\ payment[q].attempt = t => p = q

\* The payments attached to invoices in force, advance offsets included.
Attached(c) == {p \in Requests : /\ payment[p].customer = c
                                 /\ payment[p].invoice # None
                                 /\ Active(payment[p].invoice)}

\* What is attached to the invoices in force of a customer, advance offsets
\* included, never exceeds the money the customer paid: no advance is spent
\* twice, also when the invoice it came from or was spent on is cancelled.
AdvanceNotOverspent ==
    \A c \in Customers : Total(Attached(c), Amount) <= Total(Receipts(c), Amount)

\* A cancelled invoice is final: no payment, webhook or second cancellation
\* that was in flight changes it afterwards.
CancelledIsFinal ==
    [][\A i \in Requests :
          invoice[i].status = "CANCELLED" => invoice'[i] = invoice[i]]_invoice

\* Billing implements Ledger: an invoice is a charge, a cancelled one a charge
\* reversed, and the money received is the payments other than offsets.
Charges ==
    [i \in Requests |->
        [state    |-> CASE invoice[i].status = "ABSENT" -> "blank"
                        [] invoice[i].status = "CANCELLED" -> "reversed"
                        [] OTHER -> "posted",
         customer |-> invoice[i].customer,
         amount   |-> invoice[i].grand]]

Received ==
    [p \in Requests |->
        IF payment[p].method \in {"CASH", "ONLINE"}
        THEN [state |-> "posted", customer |-> payment[p].customer,
              amount |-> payment[p].amount]
        ELSE [state |-> "blank", customer |-> None, amount |-> 0]]

Balances == [c \in Customers |-> account[c].balance]

Abstract == INSTANCE Ledger WITH
    Documents <- Requests, NoCustomer <- None,
    charge <- Charges, receipt <- Received, balance <- Balances

\* Every step of the interleaved requests is one posting of the ledger or
\* none: the advisory lock makes each request atomic in its effects.
LedgerImplemented == Abstract!Spec

\* Every request that passed its first checks is answered: no request waits
\* for the advisory lock of its customer for ever.
EveryRequestEnds ==
    \A r \in Requests : phase[r] # "idle" ~> phase[r] = "idle"

----------------------------------------------------------------------------
(* Why it works: the inductive invariant behind the safety properties. *)

InTransaction(r) == phase[r] \in {"locked", "read"}

\* Two requests of one customer are never inside their transactions together.
LockHeld == \A r \in Requests : InTransaction(r) => lock[req[r].customer] = r

\* The rows a request names exist and belong to the customer it will lock.
Targets(r, i) ==
    /\ i \in Requests
    /\ invoice[i].status # "ABSENT"
    /\ invoice[i].customer = req[r].customer

RequestOK(r) ==
    /\ phase[r] = "idle" <=> req[r].op = "none"
    /\ phase[r] # "idle" => req[r].customer \in Customers
    /\ req[r].op \in {"create", "pay"} =>
           invoice[r] = NoInvoice /\ payment[r] = NoPayment
    /\ req[r].op = "create" =>
           /\ req[r].wo # None => CustomerOf[req[r].wo] = req[r].customer
           /\ req[r].invoice = None
    /\ req[r].op = "pay" /\ req[r].invoice # None => Targets(r, req[r].invoice)
    /\ req[r].op = "cancel" => Targets(r, req[r].invoice)
    /\ req[r].attempt # None =>
           /\ req[r].op = "pay"
           /\ req[r].invoice # None
           /\ attempt[req[r].attempt].status # "ABSENT"
           /\ attempt[req[r].attempt].invoice = req[r].invoice

\* What was read under the lock still holds when the writes are made.  (The
\* status of the work order is the one read that does not: nothing locks it.)
ReadStillValid(r) ==
    phase[r] = "read" =>
        /\ seen[r] = Snapshot(r)
        /\ req[r].op = "create" /\ req[r].wo # None => ~Invoiced(req[r].wo)
        /\ req[r].op = "pay" => MayPay(r)
        /\ req[r].op = "cancel" => MayCancel(r)

RowsOK ==
    /\ \A i \in Requests : invoice[i].status # "ABSENT" =>
           /\ invoice[i].customer \in Customers
           /\ invoice[i].wo # None => CustomerOf[invoice[i].wo] = invoice[i].customer
    /\ \A t \in Attempts : attempt[t].status # "ABSENT" =>
           /\ attempt[t].invoice \in Requests
           /\ invoice[attempt[t].invoice].status # "ABSENT"

IInv ==
    /\ TypeOK
    /\ LockHeld
    /\ \A r \in Requests : RequestOK(r) /\ ReadStillValid(r)
    /\ RowsOK
    /\ LedgerBalanced
    /\ InvoiceCoherent
    /\ OneActiveInvoicePerWorkOrder
    /\ GatewayBookedOnce

\* The payments attached to an invoice belong to its customer.
PaymentsKnown ==
    \A p \in Requests : payment[p] # NoPayment =>
        /\ payment[p].customer \in Customers
        /\ payment[p].invoice # None =>
              /\ payment[p].invoice \in Requests
              /\ invoice[payment[p].invoice].status # "ABSENT"
              /\ invoice[payment[p].invoice].customer = payment[p].customer

Paid == [i \in Requests |-> invoice[i].paid]

\* What is attached to a customer's invoices in force is what they say is paid.
AttachedIsPaid ==
    \A c \in Customers : Total(Attached(c), Amount) = Total(ActiveInvoices(c), Paid)

MoneyInv ==
    /\ PaymentsKnown
    /\ AttachedIsPaid
    /\ DebitsMatchInvoices
    /\ CreditsMatchReceipts
    /\ PaidMatchesPayments
    /\ AdvanceNotOverspent

============================================================================
