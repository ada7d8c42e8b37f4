----------------------------- MODULE WorkOrders -----------------------------
(***************************************************************************)
(* Work orders, their items and the stock the parts come from.             *)
(*                                                                         *)
(* A handler first checks the status of the order (and, for an item, that  *)
(* it exists) on an unlocked read.  Its database transaction never repeats *)
(* that check.  At READ COMMITTED it reads the item, updates the product   *)
(* row (a conditional UPDATE when it takes stock, an increment when it     *)
(* returns some), writes the item row, sums the items it can see and       *)
(* writes the totals of the order.  The row locks of the UPDATEs are held  *)
(* until COMMIT:                                                           *)
(*                                                                         *)
(*   idle -> checked   the unlocked checks passed                          *)
(*        -> ready     the rows to write are known (seen: what was read)   *)
(*        -> worked    the rows are locked, the items summed               *)
(*        -> idle      COMMIT or ROLLBACK                                  *)
(*                                                                         *)
(* A cancellation writes the status in one transaction and returns the     *)
(* parts in another: checked -> owing -> restoring -> idle.  Invoices      *)
(* write the status too: issuing one completes its order and cancelling it *)
(* reopens the order, whatever the status has become.                      *)
(*                                                                         *)
(* The totals of an order are the sum of the quantities of its items: unit *)
(* prices and VAT rates weigh the sum but no step depends on them.         *)
(***************************************************************************)
EXTENDS Totals

CONSTANTS
    Requests,      \* request slots
    Orders,        \* rows of work_orders
    Vehicles,
    VehicleOf,     \* the vehicle of an order
    WithAppointment,  \* the orders opened from an appointment
    Items,         \* rows of work_order_items
    Products,      \* rows of products
    Quantities,    \* quantities a line may ask for
    Levels,        \* stock levels the warehouse may enter
    InitialStock,
    MaxStock,      \* bound: no request starts while more is on a shelf
    Ops,           \* the operations in use, with "crash" and "appointment"
    None           \* SQL NULL

ASSUME SetsAssumption ==
    /\ IsFiniteSet(Items)
    /\ IsFiniteSet(Requests)
    /\ None \notin Requests \cup Orders \cup Items \cup Products
    /\ VehicleOf \in [Orders -> Vehicles]
    /\ WithAppointment \subseteq Orders

ASSUME AmountsAssumption ==
    /\ Quantities \subseteq Nat \ {0}
    /\ Levels \subseteq Nat
    /\ InitialStock \in [Products -> Nat]
    /\ MaxStock \in Nat

VARIABLES
    stock,         \* column products.stock_quantity
    item,          \* table work_order_items
    order,         \* table work_orders: status and totals, and whether an
                   \* invoice in force names the order
    req,           \* the arguments of each request
    phase,         \* how far it has come
    seen,          \* the item rows it read
    rows,          \* the item rows it will write
    sum            \* the totals it will write

tables == <<stock, item, order>>
local == <<req, seen, rows, sum>>
vars == <<tables, local, phase>>

----------------------------------------------------------------------------
(* Rows *)

\* An item that belongs to no product is labour (itemType SERVICE).
ItemRow == [order : Orders \cup {None}, product : Products \cup {None},
            qty : Nat, state : {"ABSENT", "LIVE", "DELETED"}]

NoItem == [order |-> None, product |-> None, qty |-> 0, state |-> "ABSENT"]
NoItems == [i \in Items |-> NoItem]

WorkOrderStatus == {"QUEUE", "IN_PROGRESS", "COMPLETED", "CANCELLED"}

OrderRow == [status : WorkOrderStatus \cup {"ABSENT"}, total : Nat, invoiced : BOOLEAN]

Request == [op : {"none", "create", "add", "update", "remove", "status", "invoice", "edit"},
            order : Orders \cup {None}, item : Items \cup {None}, qty : Nat,
            from : WorkOrderStatus \cup {"ABSENT"},
            to : WorkOrderStatus \cup {"ABSENT"},
            product : Products \cup {None}, was : Nat, level : Nat]

NoRequest == [op |-> "none", order |-> None, item |-> None, qty |-> 0,
              from |-> "ABSENT", to |-> "ABSENT",
              product |-> None, was |-> 0, level |-> 0]

Phase == {"idle", "checked", "ready", "worked", "owing", "restoring"}

TypeOK ==
    /\ stock \in [Products -> Int]
    /\ item \in [Items -> ItemRow]
    /\ order \in [Orders -> OrderRow]
    /\ req \in [Requests -> Request]
    /\ phase \in [Requests -> Phase]
    /\ seen \in [Requests -> [Items -> ItemRow]]
    /\ rows \in [Requests -> [Items -> ItemRow]]
    /\ sum \in [Requests -> Nat]

Init ==
    /\ stock = InitialStock
    /\ item = NoItems
    /\ order = [o \in Orders |-> [status |-> "ABSENT", total |-> 0, invoiced |-> FALSE]]
    /\ req = [r \in Requests |-> NoRequest]
    /\ phase = [r \in Requests |-> "idle"]
    /\ seen = [r \in Requests |-> NoItems]
    /\ rows = [r \in Requests |-> NoItems]
    /\ sum = [r \in Requests |-> 0]

----------------------------------------------------------------------------
(* Helpers *)

Status(o) == order[o].status
Open(o) == Status(o) \in {"QUEUE", "IN_PROGRESS"}

Qty(table) == [i \in Items |-> table[i].qty]
Live(table) == {i \in Items : table[i].state = "LIVE"}

\* The parts of product p in a table of items, and the total of an order in it.
Parts(table, p) == Total({i \in Live(table) : table[i].product = p}, Qty(table))
ItemSum(table, o) == Total({i \in Live(table) : table[i].order = o}, Qty(table))

ItemsOf(o) == [i \in Items |-> IF item[i].state = "LIVE" /\ item[i].order = o
                               THEN item[i] ELSE NoItem]

Writes(r) == {i \in Items : rows[r][i] # NoItem}

\* The table of items with the rows request r writes.
Overlay(r) == [i \in Items |-> IF i \in Writes(r) THEN rows[r][i] ELSE item[i]]

\* What request r adds to the stock of p: the difference between the rows it
\* read and the rows it writes.
Delta(r, p) == Parts(seen[r], p) - Parts(rows[r], p)

\* The rows locked by a transaction that has made its updates.
LockedProducts(r) == IF phase[r] = "worked" THEN {p \in Products : Delta(r, p) # 0} ELSE {}
LockedItems(r) == IF phase[r] = "worked" THEN Writes(r) ELSE {}

\* Variant: row locks released after each statement, as in autocommit.
Unlocked_Always(P, I) == TRUE

Unlocked(P, I) ==
    \A q \in Requests : LockedProducts(q) \cap P = {} /\ LockedItems(q) \cap I = {}

Begin(r, ph, args, reads, writes) ==
    /\ phase[r] = "idle"
    /\ args.op \in Ops
    /\ \A p \in Products : stock[p] <= MaxStock
    /\ phase' = [phase EXCEPT ![r] = ph]
    /\ req' = [req EXCEPT ![r] = args]
    /\ seen' = [seen EXCEPT ![r] = reads]
    /\ rows' = [rows EXCEPT ![r] = writes]
    /\ UNCHANGED <<tables, sum>>

Finish(r) ==
    /\ phase' = [phase EXCEPT ![r] = "idle"]
    /\ req' = [req EXCEPT ![r] = NoRequest]
    /\ seen' = [seen EXCEPT ![r] = NoItems]
    /\ rows' = [rows EXCEPT ![r] = NoItems]
    /\ sum' = [sum EXCEPT ![r] = 0]

----------------------------------------------------------------------------
(* The unlocked part of the requests *)

\* A row id that no row has and no request in flight is about to insert.
FreshItem(i) == item[i] = NoItem /\ \A q \in Requests : rows[q][i] = NoItem
FreshOrder(o) == /\ Status(o) = "ABSENT"
                 /\ \A q \in Requests : req[q].op = "create" => req[q].order # o

Line(o, p, n) == [order |-> o, product |-> p, qty |-> n, state |-> "LIVE"]

\* findActiveByVehicleId finds nothing.
MayOpen(o) == \A x \in Orders : VehicleOf[x] = VehicleOf[o] => ~Open(x)

\* POST /work-orders.  L gives the product and the quantity of the new lines.
StartCreate(r, o, L) ==
    /\ FreshOrder(o)
    /\ MayOpen(o)
    /\ \A i \in DOMAIN L : FreshItem(i)
    /\ Begin(r, "ready", [NoRequest EXCEPT !.op = "create", !.order = o], NoItems,
             [i \in Items |-> IF i \in DOMAIN L THEN Line(o, L[i][1], L[i][2]) ELSE NoItem])

\* POST /work-orders/:id/items
StartAdd(r, o, i, p, n) ==
    /\ Open(o)
    /\ FreshItem(i)
    /\ Begin(r, "ready", [NoRequest EXCEPT !.op = "add", !.order = o],
             NoItems, [NoItems EXCEPT ![i] = Line(o, p, n)])

\* PATCH /work-orders/:id/items/:itemId; n = 0 when the quantity is not given
\* (a new name or price).
StartUpdate(r, i, n) ==
    /\ item[i].state = "LIVE"
    /\ Open(item[i].order)
    /\ Begin(r, "checked",
             [NoRequest EXCEPT !.op = "update", !.order = item[i].order, !.item = i,
                               !.qty = n],
             NoItems, NoItems)

\* DELETE /work-orders/:id/items/:itemId
StartRemove(r, i) ==
    /\ item[i].state = "LIVE"
    /\ Open(item[i].order)
    /\ Begin(r, "checked",
             [NoRequest EXCEPT !.op = "remove", !.order = item[i].order, !.item = i],
             NoItems, NoItems)

CanTransition(from, to) ==
    \/ from = to
    \/ from = "QUEUE" /\ to \in {"IN_PROGRESS", "CANCELLED"}
    \/ from = "IN_PROGRESS" /\ to \in {"COMPLETED", "CANCELLED", "QUEUE"}

\* The status before s, where there is one (getPreviousStatus throws otherwise).
Previous(s) == CASE s = "COMPLETED" -> {"IN_PROGRESS"}
                 [] s = "IN_PROGRESS" -> {"QUEUE"}
                 [] OTHER -> {}

StartStatus(r, o, s) ==
    /\ Status(o) # "ABSENT"
    /\ CanTransition(Status(o), s)
    /\ Begin(r, "checked",
             [NoRequest EXCEPT !.op = "status", !.order = o, !.from = Status(o), !.to = s],
             NoItems, NoItems)

StartRollback(r, o) ==
    \E s \in Previous(Status(o)) :
        Begin(r, "checked",
              [NoRequest EXCEPT !.op = "status", !.order = o, !.from = Status(o), !.to = s],
              NoItems, NoItems)

\* An invoice for order o.  Its transaction holds the advisory lock of the
\* customer, which keeps other invoices of the order away, and reads the order
\* without a lock.
StartInvoice(r, o) ==
    /\ Status(o) \notin {"ABSENT", "CANCELLED"}
    /\ ~order[o].invoiced
    /\ \A q \in Requests : req[q].op = "invoice" => req[q].order # o
    /\ Begin(r, "checked",
             [NoRequest EXCEPT !.op = "invoice", !.order = o, !.from = Status(o),
                               !.to = "COMPLETED"],
             NoItems, NoItems)

\* The warehouse reads the product to edit it or to enter a movement: n is the
\* level it will write, equal to the one read when only the name or the price
\* is edited.
StartEdit(r, p, n) ==
    Begin(r, "checked",
          [NoRequest EXCEPT !.op = "edit", !.product = p, !.was = stock[p], !.level = n],
          NoItems, NoItems)

----------------------------------------------------------------------------
(* Item transactions *)

\* Variant: the quantity given taken for a difference.
Changed_ByDifference(r, row) ==
    IF req[r].op = "remove" THEN [NoItem EXCEPT !.state = "DELETED"]
    ELSE [row EXCEPT !.qty = @ - req[r].qty]

\* The item as updateItem or removeItem will leave it, given the row it read.
\* Nothing looks at the other columns of a deleted row.
Changed(r, row) ==
    CASE req[r].op = "remove" -> [NoItem EXCEPT !.state = "DELETED"]
      [] req[r].qty > 0 -> [row EXCEPT !.qty = req[r].qty]
      [] OTHER -> row

\* tx.workOrderItem.findFirst: no lock.
ReadItem(r) ==
    LET i == req[r].item
    IN  /\ phase[r] = "checked"
        /\ req[r].op \in {"update", "remove"}
        /\ item[i].state = "LIVE"
        /\ seen' = [seen EXCEPT ![r] = [NoItems EXCEPT ![i] = item[i]]]
        /\ rows' = [rows EXCEPT ![r] = [NoItems EXCEPT ![i] = Changed(r, item[i])]]
        /\ phase' = [phase EXCEPT ![r] = "ready"]
        /\ UNCHANGED <<tables, req, sum>>

\* The rows of request r are not locked by another transaction.
Free(r) == Unlocked({p \in Products : Delta(r, p) # 0}, Writes(r))

\* WHERE stock_quantity >= the quantity taken.
Enough(r) == \A p \in Products : Delta(r, p) < 0 => stock[p] + Delta(r, p) >= 0

\* The item to change is still there when its row lock is obtained.
StillThere(r) == req[r].op \in {"update", "remove"} => item[req[r].item].state = "LIVE"

Work(r) ==
    /\ phase[r] = "ready"
    /\ Free(r)
    /\ Enough(r)
    /\ StillThere(r)
    /\ sum' = [sum EXCEPT ![r] = ItemSum(Overlay(r), req[r].order)]
    /\ phase' = [phase EXCEPT ![r] = "worked"]
    /\ UNCHANGED <<tables, req, seen, rows>>

\* The totals are written and the transaction commits.
Commit(r) ==
    LET o == req[r].order
    IN  /\ phase[r] = "worked"
        /\ item' = Overlay(r)
        /\ stock' = [p \in Products |-> stock[p] + Delta(r, p)]
        /\ order' = [order EXCEPT
               ![o].status = IF req[r].op = "create" THEN "QUEUE" ELSE @,
               ![o].total = sum[r]]
        /\ Finish(r)

\* Not enough stock, or the item has gone: the transaction throws and rolls back.
Reject(r) ==
    /\ \/ /\ phase[r] = "checked"
          /\ req[r].op \in {"update", "remove"}
          /\ item[req[r].item].state # "LIVE"
       \/ /\ phase[r] = "ready"
          /\ Free(r)
          /\ ~(Enough(r) /\ StillThere(r))
    /\ Finish(r)
    /\ UNCHANGED tables

----------------------------------------------------------------------------
(* Status changes, and the stock a cancelled order returns *)

\* Variant: the parts are owed whatever the status was.
Owes_Always(r) == req[r].to = "CANCELLED"

Owes(r) == req[r].to = "CANCELLED" /\ req[r].from # "CANCELLED"

WriteStatus(r) ==
    /\ phase[r] = "checked"
    /\ req[r].op = "status"
    /\ order' = [order EXCEPT ![req[r].order].status = req[r].to]
    /\ IF Owes(r)
       THEN /\ phase' = [phase EXCEPT ![r] = "owing"]
            /\ UNCHANGED local
       ELSE Finish(r)
    /\ UNCHANGED <<stock, item>>

\* The invoice and the completion of its order commit together.
WriteInvoice(r) ==
    /\ phase[r] = "checked"
    /\ req[r].op = "invoice"
    /\ order' = [order EXCEPT ![req[r].order].status = req[r].to,
                             ![req[r].order].invoiced = TRUE]
    /\ Finish(r)
    /\ UNCHANGED <<stock, item>>

\* restoreCancelledStock reads the items before its transaction ...
ReadRestore(r) ==
    /\ phase[r] = "owing"
    /\ seen' = [seen EXCEPT ![r] = ItemsOf(req[r].order)]
    /\ phase' = [phase EXCEPT ![r] = "restoring"]
    /\ UNCHANGED <<tables, req, rows, sum>>

\* ... which increments the stock of each.
Restore(r) ==
    /\ phase[r] = "restoring"
    /\ Free(r)
    /\ stock' = [p \in Products |-> stock[p] + Delta(r, p)]
    /\ Finish(r)
    /\ UNCHANGED <<item, order>>

\* cancelAppointmentAndWorkOrder cancels the order opened from the appointment
\* and returns no stock.  (The status of the appointment is not modelled: it
\* is IN_SERVICE, which may be cancelled, unless its synchronisation with a
\* completed order succeeded.)
CancelAppointment(o) ==
    /\ "appointment" \in Ops
    /\ o \in WithAppointment
    /\ Status(o) \notin {"ABSENT", "CANCELLED"}
    /\ order' = [order EXCEPT ![o].status = "CANCELLED"]
    /\ UNCHANGED <<stock, item, local, phase>>

\* InvoiceRepository.cancel reopens the order of the invoice, also one that was
\* cancelled since, and takes no part from the shelf.
CancelInvoice(o) ==
    /\ "invoice" \in Ops
    /\ order[o].invoiced
    /\ order' = [order EXCEPT ![o].status = "IN_PROGRESS", ![o].invoiced = FALSE]
    /\ UNCHANGED <<stock, item, local, phase>>

\* PrismaInventoryRepository.save writes every column, the stock included, from
\* the entity read at the start.
SaveEdit(r) ==
    LET p == req[r].product
    IN  /\ phase[r] = "checked"
        /\ req[r].op = "edit"
        /\ Unlocked({p}, {})
        /\ stock' = [stock EXCEPT ![p] = req[r].level]
        /\ Finish(r)
        /\ UNCHANGED <<item, order>>

\* A statement fails or times out, PostgreSQL resolves a deadlock against the
\* transaction, or the process dies.  What committed before stays.
Abort(r) ==
    /\ phase[r] # "idle"
    /\ phase[r] \in {"owing", "restoring"} => "crash" \in Ops
    /\ Finish(r)
    /\ UNCHANGED tables

\* One step of the handler in slot r.
Step(r) ==
    \/ \E o \in Orders, I \in SUBSET Items :
          \E L \in [I -> (Products \cup {None}) \X Quantities] : StartCreate(r, o, L)
    \/ \E o \in Orders, i \in Items, p \in Products \cup {None}, n \in Quantities :
          StartAdd(r, o, i, p, n)
    \/ \E i \in Items, n \in Quantities \cup {0} : StartUpdate(r, i, n)
    \/ \E i \in Items : StartRemove(r, i)
    \/ \E o \in Orders, s \in WorkOrderStatus : StartStatus(r, o, s)
    \/ \E o \in Orders : StartRollback(r, o)
    \/ \E o \in Orders : StartInvoice(r, o)
    \/ \E p \in Products : \E n \in Levels \cup {stock[p]} : StartEdit(r, p, n)
    \/ ReadItem(r)
    \/ Work(r)
    \/ Commit(r)
    \/ Reject(r)
    \/ WriteStatus(r)
    \/ WriteInvoice(r)
    \/ ReadRestore(r)
    \/ Restore(r)
    \/ SaveEdit(r)
    \/ Abort(r)

Next ==
    \/ \E r \in Requests : Step(r)
    \/ \E o \in Orders : CancelAppointment(o)
    \/ \E o \in Orders : CancelInvoice(o)

Spec == Init /\ [][Next]_vars

----------------------------------------------------------------------------
(* Properties *)

\* No interleaving takes stock that is not there, although the level shown to
\* a handler is stale by the time its UPDATE runs.
StockNeverNegative == \A p \in Products : stock[p] >= 0

\* The parts of p in orders in force.
Held(p) == Total({i \in Live(item) : item[i].product = p /\ Status(item[i].order) # "CANCELLED"},
                 Qty(item))

OwedBy(r, p) == CASE phase[r] = "owing" -> Parts(ItemsOf(req[r].order), p)
                  [] phase[r] = "restoring" -> Parts(seen[r], p)
                  [] OTHER -> 0

\* The parts of p that cancellations under way are about to return.
Owed(p) == Total(Requests, [r \in Requests |-> OwedBy(r, p)])

\* The parts the tables account for.
Accounted(p) == stock[p] + Held(p) + Owed(p)

\* When no request is being handled, every part is on the shelf or in an order
\* in force: a cancelled order has returned its parts, once.
StockBalanced ==
    (\A r \in Requests : phase[r] = "idle") =>
        \A p \in Products : stock[p] + Held(p) = InitialStock[p]

\* The totals of an order are those of its items.
TotalsMatchItems ==
    \A o \in Orders : Status(o) # "ABSENT" => order[o].total = ItemSum(item, o)

\* A vehicle is in at most one order that is not closed.
OneActiveOrderPerVehicle ==
    \A x, y \in Orders : Open(x) /\ Open(y) /\ VehicleOf[x] = VehicleOf[y] => x = y

\* Some request is returning the parts of order o.
BeingReturned(o) ==
    \E q \in Requests : req[q].order = o /\ phase[q] \in {"owing", "restoring"}

\* The step made by request r acts on something that changed since it was read:
\* the item, the status of the order (also one cancelled since) or the product.
Outdated(r) ==
    LET o == req[r].order
    IN  \/ phase[r] = "worked" /\ \E i \in Items : seen[r][i] \notin {NoItem, item[i]}
        \/ phase[r] = "worked" /\ (Status(o) = "CANCELLED" \/ BeingReturned(o))
        \/ /\ req[r].op \in {"status", "invoice"}
           /\ phase[r] = "checked"
           /\ Status(o) # req[r].from
        \/ req[r].op = "edit" /\ stock[req[r].product] # req[r].was

\* Parts appear or vanish only when the warehouse enters them, and in the steps
\* the code leaves open: a write based on an outdated read, the end of a handler
\* between a cancellation and the return of its parts, the cancellation of an
\* appointment, which returns none, and the cancellation of the invoice of a
\* cancelled order, which brings it back with lines whose parts were returned.
\* Every other step of every interleaving preserves them, and an edit adds what
\* the warehouse meant to add.
PartsLostOnlyWhenOutdated ==
    [][\A p \in Products :
          \/ Accounted(p)' = Accounted(p)
          \/ \E r \in Requests :
                \/ phase'[r] # phase[r] /\ Outdated(r)
                \/ phase[r] \in {"owing", "restoring"} /\ Abort(r)
                \/ /\ SaveEdit(r)
                   /\ Accounted(p)' = Accounted(p) + req[r].level - req[r].was
          \/ \E o \in Orders :
                \/ CancelAppointment(o)
                \/ CancelInvoice(o) /\ Status(o) = "CANCELLED"]_vars

----------------------------------------------------------------------------
(* Why it works: the inductive invariant behind the safety properties. *)

\* No two transactions hold the lock of one row.
LocksExclusive ==
    \A r, q \in Requests : r # q =>
        /\ LockedProducts(r) \cap LockedProducts(q) = {}
        /\ LockedItems(r) \cap LockedItems(q) = {}

\* What a transaction takes is still on the shelf when it commits.
TakenIsThere ==
    \A r \in Requests : phase[r] = "worked" =>
        \A p \in Products : stock[p] + Delta(r, p) >= 0

\* A request that is not inside an item transaction has no rows to write.
NothingToWrite ==
    \A r \in Requests : phase[r] \notin {"ready", "worked"} => rows[r] = NoItems

IInv ==
    /\ TypeOK
    /\ StockNeverNegative
    /\ LocksExclusive
    /\ TakenIsThere
    /\ NothingToWrite

\* Why parts are only lost in the steps PartsLostOnlyWhenOutdated names: a
\* transaction writes either new rows, or the item it was asked to change.

Inserts(r) == req[r].op \in {"create", "add"}
Changes(r) == req[r].op \in {"update", "remove"}
Writing(r) == phase[r] \in {"ready", "worked"}
Returning(r) == phase[r] \in {"owing", "restoring"}

ArgumentsFit ==
    \A r \in Requests :
        /\ req[r].op \notin {"none", "edit"} => req[r].order \in Orders
        /\ req[r].op = "edit" => req[r].product \in Products
        /\ req[r].op = "status" => (req[r].from = "CANCELLED" => req[r].to = "CANCELLED")
        /\ req[r].op = "invoice" => req[r].from # "CANCELLED" /\ req[r].to # "CANCELLED"
        /\ Writing(r) => Inserts(r) \/ Changes(r)
        /\ Returning(r) => req[r].op = "status"

\* An item never moves to another order, so all that is asked of it names one.
ItemsKeepTheirOrder ==
    /\ \A i \in Live(item) : item[i].order \in Orders
    /\ \A r \in Requests : Changes(r) =>
          /\ req[r].item \in Items
          /\ item[req[r].item].state # "ABSENT"
          /\ item[req[r].item].state = "LIVE" => item[req[r].item].order = req[r].order
    /\ \A r, q \in Requests :
          Changes(r) /\ Changes(q) /\ req[r].item = req[q].item => req[r].order = req[q].order

\* A new row has an id of its own; a changed one was read in the order.
NewRowsAreNew ==
    \A r \in Requests : Writing(r) /\ Inserts(r) =>
        /\ seen[r] = NoItems
        /\ \A i \in Writes(r) :
              item[i] = NoItem /\ \A q \in Requests \ {r} : rows[q][i] = NoItem

ChangesWhatWasRead ==
    \A r \in Requests : Writing(r) /\ Changes(r) =>
        /\ Writes(r) = {req[r].item}
        /\ \A i \in Items \ {req[r].item} : seen[r][i] = NoItem
        /\ seen[r][req[r].item].state = "LIVE"

RowsOfTheOrder ==
    \A r \in Requests : Writing(r) =>
        \A i \in Writes(r) :
            /\ rows[r][i].state # "ABSENT"
            /\ rows[r][i].state = "LIVE" => rows[r][i].order = req[r].order

Sources ==
    /\ ArgumentsFit
    /\ ItemsKeepTheirOrder
    /\ NewRowsAreNew
    /\ ChangesWhatWasRead
    /\ RowsOfTheOrder

============================================================================
