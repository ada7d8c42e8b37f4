--------------------------- MODULE WorkOrdersProofs --------------------------
(***************************************************************************)
(* First part: WorkOrders, up to the heading of Workshop.                  *)
(*                                                                         *)
(* Type correctness of WorkOrders, that stock is never negative, and that  *)
(* parts are only lost in the steps the code leaves open, for every number *)
(* of requests, orders, items and products.                                *)
(*                                                                         *)
(* TakenIsThere: between the conditional UPDATE of a transaction and its    *)
(* COMMIT the stock it takes stays on the shelf, because whoever else       *)
(* writes that product waits for its row lock.  Sources: the rows a         *)
(* transaction will write differ from those it read by exactly the parts it *)
(* moves, so that a commit whose reads are not outdated moves each part     *)
(* once, and parts are counted item by item with the lemmas of Totals.      *)
(*                                                                         *)
(* Second part: Workshop.  That what is listed is stored, and that its     *)
(* rules are broken only on outdated reads.  WorkshopIInv says what        *)
(* requests were given (Given) and which of their readings stay true       *)
(* whatever the others do (Kept); one lemma per table bounds what a step   *)
(* does to it.                                                             *)
(***************************************************************************)
EXTENDS WorkOrders, Workshop, TotalsProofs, TLAPS

----------------------------------------------------------------------------
(* Operators *)

LEMMA NoItemsType == NoItems \in [Items -> ItemRow] /\ NoItem \in ItemRow
BY DEF NoItems, NoItem, ItemRow

\* The number of parts in a table of items is a natural number.
LEMMA PartsType ==
    ASSUME NEW table \in [Items -> ItemRow], NEW p
    PROVE  Parts(table, p) \in Nat
<1> DEFINE S == {i \in Live(table) : table[i].product = p}
<1>1. S \subseteq Items
  BY DEF Live
<1>2. IsFiniteSet(S)
  BY <1>1, SetsAssumption, FS_Subset
<1>3. \A i \in S : Qty(table)[i] \in Nat
  BY <1>1 DEF Qty, ItemRow
<1> HIDE DEF S
<1>4. Total(S, Qty(table)) \in Nat
  BY <1>2, <1>3, TotalType
<1>5. QED
  BY <1>4 DEF Parts, S

\* So is the total of an order.
LEMMA SumType ==
    ASSUME NEW table \in [Items -> ItemRow], NEW o
    PROVE  ItemSum(table, o) \in Nat
<1> DEFINE S == {i \in Live(table) : table[i].order = o}
<1>1. S \subseteq Items
  BY DEF Live
<1>2. IsFiniteSet(S)
  BY <1>1, SetsAssumption, FS_Subset
<1>3. \A i \in S : Qty(table)[i] \in Nat
  BY <1>1 DEF Qty, ItemRow
<1> HIDE DEF S
<1>4. Total(S, Qty(table)) \in Nat
  BY <1>2, <1>3, TotalType
<1>5. QED
  BY <1>4 DEF ItemSum, S

\* An empty table has no parts.
LEMMA PartsNone ==
    ASSUME NEW p
    PROVE  Parts(NoItems, p) = 0
<1>1. {i \in Live(NoItems) : NoItems[i].product = p} = {}
  BY DEF Live, NoItems, NoItem
<1>2. QED
  BY <1>1, TotalEmpty DEF Parts

LEMMA DeltaType ==
    ASSUME TypeOK, NEW r \in Requests, NEW p
    PROVE  Delta(r, p) \in Int
BY PartsType DEF TypeOK, Delta

\* A request with nothing to write only returns parts.
LEMMA ReturnsOnly ==
    ASSUME TypeOK, NEW r \in Requests, NEW p, rows[r] = NoItems
    PROVE  Delta(r, p) >= 0
<1>1. Parts(seen[r], p) \in Nat
  BY PartsType DEF TypeOK
<1>2. QED
  BY <1>1, PartsNone DEF Delta

LEMMA OverlayType ==
    ASSUME TypeOK, NEW r \in Requests
    PROVE  Overlay(r) \in [Items -> ItemRow]
BY DEF TypeOK, Overlay

----------------------------------------------------------------------------
(* Types *)

LEMMA InitType == Init => TypeOK
BY AmountsAssumption, NoItemsType
   DEF Init, TypeOK, OrderRow, WorkOrderStatus, NoRequest, Request, Phase

\* The request and its tables keep their types when the handler begins or ends.
LEMMA BeginType ==
    ASSUME TypeOK, NEW r \in Requests, NEW ph \in Phase, NEW args \in Request,
           NEW reads \in [Items -> ItemRow], NEW writes \in [Items -> ItemRow],
           Begin(r, ph, args, reads, writes)
    PROVE  TypeOK'
BY DEF TypeOK, Begin, tables

LEMMA FinishType ==
    ASSUME TypeOK, NEW r \in Requests, Finish(r)
    PROVE  /\ req' \in [Requests -> Request]
           /\ phase' \in [Requests -> Phase]
           /\ seen' \in [Requests -> [Items -> ItemRow]]
           /\ rows' \in [Requests -> [Items -> ItemRow]]
           /\ sum' \in [Requests -> Nat]
<1>1. NoRequest \in Request
  BY DEF NoRequest, Request
<1>2. "idle" \in Phase
  BY DEF Phase
<1>3. QED
  BY <1>1, <1>2, NoItemsType DEF TypeOK, Finish

\* Every handler that starts has well-typed arguments.
LEMMA StartType ==
    ASSUME TypeOK, NEW r \in Requests
    PROVE  /\ \A o \in Orders, I \in SUBSET Items :
                 \A L \in [I -> (Products \cup {None}) \X Quantities] :
                     StartCreate(r, o, L) => TypeOK'
           /\ \A o \in Orders, i \in Items, p \in Products \cup {None}, n \in Quantities :
                 StartAdd(r, o, i, p, n) => TypeOK'
           /\ \A i \in Items, n \in Quantities \cup {0} : StartUpdate(r, i, n) => TypeOK'
           /\ \A i \in Items : StartRemove(r, i) => TypeOK'
           /\ \A o \in Orders, s \in WorkOrderStatus : StartStatus(r, o, s) => TypeOK'
           /\ \A o \in Orders : StartRollback(r, o) => TypeOK'
           /\ \A o \in Orders : StartInvoice(r, o) => TypeOK'
<1> USE AmountsAssumption, NoItemsType
<1>1. "ready" \in Phase /\ "checked" \in Phase
  BY DEF Phase
<1>2. NoRequest \in Request
  BY DEF NoRequest, Request
<1>3. \A o \in Orders, p \in Products \cup {None}, n \in Quantities :
          Line(o, p, n) \in ItemRow
  BY DEF Line, ItemRow
<1>4. ASSUME NEW o \in Orders, NEW I \in SUBSET Items,
             NEW L \in [I -> (Products \cup {None}) \X Quantities], StartCreate(r, o, L)
      PROVE  TypeOK'
  <2> DEFINE args == [NoRequest EXCEPT !.op = "create", !.order = o]
             writes == [i \in Items |-> IF i \in DOMAIN L THEN Line(o, L[i][1], L[i][2])
                                        ELSE NoItem]
  <2>1. args \in Request
    BY DEF NoRequest, Request
  <2>2. \A i \in I : L[i][1] \in Products \cup {None} /\ L[i][2] \in Quantities
    OBVIOUS
  <2>3. writes \in [Items -> ItemRow]
    BY <2>2, <1>3
  <2>4. Begin(r, "ready", args, NoItems, writes)
    BY <1>4 DEF StartCreate
  <2> HIDE DEF args, writes
  <2>5. QED
    BY <2>1, <2>3, <2>4, <1>1, BeginType
<1>5. ASSUME NEW o \in Orders, NEW i \in Items, NEW p \in Products \cup {None},
             NEW n \in Quantities, StartAdd(r, o, i, p, n)
      PROVE  TypeOK'
  <2> DEFINE args == [NoRequest EXCEPT !.op = "add", !.order = o]
             writes == [NoItems EXCEPT ![i] = Line(o, p, n)]
  <2>1. args \in Request
    BY DEF NoRequest, Request
  <2>2. writes \in [Items -> ItemRow]
    BY <1>3
  <2>3. Begin(r, "ready", args, NoItems, writes)
    BY <1>5 DEF StartAdd
  <2> HIDE DEF args, writes
  <2>4. QED
    BY <2>1, <2>2, <2>3, <1>1, BeginType
<1>6. ASSUME NEW i \in Items, NEW n \in Quantities \cup {0}, StartUpdate(r, i, n)
      PROVE  TypeOK'
  <2> DEFINE args == [NoRequest EXCEPT !.op = "update", !.order = item[i].order,
                                       !.item = i, !.qty = n]
  <2>1. item[i].order \in Orders \cup {None} /\ n \in Nat
    BY DEF TypeOK, ItemRow
  <2>2. args \in Request
    <3> DEFINE base == [NoRequest EXCEPT !.op = "update", !.order = item[i].order]
    <3>1. base \in Request
      BY <2>1 DEF NoRequest, Request
    <3>2. args = [base EXCEPT !.item = i, !.qty = n]
      OBVIOUS
    <3> HIDE DEF args, base
    <3>3. QED
      BY <2>1, <3>1, <3>2 DEF Request
  <2>3. Begin(r, "checked", args, NoItems, NoItems)
    BY <1>6 DEF StartUpdate
  <2> HIDE DEF args
  <2>4. QED
    BY <2>2, <2>3, <1>1, BeginType
<1>7. ASSUME NEW i \in Items, StartRemove(r, i)
      PROVE  TypeOK'
  <2> DEFINE args == [NoRequest EXCEPT !.op = "remove", !.order = item[i].order, !.item = i]
  <2>1. item[i].order \in Orders \cup {None}
    BY DEF TypeOK, ItemRow
  <2>2. args \in Request
    BY <2>1 DEF NoRequest, Request
  <2>3. Begin(r, "checked", args, NoItems, NoItems)
    BY <1>7 DEF StartRemove
  <2> HIDE DEF args
  <2>4. QED
    BY <2>2, <2>3, <1>1, BeginType
<1>8. ASSUME NEW o \in Orders, NEW s \in WorkOrderStatus,
             Begin(r, "checked", [NoRequest EXCEPT !.op = "status", !.order = o,
                                     !.from = Status(o), !.to = s], NoItems, NoItems)
      PROVE  TypeOK'
  <2> DEFINE args == [NoRequest EXCEPT !.op = "status", !.order = o,
                                       !.from = Status(o), !.to = s]
  <2>1. Status(o) \in WorkOrderStatus \cup {"ABSENT"}
    BY DEF TypeOK, Status, OrderRow
  <2>2. args \in Request
    BY <2>1 DEF NoRequest, Request
  <2>3. Begin(r, "checked", args, NoItems, NoItems)
    BY <1>8
  <2> HIDE DEF args
  <2>4. QED
    BY <2>2, <2>3, <1>1, BeginType
<1>9. \A o \in Orders, s \in WorkOrderStatus : StartStatus(r, o, s) => TypeOK'
  BY <1>8 DEF StartStatus
<1>10. \A s : Previous(s) \subseteq WorkOrderStatus
  BY DEF Previous, WorkOrderStatus
<1>11. \A o \in Orders : StartRollback(r, o) => TypeOK'
  BY <1>8, <1>10 DEF StartRollback
<1>12. ASSUME NEW o \in Orders, StartInvoice(r, o)
       PROVE  TypeOK'
  <2> DEFINE args == [NoRequest EXCEPT !.op = "invoice", !.order = o, !.from = Status(o),
                                       !.to = "COMPLETED"]
  <2>1. Status(o) \in WorkOrderStatus \cup {"ABSENT"} /\ "COMPLETED" \in WorkOrderStatus
    BY DEF TypeOK, Status, OrderRow, WorkOrderStatus
  <2>2. args \in Request
    BY <2>1 DEF NoRequest, Request
  <2>3. Begin(r, "checked", args, NoItems, NoItems)
    BY <1>12 DEF StartInvoice
  <2> HIDE DEF args
  <2>4. QED
    BY <2>2, <2>3, <1>1, BeginType
<1>13. QED
  BY <1>4, <1>5, <1>6, <1>7, <1>9, <1>11, <1>12

LEMMA StartEditType ==
    ASSUME TypeOK, StockNeverNegative, NEW r \in Requests, NEW p \in Products,
           NEW n \in Levels \cup {stock[p]}, StartEdit(r, p, n)
    PROVE  TypeOK'
<1> DEFINE args == [NoRequest EXCEPT !.op = "edit", !.product = p, !.was = stock[p],
                                     !.level = n]
<1>1. stock[p] \in Nat /\ n \in Nat
  BY AmountsAssumption DEF TypeOK, StockNeverNegative
<1>2. args \in Request
  BY <1>1 DEF NoRequest, Request
<1>3. Begin(r, "checked", args, NoItems, NoItems)
  BY DEF StartEdit
<1>4. "checked" \in Phase
  BY DEF Phase
<1> HIDE DEF args
<1>5. QED
  BY <1>2, <1>3, <1>4, NoItemsType, BeginType

\* A table of orders keeps its type when a column is written.
LEMMA OrderTyped ==
    ASSUME NEW t \in [Orders -> OrderRow], NEW o
    PROVE  /\ \A v \in WorkOrderStatus \cup {"ABSENT"} :
                  [t EXCEPT ![o].status = v] \in [Orders -> OrderRow]
           /\ \A v \in Nat : [t EXCEPT ![o].total = v] \in [Orders -> OrderRow]
           /\ \A v \in BOOLEAN : [t EXCEPT ![o].invoiced = v] \in [Orders -> OrderRow]
BY DEF OrderRow

\* Every other step of a handler keeps the types.
LEMMA StepType ==
    ASSUME TypeOK, StockNeverNegative, NEW r \in Requests, Step(r)
    PROVE  TypeOK'
<1>1. CASE ReadItem(r)
  <2> DEFINE i == req[r].item
  <2>1. i \in Items \cup {None} /\ req[r].qty \in Nat
    BY DEF TypeOK, Request
  <2>2. i \in Items => item[i] \in ItemRow /\ Changed(r, item[i]) \in ItemRow
    <3> SUFFICES ASSUME i \in Items PROVE item[i] \in ItemRow /\ Changed(r, item[i]) \in ItemRow
      OBVIOUS
    <3>1. item[i] \in ItemRow
      BY DEF TypeOK
    <3>2. QED
      BY <3>1, <2>1 DEF Changed, ItemRow, NoItem
  <2>3. /\ seen' \in [Requests -> [Items -> ItemRow]]
        /\ rows' \in [Requests -> [Items -> ItemRow]]
    <3>1. [NoItems EXCEPT ![i] = item[i]] \in [Items -> ItemRow]
      BY <2>2, NoItemsType
    <3>2. [NoItems EXCEPT ![i] = Changed(r, item[i])] \in [Items -> ItemRow]
      BY <2>2, NoItemsType
    <3>3. QED
      BY <1>1, <3>1, <3>2 DEF ReadItem, TypeOK
  <2>4. "ready" \in Phase
    BY DEF Phase
  <2>5. QED
    BY <1>1, <2>3, <2>4 DEF ReadItem, TypeOK, tables
<1>2. CASE Work(r)
  <2>1. ItemSum(Overlay(r), req[r].order) \in Nat
    BY OverlayType, SumType
  <2>2. "worked" \in Phase
    BY DEF Phase
  <2>3. QED
    BY <1>2, <2>1, <2>2 DEF Work, TypeOK, tables
<1>3. CASE Commit(r)
  <2>1. item' \in [Items -> ItemRow]
    BY <1>3, OverlayType DEF Commit
  <2>2. stock' \in [Products -> Int]
    BY <1>3, DeltaType DEF Commit, TypeOK
  <2>3. order' \in [Orders -> OrderRow]
    <3> DEFINE o == req[r].order
               st == IF req[r].op = "create" THEN "QUEUE" ELSE order[o].status
               t == [order EXCEPT ![o].status = st]
    <3>1. order \in [Orders -> OrderRow] /\ sum[r] \in Nat
      BY DEF TypeOK
    <3>2. CASE o \in Orders
      <4>1. st \in WorkOrderStatus \cup {"ABSENT"}
        BY <3>1, <3>2 DEF OrderRow, WorkOrderStatus
      <4>2. t \in [Orders -> OrderRow]
        BY <3>1, <4>1, OrderTyped
      <4>3. order' = [t EXCEPT ![o].total = sum[r]]
        BY <1>3 DEF Commit
      <4> HIDE DEF t, o
      <4>4. QED
        BY <3>1, <4>2, <4>3, OrderTyped
    <3>3. CASE o \notin Orders
      <4>1. order' = order
        BY <1>3, <3>1, <3>3 DEF Commit
      <4>2. QED
        BY <3>1, <4>1
    <3>4. QED
      BY <3>2, <3>3
  <2>4. QED
    BY <1>3, <2>1, <2>2, <2>3, FinishType DEF Commit, TypeOK
<1>4. CASE Reject(r)
  BY <1>4, FinishType DEF Reject, TypeOK, tables
<1>5. CASE WriteStatus(r)
  <2>1. order' \in [Orders -> OrderRow]
    <3>1. req[r].to \in WorkOrderStatus \cup {"ABSENT"}
      BY DEF TypeOK, Request
    <3>2. order' = [order EXCEPT ![req[r].order].status = req[r].to]
      BY <1>5 DEF WriteStatus
    <3>3. QED
      BY <3>1, <3>2 DEF TypeOK, OrderRow
  <2>2. "owing" \in Phase
    BY DEF Phase
  <2>3. CASE Owes(r)
    BY <1>5, <2>1, <2>2, <2>3 DEF WriteStatus, TypeOK, local
  <2>4. CASE ~Owes(r)
    BY <1>5, <2>1, <2>4, FinishType DEF WriteStatus, TypeOK
  <2>5. QED
    BY <2>3, <2>4
<1>6. CASE ReadRestore(r)
  <2>1. ItemsOf(req[r].order) \in [Items -> ItemRow]
    BY NoItemsType DEF ItemsOf, TypeOK
  <2>2. "restoring" \in Phase
    BY DEF Phase
  <2>3. QED
    BY <1>6, <2>1, <2>2 DEF ReadRestore, TypeOK, tables
<1>7. CASE Restore(r)
  <2>1. stock' \in [Products -> Int]
    BY <1>7, DeltaType DEF Restore, TypeOK
  <2>2. QED
    BY <1>7, <2>1, FinishType DEF Restore, TypeOK
<1>8. CASE SaveEdit(r)
  <2>1. stock' \in [Products -> Int]
    <3>1. req[r].level \in Int
      BY DEF TypeOK, Request
    <3>2. stock' = [stock EXCEPT ![req[r].product] = req[r].level]
      BY <1>8 DEF SaveEdit
    <3>3. QED
      BY <3>1, <3>2 DEF TypeOK
  <2>2. QED
    BY <1>8, <2>1, FinishType DEF SaveEdit, TypeOK
<1>9. CASE Abort(r)
  BY <1>9, FinishType DEF Abort, TypeOK, tables
<1>10. CASE WriteInvoice(r)
  <2>1. req[r].to \in WorkOrderStatus \cup {"ABSENT"}
    BY DEF TypeOK, Request
  <2>2. order' \in [Orders -> OrderRow]
    <3> DEFINE o == req[r].order
               t == [order EXCEPT ![o].status = req[r].to]
    <3>1. t \in [Orders -> OrderRow]
      BY <2>1, OrderTyped DEF TypeOK
    <3>2. order' = [t EXCEPT ![o].invoiced = TRUE]
      BY <1>10 DEF WriteInvoice
    <3> HIDE DEF t, o
    <3>3. QED
      BY <3>1, <3>2, OrderTyped
  <2>3. QED
    BY <1>10, <2>2, FinishType DEF WriteInvoice, TypeOK
<1>11. QED
  BY <1>1, <1>2, <1>3, <1>4, <1>5, <1>6, <1>7, <1>8, <1>9, <1>10, StartType, StartEditType
     DEF Step

\* So do the cancellations made elsewhere.
LEMMA ElsewhereType ==
    ASSUME TypeOK, NEW o \in Orders, CancelAppointment(o) \/ CancelInvoice(o)
    PROVE  TypeOK'
<1>1. order \in [Orders -> OrderRow]
  BY DEF TypeOK
<1>2. order' \in [Orders -> OrderRow]
  <2>1. CASE CancelAppointment(o)
    BY <1>1, <2>1, OrderTyped DEF CancelAppointment, WorkOrderStatus
  <2>2. CASE CancelInvoice(o)
    <3> DEFINE t == [order EXCEPT ![o].status = "IN_PROGRESS"]
    <3>1. t \in [Orders -> OrderRow]
      BY <1>1, OrderTyped DEF WorkOrderStatus
    <3>2. order' = [t EXCEPT ![o].invoiced = FALSE]
      BY <2>2 DEF CancelInvoice
    <3> HIDE DEF t
    <3>3. QED
      BY <3>1, <3>2, OrderTyped
  <2>3. QED
    BY <2>1, <2>2
<1>3. QED
  BY <1>2 DEF CancelAppointment, CancelInvoice, TypeOK, local

----------------------------------------------------------------------------
(* Locks *)

\* A step of one handler leaves the variables of the others alone.
LEMMA OthersUntouched ==
    ASSUME TypeOK, NEW r \in Requests, Step(r), NEW q \in Requests, q # r
    PROVE  phase'[q] = phase[q] /\ seen'[q] = seen[q] /\ rows'[q] = rows[q]
<1>1. \A ph, args, reads, writes :
          Begin(r, ph, args, reads, writes) =>
              phase'[q] = phase[q] /\ seen'[q] = seen[q] /\ rows'[q] = rows[q]
  BY DEF Begin, TypeOK
<1>2. Finish(r) => phase'[q] = phase[q] /\ seen'[q] = seen[q] /\ rows'[q] = rows[q]
  BY DEF Finish, TypeOK
<1>3. ReadItem(r) \/ Work(r) \/ ReadRestore(r) =>
          phase'[q] = phase[q] /\ seen'[q] = seen[q] /\ rows'[q] = rows[q]
  BY DEF ReadItem, Work, ReadRestore, TypeOK
<1>4. WriteStatus(r) => phase'[q] = phase[q] /\ seen'[q] = seen[q] /\ rows'[q] = rows[q]
  BY <1>2 DEF WriteStatus, local, TypeOK
<1>5. QED
  BY <1>1, <1>2, <1>3, <1>4
     DEF Step, StartCreate, StartAdd, StartUpdate, StartRemove, StartStatus,
         StartRollback, StartInvoice, StartEdit, Commit, Reject, WriteInvoice, Restore,
         SaveEdit, Abort

\* A request whose tables do not change keeps what it adds to the stock ...
LEMMA DeltaKept ==
    ASSUME NEW q, seen'[q] = seen[q], rows'[q] = rows[q], NEW p
    PROVE  Delta(q, p)' = Delta(q, p)
BY DEF Delta, Parts, Live, Qty

\* ... and its locks, with its phase.
LEMMA LocksKept ==
    ASSUME NEW q, phase'[q] = phase[q], seen'[q] = seen[q], rows'[q] = rows[q]
    PROVE  LockedProducts(q)' = LockedProducts(q) /\ LockedItems(q)' = LockedItems(q)
<1>1. \A p : Delta(q, p)' = Delta(q, p)
  BY DeltaKept
<1>2. Writes(q)' = Writes(q)
  BY DEF Writes
<1>3. QED
  BY <1>1, <1>2 DEF LockedProducts, LockedItems

\* A transaction writes only products it has locked.
LEMMA WritesOnlyLocked ==
    ASSUME TypeOK, NEW r \in Requests, Commit(r), NEW p \in Products,
           p \notin LockedProducts(r)
    PROVE  stock'[p] = stock[p]
<1>1. phase[r] = "worked"
  BY DEF Commit
<1>2. Delta(r, p) = 0
  BY <1>1 DEF LockedProducts
<1>3. QED
  BY <1>2 DEF Commit, TypeOK

\* A step of one handler leaves alone the products another has locked.
LEMMA LockedProductKept ==
    ASSUME TypeOK, LocksExclusive, NEW r \in Requests, Step(r),
           NEW q \in Requests, q # r, NEW p \in LockedProducts(q)
    PROVE  stock'[p] = stock[p]
<1>1. p \in Products /\ phase[q] = "worked" /\ Delta(q, p) # 0
  BY DEF LockedProducts
<1>2. CASE Commit(r)
  <2>1. p \notin LockedProducts(r)
    BY DEF LocksExclusive
  <2>2. QED
    BY <1>1, <1>2, <2>1, WritesOnlyLocked
<1>3. CASE Restore(r)
  <2>1. Delta(r, p) = 0
    BY <1>1, <1>3 DEF Restore, Free, Unlocked
  <2>2. QED
    BY <1>1, <1>3, <2>1 DEF Restore, TypeOK
<1>4. CASE SaveEdit(r)
  <2>1. p # req[r].product
    BY <1>1, <1>4 DEF SaveEdit, Unlocked
  <2>2. QED
    BY <1>1, <1>4, <2>1 DEF SaveEdit, TypeOK
<1>5. CASE ~(Commit(r) \/ Restore(r) \/ SaveEdit(r))
  BY <1>5
     DEF Step, Begin, StartCreate, StartAdd, StartUpdate, StartRemove, StartStatus,
         StartRollback, StartInvoice, StartEdit, ReadItem, Work, Reject, WriteStatus,
         WriteInvoice, ReadRestore, Abort, tables
<1>6. QED
  BY <1>2, <1>3, <1>4, <1>5

----------------------------------------------------------------------------
(* Invariance *)

\* Only the statements of an item transaction take row locks.
LEMMA OnlyWorkLocks ==
    ASSUME TypeOK, NEW r \in Requests, Step(r), ~Work(r)
    PROVE  phase'[r] # "worked"
<1>1. \A args, reads, writes, ph :
          Begin(r, ph, args, reads, writes) /\ ph \in {"ready", "checked"} =>
              phase'[r] # "worked"
  BY DEF Begin, TypeOK
<1>2. Finish(r) => phase'[r] # "worked"
  BY DEF Finish, TypeOK
<1>3. ReadItem(r) \/ ReadRestore(r) => phase'[r] # "worked"
  BY DEF ReadItem, ReadRestore, TypeOK
<1>4. WriteStatus(r) => phase'[r] # "worked"
  BY <1>2 DEF WriteStatus, TypeOK
<1>5. QED
  BY <1>1, <1>2, <1>3, <1>4
     DEF Step, StartCreate, StartAdd, StartUpdate, StartRemove, StartStatus,
         StartRollback, StartInvoice, StartEdit, Commit, Reject, WriteInvoice, Restore,
         SaveEdit, Abort

LEMMA StockStaysNatural ==
    ASSUME IInv, NEW r \in Requests, Step(r)
    PROVE  StockNeverNegative'
<1> USE DEF IInv
<1>1. CASE Commit(r)
  <2>1. \A p \in Products : stock[p] + Delta(r, p) >= 0
    BY <1>1 DEF Commit, TakenIsThere
  <2>2. QED
    BY <1>1, <2>1 DEF Commit, StockNeverNegative
<1>2. CASE Restore(r)
  <2>1. rows[r] = NoItems
    BY <1>2 DEF Restore, NothingToWrite
  <2>2. \A p \in Products : Delta(r, p) \in Int /\ Delta(r, p) >= 0
    BY <2>1, ReturnsOnly, DeltaType
  <2>3. \A p \in Products : stock[p] \in Int /\ stock[p] >= 0
    BY DEF TypeOK, StockNeverNegative
  <2>4. \A p \in Products : stock'[p] = stock[p] + Delta(r, p)
    BY <1>2 DEF Restore
  <2>5. QED
    BY <2>2, <2>3, <2>4 DEF StockNeverNegative
<1>3. CASE SaveEdit(r)
  <2>1. req[r].level \in Nat
    BY DEF TypeOK, Request
  <2>2. \A p \in Products : stock'[p] \in {stock[p], req[r].level}
    BY <1>3 DEF SaveEdit, TypeOK
  <2>3. QED
    BY <2>1, <2>2 DEF StockNeverNegative
<1>4. CASE ~(Commit(r) \/ Restore(r) \/ SaveEdit(r))
  <2>1. stock' = stock
    BY <1>4
       DEF Step, Begin, StartCreate, StartAdd, StartUpdate, StartRemove, StartStatus,
           StartRollback, StartInvoice, StartEdit, ReadItem, Work, Reject, WriteStatus,
           WriteInvoice, ReadRestore, Abort, tables
  <2>2. QED
    BY <2>1 DEF StockNeverNegative
<1>5. QED
  BY <1>1, <1>2, <1>3, <1>4

LEMMA LocksStayExclusive ==
    ASSUME TypeOK, LocksExclusive, NEW r \in Requests, Step(r)
    PROVE  LocksExclusive'
<1>1. ASSUME NEW q \in Requests, q # r
      PROVE  LockedProducts(q)' = LockedProducts(q) /\ LockedItems(q)' = LockedItems(q)
  BY <1>1, OthersUntouched, LocksKept
<1>2. ASSUME NEW q \in Requests, q # r
      PROVE  /\ LockedProducts(r)' \cap LockedProducts(q)' = {}
             /\ LockedItems(r)' \cap LockedItems(q)' = {}
  <2>1. CASE Work(r)
    <3>1. \A p : Delta(r, p)' = Delta(r, p)
      BY <2>1, DeltaKept DEF Work
    <3>2. Writes(r)' = Writes(r)
      BY <2>1 DEF Work, Writes
    <3>3. /\ LockedProducts(r)' \subseteq {p \in Products : Delta(r, p) # 0}
          /\ LockedItems(r)' \subseteq Writes(r)
      BY <3>1, <3>2 DEF LockedProducts, LockedItems
    <3>4. /\ LockedProducts(q) \cap {p \in Products : Delta(r, p) # 0} = {}
          /\ LockedItems(q) \cap Writes(r) = {}
      BY <2>1 DEF Work, Free, Unlocked
    <3>5. QED
      BY <1>1, <1>2, <3>3, <3>4
  <2>2. CASE ~Work(r)
    <3>1. phase'[r] # "worked"
      BY <2>2, OnlyWorkLocks
    <3>2. QED
      BY <3>1 DEF LockedProducts, LockedItems
  <2>3. QED
    BY <2>1, <2>2
<1>3. ASSUME NEW x \in Requests, NEW y \in Requests, x # y
      PROVE  /\ LockedProducts(x)' \cap LockedProducts(y)' = {}
             /\ LockedItems(x)' \cap LockedItems(y)' = {}
  <2>1. CASE x = r
    BY <1>2, <1>3, <2>1
  <2>2. CASE y = r
    BY <1>2, <1>3, <2>2
  <2>3. CASE x # r /\ y # r
    BY <1>1, <1>3, <2>3 DEF LocksExclusive
  <2>4. QED
    BY <2>1, <2>2, <2>3
<1>4. QED
  BY <1>3 DEF LocksExclusive

LEMMA TakenStaysThere ==
    ASSUME IInv, NEW r \in Requests, Step(r), TypeOK', StockNeverNegative'
    PROVE  TakenIsThere'
<1> USE DEF IInv
<1> SUFFICES ASSUME NEW q \in Requests, phase'[q] = "worked", NEW p \in Products
             PROVE  stock'[p] + Delta(q, p)' >= 0
  BY DEF TakenIsThere
<1>1. CASE q = r
  <2>1. Work(r)
    BY <1>1, OnlyWorkLocks
  <2>2. Delta(r, p)' = Delta(r, p) /\ stock' = stock
    BY <2>1, DeltaKept DEF Work, tables
  <2>3. stock[p] \in Int /\ stock[p] >= 0 /\ Delta(r, p) \in Int
    BY DeltaType DEF TypeOK, StockNeverNegative
  <2>4. stock[p] + Delta(r, p) >= 0
    BY <2>1, <2>3 DEF Work, Enough
  <2>5. QED
    BY <1>1, <2>2, <2>4
<1>2. CASE q # r
  <2>1. phase[q] = "worked" /\ Delta(q, p)' = Delta(q, p)
    BY <1>2, OthersUntouched, DeltaKept
  <2>2. CASE p \in LockedProducts(q)
    <3>1. stock'[p] = stock[p]
      BY <1>2, <2>2, LockedProductKept
    <3>2. QED
      BY <2>1, <3>1 DEF TakenIsThere
  <2>3. CASE p \notin LockedProducts(q)
    <3>1. Delta(q, p) = 0
      BY <2>1, <2>3 DEF LockedProducts
    <3>2. stock'[p] \in Int /\ stock'[p] >= 0
      BY DEF TypeOK, StockNeverNegative
    <3>3. QED
      BY <2>1, <3>1, <3>2
  <2>4. QED
    BY <2>2, <2>3
<1>3. QED
  BY <1>1, <1>2

LEMMA NothingStaysToWrite ==
    ASSUME TypeOK, NothingToWrite, NEW r \in Requests, Step(r)
    PROVE  NothingToWrite'
<1>1. phase'[r] \notin {"ready", "worked"} => rows'[r] = NoItems
  <2>1. Finish(r) => rows'[r] = NoItems
    BY DEF Finish, TypeOK
  <2>2. \A args, reads, writes, ph :
            Begin(r, ph, args, reads, writes) => phase'[r] = ph /\ rows'[r] = writes
    BY DEF Begin, TypeOK
  <2>3. ReadItem(r) \/ Work(r) => phase'[r] \in {"ready", "worked"}
    BY DEF ReadItem, Work, TypeOK
  <2>4. ReadRestore(r) => rows'[r] = NoItems
    BY DEF ReadRestore, NothingToWrite
  <2>5. WriteStatus(r) => rows'[r] = NoItems
    BY <2>1 DEF WriteStatus, NothingToWrite, local
  <2>6. QED
    BY <2>1, <2>2, <2>3, <2>4, <2>5
       DEF Step, StartCreate, StartAdd, StartUpdate, StartRemove, StartStatus,
           StartRollback, StartInvoice, StartEdit, Commit, Reject, WriteInvoice, Restore,
           SaveEdit, Abort
<1>2. \A q \in Requests \ {r} : phase'[q] = phase[q] /\ rows'[q] = rows[q]
  BY OthersUntouched
<1>3. QED
  BY <1>1, <1>2 DEF NothingToWrite

LEMMA InitIInv == Init => IInv
<1> SUFFICES ASSUME Init PROVE IInv
  OBVIOUS
<1>1. TypeOK
  BY InitType
<1>2. StockNeverNegative
  BY AmountsAssumption DEF Init, StockNeverNegative
<1>3. \A r \in Requests : phase[r] = "idle" /\ rows[r] = NoItems
  BY DEF Init
<1>4. LocksExclusive /\ TakenIsThere /\ NothingToWrite
  BY <1>3 DEF LocksExclusive, TakenIsThere, NothingToWrite, LockedProducts, LockedItems
<1>5. QED
  BY <1>1, <1>2, <1>4 DEF IInv

\* Steps that change neither the stock nor any request.
LEMMA FrameIInv ==
    ASSUME IInv, TypeOK', UNCHANGED <<stock, local, phase>>
    PROVE  IInv'
<1> USE DEF IInv
<1>1. \A q \in Requests : phase'[q] = phase[q] /\ seen'[q] = seen[q] /\ rows'[q] = rows[q]
  BY DEF local
<1>2. \A q \in Requests : /\ LockedProducts(q)' = LockedProducts(q)
                          /\ LockedItems(q)' = LockedItems(q)
  BY <1>1, LocksKept
<1>3. \A q \in Requests, p \in Products : Delta(q, p)' = Delta(q, p)
  BY <1>1, DeltaKept
<1>4. StockNeverNegative' /\ NothingToWrite'
  BY <1>1 DEF StockNeverNegative, NothingToWrite
<1>5. LocksExclusive'
  BY <1>2 DEF LocksExclusive
<1>6. TakenIsThere'
  BY <1>1, <1>3 DEF TakenIsThere
<1>7. QED
  BY <1>4, <1>5, <1>6

LEMMA Invariance == IInv /\ [Next]_vars => IInv'
<1> SUFFICES ASSUME IInv, [Next]_vars PROVE IInv'
  OBVIOUS
<1>1. ASSUME NEW r \in Requests, Step(r)
      PROVE  IInv'
  <2>1. TypeOK' /\ StockNeverNegative'
    BY <1>1, StepType, StockStaysNatural DEF IInv
  <2>2. LocksExclusive' /\ NothingToWrite'
    BY <1>1, LocksStayExclusive, NothingStaysToWrite DEF IInv
  <2>3. TakenIsThere'
    BY <1>1, <2>1, TakenStaysThere
  <2>4. QED
    BY <2>1, <2>2, <2>3 DEF IInv
<1>2. ASSUME NEW o \in Orders, CancelAppointment(o) \/ CancelInvoice(o)
      PROVE  IInv'
  <2>1. TypeOK'
    BY <1>2, ElsewhereType DEF IInv
  <2>2. QED
    BY <1>2, <2>1, FrameIInv DEF CancelAppointment, CancelInvoice
<1>3. CASE UNCHANGED vars
  <2>1. TypeOK'
    BY <1>3 DEF IInv, TypeOK, vars, tables, local
  <2>2. QED
    BY <1>3, <2>1, FrameIInv DEF vars, tables
<1>4. QED
  BY <1>1, <1>2, <1>3 DEF Next

----------------------------------------------------------------------------
(* Theorems *)

\* The tables keep the shape of the schema, whatever handlers interleave.
THEOREM TypeCorrect == Spec => []TypeOK
<1>1. IInv => TypeOK
  BY DEF IInv
<1>2. QED
  BY <1>1, InitIInv, Invariance, PTL DEF Spec

\* No interleaving of sales, returns, cancellations and warehouse edits takes a
\* part that is not on the shelf: the conditional UPDATE and its row lock
\* suffice, although every check made before the transaction may be stale.
THEOREM NeverOversold == Spec => []StockNeverNegative
<1>1. IInv => StockNeverNegative
  BY DEF IInv
<1>2. QED
  BY <1>1, InitIInv, Invariance, PTL DEF Spec

----------------------------------------------------------------------------
(* What a transaction writes comes from what it was asked and what it read. *)

\* A step of one handler leaves the requests of the others alone.
LEMMA OthersAsked ==
    ASSUME TypeOK, NEW r \in Requests, Step(r), NEW q \in Requests, q # r
    PROVE  req'[q] = req[q]
<1>1. \A ph, args, reads, writes :
          Begin(r, ph, args, reads, writes) => req'[q] = req[q]
  BY DEF Begin, TypeOK
<1>2. Finish(r) => req'[q] = req[q]
  BY DEF Finish, TypeOK
<1>3. ReadItem(r) \/ Work(r) \/ ReadRestore(r) => req'[q] = req[q]
  BY DEF ReadItem, Work, ReadRestore
<1>4. WriteStatus(r) => req'[q] = req[q]
  BY <1>2 DEF WriteStatus, local
<1>5. QED
  BY <1>1, <1>2, <1>3, <1>4
     DEF Step, StartCreate, StartAdd, StartUpdate, StartRemove, StartStatus,
         StartRollback, StartInvoice, StartEdit, Commit, Reject, WriteInvoice, Restore,
         SaveEdit, Abort

\* The part of Sources about one request.
SourcesOf(r) ==
    /\ req[r].op \notin {"none", "edit"} => req[r].order \in Orders
    /\ req[r].op = "edit" => req[r].product \in Products
    /\ req[r].op = "status" => (req[r].from = "CANCELLED" => req[r].to = "CANCELLED")
    /\ req[r].op = "invoice" => req[r].from # "CANCELLED" /\ req[r].to # "CANCELLED"
    /\ Writing(r) => Inserts(r) \/ Changes(r)
    /\ Returning(r) => req[r].op = "status"
    /\ Changes(r) =>
          /\ req[r].item \in Items
          /\ item[req[r].item].state # "ABSENT"
          /\ item[req[r].item].state = "LIVE" => item[req[r].item].order = req[r].order
    /\ Writing(r) /\ Inserts(r) =>
          seen[r] = NoItems /\ \A i \in Writes(r) : item[i] = NoItem
    /\ Writing(r) /\ Changes(r) =>
          /\ Writes(r) = {req[r].item}
          /\ \A i \in Items \ {req[r].item} : seen[r][i] = NoItem
          /\ seen[r][req[r].item].state = "LIVE"
    /\ Writing(r) =>
          \A i \in Writes(r) :
              /\ rows[r][i].state # "ABSENT"
              /\ rows[r][i].state = "LIVE" => rows[r][i].order = req[r].order

\* The part of Sources about two.
SourcesOfBoth(r, q) ==
    /\ Changes(r) /\ Changes(q) /\ req[r].item = req[q].item => req[r].order = req[q].order
    /\ Writing(r) /\ Inserts(r) => \A i \in Writes(r) : rows[q][i] = NoItem

\* Sources is its parts.
LEMMA SourcesParts ==
    Sources <=> /\ \A i \in Live(item) : item[i].order \in Orders
                /\ \A r \in Requests : SourcesOf(r)
                /\ \A r, q \in Requests : r # q => SourcesOfBoth(r, q)
BY DEF Sources, SourcesOf, SourcesOfBoth, ArgumentsFit, ItemsKeepTheirOrder, NewRowsAreNew,
       ChangesWhatWasRead, RowsOfTheOrder

\* A step of r that changes no item keeps Sources if it keeps the parts r is in.
LEMMA SourcesOfOthers ==
    ASSUME TypeOK, Sources, NEW r \in Requests, Step(r), item' = item,
           SourcesOf(r)',
           \A q \in Requests \ {r} : SourcesOfBoth(r, q)' /\ SourcesOfBoth(q, r)'
    PROVE  Sources'
<1>1. ASSUME NEW q \in Requests, q # r
      PROVE  /\ req'[q] = req[q] /\ phase'[q] = phase[q]
             /\ seen'[q] = seen[q] /\ rows'[q] = rows[q]
  BY <1>1, OthersAsked, OthersUntouched
<1>2. ASSUME NEW q \in Requests, q # r
      PROVE  SourcesOf(q)'
  <2>1. SourcesOf(q)
    BY SourcesParts
  <2>2. QED
    BY <1>1, <1>2, <2>1 DEF SourcesOf, Writing, Inserts, Changes, Returning, Writes
<1>3. ASSUME NEW x \in Requests, NEW y \in Requests, x # y, x # r, y # r
      PROVE  SourcesOfBoth(x, y)'
  <2>1. SourcesOfBoth(x, y)
    BY <1>3, SourcesParts
  <2>2. QED
    BY <1>1, <1>3, <2>1 DEF SourcesOfBoth, Writing, Inserts, Changes, Writes
<1>4. \A x, y \in Requests : x # y => SourcesOfBoth(x, y)'
  BY <1>3
<1>5. \A i \in Live(item)' : item'[i].order \in Orders
  BY SourcesParts DEF Live
<1>6. \A q \in Requests : SourcesOf(q)'
  BY <1>2
<1>7. (/\ \A i \in Live(item) : item[i].order \in Orders
       /\ \A q \in Requests : SourcesOf(q)
       /\ \A x, y \in Requests : x # y => SourcesOfBoth(x, y))'
  BY <1>4, <1>5, <1>6
<1>8. QED
  BY <1>7
     DEF Sources, SourcesOf, SourcesOfBoth, ArgumentsFit, ItemsKeepTheirOrder, NewRowsAreNew,
         ChangesWhatWasRead, RowsOfTheOrder

\* A request that has ended has no part in it.
LEMMA EndSources ==
    ASSUME TypeOK, Sources, NEW r \in Requests, Step(r), item' = item, Finish(r)
    PROVE  Sources'
<1>1. req'[r] = NoRequest /\ phase'[r] = "idle" /\ rows'[r] = NoItems
  BY DEF Finish, TypeOK
<1>2. ~Inserts(r)' /\ ~Changes(r)' /\ ~Writing(r)' /\ ~Returning(r)'
  BY <1>1 DEF Inserts, Changes, Writing, Returning, NoRequest
<1>3. SourcesOf(r)'
  BY <1>1, <1>2 DEF SourcesOf, NoRequest
<1>4. ASSUME NEW q \in Requests \ {r}
      PROVE  SourcesOfBoth(r, q)' /\ SourcesOfBoth(q, r)'
  BY <1>1, <1>2 DEF SourcesOfBoth, Writes, NoItems
<1>5. QED
  BY <1>3, <1>4, SourcesOfOthers

\* Requests that will insert rows,
LEMMA InsertSources ==
    ASSUME TypeOK, Sources, NEW r \in Requests, Step(r), NEW args, NEW writes,
           writes \in [Items -> ItemRow],
           Begin(r, "ready", args, NoItems, writes),
           args.op \in {"create", "add"}, args.order \in Orders,
           \A i \in Items : writes[i] # NoItem =>
               FreshItem(i) /\ writes[i].state = "LIVE" /\ writes[i].order = args.order
    PROVE  Sources'
<1>1. /\ req'[r] = args /\ phase'[r] = "ready" /\ seen'[r] = NoItems
      /\ rows'[r] = writes /\ item' = item
  BY DEF Begin, TypeOK, tables
<1>2. Inserts(r)' /\ ~Changes(r)' /\ Writing(r)' /\ ~Returning(r)'
  BY <1>1 DEF Inserts, Changes, Writing, Returning
<1>3. Writes(r)' = {i \in Items : writes[i] # NoItem}
  BY <1>1 DEF Writes
<1>4. SourcesOf(r)'
  BY <1>1, <1>2, <1>3 DEF SourcesOf, FreshItem
<1>5. ASSUME NEW q \in Requests \ {r}
      PROVE  SourcesOfBoth(r, q)' /\ SourcesOfBoth(q, r)'
  <2>1. rows'[q] = rows[q]
    BY <1>5, OthersUntouched
  <2>2. SourcesOfBoth(r, q)'
    BY <1>1, <1>2, <1>3, <2>1 DEF SourcesOfBoth, FreshItem
  <2>3. \A i \in Writes(q)' : rows'[r][i] = NoItem
    BY <1>1, <2>1 DEF Writes, FreshItem
  <2>4. SourcesOfBoth(q, r)'
    BY <1>2, <2>3 DEF SourcesOfBoth
  <2>5. QED
    BY <2>2, <2>4
<1>6. QED
  BY <1>1, <1>4, <1>5, SourcesOfOthers

\* that will change one,
LEMMA ChangeSources ==
    ASSUME TypeOK, Sources, NEW r \in Requests, Step(r), NEW args, NEW i \in Items,
           Begin(r, "checked", args, NoItems, NoItems),
           args.op \in {"update", "remove"}, args.item = i,
           item[i].state = "LIVE", args.order = item[i].order
    PROVE  Sources'
<1>1. /\ req'[r] = args /\ phase'[r] = "checked" /\ rows'[r] = NoItems /\ item' = item
  BY DEF Begin, TypeOK, tables
<1>2. ~Inserts(r)' /\ Changes(r)' /\ ~Writing(r)' /\ ~Returning(r)'
  BY <1>1 DEF Inserts, Changes, Writing, Returning
<1>3. args.order \in Orders
  BY SourcesParts DEF Live
<1>4. SourcesOf(r)'
  BY <1>1, <1>2, <1>3 DEF SourcesOf
<1>5. ASSUME NEW q \in Requests \ {r}
      PROVE  SourcesOfBoth(r, q)' /\ SourcesOfBoth(q, r)'
  <2>1. req'[q] = req[q] /\ rows'[q] = rows[q]
    BY <1>5, OthersUntouched, OthersAsked
  <2>2. SourcesOf(q)
    BY SourcesParts
  <2>3. Changes(q)' /\ req'[q].item = i => req'[q].order = args.order
    BY <2>1, <2>2 DEF SourcesOf, Changes
  <2>4. SourcesOfBoth(r, q)'
    BY <1>1, <1>2, <2>3 DEF SourcesOfBoth
  <2>5. SourcesOfBoth(q, r)'
    BY <1>1, <1>2, <2>3 DEF SourcesOfBoth, NoItems, Writes
  <2>6. QED
    BY <2>4, <2>5
<1>6. QED
  BY <1>1, <1>4, <1>5, SourcesOfOthers

\* or none.
LEMMA OtherSources ==
    ASSUME TypeOK, Sources, NEW r \in Requests, Step(r), NEW args,
           Begin(r, "checked", args, NoItems, NoItems),
           \/ /\ args.op = "invoice" /\ args.order \in Orders
              /\ args.from # "CANCELLED" /\ args.to # "CANCELLED"
           \/ /\ args.op = "status" /\ args.order \in Orders
              /\ args.from = "CANCELLED" => args.to = "CANCELLED"
           \/ args.op = "edit" /\ args.product \in Products
    PROVE  Sources'
<1>1. /\ req'[r] = args /\ phase'[r] = "checked" /\ rows'[r] = NoItems /\ item' = item
  BY DEF Begin, TypeOK, tables
<1>2. ~Inserts(r)' /\ ~Changes(r)' /\ ~Writing(r)' /\ ~Returning(r)'
  BY <1>1 DEF Inserts, Changes, Writing, Returning
<1>3. SourcesOf(r)'
  BY <1>1, <1>2 DEF SourcesOf
<1>4. ASSUME NEW q \in Requests \ {r}
      PROVE  SourcesOfBoth(r, q)' /\ SourcesOfBoth(q, r)'
  BY <1>1, <1>2 DEF SourcesOfBoth, Writes, NoItems
<1>5. QED
  BY <1>1, <1>3, <1>4, SourcesOfOthers

\* The handlers that start.
LEMMA StartSources ==
    ASSUME TypeOK, Sources, NEW r \in Requests, Step(r)
    PROVE  /\ \A o \in Orders, I \in SUBSET Items :
                 \A L \in [I -> (Products \cup {None}) \X Quantities] :
                     StartCreate(r, o, L) => Sources'
           /\ \A o \in Orders, i \in Items, p \in Products \cup {None}, n \in Quantities :
                 StartAdd(r, o, i, p, n) => Sources'
           /\ \A i \in Items, n \in Quantities \cup {0} : StartUpdate(r, i, n) => Sources'
           /\ \A i \in Items : StartRemove(r, i) => Sources'
           /\ \A o \in Orders, s \in WorkOrderStatus : StartStatus(r, o, s) => Sources'
           /\ \A o \in Orders : StartRollback(r, o) => Sources'
           /\ \A o \in Orders : StartInvoice(r, o) => Sources'
           /\ \A p \in Products : \A n \in Levels \cup {stock[p]} : StartEdit(r, p, n) => Sources'
<1> USE AmountsAssumption, NoItemsType
<1>1. \A o \in Orders, p \in Products \cup {None}, n \in Quantities :
          Line(o, p, n) \in ItemRow /\ Line(o, p, n).state = "LIVE" /\ Line(o, p, n).order = o
  BY DEF Line, ItemRow
<1>2. ASSUME NEW o \in Orders, NEW I \in SUBSET Items,
             NEW L \in [I -> (Products \cup {None}) \X Quantities], StartCreate(r, o, L)
      PROVE  Sources'
  <2> DEFINE args == [NoRequest EXCEPT !.op = "create", !.order = o]
             writes == [i \in Items |-> IF i \in DOMAIN L THEN Line(o, L[i][1], L[i][2])
                                        ELSE NoItem]
  <2>1. args.op = "create" /\ args.order = o
    BY DEF NoRequest
  <2>2. \A i \in I : L[i][1] \in Products \cup {None} /\ L[i][2] \in Quantities
    OBVIOUS
  <2>3. writes \in [Items -> ItemRow]
    BY <1>1, <2>2
  <2>4. \A i \in Items : writes[i] # NoItem =>
            FreshItem(i) /\ writes[i].state = "LIVE" /\ writes[i].order = o
    <3> SUFFICES ASSUME NEW i \in Items, writes[i] # NoItem
                 PROVE  FreshItem(i) /\ writes[i].state = "LIVE" /\ writes[i].order = o
      OBVIOUS
    <3>1. i \in DOMAIN L /\ i \in I
      OBVIOUS
    <3>2. writes[i] = Line(o, L[i][1], L[i][2])
      BY <3>1
    <3>3. FreshItem(i)
      BY <1>2, <3>1 DEF StartCreate
    <3>4. writes[i].state = "LIVE" /\ writes[i].order = o
      BY <3>2 DEF Line
    <3>5. QED
      BY <3>3, <3>4
  <2>5. Begin(r, "ready", args, NoItems, writes)
    BY <1>2 DEF StartCreate
  <2> HIDE DEF args, writes
  <2>6. QED
    BY <2>1, <2>3, <2>4, <2>5, InsertSources
<1>3. ASSUME NEW o \in Orders, NEW i \in Items, NEW p \in Products \cup {None},
             NEW n \in Quantities, StartAdd(r, o, i, p, n)
      PROVE  Sources'
  <2> DEFINE args == [NoRequest EXCEPT !.op = "add", !.order = o]
             writes == [NoItems EXCEPT ![i] = Line(o, p, n)]
  <2>1. args.op = "add" /\ args.order = o
    BY DEF NoRequest
  <2>2. writes \in [Items -> ItemRow]
    BY <1>1
  <2>3. \A j \in Items : writes[j] # NoItem =>
            FreshItem(j) /\ writes[j].state = "LIVE" /\ writes[j].order = o
    BY <1>1, <1>3 DEF StartAdd, NoItems
  <2>4. Begin(r, "ready", args, NoItems, writes)
    BY <1>3 DEF StartAdd
  <2> HIDE DEF args, writes
  <2>5. QED
    BY <2>1, <2>2, <2>3, <2>4, InsertSources
<1>4. ASSUME NEW i \in Items, NEW n \in Quantities \cup {0}, StartUpdate(r, i, n)
      PROVE  Sources'
  <2> DEFINE args == [NoRequest EXCEPT !.op = "update", !.order = item[i].order,
                                       !.item = i, !.qty = n]
  <2>1. args.op = "update" /\ args.order = item[i].order /\ args.item = i
    BY DEF NoRequest
  <2>2. item[i].state = "LIVE" /\ Begin(r, "checked", args, NoItems, NoItems)
    BY <1>4 DEF StartUpdate
  <2> HIDE DEF args
  <2>3. QED
    BY <2>1, <2>2, ChangeSources
<1>5. ASSUME NEW i \in Items, StartRemove(r, i)
      PROVE  Sources'
  <2> DEFINE args == [NoRequest EXCEPT !.op = "remove", !.order = item[i].order, !.item = i]
  <2>1. args.op = "remove" /\ args.order = item[i].order /\ args.item = i
    BY DEF NoRequest
  <2>2. item[i].state = "LIVE" /\ Begin(r, "checked", args, NoItems, NoItems)
    BY <1>5 DEF StartRemove
  <2> HIDE DEF args
  <2>3. QED
    BY <2>1, <2>2, ChangeSources
<1>6. ASSUME NEW o \in Orders, NEW s, Status(o) = "CANCELLED" => s = "CANCELLED",
             Begin(r, "checked", [NoRequest EXCEPT !.op = "status", !.order = o,
                                     !.from = Status(o), !.to = s], NoItems, NoItems)
      PROVE  Sources'
  <2> DEFINE args == [NoRequest EXCEPT !.op = "status", !.order = o,
                                       !.from = Status(o), !.to = s]
  <2>1. args.op = "status" /\ args.order = o /\ args.from = Status(o) /\ args.to = s
    BY DEF NoRequest
  <2>2. Begin(r, "checked", args, NoItems, NoItems)
    BY <1>6
  <2> HIDE DEF args
  <2>3. QED
    BY <1>6, <2>1, <2>2, OtherSources
<1>7. \A o \in Orders, s \in WorkOrderStatus : StartStatus(r, o, s) => Sources'
  BY <1>6 DEF StartStatus, CanTransition
<1>8. \A o \in Orders : StartRollback(r, o) => Sources'
  BY <1>6 DEF StartRollback, Previous
<1>9. ASSUME NEW p \in Products, NEW n \in Levels \cup {stock[p]}, StartEdit(r, p, n)
      PROVE  Sources'
  <2> DEFINE args == [NoRequest EXCEPT !.op = "edit", !.product = p, !.was = stock[p],
                                       !.level = n]
  <2>1. args.op = "edit" /\ args.product = p
    BY DEF NoRequest
  <2>2. Begin(r, "checked", args, NoItems, NoItems)
    BY <1>9 DEF StartEdit
  <2> HIDE DEF args
  <2>3. QED
    BY <2>1, <2>2, OtherSources
<1>10. ASSUME NEW o \in Orders, StartInvoice(r, o)
       PROVE  Sources'
  <2> DEFINE args == [NoRequest EXCEPT !.op = "invoice", !.order = o, !.from = Status(o),
                                       !.to = "COMPLETED"]
  <2>1. /\ args.op = "invoice" /\ args.order = o
        /\ args.from # "CANCELLED" /\ args.to # "CANCELLED"
    BY <1>10 DEF StartInvoice, NoRequest
  <2>2. Begin(r, "checked", args, NoItems, NoItems)
    BY <1>10 DEF StartInvoice
  <2> HIDE DEF args
  <2>3. QED
    BY <2>1, <2>2, OtherSources
<1>11. QED
  BY <1>2, <1>3, <1>4, <1>5, <1>7, <1>8, <1>9, <1>10

\* A handler reads the item it was asked to change, in the order it was in.
LEMMA ReadSources ==
    ASSUME TypeOK, Sources, NothingToWrite, NEW r \in Requests, Step(r), ReadItem(r)
    PROVE  Sources'
<1>1. PICK i : i = req[r].item
  OBVIOUS
<1>2. PICK row : row = item[i]
  OBVIOUS
<1>3. SourcesOf(r) /\ Changes(r) /\ i \in Items /\ row.state = "LIVE" /\ row.order = req[r].order
  BY <1>1, <1>2, SourcesParts DEF ReadItem, SourcesOf, Changes
<1>4. /\ req' = req /\ item' = item /\ phase'[r] = "ready"
      /\ seen'[r] = [NoItems EXCEPT ![i] = row]
      /\ rows'[r] = [NoItems EXCEPT ![i] = Changed(r, row)]
  BY <1>1, <1>2 DEF ReadItem, TypeOK, tables
<1>5. /\ Changed(r, row) # NoItem
      /\ Changed(r, row).state # "ABSENT"
      /\ Changed(r, row).state = "LIVE" => Changed(r, row).order = req[r].order
  <2>1. row \in ItemRow
    BY <1>2, <1>3 DEF TypeOK
  <2>2. QED
    BY <1>3, <2>1 DEF Changed, NoItem, ItemRow
<1>6. /\ \A j \in Items \ {i} : seen'[r][j] = NoItem /\ rows'[r][j] = NoItem
      /\ seen'[r][i] = row /\ rows'[r][i] = Changed(r, row)
  BY <1>3, <1>4 DEF NoItems
<1>7. Writes(r)' = {i}
  BY <1>3, <1>5, <1>6 DEF Writes
<1>8. Changes(r)' /\ ~Inserts(r)' /\ Writing(r)' /\ ~Returning(r)'
  BY <1>3, <1>4 DEF Changes, Inserts, Writing, Returning
<1>9. SourcesOf(r)'
  <2>1. /\ item'[i].state # "ABSENT" /\ (item'[i].state = "LIVE" => item'[i].order = req'[r].order)
        /\ i = req'[r].item /\ seen'[r][i].state = "LIVE"
    BY <1>1, <1>2, <1>3, <1>4, <1>6
  <2>2. \A j \in Writes(r)' :
            /\ rows'[r][j].state # "ABSENT"
            /\ rows'[r][j].state = "LIVE" => rows'[r][j].order = req'[r].order
    BY <1>4, <1>5, <1>6, <1>7
  <2>3. /\ req'[r].op \notin {"none", "edit"} => req'[r].order \in Orders
        /\ req'[r].op = "edit" => req'[r].product \in Products
        /\ req'[r].op = "status" => (req'[r].from = "CANCELLED" => req'[r].to = "CANCELLED")
        /\ req'[r].op = "invoice" => req'[r].from # "CANCELLED" /\ req'[r].to # "CANCELLED"
    BY <1>3, <1>4 DEF SourcesOf
  <2>4. QED
    BY <1>3, <1>6, <1>7, <1>8, <2>1, <2>2, <2>3, Zenon DEF SourcesOf
<1>10. ASSUME NEW q \in Requests \ {r}
       PROVE  SourcesOfBoth(r, q)' /\ SourcesOfBoth(q, r)'
  <2>1. phase'[q] = phase[q] /\ rows'[q] = rows[q]
    BY <1>10, OthersUntouched
  <2>2. SourcesOf(q) /\ SourcesOfBoth(q, r) /\ SourcesOfBoth(r, q)
    BY <1>10, SourcesParts
  <2>3. SourcesOfBoth(r, q)'
    BY <1>4, <1>8, <2>2 DEF SourcesOfBoth, Changes
  <2>4. Writing(q) /\ Inserts(q) => i \notin Writes(q)
    BY <1>2, <1>3, <2>2 DEF SourcesOf, NoItem
  <2>5. Writing(q)' /\ Inserts(q)' => Writing(q) /\ Inserts(q) /\ Writes(q)' = Writes(q)
    BY <1>4, <2>1 DEF Writing, Inserts, Writes
  <2>6. Writing(q)' /\ Inserts(q)' => \A j \in Writes(q)' : rows'[r][j] = NoItem
    BY <1>6, <2>4, <2>5 DEF Writes
  <2>7. SourcesOfBoth(q, r)'
    BY <1>4, <2>2, <2>6 DEF SourcesOfBoth, Changes
  <2>8. QED
    BY <2>3, <2>7
<1>11. QED
  BY <1>4, <1>9, <1>10, SourcesOfOthers

\* Steps that change what one request has read, or how far it has come.
LEMMA ProgressSources ==
    ASSUME TypeOK, Sources, NEW r \in Requests, Step(r),
           item' = item, req' = req, rows' = rows,
           Writing(r)' => Writing(r) /\ seen'[r] = seen[r],
           Returning(r)' => req[r].op = "status"
    PROVE  Sources'
<1>1. SourcesOf(r)'
  <2>1. SourcesOf(r)
    BY SourcesParts
  <2>2. Writes(r)' = Writes(r) /\ (Inserts(r)' <=> Inserts(r)) /\ (Changes(r)' <=> Changes(r))
    BY DEF Writes, Inserts, Changes
  <2>3. QED
    BY <2>1, <2>2 DEF SourcesOf
<1>2. ASSUME NEW q \in Requests \ {r}
      PROVE  SourcesOfBoth(r, q)' /\ SourcesOfBoth(q, r)'
  <2>1. SourcesOfBoth(r, q) /\ SourcesOfBoth(q, r)
    BY SourcesParts
  <2>2. phase'[q] = phase[q]
    BY <1>2, OthersUntouched
  <2>3. (Writing(q)' <=> Writing(q)) /\ Writes(r)' = Writes(r) /\ Writes(q)' = Writes(q)
    BY <2>2 DEF Writing, Writes
  <2>4. QED
    BY <2>1, <2>3 DEF SourcesOfBoth, Inserts, Changes
<1>3. QED
  BY <1>1, <1>2, SourcesOfOthers

\* A commit writes its rows, and no other request counts on what they replace.
LEMMA CommitSources ==
    ASSUME TypeOK, Sources, NEW r \in Requests, Step(r), Commit(r)
    PROVE  Sources'
<1>1. /\ item' = Overlay(r) /\ req'[r] = NoRequest /\ phase'[r] = "idle"
      /\ rows'[r] = NoItems /\ phase[r] = "worked"
  BY DEF Commit, Finish, TypeOK
<1>2. SourcesOf(r) /\ Writing(r) /\ (Inserts(r) \/ Changes(r)) /\ req[r].order \in Orders
  BY <1>1, SourcesParts DEF SourcesOf, Writing, Inserts, Changes
<1>3. \A i \in Items : item'[i] = IF i \in Writes(r) THEN rows[r][i] ELSE item[i]
  BY <1>1 DEF Overlay
<1>4. ~Inserts(r)' /\ ~Changes(r)' /\ ~Writing(r)' /\ ~Returning(r)'
  BY <1>1 DEF Inserts, Changes, Writing, Returning, NoRequest
<1>5. ASSUME NEW q \in Requests, q # r
      PROVE  /\ req'[q] = req[q] /\ phase'[q] = phase[q]
             /\ seen'[q] = seen[q] /\ rows'[q] = rows[q]
  BY <1>5, OthersAsked, OthersUntouched
<1>6. \A i \in Live(item)' : item'[i].order \in Orders
  <2> SUFFICES ASSUME NEW i \in Items, item'[i].state = "LIVE"
               PROVE  item'[i].order \in Orders
    BY DEF Live
  <2>1. CASE i \in Writes(r)
    BY <1>2, <1>3, <2>1 DEF SourcesOf
  <2>2. CASE i \notin Writes(r)
    BY <1>3, <2>2, SourcesParts DEF Live
  <2>3. QED
    BY <2>1, <2>2
<1>7. ASSUME NEW q \in Requests
      PROVE  SourcesOf(q)'
  <2>1. CASE q = r
    BY <1>1, <1>4, <2>1 DEF SourcesOf, NoRequest
  <2>2. CASE q # r
    <3>1. SourcesOf(q) /\ SourcesOfBoth(q, r) /\ SourcesOfBoth(r, q)
      BY <2>2, SourcesParts
    <3>2. /\ req'[q] = req[q] /\ phase'[q] = phase[q]
          /\ seen'[q] = seen[q] /\ rows'[q] = rows[q]
      BY <1>5, <2>2
    <3>3. /\ Writes(q)' = Writes(q) /\ (Inserts(q)' <=> Inserts(q))
          /\ (Changes(q)' <=> Changes(q)) /\ (Writing(q)' <=> Writing(q))
          /\ (Returning(q)' <=> Returning(q))
      BY <3>2 DEF Writes, Inserts, Changes, Writing, Returning
    <3>4. Changes(q) =>
             /\ item'[req[q].item].state # "ABSENT"
             /\ item'[req[q].item].state = "LIVE" => item'[req[q].item].order = req[q].order
      <4> SUFFICES ASSUME Changes(q)
                   PROVE  /\ item'[req[q].item].state # "ABSENT"
                          /\ item'[req[q].item].state = "LIVE" =>
                                 item'[req[q].item].order = req[q].order
        OBVIOUS
      <4>1. PICK i : i = req[q].item
        OBVIOUS
      <4>2. i \in Items /\ item[i].state # "ABSENT"
            /\ (item[i].state = "LIVE" => item[i].order = req[q].order)
        BY <3>1, <4>1 DEF SourcesOf
      <4>3. CASE i \in Writes(r)
        <5>1. Changes(r)
          BY <1>2, <4>2, <4>3 DEF SourcesOf, NoItem
        <5>2. i = req[r].item
          BY <1>2, <4>3, <5>1 DEF SourcesOf
        <5>3. req[r].order = req[q].order
          BY <3>1, <4>1, <5>1, <5>2 DEF SourcesOfBoth
        <5>4. /\ item'[i] = rows[r][i] /\ rows[r][i].state # "ABSENT"
              /\ rows[r][i].state = "LIVE" => rows[r][i].order = req[r].order
          BY <1>2, <1>3, <4>2, <4>3 DEF SourcesOf
        <5>5. QED
          BY <4>1, <5>3, <5>4
      <4>4. CASE i \notin Writes(r)
        BY <1>3, <4>1, <4>2, <4>4
      <4>5. QED
        BY <4>3, <4>4
    <3>5. Writing(q) /\ Inserts(q) => \A i \in Writes(q) : item'[i] = NoItem
      <4> SUFFICES ASSUME Writing(q), Inserts(q), NEW i \in Writes(q)
                   PROVE  item'[i] = NoItem
        OBVIOUS
      <4>1. i \in Items /\ item[i] = NoItem /\ rows[r][i] = NoItem
        BY <3>1 DEF SourcesOf, SourcesOfBoth, Writes
      <4>2. QED
        BY <1>3, <4>1 DEF Writes
    <3>6. QED
      BY <3>1, <3>2, <3>3, <3>4, <3>5 DEF SourcesOf
  <2>3. QED
    BY <2>1, <2>2
<1>8. ASSUME NEW x \in Requests, NEW y \in Requests, x # y
      PROVE  SourcesOfBoth(x, y)'
  <2>1. SourcesOfBoth(x, y)
    BY <1>8, SourcesParts
  <2>2. CASE x = r
    BY <1>4, <2>2 DEF SourcesOfBoth
  <2>3. CASE y = r
    BY <1>1, <1>4, <2>3 DEF SourcesOfBoth, Writes, NoItems
  <2>4. CASE x # r /\ y # r
    BY <1>5, <2>1, <2>4 DEF SourcesOfBoth, Writing, Inserts, Changes, Writes
  <2>5. QED
    BY <2>2, <2>3, <2>4
<1>9. QED
  BY <1>6, <1>7, <1>8
     DEF Sources, SourcesOf, SourcesOfBoth, ArgumentsFit, ItemsKeepTheirOrder, NewRowsAreNew,
         ChangesWhatWasRead, RowsOfTheOrder

LEMMA InitSources == Init => Sources
<1> SUFFICES ASSUME Init PROVE Sources
  OBVIOUS
<1>1. \A r \in Requests : /\ ~Inserts(r) /\ ~Changes(r) /\ ~Writing(r) /\ ~Returning(r)
                          /\ req[r].op = "none"
  BY DEF Init, Inserts, Changes, Writing, Returning, NoRequest
<1>2. Live(item) = {}
  BY DEF Init, Live, NoItems, NoItem
<1>3. QED
  BY <1>1, <1>2
     DEF Sources, ArgumentsFit, ItemsKeepTheirOrder, NewRowsAreNew, ChangesWhatWasRead,
         RowsOfTheOrder

LEMMA SourcesInvariance == IInv /\ Sources /\ [Next]_vars => Sources'
<1> SUFFICES ASSUME IInv, Sources, [Next]_vars PROVE Sources'
  OBVIOUS
<1>1. TypeOK /\ NothingToWrite
  BY DEF IInv
<1>2. ASSUME NEW r \in Requests, Step(r)
      PROVE  Sources'
  <2>1. CASE ReadItem(r)
    BY <1>1, <1>2, <2>1, ReadSources
  <2>2. CASE Work(r)
    <3>1. /\ item' = item /\ req' = req /\ rows' = rows /\ seen' = seen
          /\ phase[r] = "ready" /\ phase'[r] = "worked"
      BY <1>1, <2>2 DEF Work, TypeOK, tables
    <3>2. QED
      BY <1>1, <1>2, <3>1, ProgressSources DEF Writing, Returning
  <2>3. CASE Commit(r)
    BY <1>1, <1>2, <2>3, CommitSources
  <2>4. CASE Reject(r) \/ WriteInvoice(r) \/ Restore(r) \/ SaveEdit(r) \/ Abort(r)
    <3>1. Finish(r) /\ item' = item
      BY <2>4 DEF Reject, WriteInvoice, Restore, SaveEdit, Abort, tables
    <3>2. QED
      BY <1>1, <1>2, <3>1, EndSources
  <2>5. CASE WriteStatus(r)
    <3>1. CASE Owes(r)
      <4>1. /\ item' = item /\ req' = req /\ rows' = rows /\ seen' = seen
            /\ phase'[r] = "owing" /\ req[r].op = "status"
        BY <1>1, <2>5, <3>1 DEF WriteStatus, TypeOK, local
      <4>2. QED
        BY <1>1, <1>2, <4>1, ProgressSources DEF Writing, Returning
    <3>2. CASE ~Owes(r)
      <4>1. Finish(r) /\ item' = item
        BY <2>5, <3>2 DEF WriteStatus
      <4>2. QED
        BY <1>1, <1>2, <4>1, EndSources
    <3>3. QED
      BY <3>1, <3>2
  <2>6. CASE ReadRestore(r)
    <3>1. /\ item' = item /\ req' = req /\ rows' = rows
          /\ phase[r] = "owing" /\ phase'[r] = "restoring"
      BY <1>1, <2>6 DEF ReadRestore, TypeOK, tables
    <3>2. SourcesOf(r)
      BY SourcesParts
    <3>3. req[r].op = "status"
      BY <3>1, <3>2 DEF SourcesOf, Returning
    <3>4. QED
      BY <1>1, <1>2, <3>1, <3>3, ProgressSources DEF Writing, Returning
  <2>7. QED
    BY <1>1, <1>2, <2>1, <2>2, <2>3, <2>4, <2>5, <2>6, StartSources DEF Step
<1>3. CASE UNCHANGED <<item, local, phase>>
  <2>1. item' = item /\ req' = req /\ phase' = phase /\ seen' = seen /\ rows' = rows
    BY <1>3 DEF local
  <2>2. ASSUME NEW r
        PROVE  /\ (Inserts(r)' <=> Inserts(r)) /\ (Changes(r)' <=> Changes(r))
               /\ (Writing(r)' <=> Writing(r)) /\ (Returning(r)' <=> Returning(r))
               /\ Writes(r)' = Writes(r)
    BY <2>1 DEF Inserts, Changes, Writing, Returning, Writes
  <2>3. Live(item)' = Live(item)
    BY <2>1 DEF Live
  <2>4. QED
    BY <2>1, <2>2, <2>3
       DEF Sources, ArgumentsFit, ItemsKeepTheirOrder, NewRowsAreNew, ChangesWhatWasRead,
           RowsOfTheOrder
<1>4. CASE \E o \in Orders : CancelAppointment(o) \/ CancelInvoice(o)
  BY <1>3, <1>4 DEF CancelAppointment, CancelInvoice
<1>5. CASE UNCHANGED vars
  BY <1>3, <1>5 DEF vars, tables
<1>6. QED
  BY <1>2, <1>4, <1>5 DEF Next

----------------------------------------------------------------------------
(* Parts are neither made nor lost *)

\* The lines whose parts are in orders in force.
HeldLines(p) ==
    {i \in Live(item) : item[i].product = p /\ Status(item[i].order) # "CANCELLED"}

LEMMA HeldType ==
    ASSUME TypeOK, NEW p
    PROVE  Held(p) \in Nat
<1>1. \A i \in HeldLines(p) : Qty(item)[i] \in Nat
  BY DEF HeldLines, Live, Qty, TypeOK, ItemRow
<1>2. IsFiniteSet(HeldLines(p))
  BY SetsAssumption, FS_Subset DEF HeldLines, Live
<1>3. Total(HeldLines(p), Qty(item)) \in Nat
  BY <1>1, <1>2, TotalType
<1>4. QED
  BY <1>3 DEF Held, HeldLines

\* Lines stay held when no order is cancelled or brought back.
LEMMA HeldKept ==
    ASSUME Sources, NEW p, item' = item,
           \A x \in Orders :
               (order'[x].status = "CANCELLED") <=> (order[x].status = "CANCELLED")
    PROVE  Held(p)' = Held(p)
<1>1. \A i \in Live(item) : item[i].order \in Orders
  BY SourcesParts
<1>2. \A i \in Items : i \in HeldLines(p)' <=> i \in HeldLines(p)
  BY <1>1 DEF HeldLines, Live, Status
<1>3. HeldLines(p)' \subseteq Items /\ HeldLines(p) \subseteq Items
  BY DEF HeldLines, Live
<1>4. HeldLines(p)' = HeldLines(p)
  BY <1>2, <1>3
<1>5. Held(p)' = Total(HeldLines(p)', Qty(item)')
  BY DEF Held, HeldLines
<1>6. Held(p) = Total(HeldLines(p), Qty(item))
  BY DEF Held, HeldLines
<1>7. Qty(item)' = Qty(item)
  BY DEF Qty
<1>8. QED
  BY <1>4, <1>5, <1>6, <1>7

LEMMA OwedByType ==
    ASSUME TypeOK, NEW r \in Requests, NEW p
    PROVE  OwedBy(r, p) \in Nat
<1>1. ItemsOf(req[r].order) \in [Items -> ItemRow]
  BY NoItemsType DEF ItemsOf, TypeOK
<1>2. Parts(ItemsOf(req[r].order), p) \in Nat /\ Parts(seen[r], p) \in Nat
  BY <1>1, PartsType DEF TypeOK
<1>3. QED
  BY <1>2 DEF OwedBy

LEMMA OwedType ==
    ASSUME TypeOK, NEW p
    PROVE  Owed(p) \in Nat
<1>1. PICK f : f = [r \in Requests |-> OwedBy(r, p)]
  OBVIOUS
<1>2. \A r \in Requests : f[r] \in Nat
  BY <1>1, OwedByType
<1>3. Total(Requests, f) \in Nat
  BY <1>2, SetsAssumption, TotalType
<1>4. QED
  BY <1>1, <1>3 DEF Owed

\* When only request r changes what it owes, the sum changes by as much.
LEMMA OwedChange ==
    ASSUME TypeOK, TypeOK', NEW r \in Requests, NEW p,
           \A q \in Requests \ {r} : OwedBy(q, p)' = OwedBy(q, p)
    PROVE  Owed(p)' = Owed(p) - OwedBy(r, p) + OwedBy(r, p)'
<1>1. PICK f : f = [q \in Requests |-> OwedBy(q, p)]
  OBVIOUS
<1>2. PICK g : g = [q \in Requests |-> OwedBy(q, p)']
  OBVIOUS
<1>3. \A q \in Requests : f[q] \in Nat
  BY <1>1, OwedByType
<1>4. \A q \in Requests : OwedBy(q, p)' \in Nat
  <2> SUFFICES ASSUME NEW q \in Requests PROVE OwedBy(q, p)' \in Nat
    OBVIOUS
  <2>1. ItemsOf(req[q].order)' \in [Items -> ItemRow]
    BY NoItemsType DEF ItemsOf, TypeOK
  <2>2. seen'[q] \in [Items -> ItemRow]
    BY DEF TypeOK
  <2>3. PICK t \in [Items -> ItemRow], u \in [Items -> ItemRow] :
            t = ItemsOf(req[q].order)' /\ u = seen'[q]
    BY <2>1, <2>2
  <2>4. Parts(t, p) \in Nat /\ Parts(u, p) \in Nat
    BY PartsType
  <2>5. OwedBy(q, p)' \in {Parts(t, p), Parts(u, p), 0}
    BY <2>3 DEF OwedBy, Parts, Live, Qty
  <2>6. QED
    BY <2>4, <2>5
<1>5. \A q \in Requests : f[q] \in Nat /\ g[q] \in Nat
  BY <1>2, <1>3, <1>4
<1>6. \A q \in Requests \ {r} : f[q] = g[q]
  BY <1>1, <1>2
<1>7. Total(Requests, g) = Total(Requests, f) - f[r] + g[r]
  BY <1>5, <1>6, SetsAssumption, TotalChange
<1>8. Owed(p) = Total(Requests, f)
  BY <1>1 DEF Owed
<1>9. Owed(p)' = Total(Requests, g)
  BY <1>2 DEF Owed
<1>10. QED
  BY <1>1, <1>2, <1>7, <1>8, <1>9

LEMMA OwedByOthers ==
    ASSUME TypeOK, NEW r \in Requests, Step(r), item' = item,
           NEW q \in Requests, q # r, NEW p
    PROVE  OwedBy(q, p)' = OwedBy(q, p)
<1>1. req'[q] = req[q] /\ phase'[q] = phase[q] /\ seen'[q] = seen[q]
  BY OthersAsked, OthersUntouched
<1>2. QED
  BY <1>1 DEF OwedBy, Parts, Live, Qty, ItemsOf

\* A step that writes no table and leaves what r owes keeps the account.
LEMMA QuietAccount ==
    ASSUME TypeOK, TypeOK', NEW r \in Requests, Step(r), UNCHANGED tables, NEW p \in Products,
           OwedBy(r, p)' = OwedBy(r, p)
    PROVE  Accounted(p)' = Accounted(p)
<1>1. stock' = stock /\ item' = item /\ order' = order
  BY DEF tables
<1>2. Held(p)' = Held(p)
  BY <1>1 DEF Held, Live, Qty, Status
<1>3. \A q \in Requests \ {r} : OwedBy(q, p)' = OwedBy(q, p)
  BY <1>1, OwedByOthers
<1>4. Owed(p)' = Owed(p) - OwedBy(r, p) + OwedBy(r, p)'
  BY <1>3, OwedChange
<1>5. Owed(p) \in Nat /\ OwedBy(r, p) \in Nat
  BY OwedType, OwedByType
<1>6. Owed(p)' = Owed(p)
  BY <1>4, <1>5
<1>7. QED
  BY <1>1, <1>2, <1>6 DEF Accounted

\* A request outside a cancellation owes nothing.
LEMMA OwesNothing ==
    ASSUME NEW r, NEW p, phase[r] \notin {"owing", "restoring"}
    PROVE  OwedBy(r, p) = 0
BY DEF OwedBy

LEMMA BeginAccount ==
    ASSUME TypeOK, TypeOK', NEW r \in Requests, Step(r), NEW p \in Products,
           NEW ph \in {"ready", "checked"}, NEW args, NEW reads, NEW writes,
           Begin(r, ph, args, reads, writes)
    PROVE  Accounted(p)' = Accounted(p)
<1>1. phase[r] = "idle" /\ phase'[r] = ph /\ UNCHANGED tables
  BY DEF Begin, TypeOK
<1>2. OwedBy(r, p) = 0 /\ OwedBy(r, p)' = 0
  BY <1>1 DEF OwedBy
<1>3. QED
  BY <1>1, <1>2, QuietAccount

\* The end of a request that owes nothing and has written nothing.
LEMMA EndAccount ==
    ASSUME TypeOK, TypeOK', NEW r \in Requests, Step(r), NEW p \in Products,
           Finish(r), UNCHANGED tables, phase[r] \notin {"owing", "restoring"}
    PROVE  Accounted(p)' = Accounted(p)
<1>1. phase'[r] = "idle"
  BY DEF Finish, TypeOK
<1>2. OwedBy(r, p) = 0 /\ OwedBy(r, p)' = 0
  BY <1>1 DEF OwedBy
<1>3. QED
  BY <1>2, QuietAccount

\* restoreCancelledStock reads what the handler owes ...
LEMMA ReadRestoreAccount ==
    ASSUME TypeOK, TypeOK', NEW r \in Requests, Step(r), NEW p \in Products, ReadRestore(r)
    PROVE  Accounted(p)' = Accounted(p)
<1>1. /\ phase[r] = "owing" /\ phase'[r] = "restoring" /\ UNCHANGED tables
      /\ seen'[r] = ItemsOf(req[r].order)
  BY DEF ReadRestore, TypeOK
<1>2. PICK t : t = ItemsOf(req[r].order)
  OBVIOUS
<1>3. OwedBy(r, p) = Parts(t, p)
  BY <1>1, <1>2 DEF OwedBy
<1>4. OwedBy(r, p)' = Parts(t, p)
  BY <1>1, <1>2 DEF OwedBy, Parts, Live, Qty
<1>5. QED
  BY <1>1, <1>3, <1>4, QuietAccount

\* ... and returns all of it.
LEMMA RestoreAccount ==
    ASSUME IInv, TypeOK', NEW r \in Requests, Step(r), NEW p \in Products, Restore(r)
    PROVE  Accounted(p)' = Accounted(p)
<1>1. TypeOK /\ rows[r] = NoItems
  BY DEF IInv, NothingToWrite, Restore
<1>2. /\ phase[r] = "restoring" /\ phase'[r] = "idle"
      /\ item' = item /\ order' = order /\ stock'[p] = stock[p] + Delta(r, p)
  BY <1>1 DEF Restore, Finish, TypeOK
<1>3. Delta(r, p) = OwedBy(r, p)
  <2>1. Parts(seen[r], p) \in Nat
    BY <1>1, PartsType DEF TypeOK
  <2>2. QED
    BY <1>1, <1>2, <2>1, PartsNone DEF Delta, OwedBy
<1>4. OwedBy(r, p)' = 0
  BY <1>2 DEF OwedBy
<1>5. Held(p)' = Held(p)
  BY <1>2 DEF Held, Live, Qty, Status
<1>6. Owed(p)' = Owed(p) - OwedBy(r, p) + OwedBy(r, p)'
  BY <1>1, <1>2, OwedByOthers, OwedChange
<1>7. stock[p] \in Int /\ Held(p) \in Int /\ Owed(p) \in Int /\ OwedBy(r, p) \in Int
  BY <1>1, HeldType, OwedType, OwedByType DEF TypeOK
<1>8. QED
  BY <1>2, <1>3, <1>4, <1>5, <1>6, <1>7 DEF Accounted

\* An edit based on the level it read moves the account by what was entered.
LEMMA EditAccount ==
    ASSUME TypeOK, TypeOK', NEW r \in Requests, Step(r), NEW p \in Products,
           SaveEdit(r), ~Outdated(r)
    PROVE  \/ Accounted(p)' = Accounted(p)
           \/ Accounted(p)' = Accounted(p) + req[r].level - req[r].was
<1>1. /\ phase[r] = "checked" /\ phase'[r] = "idle" /\ req[r].op = "edit"
      /\ item' = item /\ order' = order
      /\ stock' = [stock EXCEPT ![req[r].product] = req[r].level]
  BY DEF SaveEdit, Finish, TypeOK
<1>2. stock[req[r].product] = req[r].was
  BY <1>1 DEF Outdated
<1>3. OwedBy(r, p) = 0 /\ OwedBy(r, p)' = 0
  BY <1>1 DEF OwedBy
<1>4. Held(p)' = Held(p)
  BY <1>1 DEF Held, Live, Qty, Status
<1>5. Owed(p)' = Owed(p) - OwedBy(r, p) + OwedBy(r, p)'
  BY <1>1, OwedByOthers, OwedChange
<1>6. stock[p] \in Int /\ Held(p) \in Int /\ Owed(p) \in Int /\ req[r].level \in Int
  BY HeldType, OwedType DEF TypeOK, Request
<1>7. Owed(p)' = Owed(p)
  BY <1>3, <1>5, <1>6
<1>8. CASE p = req[r].product
  <2>1. stock'[p] = req[r].level /\ stock[p] = req[r].was
    BY <1>1, <1>2, <1>8 DEF TypeOK
  <2>2. QED
    BY <1>4, <1>6, <1>7, <2>1 DEF Accounted
<1>9. CASE p # req[r].product
  <2>1. stock'[p] = stock[p]
    BY <1>1, <1>9 DEF TypeOK
  <2>2. QED
    BY <1>4, <1>6, <1>7, <2>1 DEF Accounted
<1>10. QED
  BY <1>8, <1>9

\* A cancellation takes over as owed what the order held; another change of
\* status moves no part, if the order is still in the status it was read in.
LEMMA StatusAccount ==
    ASSUME TypeOK, TypeOK', Sources, NEW r \in Requests, Step(r), NEW p \in Products,
           WriteStatus(r), ~Outdated(r)
    PROVE  Accounted(p)' = Accounted(p)
<1>1. PICK o : o = req[r].order
  OBVIOUS
<1>2. /\ phase[r] = "checked" /\ req[r].op = "status"
      /\ order' = [order EXCEPT ![o].status = req[r].to]
      /\ item' = item /\ stock' = stock
  BY <1>1 DEF WriteStatus
<1>3. SourcesOf(r)
  BY SourcesParts
<1>4. /\ o \in Orders /\ Status(o) = req[r].from
      /\ (req[r].from = "CANCELLED" => req[r].to = "CANCELLED")
  BY <1>1, <1>2, <1>3 DEF SourcesOf, Outdated
<1>5. /\ order'[o].status = req[r].to
      /\ \A x \in Orders \ {o} : order'[x] = order[x]
  BY <1>2, <1>4 DEF TypeOK, OrderRow
<1>6. \A i \in Live(item) : item[i].order \in Orders
  BY SourcesParts
<1>7. OwedBy(r, p) = 0
  BY <1>2 DEF OwedBy
<1>8. Owed(p)' = Owed(p) - OwedBy(r, p) + OwedBy(r, p)'
  BY <1>2, OwedByOthers, OwedChange
<1>9. stock[p] \in Int /\ Held(p) \in Int /\ Owed(p) \in Int
  BY HeldType, OwedType DEF TypeOK
<1>10. PICK A : A = HeldLines(p)
  OBVIOUS
<1>11. PICK f : f = Qty(item)
  OBVIOUS
<1>12. Held(p) = Total(A, f)
  BY <1>10, <1>11 DEF Held, HeldLines
<1>13. CASE Owes(r)
  <2>1. req[r].to = "CANCELLED" /\ req[r].from # "CANCELLED"
    BY <1>13 DEF Owes
  <2>2. PICK B : B = {i \in A : item[i].order = o}
    OBVIOUS
  <2>3. PICK C : C = {i \in A : item[i].order # o}
    OBVIOUS
  <2>4. IsFiniteSet(A) /\ IsFiniteSet(B) /\ IsFiniteSet(C)
    <3>1. A \subseteq Items /\ B \subseteq Items /\ C \subseteq Items
      BY <1>10, <2>2, <2>3 DEF HeldLines, Live
    <3>2. QED
      BY <3>1, SetsAssumption, FS_Subset
  <2>5. A = B \cup C /\ B \cap C = {}
    BY <2>2, <2>3
  <2>6. \A i \in B \cup C : f[i] \in Nat
    BY <1>10, <1>11, <2>5 DEF HeldLines, Live, Qty, TypeOK, ItemRow
  <2>7. Total(A, f) = Total(B, f) + Total(C, f)
    BY <2>4, <2>5, <2>6, TotalDisjoint
  <2>8. Held(p)' = Total(C, f)
    <3>1. \A i \in Items : i \in HeldLines(p)' <=> i \in C
      BY <1>2, <1>4, <1>5, <1>6, <1>10, <2>1, <2>3 DEF HeldLines, Live, Status
    <3>2. HeldLines(p)' \subseteq Items /\ C \subseteq Items
      BY <1>10, <2>3 DEF HeldLines, Live
    <3>3. HeldLines(p)' = C
      BY <3>1, <3>2
    <3>4. Qty(item)' = f
      BY <1>2, <1>11 DEF Qty
    <3>5. Held(p)' = Total(HeldLines(p)', Qty(item)')
      BY DEF Held, HeldLines
    <3>6. QED
      BY <3>3, <3>4, <3>5
  <2>9. PICK t : t = ItemsOf(o)
    OBVIOUS
  <2>10. {i \in Live(t) : t[i].product = p} = B
    <3>1. \A i \in Items : t[i] = IF item[i].state = "LIVE" /\ item[i].order = o
                                 THEN item[i] ELSE NoItem
      BY <2>9 DEF ItemsOf
    <3>2. \A i \in Items : (i \in Live(t) /\ t[i].product = p) <=> i \in B
      BY <1>4, <1>10, <2>1, <2>2, <3>1 DEF HeldLines, Live, NoItem
    <3>3. B \subseteq Items /\ Live(t) \subseteq Items
      BY <1>10, <2>2 DEF HeldLines, Live
    <3>4. QED
      BY <3>2, <3>3
  <2>11. Parts(t, p) = Total(B, f)
    <3>1. \A i \in B : Qty(t)[i] = f[i]
      BY <1>10, <1>11, <2>2, <2>9 DEF Qty, ItemsOf, HeldLines, Live
    <3>2. Total(B, Qty(t)) = Total(B, f)
      BY <3>1, TotalSame
    <3>3. QED
      BY <2>10, <3>2 DEF Parts
  <2>12. OwedBy(r, p)' = Parts(t, p)
    <3>1. phase'[r] = "owing" /\ req' = req
      BY <1>13 DEF WriteStatus, TypeOK, local
    <3>2. OwedBy(r, p)' = Parts(ItemsOf(req[r].order)', p)
      BY <3>1 DEF OwedBy, Parts, Live, Qty, ItemsOf
    <3>3. ItemsOf(req[r].order)' = t
      BY <1>1, <1>2, <2>9, <3>1 DEF ItemsOf
    <3>4. QED
      BY <3>2, <3>3
  <2>13. Total(B, f) \in Int /\ Total(C, f) \in Int
    BY <2>4, <2>6, TotalType
  <2>14. QED
    BY <1>2, <1>7, <1>8, <1>9, <1>12, <2>7, <2>8, <2>11, <2>12, <2>13 DEF Accounted
<1>14. CASE ~Owes(r)
  <2>1. (req[r].to = "CANCELLED") <=> (req[r].from = "CANCELLED")
    BY <1>4, <1>14 DEF Owes
  <2>2. \A x \in Orders : (order'[x].status = "CANCELLED") <=> (order[x].status = "CANCELLED")
    BY <1>4, <1>5, <2>1 DEF Status
  <2>3. Held(p)' = Held(p)
    BY <1>2, <2>2, HeldKept
  <2>4. phase'[r] = "idle"
    BY <1>14 DEF WriteStatus, Finish, TypeOK
  <2>5. OwedBy(r, p)' = 0
    BY <2>4 DEF OwedBy
  <2>6. QED
    BY <1>2, <1>7, <1>8, <1>9, <2>3, <2>5 DEF Accounted
<1>15. QED
  BY <1>13, <1>14

\* An invoice completes an order that is still in the status it was read in.
LEMMA InvoiceAccount ==
    ASSUME TypeOK, TypeOK', Sources, NEW r \in Requests, Step(r), NEW p \in Products,
           WriteInvoice(r), ~Outdated(r)
    PROVE  Accounted(p)' = Accounted(p)
<1>1. /\ phase[r] = "checked" /\ phase'[r] = "idle" /\ req[r].op = "invoice"
      /\ order' = [order EXCEPT ![req[r].order].status = req[r].to,
                               ![req[r].order].invoiced = TRUE]
      /\ item' = item /\ stock' = stock
  BY DEF WriteInvoice, Finish, TypeOK
<1>2. SourcesOf(r)
  BY SourcesParts
<1>3. req[r].order \in Orders /\ Status(req[r].order) = req[r].from
  BY <1>1, <1>2 DEF SourcesOf, Outdated
<1>4. req[r].from # "CANCELLED" /\ req[r].to # "CANCELLED"
  BY <1>1, <1>2 DEF SourcesOf
<1>5. \A x \in Orders :
          (order'[x].status = "CANCELLED") <=> (order[x].status = "CANCELLED")
  BY <1>1, <1>3, <1>4 DEF Status, TypeOK, OrderRow
<1>6. Held(p)' = Held(p)
  BY <1>1, <1>5, HeldKept
<1>7. OwedBy(r, p) = 0 /\ OwedBy(r, p)' = 0
  BY <1>1 DEF OwedBy
<1>8. Owed(p)' = Owed(p) - OwedBy(r, p) + OwedBy(r, p)'
  BY <1>1, OwedByOthers, OwedChange
<1>9. Owed(p) \in Int
  BY OwedType
<1>10. QED
  BY <1>1, <1>6, <1>7, <1>8, <1>9 DEF Accounted

\* So is an order whose invoice is cancelled while it is in force.
LEMMA ReopenAccount ==
    ASSUME TypeOK, Sources, NEW o \in Orders, NEW p \in Products,
           CancelInvoice(o), Status(o) # "CANCELLED"
    PROVE  Accounted(p)' = Accounted(p)
<1>1. /\ order' = [order EXCEPT ![o].status = "IN_PROGRESS", ![o].invoiced = FALSE]
      /\ stock' = stock /\ item' = item /\ req' = req /\ phase' = phase /\ seen' = seen
  BY DEF CancelInvoice, local
<1>2. \A x \in Orders :
          (order'[x].status = "CANCELLED") <=> (order[x].status = "CANCELLED")
  BY <1>1 DEF Status, TypeOK, OrderRow
<1>3. Held(p)' = Held(p)
  BY <1>1, <1>2, HeldKept
<1>4. \A q \in Requests : OwedBy(q, p)' = OwedBy(q, p)
  BY <1>1 DEF OwedBy, Parts, Live, Qty, ItemsOf
<1>5. [q \in Requests |-> OwedBy(q, p)'] = [q \in Requests |-> OwedBy(q, p)]
  BY <1>4
<1>6. Owed(p)' = Owed(p)
  BY <1>5 DEF Owed
<1>7. QED
  BY <1>1, <1>3, <1>6 DEF Accounted

\* A transaction whose rows are as it read them replaces them exactly.
LEMMA CommitReplaces ==
    ASSUME TypeOK, Sources, NEW r \in Requests, Commit(r), ~Outdated(r)
    PROVE  \A i \in Items :
              /\ seen[r][i] = IF i \in Writes(r) THEN item[i] ELSE NoItem
              /\ i \in Writes(r) /\ item[i].state = "LIVE" => item[i].order = req[r].order
<1>1. phase[r] = "worked"
  BY DEF Commit
<1>2. SourcesOf(r) /\ Writing(r) /\ (Inserts(r) \/ Changes(r))
  BY <1>1, SourcesParts DEF SourcesOf, Writing
<1>3. \A i \in Items : seen[r][i] \in {NoItem, item[i]}
  BY <1>1 DEF Outdated
<1>4. CASE Inserts(r)
  <2>1. seen[r] = NoItems /\ \A i \in Writes(r) : item[i] = NoItem
    BY <1>2, <1>4 DEF SourcesOf
  <2>2. QED
    BY <2>1 DEF NoItems, NoItem
<1>5. CASE Changes(r)
  <2>1. PICK j \in Items : j = req[r].item
    BY <1>2, <1>5 DEF SourcesOf
  <2>2. /\ Writes(r) = {j} /\ seen[r][j].state = "LIVE"
        /\ \A i \in Items \ {j} : seen[r][i] = NoItem
        /\ item[j].state = "LIVE" => item[j].order = req[r].order
    BY <1>2, <1>5, <2>1 DEF SourcesOf
  <2>3. seen[r][j] = item[j]
    BY <1>3, <2>2 DEF NoItem
  <2>4. QED
    BY <2>2, <2>3
<1>6. QED
  BY <1>2, <1>4, <1>5

\* What another cancellation is about to return is not in the rows committed.
LEMMA CommitOwedByOthers ==
    ASSUME TypeOK, Sources, NEW r \in Requests, Step(r), Commit(r), ~Outdated(r),
           NEW q \in Requests, q # r, NEW p
    PROVE  OwedBy(q, p)' = OwedBy(q, p)
<1>1. PICK o : o = req[r].order
  OBVIOUS
<1>2. req'[q] = req[q] /\ phase'[q] = phase[q] /\ seen'[q] = seen[q]
  BY OthersAsked, OthersUntouched
<1>3. phase[r] = "worked" /\ item' = Overlay(r)
  BY DEF Commit
<1>4. CASE phase[q] = "owing"
  <2>1. PICK x : x = req[q].order
    OBVIOUS
  <2>2. x # o
    BY <1>1, <1>3, <1>4, <2>1 DEF Outdated, BeingReturned
  <2>3. SourcesOf(r) /\ Writing(r)
    BY <1>3, SourcesParts DEF Writing
  <2>4. ASSUME NEW i \in Items
        PROVE  (item'[i].state = "LIVE" /\ item'[i].order = x) \/
               (item[i].state = "LIVE" /\ item[i].order = x) => item'[i] = item[i]
    <3>1. CASE i \in Writes(r)
      <4>1. item'[i] = rows[r][i]
        BY <1>3, <3>1 DEF Overlay
      <4>2. item[i].state = "LIVE" => item[i].order = o
        BY <1>1, <3>1, CommitReplaces
      <4>3. rows[r][i].state = "LIVE" => rows[r][i].order = o
        BY <1>1, <2>3, <3>1 DEF SourcesOf
      <4>4. QED
        BY <2>2, <4>1, <4>2, <4>3
    <3>2. CASE i \notin Writes(r)
      BY <1>3, <3>2 DEF Overlay
    <3>3. QED
      BY <3>1, <3>2
  <2>5. ItemsOf(x)' = ItemsOf(x)
    BY <2>4 DEF ItemsOf
  <2>6. ItemsOf(req[q].order)' = ItemsOf(req[q].order)
    BY <1>2, <2>1, <2>5 DEF ItemsOf
  <2>7. PICK t : t = ItemsOf(req[q].order)
    OBVIOUS
  <2>8. OwedBy(q, p) = Parts(t, p)
    BY <1>4, <2>7 DEF OwedBy
  <2>9. OwedBy(q, p)' = Parts(ItemsOf(req[q].order)', p)
    BY <1>2, <1>4 DEF OwedBy, Parts, Live, Qty, ItemsOf
  <2>10. QED
    BY <2>6, <2>7, <2>8, <2>9
<1>5. CASE phase[q] # "owing"
  BY <1>2, <1>5 DEF OwedBy, Parts, Live, Qty
<1>6. QED
  BY <1>4, <1>5

\* The lines in force change by the rows read and the rows written.
LEMMA CommitHeld ==
    ASSUME TypeOK, Sources, NEW r \in Requests, Step(r), Commit(r), ~Outdated(r), NEW p \in Products
    PROVE  Held(p)' = Held(p) - Delta(r, p)
<1>1. PICK o : o = req[r].order
  OBVIOUS
<1>2. PICK W : W = Writes(r)
  OBVIOUS
<1>3. PICK s : s = seen[r]
  OBVIOUS
<1>4. PICK w : w = rows[r]
  OBVIOUS
<1>5. SourcesOf(r) /\ Writing(r) /\ phase[r] = "worked"
  BY SourcesParts DEF Commit, Writing
<1>6. o \in Orders
  BY <1>1, <1>5 DEF SourcesOf, Inserts, Changes
<1>7. /\ \A i \in Items : s[i] = IF i \in W THEN item[i] ELSE NoItem
      /\ \A i \in Items : i \in W /\ item[i].state = "LIVE" => item[i].order = o
  BY <1>1, <1>2, <1>3, CommitReplaces
<1>8. /\ W \subseteq Items
      /\ \A i \in Items : i \notin W => w[i] = NoItem
      /\ \A i \in W : w[i].state = "LIVE" => w[i].order = o
  BY <1>1, <1>2, <1>4, <1>5 DEF SourcesOf, Writes
<1>9. \A i \in Items : item'[i] = IF i \in W THEN w[i] ELSE item[i]
  BY <1>2, <1>4 DEF Commit, Overlay
<1>10. order[o].status # "CANCELLED"
  BY <1>1, <1>5 DEF Outdated, Status
<1>11. /\ order'[o].status # "CANCELLED"
       /\ \A x \in Orders \ {o} : order'[x] = order[x]
  BY <1>1, <1>6, <1>10 DEF Commit, TypeOK, OrderRow
<1>12. \A i \in Live(item) : item[i].order \in Orders
  BY SourcesParts
<1>13. item \in [Items -> ItemRow] /\ item' \in [Items -> ItemRow] /\ s \in [Items -> ItemRow]
       /\ w \in [Items -> ItemRow]
  BY <1>3, <1>4, OverlayType DEF TypeOK, Commit
<1>14. PICK A : A = HeldLines(p)
  OBVIOUS
<1>15. PICK B : B = HeldLines(p)'
  OBVIOUS
<1>16. PICK f : f = Qty(item)
  OBVIOUS
<1>17. PICK g : g = Qty(item)'
  OBVIOUS
<1>18. A \subseteq Items /\ B \subseteq Items
  BY <1>14, <1>15 DEF HeldLines, Live
<1>19. IsFiniteSet(A \cap W) /\ IsFiniteSet(A \ W) /\ IsFiniteSet(B \cap W) /\ IsFiniteSet(B \ W)
  BY <1>18, SetsAssumption, FS_Subset
<1>20. /\ \A i \in Items : f[i] = item[i].qty /\ g[i] = item'[i].qty
       /\ \A i \in Items : f[i] \in Nat /\ g[i] \in Nat
  BY <1>13, <1>16, <1>17 DEF Qty, ItemRow
<1>21. /\ Total(A, f) = Total(A \cap W, f) + Total(A \ W, f)
       /\ Total(B, g) = Total(B \cap W, g) + Total(B \ W, g)
  <2>1. /\ (A \cap W) \cup (A \ W) = A /\ (A \cap W) \cap (A \ W) = {}
        /\ (B \cap W) \cup (B \ W) = B /\ (B \cap W) \cap (B \ W) = {}
    OBVIOUS
  <2>2. \A i \in A \cup B : f[i] \in Nat /\ g[i] \in Nat
    BY <1>18, <1>20
  <2>3. Total((A \cap W) \cup (A \ W), f) = Total(A \cap W, f) + Total(A \ W, f)
    BY <1>19, <2>1, <2>2, TotalDisjoint
  <2>4. Total((B \cap W) \cup (B \ W), g) = Total(B \cap W, g) + Total(B \ W, g)
    BY <1>19, <2>1, <2>2, TotalDisjoint
  <2>5. QED
    BY <2>1, <2>3, <2>4
<1>22. Total(A \ W, f) = Total(B \ W, g)
  <2>1. ASSUME NEW i \in Items, i \notin W
        PROVE  i \in B <=> i \in A
    <3>1. item'[i] = item[i]
      BY <1>9, <2>1
    <3>2. item[i].state = "LIVE" =>
              ((order'[item[i].order].status # "CANCELLED") <=>
               (order[item[i].order].status # "CANCELLED"))
      BY <1>10, <1>11, <1>12 DEF Live
    <3>3. QED
      BY <1>14, <1>15, <3>1, <3>2 DEF HeldLines, Live, Status
  <2>2. A \ W = B \ W
    BY <1>18, <2>1
  <2>3. \A i \in A \ W : f[i] = g[i]
    BY <1>9, <1>18, <1>20
  <2>4. Total(A \ W, f) = Total(A \ W, g)
    BY <2>3, TotalSame
  <2>5. QED
    BY <2>2, <2>4
<1>23. Total(A \cap W, f) = Parts(s, p)
  <2>1. \A i \in Items : i \in A \cap W <=> i \in Live(s) /\ s[i].product = p
    <3> SUFFICES ASSUME NEW i \in Items
                 PROVE  i \in A \cap W <=> i \in Live(s) /\ s[i].product = p
      OBVIOUS
    <3>1. CASE i \in W
      BY <1>7, <1>10, <1>14, <3>1 DEF HeldLines, Live, Status
    <3>2. CASE i \notin W
      BY <1>7, <3>2 DEF Live, NoItem
    <3>3. QED
      BY <3>1, <3>2
  <2>2. A \cap W = {i \in Live(s) : s[i].product = p}
    BY <1>18, <2>1 DEF Live
  <2>3. \A i \in A \cap W : f[i] = Qty(s)[i]
    BY <1>7, <1>18, <1>20 DEF Qty
  <2>4. Total(A \cap W, f) = Total(A \cap W, Qty(s))
    BY <2>3, TotalSame
  <2>5. QED
    BY <2>2, <2>4 DEF Parts
<1>24. Total(B \cap W, g) = Parts(w, p)
  <2>1. \A i \in Items : i \in B \cap W <=> i \in Live(w) /\ w[i].product = p
    <3> SUFFICES ASSUME NEW i \in Items
                 PROVE  i \in B \cap W <=> i \in Live(w) /\ w[i].product = p
      OBVIOUS
    <3>1. CASE i \in W
      BY <1>8, <1>9, <1>11, <1>15, <3>1 DEF HeldLines, Live, Status
    <3>2. CASE i \notin W
      BY <1>8, <3>2 DEF Live, NoItem
    <3>3. QED
      BY <3>1, <3>2
  <2>2. B \cap W = {i \in Live(w) : w[i].product = p}
    BY <1>18, <2>1 DEF Live
  <2>3. \A i \in B \cap W : g[i] = Qty(w)[i]
    BY <1>9, <1>18, <1>20 DEF Qty
  <2>4. Total(B \cap W, g) = Total(B \cap W, Qty(w))
    BY <2>3, TotalSame
  <2>5. QED
    BY <2>2, <2>4 DEF Parts
<1>25. Held(p) = Total(A, f) /\ Held(p)' = Total(B, g)
  <2>1. Held(p) = Total(HeldLines(p), Qty(item))
    BY DEF Held, HeldLines
  <2>2. Held(p)' = Total(HeldLines(p)', Qty(item)')
    BY DEF Held, HeldLines
  <2>3. QED
    BY <1>14, <1>15, <1>16, <1>17, <2>1, <2>2
<1>26. Parts(s, p) \in Nat /\ Parts(w, p) \in Nat
  BY <1>13, PartsType
<1>27. Total(A \ W, f) \in Nat
  BY <1>18, <1>19, <1>20, TotalType
<1>28. Delta(r, p) = Parts(s, p) - Parts(w, p)
  BY <1>3, <1>4 DEF Delta
<1>29. QED
  BY <1>21, <1>22, <1>23, <1>24, <1>25, <1>26, <1>27, <1>28

LEMMA CommitAccount ==
    ASSUME TypeOK, TypeOK', Sources, NEW r \in Requests, Step(r), Commit(r), ~Outdated(r),
           NEW p \in Products
    PROVE  Accounted(p)' = Accounted(p)
<1>1. phase[r] = "worked" /\ phase'[r] = "idle" /\ stock'[p] = stock[p] + Delta(r, p)
  BY DEF Commit, Finish, TypeOK
<1>2. OwedBy(r, p) = 0 /\ OwedBy(r, p)' = 0
  BY <1>1 DEF OwedBy
<1>3. \A q \in Requests \ {r} : OwedBy(q, p)' = OwedBy(q, p)
  BY CommitOwedByOthers
<1>4. Owed(p)' = Owed(p) - OwedBy(r, p) + OwedBy(r, p)'
  BY <1>3, OwedChange
<1>5. Held(p)' = Held(p) - Delta(r, p)
  BY CommitHeld
<1>6. stock[p] \in Int /\ Held(p) \in Int /\ Owed(p) \in Int /\ Delta(r, p) \in Int
  BY HeldType, OwedType, DeltaType DEF TypeOK
<1>7. QED
  BY <1>1, <1>2, <1>4, <1>5, <1>6 DEF Accounted

\* The three facts together, for a step of request r.
LEMMA StepAccount ==
    ASSUME IInv, TypeOK', Sources, NEW r \in Requests, Step(r), NEW p \in Products
    PROVE  \/ Accounted(p)' = Accounted(p)
           \/ phase'[r] # phase[r] /\ Outdated(r)
           \/ phase[r] \in {"owing", "restoring"} /\ Abort(r)
           \/ /\ SaveEdit(r)
              /\ Accounted(p)' = Accounted(p) + req[r].level - req[r].was
<1>1. TypeOK
  BY DEF IInv
<1>2. \A ph \in {"ready", "checked"} : \A args, reads, writes :
          Begin(r, ph, args, reads, writes) => Accounted(p)' = Accounted(p)
  BY <1>1, BeginAccount
<1>3. Finish(r) => phase'[r] = "idle"
  BY <1>1 DEF Finish, TypeOK
<1>4. CASE ReadItem(r) \/ Work(r)
  <2>1. /\ phase[r] \in {"checked", "ready"} /\ phase'[r] \in {"ready", "worked"}
        /\ UNCHANGED tables
    BY <1>1, <1>4 DEF ReadItem, Work, TypeOK
  <2>2. OwedBy(r, p) = 0 /\ OwedBy(r, p)' = 0
    BY <2>1 DEF OwedBy
  <2>3. QED
    BY <1>1, <2>1, <2>2, QuietAccount
<1>5. CASE Commit(r)
  <2>1. phase'[r] # phase[r]
    BY <1>3, <1>5 DEF Commit
  <2>2. QED
    BY <1>1, <1>5, <2>1, CommitAccount
<1>6. CASE Reject(r)
  <2>1. Finish(r) /\ UNCHANGED tables /\ phase[r] \notin {"owing", "restoring"}
    BY <1>6 DEF Reject
  <2>2. QED
    BY <1>1, <2>1, EndAccount
<1>7. CASE WriteStatus(r)
  <2>1. phase'[r] # phase[r]
    BY <1>1, <1>3, <1>7 DEF WriteStatus, TypeOK
  <2>2. QED
    BY <1>1, <1>7, <2>1, StatusAccount
<1>8. CASE ReadRestore(r)
  BY <1>1, <1>8, ReadRestoreAccount
<1>9. CASE Restore(r)
  BY <1>9, RestoreAccount
<1>10. CASE SaveEdit(r)
  <2>1. phase'[r] # phase[r]
    BY <1>3, <1>10 DEF SaveEdit
  <2>2. QED
    BY <1>1, <1>10, <2>1, EditAccount
<1>11. CASE Abort(r)
  <2>1. Finish(r) /\ UNCHANGED tables
    BY <1>11 DEF Abort
  <2>2. CASE phase[r] \in {"owing", "restoring"}
    BY <1>11, <2>2
  <2>3. CASE phase[r] \notin {"owing", "restoring"}
    BY <1>1, <2>1, <2>3, EndAccount
  <2>4. QED
    BY <2>2, <2>3
<1>12. CASE WriteInvoice(r)
  <2>1. phase'[r] # phase[r]
    BY <1>3, <1>12 DEF WriteInvoice
  <2>2. QED
    BY <1>1, <1>12, <2>1, InvoiceAccount
<1>13. QED
  BY <1>2, <1>4, <1>5, <1>6, <1>7, <1>8, <1>9, <1>10, <1>11, <1>12
     DEF Step, StartCreate, StartAdd, StartUpdate, StartRemove, StartStatus,
         StartRollback, StartInvoice, StartEdit

\* Parts appear or vanish only when the warehouse enters them and in the steps
\* the code leaves open: a write based on an outdated read, the end of a handler
\* between a cancellation and the return of its parts, the cancellation of an
\* appointment, and of the invoice of a cancelled order.  Sales, returns and changes of lines balance exactly in every
\* other step, whatever the number of handlers.
THEOREM PartsAreConserved == Spec => PartsLostOnlyWhenOutdated
<1>1. IInv /\ Sources /\ [Next]_vars =>
         [\A p \in Products :
            \/ Accounted(p)' = Accounted(p)
            \/ \E r \in Requests :
                  \/ phase'[r] # phase[r] /\ Outdated(r)
                  \/ phase[r] \in {"owing", "restoring"} /\ Abort(r)
                  \/ /\ SaveEdit(r)
                     /\ Accounted(p)' = Accounted(p) + req[r].level - req[r].was
            \/ \E o \in Orders :
                  \/ CancelAppointment(o)
                  \/ CancelInvoice(o) /\ Status(o) = "CANCELLED"]_vars
  <2> SUFFICES ASSUME IInv, Sources, Next, NEW p \in Products
               PROVE  \/ Accounted(p)' = Accounted(p)
                      \/ \E r \in Requests :
                            \/ phase'[r] # phase[r] /\ Outdated(r)
                            \/ phase[r] \in {"owing", "restoring"} /\ Abort(r)
                            \/ /\ SaveEdit(r)
                               /\ Accounted(p)' = Accounted(p) + req[r].level - req[r].was
                      \/ \E o \in Orders :
                            \/ CancelAppointment(o)
                            \/ CancelInvoice(o) /\ Status(o) = "CANCELLED"
    OBVIOUS
  <2>1. TypeOK'
    BY Invariance DEF IInv
  <2>2. CASE \E r \in Requests : Step(r)
    <3>1. PICK r \in Requests : Step(r)
      BY <2>2
    <3>2. QED
      BY <2>1, <3>1, StepAccount
  <2>3. ASSUME NEW o \in Orders, CancelInvoice(o), Status(o) # "CANCELLED"
        PROVE  Accounted(p)' = Accounted(p)
    BY <2>3, ReopenAccount DEF IInv
  <2>4. QED
    BY <2>2, <2>3 DEF Next
<1>2. QED
  BY <1>1, InitIInv, InitSources, Invariance, SourcesInvariance, PTL
     DEF Spec, PartsLostOnlyWhenOutdated

----------------------------------------------------------------------------
(* Workshop: the inductive invariant *)

\* What a request under way was given or has read, whatever the tables say now.
Given(x) ==
    x.phase \notin {"unsent", "done"} =>
       /\ x.op \in {"createBay", "updateBay", "book"} => x.name \in Names
       /\ x.op \in {"onboard", "createService"} => x.title \in Titles
       /\ x.op \in {"createService", "updateService"} => x.code \in Codes
       /\ x.op \in {"upload", "editPhoto", "deletePhoto"} => x.photo \in Photos
       /\ x.op \in {"onboard", "found"} => x.phone \in Phones
       /\ x.op \in {"found", "drop"} => x.tenant \in Tenants
       /\ x.op = "note" => x.user \in Staff
       /\ x.op = "logo" => x.format \in Formats
       /\ x.op = "book" => x.name \in (IF x.offered = {} THEN Fallback ELSE x.offered)
       /\ x.op = "editVehicle" /\ ~x.flag => x.km = x.readKm
       /\ x.op = "importVehicle" => x.flag
       /\ x.op = "settings" /\ ~x.flag => x.key = x.readKey
       /\ x.op = "onboard" /\ x.phase # "bays" => "bays" \notin x.new

\* No bay among the first n is left.
Emptied(n) == n <= Len(bay) /\ \A i \in Bays : i > n

\* What it has read of the tables that later steps keep: bays do not come back, rows
\* are only added, and objects of the logo stay.
Kept(x) ==
    /\ x.op = "view" /\ x.phase = "read" => Emptied(x.length)
    /\ x.op = "onboard" /\ x.phase = "bays" /\ "bays" \in x.new => Emptied(x.length)
    /\ x.op = "marketing" /\ x.phase = "read" => x.row <= Len(consent)
    /\ x.op = "openOrder" /\ x.phase \in {"read", "vehicle"} => x.row \in 1..drawn
    /\ x.op = "logo" /\ x.phase = "stored" => x.format \in logo.objects
    /\ x.op = "upload" /\ x.phase \in {"read", "stored"} => ~photo[x.photo].row
    /\ x.op = "upload" /\ x.phase = "stored" => photo[x.photo].object

Uploading(r) == request[r].op = "upload" /\ request[r].phase \in {"read", "stored"}

\* A photo that is being uploaded is nobody else's.
UploadsAlone ==
    \A r, q \in Slots : Uploading(r) /\ q # r => request[q].photo # request[r].photo

WorkshopIInv ==
    /\ WorkshopTypeOK
    /\ PhotosHaveObjects
    /\ LogoHasObject
    /\ NumbersDiffer
    /\ \A r \in Slots : Given(request[r]) /\ Kept(request[r])
    /\ UploadsAlone

----------------------------------------------------------------------------
(* Workshop: a step of one request *)

\* What the tables are, apart from the requests.
Tables ==
    /\ bay \in Seq(BayRow)
    /\ service \in Seq(ServiceRow)
    /\ booking \in Seq(BookingRow)
    /\ photo \in [Photos -> PhotoRow]
    /\ emptied \subseteq Photos
    /\ consent \in Seq(BOOLEAN)
    /\ account \in [Phones -> Tenants \cup {Home, Null}]
    /\ tenant \in [Tenants -> TenantRow \cup {Null}]
    /\ note \in Seq(NoteRow)
    /\ closed \in BOOLEAN
    /\ drawn \in Nat
    /\ opened \in Seq(1..drawn)
    /\ odometer \in Kilometres \cup {0}
    /\ secret \in Secret
    /\ logo \in Logo
    /\ PhotosHaveObjects
    /\ LogoHasObject
    /\ NumbersDiffer

\* A step of request r keeps what the others rely on.
Grows(r) ==
    /\ \A n \in Nat : Emptied(n) => Emptied(n)'
    /\ Len(consent) <= Len(consent')
    /\ drawn <= drawn'
    /\ logo.objects \subseteq logo'.objects
    /\ \A q \in Slots \ {r} :
          Uploading(q) => photo'[request[q].photo] = photo[request[q].photo]

\* The row x of request r leaves the photos that are being uploaded alone.
Alone(r, x) ==
    /\ x.op = "upload" /\ x.phase \in {"read", "stored"} =>
          \A q \in Slots \ {r} : request[q].photo # x.photo
    /\ \A q \in Slots \ {r} : Uploading(q) => x.photo # request[q].photo

LEMMA TablesTyped ==
    ASSUME WorkshopIInv
    PROVE  Tables
BY DEF WorkshopIInv, WorkshopTypeOK, Tables

LEMMA UnsentSlot ==
    /\ Unsent \in SlotRow
    /\ Unsent.photo = Null
    /\ Unsent.new = {}
    /\ Unsent.offered = {}
BY DEF Unsent, SlotRow, Secret

\* A row keeps its given values while nothing it has read goes away.
LEMMA KeptStays ==
    ASSUME NEW r \in Slots, NEW q \in Slots \ {r}, WorkshopIInv, Tables', Grows(r)
    PROVE  \A x : x = request[q] => Kept(x)'
<1> SUFFICES ASSUME NEW x, x = request[q]
             PROVE  Kept(x)'
  OBVIOUS
<1>1. x \in SlotRow /\ Kept(x)
  BY DEF WorkshopIInv, WorkshopTypeOK
<1>2. x.length \in Nat /\ x.row \in Nat
  BY <1>1 DEF SlotRow
<1>3. Emptied(x.length) => Emptied(x.length)'
  BY <1>2 DEF Grows
<1>4. x.row \in 1..drawn => x.row \in 1..drawn'
  BY <1>2 DEF Grows, Tables, WorkshopIInv, WorkshopTypeOK
<1>5. x.row <= Len(consent) => x.row <= Len(consent')
  <2>1. Len(consent) \in Nat /\ Len(consent') \in Nat
    BY DEF Tables, WorkshopIInv, WorkshopTypeOK
  <2>2. QED
    BY <1>2, <2>1 DEF Grows
<1>6. x.op = "upload" /\ x.phase \in {"read", "stored"} => photo'[x.photo] = photo[x.photo]
  BY DEF Grows, Uploading
<1>7. x.format \in logo.objects => x.format \in logo'.objects
  BY DEF Grows
<1>8. QED
  BY <1>1, <1>3, <1>4, <1>5, <1>6, <1>7 DEF Kept

\* One request gets the row x, and the tables change as they may.
LEMMA SlotStep ==
    ASSUME NEW r \in Slots, NEW x \in SlotRow, WorkshopIInv, Tables', Grows(r),
           request' = [request EXCEPT ![r] = x], Given(x), Kept(x)', Alone(r, x)
    PROVE  WorkshopIInv'
<1>1. request \in [Slots -> SlotRow]
  BY DEF WorkshopIInv, WorkshopTypeOK
<1>2. request' \in [Slots -> SlotRow] /\ request'[r] = x
  BY <1>1
<1>3. \A q \in Slots \ {r} : request'[q] = request[q]
  BY <1>1
<1>4. WorkshopTypeOK'
  BY <1>2 DEF WorkshopTypeOK, Tables
<1>5. \A q \in Slots : Given(request[q])' /\ Kept(request[q])'
  <2> SUFFICES ASSUME NEW q \in Slots
               PROVE  Given(request[q])' /\ Kept(request[q])'
    OBVIOUS
  <2>1. CASE q = r
    BY <1>2, <2>1 DEF Given, Kept, Emptied
  <2>2. CASE q # r
    <3>1. PICK y : y = request[q]
      OBVIOUS
    <3>2. Given(y) /\ Kept(y)'
      BY <2>2, <3>1, KeptStays DEF WorkshopIInv
    <3>3. request'[q] = y
      BY <1>3, <2>2, <3>1
    <3>4. QED
      BY <3>2, <3>3 DEF Given, Kept, Emptied
  <2>3. QED
    BY <2>1, <2>2
<1>6. UploadsAlone'
  <2> SUFFICES ASSUME NEW p \in Slots, NEW q \in Slots, Uploading(p)', q # p
               PROVE  request'[q].photo # request'[p].photo
    BY DEF UploadsAlone
  <2>1. CASE p = r
    BY <1>2, <1>3, <2>1 DEF Alone, Uploading
  <2>2. CASE p # r /\ q = r
    BY <1>2, <1>3, <2>2 DEF Alone, Uploading
  <2>3. CASE p # r /\ q # r
    BY <1>3, <2>3 DEF UploadsAlone, Uploading, WorkshopIInv
  <2>4. QED
    BY <2>1, <2>2, <2>3
<1>7. QED
  BY <1>4, <1>5, <1>6 DEF WorkshopIInv, Tables

\* The tables are as they were.
LEMMA QuietTables ==
    ASSUME NEW r \in Slots, WorkshopIInv, UNCHANGED <<setup, orders, office>>
    PROVE  Tables' /\ Grows(r)
<1>1. UNCHANGED <<bay, service, booking, photo, emptied, consent, account, tenant>>
  BY DEF setup
<1>2. UNCHANGED <<note, closed, drawn, opened, odometer, secret, logo>>
  BY DEF orders, office
<1>3. Tables
  BY TablesTyped
<1>4. Tables'
  BY <1>1, <1>2, <1>3 DEF Tables, PhotosHaveObjects, LogoHasObject, NumbersDiffer
<1>5. \A n \in Nat : Emptied(n) => Emptied(n)'
  BY <1>1 DEF Emptied, Bays
<1>6. Len(consent) \in Nat
  BY <1>3 DEF Tables
<1>7. QED
  BY <1>1, <1>2, <1>3, <1>4, <1>5, <1>6 DEF Grows, Tables

LEMMA QuietStep ==
    ASSUME NEW r \in Slots, NEW x \in SlotRow, WorkshopIInv,
           UNCHANGED <<setup, orders, office>>,
           request' = [request EXCEPT ![r] = x], Given(x), Kept(x), Alone(r, x)
    PROVE  WorkshopIInv'
<1>1. Tables' /\ Grows(r)
  BY QuietTables
<1>2. UNCHANGED <<bay, consent, drawn, logo, photo>>
  BY DEF setup, orders, office
<1>3. Kept(x)'
  BY <1>2 DEF Kept, Emptied, Bays
<1>4. QED
  BY <1>1, <1>3, SlotStep

\* A request without a photo leaves them alone.
LEMMA NullAlone ==
    ASSUME NEW r \in Slots, NEW x, WorkshopIInv, x.photo = Null, x.op # "upload"
    PROVE  Alone(r, x)
<1>1. \A q \in Slots : Uploading(q) => request[q].photo \in Photos
  BY DEF Uploading, WorkshopIInv, Given
<1>2. QED
  BY <1>1, NullAssumption DEF Alone

\* A request that goes on with its photo keeps it.
LEMMA SameAlone ==
    ASSUME NEW r \in Slots, NEW x, WorkshopIInv, x.photo = request[r].photo,
           x.op = "upload" => Uploading(r)
    PROVE  Alone(r, x)
BY DEF Alone, UploadsAlone, WorkshopIInv

\* A request ends.
LEMMA EndStep ==
    ASSUME NEW r \in Slots, WorkshopIInv, Tables', Grows(r), End(r)
    PROVE  WorkshopIInv'
<1> DEFINE x == [Unsent EXCEPT !.phase = "done"]
<1>1. x \in SlotRow /\ x.phase = "done" /\ x.photo = Null /\ x.op = Null
  BY DEF Unsent, SlotRow, Secret
<1>2. request' = [request EXCEPT ![r] = x]
  BY DEF End
<1> HIDE DEF x
<1>3. Given(x) /\ Kept(x)'
  BY <1>1 DEF Given, Kept
<1>4. \A q \in Slots : Uploading(q) => request[q].photo \in Photos
  BY DEF Uploading, WorkshopIInv, Given
<1>5. Alone(r, x)
  BY <1>1, <1>4, NullAssumption DEF Alone
<1>6. QED
  BY <1>1, <1>2, <1>3, <1>5, SlotStep

----------------------------------------------------------------------------
(* Workshop: new bays, and a slug that is free *)

\* The image of a finite set under a function is finite.
LEMMA ImageFinite ==
    ASSUME NEW S, IsFiniteSet(S), NEW V, NEW g \in [S -> V]
    PROVE  IsFiniteSet({g[s] : s \in S})
<1> DEFINE T == {g[s] : s \in S}
<1>1. g \in [S -> T]
  OBVIOUS
<1>2. \A y \in T : \E s \in S : g[s] = y
  OBVIOUS
<1> HIDE DEF T
<1>3. g \in Surjection(S, T)
  BY <1>1, <1>2 DEF Surjection
<1>4. IsFiniteSet(T)
  BY <1>3, FS_Surjection
<1>5. QED
  BY <1>4 DEF T

\* A finite set of rows is put into a sequence of them.
LEMMA SetToSeqTyped ==
    ASSUME NEW S, IsFiniteSet(S)
    PROVE  SetToSeq(S) \in Seq(S)
<1> DEFINE n == Cardinality(S)
<1>1. n \in Nat /\ ExistsBijection(1..n, S)
  BY FS_CardinalityType
<1>2. PICK g : g \in Bijection(1..n, S)
  BY <1>1 DEF ExistsBijection
<1>3. g \in Injection(1..n, S)
  BY <1>2 DEF Bijection
<1>4. g \in [1..n -> S]
  BY <1>3 DEF Injection
<1>5. IsInjective(g)
  BY <1>3 DEF Injection, IsInjective
<1>6. \E h \in [1..n -> S] : IsInjective(h)
  BY <1>4, <1>5
<1>7. SetToSeq(S) \in [1..n -> S]
  BY <1>6, Zenon DEF SetToSeq
<1> HIDE DEF n
<1>8. QED
  BY <1>1, <1>7

LEMMA OpenedTyped ==
    ASSUME NEW names \in SUBSET Names
    PROVE  Opened(names) \in Seq(BayRow)
<1> DEFINE g == [n \in names |-> [name |-> n, online |-> TRUE, live |-> TRUE]]
           S == {g[n] : n \in names}
           T == {[name |-> n, online |-> TRUE, live |-> TRUE] : n \in names}
<1>1. IsFiniteSet(names)
  BY FiniteAssumption, FS_Subset
<1>2. g \in [names -> BayRow]
  BY DEF BayRow
<1>3. S = T
  BY Zenon
<1> HIDE DEF g
<1>4. S \subseteq BayRow
  BY <1>2
<1>5. IsFiniteSet(S)
  BY <1>1, <1>2, ImageFinite
<1> HIDE DEF S
<1>6. IsFiniteSet(T)
  BY <1>3, <1>5
<1>7. Opened(names) = SetToSeq(T)
  BY DEF Opened
<1> HIDE DEF T
<1>8. SetToSeq(T) \in Seq(T)
  BY <1>6, SetToSeqTyped
<1>9. QED
  BY <1>3, <1>4, <1>7, <1>8

\* There is a number that no tenant has.
LEMMA FreeSlugFound ==
    ASSUME WorkshopIInv
    PROVE  FreeSlug \in Nat
<1> DEFINE g == [t \in Made |-> tenant[t].slug]
           S == {g[t] : t \in Made}
           m == Cardinality(Slugs)
<1>1. IsFiniteSet(Made)
  BY FiniteAssumption, FS_Subset DEF Made
<1>2. g \in [Made -> Nat]
  BY DEF WorkshopIInv, WorkshopTypeOK, Made, TenantRow
<1>3. S = {tenant[t].slug : t \in Made}
  BY Zenon
<1> HIDE DEF g
<1>4. IsFiniteSet(S)
  BY <1>1, <1>2, ImageFinite
<1>5. Slugs = S \cup {0}
  BY <1>3 DEF Slugs
<1> HIDE DEF S
<1>6. IsFiniteSet(Slugs)
  BY <1>4, <1>5, FS_AddElement
<1>7. m \in Nat
  BY <1>6, FS_CardinalityType
<1>8. \E k \in 0..m : k \notin Slugs
  <2> SUFFICES ASSUME 0..m \subseteq Slugs
               PROVE  FALSE
    OBVIOUS
  <2>1. Cardinality(0..m) <= m
    BY <1>6, FS_Subset
  <2>2. Cardinality(0..m) = m + 1
    <3> HIDE DEF m
    <3>1. QED
      BY <1>7, FS_Interval
  <2> HIDE DEF m
  <2>3. QED
    BY <1>7, <2>1, <2>2
<1>9. FreeSlug \in 0..m
  BY <1>8, Zenon DEF FreeSlug
<1> HIDE DEF m
<1>10. QED
  BY <1>7, <1>9

----------------------------------------------------------------------------
(* Workshop: requests begin *)

\* What the row becomes when a request with these fields is sent.
Sent(f, op) == [f EXCEPT !.op = op, !.phase = "read"]

\* A row in which one field changes.
LEMMA FieldTyped ==
    ASSUME NEW f \in SlotRow
    PROVE  /\ \A v \in Op : [f EXCEPT !.op = v] \in SlotRow
           /\ \A v \in {"read", "staff", "bays", "stored", "vehicle"} :
                 [f EXCEPT !.phase = v] \in SlotRow
           /\ \A v \in Nat : [f EXCEPT !.row = v] \in SlotRow
           /\ \A v \in Names : [f EXCEPT !.name = v] \in SlotRow
           /\ \A v \in Titles : [f EXCEPT !.title = v] \in SlotRow
           /\ \A v \in Codes : [f EXCEPT !.code = v] \in SlotRow
           /\ \A v \in Phones : [f EXCEPT !.phone = v] \in SlotRow
           /\ \A v \in Tenants : [f EXCEPT !.tenant = v] \in SlotRow
           /\ \A v \in SUBSET Nat : [f EXCEPT !.seen = v] \in SlotRow
           /\ \A v \in SUBSET Names : [f EXCEPT !.offered = v] \in SlotRow
           /\ \A v \in SUBSET {"service", "account", "bays"} :
                 [f EXCEPT !.new = v] \in SlotRow
           /\ \A v \in Staff : [f EXCEPT !.user = v] \in SlotRow
           /\ \A v \in Kilometres \cup {0} : [f EXCEPT !.km = v] \in SlotRow
           /\ \A v \in Kilometres \cup {0} : [f EXCEPT !.readKm = v] \in SlotRow
           /\ \A v \in Secret : [f EXCEPT !.key = v] \in SlotRow
           /\ \A v \in Secret : [f EXCEPT !.readKey = v] \in SlotRow
           /\ \A v \in Formats : [f EXCEPT !.format = v] \in SlotRow
<1>1. \A v \in Op : [f EXCEPT !.op = v] \in SlotRow
  BY DEF SlotRow
<1>2. \A v \in {"read", "staff", "bays", "stored", "vehicle"} : [f EXCEPT !.phase = v] \in SlotRow
  BY DEF SlotRow
<1>3. \A v \in Nat : [f EXCEPT !.row = v] \in SlotRow
  BY DEF SlotRow
<1>4. \A v \in Names : [f EXCEPT !.name = v] \in SlotRow
  BY DEF SlotRow
<1>5. \A v \in Titles : [f EXCEPT !.title = v] \in SlotRow
  BY DEF SlotRow
<1>6. \A v \in Codes : [f EXCEPT !.code = v] \in SlotRow
  BY DEF SlotRow
<1>7. \A v \in Phones : [f EXCEPT !.phone = v] \in SlotRow
  BY DEF SlotRow
<1>8. \A v \in Tenants : [f EXCEPT !.tenant = v] \in SlotRow
  BY DEF SlotRow
<1>9. \A v \in SUBSET Nat : [f EXCEPT !.seen = v] \in SlotRow
  BY DEF SlotRow
<1>10. \A v \in SUBSET Names : [f EXCEPT !.offered = v] \in SlotRow
  BY DEF SlotRow
<1>11. \A v \in SUBSET {"service", "account", "bays"} : [f EXCEPT !.new = v] \in SlotRow
  BY DEF SlotRow
<1>12. \A v \in Staff : [f EXCEPT !.user = v] \in SlotRow
  BY DEF SlotRow
<1>13. \A v \in Kilometres \cup {0} : [f EXCEPT !.km = v] \in SlotRow
  BY DEF SlotRow
<1>14. \A v \in Kilometres \cup {0} : [f EXCEPT !.readKm = v] \in SlotRow
  BY DEF SlotRow
<1>15. \A v \in Secret : [f EXCEPT !.key = v] \in SlotRow
  BY DEF SlotRow
<1>16. \A v \in Secret : [f EXCEPT !.readKey = v] \in SlotRow
  BY DEF SlotRow
<1>17. \A v \in Formats : [f EXCEPT !.format = v] \in SlotRow
  BY DEF SlotRow
<1>18. QED
  BY <1>1, <1>2, <1>3, <1>4, <1>5, <1>6, <1>7, <1>8, <1>9, <1>10, <1>11, <1>12, <1>13, <1>14,
     <1>15, <1>16, <1>17, Zenon

LEMMA SentFields ==
    ASSUME NEW f \in SlotRow, NEW op \in Op
    PROVE  /\ Sent(f, op) \in SlotRow
           /\ Sent(f, op).op = op
           /\ Sent(f, op).phase = "read"
           /\ Sent(f, op).row = f.row
           /\ Sent(f, op).name = f.name
           /\ Sent(f, op).title = f.title
           /\ Sent(f, op).code = f.code
           /\ Sent(f, op).flag = f.flag
           /\ Sent(f, op).photo = f.photo
           /\ Sent(f, op).phone = f.phone
           /\ Sent(f, op).tenant = f.tenant
           /\ Sent(f, op).length = f.length
           /\ Sent(f, op).offered = f.offered
           /\ Sent(f, op).user = f.user
           /\ Sent(f, op).km = f.km
           /\ Sent(f, op).readKm = f.readKm
           /\ Sent(f, op).key = f.key
           /\ Sent(f, op).readKey = f.readKey
           /\ Sent(f, op).format = f.format
           /\ Sent(f, op).new = f.new
<1>1. Sent(f, op) \in SlotRow
  <2> DEFINE g == [f EXCEPT !.op = op]
  <2>1. Sent(f, op) = [g EXCEPT !.phase = "read"]
    BY DEF Sent
  <2>2. g \in SlotRow
    BY FieldTyped
  <2> HIDE DEF g
  <2>3. [g EXCEPT !.phase = "read"] \in SlotRow
    BY <2>2, FieldTyped
  <2>4. QED
    BY <2>1, <2>3, Zenon
<1>2. [f EXCEPT !.op = op, !.phase = "read"].op = op
  BY DEF SlotRow
<1>3. Sent(f, op).phase = "read"
  BY DEF Sent, SlotRow
<1>4. /\ Sent(f, op).row = f.row
      /\ Sent(f, op).name = f.name
      /\ Sent(f, op).title = f.title
      /\ Sent(f, op).code = f.code
      /\ Sent(f, op).photo = f.photo
      /\ Sent(f, op).phone = f.phone
      /\ Sent(f, op).tenant = f.tenant
  BY DEF Sent, SlotRow
<1>5. /\ Sent(f, op).length = f.length
      /\ Sent(f, op).offered = f.offered
      /\ Sent(f, op).user = f.user
      /\ Sent(f, op).km = f.km
      /\ Sent(f, op).readKm = f.readKm
      /\ Sent(f, op).key = f.key
      /\ Sent(f, op).readKey = f.readKey
      /\ Sent(f, op).format = f.format
      /\ Sent(f, op).new = f.new
  BY DEF Sent, SlotRow
<1>6. Sent(f, op).flag = f.flag
  BY DEF Sent, SlotRow
<1>7. QED
  BY <1>1, <1>2, <1>3, <1>4, <1>5, <1>6, Zenon DEF Sent

\* A flag, which the provers like alone.
LEMMA FlagTyped ==
    ASSUME NEW f \in SlotRow, NEW flag \in BOOLEAN
    PROVE  [f EXCEPT !.flag = flag] \in SlotRow
BY DEF SlotRow

LEMMA FlagFields ==
    ASSUME NEW f \in SlotRow, NEW flag \in BOOLEAN
    PROVE  /\ [f EXCEPT !.flag = flag].row = f.row
           /\ [f EXCEPT !.flag = flag].name = f.name
           /\ [f EXCEPT !.flag = flag].code = f.code
           /\ [f EXCEPT !.flag = flag].photo = f.photo
           /\ [f EXCEPT !.flag = flag].km = f.km
           /\ [f EXCEPT !.flag = flag].readKm = f.readKm
           /\ [f EXCEPT !.flag = flag].key = f.key
           /\ [f EXCEPT !.flag = flag].readKey = f.readKey
BY DEF SlotRow

LEMMA FlagField ==
    ASSUME NEW f \in SlotRow, NEW flag \in BOOLEAN
    PROVE  [f EXCEPT !.flag = flag].flag = flag
BY DEF SlotRow

LEMMA EnterStep ==
    ASSUME NEW r \in Slots, NEW op \in Op, NEW f \in SlotRow, WorkshopIInv, Enter(r, op, f),
           Given(Sent(f, op)), Kept(Sent(f, op)), Alone(r, Sent(f, op))
    PROVE  WorkshopIInv'
<1>1. Sent(f, op) \in SlotRow
  BY SentFields
<1>2. /\ request' = [request EXCEPT ![r] = Sent(f, op)]
      /\ UNCHANGED <<setup, orders, office>>
  BY DEF Enter, Sent
<1> DEFINE x == Sent(f, op)
<1> HIDE DEF x
<1>3. QED
  BY <1>1, <1>2, QuietStep

\* Most requests have no photo.
LEMMA EnterPlain ==
    ASSUME NEW r \in Slots, NEW op \in Op, NEW f \in SlotRow, WorkshopIInv, Enter(r, op, f),
           Given(Sent(f, op)), Kept(Sent(f, op)), f.photo = Null, op # "upload"
    PROVE  WorkshopIInv'
<1>1. Sent(f, op).photo = Null /\ Sent(f, op).op # "upload"
  BY SentFields
<1>2. Alone(r, Sent(f, op))
  BY <1>1, NullAlone
<1>3. QED
  BY <1>2, EnterStep

LEMMA StartCreateBayKeeps ==
    ASSUME WorkshopIInv, NEW r \in Slots, NEW n \in Names, NEW flag \in BOOLEAN,
           StartCreateBay(r, n, flag)
    PROVE  WorkshopIInv'
<1> DEFINE f1 == [Unsent EXCEPT !.name = n]
           f == [f1 EXCEPT !.flag = flag]
<1>1. Enter(r, "createBay", f)
  BY DEF StartCreateBay
<1>2. f1.photo = Null /\ f1.name = n
  BY UnsentSlot DEF SlotRow
<1>3. f1 \in SlotRow
  BY UnsentSlot, FieldTyped
<1> HIDE DEF f1
<1>4. f \in SlotRow /\ f.flag = flag
  BY <1>3, FlagTyped, FlagField
<1>5. f.photo = Null /\ f.name = n
  BY <1>3, <1>2, FlagFields
<1> HIDE DEF f
<1>6. "createBay" \in Op
  BY DEF Op
<1>7. Given(Sent(f, "createBay")) /\ Kept(Sent(f, "createBay"))
  BY <1>4, <1>5, <1>6, SentFields DEF Given, Kept
<1>8. QED
  BY <1>1, <1>4, <1>5, <1>6, <1>7, EnterPlain

LEMMA StartUpdateBayKeeps ==
    ASSUME WorkshopIInv, NEW r \in Slots, NEW i \in Bays, NEW n \in Names, NEW flag \in BOOLEAN,
           StartUpdateBay(r, i, n, flag)
    PROVE  WorkshopIInv'
<1> DEFINE f1 == [Unsent EXCEPT !.row = i]
           f2 == [f1 EXCEPT !.name = n]
           f == [f2 EXCEPT !.flag = flag]
<1>1. i \in Nat
  BY DEF WorkshopIInv, WorkshopTypeOK, Bays
<1>2. Enter(r, "updateBay", f)
  BY DEF StartUpdateBay
<1>3. f2.photo = Null /\ f2.name = n
  BY <1>1, UnsentSlot DEF SlotRow
<1>4. f1 \in SlotRow
  BY <1>1, UnsentSlot, FieldTyped
<1> HIDE DEF f1
<1>5. f2 \in SlotRow
  BY <1>1, <1>4, FieldTyped
<1> HIDE DEF f2
<1>6. f \in SlotRow /\ f.flag = flag
  BY <1>5, FlagTyped, FlagField
<1>7. f.photo = Null /\ f.name = n
  BY <1>5, <1>3, FlagFields
<1> HIDE DEF f
<1>8. "updateBay" \in Op
  BY DEF Op
<1>9. Given(Sent(f, "updateBay")) /\ Kept(Sent(f, "updateBay"))
  BY <1>1, <1>6, <1>7, <1>8, SentFields DEF Given, Kept
<1>10. QED
  BY <1>2, <1>6, <1>7, <1>8, <1>9, EnterPlain

LEMMA StartDeleteBayKeeps ==
    ASSUME WorkshopIInv, NEW r \in Slots, NEW i \in Bays,
           StartDeleteBay(r, i)
    PROVE  WorkshopIInv'
<1> DEFINE f == [Unsent EXCEPT !.row = i]
<1>1. i \in Nat
  BY DEF WorkshopIInv, WorkshopTypeOK, Bays
<1>2. Enter(r, "deleteBay", f)
  BY DEF StartDeleteBay
<1>3. f.photo = Null /\ f.row = i
  BY <1>1, UnsentSlot DEF SlotRow
<1>4. f \in SlotRow
  BY <1>1, UnsentSlot, FieldTyped
<1> HIDE DEF f
<1>5. "deleteBay" \in Op
  BY DEF Op
<1>6. Given(Sent(f, "deleteBay")) /\ Kept(Sent(f, "deleteBay"))
  BY <1>1, <1>4, <1>3, <1>5, SentFields DEF Given, Kept
<1>7. QED
  BY <1>2, <1>4, <1>3, <1>5, <1>6, EnterPlain

LEMMA StartCreateServiceKeeps ==
    ASSUME WorkshopIInv, NEW r \in Slots, NEW title \in Titles, NEW code \in Codes,
           StartCreateService(r, title, code)
    PROVE  WorkshopIInv'
<1> DEFINE f1 == [Unsent EXCEPT !.title = title]
           f == [f1 EXCEPT !.code = code]
<1>1. Enter(r, "createService", f)
  BY DEF StartCreateService
<1>2. f.photo = Null /\ f.title = title /\ f.code = code
  BY UnsentSlot DEF SlotRow
<1>3. f1 \in SlotRow
  BY UnsentSlot, FieldTyped
<1> HIDE DEF f1
<1>4. f \in SlotRow
  BY <1>3, FieldTyped
<1> HIDE DEF f
<1>5. "createService" \in Op
  BY DEF Op
<1>6. Given(Sent(f, "createService")) /\ Kept(Sent(f, "createService"))
  BY <1>4, <1>2, <1>5, SentFields DEF Given, Kept
<1>7. QED
  BY <1>1, <1>4, <1>2, <1>5, <1>6, EnterPlain

LEMMA StartUpdateServiceKeeps ==
    ASSUME WorkshopIInv, NEW r \in Slots, NEW i \in Services, NEW code \in Codes,
           NEW flag \in BOOLEAN, StartUpdateService(r, i, code, flag)
    PROVE  WorkshopIInv'
<1> DEFINE f1 == [Unsent EXCEPT !.row = i]
           f2 == [f1 EXCEPT !.code = code]
           f == [f2 EXCEPT !.flag = flag]
<1>1. i \in Nat
  BY DEF WorkshopIInv, WorkshopTypeOK, Services
<1>2. Enter(r, "updateService", f)
  BY DEF StartUpdateService
<1>3. f2.photo = Null /\ f2.code = code
  BY <1>1, UnsentSlot DEF SlotRow
<1>4. f1 \in SlotRow
  BY <1>1, UnsentSlot, FieldTyped
<1> HIDE DEF f1
<1>5. f2 \in SlotRow
  BY <1>1, <1>4, FieldTyped
<1> HIDE DEF f2
<1>6. f \in SlotRow /\ f.flag = flag
  BY <1>5, FlagTyped, FlagField
<1>7. f.photo = Null /\ f.code = code
  BY <1>5, <1>3, FlagFields
<1> HIDE DEF f
<1>8. "updateService" \in Op
  BY DEF Op
<1>9. Given(Sent(f, "updateService")) /\ Kept(Sent(f, "updateService"))
  BY <1>1, <1>6, <1>7, <1>8, SentFields DEF Given, Kept
<1>10. QED
  BY <1>2, <1>6, <1>7, <1>8, <1>9, EnterPlain

LEMMA StartRemoveServiceKeeps ==
    ASSUME WorkshopIInv, NEW r \in Slots, NEW i \in Services,
           StartRemoveService(r, i)
    PROVE  WorkshopIInv'
<1> DEFINE f1 == [Unsent EXCEPT !.row = i]
           f == [f1 EXCEPT !.seen = BookingsOf(i)]
<1>1. i \in Nat
  BY DEF WorkshopIInv, WorkshopTypeOK, Services
<1>2. BookingsOf(i) \in SUBSET Nat
  BY DEF WorkshopIInv, WorkshopTypeOK, BookingsOf
<1>3. Enter(r, "removeService", f)
  BY DEF StartRemoveService
<1>4. f.photo = Null /\ f.row = i
  BY <1>1, <1>2, UnsentSlot DEF SlotRow
<1>5. f1 \in SlotRow
  BY <1>1, <1>2, UnsentSlot, FieldTyped
<1> HIDE DEF f1
<1>6. f \in SlotRow
  BY <1>1, <1>2, <1>5, FieldTyped
<1> HIDE DEF f
<1>7. "removeService" \in Op
  BY DEF Op
<1>8. Given(Sent(f, "removeService")) /\ Kept(Sent(f, "removeService"))
  BY <1>1, <1>2, <1>6, <1>4, <1>7, SentFields DEF Given, Kept
<1>9. QED
  BY <1>3, <1>6, <1>4, <1>7, <1>8, EnterPlain

LEMMA StartMarketingKeeps ==
    ASSUME WorkshopIInv, NEW r \in Slots, NEW flag \in BOOLEAN,
           StartMarketing(r, flag)
    PROVE  WorkshopIInv'
<1> DEFINE f1 == [Unsent EXCEPT !.row = Len(consent)]
           f == [f1 EXCEPT !.flag = flag]
<1>1. Len(consent) \in Nat
  BY DEF WorkshopIInv, WorkshopTypeOK
<1>2. Enter(r, "marketing", f)
  BY DEF StartMarketing
<1>3. f1.photo = Null /\ f1.row = Len(consent)
  BY <1>1, UnsentSlot DEF SlotRow
<1>4. f1 \in SlotRow
  BY <1>1, UnsentSlot, FieldTyped
<1> HIDE DEF f1
<1>5. f \in SlotRow /\ f.flag = flag
  BY <1>4, FlagTyped, FlagField
<1>6. f.photo = Null /\ f.row = Len(consent)
  BY <1>4, <1>3, FlagFields
<1> HIDE DEF f
<1>7. "marketing" \in Op
  BY DEF Op
<1>8. Given(Sent(f, "marketing")) /\ Kept(Sent(f, "marketing"))
  BY <1>1, <1>5, <1>6, <1>7, SentFields DEF Given, Kept
<1>9. QED
  BY <1>2, <1>5, <1>6, <1>7, <1>8, EnterPlain

LEMMA StartFoundKeeps ==
    ASSUME WorkshopIInv, NEW r \in Slots, NEW t \in Tenants, NEW p \in Phones,
           StartFound(r, t, p)
    PROVE  WorkshopIInv'
<1> DEFINE f1 == [Unsent EXCEPT !.tenant = t]
           f2 == [f1 EXCEPT !.phone = p]
           f == [f2 EXCEPT !.row = FreeSlug]
<1>1. FreeSlug \in Nat
  BY FreeSlugFound
<1>2. Enter(r, "found", f)
  BY DEF StartFound
<1>3. f.photo = Null /\ f.tenant = t /\ f.phone = p
  BY <1>1, UnsentSlot DEF SlotRow
<1>4. f1 \in SlotRow
  BY <1>1, UnsentSlot, FieldTyped
<1> HIDE DEF f1
<1>5. f2 \in SlotRow
  BY <1>1, <1>4, FieldTyped
<1> HIDE DEF f2
<1>6. f \in SlotRow
  BY <1>1, <1>5, FieldTyped
<1> HIDE DEF f
<1>7. "found" \in Op
  BY DEF Op
<1>8. Given(Sent(f, "found")) /\ Kept(Sent(f, "found"))
  BY <1>1, <1>6, <1>3, <1>7, SentFields DEF Given, Kept
<1>9. QED
  BY <1>2, <1>6, <1>3, <1>7, <1>8, EnterPlain

LEMMA StartDropKeeps ==
    ASSUME WorkshopIInv, NEW r \in Slots, NEW t \in Tenants,
           StartDrop(r, t)
    PROVE  WorkshopIInv'
<1> DEFINE f == [Unsent EXCEPT !.tenant = t]
<1>1. Enter(r, "drop", f)
  BY DEF StartDrop
<1>2. f.photo = Null /\ f.tenant = t
  BY UnsentSlot DEF SlotRow
<1>3. f \in SlotRow
  BY UnsentSlot, FieldTyped
<1> HIDE DEF f
<1>4. "drop" \in Op
  BY DEF Op
<1>5. Given(Sent(f, "drop")) /\ Kept(Sent(f, "drop"))
  BY <1>3, <1>2, <1>4, SentFields DEF Given, Kept
<1>6. QED
  BY <1>1, <1>3, <1>2, <1>4, <1>5, EnterPlain

LEMMA StartNoteKeeps ==
    ASSUME WorkshopIInv, NEW r \in Slots, NEW u \in Staff,
           StartNote(r, u)
    PROVE  WorkshopIInv'
<1> DEFINE f == [Unsent EXCEPT !.user = u]
<1>1. Enter(r, "note", f)
  BY DEF StartNote
<1>2. f.photo = Null /\ f.user = u
  BY UnsentSlot DEF SlotRow
<1>3. f \in SlotRow
  BY UnsentSlot, FieldTyped
<1> HIDE DEF f
<1>4. "note" \in Op
  BY DEF Op
<1>5. Given(Sent(f, "note")) /\ Kept(Sent(f, "note"))
  BY <1>3, <1>2, <1>4, SentFields DEF Given, Kept
<1>6. QED
  BY <1>1, <1>3, <1>2, <1>4, <1>5, EnterPlain

LEMMA StartEditNoteKeeps ==
    ASSUME WorkshopIInv, NEW r \in Slots, NEW i \in Notes, NEW u \in Staff,
           StartEditNote(r, i, u)
    PROVE  WorkshopIInv'
<1> DEFINE f1 == [Unsent EXCEPT !.row = i]
           f == [f1 EXCEPT !.user = u]
<1>1. i \in Nat
  BY DEF WorkshopIInv, WorkshopTypeOK, Notes
<1>2. Enter(r, "editNote", f)
  BY DEF StartEditNote
<1>3. f.photo = Null /\ f.user = u
  BY <1>1, UnsentSlot DEF SlotRow
<1>4. f1 \in SlotRow
  BY <1>1, UnsentSlot, FieldTyped
<1> HIDE DEF f1
<1>5. f \in SlotRow
  BY <1>1, <1>4, FieldTyped
<1> HIDE DEF f
<1>6. "editNote" \in Op
  BY DEF Op
<1>7. Given(Sent(f, "editNote")) /\ Kept(Sent(f, "editNote"))
  BY <1>1, <1>5, <1>3, <1>6, SentFields DEF Given, Kept
<1>8. QED
  BY <1>2, <1>5, <1>3, <1>6, <1>7, EnterPlain

LEMMA StartDeleteNoteKeeps ==
    ASSUME WorkshopIInv, NEW r \in Slots, NEW i \in Notes, NEW u \in Staff,
           StartDeleteNote(r, i, u)
    PROVE  WorkshopIInv'
<1> DEFINE f1 == [Unsent EXCEPT !.row = i]
           f == [f1 EXCEPT !.user = u]
<1>1. i \in Nat
  BY DEF WorkshopIInv, WorkshopTypeOK, Notes
<1>2. Enter(r, "deleteNote", f)
  BY DEF StartDeleteNote
<1>3. f.photo = Null /\ f.user = u
  BY <1>1, UnsentSlot DEF SlotRow
<1>4. f1 \in SlotRow
  BY <1>1, UnsentSlot, FieldTyped
<1> HIDE DEF f1
<1>5. f \in SlotRow
  BY <1>1, <1>4, FieldTyped
<1> HIDE DEF f
<1>6. "deleteNote" \in Op
  BY DEF Op
<1>7. Given(Sent(f, "deleteNote")) /\ Kept(Sent(f, "deleteNote"))
  BY <1>1, <1>5, <1>3, <1>6, SentFields DEF Given, Kept
<1>8. QED
  BY <1>2, <1>5, <1>3, <1>6, <1>7, EnterPlain

LEMMA StartEditVehicleKeeps ==
    ASSUME WorkshopIInv, NEW r \in Slots, NEW km \in Kilometres, NEW flag \in BOOLEAN,
           StartEditVehicle(r, km, flag)
    PROVE  WorkshopIInv'
<1> DEFINE f1 == [Unsent EXCEPT !.km = Edited(km, flag)]
           f2 == [f1 EXCEPT !.readKm = odometer]
           f == [f2 EXCEPT !.flag = flag]
<1>1. odometer \in Kilometres \cup {0}
  BY DEF WorkshopIInv, WorkshopTypeOK
<1>2. Edited(km, flag) \in Kilometres \cup {0} /\ (~flag => Edited(km, flag) = odometer)
  BY <1>1 DEF Edited
<1>3. Enter(r, "editVehicle", f)
  BY DEF StartEditVehicle
<1>4. f2.photo = Null /\ f2.km = Edited(km, flag) /\ f2.readKm = odometer
  BY <1>1, <1>2, UnsentSlot DEF SlotRow
<1>5. f1 \in SlotRow
  BY <1>1, <1>2, UnsentSlot, FieldTyped
<1> HIDE DEF f1
<1>6. f2 \in SlotRow
  BY <1>1, <1>2, <1>5, FieldTyped
<1> HIDE DEF f2
<1>7. f \in SlotRow /\ f.flag = flag
  BY <1>6, FlagTyped, FlagField
<1>8. f.photo = Null /\ f.km = Edited(km, flag) /\ f.readKm = odometer
  BY <1>6, <1>4, FlagFields
<1> HIDE DEF f
<1>9. "editVehicle" \in Op
  BY DEF Op
<1>10. Given(Sent(f, "editVehicle")) /\ Kept(Sent(f, "editVehicle"))
  BY <1>1, <1>2, <1>7, <1>8, <1>9, SentFields DEF Given, Kept
<1>11. QED
  BY <1>3, <1>7, <1>8, <1>9, <1>10, EnterPlain

LEMMA StartImportVehicleKeeps ==
    ASSUME WorkshopIInv, NEW r \in Slots, NEW km \in Kilometres, StartImportVehicle(r, km)
    PROVE  WorkshopIInv'
<1> DEFINE f1 == [Unsent EXCEPT !.km = km]
           f2 == [f1 EXCEPT !.readKm = odometer]
           f == [f2 EXCEPT !.flag = TRUE]
<1>1. odometer \in Kilometres \cup {0}
  BY DEF WorkshopIInv, WorkshopTypeOK
<1>2. Enter(r, "importVehicle", f)
  BY DEF StartImportVehicle
<1>3. f2.photo = Null
  BY UnsentSlot DEF SlotRow
<1>4. f1 \in SlotRow
  BY UnsentSlot, FieldTyped
<1> HIDE DEF f1
<1>5. f2 \in SlotRow
  BY <1>1, <1>4, FieldTyped
<1> HIDE DEF f2
<1>6. f \in SlotRow /\ f.flag = TRUE
  BY <1>5, FlagTyped, FlagField
<1>7. f.photo = Null
  BY <1>3, <1>5, FlagFields
<1> HIDE DEF f
<1>8. "importVehicle" \in Op
  BY DEF Op
<1>9. Given(Sent(f, "importVehicle")) /\ Kept(Sent(f, "importVehicle"))
  BY <1>6, <1>8, SentFields DEF Given, Kept
<1>10. QED
  BY <1>2, <1>6, <1>7, <1>8, <1>9, EnterPlain

LEMMA StartSettingsKeeps ==
    ASSUME WorkshopIInv, NEW r \in Slots, NEW key \in Secret, NEW flag \in BOOLEAN,
           StartSettings(r, key, flag)
    PROVE  WorkshopIInv'
<1> DEFINE f1 == [Unsent EXCEPT !.key = IF flag THEN key ELSE secret]
           f2 == [f1 EXCEPT !.readKey = secret]
           f == [f2 EXCEPT !.flag = flag]
<1>1. secret \in Secret
  BY DEF WorkshopIInv, WorkshopTypeOK
<1>2. (IF flag THEN key ELSE secret) \in Secret
  BY <1>1
<1>3. Enter(r, "settings", f)
  BY DEF StartSettings
<1>4. f2.photo = Null /\ f2.key = (IF flag THEN key ELSE secret) /\ f2.readKey = secret
  BY <1>1, <1>2, UnsentSlot DEF SlotRow
<1>5. f1 \in SlotRow
  BY <1>1, <1>2, UnsentSlot, FieldTyped
<1> HIDE DEF f1
<1>6. f2 \in SlotRow
  BY <1>1, <1>2, <1>5, FieldTyped
<1> HIDE DEF f2
<1>7. f \in SlotRow /\ f.flag = flag
  BY <1>6, FlagTyped, FlagField
<1>8. f.photo = Null /\ f.key = (IF flag THEN key ELSE secret) /\ f.readKey = secret
  BY <1>6, <1>4, FlagFields
<1> HIDE DEF f
<1>9. "settings" \in Op
  BY DEF Op
<1>10. Given(Sent(f, "settings")) /\ Kept(Sent(f, "settings"))
  BY <1>1, <1>2, <1>7, <1>8, <1>9, SentFields DEF Given, Kept
<1>11. QED
  BY <1>3, <1>7, <1>8, <1>9, <1>10, EnterPlain

LEMMA StartLogoKeeps ==
    ASSUME WorkshopIInv, NEW r \in Slots, NEW x \in Formats,
           StartLogo(r, x)
    PROVE  WorkshopIInv'
<1> DEFINE f == [Unsent EXCEPT !.format = x]
<1>1. Enter(r, "logo", f)
  BY DEF StartLogo
<1>2. f.photo = Null /\ f.format = x
  BY UnsentSlot DEF SlotRow
<1>3. f \in SlotRow
  BY UnsentSlot, FieldTyped
<1> HIDE DEF f
<1>4. "logo" \in Op
  BY DEF Op
<1>5. Given(Sent(f, "logo")) /\ Kept(Sent(f, "logo"))
  BY <1>3, <1>2, <1>4, SentFields DEF Given, Kept
<1>6. QED
  BY <1>1, <1>3, <1>2, <1>4, <1>5, EnterPlain

LEMMA StartViewKeeps ==
    ASSUME WorkshopIInv, NEW r \in Slots, StartView(r)
    PROVE  WorkshopIInv'
<1> DEFINE f == [Unsent EXCEPT !.length = Len(bay)]
<1>1. Len(bay) \in Nat
  BY DEF WorkshopIInv, WorkshopTypeOK
<1>2. f \in SlotRow /\ f.photo = Null /\ f.length = Len(bay)
  BY <1>1, UnsentSlot DEF SlotRow
<1>3. Enter(r, "view", f) /\ Bays = {}
  BY DEF StartView, Unequipped
<1> HIDE DEF f
<1>4. "view" \in Op
  BY DEF Op
<1>5. Given(Sent(f, "view"))
  BY <1>2, <1>4, SentFields DEF Given
<1>6. Kept(Sent(f, "view"))
  BY <1>1, <1>2, <1>3, <1>4, SentFields DEF Kept, Emptied
<1>7. QED
  BY <1>2, <1>3, <1>4, <1>5, <1>6, EnterPlain

LEMMA StartOnboardKeeps ==
    ASSUME WorkshopIInv, NEW r \in Slots, NEW title \in Titles, NEW p \in Phones,
           StartOnboard(r, title, p)
    PROVE  WorkshopIInv'
<1> DEFINE new == IF title \in TitlesUsed THEN {} ELSE {"service"}
           f1 == [Unsent EXCEPT !.title = title]
           f2 == [f1 EXCEPT !.phone = p]
           f == [f2 EXCEPT !.new = new]
<1>1. Enter(r, "onboard", f)
  BY DEF StartOnboard
<1>2. new \in SUBSET {"service", "account", "bays"} /\ "bays" \notin new
  OBVIOUS
<1> HIDE DEF new
<1>3. f.photo = Null /\ f.title = title /\ f.phone = p /\ f.new = new
  BY UnsentSlot DEF SlotRow
<1>4. f1 \in SlotRow
  BY UnsentSlot, FieldTyped
<1> HIDE DEF f1
<1>5. f2 \in SlotRow
  BY <1>4, FieldTyped
<1> HIDE DEF f2
<1>6. f \in SlotRow
  BY <1>2, <1>5, FieldTyped
<1> HIDE DEF f
<1>7. "onboard" \in Op
  BY DEF Op
<1>8. Given(Sent(f, "onboard")) /\ Kept(Sent(f, "onboard"))
  BY <1>2, <1>3, <1>6, <1>7, SentFields DEF Given, Kept
<1>9. QED
  BY <1>1, <1>3, <1>6, <1>7, <1>8, EnterPlain

LEMMA OnlineNames == WorkshopIInv => Online \subseteq Names
<1>1. \A row \in BayRow : row.name \in Names
  BY DEF BayRow
<1>2. WorkshopIInv => \A i \in Bays : bay[i] \in BayRow
  BY DEF Bays, WorkshopIInv, WorkshopTypeOK
<1>3. QED
  BY <1>1, <1>2 DEF Online

LEMMA StartBookKeeps ==
    ASSUME WorkshopIInv, NEW r \in Slots, NEW i \in Services \cup {0}, StartBook(r, i)
    PROVE  WorkshopIInv'
<1>1. PICK n \in Offered \ Taken :
         Enter(r, "book", [Unsent EXCEPT !.row = i, !.name = n, !.offered = Online])
  BY Zenon DEF StartBook
<1>2. i \in Nat
  BY DEF Services, WorkshopIInv, WorkshopTypeOK
<1>3. Online \in SUBSET Names
  BY OnlineNames
<1>4. n \in Names /\ n \in (IF Online = {} THEN Fallback ELSE Online)
  BY <1>1, <1>3, NamesAssumption DEF Offered
<1> DEFINE f1 == [Unsent EXCEPT !.row = i]
           f2 == [f1 EXCEPT !.name = n]
           f == [f2 EXCEPT !.offered = Online]
<1>5. Enter(r, "book", f)
  BY <1>1
<1>6. f.photo = Null /\ f.name = n /\ f.offered = Online
  BY UnsentSlot DEF SlotRow
<1>7. f1 \in SlotRow
  BY <1>2, UnsentSlot, FieldTyped
<1> HIDE DEF f1
<1>8. f2 \in SlotRow
  BY <1>4, <1>7, FieldTyped
<1> HIDE DEF f2
<1>9. f \in SlotRow
  BY <1>3, <1>8, FieldTyped
<1> HIDE DEF f
<1>10. "book" \in Op
  BY DEF Op
<1>11. Given(Sent(f, "book")) /\ Kept(Sent(f, "book"))
  BY <1>4, <1>6, <1>9, <1>10, SentFields DEF Given, Kept
<1>12. QED
  BY <1>5, <1>6, <1>9, <1>10, <1>11, EnterPlain

LEMMA StartUploadKeeps ==
    ASSUME WorkshopIInv, NEW r \in Slots, NEW p \in Photos, StartUpload(r, p)
    PROVE  WorkshopIInv'
<1> DEFINE f == [Unsent EXCEPT !.photo = p]
<1>1. Enter(r, "upload", f)
  BY DEF StartUpload
<1>2. ~photo[p].row /\ \A q \in Slots : request[q].photo # p
  BY DEF StartUpload, Fresh
<1>3. f \in SlotRow /\ f.photo = p
  BY UnsentSlot DEF SlotRow
<1> HIDE DEF f
<1>4. "upload" \in Op
  BY DEF Op
<1>5. Given(Sent(f, "upload")) /\ Kept(Sent(f, "upload"))
  BY <1>2, <1>3, <1>4, SentFields DEF Given, Kept
<1>6. Alone(r, Sent(f, "upload"))
  BY <1>2, <1>3, <1>4, SentFields DEF Alone
<1>7. QED
  BY <1>1, <1>3, <1>4, <1>5, <1>6, EnterStep

LEMMA StartPhotoKeeps ==
    ASSUME WorkshopIInv, NEW r \in Slots, NEW p \in Photos,
           NEW op \in {"editPhoto", "deletePhoto"}, StartPhoto(r, op, p)
    PROVE  WorkshopIInv'
<1> DEFINE f == [Unsent EXCEPT !.photo = p]
<1>1. Enter(r, op, f) /\ photo[p].row
  BY DEF StartPhoto
<1>2. \A q \in Slots : Uploading(q) => ~photo[request[q].photo].row
  BY DEF WorkshopIInv, Kept, Uploading
<1>3. f \in SlotRow /\ f.photo = p
  BY UnsentSlot DEF SlotRow
<1> HIDE DEF f
<1>4. op \in Op
  BY DEF Op
<1>5. Given(Sent(f, op)) /\ Kept(Sent(f, op))
  BY <1>3, <1>4, SentFields DEF Given, Kept
<1>6. Alone(r, Sent(f, op))
  BY <1>1, <1>2, <1>3, <1>4, SentFields DEF Alone
<1>7. QED
  BY <1>1, <1>3, <1>4, <1>5, <1>6, EnterStep

LEMMA SignKeeps ==
    ASSUME WorkshopIInv, NEW r \in Slots, NEW flag \in BOOLEAN, Sign(r, flag)
    PROVE  WorkshopIInv'
<1>1. Tables
  BY TablesTyped
<1>2. /\ consent' \in Seq(BOOLEAN)
      /\ Len(consent) <= Len(consent')
  BY <1>1 DEF Tables, Sign
<1>3. /\ UNCHANGED <<bay, service, booking, photo, emptied, account, tenant>>
      /\ UNCHANGED <<note, closed, drawn, opened, odometer, secret, logo>>
  BY DEF Sign, orders, office
<1>4. Tables'
  BY <1>1, <1>2, <1>3 DEF Tables, PhotosHaveObjects, LogoHasObject, NumbersDiffer
<1>5. Grows(r)
  BY <1>1, <1>2, <1>3 DEF Grows, Emptied, Bays, Tables
<1>6. QED
  BY <1>4, <1>5, EndStep DEF Sign

LEMMA CancelOrderKeeps ==
    ASSUME WorkshopIInv, NEW r \in Slots, CancelOrder(r)
    PROVE  WorkshopIInv'
<1>1. Tables
  BY TablesTyped
<1>2. /\ UNCHANGED <<bay, service, booking, photo, emptied, consent, account, tenant>>
      /\ UNCHANGED <<note, drawn, opened, odometer, secret, logo>>
      /\ closed' \in BOOLEAN
  BY DEF CancelOrder, setup, office
<1>3. Tables'
  BY <1>1, <1>2 DEF Tables, PhotosHaveObjects, LogoHasObject, NumbersDiffer
<1>4. Grows(r)
  BY <1>1, <1>2 DEF Grows, Emptied, Bays, Tables
<1>5. QED
  BY <1>3, <1>4, EndStep DEF CancelOrder

\* The number drawn is above all that are.
LEMMA DrawNumberKeeps ==
    ASSUME WorkshopIInv, NEW r \in Slots, NEW km \in Kilometres \cup {0}, DrawNumber(r, km)
    PROVE  WorkshopIInv'
<1>1. Tables
  BY TablesTyped
<1>2. /\ UNCHANGED <<bay, service, booking, photo, emptied, consent, account, tenant>>
      /\ UNCHANGED <<note, closed, opened, odometer, secret, logo>>
      /\ drawn' = drawn + 1 /\ drawn \in Nat
  BY <1>1 DEF DrawNumber, setup, office, Tables
<1>3. opened \in Seq(1..(drawn + 1))
  BY <1>1, <1>2 DEF Tables
<1>4. Tables'
  BY <1>1, <1>2, <1>3 DEF Tables, PhotosHaveObjects, LogoHasObject, NumbersDiffer
<1>5. Grows(r)
  BY <1>1, <1>2 DEF Grows, Emptied, Bays, Tables
<1> DEFINE f1 == [Unsent EXCEPT !.op = "openOrder"]
           f2 == [f1 EXCEPT !.phase = "read"]
           f3 == [f2 EXCEPT !.row = drawn + 1]
           f == [f3 EXCEPT !.km = km]
<1>6. request' = [request EXCEPT ![r] = f]
  BY DEF DrawNumber
<1>7. f.photo = Null /\ f.row = drawn + 1 /\ f.phase = "read"
  BY <1>2, UnsentSlot DEF SlotRow
<1>8. f.op = "openOrder"
  BY <1>2, UnsentSlot DEF SlotRow
<1>9. f1 \in SlotRow
  <2>1. "openOrder" \in Op
    BY DEF Op
  <2>2. QED
    BY <2>1, UnsentSlot, FieldTyped
<1> HIDE DEF f1
<1>10. f2 \in SlotRow
  BY <1>9, FieldTyped
<1> HIDE DEF f2
<1>11. f3 \in SlotRow
  <2>1. drawn + 1 \in Nat
    BY <1>2
  <2>2. QED
    BY <2>1, <1>10, FieldTyped, Zenon
<1> HIDE DEF f3
<1>12. f \in SlotRow
  BY <1>11, FieldTyped
<1> HIDE DEF f
<1>13. PICK x \in SlotRow : x = f
  BY <1>12
<1>14. Given(x) /\ Kept(x)'
  BY <1>2, <1>7, <1>8, <1>13 DEF Given, Kept
<1>15. Alone(r, x)
  BY <1>7, <1>8, <1>13, NullAlone
<1>16. QED
  BY <1>4, <1>5, <1>6, <1>13, <1>14, <1>15, SlotStep

----------------------------------------------------------------------------
(* Workshop: requests go on *)

\* The row of a request that goes on.
Moved(f, v) == [f EXCEPT !.phase = v]

LEMMA MovedFields ==
    ASSUME NEW f \in SlotRow, NEW v \in {"read", "staff", "bays", "stored", "vehicle"}
    PROVE  /\ Moved(f, v) \in SlotRow
           /\ Moved(f, v).phase = v
           /\ Moved(f, v).op = f.op
           /\ Moved(f, v).flag = f.flag
           /\ Moved(f, v).row = f.row
           /\ Moved(f, v).name = f.name
           /\ Moved(f, v).title = f.title
           /\ Moved(f, v).code = f.code
           /\ Moved(f, v).photo = f.photo
           /\ Moved(f, v).phone = f.phone
           /\ Moved(f, v).tenant = f.tenant
           /\ Moved(f, v).length = f.length
           /\ Moved(f, v).offered = f.offered
           /\ Moved(f, v).new = f.new
           /\ Moved(f, v).user = f.user
           /\ Moved(f, v).km = f.km
           /\ Moved(f, v).readKm = f.readKm
           /\ Moved(f, v).key = f.key
           /\ Moved(f, v).readKey = f.readKey
           /\ Moved(f, v).format = f.format
<1>1. Moved(f, v) \in SlotRow
  BY FieldTyped, Zenon DEF Moved
<1>2. Moved(f, v).phase = v
  BY DEF Moved, SlotRow
<1>3. /\ Moved(f, v).row = f.row
      /\ Moved(f, v).name = f.name
      /\ Moved(f, v).title = f.title
      /\ Moved(f, v).code = f.code
      /\ Moved(f, v).photo = f.photo
      /\ Moved(f, v).phone = f.phone
      /\ Moved(f, v).tenant = f.tenant
      /\ Moved(f, v).length = f.length
  BY DEF Moved, SlotRow
<1>4. /\ Moved(f, v).offered = f.offered
      /\ Moved(f, v).new = f.new
      /\ Moved(f, v).user = f.user
      /\ Moved(f, v).km = f.km
      /\ Moved(f, v).readKm = f.readKm
      /\ Moved(f, v).key = f.key
      /\ Moved(f, v).readKey = f.readKey
      /\ Moved(f, v).format = f.format
  BY DEF Moved, SlotRow
<1>5. Moved(f, v).op = f.op
  BY DEF Moved, SlotRow
<1>6. Moved(f, v).flag = f.flag
  BY DEF Moved, SlotRow
<1>7. QED
  BY <1>1, <1>2, <1>3, <1>4, <1>5, <1>6

LEMMA MovedGiven ==
    ASSUME NEW f \in SlotRow, NEW v \in {"read", "staff", "bays", "stored", "vehicle"},
           Given(f), f.phase \notin {"unsent", "done"}, f.op # "onboard"
    PROVE  Given(Moved(f, v))
<1> DEFINE g == Moved(f, v)
<1>1. /\ g.op = f.op /\ g.name = f.name /\ g.title = f.title /\ g.code = f.code
      /\ g.photo = f.photo /\ g.phone = f.phone /\ g.tenant = f.tenant /\ g.user = f.user
      /\ g.format = f.format /\ g.offered = f.offered /\ g.flag = f.flag /\ g.km = f.km
      /\ g.readKm = f.readKm /\ g.key = f.key /\ g.readKey = f.readKey
  BY MovedFields
<1> HIDE DEF g
<1>2. Given(g)
  BY <1>1 DEF Given
<1>3. QED
  BY <1>2 DEF g

\* What onboarding has to insert.
LEMMA NewFields ==
    ASSUME NEW f \in SlotRow, NEW v \in SUBSET {"service", "account", "bays"}
    PROVE  /\ [f EXCEPT !.new = v] \in SlotRow
           /\ [f EXCEPT !.new = v].new = v
           /\ [f EXCEPT !.new = v].op = f.op
           /\ [f EXCEPT !.new = v].phase = f.phase
           /\ [f EXCEPT !.new = v].title = f.title
           /\ [f EXCEPT !.new = v].phone = f.phone
           /\ [f EXCEPT !.new = v].photo = f.photo
           /\ [f EXCEPT !.new = v].length = f.length
<1>1. [f EXCEPT !.new = v] \in SlotRow
  BY FieldTyped
<1>2. QED
  BY <1>1 DEF SlotRow

\* A request under way has a row of its own, with what it was given and has read.
LEMMA Known ==
    ASSUME WorkshopIInv, NEW r \in Slots, NEW op, NEW at, At(r, op, at)
    PROVE  /\ request[r] \in SlotRow
           /\ request[r].op = op
           /\ request[r].phase = at
           /\ Given(request[r])
           /\ Kept(request[r])
BY DEF At, WorkshopIInv, WorkshopTypeOK

LEMMA LookStaffKeeps ==
    ASSUME WorkshopIInv, NEW r \in Slots, LookStaff(r)
    PROVE  WorkshopIInv'
<1>1. At(r, "onboard", "read")
  BY DEF LookStaff
<1> DEFINE f == request[r]
           new == IF account[f.phone] = Null THEN f.new \cup {"account"} ELSE f.new
           g == Moved(f, "staff")
           x == [g EXCEPT !.new = new]
<1>2. f \in SlotRow /\ f.op = "onboard" /\ f.phase = "read" /\ Given(f)
  BY <1>1, Known
<1>3. f.new \in SUBSET {"service", "account", "bays"}
  BY <1>2 DEF SlotRow
<1>4. new \in SUBSET {"service", "account", "bays"}
  BY <1>3
<1>5. /\ g \in SlotRow /\ g.op = "onboard" /\ g.phase = "staff"
      /\ g.photo = f.photo /\ g.title = f.title /\ g.phone = f.phone
  BY <1>2, MovedFields
<1>6. f.title \in Titles /\ f.phone \in Phones /\ "bays" \notin new
  BY <1>2 DEF Given
<1>7. request' = [request EXCEPT ![r] = x] /\ UNCHANGED <<setup, orders, office>>
  BY DEF LookStaff, Moved
<1> HIDE DEF g, new
<1>8. /\ x \in SlotRow /\ x.op = "onboard" /\ x.phase = "staff"
      /\ x.photo = f.photo /\ x.title = f.title /\ x.phone = f.phone /\ x.new = new
  BY <1>4, <1>5, NewFields
<1> HIDE DEF x
<1>9. Given(x) /\ Kept(x)
  BY <1>5, <1>6, <1>8 DEF Given, Kept
<1>10. Alone(r, x)
  BY <1>8, SameAlone
<1>11. QED
  BY <1>7, <1>8, <1>9, <1>10, QuietStep

LEMMA LookBaysKeeps ==
    ASSUME WorkshopIInv, NEW r \in Slots, LookBays(r)
    PROVE  WorkshopIInv'
<1>1. At(r, "onboard", "staff")
  BY DEF LookBays
<1> DEFINE f == request[r]
           new == IF Bays = {} THEN f.new \cup {"bays"} ELSE f.new
           g == Moved(f, "bays")
           h == [g EXCEPT !.length = Len(bay)]
           x == [h EXCEPT !.new = new]
<1>2. f \in SlotRow /\ f.op = "onboard" /\ f.phase = "staff" /\ Given(f)
  BY <1>1, Known
<1>3. Len(bay) \in Nat
  BY DEF WorkshopIInv, WorkshopTypeOK
<1>4. new \in SUBSET {"service", "account", "bays"}
  BY <1>2 DEF SlotRow
<1>5. /\ g \in SlotRow /\ g.op = "onboard" /\ g.phase = "bays"
      /\ g.photo = f.photo /\ g.title = f.title /\ g.phone = f.phone
  BY <1>2, MovedFields
<1>6. f.title \in Titles /\ f.phone \in Phones /\ "bays" \notin f.new
  BY <1>2 DEF Given
<1>7. request' = [request EXCEPT ![r] = x] /\ UNCHANGED <<setup, orders, office>>
  BY DEF LookBays, Moved
<1> HIDE DEF g
<1>8. /\ h \in SlotRow /\ h.length = Len(bay) /\ h.op = g.op /\ h.phase = g.phase
      /\ h.photo = g.photo /\ h.title = g.title /\ h.phone = g.phone
  BY <1>3, <1>5 DEF SlotRow
<1> HIDE DEF h
<1>9. "bays" \in new => Bays = {}
  BY <1>6
<1> HIDE DEF new
<1>10. /\ x \in SlotRow /\ x.new = new /\ x.op = h.op /\ x.phase = h.phase
       /\ x.photo = h.photo /\ x.title = h.title /\ x.phone = h.phone
       /\ x.length = h.length
  BY <1>4, <1>8, NewFields
<1> HIDE DEF x
<1>11. /\ x.op = "onboard" /\ x.phase = "bays" /\ x.photo = f.photo
       /\ x.title = f.title /\ x.phone = f.phone /\ x.length = Len(bay)
  BY <1>5, <1>8, <1>10
<1>12. Given(x)
  BY <1>6, <1>11 DEF Given
<1>13. Kept(x)
  BY <1>3, <1>9, <1>10, <1>11 DEF Kept, Emptied
<1>14. Alone(r, x)
  BY <1>11, SameAlone
<1>15. QED
  BY <1>7, <1>10, <1>12, <1>13, <1>14, QuietStep

\* Nothing but the request changes.
LEMMA IdleKeeps ==
    ASSUME WorkshopIInv, NEW r \in Slots, EditPhoto(r) \/ EditNote(r) \/ Fail(r)
    PROVE  WorkshopIInv'
<1>1. End(r) /\ UNCHANGED <<setup, orders, office>>
  BY DEF EditPhoto, EditNote, Fail
<1>2. Tables' /\ Grows(r)
  BY <1>1, QuietTables
<1>3. QED
  BY <1>1, <1>2, EndStep

\* Bays are added at the end and change in their places.
LEMMA BaysStep ==
    ASSUME WorkshopIInv, NEW r \in Slots, End(r),
           bay' \in Seq(BayRow), Len(bay) <= Len(bay'),
           \A i \in 1..Len(bay) : bay'[i].live => bay[i].live,
           UNCHANGED <<booking, photo, emptied, consent, tenant, orders, office>>,
           service' \in Seq(ServiceRow),
           account' \in [Phones -> Tenants \cup {Home, Null}]
    PROVE  WorkshopIInv'
<1>1. Tables
  BY TablesTyped
<1>2. UNCHANGED <<note, closed, drawn, opened, odometer, secret, logo>>
  BY DEF orders, office
<1>3. Tables'
  BY <1>1, <1>2 DEF Tables, PhotosHaveObjects, LogoHasObject, NumbersDiffer
<1>4. \A n \in Nat : Emptied(n) => Emptied(n)'
  <2> SUFFICES ASSUME NEW n \in Nat, Emptied(n)
               PROVE  Emptied(n)'
    OBVIOUS
  <2>1. Len(bay) \in Nat /\ Len(bay') \in Nat /\ n <= Len(bay)
    BY <1>1 DEF Tables, Emptied
  <2>2. ASSUME NEW i \in Bays'
        PROVE  i > n
    <3>1. i \in 1..Len(bay') /\ bay'[i].live
      BY <2>2 DEF Bays
    <3>2. CASE i <= Len(bay)
      <4>1. i \in 1..Len(bay)
        BY <2>1, <3>1, <3>2
      <4>2. i \in Bays
        BY <1>1, <3>1, <4>1 DEF Bays, Tables
      <4>3. QED
        BY <4>2 DEF Emptied
    <3>3. CASE i > Len(bay)
      BY <2>1, <3>1, <3>3
    <3>4. QED
      BY <2>1, <3>1, <3>2, <3>3
  <2>3. QED
    BY <2>1, <2>2 DEF Emptied
<1>5. Len(consent) <= Len(consent') /\ drawn <= drawn' /\ logo.objects \subseteq logo'.objects
  BY <1>1, <1>2 DEF Tables
<1>6. Grows(r)
  BY <1>4, <1>5 DEF Grows
<1>7. QED
  BY <1>3, <1>6, EndStep

LEMMA InsertDefaultsKeeps ==
    ASSUME WorkshopIInv, NEW r \in Slots, InsertDefaults(r)
    PROVE  WorkshopIInv'
<1>1. PICK more : more = Opened(Defaults \ BayNames)
  OBVIOUS
<1>2. more \in Seq(BayRow)
  BY <1>1, OpenedTyped, NamesAssumption
<1>3. bay \in Seq(BayRow) /\ service \in Seq(ServiceRow)
      /\ account \in [Phones -> Tenants \cup {Home, Null}]
  BY DEF WorkshopIInv, WorkshopTypeOK
<1>4. bay' = bay \o more
  BY <1>1 DEF InsertDefaults
<1>5. /\ bay' \in Seq(BayRow) /\ Len(bay) <= Len(bay')
      /\ \A i \in 1..Len(bay) : bay'[i] = bay[i]
  BY <1>2, <1>3, <1>4
<1>6. QED
  BY <1>3, <1>5, BaysStep DEF InsertDefaults

\* The row of a new or an updated bay.
LEMMA BayTyped ==
    ASSUME NEW x \in SlotRow, x.name \in Names
    PROVE  [name |-> x.name, online |-> x.flag, live |-> TRUE] \in BayRow
BY DEF BayRow, SlotRow

LEMMA CreateBayKeeps ==
    ASSUME WorkshopIInv, NEW r \in Slots, CreateBay(r)
    PROVE  WorkshopIInv'
<1>1. request[r] \in SlotRow /\ request[r].name \in Names
  BY Known DEF CreateBay, Given
<1>2. PICK row \in BayRow :
         row = [name |-> request[r].name, online |-> request[r].flag, live |-> TRUE]
  BY <1>1, BayTyped
<1>3. bay \in Seq(BayRow) /\ service \in Seq(ServiceRow)
      /\ account \in [Phones -> Tenants \cup {Home, Null}]
  BY DEF WorkshopIInv, WorkshopTypeOK
<1>4. bay' = Append(bay, row)
  BY <1>2 DEF CreateBay
<1>5. /\ bay' \in Seq(BayRow) /\ Len(bay) <= Len(bay')
      /\ \A i \in 1..Len(bay) : bay'[i] = bay[i]
  BY <1>3, <1>4
<1>6. QED
  BY <1>3, <1>5, BaysStep DEF CreateBay

LEMMA UpdateBayKeeps ==
    ASSUME WorkshopIInv, NEW r \in Slots, UpdateBay(r)
    PROVE  WorkshopIInv'
<1>1. request[r] \in SlotRow /\ request[r].name \in Names
  BY Known DEF UpdateBay, Given
<1>2. PICK row \in BayRow :
         row = [name |-> request[r].name, online |-> request[r].flag, live |-> TRUE]
  BY <1>1, BayTyped
<1>3. bay \in Seq(BayRow) /\ service \in Seq(ServiceRow)
      /\ account \in [Phones -> Tenants \cup {Home, Null}]
  BY DEF WorkshopIInv, WorkshopTypeOK
<1>4. PICK k \in Bays : k = request[r].row
  BY DEF UpdateBay
<1>5. k \in 1..Len(bay) /\ bay[k].live
  BY <1>3 DEF Bays
<1>6. bay' = [bay EXCEPT ![k] = row]
  BY <1>2, <1>4 DEF UpdateBay
<1>7. bay' \in Seq(BayRow) /\ Len(bay') = Len(bay)
  BY <1>2, <1>3, <1>5, <1>6
<1>8. \A i \in 1..Len(bay) : bay'[i].live => bay[i].live
  BY <1>3, <1>5, <1>6
<1>9. Len(bay) <= Len(bay')
  BY <1>3, <1>7
<1>10. QED
  BY <1>3, <1>7, <1>8, <1>9, BaysStep DEF UpdateBay

LEMMA ClosedTyped ==
    ASSUME NEW b \in BayRow
    PROVE  [b EXCEPT !.live = FALSE] \in BayRow /\ ~[b EXCEPT !.live = FALSE].live
BY DEF BayRow

LEMMA DeleteBayKeeps ==
    ASSUME WorkshopIInv, NEW r \in Slots, DeleteBay(r)
    PROVE  WorkshopIInv'
<1>1. bay \in Seq(BayRow) /\ service \in Seq(ServiceRow)
      /\ account \in [Phones -> Tenants \cup {Home, Null}]
  BY DEF WorkshopIInv, WorkshopTypeOK
<1>2. PICK k \in Bays : k = request[r].row
  BY DEF DeleteBay
<1>3. k \in 1..Len(bay)
  BY <1>1 DEF Bays
<1>4. PICK row \in BayRow : row = [bay[k] EXCEPT !.live = FALSE] /\ ~row.live
  <2>1. bay[k] \in BayRow
    BY <1>1, <1>3
  <2>2. QED
    BY <2>1, ClosedTyped
<1>5. bay' = [bay EXCEPT ![k] = row]
  BY <1>2, <1>4 DEF DeleteBay
<1>6. bay' \in Seq(BayRow) /\ Len(bay') = Len(bay)
  BY <1>1, <1>3, <1>5
<1>7. \A i \in 1..Len(bay) : bay'[i].live => bay[i].live
  BY <1>1, <1>3, <1>4, <1>5
<1>8. Len(bay) <= Len(bay')
  BY <1>1, <1>6
<1>9. QED
  BY <1>1, <1>6, <1>7, <1>8, BaysStep DEF DeleteBay

LEMMA ServiceTyped ==
    ASSUME NEW title \in Titles, NEW code \in Codes
    PROVE  NewService(title, code) \in ServiceRow
BY DEF NewService, ServiceRow

LEMMA CommitOnboardingKeeps ==
    ASSUME WorkshopIInv, NEW r \in Slots, CommitOnboarding(r)
    PROVE  WorkshopIInv'
<1>1. request[r].title \in Titles /\ request[r].phone \in Phones
  BY Known DEF CommitOnboarding, Given
<1>2. bay \in Seq(BayRow) /\ service \in Seq(ServiceRow)
      /\ account \in [Phones -> Tenants \cup {Home, Null}]
  BY DEF WorkshopIInv, WorkshopTypeOK
<1>3. PICK row \in ServiceRow : row = NewService(request[r].title, FirstCode)
  BY <1>1, ServiceTyped, CodesAssumption
<1>4. service' \in {service, Append(service, row)}
  BY <1>3 DEF CommitOnboarding
<1>5. service' \in Seq(ServiceRow)
  BY <1>2, <1>4
<1>6. account' \in [Phones -> Tenants \cup {Home, Null}]
  BY <1>1, <1>2 DEF CommitOnboarding
<1>7. PICK more : more = Opened(Lifts)
  OBVIOUS
<1>8. more \in Seq(BayRow)
  BY <1>7, OpenedTyped, NamesAssumption
<1>9. bay' = bay \/ bay' = bay \o more
  BY <1>7 DEF CommitOnboarding
<1>10. /\ bay' \in Seq(BayRow) /\ Len(bay) <= Len(bay')
       /\ \A i \in 1..Len(bay) : bay'[i] = bay[i]
  <2>1. CASE bay' = bay
    BY <1>2, <2>1
  <2>2. CASE bay' = bay \o more
    BY <1>2, <1>8, <2>2
  <2>3. QED
    BY <1>9, <2>1, <2>2
<1>11. QED
  BY <1>5, <1>6, <1>10, BaysStep DEF CommitOnboarding

\* Tables of which no request keeps what it has read.
Others ==
    /\ service \in Seq(ServiceRow)
    /\ booking \in Seq(BookingRow)
    /\ account \in [Phones -> Tenants \cup {Home, Null}]
    /\ tenant \in [Tenants -> TenantRow \cup {Null}]
    /\ note \in Seq(NoteRow)
    /\ closed \in BOOLEAN
    /\ odometer \in Kilometres \cup {0}
    /\ secret \in Secret

LEMMA OthersTyped == WorkshopIInv => Others
BY DEF WorkshopIInv, WorkshopTypeOK, Others

LEMMA OthersStep ==
    ASSUME WorkshopIInv, NEW r \in Slots, End(r), Others',
           UNCHANGED <<bay, photo, emptied, consent, drawn, opened, logo>>
    PROVE  WorkshopIInv'
<1>1. Tables
  BY TablesTyped
<1>2. Tables'
  BY <1>1 DEF Tables, Others, PhotosHaveObjects, LogoHasObject, NumbersDiffer
<1>3. Len(consent) \in Nat /\ drawn \in Nat
  BY <1>1 DEF Tables
<1>4. Grows(r)
  BY <1>3 DEF Grows, Emptied, Bays
<1>5. QED
  BY <1>2, <1>4, EndStep

LEMMA CreateServiceKeeps ==
    ASSUME WorkshopIInv, NEW r \in Slots, CreateService(r)
    PROVE  WorkshopIInv'
<1>1. request[r].title \in Titles /\ Upper[request[r].code] \in Codes
  BY Known, CodesAssumption DEF CreateService, Given
<1>2. PICK row \in ServiceRow : row = NewService(request[r].title, Upper[request[r].code])
  BY <1>1, ServiceTyped
<1>3. service' = Append(service, row)
  BY <1>2 DEF CreateService
<1>4. Others
  BY OthersTyped
<1>5. UNCHANGED <<booking, account, tenant, note, closed, odometer, secret>>
  BY DEF CreateService, orders, office
<1>6. Others'
  BY <1>3, <1>4, <1>5 DEF Others
<1>7. QED
  BY <1>6, OthersStep DEF CreateService, orders, office

LEMMA ServiceEdits ==
    ASSUME NEW s \in ServiceRow, NEW code \in Codes, NEW flag \in BOOLEAN
    PROVE  /\ [[s EXCEPT !.code = code] EXCEPT !.active = flag] \in ServiceRow
           /\ [s EXCEPT !.active = FALSE] \in ServiceRow
           /\ [s EXCEPT !.live = FALSE] \in ServiceRow
<1> DEFINE t == [s EXCEPT !.code = code]
<1>1. t \in ServiceRow
  BY DEF ServiceRow
<1> HIDE DEF t
<1>2. [t EXCEPT !.active = flag] \in ServiceRow
  BY <1>1 DEF ServiceRow
<1>3. [s EXCEPT !.active = FALSE] \in ServiceRow
  BY DEF ServiceRow
<1>4. [s EXCEPT !.live = FALSE] \in ServiceRow
  BY DEF ServiceRow
<1>5. QED
  BY <1>2, <1>3, <1>4 DEF t

LEMMA UpdateServiceKeeps ==
    ASSUME WorkshopIInv, NEW r \in Slots, UpdateService(r)
    PROVE  WorkshopIInv'
<1>1. request[r] \in SlotRow /\ Upper[request[r].code] \in Codes
  BY Known, CodesAssumption DEF UpdateService, Given
<1>2. PICK code \in Codes : code = Upper[request[r].code]
  BY <1>1
<1>3. PICK flag \in BOOLEAN : flag = request[r].flag
  BY <1>1 DEF SlotRow
<1>4. Others
  BY OthersTyped
<1>5. PICK k \in Services : k = request[r].row
  BY DEF UpdateService
<1>6. k \in 1..Len(service) /\ service[k] \in ServiceRow
  BY <1>4, <1>5 DEF Services, Others
<1>7. PICK row \in ServiceRow : row = [[service[k] EXCEPT !.code = code] EXCEPT !.active = flag]
  BY <1>6, ServiceEdits, Zenon
<1>8. service' = [service EXCEPT ![k] = row]
  BY <1>2, <1>3, <1>5, <1>7 DEF UpdateService
<1>9. UNCHANGED <<booking, account, tenant, note, closed, odometer, secret>>
  BY DEF UpdateService, orders, office
<1>10. Others'
  BY <1>4, <1>6, <1>8, <1>9 DEF Others
<1>11. QED
  BY <1>10, OthersStep DEF UpdateService, orders, office

LEMMA DeactivateServiceKeeps ==
    ASSUME WorkshopIInv, NEW r \in Slots, DeactivateService(r)
    PROVE  WorkshopIInv'
<1>1. Others
  BY OthersTyped
<1>2. PICK k \in Services : k = request[r].row
  BY DEF DeactivateService
<1>3. k \in 1..Len(service) /\ service[k] \in ServiceRow
  BY <1>1, <1>2 DEF Services, Others
<1>4. PICK row \in ServiceRow : row = [service[k] EXCEPT !.active = FALSE]
  BY <1>3, ServiceEdits, CodesAssumption, Zenon
<1>5. service' = [service EXCEPT ![k] = row]
  BY <1>2, <1>4 DEF DeactivateService
<1>6. UNCHANGED <<booking, account, tenant, note, closed, odometer, secret>>
  BY DEF DeactivateService, orders, office
<1>7. Others'
  BY <1>1, <1>3, <1>5, <1>6 DEF Others
<1>8. QED
  BY <1>7, OthersStep DEF DeactivateService, orders, office

LEMMA DeleteServiceKeeps ==
    ASSUME WorkshopIInv, NEW r \in Slots, DeleteService(r)
    PROVE  WorkshopIInv'
<1>1. Others
  BY OthersTyped
<1>2. PICK k \in Services : k = request[r].row
  BY DEF DeleteService
<1>3. k \in 1..Len(service) /\ service[k] \in ServiceRow
  BY <1>1, <1>2 DEF Services, Others
<1>4. PICK row \in ServiceRow : row = [service[k] EXCEPT !.live = FALSE]
  BY <1>3, ServiceEdits, CodesAssumption, Zenon
<1>5. service' = [service EXCEPT ![k] = row]
  BY <1>2, <1>4 DEF DeleteService
<1>6. booking' = [j \in DOMAIN booking |->
                    IF booking[j].service = k THEN [booking[j] EXCEPT !.service = 0]
                    ELSE booking[j]]
  BY <1>2 DEF DeleteService
<1>7. \A b \in BookingRow : [b EXCEPT !.service = 0] \in BookingRow
  BY DEF BookingRow
<1>8. booking' \in Seq(BookingRow)
  BY <1>1, <1>6, <1>7 DEF Others
<1>9. UNCHANGED <<account, tenant, note, closed, odometer, secret>>
  BY DEF DeleteService, orders, office
<1>10. Others'
  BY <1>1, <1>3, <1>5, <1>8, <1>9 DEF Others
<1>11. QED
  BY <1>10, OthersStep DEF DeleteService, orders, office

LEMMA BookKeeps ==
    ASSUME WorkshopIInv, NEW r \in Slots, Book(r)
    PROVE  WorkshopIInv'
<1>1. request[r] \in SlotRow /\ request[r].name \in Names /\ request[r].row \in Nat
  BY Known DEF Book, Given, SlotRow
<1>2. PICK row \in BookingRow : row = [bay |-> request[r].name, service |-> request[r].row]
  BY <1>1 DEF BookingRow
<1>3. booking' = Append(booking, row)
  BY <1>2 DEF Book
<1>4. Others
  BY OthersTyped
<1>5. UNCHANGED <<service, account, tenant, note, closed, odometer, secret>>
  BY DEF Book, orders, office
<1>6. Others'
  BY <1>3, <1>4, <1>5 DEF Others
<1>7. QED
  BY <1>6, OthersStep DEF Book, orders, office

LEMMA FoundKeeps ==
    ASSUME WorkshopIInv, NEW r \in Slots, Found(r)
    PROVE  WorkshopIInv'
<1>1. /\ request[r] \in SlotRow /\ request[r].row \in Nat
      /\ request[r].tenant \in Tenants /\ request[r].phone \in Phones
  BY Known DEF Found, Given, SlotRow
<1>2. PICK row \in TenantRow : row = [slug |-> request[r].row, signed |-> FALSE]
  BY <1>1 DEF TenantRow
<1>3. tenant' = [tenant EXCEPT ![request[r].tenant] = row]
  BY <1>2 DEF Found
<1>4. Others
  BY OthersTyped
<1>5. tenant' \in [Tenants -> TenantRow \cup {Null}]
  BY <1>1, <1>3, <1>4 DEF Others
<1>6. account' \in [Phones -> Tenants \cup {Home, Null}]
  BY <1>1, <1>4 DEF Others, Found
<1>7. UNCHANGED <<service, booking, note, closed, odometer, secret>>
  BY DEF Found, orders, office
<1>8. Others'
  BY <1>4, <1>5, <1>6, <1>7 DEF Others
<1>9. QED
  BY <1>8, OthersStep DEF Found, orders, office

LEMMA DropKeeps ==
    ASSUME WorkshopIInv, NEW r \in Slots, Drop(r)
    PROVE  WorkshopIInv'
<1>1. Others
  BY OthersTyped
<1>2. tenant' \in [Tenants -> TenantRow \cup {Null}]
  BY <1>1 DEF Others, Drop
<1>3. account' \in [Phones -> Tenants \cup {Home, Null}]
  BY <1>1 DEF Others, Drop
<1>4. UNCHANGED <<service, booking, note, closed, odometer, secret>>
  BY DEF Drop, orders, office
<1>5. Others'
  BY <1>1, <1>2, <1>3, <1>4 DEF Others
<1>6. QED
  BY <1>5, OthersStep DEF Drop, orders, office

LEMMA AddNoteKeeps ==
    ASSUME WorkshopIInv, NEW r \in Slots, AddNote(r)
    PROVE  WorkshopIInv'
<1>1. request[r].user \in Staff
  BY Known DEF AddNote, Given
<1>2. PICK row \in NoteRow : row = NewNote(request[r].user)
  BY <1>1 DEF NewNote, NoteRow
<1>3. note' = Append(note, row)
  BY <1>2 DEF AddNote
<1>4. Others
  BY OthersTyped
<1>5. UNCHANGED <<service, booking, account, tenant, closed, odometer, secret>>
  BY DEF AddNote, setup, office
<1>6. Others'
  BY <1>3, <1>4, <1>5 DEF Others
<1>7. QED
  BY <1>6, OthersStep DEF AddNote, setup, office

LEMMA DeleteNoteKeeps ==
    ASSUME WorkshopIInv, NEW r \in Slots, DeleteNote(r)
    PROVE  WorkshopIInv'
<1>1. Others
  BY OthersTyped
<1>2. PICK k \in Notes : k = request[r].row
  BY DEF DeleteNote, NoteStillThere
<1>3. k \in 1..Len(note) /\ note[k] \in NoteRow
  BY <1>1, <1>2 DEF Notes, Others
<1>4. \A n \in NoteRow : [n EXCEPT !.live = FALSE] \in NoteRow
  BY DEF NoteRow
<1>5. PICK row \in NoteRow : row = [note[k] EXCEPT !.live = FALSE]
  BY <1>3, <1>4
<1>6. note' = [note EXCEPT ![k] = row]
  BY <1>2, <1>5 DEF DeleteNote, WithoutNote
<1>7. UNCHANGED <<service, booking, account, tenant, closed, odometer, secret>>
  BY DEF DeleteNote, setup, office
<1>8. Others'
  BY <1>1, <1>3, <1>6, <1>7 DEF Others
<1>9. QED
  BY <1>8, OthersStep DEF DeleteNote, setup, office

LEMMA EditVehicleKeeps ==
    ASSUME WorkshopIInv, NEW r \in Slots, EditVehicle(r)
    PROVE  WorkshopIInv'
<1>1. request[r].km \in Kilometres \cup {0}
  BY DEF WorkshopIInv, WorkshopTypeOK, SlotRow
<1>2. Others
  BY OthersTyped
<1>3. UNCHANGED <<service, booking, account, tenant, note, closed, secret>>
  BY DEF EditVehicle, setup, office
<1>4. Others'
  BY <1>1, <1>2, <1>3 DEF Others, EditVehicle
<1>5. QED
  BY <1>4, OthersStep DEF EditVehicle, setup, office

LEMMA ImportVehicleKeeps ==
    ASSUME WorkshopIInv, NEW r \in Slots, ImportVehicle(r)
    PROVE  WorkshopIInv'
<1>1. request[r].km \in Kilometres \cup {0}
  BY DEF WorkshopIInv, WorkshopTypeOK, SlotRow
<1>2. Others
  BY OthersTyped
<1>3. UNCHANGED <<service, booking, account, tenant, note, closed, secret>>
  BY DEF ImportVehicle, setup, office
<1>4. Others'
  BY <1>1, <1>2, <1>3 DEF Others, ImportVehicle
<1>5. QED
  BY <1>4, OthersStep DEF ImportVehicle, setup, office

LEMMA WriteSettingsKeeps ==
    ASSUME WorkshopIInv, NEW r \in Slots, WriteSettings(r)
    PROVE  WorkshopIInv'
<1>1. request[r].key \in Secret
  BY DEF WorkshopIInv, WorkshopTypeOK, SlotRow
<1>2. Others
  BY OthersTyped
<1>3. UNCHANGED <<service, booking, account, tenant, note, closed, odometer>>
  BY DEF WriteSettings, setup, orders
<1>4. secret' \in Secret
  BY <1>1, <1>2 DEF Others, WriteSettings, Stores
<1>5. Others'
  BY <1>2, <1>3, <1>4 DEF Others
<1>6. QED
  BY <1>5, OthersStep DEF WriteSettings, setup, orders

\* A step writes the photo of its own request.
LEMMA PhotoOnly ==
    ASSUME WorkshopIInv, NEW r \in Slots, NEW row, row \in PhotoRow,
           request[r].photo \in Photos,
           photo' = [photo EXCEPT ![request[r].photo] = row],
           emptied \subseteq emptied', emptied' \subseteq Photos,
           row.row => row.object \/ request[r].photo \in emptied',
           UNCHANGED <<bay, service, booking, consent, account, tenant, orders, office>>
    PROVE  Tables' /\ Grows(r)
<1>1. Tables
  BY TablesTyped
<1>2. UNCHANGED <<note, closed, drawn, opened, odometer, secret, logo>>
  BY DEF orders, office
<1>3. photo' \in [Photos -> PhotoRow] /\ photo'[request[r].photo] = row
  BY <1>1 DEF Tables
<1>4. \A p \in Photos \ {request[r].photo} : photo'[p] = photo[p]
  BY <1>1 DEF Tables
<1>5. PhotosHaveObjects'
  BY <1>1, <1>3, <1>4 DEF Tables, PhotosHaveObjects
<1>6. Tables'
  BY <1>1, <1>2, <1>3, <1>5 DEF Tables, LogoHasObject, NumbersDiffer
<1>7. \A q \in Slots \ {r} : Uploading(q) => request[q].photo \in Photos \ {request[r].photo}
  BY DEF Uploading, WorkshopIInv, Given, UploadsAlone
<1>8. Len(consent) \in Nat /\ drawn \in Nat
  BY <1>1 DEF Tables
<1>9. Grows(r)
  BY <1>2, <1>4, <1>7, <1>8 DEF Grows, Emptied, Bays
<1>10. QED
  BY <1>6, <1>9

LEMMA ObjectStored ==
    ASSUME NEW x \in PhotoRow
    PROVE  /\ [x EXCEPT !.object = TRUE] \in PhotoRow
           /\ [x EXCEPT !.object = TRUE].object
           /\ [x EXCEPT !.object = TRUE].row = x.row
<1>1. [x EXCEPT !.object = TRUE] \in PhotoRow
  BY DEF PhotoRow
<1>2. [x EXCEPT !.object = TRUE].object
  BY DEF PhotoRow
<1>3. [x EXCEPT !.object = TRUE].row = x.row
  BY DEF PhotoRow
<1>4. QED
  BY <1>1, <1>2, <1>3

LEMMA ObjectGone ==
    ASSUME NEW x \in PhotoRow
    PROVE  [x EXCEPT !.object = FALSE] \in PhotoRow
BY DEF PhotoRow

LEMMA ObjectLeft ==
    ASSUME NEW x \in PhotoRow, NEW removed \in BOOLEAN, ~removed
    PROVE  [x EXCEPT !.object = @ /\ ~removed] = x
BY DEF PhotoRow

LEMMA RowInserted ==
    ASSUME NEW x \in PhotoRow
    PROVE  /\ [x EXCEPT !.row = TRUE] \in PhotoRow
           /\ [x EXCEPT !.row = TRUE].object = x.object
<1>1. [x EXCEPT !.row = TRUE] \in PhotoRow
  BY DEF PhotoRow
<1>2. [x EXCEPT !.row = TRUE].object = x.object
  BY DEF PhotoRow
<1>3. QED
  BY <1>1, <1>2

LEMMA RowGone ==
    ASSUME NEW x \in PhotoRow
    PROVE  /\ [x EXCEPT !.row = FALSE] \in PhotoRow
           /\ ~[x EXCEPT !.row = FALSE].row
<1>1. [x EXCEPT !.row = FALSE] \in PhotoRow
  BY DEF PhotoRow
<1>2. ~[x EXCEPT !.row = FALSE].row
  BY DEF PhotoRow
<1>3. QED
  BY <1>1, <1>2

LEMMA PutObjectKeeps ==
    ASSUME WorkshopIInv, NEW r \in Slots, PutObject(r)
    PROVE  WorkshopIInv'
<1> DEFINE f == request[r]
           g == Moved(f, "stored")
           row == [photo[f.photo] EXCEPT !.object = TRUE]
<1>1. /\ f \in SlotRow /\ f.op = "upload" /\ f.phase = "read" /\ Given(f) /\ Kept(f)
      /\ f.photo \in Photos
  BY Known DEF PutObject, Given
<1>2. photo[f.photo] \in PhotoRow /\ emptied \subseteq Photos
  BY <1>1 DEF WorkshopIInv, WorkshopTypeOK
<1>3. row \in PhotoRow /\ row.object /\ row.row = photo[f.photo].row
  BY <1>2, ObjectStored
<1>4. photo' = [photo EXCEPT ![f.photo] = row]
  BY DEF PutObject
<1> HIDE DEF row
<1>5. /\ UNCHANGED <<bay, service, booking, consent, account, tenant, orders, office>>
      /\ emptied' = emptied
  BY DEF PutObject
<1>6. Tables' /\ Grows(r)
  BY <1>1, <1>2, <1>3, <1>4, <1>5, PhotoOnly
<1>7. PICK x \in SlotRow : x = g
  BY <1>1, MovedFields
<1>8. /\ x.op = "upload" /\ x.phase = "stored" /\ x.photo = f.photo
  BY <1>1, <1>7, MovedFields
<1>9. request' = [request EXCEPT ![r] = x]
  BY <1>7 DEF PutObject, Go, Moved
<1>10. Given(x)
  BY <1>1, <1>7, MovedGiven
<1>11. PICK p \in Photos : p = f.photo
  BY <1>1
<1>12. photo'[p].object /\ ~photo'[p].row /\ x.photo = p
  <2>1. photo'[p] = row
    BY <1>4, <1>11 DEF WorkshopIInv, WorkshopTypeOK
  <2>2. ~photo[p].row
    BY <1>1, <1>11 DEF Kept
  <2>3. QED
    BY <1>3, <1>8, <1>11, <2>1, <2>2
<1>13. Kept(x)'
  BY <1>8, <1>12 DEF Kept
<1>14. Alone(r, x)
  BY <1>1, <1>8, SameAlone DEF Uploading
<1>15. QED
  BY <1>6, <1>9, <1>10, <1>13, <1>14, SlotStep

LEMMA InsertPhotoKeeps ==
    ASSUME WorkshopIInv, NEW r \in Slots, InsertPhoto(r)
    PROVE  WorkshopIInv'
<1> DEFINE f == request[r]
           row == [photo[f.photo] EXCEPT !.row = TRUE]
<1>1. f.photo \in Photos /\ photo[f.photo].object
  BY Known DEF InsertPhoto, Stored, Given, Kept
<1>2. photo[f.photo] \in PhotoRow /\ emptied \subseteq Photos
  BY <1>1 DEF WorkshopIInv, WorkshopTypeOK
<1>3. row \in PhotoRow /\ row.object = photo[f.photo].object
  BY <1>2, RowInserted
<1>4. photo' = [photo EXCEPT ![f.photo] = row]
  BY DEF InsertPhoto
<1> HIDE DEF row
<1>5. /\ UNCHANGED <<bay, service, booking, consent, account, tenant, orders, office>>
      /\ emptied' = emptied
  BY DEF InsertPhoto
<1>6. Tables' /\ Grows(r)
  BY <1>1, <1>2, <1>3, <1>4, <1>5, PhotoOnly
<1>7. QED
  BY <1>6, EndStep DEF InsertPhoto

LEMMA RemovePhotoKeeps ==
    ASSUME WorkshopIInv, NEW r \in Slots, RemovePhoto(r)
    PROVE  WorkshopIInv'
<1> DEFINE f == request[r]
           row == [photo[f.photo] EXCEPT !.row = FALSE]
<1>1. f.photo \in Photos
  BY Known DEF RemovePhoto, Given
<1>2. photo[f.photo] \in PhotoRow /\ emptied \subseteq Photos
  BY <1>1 DEF WorkshopIInv, WorkshopTypeOK
<1>3. row \in PhotoRow /\ ~row.row
  BY <1>2, RowGone
<1>4. photo' = [photo EXCEPT ![f.photo] = row]
  BY DEF RemovePhoto
<1> HIDE DEF row
<1>5. /\ UNCHANGED <<bay, service, booking, consent, account, tenant, orders, office>>
      /\ emptied' = emptied
  BY DEF RemovePhoto
<1>6. Tables' /\ Grows(r)
  BY <1>1, <1>2, <1>3, <1>4, <1>5, PhotoOnly
<1>7. QED
  BY <1>6, EndStep DEF RemovePhoto

LEMMA RemoveObjectKeeps ==
    ASSUME WorkshopIInv, NEW r \in Slots, RemoveObject(r)
    PROVE  WorkshopIInv'
<1> DEFINE f == request[r]
           g == Moved(f, "stored")
<1>1. /\ f \in SlotRow /\ f.op = "deletePhoto" /\ f.phase = "read" /\ Given(f)
      /\ f.photo \in Photos
  BY Known DEF RemoveObject, Given
<1>2. photo[f.photo] \in PhotoRow /\ emptied \subseteq Photos
  BY <1>1 DEF WorkshopIInv, WorkshopTypeOK
<1>3. PICK removed \in BOOLEAN :
         /\ photo' = [photo EXCEPT ![f.photo].object = @ /\ ~removed]
         /\ emptied' = IF removed THEN emptied \cup {f.photo} ELSE emptied
  BY Zenon DEF RemoveObject
<1>4. photo \in [Photos -> PhotoRow]
  BY DEF WorkshopIInv, WorkshopTypeOK
<1>5. PICK row \in PhotoRow : /\ photo' = [photo EXCEPT ![f.photo] = row]
                              /\ row = photo[f.photo] \/ f.photo \in emptied'
  <2>1. CASE removed
    <3>1. photo' = [photo EXCEPT ![f.photo] = [photo[f.photo] EXCEPT !.object = FALSE]]
      BY <1>1, <1>3, <1>4, <2>1
    <3>2. QED
      BY <1>2, <1>3, <2>1, <3>1, ObjectGone
  <2>2. CASE ~removed
    <3>1. [photo[f.photo] EXCEPT !.object = @ /\ ~removed] = photo[f.photo]
      BY <1>2, <2>2, ObjectLeft
    <3>2. photo' = [photo EXCEPT ![f.photo] = [photo[f.photo] EXCEPT !.object = @ /\ ~removed]]
      BY <1>3
    <3>3. photo' = [photo EXCEPT ![f.photo] = photo[f.photo]]
      BY <3>1, <3>2, Zenon
    <3>4. QED
      BY <1>2, <3>3
  <2>3. QED
    BY <2>1, <2>2
<1>6. emptied \subseteq emptied' /\ emptied' \subseteq Photos
  BY <1>1, <1>2, <1>3
<1>7. row.row => row.object \/ f.photo \in emptied'
  BY <1>1, <1>5, <1>6 DEF WorkshopIInv, PhotosHaveObjects
<1>8. UNCHANGED <<bay, service, booking, consent, account, tenant, orders, office>>
  BY DEF RemoveObject
<1>9. Tables' /\ Grows(r)
  BY <1>1, <1>5, <1>6, <1>7, <1>8, PhotoOnly
<1>10. PICK x \in SlotRow : x = g
  BY <1>1, MovedFields
<1>11. x.op = "deletePhoto" /\ x.phase = "stored" /\ x.photo = f.photo
  BY <1>1, <1>10, MovedFields
<1>12. request' = [request EXCEPT ![r] = x]
  BY <1>10 DEF RemoveObject, Go, Moved
<1>13. Given(x)
  BY <1>1, <1>10, MovedGiven
<1>14. Kept(x)'
  BY <1>11 DEF Kept
<1>15. Alone(r, x)
  BY <1>11, SameAlone
<1>16. QED
  BY <1>9, <1>12, <1>13, <1>14, <1>15, SlotStep

LEMMA WriteMarketingKeeps ==
    ASSUME WorkshopIInv, NEW r \in Slots, WriteMarketing(r)
    PROVE  WorkshopIInv'
<1>1. Tables
  BY TablesTyped
<1>2. request[r] \in SlotRow /\ request[r].row <= Len(consent) /\ request[r].row \in Nat
  BY Known DEF WriteMarketing, Kept, SlotRow
<1>3. PICK flag \in BOOLEAN : flag = request[r].flag
  BY <1>2 DEF SlotRow
<1>4. consent' = Preferred(consent, request[r].row, flag)
  BY <1>3 DEF WriteMarketing
<1>5. consent' \in Seq(BOOLEAN) /\ Len(consent) <= Len(consent')
  <2>1. CASE request[r].row = 0
    BY <1>1, <1>4, <2>1 DEF Preferred, Tables
  <2>2. CASE request[r].row # 0
    <3>1. request[r].row \in 1..Len(consent)
      BY <1>1, <1>2, <2>2 DEF Tables
    <3>2. consent' = [consent EXCEPT ![request[r].row] = flag]
      BY <1>4, <2>2 DEF Preferred
    <3>3. QED
      BY <1>1, <3>1, <3>2 DEF Tables
  <2>3. QED
    BY <2>1, <2>2
<1>6. /\ UNCHANGED <<bay, service, booking, photo, emptied, account, tenant>>
      /\ UNCHANGED <<note, closed, drawn, opened, odometer, secret, logo>>
  BY DEF WriteMarketing, orders, office
<1>7. Tables'
  BY <1>1, <1>5, <1>6 DEF Tables, PhotosHaveObjects, LogoHasObject, NumbersDiffer
<1>8. Grows(r)
  BY <1>1, <1>5, <1>6 DEF Grows, Emptied, Bays, Tables
<1>9. QED
  BY <1>7, <1>8, EndStep DEF WriteMarketing

LEMMA ReadVehicleKeeps ==
    ASSUME WorkshopIInv, NEW r \in Slots, ReadVehicle(r)
    PROVE  WorkshopIInv'
<1> DEFINE f == request[r]
           g == Moved(f, "vehicle")
           x == [g EXCEPT !.readKm = odometer]
<1>1. /\ f \in SlotRow /\ f.op = "openOrder" /\ f.phase = "read" /\ Given(f) /\ Kept(f)
      /\ odometer \in Kilometres \cup {0}
  BY Known DEF ReadVehicle, WorkshopIInv, WorkshopTypeOK
<1>2. /\ g \in SlotRow /\ g.op = "openOrder" /\ g.phase = "vehicle"
      /\ g.photo = f.photo /\ g.row = f.row
  BY <1>1, MovedFields
<1>3. request' = [request EXCEPT ![r] = x] /\ UNCHANGED <<setup, orders, office>>
  BY DEF ReadVehicle, Moved
<1> HIDE DEF g
<1>4. x \in SlotRow
  BY <1>1, <1>2, FieldTyped
<1>5. x.op = g.op /\ x.phase = g.phase /\ x.photo = g.photo /\ x.row = g.row
  BY <1>2 DEF SlotRow
<1> HIDE DEF x
<1>6. Given(x) /\ Kept(x)
  BY <1>1, <1>2, <1>5 DEF Given, Kept
<1>7. Alone(r, x)
  BY <1>2, <1>5, SameAlone
<1>8. QED
  BY <1>3, <1>4, <1>6, <1>7, QuietStep

\* The number is one that no order has.
LEMMA OpenOrderKeeps ==
    ASSUME WorkshopIInv, NEW r \in Slots, OpenOrder(r)
    PROVE  WorkshopIInv'
<1>1. Tables
  BY TablesTyped
<1>2. request[r].row \in 1..drawn /\ request[r].km \in Kilometres \cup {0}
  BY Known DEF OpenOrder, Kept, SlotRow
<1>3. PICK n \in 1..drawn : n = request[r].row
  BY <1>2
<1>4. opened' = Append(opened, n) /\ \A i \in DOMAIN opened : opened[i] # n
  BY <1>3 DEF OpenOrder
<1>5. odometer' \in Kilometres \cup {0}
  BY <1>1, <1>2 DEF OpenOrder, Tables
<1>6. /\ UNCHANGED <<bay, service, booking, photo, emptied, consent, account, tenant>>
      /\ UNCHANGED <<note, closed, drawn, secret, logo>>
  BY DEF OpenOrder, setup, office
<1>7. opened' \in Seq(1..drawn') /\ NumbersDiffer'
  <2> DEFINE S == 1..drawn
  <2>1. opened \in Seq(S) /\ n \in S /\ NumbersDiffer
    BY <1>1 DEF Tables
  <2> HIDE DEF S
  <2>2. opened' \in Seq(S)
    BY <1>4, <2>1
  <2>3. NumbersDiffer'
    <3>1. Len(opened) \in Nat /\ DOMAIN opened = 1..Len(opened)
      BY <2>1
    <3>2. /\ DOMAIN opened' = 1..(Len(opened) + 1)
          /\ \A i \in 1..Len(opened) : opened'[i] = opened[i]
          /\ opened'[Len(opened) + 1] = n
      BY <1>4, <2>1
    <3>3. SUFFICES ASSUME NEW i \in DOMAIN opened', NEW j \in DOMAIN opened',
                          opened'[i] = opened'[j]
                   PROVE  i = j
      BY DEF NumbersDiffer
    <3>4. CASE i = Len(opened) + 1 \/ j = Len(opened) + 1
      BY <1>4, <3>1, <3>2, <3>3, <3>4
    <3>5. CASE i # Len(opened) + 1 /\ j # Len(opened) + 1
      <4>1. i \in 1..Len(opened) /\ j \in 1..Len(opened)
        BY <3>1, <3>2, <3>5
      <4>2. QED
        BY <2>1, <3>1, <3>2, <3>3, <4>1 DEF NumbersDiffer
    <3>6. QED
      BY <3>4, <3>5
  <2>4. QED
    BY <1>6, <2>2, <2>3 DEF S
<1>8. Tables'
  BY <1>1, <1>5, <1>6, <1>7 DEF Tables, PhotosHaveObjects, LogoHasObject
<1>9. Grows(r)
  BY <1>1, <1>6 DEF Grows, Emptied, Bays, Tables
<1>10. QED
  BY <1>8, <1>9, EndStep DEF OpenOrder

LEMMA PutLogoKeeps ==
    ASSUME WorkshopIInv, NEW r \in Slots, PutLogo(r)
    PROVE  WorkshopIInv'
<1> DEFINE f == request[r]
           g == Moved(f, "stored")
<1>1. Tables
  BY TablesTyped
<1>2. /\ f \in SlotRow /\ f.op = "logo" /\ f.phase = "read" /\ Given(f)
      /\ f.format \in Formats
  BY Known DEF PutLogo, Given
<1>3. PICK x \in SlotRow : x = g
  BY <1>2, MovedFields
<1>4. x.op = "logo" /\ x.phase = "stored" /\ x.photo = f.photo /\ x.format = f.format
  BY <1>2, <1>3, MovedFields
<1>5. request' = [request EXCEPT ![r] = x]
  BY <1>3 DEF PutLogo, Go, Moved
<1>6. /\ logo' = [logo EXCEPT !.objects = @ \cup {x.format}]
      /\ x.format \in Formats
  BY <1>2, <1>4 DEF PutLogo
<1>7. /\ logo' \in Logo /\ logo'.row = logo.row /\ logo'.typed = logo.typed
      /\ logo'.objects = logo.objects \cup {x.format}
  BY <1>1, <1>6 DEF Tables, Logo
<1>8. /\ UNCHANGED <<bay, service, booking, photo, emptied, consent, account, tenant>>
      /\ UNCHANGED <<note, closed, drawn, opened, odometer, secret>>
  BY DEF PutLogo, setup, orders
<1>9. LogoHasObject'
  BY <1>1, <1>7 DEF Tables, LogoHasObject
<1>10. Tables'
  BY <1>1, <1>7, <1>8, <1>9 DEF Tables, PhotosHaveObjects, NumbersDiffer
<1>11. Grows(r)
  BY <1>1, <1>7, <1>8 DEF Grows, Emptied, Bays, Tables
<1>12. Given(x)
  BY <1>2, <1>3, MovedGiven
<1>13. Kept(x)'
  BY <1>4, <1>7 DEF Kept
<1>14. Alone(r, x)
  BY <1>4, SameAlone
<1>15. QED
  BY <1>5, <1>10, <1>11, <1>12, <1>13, <1>14, SlotStep

LEMMA LinkLogoKeeps ==
    ASSUME WorkshopIInv, NEW r \in Slots, LinkLogo(r)
    PROVE  WorkshopIInv'
<1>1. Tables
  BY TablesTyped
<1>2. request[r].format \in Formats /\ request[r].format \in logo.objects
  BY Known DEF LinkLogo, Given, Kept
<1>3. logo' \in Logo /\ logo'.row = request[r].format /\ logo'.objects = logo.objects
  BY <1>1, <1>2 DEF Tables, Logo, LinkLogo
<1>4. /\ UNCHANGED <<bay, service, booking, photo, emptied, consent, account, tenant>>
      /\ UNCHANGED <<note, closed, drawn, opened, odometer, secret>>
  BY DEF LinkLogo, setup, orders
<1>5. LogoHasObject'
  BY <1>2, <1>3 DEF LogoHasObject
<1>6. Tables'
  BY <1>1, <1>3, <1>4, <1>5 DEF Tables, PhotosHaveObjects, NumbersDiffer
<1>7. Grows(r)
  BY <1>1, <1>3, <1>4 DEF Grows, Emptied, Bays, Tables
<1>8. QED
  BY <1>6, <1>7, EndStep DEF LinkLogo

LEMMA UpdateProfileKeeps ==
    ASSUME WorkshopIInv, NEW r \in Slots, NEW link \in Formats \cup {Elsewhere, Null},
           UpdateProfile(r, link)
    PROVE  WorkshopIInv'
<1>1. Tables
  BY TablesTyped
<1>2. logo' \in Logo /\ logo'.typed = TRUE /\ logo'.objects = logo.objects
  BY <1>1 DEF Tables, Logo, UpdateProfile
<1>3. /\ UNCHANGED <<bay, service, booking, photo, emptied, consent, account, tenant>>
      /\ UNCHANGED <<note, closed, drawn, opened, odometer, secret>>
  BY DEF UpdateProfile, setup, orders
<1>4. LogoHasObject'
  BY <1>2 DEF LogoHasObject
<1>5. Tables'
  BY <1>1, <1>2, <1>3, <1>4 DEF Tables, PhotosHaveObjects, NumbersDiffer
<1>6. Grows(r)
  BY <1>1, <1>2, <1>3 DEF Grows, Emptied, Bays, Tables
<1>7. QED
  BY <1>5, <1>6, EndStep DEF UpdateProfile

LEMMA SignElsewhereKeeps ==
    ASSUME WorkshopIInv, NEW t \in Tenants, SignElsewhere(t)
    PROVE  WorkshopIInv'
<1>1. Tables
  BY TablesTyped
<1>2. \A row \in TenantRow : [row EXCEPT !.signed = TRUE] \in TenantRow
  BY DEF TenantRow
<1>3. tenant[t] \in TenantRow
  BY <1>1 DEF SignElsewhere, Made, Tables
<1>4. tenant' = [tenant EXCEPT ![t] = [tenant[t] EXCEPT !.signed = TRUE]]
  BY DEF SignElsewhere
<1>5. tenant' \in [Tenants -> TenantRow \cup {Null}]
  BY <1>1, <1>2, <1>3, <1>4 DEF Tables
<1>6. UNCHANGED <<bay, service, booking, photo, emptied, consent, account, request>>
  BY DEF SignElsewhere
<1>7. UNCHANGED <<note, closed, drawn, opened, odometer, secret, logo>>
  BY DEF SignElsewhere, orders, office
<1>8. WorkshopTypeOK' /\ PhotosHaveObjects' /\ LogoHasObject' /\ NumbersDiffer'
  BY <1>1, <1>5, <1>6, <1>7 DEF WorkshopIInv, WorkshopTypeOK, PhotosHaveObjects, LogoHasObject,
     NumbersDiffer
<1>9. \A r \in Slots : Given(request[r])' /\ Kept(request[r])'
  BY <1>6, <1>7 DEF WorkshopIInv, Given, Kept, Emptied, Bays
<1>10. UploadsAlone'
  BY <1>6 DEF WorkshopIInv, UploadsAlone, Uploading
<1>11. QED
  BY <1>8, <1>9, <1>10 DEF WorkshopIInv

----------------------------------------------------------------------------
(* Workshop: every step *)

LEMMA StartKeeps ==
    ASSUME WorkshopIInv, NEW r \in Slots, Start(r)
    PROVE  WorkshopIInv'
<1>1. CASE StartView(r)
  BY <1>1, StartViewKeeps
<1>2. CASE \E n \in Names, flag \in BOOLEAN : StartCreateBay(r, n, flag)
  BY <1>2, StartCreateBayKeeps
<1>3. CASE \E i \in Bays, n \in Names, flag \in BOOLEAN : StartUpdateBay(r, i, n, flag)
  BY <1>3, StartUpdateBayKeeps
<1>4. CASE \E i \in Bays : StartDeleteBay(r, i)
  BY <1>4, StartDeleteBayKeeps
<1>5. CASE \E title \in Titles, p \in Phones : StartOnboard(r, title, p)
  BY <1>5, StartOnboardKeeps
<1>6. CASE \E title \in Titles, code \in Codes : StartCreateService(r, title, code)
  BY <1>6, StartCreateServiceKeeps
<1>7. CASE \E i \in Services, code \in Codes, flag \in BOOLEAN :
              StartUpdateService(r, i, code, flag)
  BY <1>7, StartUpdateServiceKeeps
<1>8. CASE \E i \in Services : StartRemoveService(r, i)
  BY <1>8, StartRemoveServiceKeeps
<1>9. CASE \E i \in Services \cup {0} : StartBook(r, i)
  BY <1>9, StartBookKeeps
<1>10. CASE \E p \in Photos : StartUpload(r, p)
  BY <1>10, StartUploadKeeps
<1>11. CASE \E p \in Photos, op \in {"editPhoto", "deletePhoto"} : StartPhoto(r, op, p)
  BY <1>11, StartPhotoKeeps
<1>12. CASE \E flag \in BOOLEAN : StartMarketing(r, flag) \/ Sign(r, flag)
  BY <1>12, StartMarketingKeeps, SignKeeps
<1>13. CASE \E t \in Tenants, p \in Phones : StartFound(r, t, p)
  BY <1>13, StartFoundKeeps
<1>14. CASE \E t \in Tenants : StartDrop(r, t)
  BY <1>14, StartDropKeeps
<1>15. CASE \E u \in Staff : StartNote(r, u)
  BY <1>15, StartNoteKeeps
<1>16. CASE CancelOrder(r)
  BY <1>16, CancelOrderKeeps
<1>17. CASE \E i \in Notes, u \in Staff : StartEditNote(r, i, u) \/ StartDeleteNote(r, i, u)
  BY <1>17, StartEditNoteKeeps, StartDeleteNoteKeeps
<1>18. CASE \E km \in Kilometres \cup {0} : DrawNumber(r, km)
  BY <1>18, DrawNumberKeeps
<1>19. CASE \E km \in Kilometres, flag \in BOOLEAN : StartEditVehicle(r, km, flag)
  BY <1>19, StartEditVehicleKeeps
<1>20. CASE \E key \in Secret, flag \in BOOLEAN : StartSettings(r, key, flag)
  BY <1>20, StartSettingsKeeps
<1>21. CASE \E x \in Formats : StartLogo(r, x)
  BY <1>21, StartLogoKeeps
<1>22. CASE \E km \in Kilometres : StartImportVehicle(r, km)
  BY <1>22, StartImportVehicleKeeps
<1>23. CASE \E link \in Formats \cup {Elsewhere, Null} : UpdateProfile(r, link)
  BY <1>23, UpdateProfileKeeps
<1>24. QED
  BY <1>1, <1>2, <1>3, <1>4, <1>5, <1>6, <1>7, <1>8, <1>9, <1>10, <1>11, <1>12, <1>13, <1>14,
     <1>15, <1>16, <1>17, <1>18, <1>19, <1>20, <1>21, <1>22, <1>23, Zenon DEF Start

LEMMA WriteKeeps ==
    ASSUME WorkshopIInv, NEW r \in Slots, Write(r)
    PROVE  WorkshopIInv'
<1>1. CASE InsertDefaults(r) \/ CreateBay(r) \/ UpdateBay(r) \/ DeleteBay(r)
  BY <1>1, InsertDefaultsKeeps, CreateBayKeeps, UpdateBayKeeps, DeleteBayKeeps
<1>2. CASE LookStaff(r) \/ LookBays(r) \/ CommitOnboarding(r)
  BY <1>2, LookStaffKeeps, LookBaysKeeps, CommitOnboardingKeeps
<1>3. CASE CreateService(r) \/ UpdateService(r) \/ DeactivateService(r) \/ DeleteService(r)
  BY <1>3, CreateServiceKeeps, UpdateServiceKeeps, DeactivateServiceKeeps, DeleteServiceKeeps
<1>4. CASE Book(r)
  BY <1>4, BookKeeps
<1>5. CASE PutObject(r) \/ InsertPhoto(r) \/ RemoveObject(r) \/ RemovePhoto(r)
  BY <1>5, PutObjectKeeps, InsertPhotoKeeps, RemoveObjectKeeps, RemovePhotoKeeps
<1>6. CASE EditPhoto(r) \/ EditNote(r) \/ Fail(r)
  BY <1>6, IdleKeeps
<1>7. CASE WriteMarketing(r)
  BY <1>7, WriteMarketingKeeps
<1>8. CASE Found(r) \/ Drop(r)
  BY <1>8, FoundKeeps, DropKeeps
<1>9. CASE AddNote(r) \/ DeleteNote(r)
  BY <1>9, AddNoteKeeps, DeleteNoteKeeps
<1>10. CASE ReadVehicle(r) \/ OpenOrder(r) \/ EditVehicle(r) \/ ImportVehicle(r)
  BY <1>10, ReadVehicleKeeps, OpenOrderKeeps, EditVehicleKeeps, ImportVehicleKeeps
<1>11. CASE WriteSettings(r) \/ PutLogo(r) \/ LinkLogo(r)
  BY <1>11, WriteSettingsKeeps, PutLogoKeeps, LinkLogoKeeps
<1>12. QED
  BY <1>1, <1>2, <1>3, <1>4, <1>5, <1>6, <1>7, <1>8, <1>9, <1>10, <1>11, Zenon DEF Write

LEMMA WorkshopInitSound == WorkshopInit => WorkshopIInv
<1> SUFFICES ASSUME WorkshopInit
             PROVE  WorkshopIInv
  OBVIOUS
<1>1. \A r \in Slots : request[r] = Unsent
  BY DEF WorkshopInit
<1>2. Unsent.phase = "unsent" /\ Unsent.op = Null
  BY DEF Unsent
<1>3. photo \in [Photos -> PhotoRow] /\ PhotosHaveObjects
  <2>1. \A p \in Photos : \/ photo[p] = [object |-> FALSE, row |-> FALSE]
                          \/ photo[p] = [object |-> TRUE, row |-> TRUE]
    BY DEF WorkshopInit
  <2>2. ASSUME NEW p \in Photos
        PROVE  photo[p] \in PhotoRow /\ (photo[p].row => photo[p].object)
    <3>1. CASE photo[p] = [object |-> FALSE, row |-> FALSE]
      <4>1. photo[p] \in PhotoRow
        BY <3>1 DEF PhotoRow
      <4>2. ~photo[p].row
        BY <3>1
      <4>3. QED
        BY <4>1, <4>2
    <3>2. CASE photo[p] = [object |-> TRUE, row |-> TRUE]
      <4>1. photo[p] \in PhotoRow
        BY <3>2 DEF PhotoRow
      <4>2. photo[p].object
        BY <3>2
      <4>3. QED
        BY <4>1, <4>2
    <3>3. QED
      BY <2>1, <3>1, <3>2
  <2>3. photo = [p \in Photos |-> photo[p]]
    BY DEF WorkshopInit
  <2>4. QED
    BY <2>2, <2>3 DEF PhotosHaveObjects
<1>4. logo \in Logo /\ LogoHasObject
  BY DEF WorkshopInit, Logo, LogoHasObject
<1>5. drawn = 0 /\ opened \in Seq(1..drawn) /\ NumbersDiffer
  BY DEF WorkshopInit, NumbersDiffer
<1>6. /\ bay \in Seq(BayRow) /\ service \in Seq(ServiceRow) /\ booking \in Seq(BookingRow)
      /\ consent \in Seq(BOOLEAN) /\ note \in Seq(NoteRow) /\ secret \in Secret
  BY InitialAssumption DEF WorkshopInit
<1>7. /\ account \in [Phones -> Tenants \cup {Home, Null}]
      /\ tenant \in [Tenants -> TenantRow \cup {Null}]
      /\ emptied \subseteq Photos /\ closed \in BOOLEAN /\ odometer \in Kilometres \cup {0}
  BY DEF WorkshopInit
<1>8. request \in [Slots -> SlotRow]
  BY UnsentSlot DEF WorkshopInit
<1>9. WorkshopTypeOK
  BY <1>3, <1>4, <1>5, <1>6, <1>7, <1>8 DEF WorkshopTypeOK
<1>10. \A r \in Slots : Given(request[r]) /\ Kept(request[r])
  BY <1>1, <1>2 DEF Given, Kept
<1>11. UploadsAlone
  BY <1>1, <1>2 DEF UploadsAlone, Uploading
<1>12. QED
  BY <1>3, <1>4, <1>5, <1>9, <1>10, <1>11 DEF WorkshopIInv

LEMMA WorkshopStutterKeeps ==
    ASSUME WorkshopIInv, UNCHANGED workshopVars
    PROVE  WorkshopIInv'
<1>1. /\ UNCHANGED <<bay, service, booking, photo, emptied, consent, account, tenant>>
      /\ UNCHANGED <<note, closed, drawn, opened, odometer, secret, logo, request>>
  BY DEF workshopVars, setup, orders, office
<1>2. WorkshopTypeOK' /\ PhotosHaveObjects' /\ LogoHasObject' /\ NumbersDiffer'
  BY <1>1 DEF WorkshopIInv, WorkshopTypeOK, PhotosHaveObjects, LogoHasObject, NumbersDiffer
<1>3. \A r \in Slots : Given(request[r])' /\ Kept(request[r])'
  BY <1>1 DEF WorkshopIInv, Given, Kept, Emptied, Bays
<1>4. UploadsAlone'
  BY <1>1 DEF WorkshopIInv, UploadsAlone, Uploading
<1>5. QED
  BY <1>2, <1>3, <1>4 DEF WorkshopIInv

LEMMA WorkshopStep == WorkshopIInv /\ [WorkshopNext]_workshopVars => WorkshopIInv'
<1> SUFFICES ASSUME WorkshopIInv, [WorkshopNext]_workshopVars
             PROVE  WorkshopIInv'
  OBVIOUS
<1>1. CASE \E r \in Slots : Start(r) \/ Write(r)
  BY <1>1, StartKeeps, WriteKeeps
<1>2. CASE \E t \in Tenants : SignElsewhere(t)
  BY <1>2, SignElsewhereKeeps
<1>3. CASE UNCHANGED workshopVars
  BY <1>3, WorkshopStutterKeeps
<1>4. QED
  BY <1>1, <1>2, <1>3 DEF WorkshopNext

LEMMA WorkshopSound == WorkshopSpec => []WorkshopIInv
<1>1. QED
  BY WorkshopInitSound, WorkshopStep, PTL DEF WorkshopSpec

\* A photo that is listed and the logo that is shown have their objects, but for a
\* photo whose deletion got half way and a link typed into the profile, and no two
\* orders one number (photos of work orders, tenant logo, DocumentSequence), however
\* uploads, deletions, failures and openings of orders interleave.
THEOREM StoredIsThere == WorkshopSpec => []WorkshopConsistent
<1>1. WorkshopIInv => WorkshopConsistent
  BY DEF WorkshopIInv, WorkshopConsistent
<1>2. QED
  BY <1>1, WorkshopSound, PTL

----------------------------------------------------------------------------
(* Workshop: what is broken only when outdated *)

\* A request that begins touches nothing the rules speak about.
Opens(r) ==
    /\ request[r].phase = "unsent"
    /\ UNCHANGED <<bay, booking, odometer, secret>>
    /\ \A q \in Slots \ {r} : request'[q] = request[q]

LEMMA StartOpens ==
    ASSUME WorkshopIInv, NEW r \in Slots, Start(r)
    PROVE  Opens(r)
<1>0. request \in [Slots -> SlotRow]
  BY DEF WorkshopIInv, WorkshopTypeOK
<1>1. ASSUME NEW op, NEW f, Enter(r, op, f)
      PROVE  Opens(r)
  BY <1>0, <1>1 DEF Enter, Opens, setup, orders, office
<1>2. ASSUME NEW flag, Sign(r, flag)
      PROVE  Opens(r)
  BY <1>0, <1>2 DEF Sign, End, Opens, orders, office
<1>3. ASSUME CancelOrder(r)
      PROVE  Opens(r)
  BY <1>0, <1>3 DEF CancelOrder, End, Opens, setup, office
<1>4. ASSUME NEW km, DrawNumber(r, km)
      PROVE  Opens(r)
  BY <1>0, <1>4 DEF DrawNumber, Opens, setup, office
<1>5. ASSUME NEW link, UpdateProfile(r, link)
      PROVE  Opens(r)
  BY <1>0, <1>5 DEF UpdateProfile, End, Opens, setup, orders
<1>6. CASE StartView(r)
  BY <1>1, <1>6, Zenon DEF StartView
<1>7. CASE \E n \in Names, flag \in BOOLEAN : StartCreateBay(r, n, flag)
  BY <1>1, <1>7, Zenon DEF StartCreateBay
<1>8. CASE \E i \in Bays, n \in Names, flag \in BOOLEAN : StartUpdateBay(r, i, n, flag)
  BY <1>1, <1>8, Zenon DEF StartUpdateBay
<1>9. CASE \E i \in Bays : StartDeleteBay(r, i)
  BY <1>1, <1>9, Zenon DEF StartDeleteBay
<1>10. CASE \E title \in Titles, p \in Phones : StartOnboard(r, title, p)
  BY <1>1, <1>10, Zenon DEF StartOnboard
<1>11. CASE \E title \in Titles, code \in Codes : StartCreateService(r, title, code)
  BY <1>1, <1>11, Zenon DEF StartCreateService
<1>12. CASE \E i \in Services, code \in Codes, flag \in BOOLEAN :
               StartUpdateService(r, i, code, flag)
  BY <1>1, <1>12, Zenon DEF StartUpdateService
<1>13. CASE \E i \in Services : StartRemoveService(r, i)
  BY <1>1, <1>13, Zenon DEF StartRemoveService
<1>14. CASE \E i \in Services \cup {0} : StartBook(r, i)
  BY <1>1, <1>14, Zenon DEF StartBook
<1>15. CASE \E p \in Photos : StartUpload(r, p)
  BY <1>1, <1>15, Zenon DEF StartUpload
<1>16. CASE \E p \in Photos, op \in {"editPhoto", "deletePhoto"} : StartPhoto(r, op, p)
  BY <1>1, <1>16, Zenon DEF StartPhoto
<1>17. CASE \E flag \in BOOLEAN : StartMarketing(r, flag) \/ Sign(r, flag)
  BY <1>1, <1>2, <1>17, Zenon DEF StartMarketing
<1>18. CASE \E t \in Tenants, p \in Phones : StartFound(r, t, p)
  BY <1>1, <1>18, Zenon DEF StartFound
<1>19. CASE \E t \in Tenants : StartDrop(r, t)
  BY <1>1, <1>19, Zenon DEF StartDrop
<1>20. CASE \E u \in Staff : StartNote(r, u)
  BY <1>1, <1>20, Zenon DEF StartNote
<1>21. CASE CancelOrder(r)
  BY <1>3, <1>21
<1>22. CASE \E i \in Notes, u \in Staff : StartEditNote(r, i, u) \/ StartDeleteNote(r, i, u)
  BY <1>1, <1>22, Zenon DEF StartEditNote, StartDeleteNote
<1>23. CASE \E km \in Kilometres \cup {0} : DrawNumber(r, km)
  BY <1>4, <1>23, Zenon
<1>24. CASE \E km \in Kilometres, flag \in BOOLEAN : StartEditVehicle(r, km, flag)
  BY <1>1, <1>24, Zenon DEF StartEditVehicle
<1>25. CASE \E key \in Secret, flag \in BOOLEAN : StartSettings(r, key, flag)
  BY <1>1, <1>25, Zenon DEF StartSettings
<1>26. CASE \E x \in Formats : StartLogo(r, x)
  BY <1>1, <1>26, Zenon DEF StartLogo
<1>27. CASE \E km \in Kilometres : StartImportVehicle(r, km)
  BY <1>1, <1>27, Zenon DEF StartImportVehicle
<1>28. CASE \E link \in Formats \cup {Elsewhere, Null} : UpdateProfile(r, link)
  BY <1>5, <1>28, Zenon
<1>29. QED
  BY <1>6, <1>7, <1>8, <1>9, <1>10, <1>11, <1>12, <1>13, <1>14, <1>15, <1>16, <1>17, <1>18,
     <1>19, <1>20, <1>21, <1>22, <1>23, <1>24, <1>25, <1>26, <1>27, <1>28, Zenon DEF Start

\* Who writes which of the tables the rules speak about.
Touches(r) ==
    /\ \/ bay' = bay
       \/ InsertDefaults(r) \/ CreateBay(r) \/ UpdateBay(r) \/ DeleteBay(r)
       \/ CommitOnboarding(r)
    /\ booking' = booking \/ DeleteService(r) \/ Book(r)
    /\ consent' = consent \/ WriteMarketing(r)
    /\ odometer' = odometer \/ OpenOrder(r) \/ EditVehicle(r) \/ ImportVehicle(r)
    /\ secret' = secret \/ WriteSettings(r)
    /\ \A q \in Slots \ {r} : request'[q] = request[q]

LEMMA WriteTouches ==
    ASSUME WorkshopIInv, NEW r \in Slots, Write(r)
    PROVE  Touches(r)
<1>0. request \in [Slots -> SlotRow]
  BY DEF WorkshopIInv, WorkshopTypeOK
<1> DEFINE Own == \A q \in Slots \ {r} : request'[q] = request[q]
<1>1. ASSUME End(r)
      PROVE  Own
  BY <1>0, <1>1 DEF End
<1>2. ASSUME NEW v, Go(r, v)
      PROVE  Own
  BY <1>0, <1>2 DEF Go
<1>3. LookStaff(r) \/ LookBays(r) \/ ReadVehicle(r) => Own
  BY <1>0 DEF LookStaff, LookBays, ReadVehicle
<1> HIDE DEF Own
<1>4. CASE InsertDefaults(r) \/ CreateBay(r) \/ UpdateBay(r) \/ DeleteBay(r)
  BY <1>1, <1>4
     DEF InsertDefaults, CreateBay, UpdateBay, DeleteBay, Touches, Own, orders, office
<1>5. CASE LookStaff(r) \/ LookBays(r)
  BY <1>3, <1>5 DEF LookStaff, LookBays, Touches, Own, setup, orders, office
<1>6. CASE CommitOnboarding(r) \/ Book(r) \/ DeleteService(r)
  BY <1>1, <1>6 DEF CommitOnboarding, Book, DeleteService, Touches, Own, orders, office
<1>7. CASE CreateService(r) \/ UpdateService(r) \/ DeactivateService(r)
  BY <1>1, <1>7
     DEF CreateService, UpdateService, DeactivateService, Touches, Own, orders, office
<1>8. CASE PutObject(r) \/ RemoveObject(r)
  BY <1>2, <1>8 DEF PutObject, RemoveObject, Touches, Own, orders, office
<1>9. CASE InsertPhoto(r) \/ RemovePhoto(r) \/ WriteMarketing(r) \/ Found(r) \/ Drop(r)
  BY <1>1, <1>9
     DEF InsertPhoto, RemovePhoto, WriteMarketing, Found, Drop, Touches, Own, orders, office
<1>10. CASE EditPhoto(r) \/ EditNote(r) \/ Fail(r)
  BY <1>1, <1>10 DEF EditPhoto, EditNote, Fail, Touches, Own, setup, orders, office
<1>11. CASE AddNote(r) \/ DeleteNote(r) \/ OpenOrder(r) \/ EditVehicle(r) \/ ImportVehicle(r)
  BY <1>1, <1>11
     DEF AddNote, DeleteNote, OpenOrder, EditVehicle, ImportVehicle, Touches, Own, setup, office
<1>12. CASE ReadVehicle(r)
  BY <1>3, <1>12 DEF ReadVehicle, Touches, Own, setup, orders, office
<1>13. CASE WriteSettings(r) \/ LinkLogo(r)
  BY <1>1, <1>13 DEF WriteSettings, LinkLogo, Touches, Own, setup, orders
<1>14. CASE PutLogo(r)
  BY <1>2, <1>14 DEF PutLogo, Touches, Own, setup, orders
<1>15. QED
  BY <1>4, <1>5, <1>6, <1>7, <1>8, <1>9, <1>10, <1>11, <1>12, <1>13, <1>14, Zenon DEF Write

\* The request that ends in a step is the one that takes it.
LEMMA EndingOwn ==
    ASSUME NEW r \in Slots, \A q \in Slots \ {r} : request'[q] = request[q]
    PROVE  Ending \subseteq {r}
BY DEF Ending

LEMMA SeededKeeps ==
    ASSUME WorkshopIInv, NEW r \in Slots, Touches(r)
    PROVE  SeededOnlyWhenEmpty
<1>1. Ending \subseteq {r}
  BY EndingOwn DEF Touches
<1>2. SUFFICES ASSUME r \in Ends("view") \cup Ends("onboard"), NEW i \in Bays,
                      Len(bay') > Len(bay)
               PROVE  i > request[r].length
  BY <1>1 DEF SeededOnlyWhenEmpty, Ends
<1>3. request[r].op \in {"view", "onboard"}
  BY <1>2 DEF Ends
<1>4. bay' # bay
  BY <1>2 DEF WorkshopIInv, WorkshopTypeOK
<1>5. InsertDefaults(r) \/ CommitOnboarding(r)
  BY <1>3, <1>4 DEF Touches, CreateBay, UpdateBay, DeleteBay, At
<1>6. CASE InsertDefaults(r)
  BY <1>6, Known DEF InsertDefaults, Kept, Emptied
<1>7. CASE CommitOnboarding(r)
  <2>1. "bays" \in request[r].new
    BY <1>4, <1>7 DEF CommitOnboarding
  <2>2. QED
    BY <1>7, <2>1, Known DEF CommitOnboarding, Kept, Emptied
<1>8. QED
  BY <1>5, <1>6, <1>7

LEMMA ServiceKeptKeeps ==
    ASSUME WorkshopIInv, NEW r \in Slots, Touches(r)
    PROVE  ServiceKeptWhenBooked
<1>1. SUFFICES ASSUME NEW k \in DOMAIN booking, booking[k].service # 0, booking'[k].service = 0
               PROVE  \E q \in Ends("removeService") : k \notin request[q].seen
  BY DEF ServiceKeptWhenBooked
<1>2. booking \in Seq(BookingRow) /\ request \in [Slots -> SlotRow]
  BY DEF WorkshopIInv, WorkshopTypeOK
<1>3. booking' # booking
  BY <1>1
<1>4. ~Book(r)
  <2>1. ASSUME Book(r)
        PROVE  booking'[k] = booking[k]
    <3>1. PICK row : row = [bay |-> request[r].name, service |-> request[r].row]
      OBVIOUS
    <3>2. booking' = Append(booking, row)
      BY <2>1, <3>1 DEF Book
    <3>3. QED
      BY <1>2, <3>2
  <2>2. QED
    BY <1>1, <2>1
<1>5. DeleteService(r)
  BY <1>3, <1>4 DEF Touches
<1>6. request[r].op = "removeService" /\ request[r].phase = "read" /\ request[r].seen = {}
  BY <1>5 DEF DeleteService, At, Booked
<1>7. request'[r].phase = "done"
  <2>1. request'[r] = [Unsent EXCEPT !.phase = "done"]
    BY <1>2, <1>5 DEF DeleteService, End
  <2>2. QED
    BY <2>1, UnsentSlot DEF SlotRow
<1>8. r \in Ends("removeService")
  BY <1>6, <1>7 DEF Ends, Ending
<1>9. QED
  BY <1>6, <1>8

LEMMA OnlineKeeps ==
    ASSUME WorkshopIInv, NEW r \in Slots, Touches(r)
    PROVE  OnlineBaysOnly
<1>1. Ending \subseteq {r}
  BY EndingOwn DEF Touches
<1>2. SUFFICES ASSUME r \in Ends("book"), request[r].offered = Online, Online # {}
               PROVE  request[r].name \in Online
  BY <1>1 DEF OnlineBaysOnly, Ends
<1>3. request[r].op = "book" /\ request[r].phase \notin {"unsent", "done"}
  BY <1>2 DEF Ends, Ending
<1>4. request[r].name \in (IF request[r].offered = {} THEN Fallback ELSE request[r].offered)
  BY <1>3 DEF WorkshopIInv, Given
<1>5. QED
  BY <1>2, <1>4

LEMMA OptOutKeeps ==
    ASSUME WorkshopIInv, NEW r \in Slots, Touches(r)
    PROVE  OptOutHolds
<1>1. Ending \subseteq {r}
  BY EndingOwn DEF Touches
<1>2. SUFFICES ASSUME r \in Ends("marketing"), consent' # consent, ~request[r].flag,
                      ~(Len(consent) > request[r].row)
               PROVE  ~consent'[Len(consent')]
  BY <1>1 DEF OptOutHolds, Ends
<1>3. WriteMarketing(r)
  BY <1>2 DEF Touches
<1>4. /\ request[r] \in SlotRow /\ request[r].row <= Len(consent) /\ request[r].row \in Nat
      /\ consent \in Seq(BOOLEAN)
  BY <1>3, Known DEF WriteMarketing, Kept, SlotRow, WorkshopIInv, WorkshopTypeOK
<1>5. request[r].flag = FALSE
  BY <1>2, <1>4 DEF SlotRow
<1>6. request[r].row = Len(consent)
  BY <1>2, <1>4
<1>7. PICK n \in Nat : n = Len(consent)
  BY <1>4
<1>8. consent' = IF n = 0 THEN Append(consent, FALSE) ELSE [consent EXCEPT ![n] = FALSE]
  BY <1>3, <1>5, <1>6, <1>7 DEF WriteMarketing, Preferred
<1>9. CASE n = 0
  <2>1. consent' = Append(consent, FALSE)
    BY <1>8, <1>9
  <2>2. Len(consent') = n + 1 /\ consent'[n + 1] = FALSE
    BY <1>4, <1>7, <2>1
  <2>3. QED
    BY <2>2
<1>10. CASE n # 0
  <2>1. consent' = [consent EXCEPT ![n] = FALSE] /\ n \in 1..Len(consent)
    BY <1>7, <1>8, <1>10
  <2>2. Len(consent') = n
    BY <1>4, <1>7, <2>1
  <2>3. ~consent'[n]
    BY <1>4, <1>7, <2>1
  <2>4. QED
    BY <2>2, <2>3
<1>11. QED
  BY <1>9, <1>10

LEMMA OdometerKeeps ==
    ASSUME WorkshopIInv, NEW r \in Slots, Touches(r)
    PROVE  OdometerGoesForward
<1>1. SUFFICES ASSUME odometer' < odometer
               PROVE  \E q \in Ends("editVehicle") \cup Ends("importVehicle")
                                 \cup Ends("openOrder") :
                         request[q].readKm # odometer \/ request[q].flag
  BY DEF OdometerGoesForward
<1>2. odometer \in Nat /\ request \in [Slots -> SlotRow]
  BY StaffAssumption DEF WorkshopIInv, WorkshopTypeOK
<1>3. odometer' # odometer
  BY <1>1, <1>2
<1>4. request[r].km \in Nat /\ request[r].readKm \in Nat
  <2>1. request[r] \in SlotRow
    BY <1>2
  <2>2. request[r].km \in Kilometres \cup {0} /\ request[r].readKm \in Kilometres \cup {0}
    BY <2>1 DEF SlotRow
  <2>3. \A k \in Kilometres \cup {0} : k \in Nat
    BY StaffAssumption
  <2>4. QED
    BY <2>2, <2>3, Zenon
<1>5. End(r) => request'[r].phase = "done"
  <2>1. End(r) => request'[r] = [Unsent EXCEPT !.phase = "done"]
    BY <1>2 DEF End
  <2>2. QED
    BY <2>1, UnsentSlot DEF SlotRow
<1>6. CASE OpenOrder(r)
  <2>1. request[r].km > request[r].readKm /\ odometer' = request[r].km
    BY <1>3, <1>6 DEF OpenOrder
  <2>2. request[r].readKm # odometer
    BY <1>1, <1>2, <1>4, <2>1
  <2>3. r \in Ends("openOrder")
    BY <1>5, <1>6 DEF OpenOrder, At, Ends, Ending
  <2>4. QED
    BY <2>2, <2>3
<1>7. CASE EditVehicle(r)
  <2>1. odometer' = request[r].km
    BY <1>7 DEF EditVehicle
  <2>2. request[r].flag \/ request[r].km = request[r].readKm
    BY <1>7, Known DEF EditVehicle, Given
  <2>3. r \in Ends("editVehicle")
    BY <1>5, <1>7 DEF EditVehicle, At, Ends, Ending
  <2>4. QED
    BY <1>3, <2>1, <2>2, <2>3
<1>8. CASE ImportVehicle(r)
  <2>1. request[r].flag
    BY <1>8, Known DEF ImportVehicle, Given
  <2>2. r \in Ends("importVehicle")
    BY <1>5, <1>8 DEF ImportVehicle, At, Ends, Ending
  <2>3. QED
    BY <2>1, <2>2
<1>9. QED
  BY <1>3, <1>6, <1>7, <1>8 DEF Touches

LEMMA SecretKeeps ==
    ASSUME WorkshopIInv, NEW r \in Slots, Touches(r)
    PROVE  SecretKept
<1>1. SUFFICES ASSUME secret' # secret
               PROVE  /\ secret' # Null
                      /\ \E q \in Ends("settings") :
                            request[q].flag \/ request[q].readKey # secret
  BY DEF SecretKept
<1>2. WriteSettings(r) /\ request \in [Slots -> SlotRow]
  BY <1>1 DEF Touches, WorkshopIInv, WorkshopTypeOK
<1>3. secret' = request[r].key /\ request[r].key # Null
  BY <1>1, <1>2 DEF WriteSettings, Stores
<1>4. request[r].flag \/ request[r].key = request[r].readKey
  BY <1>2, Known DEF WriteSettings, Given
<1>5. request'[r].phase = "done"
  <2>1. request'[r] = [Unsent EXCEPT !.phase = "done"]
    BY <1>2 DEF WriteSettings, End
  <2>2. QED
    BY <2>1, UnsentSlot DEF SlotRow
<1>6. r \in Ends("settings")
  BY <1>2, <1>5 DEF WriteSettings, At, Ends, Ending
<1>7. QED
  BY <1>1, <1>3, <1>4, <1>6

\* The six rules.
Rules ==
    /\ SeededOnlyWhenEmpty /\ ServiceKeptWhenBooked /\ OnlineBaysOnly /\ OptOutHolds
    /\ OdometerGoesForward /\ SecretKept

\* A step that touches none of their tables keeps them.
LEMMA UntouchedKeeps ==
    ASSUME WorkshopIInv, Ending = {}, UNCHANGED <<booking, odometer, secret>>
    PROVE  Rules
<1>1. \A op : Ends(op) = {}
  BY DEF Ends
<1>2. ~(odometer' < odometer)
  BY StaffAssumption DEF WorkshopIInv, WorkshopTypeOK
<1>3. QED
  BY <1>1, <1>2 DEF Rules, SeededOnlyWhenEmpty, ServiceKeptWhenBooked, OnlineBaysOnly,
     OptOutHolds, OdometerGoesForward, SecretKept

LEMMA RulesStep == WorkshopIInv /\ WorkshopNext => Rules
<1> SUFFICES ASSUME WorkshopIInv, WorkshopNext
             PROVE  Rules
  OBVIOUS
<1>1. ASSUME NEW r \in Slots, Start(r)
      PROVE  Rules
  <2>1. Opens(r)
    BY <1>1, StartOpens
  <2>2. Ending = {}
    BY <2>1 DEF Opens, Ending
  <2>3. QED
    BY <2>1, <2>2, UntouchedKeeps DEF Opens
<1>2. ASSUME NEW r \in Slots, Write(r)
      PROVE  Rules
  BY <1>2, WriteTouches, SeededKeeps, ServiceKeptKeeps, OnlineKeeps, OptOutKeeps,
     OdometerKeeps, SecretKeeps DEF Rules
<1>3. ASSUME NEW t \in Tenants, SignElsewhere(t)
      PROVE  Rules
  <2>1. UNCHANGED <<booking, odometer, secret, request>>
    BY <1>3 DEF SignElsewhere, orders, office
  <2>2. Ending = {}
    BY <2>1 DEF Ending
  <2>3. QED
    BY <2>1, <2>2, UntouchedKeeps
<1>4. QED
  BY <1>1, <1>2, <1>3 DEF WorkshopNext

\* Bays are seeded twice, a booking loses its service, gets a bay that is not online, an
\* opt-out does not hold, the odometer goes back or a secret is replaced only by a request
\* that read a state that is no longer so, or whose sender asked for it.
THEOREM SetupBrokenWhenOutdated == WorkshopSpec => BrokenOnlyWhenOutdated
<1>1. WorkshopIInv /\ [WorkshopNext]_workshopVars => [Rules]_workshopVars
  BY RulesStep
<1>2. WorkshopSpec => [][Rules]_workshopVars
  BY <1>1, WorkshopSound, PTL DEF WorkshopSpec
<1>3. QED
  BY <1>2 DEF Rules, BrokenOnlyWhenOutdated
==============================================================================
