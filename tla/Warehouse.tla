------------------------------ MODULE Warehouse ------------------------------
(***************************************************************************)
(* The stock of parts and where they lie: products, their movements, shelves *)
(* and cells, with the inventory's use cases and repositories.               *)
(*                                                                          *)
(* Work orders take and return parts with an atomic statement.  The office   *)
(* edits a product, or books a movement, by reading the whole row, changing  *)
(* it in memory and writing all of it back in a later transaction; the       *)
(* movement is inserted in a third one.                                      *)
(***************************************************************************)
EXTENDS Totals

CONSTANTS
    Products,
    Shelves,
    Cells,
    ShelfOf,       \* the shelf each cell is created with
    Requests,      \* each is used for one request
    MaxStock,      \* bound
    None,          \* the column is null
    Keep           \* the field is undefined: the column is left alone

ASSUME ShelfOfAssumption == ShelfOf \in [Cells -> Shelves]
ASSUME NullsAssumption == None \notin Cells /\ Keep \notin Cells \cup {None}
ASSUME SizesAssumption == IsFiniteSet(Requests) /\ MaxStock \in Nat

VARIABLES
    product,
    shelf,         \* rows of WarehouseShelf, with their cells
    book,          \* the sum of the movements of each product
    request,
    drifted        \* history: products whose stock is not the sum of their movements

vars == <<product, shelf, book, request, drifted>>

Stock == 0..MaxStock
Kinds == {"IN_PURCHASE", "RETURN", "OUT_WORK_ORDER", "ADJUSTMENT", "EDIT"}

\* shelf: shelfId, with the texts that repeat the place (shelfLocation, aisle,
\* rack, tier, bin).  It is no foreign key; cell is one, ON DELETE SET NULL.
ProductRow == [made : BOOLEAN, deleted : BOOLEAN, stock : Stock,
               cell : Cells \cup {None}, shelf : Shelves \cup {None}]

\* row: the product as read.  stock, cell, place: what will be written.
Request == [phase : {"unsent", "resolve", "write", "record", "archive", "assign",
                     "deleteShelf", "done"},
            products : SUBSET Products, kind : Kinds \cup {None}, quantity : Stock,
            row : ProductRow, stock : Stock, cell : Cells \cup {None, Keep},
            place : Shelves \cup {None}, shelf : Shelves \cup {None}]

Blank == [made |-> FALSE, deleted |-> FALSE, stock |-> 0, cell |-> None, shelf |-> None]

Unsent == [phase |-> "unsent", products |-> {}, kind |-> None, quantity |-> 0,
           row |-> Blank, stock |-> 0, cell |-> None, place |-> None, shelf |-> None]

Init ==
    /\ product = [p \in Products |-> Blank]
    /\ shelf = [s \in Shelves |-> "new"]
    /\ book = [p \in Products |-> 0]
    /\ request = [r \in Requests |-> Unsent]
    /\ drifted = {}

----------------------------------------------------------------------------

Live(p) == product[p].made /\ ~product[p].deleted
There(c) == c \in Cells /\ shelf[ShelfOf[c]] = "there"
At(r, phase) == request[r].phase = phase
Read(r, fields) == request' = [request EXCEPT ![r] = fields]
End(r) == request' = [request EXCEPT ![r] = [Unsent EXCEPT !.phase = "done"]]
TheProduct(r) == CHOOSE p \in Products : p \in request[r].products

\* Variant: every movement adds.
Signed_Adds(kind, q) == IF kind \in {"ADJUSTMENT", "EDIT"} THEN 0 ELSE q

\* What a movement says of the stock.  A count (ADJUSTMENT) is stored as the new
\* stock, not as a difference: it says nothing that can be summed up.
Signed(kind, q) ==
    CASE kind \in {"IN_PURCHASE", "RETURN"} -> q
      [] kind = "OUT_WORK_ORDER" -> -q
      [] OTHER -> 0

\* One transaction: the product and the movement of its opening stock.
CreateProduct(p, stock, cell) ==
    /\ ~product[p].made
    /\ cell # None => There(cell)
    /\ product' = [product EXCEPT ![p] =
          [made |-> TRUE, deleted |-> FALSE, stock |-> stock, cell |-> cell,
           shelf |-> IF cell = None THEN None ELSE ShelfOf[cell]]]
    /\ book' = [book EXCEPT ![p] = stock]
    /\ UNCHANGED <<shelf, request, drifted>>

\* What a work order takes (the statements of decrementAtomic): one with its guard, and
\* the movement in the same transaction.
Take(p, q) ==
    /\ product[p].made
    /\ product[p].stock >= q
    /\ product' = [product EXCEPT ![p].stock = @ - q]
    /\ book' = [book EXCEPT ![p] = @ + Signed("OUT_WORK_ORDER", q)]
    /\ UNCHANGED <<shelf, request, drifted>>

\* What it returns (incrementAtomic).
Return(p, q) ==
    /\ product[p].made
    /\ product[p].stock + q <= MaxStock
    /\ product' = [product EXCEPT ![p].stock = @ + q]
    /\ book' = [book EXCEPT ![p] = @ + Signed("RETURN", q)]
    /\ UNCHANGED <<shelf, request, drifted>>

----------------------------------------------------------------------------
(* Read, change in memory, write back *)

\* A column that is null is undefined in the entity.
CellOf(row) == IF row.cell = None THEN Keep ELSE row.cell

\* UpdateStockItemUseCase: stock and cell are given or kept as read.  Whether the
\* cell is still there is not asked.
StartEdit(r, p, stock, cell) ==
    /\ At(r, "unsent")
    /\ Live(p)
    /\ cell \in Cells => shelf[ShelfOf[cell]] # "new"
    /\ Read(r, [Unsent EXCEPT !.phase = "resolve", !.products = {p}, !.kind = "EDIT",
          !.row = product[p], !.stock = IF stock = Keep THEN product[p].stock ELSE stock,
          !.cell = IF cell = Keep THEN CellOf(product[p]) ELSE cell])
    /\ UNCHANGED <<product, shelf, book, drifted>>

CanDecrement(row, q) == q > 0 /\ row.stock >= q

\* AddStockMovementUseCase.
StartMovement(r, p, kind, q) ==
    /\ At(r, "unsent")
    /\ Live(p)
    /\ kind = "OUT_WORK_ORDER" => CanDecrement(product[p], q)
    /\ kind \in {"IN_PURCHASE", "RETURN"} => q > 0 /\ product[p].stock + q <= MaxStock
    /\ Read(r, [Unsent EXCEPT !.phase = "resolve", !.products = {p}, !.kind = kind,
          !.quantity = q, !.row = product[p], !.cell = CellOf(product[p]),
          !.stock = IF kind = "ADJUSTMENT" THEN q ELSE product[p].stock + Signed(kind, q)])
    /\ UNCHANGED <<product, shelf, book, drifted>>

\* The shelf to be written: that of the cell, none when the cell is taken away,
\* else the one of the row as it is now.
PlaceFor(p, cell) ==
    IF There(cell) THEN ShelfOf[cell]
    ELSE IF cell = None THEN None ELSE product[p].shelf

\* save reads the row and the cell again,
Resolve(r) ==
    /\ At(r, "resolve")
    /\ Live(TheProduct(r))
    /\ request' = [request EXCEPT ![r].phase = "write",
                                  ![r].place = PlaceFor(TheProduct(r), request[r].cell)]
    /\ UNCHANGED <<product, shelf, book, drifted>>

\* and writes every column by the id; a cell that is gone is refused.
Write(r) ==
    /\ At(r, "write")
    /\ request[r].cell \in Cells => There(request[r].cell)
    /\ LET p == TheProduct(r)
           rq == request[r]
       IN  /\ product' = [product EXCEPT ![p].stock = rq.stock, ![p].shelf = rq.place,
                             ![p].cell = IF rq.cell = Keep THEN @ ELSE rq.cell]
           /\ drifted' = IF rq.stock = product[p].stock + Signed(rq.kind, rq.quantity)
                         THEN drifted ELSE drifted \cup {p}
    /\ IF request[r].kind = "EDIT"
       THEN End(r)
       ELSE request' = [request EXCEPT ![r].phase = "record"]
    /\ UNCHANGED <<shelf, book>>

\* The movement, in a transaction of its own.
Record(r) ==
    /\ At(r, "record")
    /\ book' = [book EXCEPT ![TheProduct(r)] = @ + Signed(request[r].kind, request[r].quantity)]
    /\ End(r)
    /\ UNCHANGED <<product, shelf, drifted>>

\* The rest of a request is not run: a statement failed or the process died.
Fail(r) ==
    /\ request[r].phase \notin {"unsent", "done"}
    /\ drifted' = IF At(r, "record") /\ Signed(request[r].kind, request[r].quantity) # 0
                  THEN drifted \cup request[r].products ELSE drifted
    /\ End(r)
    /\ UNCHANGED <<product, shelf, book>>

----------------------------------------------------------------------------
(* Archive and places *)

StartArchive(r, p) ==
    /\ At(r, "unsent")
    /\ Live(p)
    /\ Read(r, [Unsent EXCEPT !.phase = "archive", !.products = {p}])
    /\ UNCHANGED <<product, shelf, book, drifted>>

\* The row keeps its shelf and loses its cell.
Archive(r) ==
    /\ At(r, "archive")
    /\ product' = [product EXCEPT ![TheProduct(r)].deleted = TRUE, ![TheProduct(r)].cell = None]
    /\ End(r)
    /\ UNCHANGED <<shelf, book, drifted>>

\* assignProductToCell looks for a product that is not archived, the bulk
\* assignment does not.
StartAssign(r, ps, cell, bulk) ==
    /\ At(r, "unsent")
    /\ \A p \in ps : product[p].made /\ (bulk \/ Live(p))
    /\ cell # None => There(cell)
    /\ Read(r, [Unsent EXCEPT !.phase = "assign", !.products = ps, !.cell = cell])
    /\ UNCHANGED <<product, shelf, book, drifted>>

Assign(r) ==
    /\ At(r, "assign")
    /\ LET c == request[r].cell
       IN  /\ c # None => There(c)
           /\ product' = [p \in Products |->
                 IF p \in request[r].products
                 THEN [product[p] EXCEPT !.cell = c,
                                         !.shelf = IF c = None THEN None ELSE ShelfOf[c]]
                 ELSE product[p]]
    /\ End(r)
    /\ UNCHANGED <<shelf, book, drifted>>

\* One transaction: the shelf, unique by its code, and its cells.
CreateShelf(s) ==
    /\ shelf[s] = "new"
    /\ shelf' = [shelf EXCEPT ![s] = "there"]
    /\ UNCHANGED <<product, book, request, drifted>>

On(s) == {p \in Products : product[p].cell \in Cells /\ ShelfOf[product[p].cell] = s}

\* Variant: a shelf is deleted whatever lies on it.
MayDeleteShelf_Always(s) == TRUE

MayDeleteShelf(s) == \A p \in On(s) : ~Live(p)

StartDeleteShelf(r, s) ==
    /\ At(r, "unsent")
    /\ shelf[s] = "there"
    /\ MayDeleteShelf(s)
    /\ Read(r, [Unsent EXCEPT !.phase = "deleteShelf", !.shelf = s, !.products = On(s)])
    /\ UNCHANGED <<product, shelf, book, drifted>>

\* The cells go with the shelf; the products lose their cell and keep the shelf.
DeleteShelf(r) ==
    /\ At(r, "deleteShelf")
    /\ shelf[request[r].shelf] = "there"
    /\ shelf' = [shelf EXCEPT ![request[r].shelf] = "gone"]
    /\ product' = [p \in Products |-> IF p \in On(request[r].shelf)
                                      THEN [product[p] EXCEPT !.cell = None] ELSE product[p]]
    /\ End(r)
    /\ UNCHANGED <<book, drifted>>

----------------------------------------------------------------------------

Start(r) ==
    \/ \E p \in Products, stock \in Stock \cup {Keep}, cell \in Cells \cup {None, Keep} :
          StartEdit(r, p, stock, cell)
    \/ \E p \in Products, kind \in Kinds \ {"EDIT"}, q \in Stock : StartMovement(r, p, kind, q)
    \/ \E p \in Products : StartArchive(r, p)
    \/ \E ps \in (SUBSET Products) \ {{}}, cell \in Cells \cup {None}, bulk \in BOOLEAN :
          StartAssign(r, ps, cell, bulk)
    \/ \E s \in Shelves : StartDeleteShelf(r, s)

Continue(r) ==
    \/ Resolve(r)
    \/ Write(r)
    \/ Record(r)
    \/ Archive(r)
    \/ Assign(r)
    \/ DeleteShelf(r)
    \/ Fail(r)

Next ==
    \/ \E r \in Requests : Start(r) \/ Continue(r)
    \/ \E p \in Products, stock \in Stock, cell \in Cells \cup {None} : CreateProduct(p, stock, cell)
    \/ \E p \in Products, q \in Stock \ {0} : Take(p, q) \/ Return(p, q)
    \/ \E s \in Shelves : CreateShelf(s)

Spec == Init /\ [][Next]_vars

----------------------------------------------------------------------------
(* Properties *)

TypeOK ==
    /\ product \in [Products -> ProductRow]
    /\ shelf \in [Shelves -> {"new", "there", "gone"}]
    /\ book \in [Products -> Int]
    /\ request \in [Requests -> Request]
    /\ drifted \subseteq Products

\* The requests that have written the stock of p and not yet its movement, and
\* what their movements add and take.
Recording(p) == {r \in Requests : At(r, "record") /\ request[r].products = {p}}
Moved(r) == Signed(request[r].kind, request[r].quantity)
Added == [r \in Requests |-> IF Moved(r) > 0 THEN Moved(r) ELSE 0]
Taken == [r \in Requests |-> IF Moved(r) < 0 THEN -Moved(r) ELSE 0]

Pending(p) == Total(Recording(p), Added) - Total(Recording(p), Taken)

\* The stock is the sum of the movements, but for a row written back over a change
\* made meanwhile, a count, an edited stock, and a movement that was lost.
StockFollowsMovements ==
    \A p \in Products \ drifted : product[p].stock = book[p] + Pending(p)

\* A product lies in a cell that is there.
CellIsThere == \A p \in Products : product[p].cell # None => There(product[p].cell)

\* Types, cells and stock.
WarehouseConsistent == TypeOK /\ CellIsThere /\ StockFollowsMovements

Placed(p) == product[p].cell # None => product[p].shelf = ShelfOf[product[p].cell]

\* A product's shelf stops being that of its cell only in a write that read the
\* product when it had no cell; and a shelf that is deleted takes its place only
\* from a product that was put there after the shelf was found empty.
PlaceLostOnlyWhenOutdated ==
    [][/\ \A p \in Products :
             Placed(p) /\ ~(Placed(p)') =>
                \E r \in Requests : At(r, "write") /\ request[r].products = {p}
                                      /\ request[r].row.cell = None /\ request[r].cell = Keep
       /\ \A s \in Shelves : \A p \in On(s) :
             shelf[s] = "there" /\ shelf'[s] = "gone" /\ Live(p) =>
                \E r \in Requests : At(r, "deleteShelf") /\ request[r].shelf = s
                                      /\ p \notin request[r].products]_vars

----------------------------------------------------------------------------
(* Why it works: what a request holds fits the rows it will write. *)

\* A request for one product names a row that is there.
Single(r) == \E p \in Products : request[r].products = {p} /\ product[p].made

\* A cell to be written was there when it was read, so that it is gone for good
\* when it is not; no cell is to be written only for a row that had none.
CellFits(r) ==
    LET rq == request[r]
    IN  /\ rq.cell \in Cells => shelf[ShelfOf[rq.cell]] # "new"
        /\ rq.cell = Keep => rq.row.cell = None
        /\ rq.phase = "write" /\ There(rq.cell) => rq.place = ShelfOf[rq.cell]

RequestFits(r) ==
    LET rq == request[r]
    IN  /\ rq.phase \in {"resolve", "write", "record", "archive"} => Single(r)
        /\ rq.phase \in {"resolve", "write"} => rq.kind \in Kinds /\ CellFits(r)
        /\ rq.phase = "record" => rq.kind \in Kinds \ {"EDIT"}
        /\ rq.phase = "assign" => rq.cell # Keep /\ \A p \in rq.products : product[p].made
        /\ rq.phase = "deleteShelf" =>
              rq.shelf \in Shelves /\ \A p \in rq.products : product[p].made /\ product[p].deleted

\* Only a row that is there lies anywhere.
PlacedAreMade == \A p \in Products : product[p].cell # None => product[p].made

IInv == WarehouseConsistent /\ PlacedAreMade /\ \A r \in Requests : RequestFits(r)
==============================================================================
