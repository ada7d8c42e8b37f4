--------------------------- MODULE WarehouseProofs ---------------------------
(***************************************************************************)
(* Proofs about Warehouse for every number of products, shelves, cells and *)
(* requests.                                                               *)
(*                                                                         *)
(* Rows that are there stay there, archived rows stay archived, and shelves *)
(* go one way: new, there, gone (Onwards).  So what a request read of the   *)
(* row and the cell it names still holds, in the form RequestFits gives it, *)
(* when it writes.                                                         *)
(***************************************************************************)
EXTENDS Warehouse, TotalsProofs, TLAPS

----------------------------------------------------------------------------
(* Types *)

LEMMA RowsTyped ==
    /\ Blank \in ProductRow
    /\ Unsent \in Request
    /\ [Unsent EXCEPT !.phase = "done"] \in Request
<1>1. Blank \in ProductRow
  BY SizesAssumption DEF Blank, ProductRow, Stock
<1>2. Unsent \in Request
  BY <1>1, SizesAssumption DEF Unsent, Request, Stock
<1>3. [Unsent EXCEPT !.phase = "done"] \in Request
  BY <1>2 DEF Request
<1>4. QED
  BY <1>1, <1>2, <1>3

LEMMA SignedType ==
    ASSUME NEW kind, NEW q \in Stock
    PROVE  Signed(kind, q) \in Int
BY SizesAssumption DEF Signed, Stock

LEMMA TheProductIs ==
    ASSUME NEW r \in Requests, NEW p \in Products, request[r].products = {p}
    PROVE  TheProduct(r) = p
BY DEF TheProduct

LEMMA EndType ==
    ASSUME TypeOK, NEW r \in Requests, End(r)
    PROVE  request' \in [Requests -> Request]
BY RowsTyped DEF TypeOK, End

LEMMA InitType == Init => TypeOK
BY RowsTyped DEF Init, TypeOK

LEMMA ArchivedRow ==
    ASSUME TypeOK, NEW r \in Requests, NEW p \in Products, TheProduct(r) = p, Archive(r)
    PROVE  /\ product' \in [Products -> ProductRow]
           /\ product'[p].cell = None /\ product'[p].deleted
           /\ product'[p].made = product[p].made /\ product'[p].stock = product[p].stock
           /\ product'[p].shelf = product[p].shelf
           /\ \A q \in Products \ {p} : product'[q] = product[q]
<1> DEFINE Archived(row) == [row EXCEPT !.deleted = TRUE, !.cell = None]
<1>1. \A row \in ProductRow :
         /\ Archived(row) \in ProductRow
         /\ Archived(row).cell = None /\ Archived(row).deleted
         /\ Archived(row).made = row.made /\ Archived(row).stock = row.stock
         /\ Archived(row).shelf = row.shelf
  BY DEF ProductRow
<1>2. product' = [product EXCEPT ![p].deleted = TRUE, ![p].cell = None]
  BY DEF Archive
<1>3. product' = [product EXCEPT ![p] = Archived(product[p])]
  BY <1>2 DEF TypeOK
<1>4. product \in [Products -> ProductRow] /\ product[p] \in ProductRow
  BY DEF TypeOK
<1> HIDE DEF Archived
<1>5. product'[p] = Archived(product[p])
  BY <1>3, <1>4
<1>6. product' \in [Products -> ProductRow] /\ \A q \in Products \ {p} : product'[q] = product[q]
  BY <1>1, <1>3, <1>4
<1> QED
  BY <1>1, <1>4, <1>5, <1>6

LEMMA AssignedRow ==
    ASSUME TypeOK, NEW r \in Requests, NEW p \in Products, Assign(r)
    PROVE  /\ product'[p].made = product[p].made /\ product'[p].deleted = product[p].deleted
           /\ product'[p].stock = product[p].stock
           /\ product'[p].cell = IF p \in request[r].products THEN request[r].cell
                                 ELSE product[p].cell
<1>1. PICK s : product' = [q \in Products |->
         IF q \in request[r].products THEN [product[q] EXCEPT !.cell = request[r].cell, !.shelf = s]
         ELSE product[q]]
  BY DEF Assign
<1>2. product'[p] = IF p \in request[r].products
                    THEN [product[p] EXCEPT !.cell = request[r].cell, !.shelf = s] ELSE product[p]
  BY <1>1, Zenon
<1>3. product[p] \in ProductRow
  BY DEF TypeOK
<1> QED
  BY <1>2, <1>3 DEF ProductRow

\* A request begins with what it reads, and writes nothing yet.
LEMMA StartReads ==
    ASSUME NEW r \in Requests, Start(r)
    PROVE  /\ At(r, "unsent") /\ UNCHANGED <<product, shelf, book, drifted>>
           /\ \E fields : Read(r, fields) /\ fields.phase # "record"
<1>1. ASSUME NEW p \in Products, NEW stock \in Stock \cup {Keep},
             NEW cell \in Cells \cup {None, Keep}, StartEdit(r, p, stock, cell)
      PROVE  \E fields : Read(r, fields) /\ fields.phase # "record"
  <2> DEFINE fields == [Unsent EXCEPT !.phase = "resolve", !.products = {p}, !.kind = "EDIT",
          !.row = product[p], !.stock = IF stock = Keep THEN product[p].stock ELSE stock,
          !.cell = IF cell = Keep THEN CellOf(product[p]) ELSE cell]
  <2>1. Read(r, fields)
    BY <1>1, Zenon DEF StartEdit
  <2>2. fields.phase = "resolve"
    BY DEF Unsent
  <2> HIDE DEF fields
  <2> QED
    BY <2>1, <2>2
<1>2. ASSUME NEW p \in Products, NEW kind \in Kinds \ {"EDIT"}, NEW q \in Stock,
             StartMovement(r, p, kind, q)
      PROVE  \E fields : Read(r, fields) /\ fields.phase # "record"
  <2> DEFINE fields == [Unsent EXCEPT !.phase = "resolve", !.products = {p}, !.kind = kind,
          !.quantity = q, !.row = product[p], !.cell = CellOf(product[p]),
          !.stock = IF kind = "ADJUSTMENT" THEN q ELSE product[p].stock + Signed(kind, q)]
  <2>1. Read(r, fields)
    BY <1>2, Zenon DEF StartMovement
  <2>2. fields.phase = "resolve"
    BY DEF Unsent
  <2> HIDE DEF fields
  <2> QED
    BY <2>1, <2>2
<1>3. ASSUME NEW p \in Products, StartArchive(r, p)
      PROVE  \E fields : Read(r, fields) /\ fields.phase # "record"
  <2> DEFINE fields == [Unsent EXCEPT !.phase = "archive", !.products = {p}]
  <2>1. Read(r, fields)
    BY <1>3, Zenon DEF StartArchive
  <2>2. fields.phase = "archive"
    BY DEF Unsent
  <2> HIDE DEF fields
  <2> QED
    BY <2>1, <2>2
<1>4. ASSUME NEW ps \in (SUBSET Products) \ {{}}, NEW cell \in Cells \cup {None},
             NEW bulk \in BOOLEAN, StartAssign(r, ps, cell, bulk)
      PROVE  \E fields : Read(r, fields) /\ fields.phase # "record"
  <2> DEFINE fields == [Unsent EXCEPT !.phase = "assign", !.products = ps, !.cell = cell]
  <2>1. Read(r, fields)
    BY <1>4, Zenon DEF StartAssign
  <2>2. fields.phase = "assign"
    BY DEF Unsent
  <2> HIDE DEF fields
  <2> QED
    BY <2>1, <2>2
<1>5. ASSUME NEW s \in Shelves, StartDeleteShelf(r, s)
      PROVE  \E fields : Read(r, fields) /\ fields.phase # "record"
  <2> DEFINE fields == [Unsent EXCEPT !.phase = "deleteShelf", !.shelf = s, !.products = On(s)]
  <2>1. Read(r, fields)
    BY <1>5, Zenon DEF StartDeleteShelf
  <2>2. fields.phase = "deleteShelf"
    BY DEF Unsent
  <2> HIDE DEF fields
  <2> QED
    BY <2>1, <2>2
<1>6. At(r, "unsent") /\ UNCHANGED <<product, shelf, book, drifted>>
  BY Zenon DEF Start, StartEdit, StartMovement, StartArchive, StartAssign, StartDeleteShelf
<1> QED
  BY <1>1, <1>2, <1>3, <1>4, <1>5, <1>6, Zenon DEF Start

LEMMA StartType ==
    ASSUME TypeOK, NEW r \in Requests, Start(r)
    PROVE  TypeOK'
<1> USE SizesAssumption
<1>1. PICK args \in Request : Read(r, args) /\ UNCHANGED <<product, shelf, book, drifted>>
  <2>1. ASSUME NEW p \in Products, NEW stock \in Stock \cup {Keep},
               NEW cell \in Cells \cup {None, Keep}, StartEdit(r, p, stock, cell)
        PROVE  \E args \in Request : Read(r, args) /\ UNCHANGED <<product, shelf, book, drifted>>
    <3> DEFINE level == IF stock = Keep THEN product[p].stock ELSE stock
               place == IF cell = Keep THEN CellOf(product[p]) ELSE cell
               args == [Unsent EXCEPT !.phase = "resolve", !.products = {p}, !.kind = "EDIT",
                          !.row = product[p], !.stock = level, !.cell = place]
    <3>1. product[p] \in ProductRow
      BY DEF TypeOK
    <3>2. CellOf(product[p]) \in Cells \cup {None, Keep} /\ product[p].stock \in Stock
      BY <3>1 DEF ProductRow, CellOf
    <3>3. level \in Stock /\ place \in Cells \cup {None, Keep}
      BY <3>2
    <3>4. args \in Request
      <4> HIDE DEF level, place
      <4>1. QED
        BY <3>1, <3>3, RowsTyped DEF Unsent, Request, Kinds
    <3>5. QED
      BY <2>1, <3>4 DEF StartEdit
  <2>2. ASSUME NEW p \in Products, NEW kind \in Kinds \ {"EDIT"}, NEW q \in Stock,
               StartMovement(r, p, kind, q)
        PROVE  \E args \in Request : Read(r, args) /\ UNCHANGED <<product, shelf, book, drifted>>
    <3> DEFINE level == IF kind = "ADJUSTMENT" THEN q ELSE product[p].stock + Signed(kind, q)
               args == [Unsent EXCEPT !.phase = "resolve", !.products = {p}, !.kind = kind,
                          !.quantity = q, !.row = product[p], !.cell = CellOf(product[p]),
                          !.stock = level]
    <3>1. product[p] \in ProductRow
      BY DEF TypeOK
    <3>2. CellOf(product[p]) \in Cells \cup {None, Keep} /\ product[p].stock \in Stock
      BY <3>1 DEF ProductRow, CellOf
    <3>3. level \in Stock
      BY <2>2, <3>2 DEF StartMovement, Kinds, Signed, Stock, CanDecrement
    <3>4. args \in Request
      <4> HIDE DEF level
      <4>1. QED
        BY <3>1, <3>2, <3>3 DEF Unsent, Request, Kinds, Stock
    <3>5. QED
      BY <2>2, <3>4 DEF StartMovement
  <2>3. ASSUME NEW p \in Products, StartArchive(r, p)
        PROVE  \E args \in Request : Read(r, args) /\ UNCHANGED <<product, shelf, book, drifted>>
    <3>1. [Unsent EXCEPT !.phase = "archive", !.products = {p}] \in Request
      BY RowsTyped DEF Unsent, Request
    <3>2. QED
      BY <2>3, <3>1 DEF StartArchive
  <2>4. ASSUME NEW ps \in (SUBSET Products) \ {{}}, NEW cell \in Cells \cup {None},
               NEW bulk \in BOOLEAN, StartAssign(r, ps, cell, bulk)
        PROVE  \E args \in Request : Read(r, args) /\ UNCHANGED <<product, shelf, book, drifted>>
    <3>1. [Unsent EXCEPT !.phase = "assign", !.products = ps, !.cell = cell] \in Request
      BY RowsTyped DEF Unsent, Request
    <3>2. QED
      BY <2>4, <3>1 DEF StartAssign
  <2>5. ASSUME NEW s \in Shelves, StartDeleteShelf(r, s)
        PROVE  \E args \in Request : Read(r, args) /\ UNCHANGED <<product, shelf, book, drifted>>
    <3>1. [Unsent EXCEPT !.phase = "deleteShelf", !.shelf = s, !.products = On(s)] \in Request
      BY RowsTyped DEF Unsent, Request, On
    <3>2. QED
      BY <2>5, <3>1 DEF StartDeleteShelf
  <2>6. QED
    BY <2>1, <2>2, <2>3, <2>4, <2>5 DEF Start
<1>2. QED
  BY <1>1 DEF TypeOK, Read

LEMMA ContinueType ==
    ASSUME TypeOK, NEW r \in Requests, RequestFits(r), Continue(r)
    PROVE  TypeOK'
<1> USE SizesAssumption
<1>0. request[r] \in Request
  BY DEF TypeOK
<1>1. Single(r) => \E p \in Products : TheProduct(r) = p /\ request[r].products = {p}
  BY TheProductIs DEF Single
<1>2. CASE Resolve(r)
  <2>1. PICK p \in Products : TheProduct(r) = p
    BY <1>1, <1>2 DEF Resolve, At, RequestFits
  <2>2. product[p] \in ProductRow
    BY DEF TypeOK
  <2>3. PlaceFor(p, request[r].cell) \in Shelves \cup {None}
    BY <2>2, ShelfOfAssumption DEF PlaceFor, There, ProductRow
  <2>4. [request[r] EXCEPT !.phase = "write", !.place = PlaceFor(p, request[r].cell)] \in Request
    BY <1>0, <2>3 DEF Request
  <2>5. QED
    BY <1>2, <2>1, <2>4 DEF Resolve, TypeOK
<1>3. CASE Write(r)
  <2>1. PICK p \in Products : TheProduct(r) = p
    BY <1>1, <1>3 DEF Write, At, RequestFits
  <2>2. product[p] \in ProductRow
    BY DEF TypeOK
  <2>3. /\ request[r].stock \in Stock /\ request[r].place \in Shelves \cup {None}
        /\ request[r].cell \in Cells \cup {None, Keep}
    BY <1>0 DEF Request
  <2>4. [product[p] EXCEPT !.stock = request[r].stock, !.shelf = request[r].place,
             !.cell = IF request[r].cell = Keep THEN @ ELSE request[r].cell] \in ProductRow
    BY <2>2, <2>3 DEF ProductRow
  <2>5. product' \in [Products -> ProductRow]
    <3>1. product' = [product EXCEPT ![p] =
             [product[p] EXCEPT !.stock = request[r].stock, !.shelf = request[r].place,
                 !.cell = IF request[r].cell = Keep THEN @ ELSE request[r].cell]]
      BY <1>3, <2>1 DEF Write, TypeOK
    <3>2. QED
      BY <2>4, <3>1 DEF TypeOK
  <2>6. request' \in [Requests -> Request]
    <3>1. [request[r] EXCEPT !.phase = "record"] \in Request
      BY <1>0 DEF Request
    <3>2. QED
      BY <1>3, <3>1, EndType DEF Write, TypeOK
  <2>7. drifted' \subseteq Products
    BY <1>3, <2>1 DEF Write, TypeOK
  <2>8. QED
    BY <1>3, <2>5, <2>6, <2>7 DEF Write, TypeOK
<1>4. CASE Record(r)
  <2>1. Signed(request[r].kind, request[r].quantity) \in Int
    BY <1>0, SignedType DEF Request
  <2>2. PICK p \in Products : TheProduct(r) = p
    BY <1>1, <1>4 DEF Record, At, RequestFits
  <2>3. book' \in [Products -> Int]
    BY <1>4, <2>1, <2>2 DEF Record, TypeOK
  <2>4. QED
    BY <1>4, <2>3, EndType DEF Record, TypeOK
<1>5. CASE Archive(r)
  <2>1. PICK p \in Products : TheProduct(r) = p
    BY <1>1, <1>5 DEF Archive, At, RequestFits
  <2>2. product' \in [Products -> ProductRow]
    BY <1>5, <2>1, ArchivedRow
  <2>3. QED
    BY <1>5, <2>2, EndType DEF Archive, TypeOK
<1>6. CASE Assign(r)
  <2>1. request[r].cell \in Cells \cup {None}
    BY <1>0, <1>6 DEF Assign, At, RequestFits, Request
  <2>2. \A row \in ProductRow, c \in Cells \cup {None}, s \in Shelves \cup {None} :
           [row EXCEPT !.cell = c, !.shelf = s] \in ProductRow
    BY DEF ProductRow
  <2>3. PICK s \in Shelves \cup {None} :
           s = IF request[r].cell = None THEN None ELSE ShelfOf[request[r].cell]
    BY <2>1, ShelfOfAssumption
  <2>4. product' = [p \in Products |->
           IF p \in request[r].products
           THEN [product[p] EXCEPT !.cell = request[r].cell, !.shelf = s] ELSE product[p]]
    BY <1>6, <2>3 DEF Assign
  <2>5. product' \in [Products -> ProductRow]
    BY <2>1, <2>2, <2>4 DEF TypeOK
  <2>6. QED
    BY <1>6, <2>5, EndType DEF Assign, TypeOK
<1>7. CASE DeleteShelf(r)
  <2>1. product' \in [Products -> ProductRow]
    BY <1>7 DEF DeleteShelf, TypeOK, ProductRow
  <2>2. QED
    BY <1>7, <2>1, EndType DEF DeleteShelf, TypeOK
<1>8. CASE Fail(r)
  <2>1. drifted' \subseteq Products
    BY <1>0, <1>8 DEF Fail, TypeOK, Request
  <2>2. QED
    BY <1>8, <2>1, EndType DEF Fail, TypeOK
<1>9. QED
  BY <1>2, <1>3, <1>4, <1>5, <1>6, <1>7, <1>8 DEF Continue

LEMMA OtherType ==
    ASSUME TypeOK
    PROVE  /\ \A p \in Products, stock \in Stock, cell \in Cells \cup {None} :
                 CreateProduct(p, stock, cell) => TypeOK'
           /\ \A p \in Products, q \in Stock \ {0} : Take(p, q) \/ Return(p, q) => TypeOK'
           /\ \A s \in Shelves : CreateShelf(s) => TypeOK'
<1> USE SizesAssumption
<1>1. ASSUME NEW p \in Products, NEW stock \in Stock, NEW cell \in Cells \cup {None},
             CreateProduct(p, stock, cell)
      PROVE  TypeOK'
  <2>1. [made |-> TRUE, deleted |-> FALSE, stock |-> stock, cell |-> cell,
         shelf |-> IF cell = None THEN None ELSE ShelfOf[cell]] \in ProductRow
    BY ShelfOfAssumption DEF ProductRow
  <2>2. stock \in Int
    BY DEF Stock
  <2>3. QED
    BY <1>1, <2>1, <2>2 DEF CreateProduct, TypeOK
<1>2. ASSUME NEW p \in Products, NEW q \in Stock \ {0}, Take(p, q) \/ Return(p, q)
      PROVE  TypeOK'
  <2>1. product[p] \in ProductRow /\ product[p].stock \in Stock
    BY DEF TypeOK, ProductRow
  <2>2. \A kind : Signed(kind, q) \in Int
    BY SignedType
  <2>3. book' \in [Products -> Int]
    BY <1>2, <2>2 DEF Take, Return, TypeOK
  <2>4. product' \in [Products -> ProductRow]
    <3>1. CASE Take(p, q)
      <4>1. product[p].stock - q \in Stock
        BY <2>1, <3>1 DEF Take, Stock
      <4>2. QED
        BY <2>1, <3>1, <4>1 DEF Take, TypeOK, ProductRow
    <3>2. CASE Return(p, q)
      <4>1. product[p].stock + q \in Stock
        BY <2>1, <3>2 DEF Return, Stock
      <4>2. QED
        BY <2>1, <3>2, <4>1 DEF Return, TypeOK, ProductRow
    <3>3. QED
      BY <1>2, <3>1, <3>2
  <2>5. QED
    BY <1>2, <2>3, <2>4 DEF Take, Return, TypeOK
<1>3. ASSUME NEW s \in Shelves, CreateShelf(s)
      PROVE  TypeOK'
  BY <1>3 DEF CreateShelf, TypeOK
<1>4. QED
  BY <1>1, <1>2, <1>3

----------------------------------------------------------------------------
(* Onwards *)

\* Rows stay, archived ones stay archived, and a shelf that was made is deleted
\* once.
Onwards ==
    /\ \A p \in Products : product[p].made => product'[p].made
    /\ \A p \in Products : product[p].made /\ product[p].deleted => product'[p].deleted
    /\ \A s \in Shelves : shelf[s] # "new" =>
          shelf'[s] # "new" /\ (shelf'[s] = "there" => shelf[s] = "there")

LEMMA StepOnwards ==
    ASSUME TypeOK, \A r \in Requests : RequestFits(r), Next
    PROVE  Onwards
<1>1. CASE UNCHANGED <<product, shelf>>
  BY <1>1 DEF Onwards
<1>2. ASSUME NEW r \in Requests, Continue(r)
      PROVE  Onwards
  <2>1. RequestFits(r)
    OBVIOUS
  <2>2. Single(r) => \E p \in Products : TheProduct(r) = p
    BY TheProductIs DEF Single
  <2>3. CASE Write(r)
    <3>1. PICK p \in Products : TheProduct(r) = p
      BY <2>1, <2>2, <2>3 DEF Write, At, RequestFits
    <3>2. product[p] \in ProductRow
      BY DEF TypeOK
    <3>3. /\ product'[p].made = product[p].made /\ product'[p].deleted = product[p].deleted
          /\ \A q \in Products \ {p} : product'[q] = product[q]
      BY <2>3, <3>1, <3>2 DEF Write, TypeOK, ProductRow
    <3>4. shelf' = shelf
      BY <2>3 DEF Write
    <3>5. QED
      BY <3>3, <3>4 DEF Onwards
  <2>4. CASE Archive(r)
    <3>1. PICK p \in Products : TheProduct(r) = p
      BY <2>1, <2>2, <2>4 DEF Archive, At, RequestFits
    <3>2. /\ product'[p].made = product[p].made /\ product'[p].deleted
          /\ \A q \in Products \ {p} : product'[q] = product[q]
      BY <2>4, <3>1, ArchivedRow
    <3>3. shelf' = shelf
      BY <2>4 DEF Archive
    <3>4. QED
      BY <3>2, <3>3 DEF Onwards
  <2>5. CASE Assign(r)
    <3>1. \A q \in Products :
             product'[q].made = product[q].made /\ product'[q].deleted = product[q].deleted
      BY <2>5, AssignedRow
    <3>2. shelf' = shelf
      BY <2>5 DEF Assign
    <3> QED
      BY <3>1, <3>2 DEF Onwards
  <2>6. CASE DeleteShelf(r)
    <3>1. \A q \in Products :
              product'[q].made = product[q].made /\ product'[q].deleted = product[q].deleted
      BY <2>6 DEF DeleteShelf, TypeOK, ProductRow
    <3>2. \A s \in Shelves : shelf'[s] = IF s = request[r].shelf THEN "gone" ELSE shelf[s]
      BY <2>6 DEF DeleteShelf, TypeOK
    <3>3. QED
      BY <3>1, <3>2 DEF Onwards
  <2>7. CASE Resolve(r) \/ Record(r) \/ Fail(r)
    BY <1>1, <2>7 DEF Resolve, Record, Fail
  <2>8. QED
    BY <1>2, <2>3, <2>4, <2>5, <2>6, <2>7 DEF Continue
<1>3. ASSUME NEW r \in Requests, Start(r)
      PROVE  Onwards
  BY <1>1, <1>3, StartReads
<1>4. ASSUME NEW p \in Products, NEW stock \in Stock, NEW cell \in Cells \cup {None},
             CreateProduct(p, stock, cell)
      PROVE  Onwards
  BY <1>4 DEF CreateProduct, TypeOK, Onwards
<1>5. ASSUME NEW p \in Products, NEW q \in Stock \ {0}, Take(p, q) \/ Return(p, q)
      PROVE  Onwards
  <2>1. PICK level : product' = [product EXCEPT ![p].stock = level] /\ shelf' = shelf
    BY <1>5, Zenon DEF Take, Return
  <2>2. product[p] \in ProductRow
    BY DEF TypeOK
  <2> QED
    BY <2>1, <2>2 DEF TypeOK, ProductRow, Onwards
<1>6. ASSUME NEW s \in Shelves, CreateShelf(s)
      PROVE  Onwards
  BY <1>6 DEF CreateShelf, TypeOK, Onwards
<1>7. QED
  BY <1>2, <1>3, <1>4, <1>5, <1>6 DEF Next

----------------------------------------------------------------------------
(* What a request holds fits the rows *)

LEMMA FitsKept ==
    ASSUME TypeOK, Onwards, NEW q \in Requests, request'[q] = request[q], RequestFits(q)
    PROVE  RequestFits(q)'
<1>1. Single(q) => Single(q)'
  BY DEF Single, Onwards
<1>2. CellFits(q) => CellFits(q)'
  BY ShelfOfAssumption DEF CellFits, There, Onwards
<1>3. \A p \in request[q].products : p \in Products
  BY DEF TypeOK, Request
<1>4. QED
  BY <1>1, <1>2, <1>3 DEF RequestFits, Onwards

LEMMA EndFits ==
    ASSUME TypeOK, NEW r \in Requests, End(r)
    PROVE  RequestFits(r)'
<1>1. request'[r].phase = "done"
  BY DEF End, TypeOK, Unsent
<1>2. QED
  BY <1>1 DEF RequestFits

\* A cell that a live row has, or that is asked for, was made.
LEMMA StartFits ==
    ASSUME TypeOK, CellIsThere, PlacedAreMade, NEW r \in Requests, Start(r)
    PROVE  RequestFits(r)'
<1> USE NullsAssumption
<1>1. ASSUME NEW p \in Products, Live(p)
      PROVE  /\ product[p].made
             /\ CellOf(product[p]) \in Cells => shelf[ShelfOf[CellOf(product[p])]] # "new"
             /\ CellOf(product[p]) = Keep => product[p].cell = None
  <2>1. product[p] \in ProductRow
    BY DEF TypeOK
  <2>2. QED
    BY <1>1, <2>1 DEF Live, CellOf, CellIsThere, There, ProductRow
<1>2. ASSUME NEW p \in Products, NEW stock \in Stock \cup {Keep},
             NEW cell \in Cells \cup {None, Keep}, StartEdit(r, p, stock, cell)
      PROVE  RequestFits(r)'
  <2>1. Live(p) /\ (cell \in Cells => shelf[ShelfOf[cell]] # "new")
    BY <1>2 DEF StartEdit
  <2>2. PICK c : c = IF cell = Keep THEN CellOf(product[p]) ELSE cell
    OBVIOUS
  <2>3. (c \in Cells => shelf[ShelfOf[c]] # "new") /\ (c = Keep => product[p].cell = None)
    BY <1>1, <2>1, <2>2
  <2>4. /\ request'[r].phase = "resolve" /\ request'[r].products = {p}
        /\ request'[r].kind = "EDIT" /\ request'[r].row = product[p] /\ request'[r].cell = c
        /\ product' = product /\ shelf' = shelf
    BY <1>2, <2>2 DEF StartEdit, Read, TypeOK, Unsent
  <2>5. Single(r)'
    BY <1>1, <2>1, <2>4 DEF Single
  <2>6. CellFits(r)'
    BY <2>3, <2>4 DEF CellFits
  <2>7. QED
    BY <2>4, <2>5, <2>6 DEF RequestFits, Kinds
<1>3. ASSUME NEW p \in Products, NEW kind \in Kinds \ {"EDIT"}, NEW q \in Stock,
             StartMovement(r, p, kind, q)
      PROVE  RequestFits(r)'
  <2>1. Live(p)
    BY <1>3 DEF StartMovement
  <2>2. /\ request'[r].phase = "resolve" /\ request'[r].products = {p}
        /\ request'[r].kind = kind /\ request'[r].row = product[p]
        /\ request'[r].cell = CellOf(product[p])
        /\ product' = product /\ shelf' = shelf
    BY <1>3 DEF StartMovement, Read, TypeOK, Unsent
  <2>3. Single(r)'
    BY <1>1, <2>1, <2>2 DEF Single
  <2>4. CellFits(r)'
    BY <1>1, <2>1, <2>2 DEF CellFits
  <2>5. QED
    BY <2>2, <2>3, <2>4 DEF RequestFits
<1>4. ASSUME NEW p \in Products, StartArchive(r, p)
      PROVE  RequestFits(r)'
  <2>1. /\ request'[r].phase = "archive" /\ request'[r].products = {p}
        /\ product' = product /\ product[p].made
    BY <1>4 DEF StartArchive, Read, TypeOK, Unsent, Live
  <2>2. Single(r)'
    BY <2>1 DEF Single
  <2>3. QED
    BY <2>1, <2>2 DEF RequestFits
<1>5. ASSUME NEW ps \in (SUBSET Products) \ {{}}, NEW cell \in Cells \cup {None},
             NEW bulk \in BOOLEAN, StartAssign(r, ps, cell, bulk)
      PROVE  RequestFits(r)'
  <2>1. /\ request'[r].phase = "assign" /\ request'[r].products = ps
        /\ request'[r].cell = cell /\ product' = product
        /\ \A p \in ps : product[p].made
    BY <1>5 DEF StartAssign, Read, TypeOK, Unsent
  <2>2. QED
    BY <2>1 DEF RequestFits
<1>6. ASSUME NEW s \in Shelves, StartDeleteShelf(r, s)
      PROVE  RequestFits(r)'
  <2>1. /\ request'[r].phase = "deleteShelf" /\ request'[r].products = On(s)
        /\ request'[r].shelf = s /\ product' = product
        /\ \A p \in On(s) : ~Live(p)
    BY <1>6 DEF StartDeleteShelf, MayDeleteShelf, Read, TypeOK, Unsent
  <2>2. \A p \in On(s) : product[p].made /\ product[p].deleted
    BY <2>1 DEF On, Live, PlacedAreMade
  <2>3. QED
    BY <2>1, <2>2 DEF RequestFits
<1>7. QED
  BY <1>2, <1>3, <1>4, <1>5, <1>6 DEF Start

LEMMA ContinueFits ==
    ASSUME TypeOK, NEW r \in Requests, RequestFits(r), Onwards, Continue(r)
    PROVE  RequestFits(r)'
<1> USE NullsAssumption
<1>1. request[r] \in Request
  BY DEF TypeOK
<1>2. CASE Resolve(r)
  <2>1. PICK p \in Products : request[r].products = {p} /\ product[p].made
    BY <1>2 DEF Resolve, At, RequestFits, Single
  <2>2. TheProduct(r) = p
    BY <2>1, TheProductIs
  <2>3. PICK c : c = request[r].cell
    OBVIOUS
  <2>4. /\ request[r].kind \in Kinds
        /\ c \in Cells => shelf[ShelfOf[c]] # "new"
        /\ c = Keep => request[r].row.cell = None
    BY <1>2, <2>3 DEF Resolve, At, RequestFits, CellFits
  <2>5. /\ request'[r].phase = "write" /\ request'[r].products = {p} /\ request'[r].cell = c
        /\ request'[r].kind = request[r].kind /\ request'[r].row = request[r].row
        /\ request'[r].place = PlaceFor(p, c)
        /\ product' = product /\ shelf' = shelf
    BY <1>1, <1>2, <2>1, <2>2, <2>3 DEF Resolve, TypeOK, Request
  <2>6. There(c) => PlaceFor(p, c) = ShelfOf[c]
    BY DEF PlaceFor
  <2>7. CellFits(r)'
    BY <2>4, <2>5, <2>6 DEF CellFits, There
  <2>8. Single(r)'
    BY <2>1, <2>5 DEF Single
  <2>9. QED
    BY <2>4, <2>5, <2>7, <2>8 DEF RequestFits
<1>3. CASE Write(r) /\ request[r].kind # "EDIT"
  <2>1. PICK p \in Products : request[r].products = {p} /\ product[p].made
    BY <1>3 DEF Write, At, RequestFits, Single
  <2>2. request[r].kind \in Kinds
    BY <1>3 DEF Write, At, RequestFits
  <2>3. /\ request'[r].phase = "record" /\ request'[r].products = {p}
        /\ request'[r].kind = request[r].kind
    BY <1>1, <1>3, <2>1 DEF Write, TypeOK, Request
  <2>4. product'[p].made
    BY <2>1 DEF Onwards
  <2>5. Single(r)'
    BY <2>3, <2>4 DEF Single
  <2>6. QED
    BY <1>3, <2>2, <2>3, <2>5 DEF RequestFits
<1>4. CASE End(r)
  BY <1>4, EndFits
<1>5. QED
  BY <1>2, <1>3, <1>4 DEF Continue, Write, Record, Archive, Assign, DeleteShelf, Fail

\* A step of one request leaves the others alone.
LEMMA OthersKept ==
    ASSUME TypeOK, NEW r \in Requests, Start(r) \/ Continue(r), NEW q \in Requests, q # r
    PROVE  request'[q] = request[q]
<1>1. \A fields : Read(r, fields) => request'[q] = request[q]
  BY DEF Read, TypeOK
<1>2. End(r) => request'[q] = request[q]
  BY DEF End, TypeOK
<1>3. Resolve(r) \/ Write(r) => request'[q] = request[q]
  BY <1>2 DEF Resolve, Write, TypeOK
<1>4. QED
  BY <1>1, <1>2, <1>3
     DEF Start, StartEdit, StartMovement, StartArchive, StartAssign, StartDeleteShelf,
         Continue, Record, Archive, Assign, DeleteShelf, Fail

\* A step that leaves alone the rows and the places.
LEMMA CellsKept ==
    ASSUME CellIsThere, PlacedAreMade, UNCHANGED <<product, shelf>>
    PROVE  CellIsThere' /\ PlacedAreMade'
BY DEF CellIsThere, PlacedAreMade, There

\* Products lie in cells that are there, and only rows that are there do.
LEMMA CellsStay ==
    ASSUME TypeOK, TypeOK', CellIsThere, PlacedAreMade, \A r \in Requests : RequestFits(r),
           Next
    PROVE  CellIsThere' /\ PlacedAreMade'
<1> USE NullsAssumption
<1>1. ASSUME NEW r \in Requests, Continue(r)
      PROVE  CellIsThere' /\ PlacedAreMade'
  <2>1. RequestFits(r) /\ request[r] \in Request
    BY DEF TypeOK
  <2>2. CASE Write(r)
    <3>1. PICK p \in Products : request[r].products = {p} /\ product[p].made
      BY <2>1, <2>2 DEF Write, At, RequestFits, Single
    <3>2. TheProduct(r) = p
      BY <3>1, TheProductIs
    <3>3. /\ product'[p].cell = IF request[r].cell = Keep THEN product[p].cell
                                ELSE request[r].cell
          /\ product'[p].made
          /\ \A q \in Products \ {p} : product'[q] = product[q]
          /\ shelf' = shelf
          /\ request[r].cell \in Cells => There(request[r].cell)
      BY <2>2, <3>1, <3>2 DEF Write, TypeOK, ProductRow
    <3>4. request[r].cell \in Cells \cup {None, Keep}
      BY <2>1 DEF Request
    <3>5. product'[p].cell # None => There(product'[p].cell)
      BY <3>3, <3>4 DEF CellIsThere
    <3>6. \A q \in Products : product'[q].cell # None => There(product'[q].cell)
      BY <3>3, <3>5 DEF CellIsThere
    <3>7. CellIsThere'
      BY <3>3, <3>6 DEF CellIsThere, There
    <3>8. PlacedAreMade'
      BY <3>3 DEF PlacedAreMade
    <3>9. QED
      BY <3>7, <3>8
  <2>3. CASE Archive(r)
    <3>1. PICK p \in Products : request[r].products = {p}
      BY <2>1, <2>3 DEF Archive, At, RequestFits, Single
    <3>2. TheProduct(r) = p
      BY <3>1, TheProductIs
    <3>3. /\ product'[p].cell = None
          /\ \A q \in Products \ {p} : product'[q] = product[q]
          /\ shelf' = shelf
      BY <2>3, <3>2, ArchivedRow DEF Archive
    <3>4. QED
      BY <3>3 DEF CellIsThere, PlacedAreMade, There
  <2>4. CASE Assign(r)
    <3>1. \A p \in request[r].products : product[p].made
      BY <2>1, <2>4 DEF Assign, At, RequestFits
    <3>2. /\ request[r].cell # None => There(request[r].cell)
          /\ shelf' = shelf
          /\ \A p \in Products : /\ product'[p].made = product[p].made
                                 /\ product'[p].cell = IF p \in request[r].products
                                                       THEN request[r].cell ELSE product[p].cell
      BY <2>4, AssignedRow DEF Assign
    <3>3. CellIsThere'
      BY <3>2 DEF CellIsThere, There
    <3>4. PlacedAreMade'
      BY <3>1, <3>2 DEF PlacedAreMade
    <3>5. QED
      BY <3>3, <3>4
  <2>5. CASE DeleteShelf(r)
    <3>1. /\ \A s \in Shelves : s # request[r].shelf => shelf'[s] = shelf[s]
          /\ \A p \in Products : /\ product'[p].made = product[p].made
                                 /\ product'[p].cell = IF p \in On(request[r].shelf)
                                                       THEN None ELSE product[p].cell
      BY <2>5 DEF DeleteShelf, TypeOK, ProductRow
    <3>2. CellIsThere'
      BY <3>1, ShelfOfAssumption DEF CellIsThere, There, On
    <3>3. PlacedAreMade'
      BY <3>1 DEF PlacedAreMade
    <3>4. QED
      BY <3>2, <3>3
  <2>6. CASE Resolve(r) \/ Record(r) \/ Fail(r)
    BY <2>6, CellsKept DEF Resolve, Record, Fail
  <2>7. QED
    BY <1>1, <2>2, <2>3, <2>4, <2>5, <2>6 DEF Continue
<1>2. ASSUME NEW r \in Requests, Start(r)
      PROVE  CellIsThere' /\ PlacedAreMade'
  BY <1>2, CellsKept
     DEF Start, StartEdit, StartMovement, StartArchive, StartAssign, StartDeleteShelf
<1>3. ASSUME NEW p \in Products, NEW stock \in Stock, NEW cell \in Cells \cup {None},
             CreateProduct(p, stock, cell)
      PROVE  CellIsThere' /\ PlacedAreMade'
  <2>1. /\ product'[p].made /\ product'[p].cell = cell /\ shelf' = shelf
        /\ cell # None => There(cell)
        /\ \A q \in Products \ {p} : product'[q] = product[q]
    BY <1>3 DEF CreateProduct, TypeOK
  <2>2. QED
    BY <2>1 DEF CellIsThere, PlacedAreMade, There
<1>4. ASSUME NEW p \in Products, NEW q \in Stock \ {0}, Take(p, q) \/ Return(p, q)
      PROVE  CellIsThere' /\ PlacedAreMade'
  <2>1. /\ shelf' = shelf
        /\ \A x \in Products : product'[x].made = product[x].made
                                 /\ product'[x].cell = product[x].cell
    BY <1>4 DEF Take, Return, TypeOK, ProductRow
  <2>2. QED
    BY <2>1 DEF CellIsThere, PlacedAreMade, There
<1>5. ASSUME NEW s \in Shelves, CreateShelf(s)
      PROVE  CellIsThere' /\ PlacedAreMade'
  <2>1. product' = product /\ \A t \in Shelves : shelf[t] = "there" => shelf'[t] = "there"
    BY <1>5 DEF CreateShelf, TypeOK
  <2>2. QED
    BY <2>1, ShelfOfAssumption DEF CellIsThere, PlacedAreMade, There
<1>6. QED
  BY <1>1, <1>2, <1>3, <1>4, <1>5 DEF Next

----------------------------------------------------------------------------
(* Stock and movements *)

LEMMA MovedType ==
    ASSUME TypeOK, NEW r \in Requests
    PROVE  /\ Moved(r) \in Int /\ Added[r] \in Nat /\ Taken[r] \in Nat
           /\ Moved(r) = Added[r] - Taken[r]
<1>1. request[r].quantity \in Stock
  BY DEF TypeOK, Request
<1>2. Moved(r) \in Int
  BY <1>1, SignedType DEF Moved
<1>3. QED
  BY <1>2 DEF Added, Taken

LEMMA PendingType ==
    ASSUME TypeOK, NEW p
    PROVE  /\ Pending(p) \in Int /\ IsFiniteSet(Recording(p))
           /\ Total(Recording(p), Added) \in Nat /\ Total(Recording(p), Taken) \in Nat
<1>1. Recording(p) \subseteq Requests
  BY DEF Recording
<1>2. IsFiniteSet(Recording(p))
  BY <1>1, SizesAssumption, FS_Subset
<1>3. \A r \in Recording(p) : Added[r] \in Nat /\ Taken[r] \in Nat
  BY <1>1, MovedType
<1>4. Total(Recording(p), Added) \in Nat /\ Total(Recording(p), Taken) \in Nat
  BY <1>2, <1>3, TotalType
<1>5. QED
  BY <1>2, <1>4 DEF Pending

\* A movement written and still to be recorded counts, until it is recorded.
LEMMA PendingStep ==
    ASSUME TypeOK, TypeOK', NEW r \in Requests, NEW p,
           \A q \in Requests \ {r} : request'[q] = request[q]
    PROVE  Pending(p)' = Pending(p) - (IF r \in Recording(p) THEN Moved(r) ELSE 0)
                                    + (IF r \in Recording(p)' THEN Moved(r)' ELSE 0)
<1>1. PICK S : S = Recording(p) \ {r}
  OBVIOUS
<1>2. PICK S0 : S0 = Recording(p)
  OBVIOUS
<1>3. PICK S1 : S1 = Recording(p)'
  OBVIOUS
<1>4. PICK a0, t0, a1, t1 : a0 = Added /\ t0 = Taken /\ a1 = Added' /\ t1 = Taken'
  OBVIOUS
<1>5. PICK m0, m1 : m0 = Moved(r) /\ m1 = Moved(r)'
  OBVIOUS
<1>6. \A q \in Requests \ {r} : q \in S1 <=> q \in S0
  BY <1>2, <1>3 DEF Recording, At
<1>7. S0 \subseteq Requests /\ S1 \subseteq Requests /\ S \subseteq Requests /\ r \notin S
  BY <1>1, <1>2, <1>3 DEF Recording
<1>8. /\ S0 = IF r \in S0 THEN S \cup {r} ELSE S
      /\ S1 = IF r \in S1 THEN S \cup {r} ELSE S
  BY <1>1, <1>2, <1>6, <1>7
<1>9. IsFiniteSet(S)
  BY <1>7, SizesAssumption, FS_Subset
<1>10. \A q \in Requests \ {r} : Moved(q)' = Moved(q)
  BY DEF Moved
<1>11. \A q \in S : a0[q] = a1[q] /\ t0[q] = t1[q]
  BY <1>4, <1>7, <1>10 DEF Added, Taken
<1>12. \A q \in Requests : a0[q] \in Nat /\ t0[q] \in Nat
  BY <1>4, MovedType
<1>13. m0 \in Int /\ m0 = a0[r] - t0[r]
  BY <1>4, <1>5, MovedType
<1>14. m1 \in Int
  <2>1. request'[r].quantity \in Stock
    BY DEF TypeOK, Request
  <2>2. Signed(request'[r].kind, request'[r].quantity) \in Int
    BY <2>1, SignedType
  <2>3. QED
    BY <1>5, <2>2 DEF Moved
<1>15. a1[r] \in Nat /\ t1[r] \in Nat /\ m1 = a1[r] - t1[r]
  BY <1>4, <1>5, <1>14 DEF Added, Taken
<1>16. \A q \in S \cup {r} : a1[q] \in Nat /\ t1[q] \in Nat
  BY <1>7, <1>11, <1>12, <1>15
<1>17. Total(S, a0) = Total(S, a1) /\ Total(S, t0) = Total(S, t1)
  BY <1>11, TotalSame
<1>18. Total(S, a0) \in Nat /\ Total(S, t0) \in Nat
  BY <1>7, <1>9, <1>12, TotalType
<1>19. /\ Total(S \cup {r}, a0) = Total(S, a0) + a0[r]
       /\ Total(S \cup {r}, t0) = Total(S, t0) + t0[r]
  BY <1>7, <1>9, <1>12, TotalAdd
<1>20. /\ Total(S \cup {r}, a1) = Total(S, a1) + a1[r]
       /\ Total(S \cup {r}, t1) = Total(S, t1) + t1[r]
  BY <1>7, <1>9, <1>16, TotalAdd
<1>21. Total(S0, a0) - Total(S0, t0) =
          Total(S, a0) - Total(S, t0) + (IF r \in S0 THEN m0 ELSE 0)
  <2>1. CASE r \in S0
    <3>1. S0 = S \cup {r}
      BY <1>8, <2>1
    <3>2. a0[r] \in Nat /\ t0[r] \in Nat
      BY <1>12
    <3>3. QED
      BY <1>13, <1>18, <1>19, <2>1, <3>1, <3>2
  <2>2. CASE r \notin S0
    <3>1. S0 = S
      BY <1>8, <2>2
    <3>2. QED
      BY <1>18, <2>2, <3>1
  <2>3. QED
    BY <2>1, <2>2
<1>22. Total(S1, a1) - Total(S1, t1) =
          Total(S, a0) - Total(S, t0) + (IF r \in S1 THEN m1 ELSE 0)
  <2>1. CASE r \in S1
    <3>1. S1 = S \cup {r}
      BY <1>8, <2>1
    <3>2. QED
      BY <1>15, <1>17, <1>18, <1>20, <2>1, <3>1
  <2>2. CASE r \notin S1
    <3>1. S1 = S
      BY <1>8, <2>2
    <3>2. QED
      BY <1>17, <1>18, <2>2, <3>1
  <2>3. QED
    BY <2>1, <2>2
<1>23. Pending(p) = Total(S0, a0) - Total(S0, t0)
  BY <1>2, <1>4 DEF Pending
<1>24. Pending(p)' = Total(S1, a1) - Total(S1, t1)
  BY <1>3, <1>4 DEF Pending
<1>25. QED
  BY <1>2, <1>3, <1>5, <1>13, <1>14, <1>18, <1>21, <1>22, <1>23, <1>24

\* A step in which r neither was nor comes between a write and its movement.
LEMMA PendingAside ==
    ASSUME TypeOK, TypeOK', NEW r \in Requests, NEW p,
           \A q \in Requests \ {r} : request'[q] = request[q],
           r \notin Recording(p), r \notin Recording(p)'
    PROVE  Pending(p)' = Pending(p)
<1>1. Pending(p)' = Pending(p) - 0 + 0
  BY PendingStep
<1>2. QED
  BY <1>1, PendingType

LEMMA PendingSame ==
    ASSUME request' = request, NEW p
    PROVE  Pending(p)' = Pending(p)
BY DEF Pending, Recording, At, Added, Taken, Moved

\* The rows a step of a request writes, and what it makes of the account.
LEMMA ContinueFollows ==
    ASSUME TypeOK, TypeOK', StockFollowsMovements, NEW r \in Requests, RequestFits(r), Continue(r)
    PROVE  StockFollowsMovements'
<1> SUFFICES ASSUME NEW p \in Products, p \notin drifted'
             PROVE  product'[p].stock = book'[p] + Pending(p)'
  BY DEF StockFollowsMovements
<1>1. \A q \in Requests \ {r} : request'[q] = request[q]
  BY OthersKept
<1>2. p \notin drifted
  BY DEF Continue, Resolve, Write, Record, Archive, Assign, DeleteShelf, Fail
<1>3. product[p].stock = book[p] + Pending(p)
  BY <1>2 DEF StockFollowsMovements
<1>4. product[p].stock \in Int /\ book[p] \in Int /\ Pending(p) \in Int /\ Moved(r) \in Int
  <2>1. product[p].stock \in Stock
    BY DEF TypeOK, ProductRow
  <2>2. QED
    BY <2>1, PendingType, MovedType DEF TypeOK, Stock
<1>5. Pending(p)' = Pending(p) - (IF r \in Recording(p) THEN Moved(r) ELSE 0)
                               + (IF r \in Recording(p)' THEN Moved(r)' ELSE 0)
  BY <1>1, PendingStep
<1>6. End(r) => r \notin Recording(p)'
  <2>1. End(r) => request'[r].phase = "done"
    BY DEF End, TypeOK, Unsent
  <2>2. QED
    BY <2>1 DEF Recording, At
<1>7. request[r] \in Request
  BY DEF TypeOK
<1>8. CASE Resolve(r)
  <2>1. request[r].phase = "resolve" /\ request'[r].phase = "write"
    BY <1>7, <1>8 DEF Resolve, At, TypeOK, Request
  <2>2. r \notin Recording(p) /\ r \notin Recording(p)'
    BY <2>1 DEF Recording, At
  <2>3. Pending(p)' = Pending(p)
    BY <1>1, <2>2, PendingAside
  <2>4. QED
    BY <1>3, <1>8, <2>3 DEF Resolve
<1>9. CASE Archive(r) \/ Assign(r) \/ DeleteShelf(r)
  <2>1. r \notin Recording(p) /\ r \notin Recording(p)'
    BY <1>6, <1>9 DEF Archive, Assign, DeleteShelf, Recording, At
  <2>2. Pending(p)' = Pending(p)
    BY <1>1, <2>1, PendingAside
  <2>3. book' = book
    BY <1>9 DEF Archive, Assign, DeleteShelf
  <2>4. product'[p].stock = product[p].stock
    <3>1. CASE Archive(r)
      <4>1. PICK q \in Products : request[r].products = {q}
        BY <3>1 DEF Archive, At, RequestFits, Single
      <4>2. TheProduct(r) = q
        BY <4>1, TheProductIs
      <4>3. QED
        BY <3>1, <4>2, ArchivedRow
    <3>2. CASE Assign(r)
      BY <3>2, AssignedRow
    <3>3. CASE DeleteShelf(r)
      BY <3>3 DEF DeleteShelf, TypeOK, ProductRow
    <3>4. QED
      BY <1>9, <3>1, <3>2, <3>3
  <2>5. QED
    BY <1>3, <2>2, <2>3, <2>4
<1>10. CASE Write(r)
  <2>1. PICK q \in Products : request[r].products = {q}
    BY <1>10 DEF Write, At, RequestFits, Single
  <2>2. TheProduct(r) = q
    BY <2>1, TheProductIs
  <2>3. book' = book /\ r \notin Recording(p)
    BY <1>10 DEF Write, Recording, At
  <2>4. CASE p # q
    <3>1. product'[p] = product[p]
      BY <1>10, <2>2, <2>4 DEF Write, TypeOK
    <3>2. request[r].kind # "EDIT" => request'[r].products = {q}
      BY <1>7, <1>10, <2>1 DEF Write, TypeOK, Request
    <3>3. r \notin Recording(p)'
      BY <1>6, <1>10, <2>4, <3>2 DEF Write, Recording
    <3>4. Pending(p)' = Pending(p)
      BY <1>1, <2>3, <3>3, PendingAside
    <3>5. QED
      BY <1>3, <2>3, <3>1, <3>4
  <2>5. CASE p = q
    <3>1. product'[p].stock = request[r].stock
      BY <1>10, <2>2, <2>5 DEF Write, TypeOK, ProductRow
    <3>2. request[r].stock = product[p].stock + Moved(r)
      BY <1>10, <2>2, <2>5 DEF Write, Moved
    <3>3. CASE request[r].kind = "EDIT"
      <4>1. Moved(r) = 0
        BY <3>3 DEF Moved, Signed
      <4>2. r \notin Recording(p)'
        BY <1>6, <1>10, <3>3 DEF Write
      <4>3. Pending(p)' = Pending(p)
        BY <1>1, <2>3, <4>2, PendingAside
      <4>4. QED
        BY <1>3, <1>4, <2>3, <3>1, <3>2, <4>1, <4>3
    <3>4. CASE request[r].kind # "EDIT"
      <4>1. request' = [request EXCEPT ![r].phase = "record"]
        BY <1>10, <3>4 DEF Write
      <4>2. /\ request'[r].phase = "record" /\ request'[r].products = {p}
            /\ request'[r].kind = request[r].kind /\ request'[r].quantity = request[r].quantity
        BY <1>7, <2>1, <2>5, <4>1 DEF TypeOK, Request
      <4>3. r \in Recording(p)'
        BY <4>2 DEF Recording, At
      <4>4. Moved(r)' = Moved(r)
        BY <4>2 DEF Moved
      <4>5. Pending(p)' = Pending(p) - 0 + Moved(r)
        BY <1>5, <2>3, <4>3, <4>4
      <4>6. QED
        BY <1>3, <1>4, <2>3, <3>1, <3>2, <4>5
    <3>5. QED
      BY <3>3, <3>4
  <2>6. QED
    BY <2>4, <2>5
<1>11. CASE Record(r)
  <2>1. PICK q \in Products : request[r].products = {q}
    BY <1>11 DEF Record, At, RequestFits, Single
  <2>2. TheProduct(r) = q
    BY <2>1, TheProductIs
  <2>3. product' = product /\ r \notin Recording(p)'
    BY <1>6, <1>11 DEF Record
  <2>4. CASE p # q
    <3>1. r \notin Recording(p)
      BY <2>1, <2>4 DEF Recording
    <3>2. book'[p] = book[p]
      <4>1. book' = [book EXCEPT ![q] = @ + Signed(request[r].kind, request[r].quantity)]
        BY <1>11, <2>2 DEF Record
      <4>2. QED
        BY <2>4, <4>1 DEF TypeOK
    <3>3. Pending(p)' = Pending(p)
      BY <1>1, <2>3, <3>1, PendingAside
    <3>4. QED
      BY <1>3, <2>3, <3>2, <3>3
  <2>5. CASE p = q
    <3>1. r \in Recording(p) /\ book'[p] = book[p] + Moved(r)
      BY <1>11, <2>1, <2>2, <2>5 DEF Record, Recording, Moved, TypeOK
    <3>2. Pending(p)' = Pending(p) - Moved(r) + 0
      BY <1>5, <2>3, <3>1
    <3>3. QED
      BY <1>3, <1>4, <2>3, <3>1, <3>2
  <2>6. QED
    BY <2>4, <2>5
<1>12. CASE Fail(r)
  <2>1. product' = product /\ book' = book /\ r \notin Recording(p)'
    BY <1>6, <1>12 DEF Fail
  <2>2. r \in Recording(p) => Moved(r) = 0
    BY <1>12 DEF Fail, Recording, Moved
  <2>3. Pending(p)' = Pending(p) - 0 + 0
    BY <1>5, <2>1, <2>2
  <2>4. QED
    BY <1>3, <1>4, <2>1, <2>3
<1>13. QED
  BY <1>8, <1>9, <1>10, <1>11, <1>12 DEF Continue

LEMMA StartFollows ==
    ASSUME TypeOK, TypeOK', StockFollowsMovements, NEW r \in Requests, Start(r)
    PROVE  StockFollowsMovements'
<1>1. \A q \in Requests \ {r} : request'[q] = request[q]
  BY OthersKept
<1>2. product' = product /\ book' = book /\ drifted' = drifted
  BY StartReads
<1>3. request[r].phase = "unsent"
  BY StartReads DEF At
<1>4. request'[r].phase # "record"
  BY StartReads DEF Read, TypeOK
<1>5. \A p \in Products : Pending(p)' = Pending(p)
  <2> SUFFICES ASSUME NEW p \in Products PROVE Pending(p)' = Pending(p)
    OBVIOUS
  <2>1. r \notin Recording(p) /\ r \notin Recording(p)'
    BY <1>3, <1>4 DEF Recording, At
  <2>2. QED
    BY <1>1, <2>1, PendingAside
<1>6. QED
  BY <1>2, <1>5 DEF StockFollowsMovements

\* Sales and returns write the stock and its movement together.
LEMMA OtherFollows ==
    ASSUME TypeOK, StockFollowsMovements, \A r \in Requests : RequestFits(r)
    PROVE  /\ \A p \in Products, stock \in Stock, cell \in Cells \cup {None} :
                 CreateProduct(p, stock, cell) => StockFollowsMovements'
           /\ \A p \in Products, q \in Stock \ {0} :
                 Take(p, q) \/ Return(p, q) => StockFollowsMovements'
           /\ \A s \in Shelves : CreateShelf(s) => StockFollowsMovements'
<1>1. ASSUME NEW p \in Products, NEW stock \in Stock, NEW cell \in Cells \cup {None},
             CreateProduct(p, stock, cell)
      PROVE  StockFollowsMovements'
  <2>1. request' = request /\ drifted' = drifted
    BY <1>1 DEF CreateProduct
  <2>2. Recording(p) = {}
    <3>1. ASSUME NEW r \in Recording(p) PROVE FALSE
      <4>1. r \in Requests /\ request[r].phase = "record" /\ request[r].products = {p}
        BY <3>1 DEF Recording, At
      <4>2. PICK q \in Products : request[r].products = {q} /\ product[q].made
        BY <4>1 DEF RequestFits, Single
      <4>3. q = p
        BY <4>1, <4>2
      <4>4. QED
        BY <1>1, <4>2, <4>3 DEF CreateProduct
    <3>2. QED
      BY <3>1
  <2>3. Pending(p) = 0
    <3>1. Total({}, Added) = 0 /\ Total({}, Taken) = 0
      BY TotalEmpty
    <3>2. QED
      BY <2>2, <3>1 DEF Pending
  <2>4. product'[p].stock = stock /\ book'[p] = stock /\ stock \in Int
    BY <1>1 DEF CreateProduct, TypeOK, Stock
  <2>5. \A x \in Products \ {p} : product'[x] = product[x] /\ book'[x] = book[x]
    BY <1>1 DEF CreateProduct, TypeOK
  <2>6. \A x \in Products : Pending(x)' = Pending(x)
    BY <2>1, PendingSame
  <2>7. QED
    BY <2>1, <2>3, <2>4, <2>5, <2>6 DEF StockFollowsMovements
<1>2. ASSUME NEW p \in Products, NEW q \in Stock \ {0}, Take(p, q) \/ Return(p, q)
      PROVE  StockFollowsMovements'
  <2>1. request' = request /\ drifted' = drifted
    BY <1>2 DEF Take, Return
  <2>2. \A x \in Products : Pending(x)' = Pending(x)
    BY <2>1, PendingSame
  <2>3. product[p].stock \in Int /\ book[p] \in Int /\ Pending(p) \in Int /\ q \in Int
    <3>1. product[p].stock \in Stock
      BY DEF TypeOK, ProductRow
    <3>2. QED
      BY <3>1, PendingType DEF TypeOK, Stock
  <2>4. product'[p].stock - product[p].stock = book'[p] - book[p]
    <3>1. CASE Take(p, q)
      <4>1. product'[p].stock = product[p].stock - q /\ book'[p] = book[p] + (-q)
        BY <3>1, <2>3 DEF Take, Signed, TypeOK, ProductRow
      <4>2. QED
        BY <2>3, <4>1
    <3>2. CASE Return(p, q)
      <4>1. product'[p].stock = product[p].stock + q /\ book'[p] = book[p] + q
        BY <3>2, <2>3 DEF Return, Signed, TypeOK, ProductRow
      <4>2. QED
        BY <2>3, <4>1
    <3>3. QED
      BY <1>2, <3>1, <3>2
  <2>5. product'[p].stock \in Int /\ book'[p] \in Int
    <3>1. product'[p].stock \in Stock /\ book'[p] \in Int
      BY <1>2, OtherType DEF TypeOK, ProductRow
    <3>2. QED
      BY <3>1 DEF Stock
  <2>6. \A x \in Products \ {p} : product'[x] = product[x] /\ book'[x] = book[x]
    BY <1>2 DEF Take, Return, TypeOK
  <2>7. p \notin drifted => product'[p].stock = book'[p] + Pending(p)
    BY <2>3, <2>4, <2>5 DEF StockFollowsMovements
  <2>8. QED
    BY <2>1, <2>2, <2>6, <2>7 DEF StockFollowsMovements
<1>3. ASSUME NEW s \in Shelves, CreateShelf(s)
      PROVE  StockFollowsMovements'
  <2>1. \A x \in Products : Pending(x)' = Pending(x)
    BY <1>3, PendingSame DEF CreateShelf
  <2>2. QED
    BY <1>3, <2>1 DEF CreateShelf, StockFollowsMovements
<1>4. QED
  BY <1>1, <1>2, <1>3

----------------------------------------------------------------------------
(* Invariance *)

LEMMA InitIInv == Init => IInv
<1> SUFFICES ASSUME Init PROVE IInv
  OBVIOUS
<1>1. TypeOK
  BY InitType
<1>2. /\ \A p \in Products : product[p] = Blank /\ book[p] = 0
      /\ \A r \in Requests : request[r] = Unsent
  BY DEF Init
<1>3. CellIsThere /\ PlacedAreMade
  BY <1>2 DEF CellIsThere, PlacedAreMade, Blank
<1>4. \A p \in Products : Pending(p) = 0
  <2>1. \A p \in Products : Recording(p) = {}
    BY <1>2 DEF Recording, At, Unsent
  <2>2. Total({}, Added) = 0 /\ Total({}, Taken) = 0
    BY TotalEmpty
  <2>3. QED
    BY <2>1, <2>2 DEF Pending
<1>5. StockFollowsMovements
  BY <1>2, <1>4 DEF StockFollowsMovements, Blank
<1>6. \A r \in Requests : RequestFits(r)
  BY <1>2 DEF RequestFits, Unsent
<1>7. QED
  BY <1>1, <1>3, <1>5, <1>6 DEF IInv, WarehouseConsistent

LEMMA NextType ==
    ASSUME TypeOK, \A r \in Requests : RequestFits(r), Next
    PROVE  TypeOK'
BY StartType, ContinueType, OtherType DEF Next

LEMMA NextFits ==
    ASSUME TypeOK, CellIsThere, PlacedAreMade, \A r \in Requests : RequestFits(r), Next
    PROVE  \A r \in Requests : RequestFits(r)'
<1>1. Onwards
  BY StepOnwards
<1>2. ASSUME NEW r \in Requests, Start(r) \/ Continue(r), NEW q \in Requests
      PROVE  RequestFits(q)'
  <2>1. CASE q = r
    BY <1>1, <1>2, <2>1, StartFits, ContinueFits
  <2>2. CASE q # r
    <3>1. request'[q] = request[q]
      BY <1>2, <2>2, OthersKept
    <3>2. QED
      BY <1>1, <3>1, FitsKept
  <2>3. QED
    BY <2>1, <2>2
<1>3. CASE request' = request
  BY <1>1, <1>3, FitsKept
<1>4. CASE ~(\E r \in Requests : Start(r) \/ Continue(r))
  BY <1>3, <1>4 DEF Next, CreateProduct, Take, Return, CreateShelf
<1>5. QED
  BY <1>2, <1>4

LEMMA Invariance == IInv /\ [Next]_vars => IInv'
<1> SUFFICES ASSUME IInv, [Next]_vars PROVE IInv'
  OBVIOUS
<1>1. /\ TypeOK /\ CellIsThere /\ StockFollowsMovements /\ PlacedAreMade
      /\ \A r \in Requests : RequestFits(r)
  BY DEF IInv, WarehouseConsistent
<1>2. CASE Next
  <2>1. TypeOK'
    BY <1>1, <1>2, NextType
  <2>2. CellIsThere' /\ PlacedAreMade'
    BY <1>1, <1>2, <2>1, CellsStay
  <2>3. \A r \in Requests : RequestFits(r)'
    BY <1>1, <1>2, NextFits
  <2>4. StockFollowsMovements'
    BY <1>1, <1>2, <2>1, StartFollows, ContinueFollows, OtherFollows DEF Next
  <2>5. QED
    BY <2>1, <2>2, <2>3, <2>4 DEF IInv, WarehouseConsistent
<1>3. CASE UNCHANGED vars
  <2>1. UNCHANGED <<product, shelf, book, request, drifted>>
    BY <1>3 DEF vars
  <2>2. TypeOK' /\ CellIsThere' /\ PlacedAreMade'
    BY <1>1, <2>1, CellsKept DEF TypeOK
  <2>3. Onwards
    BY <2>1 DEF Onwards
  <2>4. \A r \in Requests : RequestFits(r)'
    BY <1>1, <2>1, <2>3, FitsKept
  <2>5. \A p \in Products : Pending(p)' = Pending(p)
    BY <2>1, PendingSame
  <2>6. StockFollowsMovements'
    BY <1>1, <2>1, <2>5 DEF StockFollowsMovements
  <2>7. QED
    BY <2>2, <2>4, <2>6 DEF IInv, WarehouseConsistent
<1>4. QED
  BY <1>2, <1>3

LEMMA Inductive == Spec => []IInv
<1>1. QED
  BY InitIInv, Invariance, PTL DEF Spec

\* The rows, the places and the requests have their types; a product lies in a
\* cell that is there; and the stock of a product is what its movements add up to,
\* those still to be recorded included, unless a count, an edit, a row written back
\* over a change or a movement that was lost has set it apart.
THEOREM WarehouseStaysConsistent == Spec => []WarehouseConsistent
<1>1. IInv => WarehouseConsistent
  BY DEF IInv
<1>2. QED
  BY <1>1, Inductive, PTL

----------------------------------------------------------------------------
(* Places *)

LEMMA PlacedSame ==
    ASSUME NEW p, product'[p].cell = product[p].cell, product'[p].shelf = product[p].shelf
    PROVE  Placed(p) => Placed(p)'
BY DEF Placed

\* A cell is taken away, or is written with its shelf.
LEMMA PlacedByCell ==
    ASSUME NEW p, NEW c,
           product'[p].cell = c, c # None => product'[p].shelf = ShelfOf[c]
    PROVE  Placed(p)'
BY DEF Placed

LEMMA PlaceLostInContinue ==
    ASSUME TypeOK, NEW r \in Requests, RequestFits(r), Continue(r),
           NEW p \in Products, Placed(p), ~(Placed(p)')
    PROVE  /\ At(r, "write") /\ request[r].products = {p}
           /\ request[r].row.cell = None /\ request[r].cell = Keep
<1> USE NullsAssumption
<1>1. request[r] \in Request /\ product[p] \in ProductRow
  BY DEF TypeOK
<1>2. product'[p].cell # product[p].cell \/ product'[p].shelf # product[p].shelf
  BY PlacedSame
<1>3. CASE Write(r)
  <2>1. PICK q \in Products : request[r].products = {q}
    BY <1>3 DEF Write, At, RequestFits, Single
  <2>2. TheProduct(r) = q
    BY <2>1, TheProductIs
  <2>3. \A x \in Products \ {q} : product'[x] = product[x]
    BY <1>3, <2>2 DEF Write, TypeOK
  <2>4. p = q
    BY <1>2, <2>3
  <2>5. PICK c : c = request[r].cell
    OBVIOUS
  <2>6. /\ product'[p].cell = IF c = Keep THEN product[p].cell ELSE c
        /\ product'[p].shelf = request[r].place
        /\ c \in Cells => There(c)
    BY <1>3, <2>2, <2>4, <2>5 DEF Write, TypeOK, ProductRow
  <2>7. /\ At(r, "write") /\ CellFits(r)
    BY <1>3 DEF Write, At, RequestFits
  <2>8. CASE c = Keep
    BY <2>1, <2>4, <2>5, <2>7, <2>8 DEF CellFits
  <2>9. CASE c = None
    <3>1. product'[p].cell = None
      BY <2>6, <2>9
    <3>2. QED
      BY <3>1 DEF Placed
  <2>10. CASE c \in Cells
    <3>1. product'[p].cell = c /\ product'[p].shelf = ShelfOf[c]
      BY <2>5, <2>6, <2>7, <2>10 DEF CellFits, At
    <3>2. QED
      BY <3>1, PlacedByCell
  <2>11. QED
    BY <1>1, <2>5, <2>8, <2>9, <2>10 DEF Request
<1>4. CASE Archive(r)
  <2>1. PICK q \in Products : request[r].products = {q}
    BY <1>4 DEF Archive, At, RequestFits, Single
  <2>2. TheProduct(r) = q
    BY <2>1, TheProductIs
  <2>3. product'[q].cell = None /\ \A x \in Products \ {q} : product'[x] = product[x]
    BY <1>4, <2>2 DEF Archive, TypeOK, ProductRow
  <2>4. QED
    BY <1>2, <2>3, PlacedByCell
<1>5. CASE Assign(r)
  <2>1. PICK c : c = request[r].cell
    OBVIOUS
  <2>2. CASE p \in request[r].products
    <3>1. product'[p].cell = c /\ (c # None => product'[p].shelf = ShelfOf[c])
      BY <1>1, <1>5, <2>1, <2>2 DEF Assign, ProductRow
    <3>2. QED
      BY <3>1, PlacedByCell
  <2>3. CASE p \notin request[r].products
    BY <1>2, <1>5, <2>3 DEF Assign
  <2>4. QED
    BY <2>2, <2>3
<1>6. CASE DeleteShelf(r)
  <2>1. product'[p].cell = None \/ product'[p] = product[p]
    BY <1>1, <1>6 DEF DeleteShelf, ProductRow
  <2>2. QED
    BY <1>2, <2>1, PlacedByCell
<1>7. CASE Resolve(r) \/ Record(r) \/ Fail(r)
  BY <1>2, <1>7 DEF Resolve, Record, Fail
<1>8. QED
  BY <1>3, <1>4, <1>5, <1>6, <1>7 DEF Continue

LEMMA PlaceLost ==
    ASSUME TypeOK, \A r \in Requests : RequestFits(r), Next,
           NEW p \in Products, Placed(p), ~(Placed(p)')
    PROVE  \E r \in Requests : At(r, "write") /\ request[r].products = {p}
                                  /\ request[r].row.cell = None /\ request[r].cell = Keep
<1>1. product'[p].cell # product[p].cell \/ product'[p].shelf # product[p].shelf
  BY PlacedSame
<1>2. ASSUME NEW r \in Requests, Start(r)
      PROVE  FALSE
  BY <1>1, <1>2
     DEF Start, StartEdit, StartMovement, StartArchive, StartAssign, StartDeleteShelf
<1>3. ASSUME NEW r \in Requests, Continue(r)
      PROVE  /\ At(r, "write") /\ request[r].products = {p}
             /\ request[r].row.cell = None /\ request[r].cell = Keep
  BY <1>3, PlaceLostInContinue
<1>4. ASSUME NEW q \in Products, NEW stock \in Stock, NEW cell \in Cells \cup {None},
             CreateProduct(q, stock, cell)
      PROVE  FALSE
  <2>1. CASE p = q
    <3>1. product'[p].cell = cell /\ (cell # None => product'[p].shelf = ShelfOf[cell])
      BY <1>4, <2>1 DEF CreateProduct, TypeOK
    <3>2. QED
      BY <3>1, PlacedByCell
  <2>2. CASE p # q
    BY <1>1, <1>4, <2>2 DEF CreateProduct, TypeOK
  <2>3. QED
    BY <2>1, <2>2
<1>5. ASSUME NEW x \in Products, NEW q \in Stock \ {0}, Take(x, q) \/ Return(x, q)
      PROVE  FALSE
  BY <1>1, <1>5 DEF Take, Return, TypeOK, ProductRow
<1>6. ASSUME NEW s \in Shelves, CreateShelf(s)
      PROVE  FALSE
  BY <1>1, <1>6 DEF CreateShelf
<1>7. QED
  BY <1>2, <1>3, <1>4, <1>5, <1>6 DEF Next

\* What was found on the shelf was archived, and stays so.
LEMMA ShelfGone ==
    ASSUME TypeOK, \A r \in Requests : RequestFits(r), Next,
           NEW s \in Shelves, shelf[s] = "there", shelf'[s] = "gone",
           NEW p \in Products, Live(p)
    PROVE  \E r \in Requests : At(r, "deleteShelf") /\ request[r].shelf = s
                                  /\ p \notin request[r].products
<1>1. shelf' # shelf
  OBVIOUS
<1>2. ASSUME NEW x \in Shelves, CreateShelf(x)
      PROVE  FALSE
  BY <1>2 DEF CreateShelf, TypeOK
<1>3. PICK r \in Requests : DeleteShelf(r)
  <2>1. ASSUME NEW r \in Requests, Start(r)
        PROVE  FALSE
    BY <1>1, <2>1
       DEF Start, StartEdit, StartMovement, StartArchive, StartAssign, StartDeleteShelf
  <2>2. ASSUME NEW r \in Requests, Continue(r)
        PROVE  DeleteShelf(r)
    BY <1>1, <2>2 DEF Continue, Resolve, Write, Record, Archive, Assign, Fail
  <2>3. QED
    BY <1>1, <1>2, <2>1, <2>2 DEF Next, CreateProduct, Take, Return
<1>4. request[r].shelf = s /\ At(r, "deleteShelf")
  BY <1>3 DEF DeleteShelf, TypeOK
<1>5. p \notin request[r].products
  BY <1>4 DEF RequestFits, At, Live
<1>6. QED
  BY <1>4, <1>5

\* The texts that repeat a product's place stop being those of its cell only in a
\* write whose product had no cell when it was read; and deleting a shelf takes its
\* place only from a product put there after the shelf was found empty.
THEOREM PlacesGoByRacesOnly == Spec => PlaceLostOnlyWhenOutdated
<1>1. IInv /\ [Next]_vars =>
        [/\ \A p \in Products :
               Placed(p) /\ ~(Placed(p)') =>
                  \E r \in Requests : At(r, "write") /\ request[r].products = {p}
                                        /\ request[r].row.cell = None /\ request[r].cell = Keep
         /\ \A s \in Shelves : \A p \in On(s) :
               shelf[s] = "there" /\ shelf'[s] = "gone" /\ Live(p) =>
                  \E r \in Requests : At(r, "deleteShelf") /\ request[r].shelf = s
                                        /\ p \notin request[r].products]_vars
  <2> SUFFICES ASSUME IInv, Next
               PROVE  /\ \A p \in Products :
                            Placed(p) /\ ~(Placed(p)') =>
                               \E r \in Requests :
                                  /\ At(r, "write") /\ request[r].products = {p}
                                  /\ request[r].row.cell = None /\ request[r].cell = Keep
                      /\ \A s \in Shelves : \A p \in On(s) :
                            shelf[s] = "there" /\ shelf'[s] = "gone" /\ Live(p) =>
                               \E r \in Requests :
                                  /\ At(r, "deleteShelf") /\ request[r].shelf = s
                                  /\ p \notin request[r].products
    OBVIOUS
  <2>1. TypeOK /\ \A r \in Requests : RequestFits(r)
    BY DEF IInv, WarehouseConsistent
  <2>2. \A s \in Shelves : On(s) \subseteq Products
    BY DEF On
  <2>3. QED
    BY <2>1, <2>2, PlaceLost, ShelfGone
<1>2. QED
  BY <1>1, Inductive, PTL DEF Spec, PlaceLostOnlyWhenOutdated

==============================================================================
