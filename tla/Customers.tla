------------------------------ MODULE Customers ------------------------------
(***************************************************************************)
(* Customers, their vehicles and their consents: the use cases and the       *)
(* repositories of the customers and vehicles modules, and the part of a     *)
(* booking online that finds or makes both.                                  *)
(*                                                                          *)
(* No constraint keeps a phone to one customer: it is looked for first.  A   *)
(* customer is archived and anonymised after checks in other transactions;   *)
(* a plate is unique, archived vehicles included.  Statements are READ       *)
(* COMMITTED.  A plate stands for its vehicle: changes of plate, and every   *)
(* other detail of a vehicle, are left out.                                  *)
(***************************************************************************)
EXTENDS Integers, Sequences, FiniteSets

CONSTANTS
    Customers,
    Phones,          \* as they are written
    Standard,        \* the form each is brought into by an import
    Forms,           \* the forms an import looks for: none without a digit
    Unknown,         \* the phone an import gives a customer without one
    Plates,
    Requests,        \* each is used for one request, and names the link it makes
    InitialCustomers,
    InitialVehicles,
    Masked,          \* the phone of an anonymised customer
    Null             \* no row, no phone, no claim

\* What an import stores is among the forms it looks for, where it looks.
ASSUME PhonesAssumption ==
    /\ Unknown \in Phones
    /\ Standard \in [Phones -> Phones]
    /\ Forms \in [Phones -> SUBSET Phones]
    /\ \A p \in Phones : Forms[p] = {} \/ Standard[p] \in Forms[p]

ASSUME NullAssumption == Null \notin Customers \cup Phones \cup Plates

VARIABLES
    customer,
    vehicle,       \* by plate
    claim,         \* what a customer is held by: an active order, a debt, an open invoice
    link,          \* the customer of each consent link
    expired,       \* links past their seven days
    approved,      \* customers with a granted KVKK consent, and with a commercial one
    redactions,    \* ComplianceRedactionLog
    request

customerVars == <<customer, vehicle, claim, link, expired, approved, redactions, request>>

Claims == {"order", "debt", "invoice"}

\* What the columns besides the phone say of a customer: names, e-mail, tax number
\* and notes, and the address with its city and district.
Data == {"identity", "address"}

CustomerRow == [made : BOOLEAN, deleted : BOOLEAN, anonymized : BOOLEAN,
                personal : SUBSET Data, phone : Phones \cup {Masked}]

VehicleRow == [owner : Customers \cup {Null}, deleted : BOOLEAN]

\* A customer who was not made yet is not archived.
ASSUME InitialAssumption ==
    /\ InitialCustomers \subseteq [Customers -> CustomerRow]
    /\ \A rows \in InitialCustomers : \A c \in Customers : rows[c].deleted => rows[c].made
    /\ InitialVehicles \subseteq [Plates -> VehicleRow]

Ops == {"create", "update", "archive", "restore", "anonymize", "lead", "import", "book",
        "addVehicle", "transfer", "removeVehicle", "link", "confirm", "direct"}

\* seen: the customers found.  row, held: the row and its claim as read.
Request == [op : Ops \cup {Null}, phase : {"unsent", "read", "checked", "found", "tx", "done"},
            customer : Customers \cup {Null}, phone : Phones \cup {Null},
            plate : Plates \cup {Null}, seen : SUBSET Customers,
            row : CustomerRow \cup {Null}, held : Claims \cup {Null}, flag : BOOLEAN,
            last : Nat]

Unsent == [op |-> Null, phase |-> "unsent", customer |-> Null, phone |-> Null,
           plate |-> Null, seen |-> {}, row |-> Null, held |-> Null, flag |-> FALSE, last |-> 0]

CustomerInit ==
    /\ customer \in InitialCustomers
    /\ vehicle \in InitialVehicles
    /\ claim = [c \in Customers |-> Null]
    /\ link = [r \in Requests |-> Null]
    /\ expired = {}
    /\ approved = [kvkk |-> {}, commercial |-> {}]
    /\ redactions = <<>>
    /\ request = [r \in Requests |-> Unsent]

----------------------------------------------------------------------------

Live(c) == c \in Customers /\ customer[c].made /\ ~customer[c].deleted

Doing(r, op, phase) == request[r].op = op /\ request[r].phase = phase

Begin(r, op, fields) ==
    /\ request[r].phase = "unsent"
    /\ request' = [request EXCEPT ![r] = [fields EXCEPT !.op = op, !.phase = "read"]]
    /\ UNCHANGED <<customer, vehicle, claim, link, expired, approved, redactions>>

End(r) == request' = [request EXCEPT ![r] = [Unsent EXCEPT !.phase = "done"]]

\* The row of a customer being anonymised is locked until the commit.
Locked(c) == \E r \in Requests : Doing(r, "anonymize", "tx") /\ request[r].customer = c

NewCustomer(p, data) ==
    [made |-> TRUE, deleted |-> FALSE, anonymized |-> FALSE, personal |-> data, phone |-> p]

\* The customers a request may go on with: those found, or one it makes.
Subject(r) ==
    IF request[r].seen = {} THEN {c \in Customers : ~customer[c].made} ELSE request[r].seen

\* findByPhone.
Holders(p) == {c \in Customers : Live(c) /\ customer[c].phone = p}

Free(p, c) == Holders(p) \subseteq {c}

----------------------------------------------------------------------------
(* Create and update *)

\* flag: with an address.
StartCreate(r, p, flag) ==
    /\ Free(p, Null)
    /\ Begin(r, "create", [Unsent EXCEPT !.phone = p, !.seen = Holders(p), !.flag = flag])

\* The row, and the account with it (Billing).
WriteCreate(r) ==
    /\ Doing(r, "create", "read")
    /\ \E c \in Customers :
          /\ ~customer[c].made
          /\ customer' = [customer EXCEPT ![c] =
                NewCustomer(request[r].phone, IF request[r].flag THEN Data ELSE {"identity"})]
    /\ End(r)
    /\ UNCHANGED <<vehicle, claim, link, expired, approved, redactions>>

\* The entity as read, with its new phone and what else is given: no address, the use
\* case takes none over.
StartUpdate(r, c, p, data) ==
    /\ Live(c)
    /\ p # Null => Free(p, c)
    /\ Begin(r, "update", [Unsent EXCEPT !.customer = c, !.phone = p,
          !.seen = IF p = Null THEN {} ELSE Holders(p),
          !.row = [customer[c] EXCEPT !.personal = @ \cup data]])

\* Variant: save writes whatever it is given.
SaveFinds_Always(r) == TRUE

SaveFinds(r) == Live(request[r].customer)

\* save looks for the row (flag: it is there),
CheckUpdate(r) ==
    /\ Doing(r, "update", "read")
    /\ SaveFinds(r)
    /\ request' = [request EXCEPT ![r].phase = "checked", ![r].flag = Live(request[r].customer)]
    /\ UNCHANGED <<customer, vehicle, claim, link, expired, approved, redactions>>

\* and writes every column of the entity by the id.
WriteUpdate(r) ==
    /\ Doing(r, "update", "checked")
    /\ ~Locked(request[r].customer)
    /\ LET row == request[r].row
       IN  customer' = [customer EXCEPT ![request[r].customer] =
              [@ EXCEPT !.anonymized = row.anonymized, !.personal = row.personal,
                        !.phone = IF request[r].phone = Null THEN row.phone
                                  ELSE request[r].phone]]
    /\ End(r)
    /\ UNCHANGED <<vehicle, claim, link, expired, approved, redactions>>

----------------------------------------------------------------------------
(* Archive, restore, anonymise *)

\* Variant: a debt does not keep a customer.
Keeps_OrderOnly(k) == k = "order"

\* What keeps a customer from being archived,
Keeps(k) == k \in {"order", "debt"}

StartArchive(r, c) ==
    /\ Live(c)
    /\ ~Keeps(claim[c])
    /\ Begin(r, "archive", [Unsent EXCEPT !.customer = c, !.held = claim[c]])

WriteArchive(r) ==
    /\ Doing(r, "archive", "read")
    /\ ~Locked(request[r].customer)
    /\ customer' = [customer EXCEPT ![request[r].customer].deleted = TRUE]
    /\ vehicle' = [v \in Plates |-> IF vehicle[v].owner = request[r].customer
                                    THEN [vehicle[v] EXCEPT !.deleted = TRUE] ELSE vehicle[v]]
    /\ End(r)
    /\ UNCHANGED <<claim, link, expired, approved, redactions>>

StartRestore(r, c) ==
    /\ customer[c].made /\ customer[c].deleted
    /\ Begin(r, "restore", [Unsent EXCEPT !.customer = c])

\* Every archived vehicle of the customer comes back; the phone is not looked for.
WriteRestore(r) ==
    /\ Doing(r, "restore", "read")
    /\ ~Locked(request[r].customer)
    /\ customer' = [customer EXCEPT ![request[r].customer].deleted = FALSE]
    /\ vehicle' = [v \in Plates |-> IF vehicle[v].owner = request[r].customer
                                    THEN [vehicle[v] EXCEPT !.deleted = FALSE] ELSE vehicle[v]]
    /\ End(r)
    /\ UNCHANGED <<claim, link, expired, approved, redactions>>

\* and what keeps one from being anonymised.
Binds(k) == k \in {"debt", "invoice"}

StartAnonymize(r, c) ==
    /\ Live(c)
    /\ ~Binds(claim[c])
    /\ Begin(r, "anonymize", [Unsent EXCEPT !.customer = c, !.held = claim[c]])

\* Variant: the last redaction is read before the row is taken.
MayTake_Together(c) == TRUE

MayTake(c) == ~Locked(c)

\* The transaction takes the row, then reads the last redaction,
TakeRow(r) ==
    /\ Doing(r, "anonymize", "read")
    /\ MayTake(request[r].customer)
    /\ request' = [request EXCEPT ![r].phase = "tx", ![r].last = Len(redactions)]
    /\ UNCHANGED <<customer, vehicle, claim, link, expired, approved, redactions>>

\* and chains its own to it.  The address stays, and the vehicles as they are.
Anonymize(r) ==
    /\ Doing(r, "anonymize", "tx")
    /\ LET row == customer[request[r].customer]
       IN  customer' = [customer EXCEPT ![request[r].customer] =
              [row EXCEPT !.deleted = TRUE, !.anonymized = TRUE, !.phone = Masked,
                          !.personal = row.personal \ {"identity"}]]
    /\ redactions' = Append(redactions,
          [customer |-> request[r].customer, previous |-> request[r].last])
    /\ End(r)
    /\ UNCHANGED <<vehicle, claim, link, expired, approved>>

----------------------------------------------------------------------------
(* Found or made: quick leads, imports, bookings online *)

\* One transaction; what it found may have changed when it writes.
StartLead(r, p, v) ==
    Begin(r, "lead", [Unsent EXCEPT !.phone = p, !.plate = v, !.seen = Holders(p)])

\* The plate of an archived vehicle is not found and cannot be inserted.
PlateTaken(v) == vehicle[v].owner # Null /\ vehicle[v].deleted

Attach(v, c) == IF vehicle[v].owner = Null THEN [owner |-> c, deleted |-> FALSE] ELSE vehicle[v]

WriteLead(r) ==
    /\ Doing(r, "lead", "read")
    /\ ~PlateTaken(request[r].plate)
    /\ \E c \in Subject(r) :
          /\ customer' = IF request[r].seen = {}
                         THEN [customer EXCEPT ![c] =
                                  NewCustomer(request[r].phone, {"identity"})]
                         ELSE customer
          /\ vehicle' = [vehicle EXCEPT ![request[r].plate] = Attach(request[r].plate, c)]
    /\ End(r)
    /\ UNCHANGED <<claim, link, expired, approved, redactions>>

\* The forms an import looks for, and the one it stores.
Candidates(p) == IF p = Null THEN {} ELSE Forms[p]
StoredPhone(p) == IF p = Null THEN Unknown ELSE Standard[p]

\* One row, which may lack the phone or the plate; flag: updateExisting.  Any customer
\* with one of the forms is taken, and a row without a phone makes one.
StartImport(r, p, v, flag) ==
    LET found == UNION {Holders(q) : q \in Candidates(p)}
    IN  \E seen \in IF found = {} THEN {{}} ELSE {{c} : c \in found} :
           Begin(r, "import", [Unsent EXCEPT !.phone = p, !.plate = v,
                                             !.seen = seen, !.flag = flag])

\* What an import may fill in: nothing unless it updates, and never the address.
Fill(r) == IF request[r].flag THEN SUBSET {"identity"} ELSE {{}}

\* An update fills in what the row of the import has, and moves the vehicle.
WriteImport(r) ==
    LET v == request[r].plate
    IN  /\ Doing(r, "import", "read")
        /\ v # Null => ~PlateTaken(v)
        /\ \E c \in Subject(r), data \in Fill(r) :
              /\ ~Locked(c)
              /\ customer' =
                    IF request[r].seen = {}
                    THEN [customer EXCEPT ![c] =
                             NewCustomer(StoredPhone(request[r].phone), {"identity"})]
                    ELSE [customer EXCEPT ![c].personal = @ \cup data]
              /\ vehicle' =
                    CASE v = Null -> vehicle
                      [] v # Null /\ request[r].flag ->
                            [vehicle EXCEPT ![v] = [owner |-> c, deleted |-> FALSE]]
                      [] OTHER -> [vehicle EXCEPT ![v] = Attach(v, c)]
        /\ End(r)
        /\ UNCHANGED <<claim, link, expired, approved, redactions>>

\* A booking finds a customer by the phone, archived or not,
StartBook(r, p, v) ==
    LET found == {c \in Customers : customer[c].made /\ customer[c].phone = p}
    IN  \E seen \in IF found = {} THEN {{}} ELSE {{c} : c \in found} :
           Begin(r, "book", [Unsent EXCEPT !.phone = p, !.plate = v, !.seen = seen,
              !.row = IF seen = {} THEN Null ELSE customer[CHOOSE c \in seen : TRUE]])

\* makes it, or brings it back without its vehicles,
BookCustomer(r) ==
    /\ Doing(r, "book", "read")
    /\ \E c \in Subject(r) :
          /\ ~Locked(c)
          /\ customer' = CASE request[r].seen = {} ->
                                 [customer EXCEPT ![c] =
                                     NewCustomer(request[r].phone, {"identity"})]
                           [] request[r].seen # {} /\ request[r].row.deleted ->
                                 [customer EXCEPT ![c].deleted = FALSE]
                           [] OTHER -> customer
          /\ request' = [request EXCEPT ![r].phase = "found", ![r].customer = c]
    /\ UNCHANGED <<vehicle, claim, link, expired, approved, redactions>>

\* then reads the vehicle, which must not be somebody else's.  One in use is left
\* as it is.
BookLooks(r) ==
    /\ Doing(r, "book", "found")
    /\ LET v == vehicle[request[r].plate]
       IN  /\ v.owner \in {request[r].customer, Null}
           /\ IF v.owner # Null /\ ~v.deleted
              THEN End(r)
              ELSE request' = [request EXCEPT ![r].phase = "checked",
                                              ![r].flag = (v.owner = Null)]
    /\ UNCHANGED <<customer, vehicle, claim, link, expired, approved, redactions>>

\* and inserts it, if its plate is still free, or brings it back.
BookVehicle(r) ==
    /\ Doing(r, "book", "checked")
    /\ LET v == request[r].plate
       IN  /\ request[r].flag => vehicle[v].owner = Null
           /\ vehicle' = [vehicle EXCEPT ![v] =
                 IF request[r].flag THEN [owner |-> request[r].customer, deleted |-> FALSE]
                 ELSE [@ EXCEPT !.deleted = FALSE]]
    /\ End(r)
    /\ UNCHANGED <<customer, claim, link, expired, approved, redactions>>

----------------------------------------------------------------------------
(* Vehicles *)

\* The plate is looked for, archived or not, then the owner.
StartAddVehicle(r, c, v) ==
    /\ vehicle[v].owner = Null
    /\ Live(c)
    /\ Begin(r, "addVehicle", [Unsent EXCEPT !.customer = c, !.plate = v])

AddVehicle(r) ==
    /\ Doing(r, "addVehicle", "read")
    /\ vehicle[request[r].plate].owner = Null
    /\ vehicle' = [vehicle EXCEPT ![request[r].plate] =
          [owner |-> request[r].customer, deleted |-> FALSE]]
    /\ End(r)
    /\ UNCHANGED <<customer, claim, link, expired, approved, redactions>>

\* transferOwnership, on its own or from the creation of a vehicle that exists.
StartTransfer(r, c, v) ==
    /\ Live(c)
    /\ vehicle[v].owner # Null
    /\ Begin(r, "transfer", [Unsent EXCEPT !.customer = c, !.plate = v])

Transfer(r) ==
    /\ Doing(r, "transfer", "read")
    /\ vehicle' = [vehicle EXCEPT ![request[r].plate] =
          [owner |-> request[r].customer, deleted |-> FALSE]]
    /\ End(r)
    /\ UNCHANGED <<customer, claim, link, expired, approved, redactions>>

StartRemoveVehicle(r, v) ==
    /\ Live(vehicle[v].owner) /\ ~vehicle[v].deleted
    /\ Begin(r, "removeVehicle", [Unsent EXCEPT !.plate = v])

RemoveVehicle(r) ==
    /\ Doing(r, "removeVehicle", "read")
    /\ vehicle' = [vehicle EXCEPT ![request[r].plate].deleted = TRUE]
    /\ End(r)
    /\ UNCHANGED <<customer, claim, link, expired, approved, redactions>>

----------------------------------------------------------------------------
(* Consents *)

StartLink(r, c) ==
    /\ Live(c)
    /\ Begin(r, "link", [Unsent EXCEPT !.customer = c])

\* sendConsentSms: a consent that waits for its answer, and a message.
SendLink(r) ==
    /\ Doing(r, "link", "read")
    /\ link' = [link EXCEPT ![r] = request[r].customer]
    /\ End(r)
    /\ UNCHANGED <<customer, vehicle, claim, expired, approved, redactions>>

\* flag: commercial messages too.  A link may be confirmed again.
StartConfirm(r, t, flag) ==
    /\ link[t] # Null
    /\ t \notin expired
    /\ Begin(r, "confirm", [Unsent EXCEPT !.customer = link[t], !.flag = flag])

StartDirect(r, c, flag) ==
    /\ Live(c)
    /\ Begin(r, "direct", [Unsent EXCEPT !.customer = c, !.flag = flag])

\* One transaction: the consent, and the commercial one with it.
Approve(c, flag) ==
    [approved EXCEPT !.kvkk = @ \cup {c}, !.commercial = IF flag THEN @ \cup {c} ELSE @]

Grant(r) ==
    /\ Doing(r, "confirm", "read") \/ Doing(r, "direct", "read")
    /\ approved' = Approve(request[r].customer, request[r].flag)
    /\ End(r)
    /\ UNCHANGED <<customer, vehicle, claim, link, expired, redactions>>

ExpireLink(t) ==
    /\ link[t] # Null
    /\ expired' = expired \cup {t}
    /\ UNCHANGED <<customer, vehicle, claim, link, approved, redactions, request>>

----------------------------------------------------------------------------

\* A statement failed, a check did, or the process died.
Fail(r) ==
    /\ request[r].phase \notin {"unsent", "done"}
    /\ End(r)
    /\ UNCHANGED <<customer, vehicle, claim, link, expired, approved, redactions>>

\* Orders, payments and invoices come and go (WorkOrders, Billing).
Hold(c, k) ==
    /\ Live(c) \/ k = Null
    /\ claim' = [claim EXCEPT ![c] = k]
    /\ UNCHANGED <<customer, vehicle, link, expired, approved, redactions, request>>

Start(r) ==
    \/ \E p \in Phones, flag \in BOOLEAN : StartCreate(r, p, flag)
    \/ \E c \in Customers, p \in Phones \cup {Null}, data \in SUBSET {"identity"} :
          StartUpdate(r, c, p, data)
    \/ \E c \in Customers : StartArchive(r, c) \/ StartRestore(r, c) \/ StartAnonymize(r, c)
    \/ \E p \in Phones, v \in Plates : StartLead(r, p, v) \/ StartBook(r, p, v)
    \/ \E p \in Phones \cup {Null}, v \in Plates \cup {Null}, flag \in BOOLEAN :
          StartImport(r, p, v, flag)
    \/ \E c \in Customers, v \in Plates : StartAddVehicle(r, c, v) \/ StartTransfer(r, c, v)
    \/ \E v \in Plates : StartRemoveVehicle(r, v)
    \/ \E c \in Customers : StartLink(r, c)
    \/ \E t \in Requests, flag \in BOOLEAN : StartConfirm(r, t, flag)
    \/ \E c \in Customers, flag \in BOOLEAN : StartDirect(r, c, flag)

Continue(r) ==
    \/ WriteCreate(r)
    \/ CheckUpdate(r)
    \/ WriteUpdate(r)
    \/ WriteArchive(r)
    \/ WriteRestore(r)
    \/ TakeRow(r)
    \/ Anonymize(r)
    \/ WriteLead(r)
    \/ WriteImport(r)
    \/ BookCustomer(r)
    \/ BookLooks(r)
    \/ BookVehicle(r)
    \/ AddVehicle(r)
    \/ Transfer(r)
    \/ RemoveVehicle(r)
    \/ SendLink(r)
    \/ Grant(r)
    \/ Fail(r)

CustomerNext ==
    \/ \E r \in Requests : Start(r) \/ Continue(r) \/ ExpireLink(r)
    \/ \E c \in Customers, k \in Claims \cup {Null} : Hold(c, k)

CustomerSpec == CustomerInit /\ [][CustomerNext]_customerVars

----------------------------------------------------------------------------
(* Properties *)

CustomerTypeOK ==
    /\ customer \in [Customers -> CustomerRow]
    /\ vehicle \in [Plates -> VehicleRow]
    /\ claim \in [Customers -> Claims \cup {Null}]
    /\ link \in [Requests -> Customers \cup {Null}]
    /\ expired \subseteq Requests
    /\ approved \in [kvkk : SUBSET Customers, commercial : SUBSET Customers]
    /\ redactions \in Seq([customer : Customers, previous : Nat])
    /\ request \in [Requests -> Request]

\* Two redactions of a customer never follow the same one: the row is taken first.
CustomerChained ==
    \A i, j \in DOMAIN redactions :
       i # j /\ redactions[i].customer = redactions[j].customer =>
          redactions[i].previous # redactions[j].previous

\* Commercial messages are approved only with the KVKK consent itself.
CommercialWithKvkk == approved.commercial \subseteq approved.kvkk

\* Types, redactions and consents.
CustomersConsistent == CustomerTypeOK /\ CustomerChained /\ CommercialWithKvkk

\* Neither the phone nor the identity of the customer is left.
Erased(c) == customer[c].phone = Masked /\ "identity" \notin customer[c].personal

\* The phone and the identity of an archived, anonymised customer come back only with
\* a save that had found the customer by its own look, or an import that had.
ErasedStaysErased ==
    [][\A c \in Customers :
          customer[c].deleted /\ customer[c].anonymized /\ Erased(c) /\ ~Erased(c)' =>
             \E r \in Requests :
                /\ request'[r] # request[r]
                /\ \/ /\ Doing(r, "update", "checked")
                      /\ request[r].customer = c /\ request[r].flag
                   \/ Doing(r, "import", "read") /\ c \in request[r].seen]_customerVars

\* The note an anonymisation leaves: the personal data were anonymised.  The address
\* was not.
NothingPersonalLeft ==
    \A c \in Customers :
       customer[c].deleted /\ customer[c].anonymized => customer[c].personal = {}

Share(c, d) == Live(c) /\ Live(d) /\ customer[c].phone = customer[d].phone
                 /\ customer[c].phone # Masked

Orphan(v) == vehicle[v].owner # Null /\ ~vehicle[v].deleted /\ ~Live(vehicle[v].owner)

\* The phones a request has looked for.
Looked(r) == IF request[r].op = "import" THEN Candidates(request[r].phone)
             ELSE {request[r].phone}

\* An update that is given no phone writes the one it read.
WritesBack(r, p) ==
    Doing(r, "update", "checked") /\ request[r].phone = Null /\ request[r].row.phone = p

\* Two customers come to share a phone only when one of them is brought back, by a
\* request that had looked for the phone before the other held it, by an update that
\* writes back what it read, or by an import of a row without a phone.
SharedOnlyWhenOutdated ==
    \A c, d \in Customers :
       c # d /\ ~Share(c, d) /\ Share(c, d)' =>
          \/ \E o \in {c, d} : customer[o].made /\ customer[o].deleted
          \/ \E o \in {c, d}, r \in Requests :
                /\ customer'[o] = customer[o] /\ request'[r] # request[r]
                /\ \/ customer[o].phone \in Looked(r) /\ o \notin request[r].seen
                   \/ WritesBack(r, customer[o].phone)
                   \/ Doing(r, "import", "read") /\ Looked(r) = {}

\* A customer is put away while something keeps it only when that came after the
\* request had looked.
PutAwayOnlyWhenOutdated ==
    \A c \in Customers :
       Live(c) /\ customer'[c].deleted =>
          \E r \in Requests :
             /\ request[r].customer = c /\ request'[r] # request[r]
             /\ \/ request[r].held # claim[c]
                \/ claim[c] \notin (IF request[r].op = "archive" THEN {"order", "debt"}
                                    ELSE {"debt", "invoice"})

\* A vehicle in use is left without an owner only by an anonymisation, by a request
\* that gives it to a customer it had read before, or by a booking that brings it
\* back after it went to another customer.
OrphanOnlyWhenOutdated ==
    \A v \in Plates :
       ~Orphan(v) /\ Orphan(v)' =>
          \E r \in Requests :
             \/ Doing(r, "anonymize", "tx") /\ request[r].customer = vehicle[v].owner
             \/ /\ request[r].plate = v /\ request'[r] # request[r]
                /\ \/ vehicle'[v].owner \in request[r].seen \cup {request[r].customer}
                   \/ /\ Doing(r, "book", "checked") /\ ~request[r].flag
                      /\ vehicle[v].owner # request[r].customer

\* The three rules that no constraint of the database keeps.
RulesBrokenOnlyWhenOutdated ==
    [][SharedOnlyWhenOutdated /\ PutAwayOnlyWhenOutdated /\ OrphanOnlyWhenOutdated]_customerVars
==============================================================================
