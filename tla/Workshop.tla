------------------------------ MODULE Workshop ------------------------------
(***************************************************************************)
(* What surrounds the orders of a workshop: its bays, its services and their *)
(* bookings online, the photos and notes of an order, the number it gets and *)
(* the odometer of its vehicle, the logo and the invoice settings, the       *)
(* consents signed, and the tenants of the platform themselves.              *)
(*                                                                          *)
(* Each handler reads in one transaction and writes in another, or in the    *)
(* object store: one request is a reading step and writing steps, and        *)
(* requests interleave between them.  Rows are numbered in the order of      *)
(* their insertion and never reused.                                         *)
(***************************************************************************)
EXTENDS Integers, Sequences, FiniteSets, SequencesExt

CONSTANTS
    Slots,         \* each is used for one request
    Names,         \* of bays
    Defaults,      \* the bays a workshop without any is shown
    Lifts,         \* the bays onboarding makes
    Fallback,      \* the names a booking online takes when there is no bay
    Codes,         \* of services
    Upper,         \* the form each code is stored in
    FirstCode,     \* the code onboarding gives to its first new service
    Titles,        \* the names of services
    Photos,
    Phones,
    Tenants,       \* other tenants, made and deleted
    Home,          \* this one
    InitialBays,
    InitialServices,
    InitialBookings,
    InitialConsents,
    Staff,
    Managers,      \* those of the staff who are owners or managers
    InitialNotes,
    Kilometres,
    Keys,          \* secrets of an e-invoice provider
    InitialSecrets,
    Formats,       \* of a logo
    Elsewhere,     \* a link to anything but an uploaded logo
    Null

ASSUME NamesAssumption == Defaults \cup Lifts \cup Fallback \subseteq Names
ASSUME CodesAssumption == Upper \in [Codes -> Codes] /\ FirstCode \in Codes
ASSUME StaffAssumption == Managers \subseteq Staff /\ Kilometres \subseteq Nat
ASSUME FiniteAssumption == IsFiniteSet(Names) /\ IsFiniteSet(Tenants)
ASSUME NullAssumption == Null \notin Photos

VARIABLES
    bay,           \* rows of WorkshopBay
    service,       \* rows of Service
    booking,       \* bookings of one slot: the name of the bay, the service
    photo,         \* WorkOrderPhoto: the object in the store, the row
    emptied,       \* history: photos whose object a deletion removed
    consent,       \* rows of TenantConsent: are commercial messages accepted
    account,       \* the tenant of the account each phone has
    tenant,        \* rows of Tenant: the number in the slug, the contract signed
    note,          \* rows of WorkOrderNote of one order
    closed,        \* that order is cancelled
    drawn,         \* the last number of DocumentSequence
    opened,        \* the numbers of the orders opened
    odometer,      \* of one vehicle
    secret,        \* TenantInvoiceSetting: one of its secrets
    logo,          \* the logo: the objects in the store, the row and, history,
                   \* whether the row was typed into the profile
    request

\* What belongs to orders and their vehicles, and to the office.
orders == <<note, closed, drawn, opened, odometer>>
office == <<secret, logo>>

setup == <<bay, service, booking, photo, emptied, consent, account, tenant>>
workshopVars == <<setup, orders, office, request>>

BayRow == [name : Names, online : BOOLEAN, live : BOOLEAN]
ServiceRow == [title : Titles, code : Codes, active : BOOLEAN, live : BOOLEAN]
BookingRow == [bay : Names, service : Nat]
PhotoRow == [object : BOOLEAN, row : BOOLEAN]
TenantRow == [slug : Nat, signed : BOOLEAN]
NoteRow == [author : Staff, live : BOOLEAN]
Secret == Keys \cup {Null}
Logo == [objects : SUBSET Formats, row : Formats \cup {Elsewhere, Null}, typed : BOOLEAN]

ASSUME InitialAssumption ==
    /\ InitialBays \subseteq Seq(BayRow)
    /\ InitialServices \subseteq Seq(ServiceRow)
    /\ InitialBookings \subseteq Seq(BookingRow)
    /\ InitialConsents \subseteq Seq(BOOLEAN)
    /\ InitialNotes \subseteq Seq(NoteRow)
    /\ InitialSecrets \subseteq Secret

Op == {"view", "createBay", "updateBay", "deleteBay", "onboard", "createService",
       "updateService", "removeService", "book", "upload", "editPhoto", "deletePhoto",
       "marketing", "found", "drop", "note", "editNote", "deleteNote", "openOrder",
       "editVehicle", "importVehicle", "settings", "logo"}

\* row: the row asked for, read or drawn.  length: the rows there were.  seen: the
\* bookings found, offered: the bays open to bookings.  new: what onboarding has
\* to insert.  readKm, readKey: the odometer and the secret found.
SlotRow == [op : Op \cup {Null},
            phase : {"unsent", "read", "staff", "bays", "stored", "vehicle", "done"},
            row : Nat, name : Names \cup {Null}, title : Titles \cup {Null},
            code : Codes \cup {Null}, flag : BOOLEAN, photo : Photos \cup {Null},
            phone : Phones \cup {Null}, tenant : Tenants \cup {Null},
            length : Nat, seen : SUBSET Nat, offered : SUBSET Names,
            new : SUBSET {"service", "account", "bays"},
            user : Staff \cup {Null}, km : Kilometres \cup {0}, readKm : Kilometres \cup {0},
            key : Secret, readKey : Secret, format : Formats \cup {Null}]

Unsent == [op |-> Null, phase |-> "unsent", row |-> 0, name |-> Null, title |-> Null,
           code |-> Null, flag |-> FALSE, photo |-> Null, phone |-> Null, tenant |-> Null,
           length |-> 0, seen |-> {}, offered |-> {}, new |-> {}, user |-> Null, km |-> 0,
           readKm |-> 0, key |-> Null, readKey |-> Null, format |-> Null]

WorkshopTypeOK ==
    /\ bay \in Seq(BayRow)
    /\ service \in Seq(ServiceRow)
    /\ booking \in Seq(BookingRow)
    /\ photo \in [Photos -> PhotoRow]
    /\ emptied \subseteq Photos
    /\ consent \in Seq(BOOLEAN)
    /\ account \in [Phones -> Tenants \cup {Home, Null}]
    /\ tenant \in [Tenants -> TenantRow \cup {Null}]
    /\ note \in Seq(NoteRow)
    /\ closed \in BOOLEAN
    /\ drawn \in Nat
    /\ opened \in Seq(1..drawn)
    /\ odometer \in Kilometres \cup {0}
    /\ secret \in Secret
    /\ logo \in Logo
    /\ request \in [Slots -> SlotRow]

WorkshopInit ==
    /\ bay \in InitialBays
    /\ service \in InitialServices
    /\ booking \in InitialBookings
    /\ photo \in [Photos -> {[object |-> FALSE, row |-> FALSE], [object |-> TRUE, row |-> TRUE]}]
    /\ emptied = {}
    /\ consent \in InitialConsents
    /\ account = [p \in Phones |-> Null]
    /\ tenant = [t \in Tenants |-> Null]
    /\ note \in InitialNotes
    /\ closed = FALSE
    /\ drawn = 0
    /\ opened = <<>>
    /\ odometer = 0
    /\ secret \in InitialSecrets
    /\ logo = [objects |-> {}, row |-> Null, typed |-> FALSE]
    /\ request = [r \in Slots |-> Unsent]

----------------------------------------------------------------------------
(* Requests *)

At(r, op, phase) == request[r].op = op /\ request[r].phase = phase

Enter(r, op, fields) ==
    /\ request[r].phase = "unsent"
    /\ request' = [request EXCEPT ![r] = [fields EXCEPT !.op = op, !.phase = "read"]]
    /\ UNCHANGED <<setup, orders, office>>

Go(r, phase) == request' = [request EXCEPT ![r].phase = phase]

End(r) == request' = [request EXCEPT ![r] = [Unsent EXCEPT !.phase = "done"]]

\* A statement or a constraint failed, or the process died.
Fail(r) ==
    /\ request[r].phase \notin {"unsent", "done"}
    /\ End(r)
    /\ UNCHANGED <<setup, orders, office>>

----------------------------------------------------------------------------
(* Bays *)

Bays == {i \in DOMAIN bay : bay[i].live}
BayNames == {bay[i].name : i \in Bays}
Online == {bay[i].name : i \in {j \in Bays : bay[j].online}}

\* Rows for new bays; every other column has its default.
Opened(names) ==
    SetToSeq({[name |-> n, online |-> TRUE, live |-> TRUE] : n \in names})

\* There is no bay at all.
Unequipped == Bays = {}

\* Looking at the bays inserts the default ones when there are none,
StartView(r) ==
    /\ Unequipped
    /\ Enter(r, "view", [Unsent EXCEPT !.length = Len(bay)])

\* but for those that somebody has made in the meantime.
InsertDefaults(r) ==
    /\ At(r, "view", "read")
    /\ bay' = bay \o Opened(Defaults \ BayNames)
    /\ End(r)
    /\ UNCHANGED <<service, booking, photo, emptied, consent, account, tenant, orders, office>>

StartCreateBay(r, n, flag) ==
    /\ n \notin BayNames
    /\ Enter(r, "createBay", [Unsent EXCEPT !.name = n, !.flag = flag])

\* The name is unique in the tenant.
CreateBay(r) ==
    /\ At(r, "createBay", "read")
    /\ request[r].name \notin BayNames
    /\ bay' = Append(bay, [name |-> request[r].name, online |-> request[r].flag, live |-> TRUE])
    /\ End(r)
    /\ UNCHANGED <<service, booking, photo, emptied, consent, account, tenant, orders, office>>

\* A new name, or the own one, and whether the bay is active and online.
StartUpdateBay(r, i, n, flag) ==
    /\ i \in Bays
    /\ n \in BayNames => n = bay[i].name
    /\ Enter(r, "updateBay", [Unsent EXCEPT !.row = i, !.name = n, !.flag = flag])

\* Bookings keep the name they were made with.
UpdateBay(r) ==
    /\ At(r, "updateBay", "read")
    /\ request[r].row \in Bays
    /\ \A i \in Bays \ {request[r].row} : bay[i].name # request[r].name
    /\ bay' = [bay EXCEPT ![request[r].row] =
          [name |-> request[r].name, online |-> request[r].flag, live |-> TRUE]]
    /\ End(r)
    /\ UNCHANGED <<service, booking, photo, emptied, consent, account, tenant, orders, office>>

StartDeleteBay(r, i) ==
    /\ i \in Bays
    /\ Enter(r, "deleteBay", [Unsent EXCEPT !.row = i])

\* Bookings are not looked for.
DeleteBay(r) ==
    /\ At(r, "deleteBay", "read")
    /\ request[r].row \in Bays
    /\ bay' = [bay EXCEPT ![request[r].row].live = FALSE]
    /\ End(r)
    /\ UNCHANGED <<service, booking, photo, emptied, consent, account, tenant, orders, office>>

----------------------------------------------------------------------------
(* Onboarding: one transaction of READ COMMITTED statements *)

Services == {i \in DOMAIN service : service[i].live}
TitlesUsed == {service[i].title : i \in Services}
CodesUsed == {service[i].code : i \in Services}

NewService(title, code) == [title |-> title, code |-> code, active |-> TRUE, live |-> TRUE]

\* A service is looked for by its name,
StartOnboard(r, title, p) ==
    Enter(r, "onboard", [Unsent EXCEPT !.title = title, !.phone = p,
        !.new = IF title \in TitlesUsed THEN {} ELSE {"service"}])

\* a technician by the phone, of whatever tenant,
LookStaff(r) ==
    /\ At(r, "onboard", "read")
    /\ request' = [request EXCEPT ![r].phase = "staff",
          ![r].new = IF account[request[r].phone] = Null THEN @ \cup {"account"} ELSE @]
    /\ UNCHANGED <<setup, orders, office>>

\* and bays are made when there are none.
LookBays(r) ==
    /\ At(r, "onboard", "staff")
    /\ request' = [request EXCEPT ![r].phase = "bays", ![r].length = Len(bay),
          ![r].new = IF Bays = {} THEN @ \cup {"bays"} ELSE @]
    /\ UNCHANGED <<setup, orders, office>>

\* The constraints it meets: one row somebody else inserted, and all of it fails.
Insertable(r) ==
    /\ "service" \in request[r].new => FirstCode \notin CodesUsed
    /\ "account" \in request[r].new => account[request[r].phone] = Null
    /\ "bays" \in request[r].new => Lifts \cap BayNames = {}

CommitOnboarding(r) ==
    /\ At(r, "onboard", "bays")
    /\ Insertable(r)
    /\ service' = IF "service" \in request[r].new
                  THEN Append(service, NewService(request[r].title, FirstCode)) ELSE service
    /\ account' = IF "account" \in request[r].new
                  THEN [account EXCEPT ![request[r].phone] = Home] ELSE account
    /\ bay' = IF "bays" \in request[r].new THEN bay \o Opened(Lifts) ELSE bay
    /\ End(r)
    /\ UNCHANGED <<booking, photo, emptied, consent, tenant, orders, office>>

----------------------------------------------------------------------------
(* Services, and the bookings online that name them *)

\* The code is looked for as it was typed, and stored in upper case.
StartCreateService(r, title, code) ==
    /\ code \notin CodesUsed
    /\ Enter(r, "createService", [Unsent EXCEPT !.title = title, !.code = code])

CreateService(r) ==
    /\ At(r, "createService", "read")
    /\ Upper[request[r].code] \notin CodesUsed
    /\ service' = Append(service, NewService(request[r].title, Upper[request[r].code]))
    /\ End(r)
    /\ UNCHANGED <<bay, booking, photo, emptied, consent, account, tenant, orders, office>>

\* A code of its own or one not in use, and whether the service is active.
StartUpdateService(r, i, code, flag) ==
    /\ i \in Services
    /\ code \in CodesUsed => code = service[i].code
    /\ Enter(r, "updateService", [Unsent EXCEPT !.row = i, !.code = code, !.flag = flag])

UpdateService(r) ==
    /\ At(r, "updateService", "read")
    /\ request[r].row \in Services
    /\ \A i \in Services \ {request[r].row} : service[i].code # Upper[request[r].code]
    /\ service' = [service EXCEPT ![request[r].row].code = Upper[request[r].code],
                                  ![request[r].row].active = request[r].flag]
    /\ End(r)
    /\ UNCHANGED <<bay, booking, photo, emptied, consent, account, tenant, orders, office>>

BookingsOf(i) == {k \in DOMAIN booking : booking[k].service = i}

\* Variant: a service goes whatever books it.
Booked_Never(r) == FALSE

Booked(r) == request[r].seen # {}

\* The bookings of the service are counted,
StartRemoveService(r, i) ==
    /\ i \in Services
    /\ Enter(r, "removeService", [Unsent EXCEPT !.row = i, !.seen = BookingsOf(i)])

\* and one that is booked is made inactive.
DeactivateService(r) ==
    /\ At(r, "removeService", "read")
    /\ Booked(r)
    /\ request[r].row \in Services
    /\ service' = [service EXCEPT ![request[r].row].active = FALSE]
    /\ End(r)
    /\ UNCHANGED <<bay, booking, photo, emptied, consent, account, tenant, orders, office>>

\* Another is deleted: ON DELETE SET NULL.
DeleteService(r) ==
    /\ At(r, "removeService", "read")
    /\ ~Booked(r)
    /\ request[r].row \in Services
    /\ service' = [service EXCEPT ![request[r].row].live = FALSE]
    /\ booking' = [k \in DOMAIN booking |->
          IF booking[k].service = request[r].row THEN [booking[k] EXCEPT !.service = 0]
          ELSE booking[k]]
    /\ End(r)
    /\ UNCHANGED <<bay, photo, emptied, consent, account, tenant, orders, office>>

Taken == {booking[k].bay : k \in DOMAIN booking}

\* The names a booking online chooses from.
Offered == IF Online = {} THEN Fallback ELSE Online

\* The service is not looked at (0: none is named).
StartBook(r, i) ==
    \E n \in Offered \ Taken :
       Enter(r, "book", [Unsent EXCEPT !.row = i, !.name = n, !.offered = Online])

\* The name must still be free (module Appointments) and the service be there;
\* whether there is such a bay is not looked at again.
Book(r) ==
    /\ At(r, "book", "read")
    /\ request[r].name \notin Taken
    /\ request[r].row \in Services \cup {0}
    /\ booking' = Append(booking, [bay |-> request[r].name, service |-> request[r].row])
    /\ End(r)
    /\ UNCHANGED <<bay, service, photo, emptied, consent, account, tenant, orders, office>>

----------------------------------------------------------------------------
(* Photos of work orders *)

Fresh(p) == photo[p] = [object |-> FALSE, row |-> FALSE] /\ p \notin emptied

StartUpload(r, p) ==
    /\ Fresh(p)
    /\ \A q \in Slots : request[q].photo # p
    /\ Enter(r, "upload", [Unsent EXCEPT !.photo = p])

\* The object is stored,
PutObject(r) ==
    /\ At(r, "upload", "read")
    /\ photo' = [photo EXCEPT ![request[r].photo].object = TRUE]
    /\ Go(r, "stored")
    /\ UNCHANGED <<bay, service, booking, emptied, consent, account, tenant, orders, office>>

\* Variant: the row is inserted although the object could not be stored.
Stored_Tried(r) == At(r, "upload", "read") \/ At(r, "upload", "stored")

Stored(r) == At(r, "upload", "stored")

\* then the row is inserted: a failure leaves the object.
InsertPhoto(r) ==
    /\ Stored(r)
    /\ photo' = [photo EXCEPT ![request[r].photo].row = TRUE]
    /\ End(r)
    /\ UNCHANGED <<bay, service, booking, emptied, consent, account, tenant, orders, office>>

StartPhoto(r, op, p) ==
    /\ photo[p].row
    /\ Enter(r, op, [Unsent EXCEPT !.photo = p])

\* Caption and type, by the id.
EditPhoto(r) ==
    /\ At(r, "editPhoto", "read")
    /\ photo[request[r].photo].row
    /\ End(r)
    /\ UNCHANGED <<setup, orders, office>>

\* The object is removed, or the store's error is swallowed,
RemoveObject(r) ==
    /\ At(r, "deletePhoto", "read")
    /\ \E removed \in BOOLEAN :
          /\ photo' = [photo EXCEPT ![request[r].photo].object = @ /\ ~removed]
          /\ emptied' = IF removed THEN emptied \cup {request[r].photo} ELSE emptied
    /\ Go(r, "stored")
    /\ UNCHANGED <<bay, service, booking, consent, account, tenant, orders, office>>

\* then the row.
RemovePhoto(r) ==
    /\ At(r, "deletePhoto", "stored")
    /\ photo[request[r].photo].row
    /\ photo' = [photo EXCEPT ![request[r].photo].row = FALSE]
    /\ End(r)
    /\ UNCHANGED <<bay, service, booking, emptied, consent, account, tenant, orders, office>>

----------------------------------------------------------------------------
(* Consents *)

\* The settings, or the link of a message (flag FALSE), read the latest consent,
StartMarketing(r, flag) ==
    Enter(r, "marketing", [Unsent EXCEPT !.row = Len(consent), !.flag = flag])

\* and write it, or make one where there is none.
Preferred(rows, i, flag) == IF i = 0 THEN Append(rows, flag) ELSE [rows EXCEPT ![i] = flag]

WriteMarketing(r) ==
    /\ At(r, "marketing", "read")
    /\ consent' = Preferred(consent, request[r].row, request[r].flag)
    /\ End(r)
    /\ UNCHANGED <<bay, service, booking, photo, emptied, account, tenant, orders, office>>

\* The contract is signed, with or without commercial messages: one transaction.
Sign(r, flag) ==
    /\ request[r].phase = "unsent"
    /\ consent' = Append(consent, flag)
    /\ End(r)
    /\ UNCHANGED <<bay, service, booking, photo, emptied, account, tenant, orders, office>>

----------------------------------------------------------------------------
(* Tenants *)

Made == {t \in Tenants : tenant[t] # Null}
Slugs == {0} \cup {tenant[t].slug : t \in Made}

FreeSlug == CHOOSE n \in 0..Cardinality(Slugs) : n \notin Slugs

\* An id no row has and no request in flight names.
FreshTenant(t) == tenant[t] = Null /\ \A q \in Slots : request[q].tenant # t

\* Phone and slug are looked for,
StartFound(r, t, p) ==
    /\ FreshTenant(t)
    /\ account[p] = Null
    /\ Enter(r, "found", [Unsent EXCEPT !.tenant = t, !.phone = p, !.row = FreeSlug])

\* and both are unique: the tenant, its branch and its owner in one transaction.
Found(r) ==
    /\ At(r, "found", "read")
    /\ tenant[request[r].tenant] = Null
    /\ account[request[r].phone] = Null
    /\ request[r].row \notin Slugs
    /\ tenant' = [tenant EXCEPT ![request[r].tenant] = [slug |-> request[r].row, signed |-> FALSE]]
    /\ account' = [account EXCEPT ![request[r].phone] = request[r].tenant]
    /\ End(r)
    /\ UNCHANGED <<bay, service, booking, photo, emptied, consent, orders, office>>

SignElsewhere(t) ==
    /\ t \in Made
    /\ tenant' = [tenant EXCEPT ![t].signed = TRUE]
    /\ UNCHANGED <<bay, service, booking, photo, emptied, consent, account, request, orders, office>>

StartDrop(r, t) ==
    /\ t \in Made
    /\ Enter(r, "drop", [Unsent EXCEPT !.tenant = t])

\* The accounts go with the tenant.  One that signed the contract stays, and
\* with it the tenant.
Drop(r) ==
    /\ At(r, "drop", "read")
    /\ request[r].tenant \in Made
    /\ ~tenant[request[r].tenant].signed
    /\ tenant' = [tenant EXCEPT ![request[r].tenant] = Null]
    /\ account' = [p \in Phones |-> IF account[p] = request[r].tenant THEN Null ELSE account[p]]
    /\ End(r)
    /\ UNCHANGED <<bay, service, booking, photo, emptied, consent, orders, office>>

----------------------------------------------------------------------------
(* Notes of an order *)

NewNote(u) == [author |-> u, live |-> TRUE]
WithoutNote(i) == [note EXCEPT ![i].live = FALSE]

Notes == {i \in DOMAIN note : note[i].live}

\* Looked for again before it is written to.
NoteStillThere(r) == request[r].row \in Notes

StartNote(r, u) ==
    /\ ~closed
    /\ Enter(r, "note", [Unsent EXCEPT !.user = u])

\* Whether the order was cancelled meanwhile is not looked at.
AddNote(r) ==
    /\ At(r, "note", "read")
    /\ note' = Append(note, NewNote(request[r].user))
    /\ End(r)
    /\ UNCHANGED <<setup, closed, drawn, opened, odometer, office>>

\* A note is edited by its author, and deleted by its author or a manager.
StartEditNote(r, i, u) ==
    /\ i \in Notes
    /\ note[i].author = u
    /\ Enter(r, "editNote", [Unsent EXCEPT !.row = i, !.user = u])

\* Its text, which nothing here tells apart.
EditNote(r) ==
    /\ At(r, "editNote", "read")
    /\ NoteStillThere(r)
    /\ End(r)
    /\ UNCHANGED <<setup, orders, office>>

StartDeleteNote(r, i, u) ==
    /\ i \in Notes
    /\ note[i].author = u \/ u \in Managers
    /\ Enter(r, "deleteNote", [Unsent EXCEPT !.row = i, !.user = u])

DeleteNote(r) ==
    /\ At(r, "deleteNote", "read")
    /\ NoteStillThere(r)
    /\ note' = WithoutNote(request[r].row)
    /\ End(r)
    /\ UNCHANGED <<setup, closed, drawn, opened, odometer, office>>

\* For good: no status follows.
CancelOrder(r) ==
    /\ request[r].phase = "unsent"
    /\ ~closed
    /\ closed' = TRUE
    /\ End(r)
    /\ UNCHANGED <<setup, note, drawn, opened, odometer, office>>

----------------------------------------------------------------------------
(* The number of an order, and the odometer of its vehicle *)

\* The next number is drawn in a transaction of its own: one statement.
DrawNumber(r, km) ==
    /\ request[r].phase = "unsent"
    /\ drawn' = drawn + 1
    /\ request' = [request EXCEPT ![r] = [Unsent EXCEPT !.op = "openOrder", !.phase = "read",
                                                       !.row = drawn + 1, !.km = km]]
    /\ UNCHANGED <<setup, note, closed, opened, odometer, office>>

\* The transaction that opens the order reads the vehicle,
ReadVehicle(r) ==
    /\ At(r, "openOrder", "read")
    /\ request' = [request EXCEPT ![r].phase = "vehicle", ![r].readKm = odometer]
    /\ UNCHANGED <<setup, orders, office>>

\* inserts the order, whose number is unique, and moves the odometer on.
OpenOrder(r) ==
    /\ At(r, "openOrder", "vehicle")
    /\ \A i \in DOMAIN opened : opened[i] # request[r].row
    /\ opened' = Append(opened, request[r].row)
    /\ odometer' = IF request[r].km > request[r].readKm THEN request[r].km ELSE odometer
    /\ End(r)
    /\ UNCHANGED <<setup, note, closed, drawn, office>>

\* The odometer given (flag), which may be lower, or the one read.
Edited(km, flag) == IF flag THEN km ELSE odometer

\* The vehicle is read and changed in memory,
StartEditVehicle(r, km, flag) ==
    Enter(r, "editVehicle", [Unsent EXCEPT !.km = Edited(km, flag), !.readKm = odometer,
                                           !.flag = flag])

\* and the whole copy is written.
EditVehicle(r) ==
    /\ At(r, "editVehicle", "read")
    /\ odometer' = request[r].km
    /\ End(r)
    /\ UNCHANGED <<setup, note, closed, drawn, opened, office>>

\* A row of an import finds the vehicle, and an odometer it gives is written
\* whatever the vehicle has.
StartImportVehicle(r, km) ==
    /\ km # 0
    /\ Enter(r, "importVehicle", [Unsent EXCEPT !.km = km, !.readKm = odometer, !.flag = TRUE])

ImportVehicle(r) ==
    /\ At(r, "importVehicle", "read")
    /\ odometer' = request[r].km
    /\ End(r)
    /\ UNCHANGED <<setup, note, closed, drawn, opened, office>>

----------------------------------------------------------------------------
(* Invoice settings and logo *)

\* A secret is sent (flag), sent empty (Null) or left out, and then kept as read.
StartSettings(r, key, flag) ==
    Enter(r, "settings", [Unsent EXCEPT !.key = IF flag THEN key ELSE secret,
                                        !.readKey = secret, !.flag = flag])

\* An empty one is not written.
Stores(key) == IF key = Null THEN secret ELSE key

WriteSettings(r) ==
    /\ At(r, "settings", "read")
    /\ secret' = Stores(request[r].key)
    /\ End(r)
    /\ UNCHANGED <<setup, orders, logo>>

StartLogo(r, x) == Enter(r, "logo", [Unsent EXCEPT !.format = x])

PutLogo(r) ==
    /\ At(r, "logo", "read")
    /\ logo' = [logo EXCEPT !.objects = @ \cup {request[r].format}]
    /\ Go(r, "stored")
    /\ UNCHANGED <<setup, orders, secret>>

\* The object of another format stays.
LinkLogo(r) ==
    /\ At(r, "logo", "stored")
    /\ logo' = [logo EXCEPT !.row = request[r].format, !.typed = FALSE]
    /\ End(r)
    /\ UNCHANGED <<setup, orders, secret>>

\* The profile of the tenant takes any link for the logo: nothing is stored for it.
UpdateProfile(r, link) ==
    /\ request[r].phase = "unsent"
    /\ logo' = [logo EXCEPT !.row = link, !.typed = TRUE]
    /\ End(r)
    /\ UNCHANGED <<setup, orders, secret>>

----------------------------------------------------------------------------

Start(r) ==
    \/ StartView(r)
    \/ \E n \in Names, flag \in BOOLEAN : StartCreateBay(r, n, flag)
    \/ \E i \in Bays, n \in Names, flag \in BOOLEAN : StartUpdateBay(r, i, n, flag)
    \/ \E i \in Bays : StartDeleteBay(r, i)
    \/ \E title \in Titles, p \in Phones : StartOnboard(r, title, p)
    \/ \E title \in Titles, code \in Codes : StartCreateService(r, title, code)
    \/ \E i \in Services, code \in Codes, flag \in BOOLEAN : StartUpdateService(r, i, code, flag)
    \/ \E i \in Services : StartRemoveService(r, i)
    \/ \E i \in Services \cup {0} : StartBook(r, i)
    \/ \E p \in Photos : StartUpload(r, p)
    \/ \E p \in Photos, op \in {"editPhoto", "deletePhoto"} : StartPhoto(r, op, p)
    \/ \E flag \in BOOLEAN : StartMarketing(r, flag) \/ Sign(r, flag)
    \/ \E t \in Tenants, p \in Phones : StartFound(r, t, p)
    \/ \E t \in Tenants : StartDrop(r, t)
    \/ \E u \in Staff : StartNote(r, u)
    \/ CancelOrder(r)
    \/ \E i \in Notes, u \in Staff : StartEditNote(r, i, u) \/ StartDeleteNote(r, i, u)
    \/ \E km \in Kilometres \cup {0} : DrawNumber(r, km)
    \/ \E km \in Kilometres, flag \in BOOLEAN : StartEditVehicle(r, km, flag)
    \/ \E key \in Secret, flag \in BOOLEAN : StartSettings(r, key, flag)
    \/ \E km \in Kilometres : StartImportVehicle(r, km)
    \/ \E x \in Formats : StartLogo(r, x)
    \/ \E link \in Formats \cup {Elsewhere, Null} : UpdateProfile(r, link)

Write(r) ==
    \/ InsertDefaults(r)
    \/ CreateBay(r)
    \/ UpdateBay(r)
    \/ DeleteBay(r)
    \/ LookStaff(r)
    \/ LookBays(r)
    \/ CommitOnboarding(r)
    \/ CreateService(r)
    \/ UpdateService(r)
    \/ DeactivateService(r)
    \/ DeleteService(r)
    \/ Book(r)
    \/ PutObject(r)
    \/ InsertPhoto(r)
    \/ EditPhoto(r)
    \/ RemoveObject(r)
    \/ RemovePhoto(r)
    \/ WriteMarketing(r)
    \/ Found(r)
    \/ Drop(r)
    \/ AddNote(r)
    \/ EditNote(r)
    \/ DeleteNote(r)
    \/ ReadVehicle(r)
    \/ OpenOrder(r)
    \/ EditVehicle(r)
    \/ ImportVehicle(r)
    \/ WriteSettings(r)
    \/ PutLogo(r)
    \/ LinkLogo(r)
    \/ Fail(r)

WorkshopNext ==
    \/ \E r \in Slots : Start(r) \/ Write(r)
    \/ \E t \in Tenants : SignElsewhere(t)

WorkshopSpec == WorkshopInit /\ [][WorkshopNext]_workshopVars

----------------------------------------------------------------------------
(* Properties *)

\* A photo that is listed has its object, unless a deletion removed the object
\* and failed to remove the row, or has yet to.
PhotosHaveObjects == \A p \in Photos : photo[p].row => photo[p].object \/ p \in emptied

\* The logo shown has its object, however uploads of several formats mix, unless
\* its link was typed into the profile.
LogoHasObject == logo.row \in logo.objects \cup {Null} \/ logo.typed

\* No two orders carry one number.
NumbersDiffer == \A i, j \in DOMAIN opened : opened[i] = opened[j] => i = j

\* What is stored under a row, an uploaded logo or a number is there and its own.
WorkshopConsistent == WorkshopTypeOK /\ PhotosHaveObjects /\ LogoHasObject /\ NumbersDiffer

Ending == {r \in Slots : request[r].phase \notin {"unsent", "done"}
                              /\ request'[r].phase = "done"}

Ends(op) == {r \in Ending : request[r].op = op}

\* Bays that a look at the bays or an onboarding adds to others join only bays
\* that were made after it had found none.
SeededOnlyWhenEmpty ==
    \A r \in Ends("view") \cup Ends("onboard"), i \in Bays :
       Len(bay') > Len(bay) => i > request[r].length

\* A booking loses its service only to a removal that had counted the bookings
\* before this one was written.
ServiceKeptWhenBooked ==
    \A k \in DOMAIN booking :
       booking[k].service # 0 /\ booking'[k].service = 0 =>
          \E r \in Ends("removeService") : k \notin request[r].seen

\* A booking online gets a bay that is there and open to bookings, unless the
\* bays changed after they were read or none was open.
OnlineBaysOnly ==
    \A r \in Ends("book") :
       Len(booking') > Len(booking) =>
          request[r].name \in Online \/ request[r].offered # Online \/ Online = {}

\* After an opt-out the latest consent accepts no commercial messages, unless
\* the contract was signed anew after the opt-out had read the one before.
OptOutHolds ==
    \A r \in Ends("marketing") :
       consent' # consent /\ ~request[r].flag =>
          ~consent'[Len(consent')] \/ Len(consent) > request[r].row

\* The odometer goes back only when somebody gives a lower one, in an edit or in
\* an import, or when a request writes what it made of an older one.
OdometerGoesForward ==
    odometer' < odometer =>
       \E r \in Ends("editVehicle") \cup Ends("importVehicle") \cup Ends("openOrder") :
          request[r].readKm # odometer \/ request[r].flag

\* A stored secret is never lost, and is replaced only by one that is sent, or
\* by the older one that a request read before another replaced it.
SecretKept ==
    secret' # secret =>
       /\ secret' # Null
       /\ \E r \in Ends("settings") : request[r].flag \/ request[r].readKey # secret

\* Each of the six rules is broken only by a request that read an older state.
BrokenOnlyWhenOutdated ==
    [][/\ SeededOnlyWhenEmpty /\ ServiceKeptWhenBooked /\ OnlineBaysOnly /\ OptOutHolds
       /\ OdometerGoesForward /\ SecretKept]_workshopVars
==============================================================================
