----------------------------- MODULE Appointments -----------------------------
(***************************************************************************)
(* The appointment book of one workshop.  A request reads a booking,       *)
(* changes its copy, checks the copy against the book, and writes the      *)
(* whole copy back in a later transaction; a cancellation writes only the  *)
(* status; the work order of a booking writes its status too.  The last    *)
(* word is PostgreSQL's: two EXCLUDE constraints refuse any write that     *)
(* would give one mechanic or one lift to two bookings at a time.          *)
(*                                                                         *)
(* A rejection before the first write has the effect of a request that     *)
(* was never made, so checks of other tables (leave, past dates, customer, *)
(* vehicle) are left out.                                                  *)
(***************************************************************************)
EXTENDS Integers

CONSTANTS
    Requests,
    Bookings,
    Mechanics,
    Lifts,
    Slots,         \* pairs of a start and an end
    Earlier,       \* bookings in the book when the requests begin
    EarlierRows,   \* what they may be
    Ops,           \* the operations the requests may ask for
    None

ASSUME NoneAssumption == None \notin Mechanics \cup Lifts \cup Bookings
ASSUME SlotsAssumption == Slots \subseteq Int \X Int
ASSUME EarlierAssumption == Earlier \subseteq Bookings

VARIABLES
    row,           \* the table of appointments
    req,           \* the requests
    cancelled      \* history: bookings cancelled and not deliberately reopened

vars == <<row, req, cancelled>>

----------------------------------------------------------------------------
(* The table *)

Status == {"PENDING", "CONFIRMED", "IN_SERVICE", "COMPLETED", "CANCELLED", "NO_SHOW"}

Row == [status : Status, mechanic : Mechanics \cup {None}, lift : Lifts \cup {None},
        slot : Slots]

\* The rows with status s.
RowsIn(s) == [status : {s}, mechanic : Mechanics \cup {None}, lift : Lifts \cup {None},
              slot : Slots]

ASSUME EarlierRowsAssumption == EarlierRows \subseteq Row

\* A booking not yet made.
NoRow == [status |-> "ABSENT"]

Absent(b) == row[b].status = "ABSENT"
Start(x) == x.slot[1]
End(x) == x.slot[2]

\* Statuses that keep the slot.
Holding == {"PENDING", "CONFIRMED", "IN_SERVICE", "COMPLETED"}

\* The clash the use cases look for.
Clashes(x, y) == Start(x) < End(y) /\ End(x) > Start(y)

\* The ranges [start, end) share an instant; an empty one shares none.
Overlap(x, y) == Clashes(x, y) /\ Start(x) < End(x) /\ Start(y) < End(y)

SameMechanic(x, y) == x.mechanic # None /\ x.mechanic = y.mechanic
SameLift(x, y) == x.lift # None /\ x.lift = y.lift

\* Variant: only slots with the same start are excluded.
Accepts_SameStart(b, x) ==
    x.status \in Holding =>
        \A c \in Bookings \ {b} :
            row[c].status \in Holding /\ Start(x) = Start(row[c])
                => ~SameMechanic(x, row[c]) /\ ~SameLift(x, row[c])

\* no_overlapping_mechanic and no_overlapping_lift accept x as row b.  A range
\* that ends before it starts is an error.
Accepts(b, x) ==
    x.status \in Holding =>
        /\ x.mechanic # None \/ x.lift # None => Start(x) <= End(x)
        /\ \A c \in Bookings \ {b} :
              row[c].status \in Holding /\ Overlap(x, row[c])
                  => ~SameMechanic(x, row[c]) /\ ~SameLift(x, row[c])

----------------------------------------------------------------------------
(* The requests *)

\* mechanic, lift: about to make that check.  book: about to enter the
\* transaction of create.  locked: in it, holding its advisory lock.
\* save, cancel: about to write.
Phase == {"idle", "mechanic", "lift", "book", "locked", "save", "cancel", "done"}

Request == [op : Ops \cup {None}, booking : Bookings \cup {None},
            entity : Row \cup {None}, read : Status \cup {"ABSENT", None}, phase : Phase]

Unsent == [op |-> None, booking |-> None, entity |-> None, read |-> None, phase |-> "idle"]

TypeOK ==
    /\ row \in [Bookings -> Row \cup {NoRow}]
    /\ req \in [Requests -> Request]
    /\ cancelled \subseteq Bookings

NoDoubleBooking ==
    \A b, c \in Bookings :
        /\ b # c
        /\ row[b].status \in Holding
        /\ row[c].status \in Holding
        /\ Overlap(row[b], row[c])
        => ~SameMechanic(row[b], row[c]) /\ ~SameLift(row[b], row[c])

Init ==
    /\ \E e \in [Earlier -> EarlierRows] :
          row = [b \in Bookings |-> IF b \in Earlier THEN e[b] ELSE NoRow]
    /\ NoDoubleBooking
    /\ req = [r \in Requests |-> Unsent]
    /\ cancelled = {}

In(r, p) == req[r].phase = p
Goto(r, p) == req' = [req EXCEPT ![r].phase = p]
Done(r) == req' = [req EXCEPT ![r] = [Unsent EXCEPT !.phase = "done"]]

Begin(r, op, b, x, p) ==
    /\ In(r, "idle")
    /\ op \in Ops
    /\ req' = [req EXCEPT ![r] = [op |-> op, booking |-> b, entity |-> x,
                                  read |-> row[b].status, phase |-> p]]
    /\ UNCHANGED <<row, cancelled>>

Taken(b) == ~Absent(b) \/ \E r \in Requests : req[r].booking = b

\* The staff book a slot, with a mechanic, a lift, both or neither.
StartBook(r, b, x) ==
    /\ ~Taken(b)
    /\ x.status = "CONFIRMED"
    /\ Start(x) < End(x)
    /\ Begin(r, "book", b, x, "mechanic")

\* A customer books online: the first bay that is free, no mechanic.
StartOnline(r, b, x) ==
    /\ ~Taken(b)
    /\ x.status = "PENDING"
    /\ Start(x) < End(x)
    /\ x.mechanic = None
    /\ x.lift # None
    /\ ~ \E c \in Bookings : row[c].status \in Holding /\ SameLift(x, row[c]) /\ Clashes(x, row[c])
    /\ Begin(r, "online", b, x, "book")

\* canReschedule and canCancel.
Open(b) == row[b].status \notin {"COMPLETED", "CANCELLED"}

\* Nothing checks that the new slot ends after it starts.
StartReschedule(r, b, x) ==
    /\ ~Absent(b)
    /\ Open(b)
    /\ x.status = row[b].status
    /\ Begin(r, "reschedule", b, x, "mechanic")

\* Variant: confirm does not look at the status.
MayConfirm_Always(b) == TRUE

MayConfirm(b) == row[b].status # "CANCELLED"

StartApprove(r, b) ==
    /\ ~Absent(b)
    /\ MayConfirm(b)
    /\ Begin(r, "approve", b, [row[b] EXCEPT !.status = "CONFIRMED"], "save")

StartNoShow(r, b) ==
    /\ ~Absent(b)
    /\ Open(b)
    /\ Begin(r, "noShow", b, [row[b] EXCEPT !.status = "NO_SHOW"], "save")

\* The status is set by hand, to anything from anything.
StartSetStatus(r, b, s) ==
    /\ ~Absent(b)
    /\ Begin(r, "setStatus", b, [row[b] EXCEPT !.status = s], "save")

StartCancel(r, b) ==
    /\ ~Absent(b)
    /\ Open(b)
    /\ Begin(r, "cancel", b, None, "cancel")

----------------------------------------------------------------------------
(* Checks and writes *)

\* The other bookings in the way of the copy of request r, in time.
Rivals(r) ==
    {c \in Bookings \ {req[r].booking} :
        row[c].status \in Holding /\ Clashes(req[r].entity, row[c])}

MechanicConflict(r) == \E c \in Rivals(r) : SameMechanic(req[r].entity, row[c])
LiftConflict(r) == \E c \in Rivals(r) : SameLift(req[r].entity, row[c])

CheckMechanic(r) ==
    /\ In(r, "mechanic")
    /\ IF MechanicConflict(r) THEN Done(r) ELSE Goto(r, "lift")
    /\ UNCHANGED <<row, cancelled>>

CheckLift(r) ==
    /\ In(r, "lift")
    /\ IF LiftConflict(r)
       THEN Done(r)
       ELSE Goto(r, IF req[r].op = "book" THEN "book" ELSE "save")
    /\ UNCHANGED <<row, cancelled>>

\* The key of the advisory lock: the lift, else the mechanic, else the slot.
LockKey(x) == <<IF x.lift # None THEN x.lift ELSE x.mechanic, Start(x)>>

\* The transaction of create takes its lock and repeats the checks.
Lock(r) ==
    /\ In(r, "book")
    /\ \A s \in Requests : In(s, "locked") => LockKey(req[s].entity) # LockKey(req[r].entity)
    /\ IF MechanicConflict(r) \/ LiftConflict(r) THEN Done(r) ELSE Goto(r, "locked")
    /\ UNCHANGED <<row, cancelled>>

\* The whole copy is written, unless a constraint refuses it.
Write(r) ==
    LET b == req[r].booking
        x == req[r].entity
    IN  /\ In(r, "locked") \/ In(r, "save")
        /\ \/ /\ Accepts(b, x)
              /\ row' = [row EXCEPT ![b] = x]
              /\ cancelled' = IF req[r].op = "setStatus" /\ req[r].read = "CANCELLED"
                              THEN cancelled \ {b} ELSE cancelled
           \/ /\ ~Accepts(b, x)
              /\ UNCHANGED <<row, cancelled>>
        /\ Done(r)

\* Variant: a cancellation clears the slot.
Cancelled_NoSlot(x) == [x EXCEPT !.status = "CANCELLED", !.slot = None]

Cancelled(x) == [x EXCEPT !.status = "CANCELLED"]

\* The status is written whatever it is by now.
Cancel(r) ==
    /\ In(r, "cancel")
    /\ row' = [row EXCEPT ![req[r].booking] = Cancelled(@)]
    /\ cancelled' = cancelled \cup {req[r].booking}
    /\ Done(r)

\* Opening, starting or completing the work order of a booking writes its
\* status, whatever it is by then.
OrderWrites(b, s) ==
    /\ "order" \in Ops
    /\ ~Absent(b)
    /\ s \in {"IN_SERVICE", "COMPLETED"}
    /\ Accepts(b, [row[b] EXCEPT !.status = s])
    /\ row' = [row EXCEPT ![b].status = s]
    /\ UNCHANGED <<req, cancelled>>

Next ==
    \/ \E r \in Requests, b \in Bookings :
          \/ \E x \in RowsIn("CONFIRMED") : StartBook(r, b, x)
          \/ \E x \in RowsIn("PENDING") : StartOnline(r, b, x)
          \/ \E x \in RowsIn(row[b].status) : StartReschedule(r, b, x)
          \/ StartApprove(r, b)
          \/ StartNoShow(r, b)
          \/ \E s \in Status : StartSetStatus(r, b, s)
          \/ StartCancel(r, b)
    \/ \E r \in Requests :
          \/ CheckMechanic(r)
          \/ CheckLift(r)
          \/ Lock(r)
          \/ Write(r)
          \/ Cancel(r)
    \/ \E b \in Bookings, s \in Status : OrderWrites(b, s)

Spec == Init /\ [][Next]_vars

----------------------------------------------------------------------------
(* Properties *)

\* A finished or cancelled booking is reopened only by hand, by its work order,
\* by the approval of a finished one, or by a request that read another status.
ReopenedOnlyWhenOutdated ==
    [][\A b \in Bookings :
          row[b].status \in {"COMPLETED", "CANCELLED"} /\ row'[b].status # row[b].status =>
              \/ req' = req
              \/ \E r \in Requests :
                    /\ In(r, "save") \/ In(r, "cancel")
                    /\ req'[r].phase = "done"
                    /\ req[r].booking = b
                    /\ \/ req[r].op = "setStatus"
                       \/ req[r].op = "approve" /\ req[r].read = "COMPLETED"
                       \/ req[r].read # row[b].status]_vars

\* "İptal edilmiş randevu yeniden planlanamaz": a cancelled booking stays
\* cancelled unless somebody who saw it cancelled sets its status by hand.
CancelledStays == \A b \in cancelled : row[b].status = "CANCELLED"

==============================================================================
