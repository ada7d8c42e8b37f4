-------------------------- MODULE AppointmentsProofs --------------------------
(***************************************************************************)
(* Appointments: no mechanic and no lift is ever given to two bookings at  *)
(* a time, for any number of requests, bookings and slots: every write     *)
(* that could give a slot away passes the exclusion constraints, whatever  *)
(* was read before it.                                                     *)
(*                                                                         *)
(* Reminders: the jobs about these appointments, for any number of jobs    *)
(* and workers.  Every text a customer gets too many is paid for by a      *)
(* failed attempt or a worker that died.                                   *)
(***************************************************************************)
EXTENDS Appointments, Reminders, WellFoundedInduction, TLAPS

Copying == {"mechanic", "lift", "book", "locked", "save"}

\* A request under way has a booking, and the copy it writes or a row to cancel.
Prepared ==
    \A r \in Requests :
        /\ req[r].phase \in Copying => req[r].booking \in Bookings /\ req[r].entity \in Row
        /\ In(r, "cancel") => req[r].booking \in Bookings /\ row[req[r].booking] \in Row

IInv == TypeOK /\ Prepared /\ NoDoubleBooking

----------------------------------------------------------------------------
(* Rows and slots *)

LEMMA AbsentOrRow ==
    ASSUME TypeOK, NEW b \in Bookings
    PROVE  /\ ~Absent(b) => row[b] \in Row
           /\ row[b].status \in Holding => row[b] \in Row
BY DEF TypeOK, Absent, NoRow, Holding

LEMMA SlotsAreIntegers ==
    ASSUME NEW x \in Row
    PROVE  Start(x) \in Int /\ End(x) \in Int
BY SlotsAssumption DEF Row, Start, End

LEMMA StatusOfRow ==
    ASSUME NEW x \in Row, NEW s \in Status
    PROVE  [x EXCEPT !.status = s] \in Row
BY DEF Row

LEMMA SameSymmetric ==
    ASSUME NEW x, NEW y
    PROVE  /\ SameMechanic(x, y) <=> SameMechanic(y, x)
           /\ SameLift(x, y) <=> SameLift(y, x)
BY DEF SameMechanic, SameLift

LEMMA OverlapSymmetric ==
    ASSUME NEW x \in Row, NEW y \in Row
    PROVE  Overlap(x, y) <=> Overlap(y, x)
BY SlotsAreIntegers DEF Overlap, Clashes

\* A row the constraints accept keeps the book free of double bookings.
LEMMA AcceptedWrite ==
    ASSUME TypeOK, NoDoubleBooking, NEW b \in Bookings, NEW x \in Row, Accepts(b, x),
           row' = [row EXCEPT ![b] = x]
    PROVE  NoDoubleBooking'
<1> SUFFICES ASSUME NEW c \in Bookings, NEW d \in Bookings, c # d,
                    row'[c].status \in Holding, row'[d].status \in Holding,
                    Overlap(row'[c], row'[d])
             PROVE  ~SameMechanic(row'[c], row'[d]) /\ ~SameLift(row'[c], row'[d])
  BY DEF NoDoubleBooking, Overlap, Clashes, Start, End, SameMechanic, SameLift
<1>1. row'[b] = x /\ \A e \in Bookings \ {b} : row'[e] = row[e]
  BY DEF TypeOK
<1>2. CASE c = b
  BY <1>1, <1>2 DEF Accepts
<1>3. CASE d = b
  <2>1. row'[c] = row[c] /\ row'[d] = x /\ row[c] \in Row
    BY <1>1, <1>3, AbsentOrRow
  <2>2. Overlap(x, row[c])
    BY <2>1, OverlapSymmetric
  <2>3. ~SameMechanic(x, row[c]) /\ ~SameLift(x, row[c])
    BY <1>3, <2>1, <2>2 DEF Accepts
  <2>4. QED
    BY <2>1, <2>3, SameSymmetric
<1>4. CASE c # b /\ d # b
  BY <1>1, <1>4 DEF NoDoubleBooking
<1>5. QED
  BY <1>2, <1>3, <1>4

----------------------------------------------------------------------------
(* The invariant *)

LEMMA UnsentType == Unsent \in Request /\ [Unsent EXCEPT !.phase = "done"] \in Request
BY DEF Unsent, Request, Phase

LEMMA InitIInv == Init => IInv
<1> SUFFICES ASSUME Init PROVE IInv
  OBVIOUS
<1>1. TypeOK
  BY UnsentType, EarlierRowsAssumption DEF Init, TypeOK
<1>2. Prepared
  BY DEF Init, Prepared, Unsent, Copying, In
<1>3. QED
  BY <1>1, <1>2 DEF Init, IInv

\* A request that begins has read the row of its booking.
LEMMA BeginStep ==
    ASSUME IInv, NEW r \in Requests, NEW op \in Ops, NEW b \in Bookings, NEW x,
           NEW p \in Copying \cup {"cancel"}, Begin(r, op, b, x, p),
           p \in Copying => x \in Row,
           p = "cancel" => x = None /\ row[b] \in Row
    PROVE  IInv'
<1> DEFINE new == [op |-> op, booking |-> b, entity |-> x, read |-> row[b].status, phase |-> p]
<1>1. req' = [req EXCEPT ![r] = new] /\ UNCHANGED <<row, cancelled>>
  BY DEF Begin
<1>2. x \in Row \cup {None} /\ row[b].status \in Status \cup {"ABSENT"} /\ p \in Phase
  BY DEF IInv, TypeOK, Copying, Phase, Row, NoRow
<1>3. new \in Request
  BY <1>2 DEF Request
<1>4. TypeOK'
  BY <1>1, <1>3 DEF IInv, TypeOK
<1>5. \A s \in Requests : req'[s] = IF s = r THEN new ELSE req[s]
  BY <1>1 DEF IInv, TypeOK
<1>6. Prepared'
  BY <1>1, <1>5 DEF IInv, Prepared, In, Copying
<1>7. NoDoubleBooking'
  BY <1>1 DEF IInv, NoDoubleBooking
<1>8. QED
  BY <1>4, <1>6, <1>7 DEF IInv

\* A request that is done asks for nothing more.
LEMMA DoneStep ==
    ASSUME TypeOK, Prepared, NEW r \in Requests, Done(r), row' \in [Bookings -> Row \cup {NoRow}],
           cancelled' \subseteq Bookings,
           \A b \in Bookings : row[b] \in Row => row'[b] \in Row
    PROVE  TypeOK' /\ Prepared'
<1>1. TypeOK'
  BY UnsentType DEF Done, TypeOK
<1>2. \A s \in Requests : req'[s] = IF s = r THEN [Unsent EXCEPT !.phase = "done"] ELSE req[s]
  BY DEF Done, TypeOK
<1>3. [Unsent EXCEPT !.phase = "done"].phase = "done"
  BY DEF Unsent
<1>4. Prepared'
  BY <1>2, <1>3 DEF Prepared, In, Copying
<1>5. QED
  BY <1>1, <1>4

\* A check sends a request on, or is its end.
LEMMA CheckStep ==
    ASSUME IInv, NEW r \in Requests, NEW p \in Copying, req[r].phase \in Copying,
           Goto(r, p) \/ Done(r), UNCHANGED <<row, cancelled>>
    PROVE  IInv'
<1>1. NoDoubleBooking'
  BY DEF IInv, NoDoubleBooking
<1>2. CASE Done(r)
  BY <1>1, <1>2, DoneStep DEF IInv, TypeOK
<1>3. CASE Goto(r, p)
  <2>1. p \in Phase
    BY DEF Copying, Phase
  <2>2. TypeOK'
    BY <1>3, <2>1 DEF Goto, IInv, TypeOK, Request
  <2>3. /\ \A s \in Requests \ {r} : req'[s] = req[s]
        /\ req'[r].booking = req[r].booking
        /\ req'[r].entity = req[r].entity
        /\ req'[r].phase = p
    BY <1>3 DEF Goto, IInv, TypeOK, Request
  <2>4. Prepared'
    BY <2>3 DEF IInv, Prepared, In, Copying
  <2>5. QED
    BY <1>1, <2>2, <2>4 DEF IInv
<1>4. QED
  BY <1>2, <1>3

LEMMA WriteStep ==
    ASSUME IInv, NEW r \in Requests, Write(r)
    PROVE  IInv'
<1> DEFINE b == req[r].booking
           x == req[r].entity
<1>1. b \in Bookings /\ x \in Row
  BY DEF IInv, Prepared, Write, In, Copying
<1>2. Done(r)
  BY DEF Write
<1>3. CASE Accepts(b, x)
  <2>1. row' = [row EXCEPT ![b] = x] /\ cancelled' \subseteq cancelled
    BY <1>3 DEF Write
  <2>2. /\ row' \in [Bookings -> Row \cup {NoRow}]
        /\ \A c \in Bookings : row[c] \in Row => row'[c] \in Row
    BY <1>1, <2>1 DEF IInv, TypeOK
  <2>3. TypeOK' /\ Prepared'
    BY <1>2, <2>1, <2>2, DoneStep DEF IInv, TypeOK
  <2>4. NoDoubleBooking'
    BY <1>1, <1>3, <2>1, AcceptedWrite DEF IInv
  <2>5. QED
    BY <2>3, <2>4 DEF IInv
<1>4. CASE ~Accepts(b, x)
  <2>1. UNCHANGED <<row, cancelled>>
    BY <1>4 DEF Write
  <2>2. QED
    BY <1>2, <2>1, DoneStep DEF IInv, TypeOK, NoDoubleBooking
<1>5. QED
  BY <1>3, <1>4

LEMMA CancelStep ==
    ASSUME IInv, NEW r \in Requests, Cancel(r)
    PROVE  IInv'
<1> DEFINE b == req[r].booking
           x == [row[b] EXCEPT !.status = "CANCELLED"]
<1>1. b \in Bookings /\ row[b] \in Row
  BY DEF IInv, Prepared, Cancel
<1>2. x \in Row /\ x.status = "CANCELLED"
  BY <1>1 DEF Row, Status
<1>3. row' = [row EXCEPT ![b] = x] /\ cancelled' = cancelled \cup {b} /\ Done(r)
  BY <1>1 DEF Cancel, Cancelled, IInv, TypeOK
<1>4. Accepts(b, x)
  BY <1>2 DEF Accepts, Holding
<1>5. /\ row' \in [Bookings -> Row \cup {NoRow}]
      /\ \A c \in Bookings : row[c] \in Row => row'[c] \in Row
  BY <1>1, <1>2, <1>3 DEF IInv, TypeOK
<1>6. TypeOK' /\ Prepared'
  BY <1>1, <1>3, <1>5, DoneStep DEF IInv, TypeOK
<1>7. NoDoubleBooking'
  BY <1>1, <1>2, <1>3, <1>4, AcceptedWrite DEF IInv
<1>8. QED
  BY <1>6, <1>7 DEF IInv

LEMMA OrderStep ==
    ASSUME IInv, NEW b \in Bookings, NEW s \in Status, OrderWrites(b, s)
    PROVE  IInv'
<1> DEFINE x == [row[b] EXCEPT !.status = s]
<1>1. row[b] \in Row
  BY AbsentOrRow DEF OrderWrites, IInv
<1>2. x \in Row
  BY <1>1, StatusOfRow
<1>3. row' = [row EXCEPT ![b] = x] /\ Accepts(b, x) /\ UNCHANGED <<req, cancelled>>
  BY DEF OrderWrites, IInv, TypeOK
<1>4. /\ row' \in [Bookings -> Row \cup {NoRow}]
      /\ \A c \in Bookings : row[c] \in Row => row'[c] \in Row
  BY <1>2, <1>3 DEF IInv, TypeOK
<1>5. TypeOK' /\ Prepared'
  BY <1>3, <1>4 DEF IInv, TypeOK, Prepared, In
<1>6. NoDoubleBooking'
  BY <1>2, <1>3, AcceptedWrite DEF IInv
<1>7. QED
  BY <1>5, <1>6 DEF IInv

LEMMA IInvStep == IInv /\ [Next]_vars => IInv'
<1> SUFFICES ASSUME IInv, [Next]_vars PROVE IInv'
  OBVIOUS
<1>1. ASSUME NEW r \in Requests, NEW b \in Bookings, NEW x \in Row,
             StartBook(r, b, x) \/ StartOnline(r, b, x) \/ StartReschedule(r, b, x)
      PROVE  IInv'
  <2>1. \E op \in Ops, p \in {"mechanic", "book"} : Begin(r, op, b, x, p)
    BY <1>1 DEF StartBook, StartOnline, StartReschedule, Begin
  <2>2. QED
    BY <2>1, BeginStep DEF Copying
<1>2. ASSUME NEW r \in Requests, NEW b \in Bookings, NEW s \in Status,
             StartApprove(r, b) \/ StartNoShow(r, b) \/ StartSetStatus(r, b, s)
      PROVE  IInv'
  <2>1. row[b] \in Row
    BY <1>2, AbsentOrRow DEF StartApprove, StartNoShow, StartSetStatus, IInv
  <2>2. \E op \in Ops, t \in Status : Begin(r, op, b, [row[b] EXCEPT !.status = t], "save")
    BY <1>2 DEF StartApprove, StartNoShow, StartSetStatus, Begin, Status
  <2>3. PICK op \in Ops, t \in Status : Begin(r, op, b, [row[b] EXCEPT !.status = t], "save")
    BY <2>2
  <2>4. [row[b] EXCEPT !.status = t] \in Row
    BY <2>1, StatusOfRow
  <2>5. QED
    BY <2>3, <2>4, BeginStep DEF Copying
<1>3. ASSUME NEW r \in Requests, NEW b \in Bookings, StartCancel(r, b) PROVE IInv'
  <2>1. row[b] \in Row
    BY <1>3, AbsentOrRow DEF StartCancel, IInv
  <2>2. "cancel" \in Ops /\ Begin(r, "cancel", b, None, "cancel")
    BY <1>3 DEF StartCancel, Begin
  <2>3. QED
    BY <2>1, <2>2, BeginStep DEF Copying
<1>4. ASSUME NEW r \in Requests, CheckMechanic(r) \/ CheckLift(r) \/ Lock(r) PROVE IInv'
  <2>1. /\ req[r].phase \in Copying
        /\ UNCHANGED <<row, cancelled>>
        /\ \E p \in {"lift", "book", "save", "locked"} : Goto(r, p) \/ Done(r)
    BY <1>4 DEF CheckMechanic, CheckLift, Lock, In, Copying
  <2>2. QED
    BY <2>1, CheckStep DEF Copying
<1>5. CASE UNCHANGED vars
  <2>1. row' = row /\ req' = req /\ cancelled' = cancelled
    BY <1>5 DEF vars
  <2>2. TypeOK' /\ Prepared'
    BY <2>1 DEF IInv, TypeOK, Prepared, In
  <2>3. NoDoubleBooking'
    BY <2>1 DEF IInv, NoDoubleBooking
  <2>4. QED
    BY <2>2, <2>3 DEF IInv
<1>6. ASSUME NEW r \in Requests, Write(r) \/ Cancel(r) PROVE IInv'
  BY <1>6, WriteStep, CancelStep
<1>7. ASSUME NEW b \in Bookings, NEW s \in Status, OrderWrites(b, s) PROVE IInv'
  BY <1>7, OrderStep
<1>8. CASE \E r \in Requests, b \in Bookings :
              \/ \E x \in RowsIn("CONFIRMED") : StartBook(r, b, x)
              \/ \E x \in RowsIn("PENDING") : StartOnline(r, b, x)
              \/ \E x \in RowsIn(row[b].status) : StartReschedule(r, b, x)
              \/ StartApprove(r, b)
              \/ StartNoShow(r, b)
              \/ \E s \in Status : StartSetStatus(r, b, s)
              \/ StartCancel(r, b)
  <2>1. \A s \in Status : RowsIn(s) \subseteq Row
    BY DEF RowsIn, Row
  <2>2. "CONFIRMED" \in Status /\ "PENDING" \in Status
    BY DEF Status
  <2>3. ASSUME NEW r \in Requests, NEW b \in Bookings, NEW x \in RowsIn(row[b].status),
               StartReschedule(r, b, x)
        PROVE  IInv'
    <3>1. row[b] \in Row
      BY <2>3, AbsentOrRow DEF StartReschedule, IInv
    <3>2. x \in Row
      BY <2>1, <3>1 DEF Row
    <3>3. QED
      BY <1>1, <2>3, <3>2
  <2>4. QED
    BY <1>1, <1>2, <1>3, <1>8, <2>1, <2>2, <2>3
<1>9. QED
  BY <1>4, <1>5, <1>6, <1>7, <1>8 DEF Next

LEMMA Invariance == Spec => []IInv
BY InitIInv, IInvStep, PTL DEF Spec

\* The book and the requests keep the shape of the schema.
THEOREM TypeCorrect == Spec => []TypeOK
<1>1. IInv => TypeOK
  BY DEF IInv
<1>2. QED
  BY <1>1, Invariance, PTL

\* Parallel requests, rescheduling and every change of status leave each
\* mechanic and each lift with at most one booking at a time.
THEOREM NeverDoubleBooked == Spec => []NoDoubleBooking
<1>1. IInv => NoDoubleBooking
  BY DEF IInv
<1>2. QED
  BY <1>1, Invariance, PTL

----------------------------------------------------------------------------
(* What a request is for *)

\* The request will insert its booking.
Creating(q) ==
    \/ q.phase \in {"book", "locked"}
    \/ q.phase \in {"mechanic", "lift"} /\ q.op = "book"

\* The operation of a request that will write a row, and the status it had read.
Purpose(q) ==
    /\ q.phase = "save" => q.op \in {"reschedule", "approve", "noShow", "setStatus"}
    /\ q.phase = "save" /\ q.op \in {"reschedule", "noShow"} => q.read \notin {"COMPLETED", "CANCELLED"}
    /\ q.phase = "save" /\ q.op = "approve" => q.read # "CANCELLED"
    /\ q.phase \in {"mechanic", "lift"} /\ q.op # "book" =>
          q.op = "reschedule" /\ q.read \notin {"COMPLETED", "CANCELLED"}
    /\ q.phase = "cancel" => q.read \notin {"COMPLETED", "CANCELLED"}

\* A booking being inserted is not in the table and not another request's.
Reserved(r) ==
    Creating(req[r]) => /\ Absent(req[r].booking)
                        /\ \A s \in Requests \ {r} : req[s].booking # req[r].booking

Intent == \A r \in Requests : Purpose(req[r]) /\ Reserved(r)

LEMMA IntentKept ==
    ASSUME IInv, Intent, NEW r \in Requests, NEW q, req' = [req EXCEPT ![r] = q], Purpose(q),
           \A c \in Bookings \ {req[r].booking} : row'[c] = row[c],
           q.booking \in {None, req[r].booking} \/ ~Taken(q.booking) \/ ~Absent(q.booking),
           Creating(q) => /\ row' = row
                          /\ \/ Creating(req[r]) /\ q.booking = req[r].booking
                             \/ ~Taken(q.booking)
    PROVE  Intent'
<1>1. req'[r] = q /\ \A s \in Requests \ {r} : req'[s] = req[s]
  BY DEF IInv, TypeOK
<1>2. \A s \in Requests : Purpose(req[s])'
  BY <1>1 DEF Intent, Purpose
<1>3. Reserved(r)'
  <2>1. SUFFICES ASSUME Creating(q)
                 PROVE  /\ row'[q.booking].status = "ABSENT"
                        /\ \A s \in Requests \ {r} : req[s].booking # q.booking
    BY <1>1 DEF Reserved, Absent, Creating
  <2>2. CASE ~Taken(q.booking)
    BY <2>1, <2>2 DEF Taken, Absent
  <2>3. CASE Creating(req[r]) /\ q.booking = req[r].booking
    BY <2>1, <2>3 DEF Intent, Reserved, Absent
  <2> QED
    BY <2>1, <2>2, <2>3
<1>4. ASSUME NEW s \in Requests \ {r} PROVE Reserved(s)'
  <2>1. SUFFICES ASSUME Creating(req[s])
                 PROVE  /\ row'[req[s].booking].status = "ABSENT"
                        /\ \A t \in Requests \ {s} : req'[t].booking # req[s].booking
    BY <1>1 DEF Reserved, Absent, Creating
  <2>2. /\ req[s].booking \in Bookings /\ Absent(req[s].booking)
        /\ \A t \in Requests \ {s} : req[t].booking # req[s].booking
    BY <2>1 DEF Creating, IInv, Prepared, Copying, Intent, Reserved
  <2>3. row'[req[s].booking].status = "ABSENT"
    BY <2>2 DEF Absent
  <2>4. q.booking # req[s].booking
    BY <2>2, NoneAssumption DEF Taken
  <2> QED
    BY <1>1, <2>2, <2>3, <2>4
<1> QED
  BY <1>2, <1>3, <1>4 DEF Intent

LEMMA BeginIntent ==
    ASSUME IInv, Intent, NEW r \in Requests, NEW b \in Bookings, NEW op, NEW x, NEW p,
           Begin(r, op, b, x, p),
           \/ p = "mechanic" /\ op = "book" /\ ~Taken(b)
           \/ p = "book" /\ ~Taken(b)
           \/ ~Absent(b) /\ p \in {"mechanic", "save"} /\ op = "reschedule" /\ Open(b)
           \/ ~Absent(b) /\ p = "save" /\ op = "noShow" /\ Open(b)
           \/ ~Absent(b) /\ p = "cancel" /\ Open(b)
           \/ ~Absent(b) /\ p = "save" /\ op = "approve" /\ row[b].status # "CANCELLED"
           \/ ~Absent(b) /\ p = "save" /\ op = "setStatus"
    PROVE  Intent'
<1> DEFINE q == [op |-> op, booking |-> b, entity |-> x, read |-> row[b].status, phase |-> p]
<1>1. req' = [req EXCEPT ![r] = q] /\ row' = row
  BY DEF Begin
<1>2. q.op = op /\ q.booking = b /\ q.read = row[b].status /\ q.phase = p
  OBVIOUS
<1> HIDE DEF q
<1>3. PICK z : z = q
  OBVIOUS
<1>4. Purpose(z) /\ (Creating(z) => ~Taken(b)) /\ (~Taken(b) \/ ~Absent(b)) /\ z.booking = b
  BY <1>2, <1>3 DEF Purpose, Creating, Open
<1> QED
  BY <1>1, <1>3, <1>4, IntentKept

\* A request that is over.
LEMMA DoneIntent ==
    ASSUME IInv, Intent, NEW r \in Requests, Done(r),
           \A c \in Bookings \ {req[r].booking} : row'[c] = row[c]
    PROVE  Intent'
<1>1. PICK z : z = [Unsent EXCEPT !.phase = "done"]
  OBVIOUS
<1>2. z.phase = "done" /\ z.booking = None
  BY <1>1 DEF Unsent
<1>3. Purpose(z) /\ ~Creating(z)
  BY <1>2 DEF Purpose, Creating
<1>4. req' = [req EXCEPT ![r] = z]
  BY <1>1 DEF Done
<1> QED
  BY <1>2, <1>3, <1>4, IntentKept

LEMMA GotoIntent ==
    ASSUME IInv, Intent, NEW r \in Requests, NEW p, Goto(r, p), row' = row,
           \/ In(r, "mechanic") /\ p = "lift"
           \/ In(r, "lift") /\ req[r].op = "book" /\ p = "book"
           \/ In(r, "lift") /\ req[r].op # "book" /\ p = "save"
           \/ In(r, "book") /\ p = "locked"
    PROVE  Intent'
<1>1. PICK z : z = [req[r] EXCEPT !.phase = p]
  OBVIOUS
<1>2. req[r] \in Request /\ req \in [Requests -> Request]
  BY DEF IInv, TypeOK
<1>3. z.phase = p /\ z.booking = req[r].booking /\ z.op = req[r].op /\ z.read = req[r].read
  BY <1>1, <1>2 DEF Request
<1>4. Purpose(req[r])
  BY DEF Intent
<1>5. Purpose(z) /\ (Creating(z) => Creating(req[r]))
  BY <1>3, <1>4 DEF Purpose, Creating, In
<1>6. req' = [req EXCEPT ![r] = z]
  BY <1>1, <1>2 DEF Goto
<1> QED
  BY <1>3, <1>5, <1>6, IntentKept

LEMMA IntentInit == Init => Intent
<1> SUFFICES ASSUME Init PROVE Intent
  OBVIOUS
<1>1. \A r \in Requests : req[r].phase = "idle"
  BY DEF Init, Unsent
<1> QED
  BY <1>1 DEF Intent, Purpose, Reserved, Creating

\* A request that writes a row is over.
LEMMA WritesAndEnds ==
    ASSUME IInv, NEW r \in Requests, Write(r) \/ Cancel(r)
    PROVE  Done(r) /\ \A c \in Bookings \ {req[r].booking} : row'[c] = row[c]
BY DEF Write, Cancel, IInv, TypeOK

LEMMA IntentStep == ASSUME IInv, Intent, [Next]_vars PROVE Intent'
<1>1. ASSUME NEW r \in Requests, NEW b \in Bookings, NEW x, StartBook(r, b, x) PROVE Intent'
  BY <1>1, BeginIntent DEF StartBook
<1>2. ASSUME NEW r \in Requests, NEW b \in Bookings, NEW x, StartOnline(r, b, x) PROVE Intent'
  BY <1>2, BeginIntent DEF StartOnline
<1>3. ASSUME NEW r \in Requests, NEW b \in Bookings, NEW x, StartReschedule(r, b, x) PROVE Intent'
  BY <1>3, BeginIntent DEF StartReschedule
<1>4. ASSUME NEW r \in Requests, NEW b \in Bookings, StartApprove(r, b) PROVE Intent'
  BY <1>4, BeginIntent DEF StartApprove, MayConfirm
<1>5. ASSUME NEW r \in Requests, NEW b \in Bookings, StartNoShow(r, b) PROVE Intent'
  BY <1>5, BeginIntent DEF StartNoShow
<1>6. ASSUME NEW r \in Requests, NEW b \in Bookings, NEW s, StartSetStatus(r, b, s) PROVE Intent'
  BY <1>6, BeginIntent DEF StartSetStatus
<1>7. ASSUME NEW r \in Requests, NEW b \in Bookings, StartCancel(r, b) PROVE Intent'
  BY <1>7, BeginIntent DEF StartCancel
<1>8. ASSUME NEW r \in Requests, CheckMechanic(r) \/ CheckLift(r) \/ Lock(r) PROVE Intent'
  <2>1. row' = row
    BY <1>8 DEF CheckMechanic, CheckLift, Lock
  <2>2. CASE Done(r)
    BY <2>1, <2>2, DoneIntent
  <2>3. CASE ~Done(r)
    <3>1. CASE CheckMechanic(r)
      BY <2>1, <2>3, <3>1, GotoIntent DEF CheckMechanic
    <3>2. CASE CheckLift(r)
      BY <2>1, <2>3, <3>2, GotoIntent DEF CheckLift
    <3>3. CASE Lock(r)
      BY <2>1, <2>3, <3>3, GotoIntent DEF Lock
    <3> QED
      BY <1>8, <3>1, <3>2, <3>3
  <2> QED
    BY <2>2, <2>3
<1>9. ASSUME NEW r \in Requests, Write(r) \/ Cancel(r) PROVE Intent'
  BY <1>9, WritesAndEnds, DoneIntent
<1>10. ASSUME NEW b \in Bookings, NEW s \in Status, OrderWrites(b, s) PROVE Intent'
  <2>1. req' = req /\ ~Absent(b) /\ \A c \in Bookings \ {b} : row'[c] = row[c]
    BY <1>10 DEF OrderWrites, IInv, TypeOK
  <2>2. ASSUME NEW r \in Requests PROVE Reserved(r)'
    <3>1. Creating(req[r]) => req[r].booking \in Bookings
      BY DEF Creating, IInv, Prepared, Copying
    <3> QED
      BY <2>1, <3>1 DEF Intent, Reserved, Absent, Creating
  <2> QED
    BY <2>1, <2>2 DEF Intent, Purpose
<1>11. CASE UNCHANGED vars
  <2>1. req' = req /\ row' = row
    BY <1>11 DEF vars
  <2> QED
    BY <2>1 DEF Intent, Purpose, Reserved, Creating, Absent
<1> QED
  BY <1>1, <1>2, <1>3, <1>4, <1>5, <1>6, <1>7, <1>8, <1>9, <1>10, <1>11 DEF Next

ReopenStep(b) ==
    row[b].status \in {"COMPLETED", "CANCELLED"} /\ row'[b].status # row[b].status =>
        \/ req' = req
        \/ \E r \in Requests :
              /\ In(r, "save") \/ In(r, "cancel")
              /\ req'[r].phase = "done"
              /\ req[r].booking = b
              /\ \/ req[r].op = "setStatus"
                 \/ req[r].op = "approve" /\ req[r].read = "COMPLETED"
                 \/ req[r].read # row[b].status

LEMMA ReopenStepHolds == ASSUME IInv, Intent, [Next]_vars, NEW b \in Bookings PROVE ReopenStep(b)
<1> SUFFICES ASSUME row[b].status \in {"COMPLETED", "CANCELLED"}, row'[b].status # row[b].status,
                    req' # req
             PROVE  \E r \in Requests :
                       /\ In(r, "save") \/ In(r, "cancel")
                       /\ req'[r].phase = "done"
                       /\ req[r].booking = b
                       /\ \/ req[r].op = "setStatus"
                          \/ req[r].op = "approve" /\ req[r].read = "COMPLETED"
                          \/ req[r].read # row[b].status
  BY DEF ReopenStep
<1>1. PICK r \in Requests : Write(r) \/ Cancel(r)
  <2>1. row' # row
    OBVIOUS
  <2>2. ASSUME NEW r \in Requests, CheckMechanic(r) \/ CheckLift(r) \/ Lock(r) PROVE row' = row
    BY <2>2, Zenon DEF CheckMechanic, CheckLift, Lock
  <2>3. ASSUME NEW r \in Requests, NEW op, NEW c, NEW x, NEW p, Begin(r, op, c, x, p)
        PROVE  row' = row
    BY <2>3 DEF Begin
  <2>4. ~ \E c \in Bookings, s \in Status : OrderWrites(c, s)
    BY DEF OrderWrites
  <2> QED
    BY <2>1, <2>2, <2>3, <2>4, Zenon
    DEF Next, vars, StartBook, StartOnline, StartReschedule, StartApprove, StartNoShow,
        StartSetStatus, StartCancel
<1>2. Done(r) /\ req[r].booking = b
  BY <1>1, WritesAndEnds
<1>3. req'[r].phase = "done"
  BY <1>2 DEF Done, Unsent, IInv, TypeOK
<1>4. Purpose(req[r]) /\ Reserved(r)
  BY DEF Intent
<1>5. CASE Cancel(r)
  <2>1. In(r, "cancel") /\ req[r].read \notin {"COMPLETED", "CANCELLED"}
    BY <1>4, <1>5 DEF Cancel, In, Purpose
  <2> QED
    BY <1>2, <1>3, <2>1
<1>6. CASE Write(r)
  <2>1. ~Absent(b)
    BY DEF Absent
  <2>2. In(r, "save")
    BY <1>2, <1>4, <1>6, <2>1 DEF Write, In, Reserved, Creating
  <2>3. \/ req[r].op = "setStatus"
        \/ req[r].op = "approve" /\ req[r].read # "CANCELLED"
        \/ req[r].read \notin {"COMPLETED", "CANCELLED"}
    BY <1>4, <2>2 DEF Purpose, In
  <2>4. \/ req[r].op = "setStatus"
        \/ req[r].op = "approve" /\ req[r].read = "COMPLETED"
        \/ req[r].read # row[b].status
    BY <2>3
  <2> QED
    BY <1>2, <1>3, <2>2, <2>4
<1> QED
  BY <1>1, <1>5, <1>6

\* For any number of requests and bookings, a booking that was completed or
\* cancelled leaves that status only by hand, by its work order, by the approval
\* of a completed one, or by a request that had read another status (confirm,
\* markNoShow, reschedule, updateStatus and cancel of the appointments).
THEOREM ReopenedByRacesOnly == Spec => ReopenedOnlyWhenOutdated
<1>1. Init => Intent
  BY IntentInit
<1>2. IInv /\ Intent /\ [Next]_vars => Intent'
  BY IntentStep
<1>3. Spec => []Intent
  BY <1>1, <1>2, Invariance, PTL DEF Spec
<1>4. IInv /\ Intent /\ [Next]_vars => \A b \in Bookings : ReopenStep(b)
  BY ReopenStepHolds
<1>5. Spec => [][\A b \in Bookings : ReopenStep(b)]_vars
  BY <1>3, <1>4, Invariance, PTL DEF Spec
<1> QED
  BY <1>5 DEF ReopenedOnlyWhenOutdated, ReopenStep

----------------------------------------------------------------------------
(* Reminders: the inductive invariant *)

\* A text for which no answer came was an attempt or a death of its worker; one
\* that was taken is on top of these.
Counted(x) ==
    /\ x.state # "failed" => x.tries < Attempts
    /\ x.sends <= x.tries + x.stalls + 1
    /\ x.state \notin {"sent", "completed", "failed"} => x.sends <= x.tries + x.stalls
    /\ x.state = "none" => x.sends = 0
    /\ x.state = "delayed" /\ x.sends > 0 => x.tries > 0

\* A message that keeps the hours of the night and has not failed yet waits for the
\* morning.
Quiet(x) == x.quiet /\ x.state = "delayed" /\ x.tries = 0 => x.due \notin Nights

\* What the worker read is what the row says, if nobody changed it since.
Fresh(x, a) ==
    x.state = "looked" =>
       \/ appointment[a].status = "OPEN" /\ x.told = appointment[a].start
       \/ x.changed

\* Nothing is planned twice.
PlannedOnce ==
    \A a \in Appointments :
       appointment[a].status = "NONE" \/ appointment[a].plan # NoTime => job[a].state = "none"

\* A row that was never booked has nothing to plan.
NothingToPlan ==
    \A a \in Appointments : appointment[a].status = "NONE" => appointment[a].plan = NoTime

QueueIInv ==
    /\ QueueTypeOK
    /\ \A j \in Jobs : Counted(job[j])
    /\ \A m \in Messages : Quiet(job[m]) /\ job[m].state # "looked"
    /\ \A a \in Appointments : Fresh(job[a], a)
    /\ PlannedOnce
    /\ NothingToPlan

LEMMA QueueInitIInv == QueueInit => QueueIInv
<1> SUFFICES ASSUME QueueInit PROVE QueueIInv
  OBVIOUS
<1>1. 0 \in Time /\ 0 \in 0..Attempts /\ 0 \in 0..MaxStalls /\ 0 \in 0..(Attempts + MaxStalls)
  BY TimeAssumption, QueueAssumption DEF Time
<1>2. QueueTypeOK
  BY <1>1 DEF QueueInit, QueueTypeOK, AppointmentRow, Job, State
<1>3. \A j \in Jobs : job[j].state = "none" /\ job[j].sends = 0 /\ job[j].tries = 0 /\ job[j].stalls = 0
  BY DEF QueueInit
<1>4. \A j \in Jobs : Counted(job[j])
  BY <1>3, QueueAssumption DEF Counted
<1>5. QED
  BY <1>2, <1>3, <1>4 DEF QueueIInv, Quiet, Fresh, PlannedOnce, NothingToPlan, QueueInit, Jobs

\* A step that gives one job another row.
LEMMA JobStep ==
    ASSUME QueueIInv, NEW j \in Jobs, NEW x \in Job, job' = [job EXCEPT ![j] = x],
           UNCHANGED <<now, appointment>>, Counted(x),
           j \in Messages => Quiet(x) /\ x.state # "looked",
           j \in Appointments => Fresh(x, j) /\ job[j].state # "none"
    PROVE  QueueIInv'
<1> USE DEF QueueIInv
<1>1. \A k \in Jobs : job'[k] = IF k = j THEN x ELSE job[k]
  BY DEF QueueTypeOK
<1>2. QueueTypeOK'
  BY DEF QueueTypeOK
<1>3. \A k \in Jobs : Counted(job'[k])
  BY <1>1
<1>4. \A m \in Messages : Quiet(job'[m]) /\ job'[m].state # "looked"
  BY <1>1 DEF Jobs
<1>5. \A a \in Appointments : Fresh(job'[a], a)
  BY <1>1 DEF Jobs
<1>6. PlannedOnce' /\ NothingToPlan'
  BY <1>1 DEF PlannedOnce, NothingToPlan, Jobs
<1>7. QED
  BY <1>2, <1>3, <1>4, <1>5, <1>6 DEF Counted, Quiet, Fresh

LEMMA JobFields ==
    ASSUME QueueTypeOK, NEW j \in Jobs
    PROVE  /\ job[j] \in Job
           /\ job[j].tries \in 0..Attempts /\ job[j].stalls \in 0..MaxStalls
           /\ job[j].sends \in 0..(Attempts + MaxStalls) /\ job[j].sends \in Nat
           /\ job[j].tries \in Nat /\ job[j].stalls \in Nat
BY QueueAssumption DEF QueueTypeOK, Job

\* A job that is moved on keeps its counts.
LEMMA MoveStep ==
    ASSUME QueueIInv, NEW j \in Jobs, job[j].state \notin {"none", "sent", "completed", "failed"},
           NEW s \in {"waiting", "active", "completed"}, NEW d \in Time,
           job' = [job EXCEPT ![j].state = s, ![j].due = d], UNCHANGED <<now, appointment>>
    PROVE  QueueIInv'
<1> DEFINE x == [job[j] EXCEPT !.state = s, !.due = d]
<1>1. job' = [job EXCEPT ![j] = x]
  OBVIOUS
<1>2. x \in Job
  BY JobFields DEF QueueIInv, Job, State
<1>3. x.state = s /\ x.sends = job[j].sends /\ x.tries = job[j].tries /\ x.stalls = job[j].stalls
  BY JobFields DEF QueueIInv, Job
<1>4. Counted(x)
  BY <1>3, JobFields DEF QueueIInv, Counted
<1>5. Quiet(x) /\ Fresh(x, j) /\ x.state # "looked"
  BY <1>3 DEF Quiet, Fresh
<1> HIDE DEF x
<1>6. QED
  BY <1>1, <1>2, <1>4, <1>5, JobStep

\* An attempt that failed, or may have: n texts went out in it.
LEMMA FailStep ==
    ASSUME QueueIInv, NEW j \in Jobs, NEW n \in {0, 1},
           \/ job[j].state \in {"active", "looked"}
           \/ job[j].state = "sent" /\ n = 0,
           \/ n = 0 /\ job' = Failed(j)
           \/ n = 1 /\ job' = [Failed(j) EXCEPT ![j].sends = @ + 1],
           UNCHANGED <<now, appointment>>
    PROVE  QueueIInv'
<1> DEFINE s == IF Exhausted(j) THEN "failed" ELSE "delayed"
           x == [job[j] EXCEPT !.state = s, !.tries = @ + 1, !.told = NoTime, !.changed = FALSE,
                               !.sends = @ + n]
           f == [job[j] EXCEPT !.state = s, !.tries = @ + 1, !.told = NoTime, !.changed = FALSE]
<1> USE QueueAssumption
<1>1. job' = [job EXCEPT ![j] = x]
  <2>1. Failed(j) = [job EXCEPT ![j] = f]
    BY DEF Failed
  <2>2. ASSUME n = 0 PROVE x = f
    <3>1. job[j].sends + n = job[j].sends
      BY <2>2, JobFields DEF QueueIInv
    <3>2. f = [f EXCEPT !.sends = f.sends] /\ f.sends = job[j].sends
      <4> HIDE DEF s
      <4>1. QED
        BY JobFields DEF QueueIInv, Job
    <3>3. x = [f EXCEPT !.sends = job[j].sends + n]
      <4> HIDE DEF s
      <4>1. QED
        BY JobFields DEF QueueIInv, Job
    <3> HIDE DEF f, x
    <3>4. QED
      BY <3>1, <3>2, <3>3
  <2>3. Failed(j)[j] = f
    BY <2>1 DEF QueueIInv, QueueTypeOK
  <2>4. n = 1 => x = [f EXCEPT !.sends = @ + 1]
    BY JobFields DEF QueueIInv, Job
  <2> HIDE DEF f, x
  <2>5. n = 1 => job' = [Failed(j) EXCEPT ![j] = x]
    BY <2>3, <2>4
  <2>6. QED
    BY <2>1, <2>2, <2>5
<1>2. /\ x.state = s /\ x.sends = job[j].sends + n /\ x.tries = job[j].tries + 1
      /\ x.stalls = job[j].stalls
  BY JobFields DEF QueueIInv, Job
<1>3. /\ job[j].tries < Attempts
      /\ job[j].sends + n <= job[j].tries + 1 + job[j].stalls
      /\ job[j].sends + n <= Attempts + MaxStalls
  <2>1. Counted(job[j]) /\ job[j].state # "failed"
    BY DEF QueueIInv
  <2>2. job[j].sends + n <= job[j].tries + 1 + job[j].stalls
    BY <2>1, JobFields DEF QueueIInv, Counted
  <2>3. QED
    BY <2>1, <2>2, JobFields DEF QueueIInv, Counted
<1>4. x \in Job
  <2>1. s \in State
    BY DEF State
  <2>2. job[j].tries + 1 \in 0..Attempts /\ job[j].sends + n \in 0..(Attempts + MaxStalls)
    BY <1>3, JobFields DEF QueueIInv
  <2> HIDE DEF s
  <2>3. QED
    BY <2>1, <2>2, JobFields DEF QueueIInv, Job
<1>5. Counted(x)
  <2>1. s # "failed" => job[j].tries + 1 < Attempts
    BY JobFields DEF Exhausted, QueueIInv
  <2>2. s \in {"failed", "delayed"}
    OBVIOUS
  <2> HIDE DEF s, x
  <2>3. QED
    BY <1>2, <1>3, <2>1, <2>2, JobFields DEF Counted, QueueIInv
<1>6. Quiet(x) /\ Fresh(x, j) /\ x.state # "looked"
  <2>1. job[j].tries + 1 # 0
    BY JobFields DEF QueueIInv
  <2>2. s # "looked"
    OBVIOUS
  <2> HIDE DEF s, x
  <2>3. QED
    BY <1>2, <2>1, <2>2 DEF Quiet, Fresh
<1> HIDE DEF x
<1>7. QED
  BY <1>1, <1>4, <1>5, <1>6, JobStep

----------------------------------------------------------------------------
(* Reminders: the steps of the worker *)

LEMMA SendStep ==
    ASSUME QueueIInv, NEW j \in Jobs, Send(j)
    PROVE  QueueIInv'
<1> DEFINE s == IF j \in Messages THEN "completed" ELSE "sent"
           x == [job[j] EXCEPT !.state = s, !.sends = @ + 1, !.told = NoTime, !.changed = FALSE]
<1> USE QueueAssumption
<1>1. job' = [job EXCEPT ![j] = x] /\ UNCHANGED <<now, appointment>>
  BY DEF Send
<1>2. job[j].state \in {"active", "looked"}
  BY DEF Send, Sendable
<1>3. /\ x.state = s /\ x.sends = job[j].sends + 1 /\ x.tries = job[j].tries
      /\ x.stalls = job[j].stalls
  BY JobFields DEF QueueIInv, Job
<1>4. job[j].tries < Attempts /\ job[j].sends <= job[j].tries + job[j].stalls
  BY <1>2 DEF QueueIInv, Counted
<1>5. s \in {"completed", "sent"}
  OBVIOUS
<1>6. x \in Job
  <2>1. job[j].sends + 1 \in 0..(Attempts + MaxStalls)
    BY <1>4, JobFields DEF QueueIInv
  <2> HIDE DEF s
  <2>2. QED
    BY <1>5, <2>1, JobFields DEF QueueIInv, Job, State
<1> HIDE DEF s, x
<1>7. Counted(x)
  BY <1>3, <1>4, <1>5, JobFields DEF QueueIInv, Counted
<1>8. Quiet(x) /\ Fresh(x, j) /\ x.state # "looked"
  BY <1>3, <1>5 DEF Quiet, Fresh
<1>9. QED
  BY <1>1, <1>2, <1>6, <1>7, <1>8, JobStep

\* A refused attempt sent nothing, an unanswered one did; a reminder's row that is
\* not inserted was sent before.
LEMMA SendFails ==
    ASSUME QueueIInv, NEW j \in Jobs,
           SendRefused(j) \/ SendUnanswered(j) \/ (j \in Appointments /\ RecordFails(j))
    PROVE  QueueIInv'
<1>1. CASE SendUnanswered(j)
  <2>1. job' = [Failed(j) EXCEPT ![j].sends = @ + 1] /\ UNCHANGED <<now, appointment>>
    BY <1>1 DEF SendUnanswered
  <2>2. job[j].state \in {"active", "looked"}
    BY <1>1 DEF SendUnanswered, Sendable
  <2>3. QED
    BY <2>1, <2>2, FailStep
<1>2. CASE SendRefused(j) \/ (j \in Appointments /\ RecordFails(j))
  <2>1. job' = Failed(j) /\ UNCHANGED <<now, appointment>>
    BY <1>2 DEF SendRefused, RecordFails
  <2>2. job[j].state \in {"active", "looked", "sent"}
    BY <1>2 DEF SendRefused, RecordFails, Sendable
  <2>3. QED
    BY <2>1, <2>2, FailStep
<1>3. QED
  BY <1>1, <1>2

LEMMA StallStep ==
    ASSUME QueueIInv, NEW j \in Jobs, Stall(j)
    PROVE  QueueIInv'
<1> USE QueueAssumption
<1>1. job[j].state \in {"active", "looked", "sent"} /\ UNCHANGED <<now, appointment>>
  BY DEF Stall, Busy
<1>2. Counted(job[j])
  BY DEF QueueIInv
<1>3. CASE job[j].stalls = MaxStalls
  <2> DEFINE x == [job[j] EXCEPT !.state = "failed", !.told = NoTime, !.changed = FALSE]
  <2>1. job' = [job EXCEPT ![j] = x]
    BY <1>3 DEF Stall
  <2>2. x \in Job
    BY JobFields DEF QueueIInv, Job, State
  <2>3. /\ x.state = "failed" /\ x.sends = job[j].sends /\ x.tries = job[j].tries
        /\ x.stalls = job[j].stalls
    BY JobFields DEF QueueIInv, Job
  <2> HIDE DEF x
  <2>4. Counted(x)
    BY <1>2, <2>3, JobFields DEF QueueIInv, Counted
  <2>5. Quiet(x) /\ Fresh(x, j)
    BY <2>3 DEF Quiet, Fresh
  <2>6. QED
    BY <1>1, <2>1, <2>2, <2>3, <2>4, <2>5, JobStep
<1>4. CASE job[j].stalls # MaxStalls
  <2> DEFINE x == [job[j] EXCEPT !.state = "waiting", !.stalls = @ + 1, !.told = NoTime,
                                 !.changed = FALSE]
  <2>1. job' = [job EXCEPT ![j] = x]
    BY <1>4 DEF Stall
  <2>2. job[j].stalls < MaxStalls /\ job[j].stalls + 1 \in 0..MaxStalls
    BY <1>4, JobFields DEF QueueIInv
  <2>3. x \in Job
    BY <2>2, JobFields DEF QueueIInv, Job, State
  <2>4. /\ x.state = "waiting" /\ x.sends = job[j].sends /\ x.tries = job[j].tries
        /\ x.stalls = job[j].stalls + 1
    BY JobFields DEF QueueIInv, Job
  <2> HIDE DEF x
  <2>5. Counted(x)
    BY <1>1, <1>2, <2>4, JobFields DEF QueueIInv, Counted
  <2>6. Quiet(x) /\ Fresh(x, j)
    BY <2>4 DEF Quiet, Fresh
  <2>7. QED
    BY <1>1, <2>1, <2>3, <2>4, <2>5, <2>6, JobStep
<1>5. QED
  BY <1>3, <1>4

LEMMA StallSendingStep ==
    ASSUME QueueIInv, NEW j \in Jobs, StallSending(j)
    PROVE  QueueIInv'
<1> DEFINE x == [job[j] EXCEPT !.state = "waiting", !.stalls = @ + 1, !.sends = @ + 1]
<1> USE QueueAssumption
<1>1. /\ job' = [job EXCEPT ![j] = x] /\ UNCHANGED <<now, appointment>>
      /\ job[j].state = "active" /\ job[j].stalls < MaxStalls
  BY DEF StallSending
<1>2. Counted(job[j])
  BY DEF QueueIInv
<1>3. /\ job[j].stalls + 1 \in 0..MaxStalls
      /\ job[j].sends + 1 \in 0..(Attempts + MaxStalls)
  BY <1>1, <1>2, JobFields DEF QueueIInv, Counted
<1>4. x \in Job
  BY <1>3, JobFields DEF QueueIInv, Job, State
<1>5. /\ x.state = "waiting" /\ x.sends = job[j].sends + 1 /\ x.tries = job[j].tries
      /\ x.stalls = job[j].stalls + 1
  BY JobFields DEF QueueIInv, Job
<1> HIDE DEF x
<1>6. Counted(x)
  BY <1>1, <1>2, <1>5, JobFields DEF QueueIInv, Counted
<1>7. Quiet(x) /\ Fresh(x, j)
  BY <1>5 DEF Quiet, Fresh
<1>8. QED
  BY <1>1, <1>4, <1>5, <1>6, <1>7, JobStep

LEMMA LookStep ==
    ASSUME QueueIInv, NEW j \in Appointments, Look(j)
    PROVE  QueueIInv'
<1> j \in Jobs
  BY DEF Jobs
<1>1. job[j].state = "active" /\ UNCHANGED <<now, appointment>> /\ Counted(job[j])
  BY DEF Look, QueueIInv
<1>2. CASE Due(j)
  <2> DEFINE x == [job[j] EXCEPT !.state = "looked", !.told = Told(j)]
  <2>1. job' = [job EXCEPT ![j] = x]
    BY <1>2 DEF Look
  <2>2. Told(j) \in Time \cup {NoTime}
    BY DEF Told, QueueIInv, QueueTypeOK, AppointmentRow
  <2>3. x \in Job
    BY <2>2, JobFields DEF QueueIInv, Job, State
  <2>4. /\ x.state = "looked" /\ x.sends = job[j].sends /\ x.tries = job[j].tries
        /\ x.stalls = job[j].stalls /\ x.told = Told(j)
    BY JobFields DEF QueueIInv, Job
  <2> HIDE DEF x
  <2>5. Counted(x)
    BY <1>1, <2>4 DEF Counted
  <2>6. Fresh(x, j)
    BY <1>2, <2>4 DEF Fresh, Told, Due
  <2>7. j \notin Messages
    BY JobsAssumption
  <2>8. QED
    BY <1>1, <2>1, <2>3, <2>5, <2>6, <2>7, JobStep
<1>3. CASE ~Due(j)
  <2>1. job' = [job EXCEPT ![j].state = "completed", ![j].due = job[j].due]
    BY <1>3, JobFields DEF Look, QueueIInv, Job
  <2>2. job[j].due \in Time
    BY JobFields DEF QueueIInv, Job
  <2>3. QED
    BY <1>1, <2>1, <2>2, MoveStep
<1>4. QED
  BY <1>2, <1>3

----------------------------------------------------------------------------
(* Reminders: the office, the hours of the night, and the theorems *)

\* A set of naturals that is not empty has a least member.
LEMMA LeastNatural ==
    ASSUME NEW T, T \subseteq Nat, T # {}
    PROVE  \E x \in T : \A y \in T : x <= y
<1>1. PICK x \in T : \A y \in T : <<y, x>> \notin OpToRel(<, Nat)
  BY NatLessThanWellFounded, WFMin, Zenon
<1>2. \A y \in T : ~(y < x)
  BY <1>1, Zenon DEF OpToRel
<1>3. QED
  BY <1>2

\* A night ends before MaxTime, so its morning exists.
LEMMA SendTimeIsDay ==
    ASSUME NEW t \in Time
    PROVE  SendTime(t) \in Time \ Nights
<1>1. CASE t \notin Nights
  BY <1>1 DEF SendTime
<1>2. CASE t \in Nights
  <2> DEFINE days == {d \in Time : d > t /\ d \notin Nights}
             Morning(d) == /\ d > t /\ d \notin Nights
                           /\ \A e \in Time : t < e /\ e < d => e \in Nights
  <2>1. MaxTime \in days
    <3>1. t # MaxTime
      BY <1>2, TimeAssumption
    <3>2. QED
      BY <3>1, TimeAssumption DEF Time
  <2>2. days \subseteq Nat
    BY DEF Time
  <2>3. PICK d \in days : \A e \in days : d <= e
    BY <2>1, <2>2, LeastNatural
  <2>4. d \in Time /\ Morning(d)
    BY <2>3 DEF Time
  <2>5. SendTime(t) = CHOOSE e \in Time : Morning(e)
    BY <1>2 DEF SendTime
  <2> HIDE DEF Morning
  <2>6. SendTime(t) \in Time /\ Morning(SendTime(t))
    BY <2>4, <2>5
  <2>7. QED
    BY <2>6 DEF Morning
<1>3. QED
  BY <1>1, <1>2

LEMMA PostStep ==
    ASSUME QueueIInv, NEW m \in Messages, NEW q \in BOOLEAN, Post(m, q)
    PROVE  QueueIInv'
<1> DEFINE due == IF q THEN SendTime(now) ELSE now
           x == [job[m] EXCEPT !.state = "delayed", !.quiet = q, !.due = due]
<1> m \in Jobs
  BY DEF Jobs
<1>1. /\ job' = [job EXCEPT ![m] = x] /\ UNCHANGED <<now, appointment>>
      /\ job[m].state = "none"
  BY DEF Post
<1>2. due \in Time /\ (q => due \notin Nights)
  BY SendTimeIsDay DEF QueueIInv, QueueTypeOK
<1>3. x \in Job
  BY <1>2, JobFields DEF QueueIInv, Job, State
<1>4. /\ x.state = "delayed" /\ x.sends = job[m].sends /\ x.tries = job[m].tries
      /\ x.stalls = job[m].stalls /\ x.quiet = q /\ x.due = due
  BY JobFields DEF QueueIInv, Job
<1>5. Counted(job[m])
  BY DEF QueueIInv
<1> HIDE DEF x, due
<1>6. Counted(x)
  BY <1>1, <1>4, <1>5, JobFields DEF QueueIInv, Counted
<1>7. Quiet(x) /\ x.state # "looked"
  BY <1>2, <1>4 DEF Quiet
<1>8. m \notin Appointments
  BY JobsAssumption
<1>9. QED
  BY <1>1, <1>3, <1>6, <1>7, <1>8, JobStep

LEMMA AppointmentFields ==
    ASSUME QueueTypeOK, NEW a \in Appointments
    PROVE  /\ appointment[a] \in AppointmentRow /\ a \in Jobs /\ a \notin Messages
           /\ appointment[a].start \in Time \cup {NoTime}
           /\ appointment[a].plan \in Time \cup {NoTime}
BY JobsAssumption DEF QueueTypeOK, AppointmentRow, Jobs

LEMMA BookStep ==
    ASSUME QueueIInv, NEW a \in Appointments, NEW start \in Time, Book(a, start)
    PROVE  QueueIInv'
<1> DEFINE x == [status |-> "OPEN", start |-> start, plan |-> start]
<1>1. /\ appointment' = [appointment EXCEPT ![a] = x] /\ UNCHANGED <<now, job>>
      /\ job[a].state = "none"
  BY DEF Book, QueueIInv, PlannedOnce
<1>2. x \in AppointmentRow /\ x.status = "OPEN"
  BY DEF AppointmentRow
<1> HIDE DEF x
<1>3. \A b \in Appointments : appointment'[b] = IF b = a THEN x ELSE appointment[b]
  BY <1>1 DEF QueueIInv, QueueTypeOK
<1>4. QueueTypeOK'
  BY <1>1, <1>2 DEF QueueIInv, QueueTypeOK
<1>5. \A b \in Appointments : Fresh(job[b], b)'
  BY <1>1, <1>3 DEF QueueIInv, Fresh
<1>6. PlannedOnce' /\ NothingToPlan'
  BY <1>1, <1>2, <1>3 DEF QueueIInv, PlannedOnce, NothingToPlan
<1>7. QED
  BY <1>1, <1>4, <1>5, <1>6 DEF QueueIInv, Counted, Quiet

\* Planning ends, whether or not it left a job.
LEMMA PlanEnds ==
    ASSUME QueueIInv, NEW a \in Appointments, appointment[a].plan # NoTime, NEW x \in Job,
           appointment' = [appointment EXCEPT ![a].plan = NoTime], UNCHANGED now,
           \/ UNCHANGED job
           \/ /\ job' = [job EXCEPT ![a] = x]
              /\ Counted(x) /\ x.state = "delayed"
    PROVE  QueueIInv'
<1> DEFINE y == [appointment[a] EXCEPT !.plan = NoTime]
<1>1. appointment' = [appointment EXCEPT ![a] = y]
  OBVIOUS
<1>2. /\ y \in AppointmentRow /\ y.status = appointment[a].status
      /\ y.start = appointment[a].start /\ y.plan = NoTime
  BY AppointmentFields DEF QueueIInv, AppointmentRow
<1> HIDE DEF y
<1>3. \A b \in Appointments : appointment'[b] = IF b = a THEN y ELSE appointment[b]
  BY <1>1 DEF QueueIInv, QueueTypeOK
<1>4. a \in Jobs /\ a \notin Messages
  BY AppointmentFields DEF QueueIInv
<1>5. \A k \in Jobs : job'[k] = job[k] \/ (k = a /\ job'[k] = x /\ Counted(x) /\ x.state = "delayed")
  BY <1>4 DEF QueueIInv, QueueTypeOK
<1>6. QueueTypeOK'
  BY <1>1, <1>2 DEF QueueIInv, QueueTypeOK
<1>7. \A k \in Jobs : Counted(job'[k])
  BY <1>5 DEF QueueIInv
<1>8. \A m \in Messages : Quiet(job'[m]) /\ job'[m].state # "looked"
  BY <1>4, <1>5 DEF QueueIInv, Jobs
<1>9. \A b \in Appointments : Fresh(job[b], b)'
  BY <1>2, <1>3, <1>5 DEF QueueIInv, Fresh, Jobs
<1>10. appointment[a].status # "NONE"
  BY DEF QueueIInv, NothingToPlan
<1>11. PlannedOnce' /\ NothingToPlan'
  BY <1>2, <1>3, <1>5, <1>10 DEF QueueIInv, PlannedOnce, NothingToPlan, Jobs
<1>12. QED
  BY <1>6, <1>7, <1>8, <1>9, <1>11 DEF QueueIInv, Counted, Quiet

LEMMA ScheduleStep ==
    ASSUME QueueIInv, NEW a \in Appointments, Schedule(a)
    PROVE  QueueIInv'
<1> DEFINE due == appointment[a].plan - Lead
           x == [job[a] EXCEPT !.state = "delayed", !.due = due]
<1>1. /\ appointment[a].plan # NoTime /\ UNCHANGED now
      /\ appointment' = [appointment EXCEPT ![a].plan = NoTime]
      /\ job' = IF due > now THEN [job EXCEPT ![a] = x] ELSE job
  BY DEF Schedule
<1>2. job[a] \in Job /\ a \in Jobs
  BY JobFields, AppointmentFields DEF QueueIInv
<1>3. CASE due > now
  <2>1. due \in Time
    BY <1>1, <1>3, AppointmentFields, TimeAssumption DEF QueueIInv, QueueTypeOK, Time
  <2>2. job[a].state = "none" /\ Counted(job[a])
    BY <1>1, <1>2 DEF QueueIInv, PlannedOnce
  <2>3. x \in Job
    BY <1>2, <2>1 DEF Job, State
  <2>4. /\ x.state = "delayed" /\ x.sends = job[a].sends /\ x.tries = job[a].tries
        /\ x.stalls = job[a].stalls
    BY <1>2 DEF Job
  <2> HIDE DEF x
  <2>5. Counted(x)
    BY <1>2, <2>2, <2>4, JobFields DEF QueueIInv, Counted
  <2>6. QED
    BY <1>1, <1>3, <2>3, <2>4, <2>5, PlanEnds
<1>4. CASE ~(due > now)
  BY <1>1, <1>2, <1>4, PlanEnds
<1>5. QED
  BY <1>3, <1>4

\* Whoever changes an appointment the worker has read leaves a mark.
LEMMA ChangeStep ==
    ASSUME QueueIInv, NEW a \in Appointments, NEW change, Change(a, change),
           change.status \in {"OPEN", "ENDED"}, change.start \in Time \cup {NoTime}
    PROVE  QueueIInv'
<1> DEFINE y == [appointment[a] EXCEPT !.status = change.status, !.start = change.start]
           x == [job[a] EXCEPT !.changed = (job[a].state = "looked")]
<1>1. /\ appointment' = [appointment EXCEPT ![a] = y] /\ UNCHANGED now
      /\ job' = [job EXCEPT ![a] = x] /\ appointment[a].status # "NONE"
  BY DEF Change
<1>2. job[a] \in Job /\ a \in Jobs /\ a \notin Messages /\ appointment[a] \in AppointmentRow
  BY JobFields, AppointmentFields DEF QueueIInv
<1>3. /\ y \in AppointmentRow /\ y.status # "NONE" /\ y.plan = appointment[a].plan
  BY <1>2 DEF AppointmentRow
<1>4. /\ x \in Job /\ x.state = job[a].state /\ x.sends = job[a].sends
      /\ x.tries = job[a].tries /\ x.stalls = job[a].stalls
  BY <1>2 DEF Job
<1>5. x.state = "looked" => x.changed
  BY <1>2 DEF Job
<1> HIDE DEF x, y
<1>6. \A b \in Appointments : appointment'[b] = IF b = a THEN y ELSE appointment[b]
  BY <1>1 DEF QueueIInv, QueueTypeOK
<1>7. \A k \in Jobs : job'[k] = IF k = a THEN x ELSE job[k]
  BY <1>1 DEF QueueIInv, QueueTypeOK
<1>8. QueueTypeOK'
  BY <1>1, <1>3, <1>4 DEF QueueIInv, QueueTypeOK
<1>9. \A k \in Jobs : Counted(job'[k])
  BY <1>2, <1>4, <1>7 DEF QueueIInv, Counted
<1>10. \A m \in Messages : Quiet(job'[m]) /\ job'[m].state # "looked"
  BY <1>2, <1>7 DEF QueueIInv, Jobs
<1>11. \A b \in Appointments : Fresh(job[b], b)'
  BY <1>5, <1>6, <1>7 DEF QueueIInv, Fresh, Jobs
<1>12. PlannedOnce' /\ NothingToPlan'
  BY <1>1, <1>3, <1>4, <1>6, <1>7 DEF QueueIInv, PlannedOnce, NothingToPlan, Jobs
<1>13. QED
  BY <1>8, <1>9, <1>10, <1>11, <1>12 DEF QueueIInv, Counted, Quiet

LEMMA OfficeStep ==
    ASSUME QueueIInv, NEW a \in Appointments, Office(a)
    PROVE  QueueIInv'
<1>1. ASSUME NEW start \in Time, Book(a, start) PROVE QueueIInv'
  BY <1>1, BookStep
<1>2. ASSUME NEW start \in Time, Reschedule(a, start) PROVE QueueIInv'
  <2> DEFINE new == [status |-> "OPEN", start |-> start]
  <2>1. Change(a, new) /\ new.status = "OPEN" /\ new.start = start
    BY <1>2 DEF Reschedule
  <2> HIDE DEF new
  <2>2. QED
    BY <2>1, ChangeStep
<1>3. CASE Schedule(a)
  BY <1>3, ScheduleStep
<1>4. CASE DieUnplanned(a)
  <2>1. job[a] \in Job
    BY JobFields, AppointmentFields DEF QueueIInv
  <2>2. QED
    BY <1>4, <2>1, PlanEnds DEF DieUnplanned
<1>5. ASSUME NEW status \in {"OPEN", "ENDED"}, SetStatus(a, status) PROVE QueueIInv'
  <2> DEFINE new == [status |-> status, start |-> appointment[a].start]
  <2>1. Change(a, new) /\ new.status = status /\ new.start \in Time \cup {NoTime}
    BY <1>5, AppointmentFields DEF SetStatus, QueueIInv
  <2> HIDE DEF new
  <2>2. QED
    BY <2>1, ChangeStep
<1>6. QED
  BY <1>1, <1>2, <1>3, <1>4, <1>5 DEF Office

LEMMA WorkStep ==
    ASSUME QueueIInv, NEW j \in Jobs, Work(j)
    PROVE  QueueIInv'
<1>1. CASE Promote(j)
  <2>1. 0 \in Time
    BY TimeAssumption DEF Time
  <2>2. /\ job' = [job EXCEPT ![j].state = "waiting", ![j].due = 0]
        /\ UNCHANGED <<now, appointment>> /\ job[j].state = "delayed"
    BY <1>1 DEF Promote
  <2>3. QED
    BY <2>1, <2>2, MoveStep
<1>2. CASE Take(j)
  <2>1. job[j].due \in Time /\ job[j] = [job[j] EXCEPT !.due = job[j].due]
    BY JobFields DEF QueueIInv, Job
  <2>2. /\ job' = [job EXCEPT ![j].state = "active"]
        /\ UNCHANGED <<now, appointment>> /\ job[j].state = "waiting"
    BY <1>2 DEF Take
  <2>3. job' = [job EXCEPT ![j].state = "active", ![j].due = job[j].due]
    BY <2>2, JobFields DEF QueueIInv, Job
  <2>4. QED
    BY <2>1, <2>2, <2>3, MoveStep
<1>3. CASE j \in Appointments /\ Look(j)
  BY <1>3, LookStep
<1>4. CASE j \in Appointments /\ Record(j)
  <2> DEFINE x == [job[j] EXCEPT !.state = "completed"]
  <2>1. /\ job' = [job EXCEPT ![j] = x] /\ UNCHANGED <<now, appointment>>
        /\ job[j].state = "sent"
    BY <1>4 DEF Record
  <2>2. x \in Job
    BY JobFields DEF QueueIInv, Job, State
  <2>3. /\ x.state = "completed" /\ x.sends = job[j].sends /\ x.tries = job[j].tries
        /\ x.stalls = job[j].stalls
    BY JobFields DEF QueueIInv, Job
  <2> HIDE DEF x
  <2>4. Counted(x)
    BY <2>1, <2>3 DEF QueueIInv, Counted
  <2>5. Quiet(x) /\ Fresh(x, j) /\ x.state # "looked"
    BY <2>3 DEF Quiet, Fresh
  <2>6. QED
    BY <2>1, <2>2, <2>4, <2>5, JobStep
<1>5. CASE Send(j)
  BY <1>5, SendStep
<1>6. CASE SendRefused(j) \/ SendUnanswered(j) \/ (j \in Appointments /\ RecordFails(j))
  BY <1>6, SendFails
<1>7. QED
  BY <1>1, <1>2, <1>3, <1>4, <1>5, <1>6 DEF Work

LEMMA QueueIInvStep == QueueIInv /\ [QueueNext]_queueVars => QueueIInv'
<1> SUFFICES ASSUME QueueIInv, [QueueNext]_queueVars PROVE QueueIInv'
  OBVIOUS
<1>1. CASE Tick
  <2>1. now' \in Time /\ UNCHANGED <<appointment, job>>
    BY <1>1, TimeAssumption DEF Tick, Time, QueueIInv, QueueTypeOK
  <2>2. QueueTypeOK'
    BY <2>1 DEF QueueIInv, QueueTypeOK
  <2>3. QED
    BY <2>1, <2>2 DEF QueueIInv, Counted, Quiet, Fresh, PlannedOnce, NothingToPlan
<1>2. ASSUME NEW a \in Appointments, Office(a) PROVE QueueIInv'
  BY <1>2, OfficeStep
<1>3. ASSUME NEW m \in Messages, NEW q \in BOOLEAN, Post(m, q) PROVE QueueIInv'
  BY <1>3, PostStep
<1>4. ASSUME NEW j \in Jobs, Work(j) PROVE QueueIInv'
  BY <1>4, WorkStep
<1>5. ASSUME NEW j \in Jobs, Stall(j) PROVE QueueIInv'
  BY <1>5, StallStep
<1>6. ASSUME NEW j \in Jobs, StallSending(j) PROVE QueueIInv'
  BY <1>6, StallSendingStep
<1>7. CASE UNCHANGED queueVars
  BY <1>7 DEF queueVars, QueueIInv, QueueTypeOK, Counted, Quiet, Fresh, PlannedOnce, NothingToPlan
<1>8. QED
  BY <1>1, <1>2, <1>3, <1>4, <1>5, <1>6, <1>7 DEF QueueNext

LEMMA QueueInvariance == QueueSpec => []QueueIInv
BY QueueInitIInv, QueueIInvStep, PTL DEF QueueSpec

\* A customer gets a text again only for a failed attempt or a worker that died,
\* and before its first failure a message with a text for the customer, to one whose
\* phone is known, is not due at night: for any number of jobs, workers, attempts and
\* nights.
THEOREM QueueIsConsistent == QueueSpec => []QueueConsistent
<1>1. QueueIInv => QueueConsistent
  <2> SUFFICES ASSUME QueueIInv PROVE QueueConsistent
    OBVIOUS
  <2>1. QueueTypeOK
    BY DEF QueueIInv
  <2>2. RepeatsExplained
    BY DEF QueueIInv, Counted, RepeatsExplained
  <2>3. NightIsQuiet
    BY DEF QueueIInv, Quiet, NightIsQuiet
  <2>4. QED
    BY <2>1, <2>2, <2>3 DEF QueueConsistent
<1>2. QED
  BY <1>1, QueueInvariance, PTL

\* Only a reminder the worker has read is sent.
LEMMA SentWasLooked ==
    ASSUME QueueIInv, [QueueNext]_queueVars, NEW a \in Appointments
    PROVE  job'[a].sends = job[a].sends \/ job[a].state = "looked"
<1> DEFINE Kept == \A j \in Jobs : job'[j].sends = job[j].sends
           Read(j) == j \in Messages \/ job[j].state = "looked"
           Only(j) == Read(j) /\ \A k \in Jobs \ {j} : job'[k] = job[k]
<1>1. job \in [Jobs -> Job] /\ a \in Jobs /\ a \notin Messages
  BY AppointmentFields DEF QueueIInv, QueueTypeOK
<1>2. ASSUME NEW b \in Appointments, Office(b) PROVE Kept
  BY <1>1, <1>2 DEF Office, Book, Schedule, DieUnplanned, Reschedule, SetStatus, Change, Job
<1>3. ASSUME NEW m \in Messages, NEW q \in BOOLEAN, Post(m, q) PROVE Kept
  BY <1>1, <1>3 DEF Post, Job
<1>4. ASSUME NEW j \in Jobs, Stall(j) PROVE Kept
  BY <1>1, <1>4 DEF Stall, Job
<1>5. ASSUME NEW j \in Jobs, StallSending(j) PROVE Only(j)
  BY <1>1, <1>5 DEF StallSending
<1>6. ASSUME NEW j \in Jobs, Work(j) PROVE Kept \/ Only(j)
  <2>1. CASE Promote(j) \/ Take(j)
    BY <1>1, <2>1 DEF Promote, Take, Job
  <2>2. CASE j \in Appointments /\ Look(j)
    BY <1>1, <2>2 DEF Look, Job
  <2>3. CASE j \in Appointments /\ Record(j)
    BY <1>1, <2>3 DEF Record, Job
  <2>4. CASE SendRefused(j) \/ (j \in Appointments /\ RecordFails(j))
    BY <1>1, <2>4 DEF SendRefused, RecordFails, Failed, Job
  <2>5. CASE Send(j)
    BY <1>1, <2>5 DEF Send, Sendable
  <2>6. CASE SendUnanswered(j)
    BY <1>1, <2>6 DEF SendUnanswered, Sendable, Failed
  <2>7. QED
    BY <1>6, <2>1, <2>2, <2>3, <2>4, <2>5, <2>6 DEF Work
<1>7. CASE Tick \/ UNCHANGED queueVars
  BY <1>7 DEF Tick, queueVars
<1>8. QED
  BY <1>1, <1>2, <1>3, <1>4, <1>5, <1>6, <1>7 DEF QueueNext

\* Every reminder that goes out tells the start of an open appointment, or the
\* appointment was changed after the worker read it.
THEOREM RemindersTellTheRow == QueueSpec => RemindsOfTheRow
<1>1. ASSUME QueueIInv, [QueueNext]_queueVars, NEW a \in Appointments,
             job'[a].sends > job[a].sends
      PROVE  \/ appointment[a].status = "OPEN" /\ job[a].told = appointment[a].start
             \/ job[a].changed
  <2>1. job[a].sends \in Nat
    BY <1>1, JobFields, AppointmentFields DEF QueueIInv
  <2>2. job[a].state = "looked"
    BY <1>1, <2>1, SentWasLooked
  <2>3. QED
    BY <1>1, <2>2 DEF QueueIInv, Fresh
<1>2. QueueIInv /\ [QueueNext]_queueVars =>
        [\A a \in Appointments :
            job'[a].sends > job[a].sends =>
               \/ appointment[a].status = "OPEN" /\ job[a].told = appointment[a].start
               \/ job[a].changed]_queueVars
  BY <1>1
<1>3. QED
  BY <1>2, QueueInvariance, PTL DEF QueueSpec, RemindsOfTheRow
==============================================================================
