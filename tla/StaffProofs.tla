----------------------------- MODULE StaffProofs -----------------------------
(***************************************************************************)
(* What the staff module promises, for any number of users, requests,       *)
(* leaves, bookings and days.                                               *)
(*                                                                          *)
(* The argument is about the requests in flight.  What a request has        *)
(* checked of itself stays true (Sound); what it has read of the account    *)
(* it will write stays true as long as the id it holds names a row (Fits):  *)
(* an account never changes between the staff of a tenant and the           *)
(* administrators, and a leave keeps its days.                              *)
(*                                                                          *)
(* The last part is about module Notices: whom of the staff a call tells,   *)
(* what its answer says and over which channels it writes to the customer,  *)
(* for any number of calls, staff, roles and channels.                      *)
(***************************************************************************)
EXTENDS Staff, Notices, TLAPS

InForce == {"APPROVED", "CANCELLED"}

\* What is true of the fields of a request, whatever the rows are now.
Sound(q) ==
    /\ q.phase \in {"create", "createAdmin"} => q.target \in Users
    /\ q.phase = "create" => q.role \in TenantRoles
    /\ q.phase = "update" => /\ q.role \in TenantRoles \cup {None}
                             /\ q.by \in {"OWNER", "SERVICE_MANAGER"}
                             /\ q.row.role = "OWNER" => q.by = "OWNER"
    /\ q.phase \in {"remove", "unprofiled"} => q.by = "OWNER"
    /\ q.phase = "unprofiled" => q.seen = {}
    /\ q.phase = "remove" => q.row.mechanic \/ q.seen = {}
    /\ q.phase \in {"book", "assign"} => q.booking \in Bookings
    /\ q.phase \in {"leave", "book", "assign"} => q.first \in Days /\ q.seen \subseteq Leaves
    /\ q.phase = "leave" => q.last \in Days
    /\ q.phase = "cancelLeave" => q.leave \in Leaves
    /\ q.phase = "suspendAdmin" => q.active \in BOOLEAN
    /\ q.phase \in {"suspendAdmin", "removeAdmin"} => q.actor \in Users
    /\ q.phase = "suspendAdmin" => q.active \/ q.actor # q.target
    /\ q.phase = "removeAdmin" => q.actor # q.target

\* A leave of u that does not meet the days.
Clear(k, u, first, last) ==
    /\ leave[k].user = u
    /\ leave[k].status \in InForce
    /\ ~Meets(leave[k], first, last)

\* What is true of the account whose id a request holds.
Fits(q) ==
    q.target # None =>
       /\ q.phase \in {"update", "remove", "unprofiled", "leave", "book", "assign"} =>
             OfTenant(q.target)
       /\ q.phase \in {"suspendAdmin", "removeAdmin"} => user[q.target].role = "SUPER_ADMIN"
       /\ q.phase \in {"book", "assign"} => user[q.target].mechanic
       /\ q.phase \in {"book", "assign"} =>
             \A k \in q.seen : Clear(k, q.target, q.first, q.first)
       /\ q.phase = "leave" => \A k \in q.seen : Clear(k, q.target, q.first, q.last)

\* Only the staff of a tenant has profiles and leaves.
TenantsOnly ==
    /\ \A u \in Users : user[u].mechanic => OfTenant(u)
    /\ \A l \in Leaves :
          leave[l].status \in InForce => leave[l].user \in Users /\ OfTenant(leave[l].user)

\* The inductive invariant.
IInv == /\ StaffConsistent
        /\ TenantsOnly
        /\ \A r \in Requests : Sound(request[r]) /\ Fits(request[r])

----------------------------------------------------------------------------
(* Types *)

LEMMA UnsentTyped == Unsent \in Request /\ Done \in Request
BY DEF Unsent, Done, Request, Absent, UserRow, Roles, TenantRoles, Op

LEMMA Nothing == None \notin Users /\ None \notin TenantRoles /\ None # "SUPER_ADMIN"
BY NoneAssumption DEF Roles

\* A request that is over or not begun demands nothing.
LEMMA Idle ==
    ASSUME NEW r \in Requests, request[r] \in {Unsent, Done} PROVE Sound(request[r]) /\ Fits(request[r])
BY DEF Sound, Fits, Unsent, Done

LEMMA InitInv == Init => IInv
<1> SUFFICES ASSUME Init PROVE IInv
  OBVIOUS
<1>1. user \in [Users -> UserRow]
  BY InitialAssumption DEF Init
<1>2. request \in [Requests -> Request] /\ \A r \in Requests : request[r] = Unsent
  BY UnsentTyped DEF Init
<1>3. leave \in [Leaves -> LeaveRow] /\ \A l \in Leaves : leave[l].status = "NONE"
  <2>1. (CHOOSE d \in Days : TRUE) \in Days
    BY DaysAssumption
  <2> QED
    BY <2>1 DEF Init, LeaveRow
<1>4. booking \in [Bookings -> BookingRow] /\ \A b \in Bookings : booking[b].mechanic = None
  BY DEF Init, BookingRow
<1>5. StaffConsistent
  <2>1. TypeOK
    BY <1>1, <1>2, <1>3, <1>4 DEF TypeOK, Init
  <2>2. TechnicianHasProfile
    BY InitialAssumption DEF Init, TechnicianHasProfile
  <2> QED
    BY <2>1, <2>2 DEF StaffConsistent
<1>6. TenantsOnly
  BY <1>3, InitialAssumption DEF Init, TenantsOnly, InForce, OfTenant
<1>7. \A r \in Requests : Sound(request[r]) /\ Fits(request[r])
  BY <1>2, Idle
<1> QED
  BY <1>5, <1>6, <1>7 DEF IInv

----------------------------------------------------------------------------
(* Requests that a step is not about *)

\* The account of u stays on its side and its leaves keep their days.
Stays(u) ==
    /\ OfTenant(u) => OfTenant(u)'
    /\ user[u].role = "SUPER_ADMIN" => user'[u].role = "SUPER_ADMIN"
    /\ \A k \in Leaves :
          leave[k].user = u /\ leave[k].status \in InForce =>
             /\ leave'[k].user = u
             /\ leave'[k].status \in InForce
             /\ leave'[k].first = leave[k].first /\ leave'[k].last = leave[k].last

\* The request s lost the id of a row that was deleted, or the step left s and
\* what s has read alone.
Undisturbed(s) ==
    \/ /\ request[s].phase \notin {"create", "createAdmin"}
       /\ request'[s] = [request[s] EXCEPT !.target = None]
    \/ /\ request'[s] = request[s]
       /\ request[s].target \in Users /\ request[s].phase \notin {"create", "createAdmin"} =>
             Stays(request[s].target)
       /\ request[s].target \in Users /\ request[s].phase \in {"book", "assign"} =>
             (user[request[s].target].mechanic => user'[request[s].target].mechanic)

LEMMA Others ==
    ASSUME IInv, NEW s \in Requests, Undisturbed(s) PROVE Sound(request[s])' /\ Fits(request[s])'
<1>1. request[s] \in Request /\ Sound(request[s]) /\ Fits(request[s])
  BY DEF IInv, StaffConsistent, TypeOK
<1>2. CASE /\ request[s].phase \notin {"create", "createAdmin"}
           /\ request'[s] = [request[s] EXCEPT !.target = None]
  <2>1. /\ request'[s].target = None
        /\ request'[s].phase = request[s].phase /\ request'[s].role = request[s].role
        /\ request'[s].by = request[s].by /\ request'[s].row = request[s].row
        /\ request'[s].seen = request[s].seen /\ request'[s].booking = request[s].booking
        /\ request'[s].first = request[s].first /\ request'[s].last = request[s].last
        /\ request'[s].leave = request[s].leave /\ request'[s].active = request[s].active
        /\ request'[s].actor = request[s].actor
    BY <1>1, <1>2 DEF Request
  <2>2. Fits(request[s])'
    BY <2>1 DEF Fits
  <2> QED
    BY <1>1, <1>2, <2>1, <2>2, Nothing DEF Sound
<1>3. CASE /\ request'[s] = request[s]
           /\ request[s].target \in Users /\ request[s].phase \notin {"create", "createAdmin"} =>
                 Stays(request[s].target)
           /\ request[s].target \in Users /\ request[s].phase \in {"book", "assign"} =>
                 (user[request[s].target].mechanic => user'[request[s].target].mechanic)
  <2>1. Sound(request[s])'
    BY <1>1, <1>3 DEF Sound
  <2>2. Fits(request[s])'
    <3>1. SUFFICES ASSUME request[s].target # None
                   PROVE  Fits(request[s])'
      BY <1>3 DEF Fits
    <3>2. request[s].target \in Users
      BY <1>1, <3>1 DEF Request
    <3>3. PICK u, a, b :
             u \in Users /\ u = request[s].target /\ a = request[s].first /\ b = request[s].last
      BY <3>2
    <3>4. CASE request[s].phase \in {"create", "createAdmin"}
      BY <1>3, <3>4 DEF Fits
    <3>5. CASE request[s].phase \notin {"create", "createAdmin"}
      <4>1. Stays(u)
        BY <1>3, <3>2, <3>3, <3>5
      <4>2. \A k \in Leaves : \A first, last :
               Clear(k, u, first, last) => Clear(k, u, first, last)'
        BY <4>1 DEF Stays, Clear, Meets
      <4>3. \A k \in request[s].seen :
               request[s].phase \in {"leave", "book", "assign"} => k \in Leaves
        BY <1>1 DEF Sound
      <4>4. /\ request'[s] = request[s] /\ request'[s].target = u
            /\ request'[s].first = a /\ request'[s].last = b
        BY <1>3, <3>3
      <4>5. request[s].phase \in {"update", "remove", "unprofiled", "leave", "book", "assign"} =>
               OfTenant(u)'
        BY <1>1, <3>1, <3>3, <4>1 DEF Fits, Stays
      <4>6. request[s].phase \in {"suspendAdmin", "removeAdmin"} => user'[u].role = "SUPER_ADMIN"
        BY <1>1, <3>1, <3>3, <4>1 DEF Fits, Stays
      <4>7. request[s].phase \in {"book", "assign"} => user'[u].mechanic
        BY <1>1, <1>3, <3>1, <3>3 DEF Fits
      <4>8. request[s].phase \in {"book", "assign"} =>
               \A k \in request[s].seen : Clear(k, u, a, a)'
        BY <1>1, <3>1, <3>3, <4>2, <4>3 DEF Fits
      <4>9. request[s].phase = "leave" =>
               \A k \in request[s].seen : Clear(k, u, a, b)'
        BY <1>1, <3>1, <3>3, <4>2, <4>3 DEF Fits
      <4> QED
        BY <4>4, <4>5, <4>6, <4>7, <4>8, <4>9 DEF Fits
    <3> QED
      BY <3>4, <3>5
  <2> QED
    BY <2>1, <2>2
<1> QED
  BY <1>2, <1>3 DEF Undisturbed

LEMMA Together ==
    ASSUME IInv, TypeOK', TechnicianHasProfile', TenantsOnly',
           NEW r \in Requests, Sound(request[r])', Fits(request[r])',
           \A s \in Requests \ {r} : Undisturbed(s)
    PROVE  IInv'
<1>1. ASSUME NEW s \in Requests PROVE Sound(request[s])' /\ Fits(request[s])'
  <2>1. CASE s = r
    BY <2>1
  <2>2. CASE s # r
    BY <2>2, Others
  <2> QED
    BY <2>1, <2>2
<1> QED
  BY <1>1 DEF IInv, StaffConsistent

\* A step that reads, and changes no row.
LEMMA ReadKeeps ==
    ASSUME IInv, NEW r \in Requests, NEW q \in Request, Read(r, q),
           UNCHANGED <<user, leave, booking, stripped>>, Sound(q), Fits(q)
    PROVE  IInv'
<1>1. request' = [request EXCEPT ![r] = q] /\ request \in [Requests -> Request]
  BY DEF Read, IInv, StaffConsistent, TypeOK
<1>2. request' \in [Requests -> Request] /\ \A s \in Requests \ {r} : request'[s] = request[s]
  BY <1>1
<1>3. TypeOK'
  BY <1>2 DEF IInv, StaffConsistent, TypeOK
<1>4. TechnicianHasProfile' /\ TenantsOnly'
  BY DEF IInv, StaffConsistent, TechnicianHasProfile, TenantsOnly, OfTenant
<1>5. \A s \in Requests \ {r} : Undisturbed(s)
  BY <1>2 DEF Undisturbed, Stays, OfTenant
<1>6. request'[r] = q
  BY <1>1
<1>7. Fits(q)'
  BY DEF Fits, OfTenant, Clear, Meets
<1>8. Sound(request'[r]) /\ Fits(request[r])'
  BY <1>6, <1>7 DEF Fits
<1> QED
  BY <1>3, <1>4, <1>5, <1>8, Together

----------------------------------------------------------------------------
(* The steps that read *)

LEMMA OpenedTyped ==
    ASSUME NEW p \in Op, NEW a \in Users, NEW by \in Roles \cup {None}
    PROVE  [Unsent EXCEPT !.phase = p, !.actor = a, !.by = by] \in Request
BY UnsentTyped DEF Request

LEMMA RowTyped ==
    ASSUME NEW q \in Request, NEW u \in Users, NEW row \in UserRow
    PROVE  [q EXCEPT !.target = u, !.row = row] \in Request
BY DEF Request

LEMMA ActiveTyped ==
    ASSUME NEW q \in Request, NEW x \in BOOLEAN \cup {None} PROVE [q EXCEPT !.active = x] \in Request
BY DEF Request

LEMMA ChangesTyped ==
    ASSUME NEW q \in Request, NEW role \in Roles \cup {None}, NEW x \in BOOLEAN \cup {None}
    PROVE  [q EXCEPT !.role = role, !.active = x] \in Request
<1> DEFINE q0 == [q EXCEPT !.role = role]
<1>1. q0 \in Request
  BY DEF Request
<1>2. [q EXCEPT !.role = role, !.active = x] = [q0 EXCEPT !.active = x]
  OBVIOUS
<1> HIDE DEF q0
<1> QED
  BY <1>1, <1>2, ActiveTyped

LEMMA SeenTyped ==
    ASSUME NEW q \in Request, NEW seen \in SUBSET (Leaves \cup Bookings)
    PROVE  [q EXCEPT !.seen = seen] \in Request
BY DEF Request

LEMMA StartCreateKeeps ==
    ASSUME IInv, NEW r \in Requests, NEW a \in Users, NEW u \in Users, NEW role \in Roles,
           StartCreate(r, a, u, role)
    PROVE  IInv'
<1> DEFINE q == [Unsent EXCEPT !.phase = "create", !.actor = a, !.target = u, !.role = role]
<1>1. Read(r, q) /\ UNCHANGED <<user, leave, booking, stripped>>
  BY DEF StartCreate
<1>2. q \in Request
  BY UnsentTyped DEF Request, Op
<1>3. q.phase = "create" /\ q.target = u /\ q.role = role
  BY DEF Unsent
<1>4. role \in TenantRoles
  BY DEF StartCreate, MayAssign, Roles
<1> HIDE DEF q
<1>5. Sound(q) /\ Fits(q)
  BY <1>3, <1>4 DEF Sound, Fits
<1> QED
  BY <1>1, <1>2, <1>5, ReadKeeps

LEMMA StartUpdateKeeps ==
    ASSUME IInv, NEW r \in Requests, NEW a \in Users, NEW u \in Users,
           NEW role \in Roles \cup {None}, NEW active \in BOOLEAN \cup {None},
           StartUpdate(r, a, u, role, active)
    PROVE  IInv'
<1> DEFINE q == [Unsent EXCEPT !.phase = "update", !.actor = a, !.by = user[a].role,
                               !.target = u, !.row = user[u], !.role = role, !.active = active]
<1>1. Read(r, q) /\ UNCHANGED <<user, leave, booking, stripped>>
  BY DEF StartUpdate
<1>2. user[u] \in UserRow /\ user[a].role \in {"OWNER", "SERVICE_MANAGER"}
  BY DEF StartUpdate, Admitted, IInv, StaffConsistent, TypeOK
<1>3. q \in Request
  <2> DEFINE q0 == [Unsent EXCEPT !.phase = "update", !.actor = a, !.by = user[a].role]
             q1 == [q0 EXCEPT !.target = u, !.row = user[u]]
  <2>1. q = [q1 EXCEPT !.role = role, !.active = active]
    OBVIOUS
  <2>2. q0 \in Request
    <3>1. "update" \in Op /\ user[a].role \in Roles \cup {None}
      BY <1>2 DEF Op, Roles, TenantRoles
    <3> QED
      BY <3>1, OpenedTyped, Zenon
  <2> HIDE DEF q0
  <2>3. q1 \in Request
    BY <1>2, <2>2, RowTyped, Zenon
  <2> HIDE DEF q1, q
  <2> QED
    BY <2>1, <2>3, ChangesTyped, Zenon
<1>4. q.phase = "update" /\ q.by = user[a].role /\ q.target = u /\ q.row = user[u] /\ q.role = role
  BY DEF Unsent
<1>5. role \in TenantRoles \cup {None} /\ OfTenant(u)
  BY DEF StartUpdate, MayAssign, Roles
<1>6. user[u].role = "OWNER" => user[a].role = "OWNER"
  BY DEF StartUpdate, MayChange
<1> HIDE DEF q
<1>7. Sound(q) /\ Fits(q)
  BY <1>2, <1>4, <1>5, <1>6 DEF Sound, Fits
<1> QED
  BY <1>1, <1>3, <1>7, ReadKeeps

LEMMA StartRemoveKeeps ==
    ASSUME IInv, NEW r \in Requests, NEW a \in Users, NEW u \in Users, StartRemove(r, a, u)
    PROVE  IInv'
<1> DEFINE q == [Unsent EXCEPT !.phase = "remove", !.actor = a, !.by = user[a].role,
                               !.target = u, !.row = user[u], !.seen = BookingsOf(u)]
<1>1. Read(r, q) /\ UNCHANGED <<user, leave, booking, stripped>>
  BY DEF StartRemove
<1>2. user[u] \in UserRow /\ user[a].role = "OWNER" /\ OfTenant(u)
  BY DEF StartRemove, Admitted, IInv, StaffConsistent, TypeOK
<1>3. BookingsOf(u) \subseteq Bookings
  BY DEF BookingsOf
<1>4. q \in Request
  <2> DEFINE q0 == [Unsent EXCEPT !.phase = "remove", !.actor = a, !.by = user[a].role]
             q1 == [q0 EXCEPT !.target = u, !.row = user[u]]
  <2>1. q = [q1 EXCEPT !.seen = BookingsOf(u)]
    OBVIOUS
  <2>2. q0 \in Request
    <3>1. "remove" \in Op /\ user[a].role \in Roles \cup {None}
      BY <1>2 DEF Op, Roles, TenantRoles
    <3> QED
      BY <3>1, OpenedTyped, Zenon
  <2> HIDE DEF q0
  <2>3. q1 \in Request
    BY <1>2, <2>2, RowTyped, Zenon
  <2> HIDE DEF q1, q
  <2> QED
    BY <1>3, <2>1, <2>3, SeenTyped, Zenon
<1>5. /\ q.phase = "remove" /\ q.by = user[a].role /\ q.target = u /\ q.row = user[u]
      /\ q.seen = BookingsOf(u)
  BY DEF Unsent
<1>6. user[u].mechanic \/ BookingsOf(u) = {}
  BY Nothing DEF BookingsOf, IInv, StaffConsistent, TypeOK
<1> HIDE DEF q
<1>7. Sound(q) /\ Fits(q)
  BY <1>2, <1>5, <1>6 DEF Sound, Fits
<1> QED
  BY <1>1, <1>4, <1>7, ReadKeeps

LEMMA StartLeaveKeeps ==
    ASSUME IInv, NEW r \in Requests, NEW a \in Users, NEW u \in Users,
           NEW first \in Days, NEW last \in Days, StartLeave(r, a, u, first, last)
    PROVE  IInv'
<1> DEFINE q == [Unsent EXCEPT !.phase = "leave", !.actor = a, !.target = u,
                               !.first = first, !.last = last, !.seen = LeavesOf(u)]
<1>1. Read(r, q) /\ UNCHANGED <<user, leave, booking, stripped>>
  BY DEF StartLeave
<1>2. LeavesOf(u) \subseteq Leaves
  BY DEF LeavesOf
<1>3. q \in Request
  <2> DEFINE q0 == [Unsent EXCEPT !.phase = "leave", !.actor = a, !.target = u]
             q1 == [q0 EXCEPT !.first = first, !.last = last]
  <2>1. q = [q1 EXCEPT !.seen = LeavesOf(u)]
    OBVIOUS
  <2>2. q0 \in Request
    BY UnsentTyped DEF Request, Op
  <2> HIDE DEF q0
  <2>3. q1 \in Request
    BY <2>2 DEF Request
  <2>4. LeavesOf(u) \in SUBSET (Leaves \cup Bookings)
    BY <1>2
  <2> HIDE DEF q1, q
  <2> QED
    BY <2>1, <2>3, <2>4, SeenTyped, Zenon
<1>4. /\ q.phase = "leave" /\ q.target = u /\ q.first = first /\ q.last = last
      /\ q.seen = LeavesOf(u)
  BY DEF Unsent
<1>5. OfTenant(u) /\ \A k \in LeavesOf(u) : Clear(k, u, first, last)
  BY DEF StartLeave, LeavesOf, Clear, InForce
<1> HIDE DEF q
<1>6. Sound(q) /\ Fits(q)
  BY <1>2, <1>4, <1>5 DEF Sound, Fits
<1> QED
  BY <1>1, <1>3, <1>6, ReadKeeps

LEMMA StartCancelLeaveKeeps ==
    ASSUME IInv, NEW r \in Requests, NEW a \in Users, NEW l \in Leaves, StartCancelLeave(r, a, l)
    PROVE  IInv'
<1> DEFINE q == [Unsent EXCEPT !.phase = "cancelLeave", !.actor = a, !.leave = l]
<1>1. Read(r, q) /\ UNCHANGED <<user, leave, booking, stripped>>
  BY DEF StartCancelLeave
<1>2. q \in Request
  BY UnsentTyped DEF Request, Op
<1>3. q.phase = "cancelLeave" /\ q.leave = l /\ q.target = None
  BY DEF Unsent
<1> HIDE DEF q
<1>4. Sound(q) /\ Fits(q)
  BY <1>3 DEF Sound, Fits
<1> QED
  BY <1>1, <1>2, <1>4, ReadKeeps

\* A day on which u is not on leave meets none of the leaves of u.
LEMMA NotOnLeave ==
    ASSUME IInv, NEW u \in Users, NEW day \in Days, ~OnLeave(u, day)
    PROVE  LeavesOf(u) \subseteq Leaves /\ \A k \in LeavesOf(u) : Clear(k, u, day, day)
BY DEF LeavesOf, OnLeave, Clear, Meets, InForce

LEMMA StartBookKeeps ==
    ASSUME IInv, NEW r \in Requests, NEW a \in Users, NEW b \in Bookings, NEW u \in Users,
           NEW day \in Days, StartBook(r, a, b, u, day)
    PROVE  IInv'
<1> DEFINE q == [Unsent EXCEPT !.phase = "book", !.actor = a, !.target = u, !.booking = b,
                               !.first = day, !.seen = LeavesOf(u)]
<1>1. Read(r, q) /\ UNCHANGED <<user, leave, booking, stripped>>
  BY DEF StartBook
<1>2. LeavesOf(u) \subseteq Leaves /\ \A k \in LeavesOf(u) : Clear(k, u, day, day)
  BY NotOnLeave DEF StartBook
<1>3. user[u].mechanic /\ OfTenant(u)
  BY DEF StartBook, IInv, TenantsOnly
<1>4. q \in Request
  BY <1>2, UnsentTyped DEF Request, Op
<1>5. /\ q.phase = "book" /\ q.target = u /\ q.booking = b /\ q.first = day
      /\ q.seen = LeavesOf(u)
  BY DEF Unsent
<1> HIDE DEF q
<1>6. Sound(q) /\ Fits(q)
  BY <1>2, <1>3, <1>5 DEF Sound, Fits
<1> QED
  BY <1>1, <1>4, <1>6, ReadKeeps

LEMMA StartAssignKeeps ==
    ASSUME IInv, NEW r \in Requests, NEW a \in Users, NEW b \in Bookings, NEW u \in Users,
           NEW day \in Days, StartAssign(r, a, b, u, day)
    PROVE  IInv'
<1> DEFINE q == [Unsent EXCEPT !.phase = "assign", !.actor = a, !.target = u, !.row = user[u],
                               !.booking = b, !.first = day, !.seen = LeavesOf(u)]
<1>1. Read(r, q) /\ UNCHANGED <<user, leave, booking, stripped>>
  BY DEF StartAssign
<1>2. LeavesOf(u) \subseteq Leaves /\ \A k \in LeavesOf(u) : Clear(k, u, day, day)
  BY NotOnLeave DEF StartAssign
<1>3. user[u].mechanic /\ OfTenant(u) /\ user[u] \in UserRow
  BY DEF StartAssign, IInv, TenantsOnly, StaffConsistent, TypeOK
<1>4. q \in Request
  <2> DEFINE q0 == [Unsent EXCEPT !.phase = "assign", !.actor = a]
             q1 == [q0 EXCEPT !.target = u, !.row = user[u]]
             q2 == [q1 EXCEPT !.booking = b, !.first = day]
  <2>1. q = [q2 EXCEPT !.seen = LeavesOf(u)]
    OBVIOUS
  <2>2. q0 \in Request
    BY UnsentTyped DEF Request, Op
  <2> HIDE DEF q0
  <2>3. q1 \in Request
    BY <1>3, <2>2, RowTyped, Zenon
  <2> HIDE DEF q1
  <2>4. q2 \in Request
    BY <2>3 DEF Request
  <2>5. LeavesOf(u) \in SUBSET (Leaves \cup Bookings)
    BY <1>2
  <2> HIDE DEF q2, q
  <2> QED
    BY <2>1, <2>4, <2>5, SeenTyped, Zenon
<1>5. /\ q.phase = "assign" /\ q.target = u /\ q.booking = b /\ q.first = day
      /\ q.seen = LeavesOf(u)
  BY DEF Unsent
<1> HIDE DEF q
<1>6. Sound(q) /\ Fits(q)
  BY <1>2, <1>3, <1>5 DEF Sound, Fits
<1> QED
  BY <1>1, <1>4, <1>6, ReadKeeps

LEMMA StartCreateAdminKeeps ==
    ASSUME IInv, NEW r \in Requests, NEW a \in Users, NEW u \in Users, StartCreateAdmin(r, a, u)
    PROVE  IInv'
<1> DEFINE q == [Unsent EXCEPT !.phase = "createAdmin", !.actor = a, !.target = u]
<1>1. Read(r, q) /\ UNCHANGED <<user, leave, booking, stripped>>
  BY DEF StartCreateAdmin
<1>2. q \in Request
  <2> DEFINE q0 == [Unsent EXCEPT !.phase = "createAdmin", !.actor = a]
  <2>1. q0 \in Request
    BY UnsentTyped DEF Request, Op
  <2>2. q = [q0 EXCEPT !.target = u]
    OBVIOUS
  <2> HIDE DEF q0
  <2> QED
    BY <2>1, <2>2 DEF Request
<1>3. q.phase = "createAdmin" /\ q.target = u
  BY DEF Unsent
<1> HIDE DEF q
<1>4. Sound(q) /\ Fits(q)
  BY <1>3 DEF Sound, Fits
<1> QED
  BY <1>1, <1>2, <1>4, ReadKeeps

LEMMA StartSetAdminKeeps ==
    ASSUME IInv, NEW r \in Requests, NEW a \in Users, NEW u \in Users, NEW b \in BOOLEAN,
           StartSetAdmin(r, a, u, b)
    PROVE  IInv'
<1> DEFINE q0 == [Unsent EXCEPT !.phase = "suspendAdmin", !.actor = a, !.target = u]
           q == [q0 EXCEPT !.active = b]
<1>1. Read(r, q) /\ UNCHANGED <<user, leave, booking, stripped>>
  BY DEF StartSetAdmin
<1>2. q0 \in Request /\ q0.phase = "suspendAdmin" /\ q0.actor = a /\ q0.target = u
  <2>1. q0 \in Request
    BY UnsentTyped DEF Request, Op
  <2>2. q0.phase = "suspendAdmin" /\ q0.actor = a /\ q0.target = u
    BY DEF Unsent
  <2> QED
    BY <2>1, <2>2
<1>3. user[u].role = "SUPER_ADMIN" /\ (b \/ a # u)
  BY DEF StartSetAdmin, Admins, MayTarget
<1> HIDE DEF q0
<1>4. q \in Request
  BY <1>2, ActiveTyped
<1>5. q.phase = "suspendAdmin" /\ q.actor = a /\ q.target = u /\ q.active = b
  BY <1>2 DEF Request
<1> HIDE DEF q
<1>6. Sound(q) /\ Fits(q)
  BY <1>3, <1>5 DEF Sound, Fits
<1> QED
  BY <1>1, <1>4, <1>6, ReadKeeps

LEMMA StartDeleteAdminKeeps ==
    ASSUME IInv, NEW r \in Requests, NEW a \in Users, NEW u \in Users, StartDeleteAdmin(r, a, u)
    PROVE  IInv'
<1> DEFINE q == [Unsent EXCEPT !.phase = "removeAdmin", !.actor = a, !.target = u]
<1>1. Read(r, q) /\ UNCHANGED <<user, leave, booking, stripped>>
  BY DEF StartDeleteAdmin
<1>2. q \in Request
  <2> DEFINE q0 == [Unsent EXCEPT !.phase = "removeAdmin", !.actor = a]
  <2>1. q0 \in Request
    <3>1. \A x \in Request, y \in Op, z \in Users : [x EXCEPT !.phase = y, !.actor = z] \in Request
      BY DEF Request
    <3>2. "removeAdmin" \in Op
      BY DEF Op
    <3> QED
      BY <3>1, <3>2, UnsentTyped, Zenon
  <2>2. q = [q0 EXCEPT !.target = u]
    OBVIOUS
  <2> HIDE DEF q0
  <2> QED
    BY <2>1, <2>2 DEF Request
<1>3. q.phase = "removeAdmin" /\ q.actor = a /\ q.target = u
  BY DEF Unsent
<1>4. user[u].role = "SUPER_ADMIN" /\ a # u
  BY DEF StartDeleteAdmin, Admins, MayTarget
<1> HIDE DEF q
<1>5. Sound(q) /\ Fits(q)
  BY <1>3, <1>4 DEF Sound, Fits
<1> QED
  BY <1>1, <1>2, <1>5, ReadKeeps

----------------------------------------------------------------------------
(* The steps that write *)

LEMMA Ends ==
    ASSUME IInv, NEW r \in Requests, End(r)
    PROVE  request' \in [Requests -> Request] /\ \A s \in Requests : request'[s] \in {request[s], Done}
BY UnsentTyped DEF End, IInv, StaffConsistent, TypeOK

\* Whatever a step writes, the requests it ends are sound, and so are the others
\* when it leaves the accounts on their side.
LEMMA EndedOrSound ==
    ASSUME IInv, TypeOK', TechnicianHasProfile', TenantsOnly',
           \A s \in Requests : request'[s] \in {request[s], Done},
           \A v \in Users : Stays(v) /\ (user[v].mechanic => user'[v].mechanic)
    PROVE  IInv'
<1>1. ASSUME NEW s \in Requests PROVE Sound(request[s])' /\ Fits(request[s])'
  <2>1. CASE request'[s] = Done
    BY <2>1 DEF Sound, Fits, Done, Unsent
  <2>2. CASE request'[s] = request[s]
    <3>1. Undisturbed(s)
      BY <2>2 DEF Undisturbed
    <3> QED
      BY <3>1, Others
  <2> QED
    BY <2>1, <2>2
<1> QED
  BY <1>1 DEF IInv, StaffConsistent

LEMMA AccountWritten ==
    ASSUME IInv, NEW u \in Users, NEW row \in UserRow, user' = [user EXCEPT ![u] = row],
           request' \in [Requests -> Request],
           \A s \in Requests : request'[s] \in {request[s], Done},
           leave' = leave, booking' = booking,
           stripped' \subseteq Users, \A v \in stripped : v = u \/ v \in stripped',
           row.role = "TECHNICIAN" => row.mechanic \/ u \in stripped',
           row.mechanic => row.role \in TenantRoles,
           user[u].mechanic => row.mechanic,
           user[u].role \in TenantRoles => row.role \in TenantRoles,
           user[u].role = "SUPER_ADMIN" => row.role = "SUPER_ADMIN"
    PROVE  IInv'
<1>1. user \in [Users -> UserRow] /\ TypeOK /\ TechnicianHasProfile /\ TenantsOnly
  BY DEF IInv, StaffConsistent, TypeOK
<1>2. user' \in [Users -> UserRow] /\ user'[u] = row /\ \A v \in Users \ {u} : user'[v] = user[v]
  BY <1>1
<1>3. \A v \in Users : Stays(v) /\ (user[v].mechanic => user'[v].mechanic)
  BY <1>2 DEF Stays, OfTenant
<1>4. TechnicianHasProfile'
  BY <1>1, <1>2 DEF TechnicianHasProfile
<1>5. TenantsOnly'
  <2>1. \A v \in Users : user'[v].mechanic => user'[v].role \in TenantRoles
    BY <1>1, <1>2 DEF TenantsOnly, OfTenant
  <2>2. \A l \in Leaves :
           leave[l].status \in InForce =>
              leave[l].user \in Users /\ user'[leave[l].user].role \in TenantRoles
    BY <1>1, <1>2 DEF TenantsOnly, OfTenant
  <2> QED
    BY <2>1, <2>2 DEF TenantsOnly, OfTenant
<1>6. TypeOK'
  <2>1. \A b \in Bookings : booking'[b].mechanic # None => user'[booking'[b].mechanic].mechanic
    BY <1>1, <1>2 DEF TypeOK, BookingRow
  <2>2. \A l \in Leaves : leave'[l].status \in {"APPROVED", "CANCELLED"} => user'[leave'[l].user].role # None
    BY <1>5, Nothing DEF TenantsOnly, OfTenant, InForce
  <2> QED
    BY <1>1, <1>2, <2>1, <2>2 DEF TypeOK
<1> QED
  BY <1>3, <1>4, <1>5, <1>6, EndedOrSound

\* What a request that writes an account by its id has to go by.
LEMMA HeldAccount ==
    ASSUME IInv, NEW r \in Requests, Held(r)
    PROVE  /\ request[r] \in Request /\ request[r].target \in Users
           /\ user \in [Users -> UserRow] /\ user[request[r].target] \in UserRow
           /\ Sound(request[r]) /\ Fits(request[r])
BY DEF IInv, StaffConsistent, TypeOK, Held, Request

LEMMA InsertStaffKeeps == ASSUME IInv, NEW r \in Requests, InsertStaff(r) PROVE IInv'
<1>1. request[r].phase = "create" /\ Sound(request[r])
  BY DEF InsertStaff, IInv
<1>2. PICK u \in Users, role \in TenantRoles : u = request[r].target /\ role = request[r].role
  BY <1>1 DEF Sound
<1> DEFINE row == [role |-> role, active |-> TRUE, mechanic |-> role = "TECHNICIAN",
                   signed |-> FALSE]
<1>3. user' = [user EXCEPT ![u] = row] /\ leave' = leave /\ booking' = booking
  BY <1>2 DEF InsertStaff
<1>4. stripped' = stripped \ {u} /\ user[u].role = None /\ ~user[u].mechanic
  BY <1>2, Nothing DEF InsertStaff, Present, IInv, TenantsOnly, OfTenant
<1>5. /\ request' \in [Requests -> Request]
      /\ \A s \in Requests : request'[s] \in {request[s], Done}
  BY Ends DEF InsertStaff
<1>6. row \in UserRow
  BY DEF UserRow, Roles
<1>7. row.role = role /\ (row.mechanic <=> role = "TECHNICIAN")
  OBVIOUS
<1> HIDE DEF row
<1>8. stripped' \subseteq Users /\ \A v \in stripped : v = u \/ v \in stripped'
  BY <1>4 DEF IInv, StaffConsistent, TypeOK
<1>9. /\ row.role = "TECHNICIAN" => row.mechanic \/ u \in stripped'
      /\ row.mechanic => row.role \in TenantRoles
      /\ user[u].mechanic => row.mechanic
      /\ user[u].role \in TenantRoles => row.role \in TenantRoles
      /\ user[u].role = "SUPER_ADMIN" => row.role = "SUPER_ADMIN"
  BY <1>4, <1>7, Nothing
<1> QED
  BY <1>3, <1>5, <1>6, <1>8, <1>9, AccountWritten

LEMMA WriteUpdateKeeps == ASSUME IInv, NEW r \in Requests, WriteUpdate(r) PROVE IInv'
<1>1. /\ request[r].phase = "update" /\ request[r].target \in Users /\ request[r].target # None
      /\ Sound(request[r]) /\ Fits(request[r]) /\ request[r].active \in BOOLEAN \cup {None}
  BY HeldAccount DEF WriteUpdate, Held, Request
<1>2. PICK u \in Users, q \in {request[r]} : u = q.target
  BY <1>1
<1>3. user[u] \in UserRow /\ user[u].role \in TenantRoles
  BY <1>1, <1>2, HeldAccount DEF WriteUpdate, Fits, OfTenant
<1>4. q.role \in TenantRoles \cup {None} /\ q.active \in BOOLEAN \cup {None}
  BY <1>1, <1>2 DEF Sound
<1> DEFINE role == IF q.role = None THEN user[u].role ELSE q.role
           active == IF q.active = None THEN user[u].active ELSE q.active
           row == [user[u] EXCEPT !.role = role, !.active = active,
                                  !.mechanic = ProfileAfter(user[u], role)]
<1>5. user' = [user EXCEPT ![u] = row] /\ leave' = leave /\ booking' = booking
  BY <1>2, <1>3 DEF WriteUpdate, UserRow
<1>6. stripped' = stripped \ {u}
  BY <1>2 DEF WriteUpdate
<1>7. /\ request' \in [Requests -> Request]
      /\ \A s \in Requests : request'[s] \in {request[s], Done}
  BY Ends DEF WriteUpdate
<1>8. role \in TenantRoles
  BY <1>3, <1>4
<1>9. active \in BOOLEAN
  BY <1>3, <1>4 DEF UserRow
<1> HIDE DEF role, active
<1>10. ProfileAfter(user[u], role) \in BOOLEAN
  BY <1>3 DEF ProfileAfter, UserRow
<1>11. row \in UserRow
  BY <1>3, <1>8, <1>9, <1>10 DEF UserRow, Roles
<1>12. row.role = role /\ row.mechanic = ProfileAfter(user[u], role)
  BY <1>3 DEF UserRow
<1> HIDE DEF row
<1>13. stripped' \subseteq Users /\ \A v \in stripped : v = u \/ v \in stripped'
  BY <1>6 DEF IInv, StaffConsistent, TypeOK
<1>14. /\ row.role = "TECHNICIAN" => row.mechanic \/ u \in stripped'
       /\ row.mechanic => row.role \in TenantRoles
       /\ user[u].mechanic => row.mechanic
       /\ user[u].role \in TenantRoles => row.role \in TenantRoles
       /\ user[u].role = "SUPER_ADMIN" => row.role = "SUPER_ADMIN"
  BY <1>3, <1>8, <1>12 DEF ProfileAfter, TenantRoles
<1> QED
  BY <1>5, <1>7, <1>11, <1>13, <1>14, AccountWritten

\* An account becomes active or inactive, or signs: its role and profile stay.
LEMMA OtherColumns ==
    ASSUME IInv, NEW u \in Users, NEW active \in BOOLEAN, NEW signed \in BOOLEAN,
           user' = [user EXCEPT ![u] = [user[u] EXCEPT !.active = active, !.signed = signed]],
           request' \in [Requests -> Request],
           \A s \in Requests : request'[s] \in {request[s], Done},
           leave' = leave, booking' = booking, stripped' = stripped
    PROVE  IInv'
<1> DEFINE row == [user[u] EXCEPT !.active = active, !.signed = signed]
<1>1. user[u] \in UserRow /\ stripped \subseteq Users
  BY DEF IInv, StaffConsistent, TypeOK
<1>2. row \in UserRow /\ row.role = user[u].role /\ row.mechanic = user[u].mechanic
  BY <1>1 DEF UserRow
<1>3. user' = [user EXCEPT ![u] = row]
  OBVIOUS
<1> HIDE DEF row
<1>4. /\ row.role = "TECHNICIAN" => row.mechanic \/ u \in stripped'
      /\ row.mechanic => row.role \in TenantRoles
  BY <1>2 DEF IInv, StaffConsistent, TechnicianHasProfile, TenantsOnly, OfTenant
<1> QED
  BY <1>1, <1>2, <1>3, <1>4, AccountWritten

LEMMA DeactivateKeeps == ASSUME IInv, NEW r \in Requests, Deactivate(r) PROVE IInv'
<1>1. request[r].target \in Users /\ user \in [Users -> UserRow]
  BY HeldAccount DEF Deactivate
<1>2. PICK u \in Users : u = request[r].target
  BY <1>1
<1>3. /\ user' = [user EXCEPT ![u].active = FALSE]
      /\ leave' = leave /\ booking' = booking /\ stripped' = stripped
  BY <1>2 DEF Deactivate
<1>4. user[u].signed \in BOOLEAN /\ user[u] \in UserRow
  BY <1>1 DEF UserRow
<1>5. user' = [user EXCEPT ![u] = [user[u] EXCEPT !.active = FALSE, !.signed = user[u].signed]]
  BY <1>1, <1>3, <1>4 DEF UserRow
<1>6. /\ request' \in [Requests -> Request]
      /\ \A s \in Requests : request'[s] \in {request[s], Done}
  BY Ends DEF Deactivate
<1>7. PICK signed \in BOOLEAN : signed = user[u].signed
  BY <1>4
<1> QED
  BY <1>3, <1>5, <1>6, <1>7, OtherColumns

LEMMA WriteSetAdminKeeps == ASSUME IInv, NEW r \in Requests, WriteSetAdmin(r) PROVE IInv'
<1>1. /\ request[r].target \in Users /\ user \in [Users -> UserRow]
      /\ request[r].active \in BOOLEAN
  BY HeldAccount DEF WriteSetAdmin, Sound
<1>2. PICK u \in Users, active \in BOOLEAN : u = request[r].target /\ active = request[r].active
  BY <1>1
<1>3. /\ user' = [user EXCEPT ![u].active = active]
      /\ leave' = leave /\ booking' = booking /\ stripped' = stripped
  BY <1>2 DEF WriteSetAdmin
<1>4. user[u].signed \in BOOLEAN /\ user[u] \in UserRow
  BY <1>1 DEF UserRow
<1>5. user' = [user EXCEPT ![u] = [user[u] EXCEPT !.active = active, !.signed = user[u].signed]]
  BY <1>1, <1>3, <1>4 DEF UserRow
<1>6. /\ request' \in [Requests -> Request]
      /\ \A s \in Requests : request'[s] \in {request[s], Done}
  BY Ends DEF WriteSetAdmin
<1>7. PICK signed \in BOOLEAN : signed = user[u].signed
  BY <1>4
<1> QED
  BY <1>3, <1>5, <1>6, <1>7, OtherColumns

LEMMA SignContractKeeps == ASSUME IInv, NEW a \in Users, SignContract(a) PROVE IInv'
<1>1. user \in [Users -> UserRow] /\ request \in [Requests -> Request]
  BY DEF IInv, StaffConsistent, TypeOK
<1>2. /\ user' = [user EXCEPT ![a].signed = TRUE] /\ request' = request
      /\ leave' = leave /\ booking' = booking /\ stripped' = stripped
  BY DEF SignContract
<1>3. user[a].active \in BOOLEAN /\ user[a] \in UserRow
  BY <1>1 DEF UserRow
<1>4. user' = [user EXCEPT ![a] = [user[a] EXCEPT !.active = user[a].active, !.signed = TRUE]]
  BY <1>1, <1>2, <1>3 DEF UserRow
<1>5. PICK active \in BOOLEAN : active = user[a].active
  BY <1>3
<1> QED
  BY <1>1, <1>2, <1>4, <1>5, OtherColumns

LEMMA InsertAdminKeeps == ASSUME IInv, NEW r \in Requests, InsertAdmin(r) PROVE IInv'
<1>1. request[r].target \in Users
  BY DEF InsertAdmin, IInv, Sound
<1>2. PICK u \in Users : u = request[r].target
  BY <1>1
<1> DEFINE row == [role |-> "SUPER_ADMIN", active |-> TRUE, mechanic |-> FALSE, signed |-> FALSE]
<1>3. /\ user' = [user EXCEPT ![u] = row] /\ leave' = leave /\ booking' = booking
      /\ stripped' = stripped
  BY <1>2 DEF InsertAdmin
<1>4. user[u].role = None /\ ~user[u].mechanic /\ stripped \subseteq Users
  BY <1>2, Nothing DEF InsertAdmin, Present, IInv, TenantsOnly, OfTenant, StaffConsistent, TypeOK
<1>5. /\ request' \in [Requests -> Request]
      /\ \A s \in Requests : request'[s] \in {request[s], Done}
  BY Ends DEF InsertAdmin
<1>6. row \in UserRow /\ row.role = "SUPER_ADMIN" /\ ~row.mechanic
  BY DEF UserRow, Roles
<1> HIDE DEF row
<1> QED
  BY <1>3, <1>4, <1>5, <1>6, Nothing, AccountWritten

LEMMA FailKeeps == ASSUME IInv, NEW r \in Requests, Fail(r) PROVE IInv'
<1>1. user' = user /\ leave' = leave /\ booking' = booking /\ stripped' = stripped
  BY DEF Fail
<1>2. /\ request' \in [Requests -> Request]
      /\ \A s \in Requests : request'[s] \in {request[s], Done}
  BY Ends DEF Fail
<1>3. TypeOK' /\ TechnicianHasProfile' /\ TenantsOnly'
  BY <1>1, <1>2 DEF IInv, StaffConsistent, TypeOK, TechnicianHasProfile, TenantsOnly, OfTenant
<1>4. \A v \in Users : Stays(v) /\ (user[v].mechanic => user'[v].mechanic)
  BY <1>1 DEF Stays, OfTenant
<1> QED
  BY <1>2, <1>3, <1>4, EndedOrSound

----------------------------------------------------------------------------
(* Leaves and bookings *)

LEMMA LeaveWritten ==
    ASSUME IInv, NEW l \in Leaves, NEW row \in LeaveRow, leave' = [leave EXCEPT ![l] = row],
           request' \in [Requests -> Request],
           \A s \in Requests : request'[s] \in {request[s], Done},
           user' = user, booking' = booking, stripped' = stripped,
           row.status \in InForce => row.user \in Users /\ OfTenant(row.user),
           leave[l].status \in InForce =>
              /\ row.user = leave[l].user /\ row.status \in InForce
              /\ row.first = leave[l].first /\ row.last = leave[l].last
    PROVE  IInv'
<1>1. leave \in [Leaves -> LeaveRow]
  BY DEF IInv, StaffConsistent, TypeOK
<1>2. leave' \in [Leaves -> LeaveRow] /\ leave'[l] = row /\ \A k \in Leaves \ {l} : leave'[k] = leave[k]
  BY <1>1
<1>3. \A v \in Users : Stays(v) /\ (user[v].mechanic => user'[v].mechanic)
  BY <1>2 DEF Stays, OfTenant
<1>4. TechnicianHasProfile'
  BY DEF TechnicianHasProfile, IInv, StaffConsistent
<1>5. TenantsOnly'
  BY <1>2 DEF TenantsOnly, OfTenant, IInv
<1>6. TypeOK'
  <2>1. \A k \in Leaves : leave'[k].status \in {"APPROVED", "CANCELLED"} => user'[leave'[k].user].role # None
    BY <1>5, Nothing DEF TenantsOnly, OfTenant, InForce
  <2> QED
    BY <1>2, <2>1 DEF TypeOK, IInv, StaffConsistent
<1> QED
  BY <1>3, <1>4, <1>5, <1>6, EndedOrSound

LEMMA InsertLeaveKeeps ==
    ASSUME IInv, NEW r \in Requests, NEW l \in Leaves, InsertLeave(r, l) PROVE IInv'
<1>1. /\ request[r].target \in Users /\ request[r].target # None /\ Sound(request[r])
      /\ Fits(request[r])
  BY HeldAccount DEF InsertLeave, Held
<1> DEFINE row == [user |-> request[r].target, first |-> request[r].first,
                   last |-> request[r].last, status |-> "APPROVED"]
<1>2. row \in LeaveRow /\ OfTenant(row.user)
  BY <1>1 DEF LeaveRow, InsertLeave, Sound, Fits
<1>3. PICK new \in LeaveRow : new = row
  BY <1>2
<1>4. leave' = [leave EXCEPT ![l] = new] /\ user' = user /\ booking' = booking /\ stripped' = stripped
  BY <1>3 DEF InsertLeave
<1>5. /\ request' \in [Requests -> Request]
      /\ \A s \in Requests : request'[s] \in {request[s], Done}
  BY Ends DEF InsertLeave
<1>6. new.user \in Users /\ OfTenant(new.user) /\ leave[l].status \notin InForce
  BY <1>1, <1>2, <1>3 DEF InsertLeave, InForce
<1> QED
  BY <1>4, <1>5, <1>6, LeaveWritten

LEMMA WriteCancelLeaveKeeps ==
    ASSUME IInv, NEW r \in Requests, WriteCancelLeave(r) PROVE IInv'
<1>1. request[r].leave \in Leaves
  BY DEF WriteCancelLeave, IInv, Sound
<1>2. PICK l \in Leaves : l = request[r].leave
  BY <1>1
<1>3. leave[l] \in LeaveRow /\ leave[l].status \in InForce
  BY <1>2 DEF WriteCancelLeave, InForce, IInv, StaffConsistent, TypeOK
<1> DEFINE row == [leave[l] EXCEPT !.status = "CANCELLED"]
<1>4. /\ row \in LeaveRow /\ row.user = leave[l].user /\ row.status = "CANCELLED"
      /\ row.first = leave[l].first /\ row.last = leave[l].last
  BY <1>3 DEF LeaveRow
<1>5. PICK new \in LeaveRow : new = row
  BY <1>4
<1>6. /\ leave' = [leave EXCEPT ![l] = new]
      /\ user' = user /\ booking' = booking /\ stripped' = stripped
  BY <1>2, <1>5 DEF WriteCancelLeave
<1>7. /\ request' \in [Requests -> Request]
      /\ \A s \in Requests : request'[s] \in {request[s], Done}
  BY Ends DEF WriteCancelLeave
<1>8. leave[l].user \in Users /\ OfTenant(leave[l].user)
  BY <1>3 DEF IInv, TenantsOnly
<1>9. /\ new.user = leave[l].user /\ new.status \in InForce
      /\ new.first = leave[l].first /\ new.last = leave[l].last
  BY <1>4, <1>5 DEF InForce
<1>10. new.user \in Users /\ OfTenant(new.user)
  BY <1>8, <1>9
<1> QED
  BY <1>6, <1>7, <1>9, <1>10, LeaveWritten

LEMMA BookingWritten ==
    ASSUME IInv, NEW r \in Requests, End(r), UNCHANGED <<user, leave, stripped>>, Held(r),
           request[r].phase \in {"book", "assign"},
           booking' = [booking EXCEPT ![request[r].booking] =
              [mechanic |-> request[r].target, day |-> request[r].first]]
    PROVE  IInv'
<1>1. /\ request[r].target \in Users /\ request[r].booking \in Bookings
      /\ request[r].first \in Days /\ user[request[r].target].mechanic
  BY HeldAccount DEF Sound, Fits, Held
<1>2. PICK u \in Users, b \in Bookings, d \in Days :
         u = request[r].target /\ b = request[r].booking /\ d = request[r].first
  BY <1>1
<1>3. booking' = [booking EXCEPT ![b] = [mechanic |-> u, day |-> d]] /\ user[u].mechanic
  BY <1>1, <1>2
<1>4. booking \in [Bookings -> BookingRow]
  BY DEF IInv, StaffConsistent, TypeOK
<1>5. /\ booking' \in [Bookings -> BookingRow] /\ booking'[b].mechanic = u
      /\ \A c \in Bookings \ {b} : booking'[c] = booking[c]
  <2>1. PICK new \in BookingRow : new = [mechanic |-> u, day |-> d]
    BY DEF BookingRow
  <2>2. new.mechanic = u /\ booking' = [booking EXCEPT ![b] = new]
    BY <1>3, <2>1
  <2> QED
    BY <1>4, <2>2
<1>6. user' = user /\ leave' = leave /\ stripped' = stripped
  OBVIOUS
<1>7. /\ request' \in [Requests -> Request]
      /\ \A s \in Requests : request'[s] \in {request[s], Done}
  BY Ends
<1>8. TypeOK'
  <2>1. \A c \in Bookings : booking'[c].mechanic # None => user'[booking'[c].mechanic].mechanic
    BY <1>3, <1>5, <1>6 DEF IInv, StaffConsistent, TypeOK
  <2> QED
    BY <1>5, <1>6, <1>7, <2>1 DEF IInv, StaffConsistent, TypeOK
<1>9. TechnicianHasProfile' /\ TenantsOnly'
  BY <1>6 DEF IInv, StaffConsistent, TechnicianHasProfile, TenantsOnly, OfTenant
<1>10. \A v \in Users : Stays(v) /\ (user[v].mechanic => user'[v].mechanic)
  BY <1>6 DEF Stays, OfTenant
<1> QED
  BY <1>7, <1>8, <1>9, <1>10, EndedOrSound

----------------------------------------------------------------------------
(* Deletions *)

\* The requests once the ids of a row are forgotten.
\* The request r becomes q, and holders forget the account they would write.
Forgets(holders, r, q) ==
    /\ request' \in [Requests -> Request] /\ request'[r] = q
    /\ \A s \in Requests \ {r} :
          request'[s] = IF s \in holders THEN [request[s] EXCEPT !.target = None] ELSE request[s]

LEMMA Forgotten ==
    ASSUME IInv, NEW r \in Requests, NEW holders \in SUBSET Requests, NEW q \in Request,
           request' = [Forget(holders) EXCEPT ![r] = q]
    PROVE  Forgets(holders, r, q)
<1>1. \A s \in Requests : request[s] \in Request
  BY DEF IInv, StaffConsistent, TypeOK
<1>2. \A s \in Requests : [request[s] EXCEPT !.target = None] \in Request
  BY <1>1 DEF Request
<1>3. Forget(holders) \in [Requests -> Request]
  BY <1>1, <1>2 DEF Forget
<1> QED
  BY <1>3 DEF Forget, Forgets

LEMMA DeleteProfileKeeps == ASSUME IInv, NEW r \in Requests, DeleteProfile(r) PROVE IInv'
<1>1. /\ request[r] \in Request /\ request[r].target \in Users /\ Sound(request[r])
      /\ Fits(request[r]) /\ request[r].target # None /\ request[r].phase = "remove"
  BY HeldAccount DEF DeleteProfile, Held
<1>2. PICK u \in Users : u = request[r].target
  BY <1>1
<1> DEFINE row == [user[u] EXCEPT !.mechanic = FALSE]
           q0 == [request[r] EXCEPT !.phase = "unprofiled"]
           holders == ProfileHoldersOf(u) \ {r}
<1>3. q0 \in Request /\ q0.phase = "unprofiled" /\ q0.target = u /\ q0.seen = request[r].seen
      /\ q0.by = request[r].by
  BY <1>1, <1>2 DEF Request
<1>4. PICK q \in Request : q = q0
  BY <1>3
<1>5. q.phase = "unprofiled" /\ q.target = u /\ q.seen = {} /\ q.by = "OWNER"
  BY <1>1, <1>3, <1>4 DEF DeleteProfile, Referenced, Sound
<1>6. request' = [Forget(holders) EXCEPT ![r] = q]
  <2>1. Forget(holders)[r] = request[r]
    BY DEF Forget
  <2>2. request' = [Forget(holders) EXCEPT ![r].phase = "unprofiled"]
    BY <1>2 DEF DeleteProfile
  <2> QED
    BY <1>4, <2>1, <2>2
<1>7. /\ request' \in [Requests -> Request] /\ request'[r] = q
      /\ \A s \in Requests \ {r} :
            request'[s] = IF s \in ProfileHoldersOf(u) THEN [request[s] EXCEPT !.target = None]
                          ELSE request[s]
  <2>1. PICK h \in SUBSET Requests : h = ProfileHoldersOf(u) \ {r}
    BY DEF ProfileHoldersOf
  <2>2. request' = [Forget(h) EXCEPT ![r] = q]
    BY <1>6, <2>1
  <2>3. /\ request' \in [Requests -> Request] /\ request'[r] = q
        /\ \A s \in Requests \ {r} :
              request'[s] = IF s \in h THEN [request[s] EXCEPT !.target = None] ELSE request[s]
    BY <2>2, Forgotten DEF Forgets
  <2> QED
    BY <2>1, <2>3
<1>8. /\ user \in [Users -> UserRow] /\ user[u] \in UserRow /\ booking \in [Bookings -> BookingRow]
      /\ stripped \subseteq Users
  BY DEF IInv, StaffConsistent, TypeOK
<1>9. row \in UserRow /\ row.role = user[u].role /\ ~row.mechanic
  BY <1>8 DEF UserRow
<1>10. /\ user' = [user EXCEPT ![u] = row] /\ leave' = leave
       /\ booking' = WithoutMechanic(u) /\ stripped' = stripped \cup {u}
  BY <1>2, <1>8 DEF DeleteProfile, UserRow
<1> HIDE DEF row, q0, holders
<1>11. /\ user' \in [Users -> UserRow] /\ user'[u] = row
       /\ \A v \in Users \ {u} : user'[v] = user[v]
  BY <1>8, <1>9, <1>10
<1>12. \A v \in Users : Stays(v)
  BY <1>9, <1>10, <1>11 DEF Stays, OfTenant
<1>13. \A s \in Requests \ {r} : Undisturbed(s)
  <2>1. ASSUME NEW s \in Requests \ {r}, s \in ProfileHoldersOf(u) PROVE Undisturbed(s)
    BY <1>7, <2>1 DEF ProfileHoldersOf, Undisturbed
  <2>2. ASSUME NEW s \in Requests \ {r}, s \notin ProfileHoldersOf(u) PROVE Undisturbed(s)
    <3>1. request'[s] = request[s]
      BY <1>7, <2>2
    <3>2. request[s].phase \in {"book", "assign"} => request[s].target # u
      BY <2>2 DEF ProfileHoldersOf
    <3> QED
      BY <1>11, <1>12, <3>1, <3>2 DEF Undisturbed
  <2> QED
    BY <2>1, <2>2
<1>14. Sound(request[r])' /\ Fits(request[r])'
  <2>1. OfTenant(u)'
    BY <1>1, <1>2, <1>9, <1>11 DEF Fits, OfTenant
  <2> QED
    BY <1>5, <1>7, <2>1 DEF Sound, Fits
<1>15. TypeOK'
  <2>1. booking' \in [Bookings -> BookingRow]
    BY <1>8, <1>10 DEF WithoutMechanic, BookingRow
  <2>2. \A b \in Bookings : booking'[b].mechanic # None => user'[booking'[b].mechanic].mechanic
    <3>1. \A b \in Bookings : booking'[b].mechanic \in {booking[b].mechanic, None} \ {u}
      BY <1>8, <1>10, Nothing DEF WithoutMechanic, BookingRow
    <3> QED
      BY <1>8, <1>11, <3>1 DEF IInv, StaffConsistent, TypeOK, BookingRow
  <2>3. \A l \in Leaves :
           leave'[l].status \in {"APPROVED", "CANCELLED"} => user'[leave'[l].user].role # None
    BY <1>9, <1>10, <1>11, Nothing DEF IInv, TenantsOnly, OfTenant, InForce
  <2> QED
    BY <1>7, <1>8, <1>10, <1>11, <2>1, <2>2, <2>3 DEF IInv, StaffConsistent, TypeOK
<1>16. TechnicianHasProfile'
  BY <1>10, <1>11 DEF IInv, StaffConsistent, TechnicianHasProfile
<1>17. TenantsOnly'
  BY <1>9, <1>10, <1>11 DEF IInv, TenantsOnly, OfTenant
<1> QED
  BY <1>13, <1>14, <1>15, <1>16, <1>17, Together

LEMMA AccountDeleted ==
    ASSUME IInv, NEW r \in Requests, NEW u \in Users, user' = [user EXCEPT ![u] = Absent],
           request' = [Forget(HoldersOf(u)) EXCEPT ![r] = Done],
           leave' \in [Leaves -> LeaveRow], booking' \in [Bookings -> BookingRow],
           stripped' \subseteq Users, \A v \in stripped : v = u \/ v \in stripped',
           \A b \in Bookings : booking'[b].mechanic \in {booking[b].mechanic, None} \ {u},
           \A l \in Leaves : IF leave[l].user = u THEN leave'[l].status \notin InForce
                             ELSE leave'[l] = leave[l]
    PROVE  IInv'
<1>1. /\ request' \in [Requests -> Request] /\ request'[r] = Done
      /\ \A s \in Requests \ {r} :
            request'[s] = IF s \in HoldersOf(u) THEN [request[s] EXCEPT !.target = None]
                          ELSE request[s]
  <2>1. HoldersOf(u) \in SUBSET Requests
    BY DEF HoldersOf
  <2>2. Forgets(HoldersOf(u), r, Done)
    BY <2>1, UnsentTyped, Forgotten, Zenon
  <2> QED
    BY <2>2 DEF Forgets
<1>2. user \in [Users -> UserRow] /\ Absent \in UserRow
  BY DEF IInv, StaffConsistent, TypeOK, Absent, UserRow
<1>3. /\ user' \in [Users -> UserRow] /\ user'[u] = Absent
      /\ \A v \in Users \ {u} : user'[v] = user[v]
  BY <1>2
<1>4. Absent.role = None /\ ~Absent.mechanic
  BY DEF Absent
<1>5. \A v \in Users \ {u} : Stays(v)
  BY <1>3 DEF Stays, OfTenant
<1>6. \A s \in Requests \ {r} : Undisturbed(s)
  <2>1. ASSUME NEW s \in Requests \ {r}, s \in HoldersOf(u) PROVE Undisturbed(s)
    BY <1>1, <2>1 DEF HoldersOf, Undisturbed
  <2>2. ASSUME NEW s \in Requests \ {r}, s \notin HoldersOf(u) PROVE Undisturbed(s)
    <3>1. request'[s] = request[s]
      BY <1>1, <2>2
    <3>2. request[s].phase \notin {"create", "createAdmin"} => request[s].target # u
      BY <2>2 DEF HoldersOf
    <3> QED
      BY <1>3, <1>5, <3>1, <3>2 DEF Undisturbed
  <2> QED
    BY <2>1, <2>2
<1>7. Sound(request[r])' /\ Fits(request[r])'
  BY <1>1 DEF Sound, Fits, Done, Unsent
<1>8. TenantsOnly'
  <2>1. \A v \in Users : user'[v].mechanic => user'[v].role \in TenantRoles
    BY <1>3, <1>4 DEF IInv, TenantsOnly, OfTenant
  <2>2. \A l \in Leaves : leave'[l].status \in InForce =>
           leave'[l].user \in Users \ {u} /\ user[leave'[l].user].role \in TenantRoles
    BY DEF IInv, TenantsOnly, OfTenant
  <2> QED
    BY <1>3, <2>1, <2>2 DEF TenantsOnly, OfTenant
<1>9. TechnicianHasProfile'
  <2>1. "TECHNICIAN" # None
    BY Nothing DEF TenantRoles
  <2> QED
    BY <1>3, <1>4, <2>1 DEF IInv, StaffConsistent, TechnicianHasProfile
<1>10. TypeOK'
  <2>1. \A b \in Bookings : booking'[b].mechanic # None => user'[booking'[b].mechanic].mechanic
    BY <1>3 DEF IInv, StaffConsistent, TypeOK, BookingRow
  <2>2. \A l \in Leaves :
           leave'[l].status \in {"APPROVED", "CANCELLED"} => user'[leave'[l].user].role # None
    BY <1>8, Nothing DEF TenantsOnly, OfTenant, InForce
  <2> QED
    BY <1>1, <1>3, <2>1, <2>2 DEF TypeOK
<1> QED
  BY <1>6, <1>7, <1>8, <1>9, <1>10, Together

LEMMA DeleteAccountKeeps == ASSUME IInv, NEW r \in Requests, DeleteAccount(r) PROVE IInv'
<1>1. request[r].target \in Users
  BY HeldAccount DEF DeleteAccount
<1>2. PICK u \in Users : u = request[r].target
  BY <1>1
<1>3. /\ leave \in [Leaves -> LeaveRow] /\ booking \in [Bookings -> BookingRow]
      /\ stripped \subseteq Users
  BY DEF IInv, StaffConsistent, TypeOK
<1>4. user' = [user EXCEPT ![u] = Absent] /\ request' = [Forget(HoldersOf(u)) EXCEPT ![r] = Done]
  BY <1>2, Zenon DEF DeleteAccount
<1>5. leave' = [l \in Leaves |-> IF leave[l].user = u
                                THEN [leave[l] EXCEPT !.user = None, !.status = "DELETED"]
                                ELSE leave[l]]
  BY <1>2, Zenon DEF DeleteAccount
<1>6. booking' = WithoutMechanic(u) /\ stripped' = stripped \ {u}
  BY <1>2, Zenon DEF DeleteAccount
<1>7. leave' \in [Leaves -> LeaveRow] /\ \A l \in Leaves :
         IF leave[l].user = u THEN leave'[l].status \notin InForce ELSE leave'[l] = leave[l]
  <2>1. ASSUME NEW row \in LeaveRow
        PROVE  /\ [row EXCEPT !.user = None, !.status = "DELETED"] \in LeaveRow
               /\ [row EXCEPT !.user = None, !.status = "DELETED"].status = "DELETED"
    BY DEF LeaveRow
  <2>2. \A l \in Leaves : leave[l] \in LeaveRow
    BY <1>3
  <2>3. \A l \in Leaves : leave'[l] = IF leave[l].user = u
                                      THEN [leave[l] EXCEPT !.user = None, !.status = "DELETED"]
                                      ELSE leave[l]
    BY <1>5, Zenon
  <2>4. \A l \in Leaves : leave'[l] \in LeaveRow
    BY <2>1, <2>2, <2>3
  <2>5. leave' \in [Leaves -> LeaveRow]
    BY <1>5, <2>3, <2>4
  <2>6. "DELETED" \notin InForce
    BY DEF InForce
  <2> QED
    BY <2>1, <2>2, <2>3, <2>5, <2>6
<1>8. booking' \in [Bookings -> BookingRow]
  BY <1>3, <1>6 DEF WithoutMechanic, BookingRow
<1>9. \A b \in Bookings : booking'[b].mechanic \in {booking[b].mechanic, None} \ {u}
  BY <1>3, <1>6, Nothing DEF WithoutMechanic, BookingRow
<1>10. stripped' \subseteq Users /\ \A v \in stripped : v = u \/ v \in stripped'
  BY <1>3, <1>6
<1> QED
  BY <1>4, <1>7, <1>8, <1>9, <1>10, AccountDeleted, Zenon

LEMMA DeleteAdminKeeps == ASSUME IInv, NEW r \in Requests, DeleteAdmin(r) PROVE IInv'
<1>1. /\ request[r].target \in Users /\ request[r].target # None /\ Fits(request[r])
      /\ request[r].phase = "removeAdmin"
  BY HeldAccount DEF DeleteAdmin, Held
<1>2. PICK u \in Users : u = request[r].target
  BY <1>1
<1>3. /\ leave \in [Leaves -> LeaveRow] /\ booking \in [Bookings -> BookingRow]
      /\ stripped \subseteq Users
  BY DEF IInv, StaffConsistent, TypeOK
<1>4. /\ user' = [user EXCEPT ![u] = Absent]
      /\ request' = [Forget(HoldersOf(u)) EXCEPT ![r] = Done]
      /\ leave' = leave /\ booking' = booking /\ stripped' = stripped
  BY <1>2 DEF DeleteAdmin
<1>5. ~OfTenant(u)
  BY <1>1, <1>2 DEF Fits, OfTenant, TenantRoles
<1>6. \A b \in Bookings : booking'[b].mechanic \in {booking[b].mechanic, None} \ {u}
  BY <1>3, <1>4, <1>5, Nothing DEF IInv, TenantsOnly, StaffConsistent, TypeOK
<1>7. \A l \in Leaves : IF leave[l].user = u THEN leave'[l].status \notin InForce
                        ELSE leave'[l] = leave[l]
  BY <1>4, <1>5 DEF IInv, TenantsOnly
<1> QED
  BY <1>3, <1>4, <1>6, <1>7, AccountDeleted

----------------------------------------------------------------------------
(* Every step *)

LEMMA StartKeeps == ASSUME IInv, NEW r \in Requests, NEW a \in Users, Start(r, a) PROVE IInv'
<1>1. CASE \E u \in Users, role \in Roles : StartCreate(r, a, u, role)
  BY <1>1, StartCreateKeeps
<1>2. CASE \E u \in Users, role \in Roles : StartUpdate(r, a, u, role, None)
  BY <1>2, StartUpdateKeeps
<1>3. CASE \E u \in Users, active \in BOOLEAN \cup {None} : StartUpdate(r, a, u, None, active)
  BY <1>3, StartUpdateKeeps
<1>4. CASE \E u \in Users : StartRemove(r, a, u)
  BY <1>4, StartRemoveKeeps
<1>5. CASE \E u \in Users, first, last \in Days : StartLeave(r, a, u, first, last)
  BY <1>5, StartLeaveKeeps
<1>6. CASE \E l \in Leaves : StartCancelLeave(r, a, l)
  BY <1>6, StartCancelLeaveKeeps
<1>7. CASE \E b \in Bookings, u \in Users, day \in Days :
              StartBook(r, a, b, u, day) \/ StartAssign(r, a, b, u, day)
  BY <1>7, StartBookKeeps, StartAssignKeeps
<1>8. CASE \E u \in Users : StartCreateAdmin(r, a, u)
  BY <1>8, StartCreateAdminKeeps
<1>9. CASE \E u \in Users, b \in BOOLEAN : StartSetAdmin(r, a, u, b)
  BY <1>9, StartSetAdminKeeps
<1>10. CASE \E u \in Users : StartDeleteAdmin(r, a, u)
  BY <1>10, StartDeleteAdminKeeps
<1> QED
  BY <1>1, <1>2, <1>3, <1>4, <1>5, <1>6, <1>7, <1>8, <1>9, <1>10 DEF Start

LEMMA WriteKeeps == ASSUME IInv, NEW r \in Requests, Write(r) PROVE IInv'
<1>1. CASE WriteBook(r) \/ WriteAssign(r)
  <2>1. /\ End(r) /\ UNCHANGED <<user, leave, stripped>> /\ Held(r)
        /\ request[r].phase \in {"book", "assign"}
        /\ booking' = [booking EXCEPT ![request[r].booking] =
              [mechanic |-> request[r].target, day |-> request[r].first]]
    BY <1>1 DEF WriteBook, WriteAssign
  <2> QED
    BY <2>1, BookingWritten
<1> QED
  BY <1>1, InsertStaffKeeps, WriteUpdateKeeps, DeactivateKeeps, DeleteProfileKeeps,
     DeleteAccountKeeps, InsertLeaveKeeps, WriteCancelLeaveKeeps, InsertAdminKeeps,
     WriteSetAdminKeeps, DeleteAdminKeeps, FailKeeps DEF Write

LEMMA NextInv == ASSUME IInv, [Next]_vars PROVE IInv'
<1>1. CASE \E r \in Requests, a \in Users : Start(r, a)
  BY <1>1, StartKeeps
<1>2. CASE \E r \in Requests : Write(r)
  BY <1>2, WriteKeeps
<1>3. CASE \E a \in Users : SignContract(a)
  BY <1>3, SignContractKeeps
<1>4. CASE UNCHANGED vars
  <2>1. user' = user /\ leave' = leave /\ booking' = booking /\ request' = request
        /\ stripped' = stripped
    BY <1>4 DEF vars
  <2>2. StaffConsistent' /\ TenantsOnly'
    BY <2>1 DEF IInv, StaffConsistent, TypeOK, TechnicianHasProfile, TenantsOnly, OfTenant
  <2>3. ASSUME NEW r \in Requests PROVE Sound(request[r])' /\ Fits(request[r])'
    <3>1. Sound(request[r]) /\ Fits(request[r])
      BY DEF IInv
    <3> QED
      BY <2>1, <3>1 DEF Sound, Fits, OfTenant, Clear, Meets
  <2> QED
    BY <2>2, <2>3 DEF IInv
<1> QED
  BY <1>1, <1>2, <1>3, <1>4 DEF Next

LEMMA Invariance == Spec => []IInv
<1>1. Init => IInv
  BY InitInv
<1>2. IInv /\ [Next]_vars => IInv'
  BY NextInv
<1> QED
  BY <1>1, <1>2, PTL DEF Spec

\* The rows keep the shape of the schema, a booking names a profile that is there
\* and a leave an account that is there, and a technician has a profile unless a
\* removal stopped halfway (create, update and remove of StaffService).
THEOREM StaffStaysConsistent == Spec => []StaffConsistent
<1>1. IInv => StaffConsistent
  BY DEF IInv
<1> QED
  BY <1>1, Invariance, PTL

----------------------------------------------------------------------------
(* Who writes an account *)

LEMMA EndsIt ==
    ASSUME IInv, NEW r \in Requests, request[r].phase \notin {"unsent", "done"},
           End(r) \/ \E holders \in SUBSET Requests : request' = [Forget(holders) EXCEPT ![r] = Done]
    PROVE  r \in Ending
<1>1. request'[r] = Done
  BY UnsentTyped, Forgotten DEF Forgets, End, IInv, StaffConsistent, TypeOK
<1> QED
  BY <1>1 DEF Ending, Done, Unsent

\* The request r writes the account of u, and that account only.
Writes(r, u) ==
    /\ request[r].target = u
    /\ \A v \in Users \ {u} : user'[v] = user[v]
    /\ \/ /\ request[r].phase \in {"update", "remove", "unprofiled"}
          /\ OfTenant(u)
       \/ /\ request[r].phase = "suspendAdmin"
          /\ user[u].role = "SUPER_ADMIN"
          /\ user'[u] = [user[u] EXCEPT !.active = request[r].active]
       \/ /\ request[r].phase = "removeAdmin"
          /\ user[u].role = "SUPER_ADMIN"

LEMMA Writer ==
    ASSUME IInv, NEW r \in Requests, NEW u \in Users, Write(r), user'[u] # user[u]
    PROVE  user[u].role = None \/ (r \in Ending /\ Writes(r, u))
<1>1. user \in [Users -> UserRow]
  BY DEF IInv, StaffConsistent, TypeOK
<1>2. CASE InsertStaff(r) \/ InsertAdmin(r)
  <2>1. user[request[r].target].role = None
    BY <1>2 DEF InsertStaff, InsertAdmin, Present
  <2>2. u = request[r].target
    BY <1>1, <1>2 DEF InsertStaff, InsertAdmin
  <2> QED
    BY <2>1, <2>2
<1>3. CASE Held(r) /\ (WriteUpdate(r) \/ Deactivate(r) \/ DeleteProfile(r) \/ DeleteAccount(r))
  <2>1. u = request[r].target /\ \A v \in Users \ {u} : user'[v] = user[v]
    <3>1. \E row : user' = [user EXCEPT ![request[r].target] = row]
      BY <1>3, Zenon DEF WriteUpdate, Deactivate, DeleteProfile, DeleteAccount
    <3> QED
      BY <1>1, <3>1
  <2>2. request[r].phase \in {"update", "remove", "unprofiled"}
    BY <1>3 DEF WriteUpdate, Deactivate, DeleteProfile, DeleteAccount
  <2>3. OfTenant(u)
    BY <1>3, <2>1, <2>2, HeldAccount DEF Fits, Held
  <2>4. CASE WriteUpdate(r) \/ Deactivate(r)
    BY <2>1, <2>2, <2>3, <2>4, EndsIt DEF WriteUpdate, Deactivate, Writes
  <2>5. CASE DeleteAccount(r)
    <3>1. HoldersOf(request[r].target) \in SUBSET Requests
      BY DEF HoldersOf
    <3> QED
      BY <2>1, <2>2, <2>3, <2>5, <3>1, EndsIt DEF DeleteAccount, Writes
  <2>6. CASE DeleteProfile(r)
    <3>1. request'[r].phase = "unprofiled"
      <4>1. request[r] \in Request /\ request \in [Requests -> Request]
        BY DEF IInv, StaffConsistent, TypeOK
      <4>2. Forget(ProfileHoldersOf(request[r].target) \ {r})[r] = request[r]
        BY DEF Forget
      <4>3. r \in DOMAIN Forget(ProfileHoldersOf(request[r].target) \ {r})
        BY DEF Forget
      <4> QED
        BY <2>6, <4>1, <4>2, <4>3 DEF DeleteProfile, Request
    <3> QED
      BY <2>1, <2>2, <2>3, <3>1 DEF Ending, Writes
  <2> QED
    BY <1>3, <2>4, <2>5, <2>6
<1>4. CASE WriteSetAdmin(r)
  <2>1. request[r].target \in Users /\ request[r].phase = "suspendAdmin" /\ Held(r)
    BY <1>4, HeldAccount DEF WriteSetAdmin
  <2>2. /\ u = request[r].target /\ \A v \in Users \ {u} : user'[v] = user[v]
        /\ user'[u] = [user[u] EXCEPT !.active = request[r].active]
    BY <1>1, <1>4 DEF WriteSetAdmin
  <2>3. user[u].role = "SUPER_ADMIN"
    BY <2>1, <2>2, HeldAccount DEF Fits, Held
  <2>4. r \in Ending
    BY <1>4, <2>1, EndsIt DEF WriteSetAdmin
  <2> QED
    BY <2>1, <2>2, <2>3, <2>4 DEF Writes
<1>5. CASE DeleteAdmin(r)
  <2>1. request[r].target \in Users /\ request[r].phase = "removeAdmin" /\ Held(r)
    BY <1>5, HeldAccount DEF DeleteAdmin
  <2>2. u = request[r].target /\ \A v \in Users \ {u} : user'[v] = user[v]
    BY <1>1, <1>5 DEF DeleteAdmin
  <2>3. user[u].role = "SUPER_ADMIN"
    BY <2>1, <2>2, HeldAccount DEF Fits, Held
  <2>4. HoldersOf(request[r].target) \in SUBSET Requests
    BY DEF HoldersOf
  <2>5. r \in Ending
    BY <1>5, <2>1, <2>4, EndsIt DEF DeleteAdmin
  <2> QED
    BY <2>1, <2>2, <2>3, <2>5 DEF Writes
<1>6. CASE UNCHANGED user
  BY <1>6
<1>7. \/ InsertStaff(r) \/ InsertAdmin(r) \/ WriteSetAdmin(r) \/ DeleteAdmin(r)
      \/ Held(r) /\ (WriteUpdate(r) \/ Deactivate(r) \/ DeleteProfile(r) \/ DeleteAccount(r))
      \/ UNCHANGED user
  BY DEF Write, WriteUpdate, Deactivate, DeleteProfile, DeleteAccount, InsertLeave,
         WriteCancelLeave, WriteBook, WriteAssign, Fail
<1> QED
  BY <1>2, <1>3, <1>4, <1>5, <1>6, <1>7

LEMMA StartsReadOnly ==
    ASSUME NEW r \in Requests, NEW a \in Users, Start(r, a)
    PROVE  UNCHANGED <<user, leave, booking, stripped>>
BY DEF Start, StartCreate, StartUpdate, StartRemove, StartLeave, StartCancelLeave, StartBook,
       StartAssign, StartCreateAdmin, StartSetAdmin, StartDeleteAdmin

\* Whoever changes an account: the holder who signs, or a request that ends.
LEMMA Changes ==
    ASSUME IInv, [Next]_vars, NEW u \in Users, user'[u] # user[u]
    PROVE  \/ user[u].role = None
           \/ user'[u] = [user[u] EXCEPT !.signed = TRUE]
           \/ \E r \in Ending : Writes(r, u) /\ Sound(request[r])
<1>1. CASE \E r \in Requests, a \in Users : Start(r, a)
  BY <1>1, StartsReadOnly
<1>2. CASE \E r \in Requests : Write(r)
  BY <1>2, Writer DEF IInv
<1>3. CASE \E a \in Users : SignContract(a)
  BY <1>3 DEF SignContract, IInv, StaffConsistent, TypeOK
<1>4. CASE UNCHANGED vars
  BY <1>4 DEF vars
<1> QED
  BY <1>1, <1>2, <1>3, <1>4 DEF Next

OwnerStep(u) ==
    user[u].role = "OWNER" /\ user'[u] # user[u] =>
       \/ user'[u] = [user[u] EXCEPT !.signed = TRUE]
       \/ \E r \in Ending : /\ request[r].target = u
                            /\ \/ request[r].by = "OWNER"
                               \/ /\ request[r].by = "SERVICE_MANAGER"
                                  /\ request[r].row.role # "OWNER"

LEMMA OwnerStepHolds == ASSUME IInv, [Next]_vars, NEW u \in Users PROVE OwnerStep(u)
<1> SUFFICES ASSUME user[u].role = "OWNER", user'[u] # user[u],
                    user'[u] # [user[u] EXCEPT !.signed = TRUE]
             PROVE  \E r \in Ending : /\ request[r].target = u
                                      /\ \/ request[r].by = "OWNER"
                                         \/ /\ request[r].by = "SERVICE_MANAGER"
                                            /\ request[r].row.role # "OWNER"
  BY DEF OwnerStep
<1>1. PICK r \in Ending : Writes(r, u) /\ Sound(request[r])
  BY Changes, Nothing DEF TenantRoles
<1>2. request[r].target = u /\ request[r].phase \in {"update", "remove", "unprofiled"}
  BY <1>1 DEF Writes
<1> QED
  BY <1>1, <1>2 DEF Sound

\* However many requests are in flight, the account of an owner is changed by an
\* owner, by the holder who signs, or by a manager whose request had read it
\* before it was an owner's (update and remove of StaffService).
THEOREM OwnersAreProtected == Spec => OwnerProtected
<1>1. IInv /\ [Next]_vars => \A u \in Users : OwnerStep(u)
  BY OwnerStepHolds
<1>2. Spec => [][\A u \in Users : OwnerStep(u)]_vars
  BY <1>1, Invariance, PTL DEF Spec
<1> QED
  BY <1>2 DEF OwnerProtected, OwnerStep

LEMMA LastAdminStep ==
    ASSUME IInv, [Next]_vars, ActiveAdmins # {}, ActiveAdmins' = {}
    PROVE  \E r \in Ending : request[r].actor \notin ActiveAdmins
<1>1. PICK u \in Users : user[u].role = "SUPER_ADMIN" /\ user[u].active
  BY DEF ActiveAdmins, Admins
<1>2. \A v \in Users : ~(user'[v].role = "SUPER_ADMIN" /\ user'[v].active)
  BY DEF ActiveAdmins, Admins
<1>3. user[u] \in UserRow
  BY DEF IInv, StaffConsistent, TypeOK
<1>4. user'[u] # user[u] /\ user'[u] # [user[u] EXCEPT !.signed = TRUE]
  BY <1>1, <1>2, <1>3 DEF UserRow
<1>5. PICK r \in Ending : Writes(r, u) /\ Sound(request[r])
  BY <1>1, <1>4, Changes, Nothing
<1>6. request[r].actor # u
  <2>1. CASE request[r].phase = "removeAdmin"
    BY <1>5, <2>1 DEF Sound, Writes
  <2>2. CASE request[r].phase = "suspendAdmin"
    <3>1. user'[u] = [user[u] EXCEPT !.active = request[r].active]
      BY <1>5, <2>2 DEF Writes
    <3>2. ~request[r].active
      BY <1>1, <1>2, <1>3, <1>5, <2>2, <3>1 DEF UserRow, Sound
    <3> QED
      BY <1>5, <2>2, <3>2 DEF Sound, Writes
  <2> QED
    BY <1>1, <1>5, <2>1, <2>2 DEF Writes, OfTenant, TenantRoles
<1>7. request[r].actor \notin ActiveAdmins
  BY <1>2, <1>5, <1>6 DEF Writes, ActiveAdmins, Admins
<1> QED
  BY <1>5, <1>7

\* For any number of administrators and requests, the last active administrator
\* goes only for a request whose actor had been suspended or deleted meanwhile:
\* nobody may do it to oneself (updateStatus and remove of AdminUsersService).
THEOREM LastAdminGoesByRacesOnly == Spec => LastAdminOnlyWhenOutdated
<1>1. IInv /\ [Next]_vars =>
         (ActiveAdmins # {} /\ ActiveAdmins' = {} =>
             \E r \in Ending : request[r].actor \notin ActiveAdmins)
  BY LastAdminStep
<1> QED
  BY <1>1, Invariance, PTL DEF Spec, LastAdminOnlyWhenOutdated

----------------------------------------------------------------------------
(* Bookings and leaves *)

KeptStep(b, u) ==
    booking[b].mechanic = u /\ booking'[b].mechanic = None =>
       \E r \in Ending : request[r].target = u /\ b \notin request[r].seen

\* A removal deletes the profile, or the account, whose bookings it counted.
LEMMA NothingCounted ==
    ASSUME IInv, NEW r \in Requests, DeleteProfile(r) \/ DeleteAccount(r)
    PROVE  r \in Ending /\ request[r].seen = {} /\ booking' = WithoutMechanic(request[r].target)
<1>1. Sound(request[r]) /\ request[r].phase \in {"remove", "unprofiled"}
  BY DEF IInv, DeleteProfile, DeleteAccount
<1>2. CASE DeleteAccount(r)
  <2>1. HoldersOf(request[r].target) \in SUBSET Requests
    BY DEF HoldersOf
  <2>2. r \in Ending
    BY <1>1, <1>2, <2>1, EndsIt DEF DeleteAccount
  <2> QED
    BY <1>1, <1>2, <2>2 DEF DeleteAccount, Sound, Referenced
<1>3. CASE DeleteProfile(r)
  <2>1. request'[r].phase = "unprofiled"
    <3>1. request[r] \in Request
      BY DEF IInv, StaffConsistent, TypeOK
    <3>2. /\ Forget(ProfileHoldersOf(request[r].target) \ {r})[r] = request[r]
          /\ r \in DOMAIN Forget(ProfileHoldersOf(request[r].target) \ {r})
      BY DEF Forget
    <3> QED
      BY <1>3, <3>1, <3>2 DEF DeleteProfile, Request
  <2> QED
    BY <1>1, <1>3, <2>1 DEF DeleteProfile, Referenced, Ending
<1> QED
  BY <1>2, <1>3

LEMMA KeptStepHolds ==
    ASSUME IInv, [Next]_vars, NEW b \in Bookings, NEW u \in Users PROVE KeptStep(b, u)
<1> SUFFICES ASSUME booking[b].mechanic = u, booking'[b].mechanic = None
             PROVE  \E r \in Ending : request[r].target = u /\ b \notin request[r].seen
  BY DEF KeptStep
<1>1. booking'[b] # booking[b]
  BY Nothing
<1>2. PICK r \in Requests : Write(r)
  <2>1. ~UNCHANGED booking
    BY <1>1
  <2> QED
    BY <2>1, StartsReadOnly DEF Next, SignContract, vars
<1>3. CASE WriteBook(r) \/ WriteAssign(r)
  <2>1. booking' = [booking EXCEPT ![request[r].booking] =
           [mechanic |-> request[r].target, day |-> request[r].first]]
    BY <1>3 DEF WriteBook, WriteAssign
  <2>2. request[r].target \in Users
    BY <1>3, HeldAccount DEF WriteBook, WriteAssign
  <2>3. booking \in [Bookings -> BookingRow]
    BY DEF IInv, StaffConsistent, TypeOK
  <2>4. b = request[r].booking
    BY <1>1, <2>1, <2>3
  <2>5. booking'[b] = [mechanic |-> request[r].target, day |-> request[r].first]
    BY <2>1, <2>3, <2>4
  <2> QED
    BY <2>2, <2>5, Nothing
<1>4. CASE DeleteProfile(r) \/ DeleteAccount(r)
  <2>1. r \in Ending /\ request[r].seen = {} /\ booking' = WithoutMechanic(request[r].target)
    BY <1>4, NothingCounted
  <2>2. request[r].target = u
    BY <1>1, <2>1 DEF WithoutMechanic
  <2> QED
    BY <2>1, <2>2
<1>5. CASE UNCHANGED booking
  BY <1>1, <1>5
<1>6. \/ WriteBook(r) \/ WriteAssign(r) \/ DeleteProfile(r) \/ DeleteAccount(r)
      \/ UNCHANGED booking
  BY <1>2 DEF Write, InsertStaff, WriteUpdate, Deactivate, InsertLeave, WriteCancelLeave,
              InsertAdmin, WriteSetAdmin, DeleteAdmin, Fail
<1> QED
  BY <1>3, <1>4, <1>5, <1>6

\* For any number of bookings and requests, a booking loses its mechanic only to
\* a removal that had counted the bookings before this one was written (remove of
\* StaffService and ON DELETE SET NULL).
THEOREM BookingsKeepTheirMechanic == Spec => BookingKeepsMechanic
<1>1. IInv /\ [Next]_vars => \A b \in Bookings, u \in Users : KeptStep(b, u)
  BY KeptStepHolds
<1>2. Spec => [][\A b \in Bookings, u \in Users : KeptStep(b, u)]_vars
  BY <1>1, Invariance, PTL DEF Spec
<1> QED
  BY <1>2 DEF BookingKeepsMechanic, KeptStep

LeaveStep(l) ==
    leave[l].status = "NONE" /\ leave'[l].status = "APPROVED" =>
       \A k \in LeavesOf(leave'[l].user) :
          (\E d \in Days : Away(leave[k], d) /\ Away(leave'[l], d)) =>
             \E r \in Ending : request[r].phase = "leave" /\ k \notin request[r].seen

BookStep(b) ==
    booking'[b] # booking[b] /\ booking'[b].mechanic # None =>
       \A k \in LeavesOf(booking'[b].mechanic) :
          Away(leave[k], booking'[b].day) =>
             \E r \in Ending : /\ request[r].phase \in {"book", "assign"}
                               /\ k \notin request[r].seen

LEMMA LeaveStepHolds == ASSUME IInv, [Next]_vars, NEW l \in Leaves PROVE LeaveStep(l)
<1> SUFFICES ASSUME leave[l].status = "NONE", leave'[l].status = "APPROVED",
                    NEW k \in LeavesOf(leave'[l].user), NEW d \in Days,
                    Away(leave[k], d), Away(leave'[l], d)
             PROVE  \E r \in Ending : request[r].phase = "leave" /\ k \notin request[r].seen
  BY DEF LeaveStep
<1>1. leave \in [Leaves -> LeaveRow]
  BY DEF IInv, StaffConsistent, TypeOK
<1>2. PICK r \in Requests : Write(r)
  <2>1. ~UNCHANGED leave
    OBVIOUS
  <2> QED
    BY <2>1, StartsReadOnly DEF Next, SignContract, vars
<1>3. PICK m \in Leaves : InsertLeave(r, m)
  <2>1. CASE WriteCancelLeave(r)
    BY <1>1, <2>1 DEF WriteCancelLeave
  <2>2. CASE DeleteAccount(r)
    BY <1>1, <2>2 DEF DeleteAccount, LeaveRow
  <2>3. CASE UNCHANGED leave
    BY <2>3
  <2> QED
    BY <1>2, <2>1, <2>2, <2>3 DEF Write, InsertStaff, WriteUpdate, Deactivate, DeleteProfile,
       WriteBook, WriteAssign, InsertAdmin, WriteSetAdmin, DeleteAdmin, Fail
<1>4. /\ request[r].target \in Users /\ request[r].target # None /\ Sound(request[r])
      /\ Fits(request[r]) /\ request[r].phase = "leave"
  BY <1>3, HeldAccount DEF InsertLeave, Held
<1>5. leave'[l] = [user |-> request[r].target, first |-> request[r].first,
                   last |-> request[r].last, status |-> "APPROVED"]
  BY <1>1, <1>3 DEF InsertLeave
<1>6. r \in Ending
  BY <1>3, <1>4, EndsIt DEF InsertLeave
<1>7. k \notin request[r].seen
  <2>1. SUFFICES ASSUME k \in request[r].seen PROVE FALSE
    OBVIOUS
  <2>2. Clear(k, request[r].target, request[r].first, request[r].last)
    BY <1>4, <2>1 DEF Fits
  <2>3. leave[k] \in LeaveRow /\ request[r].first \in Days /\ request[r].last \in Days
    BY <1>1, <1>4, <2>1 DEF Sound
  <2>4. leave'[l].first = request[r].first /\ leave'[l].last = request[r].last
    BY <1>5
  <2>5. leave[k].first \in Nat /\ leave[k].last \in Nat /\ d \in Nat
    BY <2>3, DaysAssumption DEF LeaveRow
  <2>6. leave[k].first <= d /\ d <= leave[k].last
    BY DEF Away
  <2>7. PICK a \in Nat, z \in Nat : a = request[r].first /\ z = request[r].last
    BY <2>3, DaysAssumption
  <2>8. a <= d /\ d <= z
    BY <2>4, <2>7 DEF Away
  <2> QED
    BY <2>2, <2>5, <2>6, <2>7, <2>8 DEF Clear, Meets
<1> QED
  BY <1>4, <1>6, <1>7

LEMMA BookStepHolds == ASSUME IInv, [Next]_vars, NEW b \in Bookings PROVE BookStep(b)
<1> SUFFICES ASSUME booking'[b] # booking[b], booking'[b].mechanic # None,
                    NEW k \in LeavesOf(booking'[b].mechanic), Away(leave[k], booking'[b].day)
             PROVE  \E r \in Ending : /\ request[r].phase \in {"book", "assign"}
                                      /\ k \notin request[r].seen
  BY DEF BookStep
<1>1. booking \in [Bookings -> BookingRow]
  BY DEF IInv, StaffConsistent, TypeOK
<1>2. PICK r \in Requests : Write(r)
  <2>1. ~UNCHANGED booking
    OBVIOUS
  <2> QED
    BY <2>1, StartsReadOnly DEF Next, SignContract, vars
<1>3. WriteBook(r) \/ WriteAssign(r)
  <2>1. CASE DeleteProfile(r) \/ DeleteAccount(r)
    BY <1>1, <2>1, NothingCounted DEF WithoutMechanic, BookingRow
  <2>2. CASE UNCHANGED booking
    BY <2>2
  <2> QED
    BY <1>2, <2>1, <2>2 DEF Write, InsertStaff, WriteUpdate, Deactivate, InsertLeave,
       WriteCancelLeave, InsertAdmin, WriteSetAdmin, DeleteAdmin, Fail
<1>4. /\ request[r].target # None /\ Fits(request[r]) /\ request[r].phase \in {"book", "assign"}
      /\ Sound(request[r])
  BY <1>3, HeldAccount DEF WriteBook, WriteAssign, Held
<1>5. booking'[b].day = request[r].first
  <2>1. booking' = [booking EXCEPT ![request[r].booking] =
           [mechanic |-> request[r].target, day |-> request[r].first]]
    BY <1>3 DEF WriteBook, WriteAssign
  <2>2. b = request[r].booking
    BY <1>1, <2>1
  <2>3. booking'[b] = [mechanic |-> request[r].target, day |-> request[r].first]
    BY <1>1, <2>1, <2>2
  <2> QED
    BY <2>3
<1>6. r \in Ending
  BY <1>3, <1>4, EndsIt DEF WriteBook, WriteAssign
<1>7. k \notin request[r].seen
  <2>1. SUFFICES ASSUME k \in request[r].seen PROVE FALSE
    OBVIOUS
  <2>2. Clear(k, request[r].target, request[r].first, request[r].first)
    BY <1>4, <2>1 DEF Fits
  <2> QED
    BY <1>5, <2>2 DEF Clear, Meets, Away
<1> QED
  BY <1>4, <1>6, <1>7

\* For any days, leaves and bookings, two leaves of one person overlap, or a
\* mechanic is booked on a day of leave, only when the request had looked before
\* the other was there (createLeave of StaffService, checkMechanicOnLeave).
THEOREM LeavesOverlapByRacesOnly == Spec => LeavesOverlapOnlyWhenOutdated
<1>1. IInv /\ [Next]_vars =>
         /\ \A l \in Leaves : leave[l].status = "NONE" /\ leave'[l].status = "APPROVED" =>
               \A k \in LeavesOf(leave'[l].user) :
                  (\E d \in Days : Away(leave[k], d) /\ Away(leave'[l], d)) =>
                     \E r \in Ending : request[r].phase = "leave" /\ k \notin request[r].seen
         /\ \A b \in Bookings : booking'[b] # booking[b] /\ booking'[b].mechanic # None =>
               \A k \in LeavesOf(booking'[b].mechanic) :
                  Away(leave[k], booking'[b].day) =>
                     \E r \in Ending : /\ request[r].phase \in {"book", "assign"}
                                        /\ k \notin request[r].seen
  BY LeaveStepHolds, BookStepHolds DEF LeaveStep, BookStep
<1> QED
  BY <1>1, Invariance, PTL DEF Spec, LeavesOverlapOnlyWhenOutdated

----------------------------------------------------------------------------
(* Notices: the inductive invariant *)

\* The staff a call tells are those it found when it read them.
Found(x) ==
    x.targets = IF x.to # Null THEN {x.to} ELSE {u \in Staff : x.there[u] \in x.roles} \ {x.actor}

\* A call, the sockets l it was emitted to and the channels q it was queued for.
CallSound(x, l, q) ==
    /\ x.phase \in {"unsent", "targets", "rows", "emit"} => l = Nobody
    /\ x.phase \in {"unsent", "targets", "rows", "emit", "settings"} => q = {}
    /\ x.phase \in {"rows", "emit", "settings", "queue"} => Found(x)
    /\ x.phase = "queue" => q \subseteq x.allowed /\ x.allowed \subseteq Permitted(x.row)
    /\ x.phase \in {"stamp", "answered", "refused"} =>
          x.failed \/ (Found(x) /\ (x.bypassed \/ q = x.allowed))
    /\ x.phase = "refused" => x.failed \/ x.stamp = "threw" \/ x.targets = {}
    /\ x.stamp = "written" => x.phase \in {"answered", "refused"}
    /\ \A u \in Staff : l[u] # Null => u \in x.targets \/ x.there[u] # l[u]

NoticeIInv ==
    /\ NoticeTypeOK
    /\ \A n \in Notices : CallSound(notice[n], live[n], queue[n])

LEMMA NotCalledType == NotCalled \in Notice /\ Nobody \in [Staff -> Role \cup {Null}]
<1>1. Nobody \in [Staff -> Role \cup {Null}]
  BY DEF Nobody
<1>2. NotCalled.phase \in Phase
  BY DEF NotCalled, Phase
<1>3. NotCalled \in Notice
  BY <1>1, <1>2 DEF NotCalled, Notice
<1>4. QED
  BY <1>1, <1>3

LEMMA NoticeInitIInv == NoticeInit => NoticeIInv
<1> SUFFICES ASSUME NoticeInit PROVE NoticeIInv
  OBVIOUS
<1>1. account \in [Staff -> Role \cup {Null}] /\ socket \in [Staff -> Role \cup {Null}]
  BY DEF NoticeInit
<1>2. NoticeTypeOK
  <2>1. enabled \in (SUBSET Channels) \cup {Null} /\ changes \in 0..MaxChanges
    BY ChangesAssumption DEF NoticeInit
  <2>2. inbox \in [Staff -> [Notices -> {"none", "unread", "read"}]]
    BY DEF NoticeInit
  <2>3. live \in [Notices -> [Staff -> Role \cup {Null}]]
    BY NotCalledType DEF NoticeInit
  <2>4. queue \in [Notices -> SUBSET Channels] /\ notice \in [Notices -> Notice]
    BY NotCalledType DEF NoticeInit
  <2>5. QED
    BY <1>1, <2>1, <2>2, <2>3, <2>4 DEF NoticeTypeOK
<1>3. ASSUME NEW n \in Notices PROVE CallSound(notice[n], live[n], queue[n])
  <2>1. notice[n] = NotCalled /\ live[n] = Nobody /\ queue[n] = {}
    BY DEF NoticeInit
  <2>2. /\ NotCalled.phase = "unsent" /\ NotCalled.stamp = "none"
        /\ \A u \in Staff : Nobody[u] = Null
    BY DEF NotCalled, Nobody
  <2>3. CallSound(NotCalled, Nobody, {})
    BY <2>2 DEF CallSound
  <2>4. QED
    BY <2>1, <2>3
<1>4. QED
  BY <1>2, <1>3 DEF NoticeIInv

----------------------------------------------------------------------------
(* Notices: the callers *)

CallRecord == [roles : SUBSET Role, actor : Staff \cup {Null}, wanted : SUBSET Channels,
               to : Staff \cup {Null}, takesId : BOOLEAN]

LEMMA CallOfType ==
    ASSUME NEW roles, NEW actor \in Staff \cup {Null}, NEW wanted \in SUBSET Channels
    PROVE  CallOf(roles, actor, wanted) \in CallRecord
<1>1. Role \cap roles \in SUBSET Role
  OBVIOUS
<1>2. QED
  BY <1>1 DEF CallOf, CallRecord

LEMMA ReachableType ==
    ASSUME NEW contact, NEW chosen
    PROVE  /\ Reachable(contact) \in SUBSET Channels /\ {} \in SUBSET Channels
           /\ Reachable(contact) \cap chosen \in SUBSET Channels
BY DEF Reachable

LEMMA CallType == Calls \subseteq CallRecord
<1>1. ASSUME NEW u \in Staff, NEW contact \in SUBSET Contacts
      PROVE  /\ AppointmentCreated(u, contact) \in CallRecord
             /\ AppointmentRequested(contact) \in CallRecord
             /\ WorkOrderOpened(u, contact) \in CallRecord
             /\ InvoiceIssued(u, contact) \in CallRecord
             /\ ReceiptSent(u, contact) \in CallRecord
  <2>1. AppointmentCreated(u, contact) \in CallRecord
    BY CallOfType, ReachableType, Zenon DEF AppointmentCreated
  <2>2. AppointmentRequested(contact) \in CallRecord
    BY CallOfType, ReachableType, Zenon DEF AppointmentRequested
  <2>3. WorkOrderOpened(u, contact) \in CallRecord
    BY CallOfType, ReachableType, Zenon DEF WorkOrderOpened
  <2>4. InvoiceIssued(u, contact) \in CallRecord
    BY CallOfType, ReachableType, Zenon DEF InvoiceIssued
  <2>5. ReceiptSent(u, contact) \in CallRecord
    BY CallOfType, ReachableType, Zenon DEF ReceiptSent
  <2>6. QED
    BY <2>1, <2>2, <2>3, <2>4, <2>5
<1>2. ASSUME NEW u \in Staff
      PROVE  /\ AppointmentCancelled(u) \in CallRecord /\ StockMoved(u) \in CallRecord
             /\ CreditLimitPassed(u) \in CallRecord /\ PaymentBooked(u) \in CallRecord
  BY CallOfType, ReachableType, Zenon
     DEF AppointmentCancelled, StockMoved, CreditLimitPassed, PaymentBooked
<1>3. ASSUME NEW u \in Staff PROVE ApprovalSent(u) \in CallRecord
  <2>1. Channels \cap {"sms"} \in SUBSET Channels
    OBVIOUS
  <2>2. QED
    BY <2>1, CallOfType, Zenon DEF ApprovalSent
<1>4. ASSUME NEW u \in Staff PROVE Test(u) \in CallRecord
  <2>1. CallOf({}, Null, {}) \in CallRecord
    BY CallOfType, ReachableType, Zenon
  <2>2. QED
    BY <2>1 DEF Test, CallRecord
<1>5. /\ AppointmentApproved \in CallRecord /\ FeedbackGiven \in CallRecord
      /\ StockTaken \in CallRecord
  BY CallOfType, ReachableType, Zenon DEF AppointmentApproved, FeedbackGiven, StockTaken
<1>6. ASSUME NEW u \in Staff, NEW contact \in SUBSET Contacts, NEW channels \in SUBSET Channels,
             NEW b \in BOOLEAN
      PROVE  AppointmentRescheduled(u, contact, channels, b) \in CallRecord
  <2>1. (IF b THEN Reachable(contact) \cap Chosen(channels) ELSE {}) \in SUBSET Channels
    BY ReachableType
  <2>2. QED
    BY <2>1, CallOfType, Zenon DEF AppointmentRescheduled
<1>7. ASSUME NEW u \in Staff, NEW contact \in SUBSET Contacts, NEW channels \in SUBSET Channels
      PROVE  StatusSent(u, contact, channels) \in CallRecord
  <2>1. CallOf(Role, u, Reachable(contact) \cap Chosen(channels)) \in CallRecord
    BY ReachableType, CallOfType, Zenon
  <2>2. QED
    BY <2>1 DEF StatusSent, CallRecord
<1> SUFFICES ASSUME NEW call \in Calls PROVE call \in CallRecord
  OBVIOUS
<1> HIDE DEF CallRecord
<1>8. CASE call \in UNION {{AppointmentCreated(u, contact), AppointmentRequested(contact),
                           WorkOrderOpened(u, contact), InvoiceIssued(u, contact),
                           ReceiptSent(u, contact)} : u \in Staff, contact \in SUBSET Contacts}
  <2>1. PICK u \in Staff, contact \in SUBSET Contacts :
           call \in {AppointmentCreated(u, contact), AppointmentRequested(contact),
                    WorkOrderOpened(u, contact), InvoiceIssued(u, contact),
                    ReceiptSent(u, contact)}
    BY <1>8
  <2>2. QED
    BY <1>1, <2>1, Zenon
<1>9. CASE call \in UNION {{AppointmentCancelled(u), ApprovalSent(u), StockMoved(u),
                           CreditLimitPassed(u), PaymentBooked(u), Test(u)} : u \in Staff}
  <2>1. PICK u \in Staff : call \in {AppointmentCancelled(u), ApprovalSent(u), StockMoved(u),
                                   CreditLimitPassed(u), PaymentBooked(u), Test(u)}
    BY <1>9
  <2>2. QED
    BY <1>2, <1>3, <1>4, <2>1, Zenon
<1>10. CASE call \in {AppointmentApproved, FeedbackGiven, StockTaken}
  BY <1>5, <1>10, Zenon
<1>11. CASE call \in {AppointmentRescheduled(u, contact, channels, b) :
                      u \in Staff, contact \in SUBSET Contacts, channels \in SUBSET Channels,
                      b \in BOOLEAN}
  BY <1>6, <1>11
<1>12. CASE call \in {StatusSent(u, contact, channels) :
                      u \in Staff, contact \in SUBSET Contacts, channels \in SUBSET Channels}
  BY <1>7, <1>12
<1>13. QED
  BY <1>8, <1>9, <1>10, <1>11, <1>12 DEF Calls

----------------------------------------------------------------------------
(* Notices: the steps of a call *)

LEMMA NoticeFields ==
    ASSUME NoticeTypeOK, NEW n \in Notices
    PROVE  /\ notice[n] \in Notice /\ live[n] \in [Staff -> Role \cup {Null}]
           /\ queue[n] \in SUBSET Channels
BY DEF NoticeTypeOK

\* A step of one call.
LEMMA CallStep ==
    ASSUME NoticeIInv, NEW n \in Notices, NEW x \in Notice,
           NEW l \in [Staff -> Role \cup {Null}], NEW q \in SUBSET Channels,
           notice' = [notice EXCEPT ![n] = x], live' = [live EXCEPT ![n] = l],
           queue' = [queue EXCEPT ![n] = q], CallSound(x, l, q),
           inbox' \in [Staff -> [Notices -> {"none", "unread", "read"}]],
           UNCHANGED <<account, socket, enabled, changes>>
    PROVE  NoticeIInv'
<1>1. NoticeTypeOK'
  BY DEF NoticeIInv, NoticeTypeOK
<1>2. \A m \in Notices : /\ notice'[m] = IF m = n THEN x ELSE notice[m]
                         /\ live'[m] = IF m = n THEN l ELSE live[m]
                         /\ queue'[m] = IF m = n THEN q ELSE queue[m]
  BY DEF NoticeIInv, NoticeTypeOK
<1>3. ASSUME NEW m \in Notices PROVE CallSound(notice[m], live[m], queue[m])'
  <2>1. CASE m = n
    <3>1. notice'[m] = x /\ live'[m] = l /\ queue'[m] = q
      BY <1>2, <2>1
    <3>2. CallSound(notice'[m], live'[m], queue'[m])
      BY <3>1
    <3>3. QED
      BY <3>2 DEF CallSound, Found, Permitted, Nobody
  <2>2. CASE m # n
    <3>1. notice'[m] = notice[m] /\ live'[m] = live[m] /\ queue'[m] = queue[m]
      BY <1>2, <2>2
    <3>2. CallSound(notice'[m], live'[m], queue'[m])
      BY <3>1 DEF NoticeIInv
    <3>3. QED
      BY <3>2 DEF CallSound, Found, Permitted, Nobody
  <2>3. QED
    BY <2>1, <2>2
<1>4. QED
  BY <1>1, <1>3 DEF NoticeIInv

\* A step that leaves sockets, jobs and rows alone.
LEMMA QuietStep ==
    ASSUME NoticeIInv, NEW n \in Notices, NEW x \in Notice, notice' = [notice EXCEPT ![n] = x],
           CallSound(x, live[n], queue[n]),
           UNCHANGED <<account, socket, enabled, inbox, live, queue, changes>>
    PROVE  NoticeIInv'
<1>1. live' = [live EXCEPT ![n] = live[n]] /\ queue' = [queue EXCEPT ![n] = queue[n]]
  BY DEF NoticeIInv, NoticeTypeOK
<1>2. inbox' \in [Staff -> [Notices -> {"none", "unread", "read"}]]
  BY DEF NoticeIInv, NoticeTypeOK
<1>3. QED
  BY <1>1, <1>2, CallStep, NoticeFields DEF NoticeIInv

LEMMA StartCallStep ==
    ASSUME NoticeIInv, NEW n \in Notices, NEW call \in Calls, StartCall(n, call)
    PROVE  NoticeIInv'
<1> DEFINE x == [NotCalled EXCEPT !.phase = "targets", !.actor = call.actor, !.roles = call.roles,
                                  !.to = call.to, !.wanted = call.wanted, !.takesId = call.takesId]
<1>1. /\ notice[n].phase = "unsent" /\ notice' = [notice EXCEPT ![n] = x]
      /\ UNCHANGED <<account, socket, enabled, inbox, live, queue, changes>>
  BY DEF StartCall, At
<1>2. call \in CallRecord
  BY CallType
<1>3. x \in Notice
  <2>1. /\ call.actor \in Staff \cup {Null} /\ call.roles \in SUBSET Role
        /\ call.to \in Staff \cup {Null} /\ call.wanted \in SUBSET Channels
        /\ call.takesId \in BOOLEAN
    BY <1>2 DEF CallRecord
  <2>2. "targets" \in Phase
    BY DEF Phase
  <2>3. QED
    BY <2>1, <2>2, NotCalledType DEF Notice
<1>4. x.phase = "targets" /\ x.stamp = "none"
  BY DEF NotCalled
<1>5. CallSound(notice[n], live[n], queue[n])
  BY DEF NoticeIInv
<1>6. live[n] = Nobody /\ queue[n] = {} /\ \A u \in Staff : Nobody[u] = Null
  BY <1>1, <1>5 DEF CallSound, Nobody
<1> HIDE DEF x
<1>7. CallSound(x, live[n], queue[n])
  BY <1>4, <1>6 DEF CallSound
<1>8. QED
  BY <1>1, <1>3, <1>7, QuietStep

LEMMA ReadTargetsStep ==
    ASSUME NoticeIInv, NEW n \in Notices, ReadTargets(n)
    PROVE  NoticeIInv'
<1> DEFINE x == [notice[n] EXCEPT !.phase = "rows", !.targets = Targets(n), !.there = account]
<1>1. /\ notice[n].phase = "targets" /\ notice' = [notice EXCEPT ![n] = x]
      /\ UNCHANGED <<account, socket, enabled, inbox, live, queue, changes>>
  BY DEF ReadTargets, At
<1>2. notice[n] \in Notice /\ account \in [Staff -> Role \cup {Null}]
  BY DEF NoticeIInv, NoticeTypeOK
<1>3. Targets(n) \in SUBSET Staff
  BY <1>2 DEF Targets, Notice
<1>4. x \in Notice
  BY <1>2, <1>3 DEF Notice, Phase
<1>5. /\ x.phase = "rows" /\ x.targets = Targets(n) /\ x.there = account /\ x.to = notice[n].to
      /\ x.roles = notice[n].roles /\ x.actor = notice[n].actor /\ x.stamp = notice[n].stamp
  BY <1>2 DEF Notice
<1>6. CallSound(notice[n], live[n], queue[n])
  BY DEF NoticeIInv
<1>7. live[n] = Nobody /\ queue[n] = {} /\ \A u \in Staff : Nobody[u] = Null
  BY <1>1, <1>6 DEF CallSound, Nobody
<1> HIDE DEF x
<1>8. Found(x)
  BY <1>5 DEF Found, Targets
<1>9. CallSound(x, live[n], queue[n])
  BY <1>1, <1>5, <1>6, <1>7, <1>8 DEF CallSound
<1>10. QED
  BY <1>1, <1>4, <1>9, QuietStep

LEMMA InsertRowsStep ==
    ASSUME NoticeIInv, NEW n \in Notices, InsertRows(n)
    PROVE  NoticeIInv'
<1> DEFINE x == [notice[n] EXCEPT !.phase = "emit"]
<1>1. /\ notice[n].phase = "rows" /\ notice' = [notice EXCEPT ![n] = x]
      /\ UNCHANGED <<account, socket, enabled, live, queue, changes>>
  BY DEF InsertRows, At
<1>2. inbox' \in [Staff -> [Notices -> {"none", "unread", "read"}]]
  BY DEF InsertRows, NoticeIInv, NoticeTypeOK
<1>3. notice[n] \in Notice
  BY NoticeFields DEF NoticeIInv
<1>4. /\ x \in Notice /\ x.phase = "emit" /\ x.targets = notice[n].targets
      /\ x.there = notice[n].there /\ x.to = notice[n].to /\ x.roles = notice[n].roles
      /\ x.actor = notice[n].actor /\ x.stamp = notice[n].stamp
  BY <1>3 DEF Notice, Phase
<1>5. CallSound(notice[n], live[n], queue[n])
  BY DEF NoticeIInv
<1> HIDE DEF x
<1>6. CallSound(x, live[n], queue[n])
  BY <1>1, <1>4, <1>5 DEF CallSound, Found
<1>7. live' = [live EXCEPT ![n] = live[n]] /\ queue' = [queue EXCEPT ![n] = queue[n]]
  BY <1>1 DEF NoticeIInv, NoticeTypeOK
<1>8. QED
  BY <1>1, <1>2, <1>4, <1>6, <1>7, CallStep, NoticeFields DEF NoticeIInv

\* Who hears the event without a row had another role when the targets were read.
LEMMA EmitStep ==
    ASSUME NoticeIInv, NEW n \in Notices, Emit(n)
    PROVE  NoticeIInv'
<1> DEFINE x == [notice[n] EXCEPT !.phase = "settings"]
           l == [u \in Staff |-> IF u \in Listeners(n) THEN socket[u] ELSE Null]
<1>1. /\ notice[n].phase = "emit" /\ notice' = [notice EXCEPT ![n] = x]
      /\ live' = [live EXCEPT ![n] = l]
      /\ UNCHANGED <<account, socket, enabled, inbox, queue, changes>>
  BY DEF Emit, At
<1>2. notice[n] \in Notice /\ socket \in [Staff -> Role \cup {Null}]
  BY DEF NoticeIInv, NoticeTypeOK
<1>3. /\ x \in Notice /\ x.phase = "settings" /\ x.targets = notice[n].targets
      /\ x.there = notice[n].there /\ x.to = notice[n].to /\ x.roles = notice[n].roles
      /\ x.actor = notice[n].actor /\ x.stamp = notice[n].stamp
  BY <1>2 DEF Notice, Phase
<1>4. l \in [Staff -> Role \cup {Null}]
  BY <1>2
<1>5. CallSound(notice[n], live[n], queue[n])
  BY DEF NoticeIInv
<1>6. Found(notice[n]) /\ queue[n] = {}
  BY <1>1, <1>5 DEF CallSound
<1>7. ASSUME NEW u \in Staff, l[u] # Null
      PROVE  u \in notice[n].targets \/ notice[n].there[u] # l[u]
  <2>1. u \in Listeners(n) /\ l[u] = socket[u]
    BY <1>7
  <2>2. CASE notice[n].to # Null
    BY <1>6, <2>1, <2>2 DEF Found, Listeners
  <2>3. CASE notice[n].to = Null
    <3>1. socket[u] \in notice[n].roles /\ u # notice[n].actor
      BY <2>1, <2>3 DEF Listeners
    <3>2. notice[n].there[u] = socket[u] => u \in notice[n].targets
      BY <1>6, <2>3, <3>1 DEF Found
    <3>3. QED
      BY <2>1, <3>2
  <2>4. QED
    BY <2>2, <2>3
<1> HIDE DEF x, l
<1>8. Found(x)
  BY <1>3, <1>6 DEF Found
<1>9. CallSound(x, l, queue[n])
  BY <1>1, <1>3, <1>5, <1>6, <1>7, <1>8 DEF CallSound
<1>10. /\ queue' = [queue EXCEPT ![n] = queue[n]]
       /\ inbox' \in [Staff -> [Notices -> {"none", "unread", "read"}]]
  BY <1>1 DEF NoticeIInv, NoticeTypeOK
<1>11. QED
  BY <1>1, <1>3, <1>4, <1>9, <1>10, CallStep, NoticeFields DEF NoticeIInv

LEMMA ReadSettingsStep ==
    ASSUME NoticeIInv, NEW n \in Notices, ReadSettings(n)
    PROVE  NoticeIInv'
<1> DEFINE Row(sure) == IF sure THEN enabled ELSE Null
           Allowed(sure) == notice[n].wanted \cap Permitted(Row(sure))
<1>1. /\ notice[n].phase = "settings"
      /\ UNCHANGED <<account, socket, enabled, inbox, live, queue, changes>>
      /\ \E sure \in BOOLEAN :
            notice' = [notice EXCEPT ![n].phase = "queue", ![n].sure = sure, ![n].row = Row(sure),
                                     ![n].allowed = Allowed(sure), ![n].wanted = {}]
  BY Zenon DEF ReadSettings, At
<1>2. PICK sure \in BOOLEAN :
         notice' = [notice EXCEPT ![n].phase = "queue", ![n].sure = sure, ![n].row = Row(sure),
                                  ![n].allowed = Allowed(sure), ![n].wanted = {}]
  BY <1>1, Zenon
<1> DEFINE row == Row(sure)
           allowed == Allowed(sure)
           x == [notice[n] EXCEPT !.phase = "queue", !.sure = sure, !.row = row,
                                  !.allowed = allowed, !.wanted = {}]
<1>3. notice[n] \in Notice /\ enabled \in (SUBSET Channels) \cup {Null}
  BY DEF NoticeIInv, NoticeTypeOK
<1>4. row \in (SUBSET Channels) \cup {Null}
  BY <1>3
<1>5. allowed \in SUBSET Channels /\ allowed \subseteq Permitted(row)
  BY <1>3 DEF Notice
<1>6. row = Row(sure) /\ allowed = Allowed(sure)
  OBVIOUS
<1> HIDE DEF row, allowed, Row, Allowed
<1>7. notice' = [notice EXCEPT ![n] = x]
  BY <1>2, <1>6, Zenon
<1>8. x \in Notice
  BY <1>3, <1>4, <1>5 DEF Notice, Phase
<1>9. /\ x.phase = "queue" /\ x.targets = notice[n].targets
      /\ x.there = notice[n].there /\ x.to = notice[n].to /\ x.roles = notice[n].roles
      /\ x.actor = notice[n].actor /\ x.row = row /\ x.allowed = allowed
      /\ x.stamp = notice[n].stamp
  BY <1>3 DEF Notice
<1>10. CallSound(notice[n], live[n], queue[n])
  BY DEF NoticeIInv
<1> HIDE DEF x
<1>11. CallSound(x, live[n], queue[n])
  BY <1>1, <1>5, <1>9, <1>10 DEF CallSound, Found
<1>12. QED
  BY <1>1, <1>7, <1>8, <1>11, QuietStep

LEMMA EnqueueStep ==
    ASSUME NoticeIInv, NEW n \in Notices, Enqueue(n)
    PROVE  NoticeIInv'
<1>1. PICK c \in Waiting(n) : queue' = [queue EXCEPT ![n] = @ \cup {c}]
  BY DEF Enqueue
<1>2. /\ notice[n].phase = "queue"
      /\ UNCHANGED <<account, socket, enabled, inbox, live, notice, changes>>
  BY DEF Enqueue, At
<1> DEFINE q == queue[n] \cup {c}
<1>3. queue' = [queue EXCEPT ![n] = q]
  BY <1>1
<1>4. notice[n] \in Notice /\ queue[n] \in SUBSET Channels
  BY NoticeFields DEF NoticeIInv
<1>5. c \in notice[n].allowed
  BY DEF Waiting
<1>6. q \in SUBSET Channels
  BY <1>4, <1>5 DEF Notice
<1>7. CallSound(notice[n], live[n], queue[n])
  BY DEF NoticeIInv
<1>8. CallSound(notice[n], live[n], q)
  BY <1>2, <1>5, <1>7 DEF CallSound
<1>9. /\ notice' = [notice EXCEPT ![n] = notice[n]] /\ live' = [live EXCEPT ![n] = live[n]]
      /\ inbox' \in [Staff -> [Notices -> {"none", "unread", "read"}]]
  BY <1>2 DEF NoticeIInv, NoticeTypeOK
<1> HIDE DEF q
<1>10. live[n] \in [Staff -> Role \cup {Null}]
  BY NoticeFields DEF NoticeIInv
<1>11. QED
  BY <1>2, <1>3, <1>4, <1>6, <1>8, <1>9, <1>10, CallStep, Zenon

\* What a call that goes on without its settings keeps.
LEMMA Left ==
    ASSUME NoticeTypeOK, NEW n \in Notices, NEW p \in Phase
    PROVE  \E x \in Notice :
              /\ LeaveTo(n, p) = [notice EXCEPT ![n] = x]
              /\ x.phase = p /\ x.targets = notice[n].targets /\ x.there = notice[n].there
              /\ x.to = notice[n].to /\ x.roles = notice[n].roles /\ x.actor = notice[n].actor
              /\ x.allowed = notice[n].allowed /\ x.failed = notice[n].failed
              /\ x.stamp = notice[n].stamp
<1> DEFINE x == [notice[n] EXCEPT !.phase = p, !.wanted = {}, !.row = Null, !.sure = FALSE]
<1>1. notice[n] \in Notice
  BY NoticeFields
<1>2. x \in Notice
  BY <1>1 DEF Notice
<1>3. /\ x.phase = p /\ x.targets = notice[n].targets /\ x.there = notice[n].there
      /\ x.to = notice[n].to /\ x.roles = notice[n].roles /\ x.actor = notice[n].actor
      /\ x.allowed = notice[n].allowed /\ x.failed = notice[n].failed
      /\ x.stamp = notice[n].stamp
  BY <1>1 DEF Notice
<1>4. LeaveTo(n, p) = [notice EXCEPT ![n] = x]
  BY DEF LeaveTo
<1> HIDE DEF x
<1>5. QED
  BY <1>2, <1>3, <1>4

LEMMA ReturnStep ==
    ASSUME NoticeIInv, NEW n \in Notices, Return(n)
    PROVE  NoticeIInv'
<1>1. /\ notice[n].phase = "queue" /\ Waiting(n) = {} /\ notice' = LeaveTo(n, "stamp")
      /\ UNCHANGED <<account, socket, enabled, inbox, live, queue, changes>>
  BY DEF Return, At
<1>2. "stamp" \in Phase /\ NoticeTypeOK
  BY DEF Phase, NoticeIInv
<1>3. PICK x \in Notice :
              /\ LeaveTo(n, "stamp") = [notice EXCEPT ![n] = x]
              /\ x.phase = "stamp" /\ x.targets = notice[n].targets /\ x.there = notice[n].there
              /\ x.to = notice[n].to /\ x.roles = notice[n].roles /\ x.actor = notice[n].actor
              /\ x.allowed = notice[n].allowed /\ x.failed = notice[n].failed
              /\ x.stamp = notice[n].stamp
  BY <1>2, Left
<1>4. CallSound(notice[n], live[n], queue[n])
  BY DEF NoticeIInv
<1>5. queue[n] = notice[n].allowed
  BY <1>1, <1>4 DEF CallSound, Waiting
<1>6. CallSound(x, live[n], queue[n])
  BY <1>1, <1>3, <1>4, <1>5 DEF CallSound, Found
<1>7. QED
  BY <1>1, <1>3, <1>6, QuietStep

LEMMA BypassStep ==
    ASSUME NoticeIInv, NEW n \in Notices, Bypass(n)
    PROVE  NoticeIInv'
<1>1. /\ notice[n].phase = "queue"
      /\ notice' = [LeaveTo(n, "stamp") EXCEPT ![n].bypassed = TRUE]
      /\ UNCHANGED <<account, socket, enabled, inbox, live, queue, changes>>
  BY DEF Bypass, At
<1>2. "stamp" \in Phase /\ NoticeTypeOK
  BY DEF Phase, NoticeIInv
<1>3. PICK x \in Notice :
              /\ LeaveTo(n, "stamp") = [notice EXCEPT ![n] = x]
              /\ x.phase = "stamp" /\ x.targets = notice[n].targets /\ x.there = notice[n].there
              /\ x.to = notice[n].to /\ x.roles = notice[n].roles /\ x.actor = notice[n].actor
              /\ x.stamp = notice[n].stamp
  BY <1>2, Left
<1> DEFINE y == [x EXCEPT !.bypassed = TRUE]
<1>4. notice' = [notice EXCEPT ![n] = y]
  <2>1. LeaveTo(n, "stamp")[n] = x
    BY <1>2, <1>3 DEF NoticeTypeOK
  <2>2. notice' = [LeaveTo(n, "stamp") EXCEPT ![n] = y]
    BY <1>1, <2>1
  <2> HIDE DEF y
  <2>3. QED
    BY <1>3, <2>2
<1>5. /\ y \in Notice /\ y.phase = "stamp" /\ y.bypassed = TRUE /\ y.targets = notice[n].targets
      /\ y.there = notice[n].there /\ y.stamp = notice[n].stamp /\ y.to = notice[n].to
      /\ y.roles = notice[n].roles /\ y.actor = notice[n].actor
  BY <1>3 DEF Notice
<1>6. CallSound(notice[n], live[n], queue[n])
  BY DEF NoticeIInv
<1> HIDE DEF y
<1>7. CallSound(y, live[n], queue[n])
  BY <1>1, <1>5, <1>6 DEF CallSound, Found
<1>8. QED
  BY <1>1, <1>4, <1>5, <1>7, QuietStep

LEMMA SwallowStep ==
    ASSUME NoticeIInv, NEW n \in Notices, Swallow(n)
    PROVE  NoticeIInv'
<1>1. /\ notice' = [LeaveTo(n, "stamp") EXCEPT ![n].failed = TRUE]
      /\ notice[n].phase \in {"targets", "rows", "queue"}
      /\ UNCHANGED <<account, socket, enabled, inbox, live, queue, changes>>
  BY DEF Swallow, At
<1>2. "stamp" \in Phase /\ NoticeTypeOK
  BY DEF Phase, NoticeIInv
<1>3. PICK x \in Notice :
              /\ LeaveTo(n, "stamp") = [notice EXCEPT ![n] = x]
              /\ x.phase = "stamp" /\ x.targets = notice[n].targets /\ x.there = notice[n].there
              /\ x.stamp = notice[n].stamp
  BY <1>2, Left
<1> DEFINE y == [x EXCEPT !.failed = TRUE]
<1>4. notice' = [notice EXCEPT ![n] = y]
  <2>1. LeaveTo(n, "stamp")[n] = x
    BY <1>2, <1>3 DEF NoticeTypeOK
  <2>2. notice' = [LeaveTo(n, "stamp") EXCEPT ![n] = y]
    BY <1>1, <2>1
  <2> HIDE DEF y
  <2>3. QED
    BY <1>3, <2>2
<1>5. /\ y \in Notice /\ y.phase = "stamp" /\ y.failed = TRUE /\ y.targets = notice[n].targets
      /\ y.there = notice[n].there /\ y.stamp = notice[n].stamp
  BY <1>3 DEF Notice
<1>6. CallSound(notice[n], live[n], queue[n])
  BY DEF NoticeIInv
<1> HIDE DEF y
<1>7. CallSound(y, live[n], queue[n])
  BY <1>1, <1>5, <1>6 DEF CallSound
<1>8. QED
  BY <1>1, <1>4, <1>5, <1>7, QuietStep

LEMMA AnswerStep ==
    ASSUME NoticeIInv, NEW n \in Notices, Answer(n)
    PROVE  NoticeIInv'
<1> DEFINE p == IF Answered(n) THEN "answered" ELSE "refused"
           w == IF notice[n].takesId THEN "written" ELSE "none"
           x == [notice[n] EXCEPT !.stamp = w, !.phase = p]
<1>1. /\ notice[n].phase = "stamp" /\ notice' = [notice EXCEPT ![n] = x]
      /\ UNCHANGED <<account, socket, enabled, inbox, live, queue, changes>>
  BY DEF Answer, At
<1>2. notice[n] \in Notice /\ w \in {"none", "written"}
  BY NoticeFields DEF NoticeIInv
<1>3. p \in {"answered", "refused"} /\ (p = "refused" => notice[n].failed \/ notice[n].targets = {})
  BY DEF Answered
<1> HIDE DEF p, w
<1>4. x \in Notice
  BY <1>2, <1>3 DEF Notice, Phase
<1>5. /\ x.phase = p /\ x.targets = notice[n].targets /\ x.there = notice[n].there
      /\ x.to = notice[n].to /\ x.roles = notice[n].roles /\ x.actor = notice[n].actor
      /\ x.allowed = notice[n].allowed /\ x.failed = notice[n].failed
      /\ x.bypassed = notice[n].bypassed
  BY <1>2 DEF Notice
<1>6. CallSound(notice[n], live[n], queue[n])
  BY DEF NoticeIInv
<1> HIDE DEF x
<1>7. CallSound(x, live[n], queue[n])
  BY <1>1, <1>3, <1>5, <1>6 DEF CallSound, Found
<1>8. QED
  BY <1>1, <1>4, <1>7, QuietStep

LEMMA StampFailsStep ==
    ASSUME NoticeIInv, NEW n \in Notices, StampFails(n)
    PROVE  NoticeIInv'
<1> DEFINE x == [notice[n] EXCEPT !.stamp = "threw", !.phase = "refused"]
<1>1. /\ notice[n].phase = "stamp" /\ notice' = [notice EXCEPT ![n] = x]
      /\ UNCHANGED <<account, socket, enabled, inbox, live, queue, changes>>
  BY DEF StampFails, At
<1>2. notice[n] \in Notice
  BY NoticeFields DEF NoticeIInv
<1>3. x \in Notice
  BY <1>2 DEF Notice, Phase
<1>4. /\ x.phase = "refused" /\ x.stamp = "threw"
      /\ x.targets = notice[n].targets /\ x.there = notice[n].there
      /\ x.to = notice[n].to /\ x.roles = notice[n].roles /\ x.actor = notice[n].actor
      /\ x.allowed = notice[n].allowed /\ x.failed = notice[n].failed
      /\ x.bypassed = notice[n].bypassed
  BY <1>2 DEF Notice
<1>5. CallSound(notice[n], live[n], queue[n])
  BY DEF NoticeIInv
<1> HIDE DEF x
<1>6. CallSound(x, live[n], queue[n])
  BY <1>1, <1>4, <1>5 DEF CallSound, Found
<1>7. QED
  BY <1>1, <1>3, <1>6, QuietStep

LEMMA DieStep ==
    ASSUME NoticeIInv, NEW n \in Notices, Die(n)
    PROVE  NoticeIInv'
<1>1. /\ notice' = LeaveTo(n, "lost")
      /\ notice[n].phase \notin {"answered", "refused"}
      /\ UNCHANGED <<account, socket, enabled, inbox, live, queue, changes>>
  BY DEF Die
<1>2. "lost" \in Phase /\ NoticeTypeOK
  BY DEF Phase, NoticeIInv
<1>3. PICK x \in Notice :
              /\ LeaveTo(n, "lost") = [notice EXCEPT ![n] = x]
              /\ x.phase = "lost" /\ x.targets = notice[n].targets /\ x.there = notice[n].there
              /\ x.stamp = notice[n].stamp
  BY <1>2, Left
<1>4. CallSound(notice[n], live[n], queue[n])
  BY DEF NoticeIInv
<1>5. CallSound(x, live[n], queue[n])
  BY <1>1, <1>3, <1>4 DEF CallSound
<1>6. QED
  BY <1>1, <1>3, <1>5, QuietStep

LEMMA CallKeepsNotices ==
    ASSUME NoticeIInv, NEW n \in Notices, Call(n)
    PROVE  NoticeIInv'
BY StartCallStep, ReadTargetsStep, InsertRowsStep, EmitStep, ReadSettingsStep, EnqueueStep,
   ReturnStep, BypassStep, SwallowStep, AnswerStep, StampFailsStep, DieStep, Zenon DEF Call

----------------------------------------------------------------------------
(* Notices: the staff and the theorems *)

\* No call sees more of the staff, the sockets and the settings than it has read.
LEMMA StaffKeepsNotices ==
    ASSUME NoticeIInv, UNCHANGED <<live, queue, notice>>,
           account' \in [Staff -> Role \cup {Null}], socket' \in [Staff -> Role \cup {Null}],
           enabled' \in (SUBSET Channels) \cup {Null}, changes' \in 0..MaxChanges,
           inbox' \in [Staff -> [Notices -> {"none", "unread", "read"}]]
    PROVE  NoticeIInv'
<1>1. NoticeTypeOK'
  BY DEF NoticeIInv, NoticeTypeOK
<1>2. ASSUME NEW n \in Notices PROVE CallSound(notice[n], live[n], queue[n])'
  <2>1. CallSound(notice[n], live[n], queue[n])
    BY DEF NoticeIInv
  <2>2. QED
    BY <2>1 DEF CallSound, Found, Permitted, Nobody
<1>3. QED
  BY <1>1, <1>2 DEF NoticeIInv

LEMMA CountType ==
    ASSUME NoticeTypeOK, Count
    PROVE  changes' \in 0..MaxChanges
BY ChangesAssumption DEF Count, NoticeTypeOK

LEMMA MemberStep ==
    ASSUME NoticeIInv, NEW u \in Staff, Member(u)
    PROVE  NoticeIInv'
<1> USE DEF NoticeIInv
<1>1. ASSUME NEW n \in Notices, MarkAsRead(u, n) PROVE NoticeIInv'
  <2>1. inbox' \in [Staff -> [Notices -> {"none", "unread", "read"}]]
    BY <1>1 DEF MarkAsRead, NoticeTypeOK
  <2>2. QED
    BY <1>1, <2>1, StaffKeepsNotices DEF MarkAsRead, NoticeTypeOK
<1>2. CASE MarkAllAsRead(u)
  <2>1. inbox' \in [Staff -> [Notices -> {"none", "unread", "read"}]]
    BY <1>2 DEF MarkAllAsRead, NoticeTypeOK
  <2>2. QED
    BY <1>2, <2>1, StaffKeepsNotices DEF MarkAllAsRead, NoticeTypeOK
<1>3. ASSUME NEW n \in Notices, Remove(u, n) PROVE NoticeIInv'
  <2>1. inbox' \in [Staff -> [Notices -> {"none", "unread", "read"}]]
    BY <1>3 DEF Remove, NoticeTypeOK
  <2>2. QED
    BY <1>3, <2>1, StaffKeepsNotices DEF Remove, NoticeTypeOK
<1>4. CASE Connect(u)
  <2>1. socket' \in [Staff -> Role \cup {Null}]
    BY <1>4 DEF Connect, NoticeTypeOK
  <2>2. QED
    BY <1>4, <2>1, CountType, StaffKeepsNotices DEF Connect, NoticeTypeOK
<1>5. CASE Disconnect(u)
  <2>1. socket' \in [Staff -> Role \cup {Null}]
    BY <1>5 DEF Disconnect, NoticeTypeOK
  <2>2. QED
    BY <1>5, <2>1, StaffKeepsNotices DEF Disconnect, NoticeTypeOK
<1>6. ASSUME NEW r \in Role \cup {Null}, SetAccount(u, r) PROVE NoticeIInv'
  <2>1. account' \in [Staff -> Role \cup {Null}]
    BY <1>6 DEF SetAccount, NoticeTypeOK
  <2>2. QED
    BY <1>6, <2>1, CountType, StaffKeepsNotices DEF SetAccount, NoticeTypeOK
<1>7. QED
  BY <1>1, <1>2, <1>3, <1>4, <1>5, <1>6 DEF Member

LEMMA NoticeIInvStep == NoticeIInv /\ [NoticeNext]_noticeVars => NoticeIInv'
<1> SUFFICES ASSUME NoticeIInv, [NoticeNext]_noticeVars PROVE NoticeIInv'
  OBVIOUS
<1> USE DEF NoticeIInv
<1>1. ASSUME NEW n \in Notices, Call(n) PROVE NoticeIInv'
  BY <1>1, CallKeepsNotices
<1>2. ASSUME NEW u \in Staff, Member(u) PROVE NoticeIInv'
  BY <1>2, MemberStep
<1>3. CASE ViewSettings
  <2>1. enabled' \in (SUBSET Channels) \cup {Null}
    BY <1>3 DEF ViewSettings, Defaults
  <2>2. QED
    BY <1>3, <2>1, CountType, StaffKeepsNotices DEF ViewSettings, NoticeTypeOK
<1>4. ASSUME NEW row \in SUBSET Channels, UpdateSettings(row) PROVE NoticeIInv'
  BY <1>4, CountType, StaffKeepsNotices DEF UpdateSettings, NoticeTypeOK
<1>5. CASE UNCHANGED noticeVars
  BY <1>5, StaffKeepsNotices DEF noticeVars, NoticeTypeOK
<1>6. QED
  BY <1>1, <1>2, <1>3, <1>4, <1>5 DEF NoticeNext

LEMMA NoticeInvariance == NoticeSpec => []NoticeIInv
BY NoticeInitIInv, NoticeIInvStep, PTL DEF NoticeSpec

\* Whoever hears of an event without a row for it has a socket of another role than
\* the account had when the staff were read; an answer is an error only if nobody was
\* to be told, an error was swallowed or lastNotifiedAt could not be written; and one
\* that is not has queued every permitted message, but for an error swallowed and a
\* process without a queue: for any staff, roles, channels and calls.
THEOREM NoticesAreConsistent == NoticeSpec => []NoticesConsistent
<1>1. NoticeIInv => NoticesConsistent
  <2> SUFFICES ASSUME NoticeIInv PROVE NoticesConsistent
    OBVIOUS
  <2>1. \A n \in Notices : CallSound(notice[n], live[n], queue[n])
    BY DEF NoticeIInv
  <2>2. HeardHaveRows
    BY <2>1 DEF CallSound, HeardHaveRows
  <2>3. ASSUME NEW n \in Notices, notice[n].phase = "refused"
        PROVE  notice[n].failed \/ notice[n].stamp = "threw" \/ Told(n) = {}
    BY <2>1, <2>3 DEF CallSound, Found, Told
  <2>4. ASSUME NEW n \in Notices, notice[n].phase = "answered" \/ notice[n].stamp = "written"
        PROVE  notice[n].failed \/ notice[n].bypassed \/ queue[n] = notice[n].allowed
    BY <2>1, <2>4 DEF CallSound
  <2>5. AnswerMatchesQueue
    BY <2>3, <2>4 DEF AnswerMatchesQueue
  <2>6. QED
    BY <2>2, <2>5 DEF NoticeIInv, NoticesConsistent
<1>2. QED
  BY <1>1, NoticeInvariance, PTL

\* Only a call in its last phase hands a job to the queue, over a channel that the
\* settings it read permit.
LEMMA QueuedIsPermitted ==
    ASSUME NoticeIInv, [NoticeNext]_noticeVars, NEW n \in Notices, NEW c \in queue'[n] \ queue[n]
    PROVE  c \in Permitted(notice[n].row)
<1>1. queue \in [Notices -> SUBSET Channels]
  BY DEF NoticeIInv, NoticeTypeOK
<1>2. PICK m \in Notices : Enqueue(m)
  <2>1. queue' # queue
    OBVIOUS
  <2>2. ASSUME NEW m \in Notices, Call(m) PROVE queue' = queue \/ Enqueue(m)
    BY <2>2, Zenon DEF Call, StartCall, ReadTargets, InsertRows, Emit, ReadSettings, Return, Bypass,
                Swallow, Answer, StampFails, Die
  <2>3. ASSUME NEW u \in Staff, Member(u) PROVE queue' = queue
    BY <2>3 DEF Member, MarkAsRead, MarkAllAsRead, Remove, Connect, Disconnect, SetAccount
  <2>4. QED
    BY <2>1, <2>2, <2>3 DEF NoticeNext, noticeVars, ViewSettings, UpdateSettings
<1>3. PICK d \in Waiting(m) : queue' = [queue EXCEPT ![m] = @ \cup {d}]
  BY <1>2 DEF Enqueue
<1>4. n = m /\ c = d
  BY <1>1, <1>3
<1>5. notice[n].phase = "queue"
  BY <1>2, <1>4 DEF Enqueue, At
<1>6. CallSound(notice[n], live[n], queue[n])
  BY DEF NoticeIInv
<1>7. QED
  BY <1>3, <1>4, <1>5, <1>6 DEF CallSound, Waiting

\* A channel that is switched off is used only on settings that are outdated or were
\* not read, whoever changes them and whenever.
THEOREM SwitchedOffIsOutdated == NoticeSpec => SwitchedOffOnlyWhenOutdated
<1>1. ASSUME NoticeIInv, [NoticeNext]_noticeVars, NEW n \in Notices,
             NEW c \in queue'[n] \ queue[n], enabled # Null, c \notin enabled
      PROVE  ~notice[n].sure \/ notice[n].row # enabled
  <2>1. c \in Permitted(notice[n].row)
    BY <1>1, QueuedIsPermitted
  <2>2. QED
    BY <1>1, <2>1 DEF Permitted
<1>2. NoticeIInv /\ [NoticeNext]_noticeVars =>
        [\A n \in Notices : \A c \in queue'[n] \ queue[n] :
            enabled # Null /\ c \notin enabled =>
               ~notice[n].sure \/ notice[n].row # enabled]_noticeVars
  BY <1>1
<1>3. QED
  BY <1>2, NoticeInvariance, PTL DEF NoticeSpec, SwitchedOffOnlyWhenOutdated
==============================================================================
