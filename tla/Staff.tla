-------------------------------- MODULE Staff --------------------------------
(***************************************************************************)
(* Accounts and working time: the staff of a tenant, their mechanic         *)
(* profiles, their leaves and the bookings that name a mechanic, and the    *)
(* accounts of the platform's administrators.                               *)
(*                                                                          *)
(* A handler reads and checks, and writes in a later statement or           *)
(* transaction: one request is a reading step and one or more writing       *)
(* steps, and requests interleave between them.  A user stands for the      *)
(* phone number the account is unique by; the id of an account, or of a     *)
(* profile, dies with its row and is never given to another.                *)
(***************************************************************************)
EXTENDS Integers, FiniteSets

CONSTANTS
    Users,
    Requests,      \* each is used for one request
    Leaves,        \* rows of StaffLeave
    Bookings,      \* appointments and work orders that name a mechanic
    Days,
    InitialUsers,  \* the accounts a behaviour may begin with
    None

ASSUME DaysAssumption == Days \subseteq Nat /\ Days # {}

VARIABLES
    user,          \* rows of User, with the mechanic profile of each
    leave,         \* rows of StaffLeave
    booking,       \* rows of Appointment and WorkOrder: the mechanic and the day
    request,       \* the requests
    stripped       \* history: users whose profile a removal deleted before the account

vars == <<user, leave, booking, request, stripped>>

TenantRoles == {"OWNER", "SERVICE_MANAGER", "TECHNICIAN"}
Roles == TenantRoles \cup {"SUPER_ADMIN"}

ASSUME NoneAssumption == None \notin Users \cup Leaves \cup Bookings \cup Roles

UserRow == [role : Roles \cup {None}, active : BOOLEAN, mechanic : BOOLEAN, signed : BOOLEAN]
\* A behaviour begins with technicians that have profiles and, apart from the
\* tenant's staff, nobody that has.
ASSUME InitialAssumption ==
    \A start \in InitialUsers :
       /\ start \in [Users -> UserRow]
       /\ \A u \in Users : /\ start[u].mechanic => start[u].role \in TenantRoles
                           /\ start[u].role = "TECHNICIAN" => start[u].mechanic

Absent == [role |-> None, active |-> FALSE, mechanic |-> FALSE, signed |-> FALSE]

LeaveRow == [user : Users \cup {None}, first : Days, last : Days,
             status : {"NONE", "APPROVED", "CANCELLED", "DELETED"}]

BookingRow == [mechanic : Users \cup {None}, day : Days \cup {None}]

Op == {"create", "update", "remove", "leave", "cancelLeave", "book", "assign",
       "createAdmin", "suspendAdmin", "removeAdmin"}

\* phase: what the request does next.  target: the account, None once the row the
\* request would write is deleted.  by: the role of the actor, row: the account and
\* seen: the leaves and bookings as the check found them.
Request == [phase : {"unsent", "done", "unprofiled"} \cup Op,
            actor : Users \cup {None}, by : Roles \cup {None},
            target : Users \cup {None}, row : UserRow,
            role : Roles \cup {None}, active : BOOLEAN \cup {None},
            leave : Leaves \cup {None}, booking : Bookings \cup {None},
            first : Days \cup {None}, last : Days \cup {None},
            seen : SUBSET (Leaves \cup Bookings)]

\* Also: a booking names a profile that is there, a leave an account that is there.
TypeOK ==
    /\ user \in [Users -> UserRow]
    /\ leave \in [Leaves -> LeaveRow]
    /\ booking \in [Bookings -> BookingRow]
    /\ request \in [Requests -> Request]
    /\ stripped \subseteq Users
    /\ \A b \in Bookings : booking[b].mechanic # None => user[booking[b].mechanic].mechanic
    /\ \A l \in Leaves :
          leave[l].status \in {"APPROVED", "CANCELLED"} => user[leave[l].user].role # None

Unsent == [phase |-> "unsent", actor |-> None, by |-> None, target |-> None, row |-> Absent,
           role |-> None, active |-> None, leave |-> None, booking |-> None,
           first |-> None, last |-> None, seen |-> {}]

Init ==
    /\ user \in InitialUsers
    /\ leave = [l \in Leaves |-> [user |-> None, first |-> CHOOSE d \in Days : TRUE,
                                  last |-> CHOOSE d \in Days : TRUE, status |-> "NONE"]]
    /\ booking = [b \in Bookings |-> [mechanic |-> None, day |-> None]]
    /\ request = [r \in Requests |-> Unsent]
    /\ stripped = {}

----------------------------------------------------------------------------
(* Requests *)

Present(u) == user[u].role # None
OfTenant(u) == user[u].role \in TenantRoles

\* The request passed JwtStrategy and RolesGuard: its actor is active and has
\* one of the roles.  The role in the token is the role of the account.
Admitted(r, a, roles) ==
    /\ request[r].phase = "unsent"
    /\ user[a].active
    /\ user[a].role \in roles

Read(r, fields) == request' = [request EXCEPT ![r] = fields]
Done == [Unsent EXCEPT !.phase = "done"]
End(r) == request' = [request EXCEPT ![r] = Done]

\* The row that the request writes, by the id it read, is still there.
Held(r) == request[r].target # None

\* The requests when a row is deleted whose id some of them hold: a row made
\* later, for the same phone number, has another id.
Forget(holders) ==
    [r \in Requests |-> IF r \in holders THEN [request[r] EXCEPT !.target = None]
                        ELSE request[r]]

\* Those that hold the id of the account of u.
HoldersOf(u) ==
    {r \in Requests : request[r].target = u /\ request[r].phase \notin {"create", "createAdmin"}}

\* The rest of a request is not run: a statement failed or the process died.
Fail(r) ==
    /\ request[r].phase \notin {"unsent", "done"}
    /\ End(r)
    /\ UNCHANGED <<user, leave, booking, stripped>>

----------------------------------------------------------------------------
(* Staff *)

\* The roles the role of the actor may give: only an owner makes an owner, and
\* a manager makes neither owners nor managers.
MayAssign(by, role) ==
    /\ role # "SUPER_ADMIN"
    /\ role \in {"OWNER", "SERVICE_MANAGER"} => by = "OWNER"

StartCreate(r, a, u, role) ==
    /\ Admitted(r, a, {"OWNER", "SERVICE_MANAGER"})
    /\ MayAssign(user[a].role, role)
    /\ ~Present(u)
    /\ Read(r, [Unsent EXCEPT !.phase = "create", !.actor = a, !.target = u, !.role = role])
    /\ UNCHANGED <<user, leave, booking, stripped>>

\* One transaction: the account, unique by its phone, and the profile of a technician.
InsertStaff(r) ==
    /\ request[r].phase = "create"
    /\ ~Present(request[r].target)
    /\ user' = [user EXCEPT ![request[r].target] =
          [role |-> request[r].role, active |-> TRUE,
           mechanic |-> request[r].role = "TECHNICIAN", signed |-> FALSE]]
    /\ stripped' = stripped \ {request[r].target}
    /\ End(r)
    /\ UNCHANGED <<leave, booking>>

\* Variant: the account to change is not looked at.
MayChange_Any(by, row) == TRUE

\* Only an owner changes the account of an owner.
MayChange(by, row) == row.role = "OWNER" => by = "OWNER"

\* A change of role, of activity, or of other columns (both None), checked
\* against the account as it is now.
StartUpdate(r, a, u, role, active) ==
    /\ Admitted(r, a, {"OWNER", "SERVICE_MANAGER"})
    /\ OfTenant(u)
    /\ role # None => MayAssign(user[a].role, role)
    /\ MayChange(user[a].role, user[u])
    /\ Read(r, [Unsent EXCEPT !.phase = "update", !.actor = a, !.by = user[a].role,
                              !.target = u, !.row = user[u], !.role = role, !.active = active])
    /\ UNCHANGED <<user, leave, booking, stripped>>

\* Variant: a profile is made with the account only.
ProfileAfter_AtCreation(row, role) == row.mechanic

\* A technician without a profile gets one; a profile is never deleted here.
ProfileAfter(row, role) == row.mechanic \/ role = "TECHNICIAN"

\* One transaction, by the id of the account.
WriteUpdate(r) ==
    /\ request[r].phase = "update"
    /\ Held(r)
    /\ LET old == user[request[r].target]
           role == IF request[r].role = None THEN old.role ELSE request[r].role
       IN  user' = [user EXCEPT ![request[r].target] =
              [old EXCEPT !.role = role,
                          !.active = IF request[r].active = None THEN @ ELSE request[r].active,
                          !.mechanic = ProfileAfter(old, role)]]
    /\ stripped' = stripped \ {request[r].target}
    /\ End(r)
    /\ UNCHANGED <<leave, booking>>

\* Bookings that name the profile of a user.
BookingsOf(u) == {b \in Bookings : booking[b].mechanic = u}

\* The account and its profile are read and the bookings and orders of the
\* profile counted.
StartRemove(r, a, u) ==
    /\ Admitted(r, a, {"OWNER"})
    /\ OfTenant(u)
    /\ Read(r, [Unsent EXCEPT !.phase = "remove", !.actor = a, !.by = user[a].role,
                              !.target = u, !.row = user[u], !.seen = BookingsOf(u)])
    /\ UNCHANGED <<user, leave, booking, stripped>>

\* Variant: an account is deleted whatever names it.
Referenced_Never(r) == FALSE

Referenced(r) == request[r].row.mechanic /\ request[r].seen # {}

\* A profile that is named keeps its account, which is made inactive.
Deactivate(r) ==
    /\ request[r].phase = "remove"
    /\ Referenced(r)
    /\ Held(r)
    /\ user' = [user EXCEPT ![request[r].target].active = FALSE]
    /\ End(r)
    /\ UNCHANGED <<leave, booking, stripped>>

\* Bookings without the mechanic u: ON DELETE SET NULL.
WithoutMechanic(u) ==
    [b \in Bookings |-> IF booking[b].mechanic = u THEN [booking[b] EXCEPT !.mechanic = None]
                        ELSE booking[b]]

\* Those that hold the id of the profile of u: bookings, and removals that will
\* delete it.
ProfileHoldersOf(u) ==
    {r \in Requests : /\ request[r].target = u
                      /\ \/ request[r].phase \in {"book", "assign"}
                         \/ /\ request[r].phase = "remove"
                            /\ request[r].row.mechanic
                            /\ ~Referenced(r)}

\* Otherwise the profile is deleted first,
DeleteProfile(r) ==
    /\ request[r].phase = "remove"
    /\ ~Referenced(r)
    /\ request[r].row.mechanic
    /\ Held(r)
    /\ user' = [user EXCEPT ![request[r].target].mechanic = FALSE]
    /\ booking' = WithoutMechanic(request[r].target)
    /\ stripped' = stripped \cup {request[r].target}
    /\ request' = [Forget(ProfileHoldersOf(request[r].target) \ {r})
                     EXCEPT ![r].phase = "unprofiled"]
    /\ UNCHANGED leave

\* then the account with its leaves.  One that signed the contract of the
\* tenant cannot be deleted.
DeleteAccount(r) ==
    /\ \/ request[r].phase = "unprofiled"
       \/ /\ request[r].phase = "remove"
          /\ ~Referenced(r)
          /\ ~request[r].row.mechanic
    /\ Held(r)
    /\ LET u == request[r].target
       IN  /\ ~user[u].signed
           /\ user' = [user EXCEPT ![u] = Absent]
           /\ leave' = [l \in Leaves |-> IF leave[l].user = u
                                         THEN [leave[l] EXCEPT !.user = None, !.status = "DELETED"]
                                         ELSE leave[l]]
           /\ booking' = WithoutMechanic(u)
           /\ stripped' = stripped \ {u}
           /\ request' = [Forget(HoldersOf(u)) EXCEPT ![r] = Done]

\* The contract of the tenant is signed: one transaction.
SignContract(a) ==
    /\ user[a].active
    /\ user[a].role = "OWNER"
    /\ user' = [user EXCEPT ![a].signed = TRUE]
    /\ UNCHANGED <<leave, booking, request, stripped>>

----------------------------------------------------------------------------
(* Leaves and bookings *)

LeavesOf(u) == {l \in Leaves : leave[l].user = u /\ leave[l].status = "APPROVED"}

\* Variant: only a leave that contains the new one is found.
Meets_Inside(row, first, last) == row.first <= first /\ row.last >= last

Meets(row, first, last) == row.first <= last /\ row.last >= first

StartLeave(r, a, u, first, last) ==
    /\ Admitted(r, a, {"OWNER", "SERVICE_MANAGER"})
    /\ OfTenant(u)
    /\ first <= last
    /\ \A l \in LeavesOf(u) : ~Meets(leave[l], first, last)
    /\ Read(r, [Unsent EXCEPT !.phase = "leave", !.actor = a, !.target = u,
                              !.first = first, !.last = last, !.seen = LeavesOf(u)])
    /\ UNCHANGED <<user, leave, booking, stripped>>

\* Bookings of the days are not looked for.
InsertLeave(r, l) ==
    /\ request[r].phase = "leave"
    /\ leave[l].status = "NONE"
    /\ Held(r)
    /\ leave' = [leave EXCEPT ![l] = [user |-> request[r].target, first |-> request[r].first,
                                      last |-> request[r].last, status |-> "APPROVED"]]
    /\ End(r)
    /\ UNCHANGED <<user, booking, stripped>>

StartCancelLeave(r, a, l) ==
    /\ Admitted(r, a, {"OWNER", "SERVICE_MANAGER"})
    /\ leave[l].status = "APPROVED"
    /\ Read(r, [Unsent EXCEPT !.phase = "cancelLeave", !.actor = a, !.leave = l])
    /\ UNCHANGED <<user, leave, booking, stripped>>

WriteCancelLeave(r) ==
    /\ request[r].phase = "cancelLeave"
    /\ leave[request[r].leave].status \in {"APPROVED", "CANCELLED"}
    /\ leave' = [leave EXCEPT ![request[r].leave].status = "CANCELLED"]
    /\ End(r)
    /\ UNCHANGED <<user, booking, stripped>>

OnLeave(u, day) == \E l \in LeavesOf(u) : leave[l].first <= day /\ leave[l].last >= day

\* A booking, or a reschedule, that names a mechanic.
StartBook(r, a, b, u, day) ==
    /\ Admitted(r, a, TenantRoles)
    /\ user[u].mechanic
    /\ ~OnLeave(u, day)
    /\ Read(r, [Unsent EXCEPT !.phase = "book", !.actor = a, !.target = u, !.booking = b,
                              !.first = day, !.seen = LeavesOf(u)])
    /\ UNCHANGED <<user, leave, booking, stripped>>

\* The profile is referenced; whether its account is active is not looked at.
WriteBook(r) ==
    /\ request[r].phase = "book"
    /\ Held(r)
    /\ booking' = [booking EXCEPT ![request[r].booking] =
          [mechanic |-> request[r].target, day |-> request[r].first]]
    /\ End(r)
    /\ UNCHANGED <<user, leave, stripped>>

\* An order is opened with a mechanic: in its transaction the profile, the
\* account and the leaves of the day are read,
StartAssign(r, a, b, u, day) ==
    /\ Admitted(r, a, {"OWNER", "SERVICE_MANAGER"})
    /\ booking[b].mechanic = None
    /\ user[u].mechanic
    /\ user[u].active
    /\ ~OnLeave(u, day)
    /\ Read(r, [Unsent EXCEPT !.phase = "assign", !.actor = a, !.target = u, !.row = user[u],
                              !.booking = b, !.first = day, !.seen = LeavesOf(u)])
    /\ UNCHANGED <<user, leave, booking, stripped>>

\* then the order is inserted, which references the profile.
WriteAssign(r) ==
    /\ request[r].phase = "assign"
    /\ Held(r)
    /\ booking' = [booking EXCEPT ![request[r].booking] =
          [mechanic |-> request[r].target, day |-> request[r].first]]
    /\ End(r)
    /\ UNCHANGED <<user, leave, stripped>>

----------------------------------------------------------------------------
(* Administrators of the platform *)

Admins == {u \in Users : user[u].role = "SUPER_ADMIN"}
ActiveAdmins == {u \in Admins : user[u].active}

StartCreateAdmin(r, a, u) ==
    /\ Admitted(r, a, {"SUPER_ADMIN"})
    /\ ~Present(u)
    /\ Read(r, [Unsent EXCEPT !.phase = "createAdmin", !.actor = a, !.target = u])
    /\ UNCHANGED <<user, leave, booking, stripped>>

InsertAdmin(r) ==
    /\ request[r].phase = "createAdmin"
    /\ ~Present(request[r].target)
    /\ user' = [user EXCEPT ![request[r].target] =
          [role |-> "SUPER_ADMIN", active |-> TRUE, mechanic |-> FALSE, signed |-> FALSE]]
    /\ End(r)
    /\ UNCHANGED <<leave, booking, stripped>>

\* Variant: an administrator may suspend or remove the own account.
MayTarget_Self(a, u) == TRUE

MayTarget(a, u) == a # u

\* An administrator is suspended or activated: not oneself, and not the last
\* active one.
StartSetAdmin(r, a, u, b) ==
    /\ Admitted(r, a, {"SUPER_ADMIN"})
    /\ u \in Admins
    /\ b \/ MayTarget(a, u)
    /\ b \/ Cardinality(ActiveAdmins) > 1
    /\ Read(r, [Unsent EXCEPT !.phase = "suspendAdmin", !.actor = a, !.target = u, !.active = b])
    /\ UNCHANGED <<user, leave, booking, stripped>>

WriteSetAdmin(r) ==
    /\ request[r].phase = "suspendAdmin"
    /\ Held(r)
    /\ user' = [user EXCEPT ![request[r].target].active = request[r].active]
    /\ End(r)
    /\ UNCHANGED <<leave, booking, stripped>>

\* An administrator is deleted: not oneself, and not the last one, active or not.
StartDeleteAdmin(r, a, u) ==
    /\ Admitted(r, a, {"SUPER_ADMIN"})
    /\ u \in Admins
    /\ MayTarget(a, u)
    /\ Cardinality(Admins) > 1
    /\ Read(r, [Unsent EXCEPT !.phase = "removeAdmin", !.actor = a, !.target = u])
    /\ UNCHANGED <<user, leave, booking, stripped>>

DeleteAdmin(r) ==
    /\ request[r].phase = "removeAdmin"
    /\ Held(r)
    /\ user' = [user EXCEPT ![request[r].target] = Absent]
    /\ request' = [Forget(HoldersOf(request[r].target)) EXCEPT ![r] = Done]
    /\ UNCHANGED <<leave, booking, stripped>>

----------------------------------------------------------------------------

Start(r, a) ==
    \/ \E u \in Users, role \in Roles : StartCreate(r, a, u, role)
    \/ \E u \in Users, role \in Roles : StartUpdate(r, a, u, role, None)
    \/ \E u \in Users, active \in BOOLEAN \cup {None} : StartUpdate(r, a, u, None, active)
    \/ \E u \in Users : StartRemove(r, a, u)
    \/ \E u \in Users, first, last \in Days : StartLeave(r, a, u, first, last)
    \/ \E l \in Leaves : StartCancelLeave(r, a, l)
    \/ \E b \in Bookings, u \in Users, day \in Days :
          StartBook(r, a, b, u, day) \/ StartAssign(r, a, b, u, day)
    \/ \E u \in Users : StartCreateAdmin(r, a, u)
    \/ \E u \in Users, b \in BOOLEAN : StartSetAdmin(r, a, u, b)
    \/ \E u \in Users : StartDeleteAdmin(r, a, u)

Write(r) ==
    \/ InsertStaff(r)
    \/ WriteUpdate(r)
    \/ Deactivate(r)
    \/ DeleteProfile(r)
    \/ DeleteAccount(r)
    \/ \E l \in Leaves : InsertLeave(r, l)
    \/ WriteCancelLeave(r)
    \/ WriteBook(r)
    \/ WriteAssign(r)
    \/ InsertAdmin(r)
    \/ WriteSetAdmin(r)
    \/ DeleteAdmin(r)
    \/ Fail(r)

Next ==
    \/ \E r \in Requests, a \in Users : Start(r, a)
    \/ \E r \in Requests : Write(r)
    \/ \E a \in Users : SignContract(a)

Spec == Init /\ [][Next]_vars

----------------------------------------------------------------------------
(* Properties *)

\* The requests that a step ends.
Ending == {r \in Requests : request[r].phase \notin {"unsent", "done"}
                              /\ request'[r].phase \in {"done", "unprofiled"}}

\* The account of an owner changes at the hands of an owner (or of the holder,
\* who signs the contract); or of a manager whose request read the account
\* before it became an owner's.  An administrator never changes it.
OwnerProtected ==
    [][\A u \in Users :
          user[u].role = "OWNER" /\ user'[u] # user[u] =>
              \/ user'[u] = [user[u] EXCEPT !.signed = TRUE]
              \/ \E r \in Ending : /\ request[r].target = u
                                   /\ \/ request[r].by = "OWNER"
                                      \/ /\ request[r].by = "SERVICE_MANAGER"
                                         /\ request[r].row.role # "OWNER"]_vars

\* A technician has a mechanic profile, unless a removal deleted the profile and
\* then failed to delete the account.
TechnicianHasProfile ==
    \A u \in Users : user[u].role = "TECHNICIAN" => user[u].mechanic \/ u \in stripped

\* The rows keep the shape of the schema (a booking points at an account that is
\* there), and technicians have profiles.
StaffConsistent == TypeOK /\ TechnicianHasProfile

\* A booking loses its mechanic only to a removal that had counted the bookings
\* before this one was written.
BookingKeepsMechanic ==
    [][\A b \in Bookings, u \in Users :
          booking[b].mechanic = u /\ booking'[b].mechanic = None =>
              \E r \in Ending : request[r].target = u /\ b \notin request[r].seen]_vars

Away(row, d) == row.first <= d /\ d <= row.last

\* Two leaves of one person that overlap, or a booking on a day of a leave of its
\* mechanic, come only from a request whose check was made before the other was
\* there; a leave never looks for bookings.
LeavesOverlapOnlyWhenOutdated ==
    [][/\ \A l \in Leaves : leave[l].status = "NONE" /\ leave'[l].status = "APPROVED" =>
             \A k \in LeavesOf(leave'[l].user) :
                (\E d \in Days : Away(leave[k], d) /\ Away(leave'[l], d)) =>
                   \E r \in Ending : request[r].phase = "leave" /\ k \notin request[r].seen
       /\ \A b \in Bookings : booking'[b] # booking[b] /\ booking'[b].mechanic # None =>
             \A k \in LeavesOf(booking'[b].mechanic) :
                Away(leave[k], booking'[b].day) =>
                   \E r \in Ending : /\ request[r].phase \in {"book", "assign"}
                                      /\ k \notin request[r].seen]_vars

\* The last active administrator goes only when the one who asked for it was
\* suspended or removed in the meantime.
LastAdminOnlyWhenOutdated ==
    [][ActiveAdmins # {} /\ ActiveAdmins' = {} =>
          \E r \in Ending : request[r].actor \notin ActiveAdmins]_vars
==============================================================================
