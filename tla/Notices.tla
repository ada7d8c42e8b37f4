------------------------------- MODULE Notices -------------------------------
(***************************************************************************)
(* Telling the staff and the customer: NotificationsService, the use cases   *)
(* that call it, and the sockets of EventsGateway.                           *)
(*                                                                          *)
(* createNotification reads the staff to be told, inserts one row for each,  *)
(* emits to the sockets, reads the settings of the tenant and hands one job  *)
(* per channel to the queue.  Every step but the emission awaits, so staff,  *)
(* sockets and settings change between them.  Its errors are swallowed: the  *)
(* caller gets null and goes on, and may meet one of its own.  A process     *)
(* whose queue is suppressed or could not be built hands in nothing.  The    *)
(* delay of a message until the morning belongs to the queue (module         *)
(* Reminders).                                                               *)
(***************************************************************************)
EXTENDS Naturals

CONSTANTS
    Staff,
    Role,
    Notices,       \* each is used for one call
    Channels,      \* some of "sms", "whatsapp" and "email"
    MaxChanges,    \* bound on the changes to accounts, sockets and settings
    Null           \* no role, no recipient, no row

ASSUME ChangesAssumption == MaxChanges \in Nat
ASSUME ChannelsAssumption == Channels \subseteq {"sms", "whatsapp", "email"}

VARIABLES
    account,       \* the role of each active account, Null of a suspended one
    socket,        \* the role each socket of the tenant connected with, or Null
    enabled,       \* row of TenantNotificationSetting: its channels, or Null
    inbox,         \* rows of Notification
    live,          \* the roles of the sockets each notice was emitted to
    queue,         \* the jobs handed to BullMQ, by notice and channel
    notice,        \* the calls
    changes        \* the changes so far

noticeVars == <<account, socket, enabled, inbox, live, queue, notice, changes>>

Phase == {"unsent", "targets", "rows", "emit", "settings", "queue", "stamp",
          "answered", "refused", "lost"}

\* roles: the target roles, all of them when the caller names none; to: the only
\* recipient, if there is one; takesId: the caller's answer takes the id of the
\* notification.  there: the accounts when the targets were read; row, sure: the
\* settings as read, if they could be; failed: an error was swallowed; bypassed: the
\* process has no queue; stamp: lastNotifiedAt was written, or its statement threw.
Notice == [phase : Phase, actor : Staff \cup {Null}, roles : SUBSET Role, to : Staff \cup {Null},
           wanted : SUBSET Channels, takesId : BOOLEAN, targets : SUBSET Staff,
           there : [Staff -> Role \cup {Null}], allowed : SUBSET Channels,
           row : (SUBSET Channels) \cup {Null}, sure : BOOLEAN, failed : BOOLEAN,
           bypassed : BOOLEAN, stamp : {"none", "written", "threw"}]

Nobody == [u \in Staff |-> Null]

NotCalled == [phase |-> "unsent", actor |-> Null, roles |-> {}, to |-> Null, wanted |-> {},
           takesId |-> FALSE, targets |-> {}, there |-> Nobody, allowed |-> {}, row |-> Null,
           sure |-> FALSE, failed |-> FALSE, bypassed |-> FALSE, stamp |-> "none"]

NoticeTypeOK ==
    /\ account \in [Staff -> Role \cup {Null}]
    /\ socket \in [Staff -> Role \cup {Null}]
    /\ enabled \in (SUBSET Channels) \cup {Null}
    /\ inbox \in [Staff -> [Notices -> {"none", "unread", "read"}]]
    /\ live \in [Notices -> [Staff -> Role \cup {Null}]]
    /\ queue \in [Notices -> SUBSET Channels]
    /\ notice \in [Notices -> Notice]
    /\ changes \in 0..MaxChanges

NoticeInit ==
    /\ account \in [Staff -> Role]
    /\ socket \in {sk \in [Staff -> Role \cup {Null}] : \A u \in Staff : sk[u] \in {account[u], Null}}
    /\ enabled = Null
    /\ inbox = [u \in Staff |-> [n \in Notices |-> "none"]]
    /\ live = [n \in Notices |-> Nobody]
    /\ queue = [n \in Notices |-> {}]
    /\ notice = [n \in Notices |-> NotCalled]
    /\ changes = 0

----------------------------------------------------------------------------
(* The callers: whom they tell, and over which channels the customer *)

Contacts == {"phone", "email"}

\* A phone takes SMS and WhatsApp.
Reachable(contact) == {c \in Channels : IF c = "email" THEN "email" \in contact
                                                     ELSE "phone" \in contact}

\* No choice is the choice of every channel.
Chosen(channels) == IF channels = {} THEN Channels ELSE channels

CallOf(roles, actor, wanted) ==
    [roles |-> Role \cap roles, actor |-> actor, wanted |-> wanted, to |-> Null,
     takesId |-> FALSE]

Workshop == {"OWNER", "SERVICE_MANAGER", "TECHNICIAN"}

AppointmentCreated(u, contact) == CallOf(Workshop, u, Reachable(contact))

\* The customer is not of the staff, and the form asks for a phone.
AppointmentRequested(contact) ==
    CallOf({"OWNER", "SERVICE_MANAGER"}, Null, Reachable(contact \cup {"phone"}))

AppointmentRescheduled(u, contact, channels, notifyCustomer) ==
    CallOf(Workshop, u, IF notifyCustomer THEN Reachable(contact) \cap Chosen(channels) ELSE {})

AppointmentCancelled(u) == CallOf(Workshop, u, {})

\* The one who approves hears of it, and again of the message to the customer.
AppointmentApproved == CallOf(Workshop, Null, {})
ApprovalSent(u) == CallOf(Role, u, Channels \cap {"sms"})

WorkOrderOpened(u, contact) == CallOf(Role, u, Reachable(contact))

\* Refused before the call when there is no channel.
StatusSent(u, contact, channels) ==
    [CallOf(Role, u, Reachable(contact) \cap Chosen(channels)) EXCEPT !.takesId = TRUE]

FeedbackGiven == CallOf(Role, Null, {})

StockKeepers == {"OWNER", "SERVICE_MANAGER", "WAREHOUSE_KEEPER"}

StockTaken == CallOf(StockKeepers, Null, {})
StockMoved(u) == CallOf(StockKeepers, u, {})

CashDesk == {"OWNER", "SERVICE_MANAGER", "CASHIER"}

CreditLimitPassed(u) == CallOf(CashDesk, u, {})
InvoiceIssued(u, contact) == CallOf(Role, u, Reachable(contact))

PaymentBooked(u) == CallOf(CashDesk, u, {})
ReceiptSent(u, contact) == CallOf(Role, u, Reachable(contact))

Test(u) == [CallOf({}, Null, {}) EXCEPT !.to = u]

\* An invoice and a payment make two calls, one after the other: the first never
\* throws, so the second is made whatever became of it.
Calls ==
    (UNION {
       {AppointmentCreated(u, contact), AppointmentRequested(contact),
        WorkOrderOpened(u, contact), InvoiceIssued(u, contact), ReceiptSent(u, contact)}
       : u \in Staff, contact \in SUBSET Contacts})
    \cup (UNION {
       {AppointmentCancelled(u), ApprovalSent(u), StockMoved(u), CreditLimitPassed(u),
        PaymentBooked(u), Test(u)} : u \in Staff})
    \cup {AppointmentApproved, FeedbackGiven, StockTaken}
    \cup {AppointmentRescheduled(u, contact, channels, b) :
            u \in Staff, contact \in SUBSET Contacts, channels \in SUBSET Channels, b \in BOOLEAN}
    \cup {call \in {StatusSent(u, contact, channels) :
            u \in Staff, contact \in SUBSET Contacts, channels \in SUBSET Channels} :
            call.wanted # {}}

----------------------------------------------------------------------------
(* createNotification *)

At(n, phase) == notice[n].phase = phase

\* The call goes on to a later phase without the settings it read.
LeaveTo(n, phase) == [notice EXCEPT ![n].phase = phase, ![n].wanted = {},
                                    ![n].row = Null, ![n].sure = FALSE]

StartCall(n, call) ==
    /\ At(n, "unsent")
    /\ call.actor # Null => account[call.actor] # Null
    /\ notice' = [notice EXCEPT ![n] =
          [NotCalled EXCEPT !.phase = "targets", !.actor = call.actor, !.roles = call.roles,
                         !.to = call.to, !.wanted = call.wanted, !.takesId = call.takesId]]
    /\ UNCHANGED <<account, socket, enabled, inbox, live, queue, changes>>

Targets(n) == IF notice[n].to # Null
              THEN {notice[n].to}
              ELSE {u \in Staff : account[u] \in notice[n].roles} \ {notice[n].actor}

ReadTargets(n) ==
    /\ At(n, "targets")
    /\ notice' = [notice EXCEPT ![n].phase = "rows", ![n].targets = Targets(n),
                                ![n].there = account]
    /\ UNCHANGED <<account, socket, enabled, inbox, live, queue, changes>>

\* One createMany for all targets, none when there are no targets.
InsertRows(n) ==
    /\ At(n, "rows")
    /\ inbox' = [u \in Staff |->
          IF u \in notice[n].targets THEN [inbox[u] EXCEPT ![n] = "unread"] ELSE inbox[u]]
    /\ notice' = [notice EXCEPT ![n].phase = "emit"]
    /\ UNCHANGED <<account, socket, enabled, live, queue, changes>>

\* Variant: the roles of the sockets are not looked at.
Listeners_AllRoles(n) == {u \in Staff : socket[u] # Null} \ {notice[n].actor}

\* The sockets of the only recipient, or of the tenant but for the actor's and
\* those that connected with another role.
Listeners(n) == IF notice[n].to # Null
                THEN {u \in {notice[n].to} : socket[u] # Null}
                ELSE {u \in Staff : socket[u] \in notice[n].roles} \ {notice[n].actor}

Emit(n) ==
    /\ At(n, "emit")
    /\ live' = [live EXCEPT ![n] =
          [u \in Staff |-> IF u \in Listeners(n) THEN socket[u] ELSE Null]]
    /\ notice' = [notice EXCEPT ![n].phase = "settings"]
    /\ UNCHANGED <<account, socket, enabled, inbox, queue, changes>>

\* Variant: what is wanted is sent.
Permitted_All(row) == Channels

\* A tenant without a row, or a row that could not be read, permits everything.
Permitted(row) == IF row = Null THEN Channels ELSE row

ReadSettings(n) ==
    /\ At(n, "settings")
    /\ \E sure \in BOOLEAN :
          LET row == IF sure THEN enabled ELSE Null
          IN  notice' = [notice EXCEPT ![n].phase = "queue", ![n].sure = sure, ![n].row = row,
                            ![n].allowed = notice[n].wanted \cap Permitted(row),
                            ![n].wanted = {}]
    /\ UNCHANGED <<account, socket, enabled, inbox, live, queue, changes>>

Waiting(n) == notice[n].allowed \ queue[n]

\* The order in which the channels are tried: SMS, WhatsApp, e-mail.
Before(c, d) == c = d \/ c = "sms" \/ d = "email"

Enqueue(n) ==
    /\ At(n, "queue")
    /\ \E c \in Waiting(n) :
          /\ \A d \in Waiting(n) : Before(c, d)
          /\ queue' = [queue EXCEPT ![n] = @ \cup {c}]
    /\ UNCHANGED <<account, socket, enabled, inbox, live, notice, changes>>

Return(n) ==
    /\ At(n, "queue")
    /\ Waiting(n) = {}
    /\ notice' = LeaveTo(n, "stamp")
    /\ UNCHANGED <<account, socket, enabled, inbox, live, queue, changes>>

\* addNotificationJob returns null without handing the job in: in this process the
\* delivery is suppressed, or there is no queue.
Bypass(n) ==
    /\ At(n, "queue")
    /\ Waiting(n) # {} /\ queue[n] = {}
    /\ notice' = [LeaveTo(n, "stamp") EXCEPT ![n].bypassed = TRUE]
    /\ UNCHANGED <<account, socket, enabled, inbox, live, queue, changes>>

\* A statement or the queue fails: the error is logged and null returned.
Swallow(n) ==
    /\ \/ At(n, "targets")
       \/ At(n, "rows") /\ notice[n].targets # {}
       \/ At(n, "queue") /\ Waiting(n) # {}
    /\ notice' = [LeaveTo(n, "stamp") EXCEPT ![n].failed = TRUE]
    /\ UNCHANGED <<account, socket, enabled, inbox, live, queue, changes>>

----------------------------------------------------------------------------
(* The end of a call *)

\* The answer of NotifyWorkOrderStatusUseCase takes the id of the notification:
\* there is none when nobody of the staff was told or an error was swallowed, and
\* the request ends in an error.  Every other caller ignores what it gets.
Answered(n) == notice[n].takesId => notice[n].targets # {} /\ ~notice[n].failed

\* lastNotifiedAt is written first, whatever createNotification returned.
Answer(n) ==
    /\ At(n, "stamp")
    /\ notice' = [notice EXCEPT ![n].stamp = IF notice[n].takesId THEN "written" ELSE "none",
                                ![n].phase = IF Answered(n) THEN "answered" ELSE "refused"]
    /\ UNCHANGED <<account, socket, enabled, inbox, live, queue, changes>>

\* The write of lastNotifiedAt throws, and nobody catches it.
StampFails(n) ==
    /\ At(n, "stamp")
    /\ notice[n].takesId
    /\ notice' = [notice EXCEPT ![n].stamp = "threw", ![n].phase = "refused"]
    /\ UNCHANGED <<account, socket, enabled, inbox, live, queue, changes>>

\* The process dies.
Die(n) ==
    /\ notice[n].phase \notin {"unsent", "answered", "refused", "lost"}
    /\ notice' = LeaveTo(n, "lost")
    /\ UNCHANGED <<account, socket, enabled, inbox, live, queue, changes>>

----------------------------------------------------------------------------
(* The staff *)

Has(u, n) == inbox[u][n] # "none"

MarkAsRead(u, n) ==
    /\ account[u] # Null
    /\ Has(u, n)
    /\ inbox' = [inbox EXCEPT ![u][n] = "read"]
    /\ UNCHANGED <<account, socket, enabled, live, queue, notice, changes>>

MarkAllAsRead(u) ==
    /\ account[u] # Null
    /\ inbox' = [inbox EXCEPT ![u] = [n \in Notices |-> IF Has(u, n) THEN "read" ELSE "none"]]
    /\ UNCHANGED <<account, socket, enabled, live, queue, notice, changes>>

Remove(u, n) ==
    /\ account[u] # Null
    /\ inbox' = [inbox EXCEPT ![u][n] = "none"]
    /\ UNCHANGED <<account, socket, enabled, live, queue, notice, changes>>

Count ==
    /\ changes < MaxChanges
    /\ changes' = changes + 1

\* handleConnection: the account is active and the role of the token is its own.
MayConnect(u) == account[u] # Null

\* A socket keeps the role it connected with.  It is not closed when its account
\* is suspended or gets another role, only when its token expires or the client
\* leaves.
Connect(u) ==
    /\ MayConnect(u)
    /\ socket' = [socket EXCEPT ![u] = account[u]]
    /\ Count
    /\ UNCHANGED <<account, enabled, inbox, live, queue, notice>>

Disconnect(u) ==
    /\ socket' = [socket EXCEPT ![u] = Null]
    /\ UNCHANGED <<account, enabled, inbox, live, queue, notice, changes>>

\* The account is suspended, activated or given another role.
SetAccount(u, r) ==
    /\ account' = [account EXCEPT ![u] = r]
    /\ Count
    /\ UNCHANGED <<socket, enabled, inbox, live, queue, notice>>

\* The columns' defaults: a new row permits everything but SMS.
Defaults == Channels \ {"sms"}

\* Looking at the settings inserts the row.
ViewSettings ==
    /\ enabled = Null
    /\ enabled' = Defaults
    /\ Count
    /\ UNCHANGED <<account, socket, inbox, live, queue, notice>>

UpdateSettings(row) ==
    /\ enabled' = row
    /\ Count
    /\ UNCHANGED <<account, socket, inbox, live, queue, notice>>

----------------------------------------------------------------------------

Call(n) ==
    \/ \E call \in Calls : StartCall(n, call)
    \/ ReadTargets(n)
    \/ InsertRows(n)
    \/ Emit(n)
    \/ ReadSettings(n)
    \/ Enqueue(n)
    \/ Return(n)
    \/ Bypass(n)
    \/ Swallow(n)
    \/ Answer(n)
    \/ StampFails(n)
    \/ Die(n)

Member(u) ==
    \/ \E n \in Notices : MarkAsRead(u, n)
    \/ MarkAllAsRead(u)
    \/ \E n \in Notices : Remove(u, n)
    \/ Connect(u)
    \/ Disconnect(u)
    \/ \E r \in Role \cup {Null} : SetAccount(u, r)

NoticeNext ==
    \/ \E n \in Notices : Call(n)
    \/ \E u \in Staff : Member(u)
    \/ ViewSettings
    \/ \E row \in SUBSET Channels : UpdateSettings(row)

NoticeSpec == NoticeInit /\ [][NoticeNext]_noticeVars

----------------------------------------------------------------------------
(* Properties *)

\* Rows and sockets agree.  Who hears an event and gets no row for it has a socket
\* older than the account it belongs to: that was suspended, or had another role,
\* when the targets were read, or has become active or changed its role since.
HeardHaveRows ==
    \A n \in Notices, u \in Staff :
       live[n][u] # Null => u \in notice[n].targets \/ notice[n].there[u] # live[n][u]

\* A message goes out over a channel the tenant has switched off only when the
\* settings could not be read, or were changed after they were read.
SwitchedOffOnlyWhenOutdated ==
    [][\A n \in Notices : \A c \in queue'[n] \ queue[n] :
          enabled # Null /\ c \notin enabled =>
             ~notice[n].sure \/ notice[n].row # enabled]_noticeVars

\* Who else of the staff was to be told when the targets were read.
Told(n) == {u \in Staff : notice[n].there[u] \in notice[n].roles} \ {notice[n].actor}

\* A request that ends in an error after the customer's message was queued, and
\* that will be repeated, is one that told nobody of the staff, swallowed an error or
\* could not write lastNotifiedAt.  One that is answered, or whose lastNotifiedAt is
\* written, queued a message over every permitted channel, unless it swallowed an
\* error or its process has no queue.
AnswerMatchesQueue ==
    \A n \in Notices :
       /\ notice[n].phase = "refused" =>
             notice[n].failed \/ notice[n].stamp = "threw" \/ Told(n) = {}
       /\ notice[n].phase = "answered" \/ notice[n].stamp = "written" =>
             notice[n].failed \/ notice[n].bypassed \/ queue[n] = notice[n].allowed

\* Types, rows and sockets, answers and jobs.
NoticesConsistent == NoticeTypeOK /\ HeardHaveRows /\ AnswerMatchesQueue
=============================================================================
