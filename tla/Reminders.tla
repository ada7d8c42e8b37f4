------------------------------ MODULE Reminders ------------------------------
(***************************************************************************)
(* The queue of messages and its worker: QueueService, NotificationWorker    *)
(* and the provider, with the appointments the reminders are about.          *)
(*                                                                          *)
(* A job is the reminder of an appointment, delayed until Lead before the    *)
(* start it was booked with, or a message to a customer.  A message that has *)
(* a text written for the customer, and goes to one whose phone is known, is *)
(* delayed until the morning when it is handed in at night; any other, as    *)
(* the text that an appointment is approved or the link that asks for a      *)
(* consent, is sent at once.  BullMQ (not under src) keeps the jobs, repeats *)
(* a failed one until its attempts are used, and hands a job whose worker    *)
(* died to another, MaxStalls times.                                         *)
(***************************************************************************)
EXTENDS Integers, FiniteSets

CONSTANTS
    Appointments,
    Messages,
    Lead,          \* two hours
    Nights,        \* the times from 21:30 to 8:30
    Attempts,      \* three
    MaxStalls,
    Workers,       \* the jobs processed at a time: five
    MaxTime,       \* bound
    NoTime         \* where a time is missing

Time == 0..MaxTime

ASSUME TimeAssumption == Lead \in Nat /\ Nights \subseteq Time /\ MaxTime \in Nat \ Nights
ASSUME JobsAssumption == Appointments \cap Messages = {}
ASSUME QueueAssumption == Attempts \in Nat \ {0} /\ MaxStalls \in Nat /\ Workers \in Nat \ {0}

VARIABLES
    now,
    appointment,   \* rows of Appointment, and the start a request has yet to plan for
    job            \* the jobs in Redis

queueVars == <<now, appointment, job>>

Jobs == Appointments \cup Messages

State == {"none", "delayed", "waiting", "active", "looked", "sent", "completed", "failed"}

AppointmentRow == [status : {"NONE", "OPEN", "ENDED"}, start : Time \cup {NoTime},
                   plan : Time \cup {NoTime}]

\* quiet: the message keeps the hours of the night.  told: the start the reminder tells.
\* changed: history, the appointment was changed since the worker read it.  sends: the
\* texts the customer got.
Job == [state : State, due : Time, tries : 0..Attempts, stalls : 0..MaxStalls,
        sends : 0..(Attempts + MaxStalls), quiet : BOOLEAN, told : Time \cup {NoTime},
        changed : BOOLEAN]

QueueTypeOK ==
    /\ now \in Time
    /\ appointment \in [Appointments -> AppointmentRow]
    /\ job \in [Jobs -> Job]

QueueInit ==
    /\ now = 0
    /\ appointment = [a \in Appointments |-> [status |-> "NONE", start |-> NoTime, plan |-> NoTime]]
    /\ job = [j \in Jobs |-> [state |-> "none", due |-> 0, tries |-> 0, stalls |-> 0,
                              sends |-> 0, quiet |-> FALSE, told |-> NoTime, changed |-> FALSE]]

Tick ==
    /\ now < MaxTime
    /\ now' = now + 1
    /\ UNCHANGED <<appointment, job>>

----------------------------------------------------------------------------
(* Appointments *)

\* CreateAppointmentUseCase: the row is committed.
Book(a, start) ==
    /\ appointment[a].status = "NONE"
    /\ start >= now
    /\ appointment' = [appointment EXCEPT ![a] =
          [status |-> "OPEN", start |-> start, plan |-> start]]
    /\ UNCHANGED <<now, job>>

\* Then its reminder is planned, once: not when Lead is already reached.
Schedule(a) ==
    /\ appointment[a].plan # NoTime
    /\ appointment' = [appointment EXCEPT ![a].plan = NoTime]
    /\ LET due == appointment[a].plan - Lead
       IN  job' = IF due > now
                  THEN [job EXCEPT ![a].state = "delayed", ![a].due = due]
                  ELSE job
    /\ UNCHANGED now

\* The process dies between the two.
DieUnplanned(a) ==
    /\ appointment[a].plan # NoTime
    /\ appointment' = [appointment EXCEPT ![a].plan = NoTime]
    /\ UNCHANGED <<now, job>>

\* A reschedule, cancellation or other change of status leaves the job alone.
Change(a, row) ==
    /\ appointment[a].status # "NONE"
    /\ appointment' = [appointment EXCEPT ![a].status = row.status, ![a].start = row.start]
    /\ job' = [job EXCEPT ![a].changed = job[a].state = "looked"]
    /\ UNCHANGED now

Reschedule(a, start) ==
    /\ appointment[a].status = "OPEN"
    /\ start >= now
    /\ Change(a, [status |-> "OPEN", start |-> start])

SetStatus(a, status) == Change(a, [status |-> status, start |-> appointment[a].start])

----------------------------------------------------------------------------
(* Messages *)

\* Variant: only the hours before midnight count as night.
SendTime_EveningOnly(t) == IF t \in Nights /\ t - 1 \notin Nights THEN t + 1 ELSE t

\* At night the next morning, by day at once.
SendTime(t) ==
    IF t \in Nights
    THEN CHOOSE d \in Time : /\ d > t /\ d \notin Nights
                             /\ \A e \in Time : t < e /\ e < d => e \in Nights
    ELSE t

\* quiet: the caller gave a customerMessage and a recipientPhone.
Post(m, quiet) ==
    /\ job[m].state = "none"
    /\ job' = [job EXCEPT ![m].state = "delayed", ![m].quiet = quiet,
                          ![m].due = IF quiet THEN SendTime(now) ELSE now]
    /\ UNCHANGED <<now, appointment>>

----------------------------------------------------------------------------
(* The queue *)

Busy == {j \in Jobs : job[j].state \in {"active", "looked", "sent"}}

Promote(j) ==
    /\ job[j].state = "delayed"
    /\ job[j].due <= now
    /\ job' = [job EXCEPT ![j].state = "waiting", ![j].due = 0]
    /\ UNCHANGED <<now, appointment>>

\* A worker is free.
Take(j) ==
    /\ job[j].state = "waiting"
    /\ Cardinality(Busy) < Workers
    /\ job' = [job EXCEPT ![j].state = "active"]
    /\ UNCHANGED <<now, appointment>>

Exhausted(j) == job[j].tries + 1 >= Attempts

\* Variant: a failed attempt is not counted.
Failed_Uncounted(j) == [job EXCEPT ![j].state = "delayed", ![j].told = NoTime, ![j].changed = FALSE]

\* The processor threw: the job is repeated after a pause, or given up.
Failed(j) ==
    [job EXCEPT ![j].state = IF Exhausted(j) THEN "failed" ELSE "delayed",
                ![j].tries = @ + 1, ![j].told = NoTime, ![j].changed = FALSE]

\* The worker's process dies: its lock expires and the job is handed out again.
Stall(j) ==
    /\ j \in Busy
    /\ job' = IF job[j].stalls = MaxStalls
              THEN [job EXCEPT ![j].state = "failed", ![j].told = NoTime, ![j].changed = FALSE]
              ELSE [job EXCEPT ![j].state = "waiting", ![j].stalls = @ + 1, ![j].told = NoTime,
                               ![j].changed = FALSE]
    /\ UNCHANGED <<now, appointment>>

----------------------------------------------------------------------------
(* The worker *)

\* Variant: an appointment that ended is reminded of as well.
Due_Always(a) == TRUE

\* handleAppointmentReminder reads the appointment: neither cancelled, completed
\* nor a no-show.
Due(a) == appointment[a].status = "OPEN"

\* The message is made from the row, not from the job.
Told(a) == appointment[a].start

Look(a) ==
    /\ job[a].state = "active"
    /\ job' = IF Due(a)
              THEN [job EXCEPT ![a].state = "looked", ![a].told = Told(a)]
              ELSE [job EXCEPT ![a].state = "completed"]
    /\ UNCHANGED <<now, appointment>>

Sendable(j) ==
    \/ j \in Messages /\ job[j].state = "active"
    \/ j \in Appointments /\ job[j].state = "looked"

\* The provider takes the message.  The reminder's row is still to be inserted.
Send(j) ==
    /\ Sendable(j)
    /\ job' = [job EXCEPT ![j].state = IF j \in Messages THEN "completed" ELSE "sent",
                          ![j].sends = @ + 1, ![j].told = NoTime, ![j].changed = FALSE]
    /\ UNCHANGED <<now, appointment>>

\* The provider refuses, or cannot be reached, ...
SendRefused(j) ==
    /\ Sendable(j)
    /\ job' = Failed(j)
    /\ UNCHANGED <<now, appointment>>

\* ... or its answer is lost: the customer got the message.
SendUnanswered(j) ==
    /\ Sendable(j)
    /\ job' = [Failed(j) EXCEPT ![j].sends = @ + 1]
    /\ UNCHANGED <<now, appointment>>

\* The worker dies after the provider took the message.
StallSending(j) ==
    /\ j \in Messages
    /\ job[j].state = "active"
    /\ job[j].stalls < MaxStalls
    /\ job' = [job EXCEPT ![j].state = "waiting", ![j].stalls = @ + 1, ![j].sends = @ + 1]
    /\ UNCHANGED <<now, appointment>>

\* The row for the tenant is inserted and emitted,
Record(a) ==
    /\ job[a].state = "sent"
    /\ job' = [job EXCEPT ![a].state = "completed"]
    /\ UNCHANGED <<now, appointment>>

\* or the insertion fails and the whole job is repeated.
RecordFails(a) ==
    /\ job[a].state = "sent"
    /\ job' = Failed(a)
    /\ UNCHANGED <<now, appointment>>

----------------------------------------------------------------------------

Office(a) ==
    \/ \E start \in Time : Book(a, start) \/ Reschedule(a, start)
    \/ Schedule(a)
    \/ DieUnplanned(a)
    \/ \E status \in {"OPEN", "ENDED"} : SetStatus(a, status)

\* What the worker does of itself.
Work(j) ==
    \/ Promote(j)
    \/ Take(j)
    \/ j \in Appointments /\ (Look(j) \/ Record(j) \/ RecordFails(j))
    \/ Send(j)
    \/ SendRefused(j)
    \/ SendUnanswered(j)

QueueNext ==
    \/ Tick
    \/ \E a \in Appointments : Office(a)
    \/ \E m \in Messages : \E quiet \in BOOLEAN : Post(m, quiet)
    \/ \E j \in Jobs : Work(j) \/ Stall(j) \/ StallSending(j)

QueueSpec == QueueInit /\ [][QueueNext]_queueVars

\* Time passes, and the worker, which every API process starts with, goes on with
\* each job.
Fairness ==
    /\ WF_queueVars(Tick)
    /\ \A j \in Jobs : WF_queueVars(Work(j))

FairQueueSpec == QueueSpec /\ Fairness

----------------------------------------------------------------------------
(* Properties *)

\* A customer gets the same text again only for a failed attempt or a worker that
\* died, and a reminder only for a job that was planned.
RepeatsExplained ==
    \A j \in Jobs :
       /\ job[j].sends <= job[j].tries + job[j].stalls + 1
       /\ job[j].state = "delayed" /\ job[j].sends > 0 => job[j].tries > 0

\* A message with a text for the customer, to one whose phone is known, is not due
\* at night, whenever it was handed in.
NightIsQuiet ==
    \A m \in Messages :
       job[m].quiet /\ job[m].state = "delayed" /\ job[m].tries = 0 => job[m].due \notin Nights

\* No message to a customer is due at night, as a comment of createNotification has
\* it.  It does not hold: see Reminders_night.cfg.
EveryNightIsQuiet ==
    \A m \in Messages :
       job[m].state = "delayed" /\ job[m].tries = 0 => job[m].due \notin Nights

\* Types, repeated texts and the hours of the night.
QueueConsistent == QueueTypeOK /\ RepeatsExplained /\ NightIsQuiet

\* A reminder goes out for an open appointment and tells the start it has, unless
\* the appointment was changed after the worker read it.
RemindsOfTheRow ==
    [][\A a \in Appointments :
          job'[a].sends > job[a].sends =>
             \/ appointment[a].status = "OPEN" /\ job[a].told = appointment[a].start
             \/ job[a].changed]_queueVars

\* Every job that was handed in ends, sent or given up.
EveryJobEnds ==
    \A j \in Jobs : job[j].state # "none" ~> job[j].state \in {"completed", "failed"}
==============================================================================
