\* Kept counterexample.  "DND (Do Not Disturb): Gece 21:30 - 08:30 arasi dis musteri
\* bildirimlerini sabah 09:00'a ertele" (notifications.service.ts:158): a message to a
\* customer waits for the morning.  The text of an approval has no customerMessage
\* (update-appointment-status.use-case.ts:65-74) and is due at once.
SPECIFICATION QueueSpec
CONSTANTS
    Appointments = {a1}
    Messages = {m1}
    Lead = 1
    Nights <- MCNights
    Attempts = 2
    MaxStalls = 1
    Workers = 1
    MaxTime = 3
    NoTime = NoTime
INVARIANT EveryNightIsQuiet
CHECK_DEADLOCK FALSE
