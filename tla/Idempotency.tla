----------------------------- MODULE Idempotency -----------------------------
(***************************************************************************)
(* The idempotency interceptor: one key of one user, and the attempts a    *)
(* client makes with it.  Keys do not interact.                            *)
(*                                                                         *)
(* An attempt asks Redis for the key with SET NX EX 60.  If it gets it the *)
(* handler runs and the answer is stored under the key for 24 hours, or    *)
(* the key is deleted when the handler throws; if not, a stored answer is  *)
(* replayed and a handler still running is reported as a conflict.  When   *)
(* Redis does not answer, financial routes refuse and the others run the   *)
(* handler without the key.                                                *)
(***************************************************************************)
EXTENDS Integers, FiniteSets

CONSTANTS
    Attempts,      \* requests sent with the key
    Payloads,      \* method, URL and body, as hashed
    None

ASSUME NoneAssumption == None \notin Attempts \cup Payloads

VARIABLES
    financial,     \* the route is /payments, /invoices or /current-accounts
    up,            \* Redis answers
    entry,         \* what Redis holds under the key
    attempt,       \* the attempts: payload, progress, whose answer they got
    committed,     \* the attempts whose database transaction committed
    lapsed         \* history: the key expired, or a handler ran without it

vars == <<financial, up, entry, attempt, committed, lapsed>>

----------------------------------------------------------------------------
(* Redis and the attempts *)

Entry == [state : {"none", "processing", "done"}, hash : Payloads \cup {None},
          answer : Attempts \cup {None}]

NoEntry == [state |-> "none", hash |-> None, answer |-> None]

\* running: the handler runs.  finished, failed: it returned or threw, Redis
\* has not been told.  answered, replayed, refused: the client has an answer.
\* dead: the process died.
Progress == {"unsent", "sent", "lookup", "running", "finished", "failed",
             "answered", "replayed", "refused", "dead"}

Attempt == [payload : Payloads \cup {None}, progress : Progress,
            answer : Attempts \cup {None}]

TypeOK ==
    /\ financial \in BOOLEAN
    /\ up \in BOOLEAN
    /\ entry \in Entry
    /\ attempt \in [Attempts -> Attempt]
    /\ committed \subseteq Attempts
    /\ lapsed \in BOOLEAN

Init ==
    /\ financial \in BOOLEAN
    /\ up = TRUE
    /\ entry = NoEntry
    /\ attempt = [a \in Attempts |-> [payload |-> None, progress |-> "unsent", answer |-> None]]
    /\ committed = {}
    /\ lapsed = FALSE

At(a, p) == attempt[a].progress = p
Becomes(a, p) == attempt' = [attempt EXCEPT ![a].progress = p]

----------------------------------------------------------------------------
(* The interceptor *)

\* The client sends the request, or sends it again.
Send(a, p) ==
    /\ At(a, "unsent")
    /\ attempt' = [attempt EXCEPT ![a] = [payload |-> p, progress |-> "sent", answer |-> None]]
    /\ UNCHANGED <<financial, up, entry, committed, lapsed>>

\* Variant: SET EX 60 without NX.
Obtained_Always == TRUE

\* SET key PROCESSING:hash EX 60 NX answers OK.
Obtained == entry.state = "none"

Acquire(a) ==
    /\ At(a, "sent")
    /\ up
    /\ IF Obtained
       THEN /\ entry' = [state |-> "processing", hash |-> attempt[a].payload, answer |-> None]
            /\ Becomes(a, "running")
       ELSE /\ Becomes(a, "lookup")
            /\ UNCHANGED entry
    /\ UNCHANGED <<financial, up, committed, lapsed>>

\* Redis is known to be down, or the command fails, possibly after it took effect.
FailAcquire(a) ==
    /\ At(a, "sent")
    /\ \/ UNCHANGED entry
       \/ /\ up
          /\ Obtained
          /\ entry' = [state |-> "processing", hash |-> attempt[a].payload, answer |-> None]
    /\ \/ /\ financial
          /\ Becomes(a, "refused")
          /\ UNCHANGED lapsed
       \/ /\ ~financial
          /\ Becomes(a, "running")
          /\ lapsed' = TRUE
    /\ UNCHANGED <<financial, up, committed>>

\* Variant: the hash of the payload is not compared.
Matches_Any(a) == TRUE

\* The stored answer was given to the same payload.
Matches(a) == entry.hash = attempt[a].payload

\* GET of a key held by someone else.  A failed GET reads as no value.
Lookup(a) ==
    /\ At(a, "lookup")
    /\ IF up /\ entry.state = "done" /\ Matches(a)
       THEN attempt' = [attempt EXCEPT ![a].progress = "replayed", ![a].answer = entry.answer]
       ELSE Becomes(a, "refused")
    /\ UNCHANGED <<financial, up, entry, committed, lapsed>>

----------------------------------------------------------------------------
(* The handler *)

\* The database transaction of the handler commits.
CommitHandler(a) ==
    /\ At(a, "running")
    /\ a \notin committed
    /\ committed' = committed \cup {a}
    /\ UNCHANGED <<financial, up, entry, attempt, lapsed>>

Return(a) ==
    /\ At(a, "running")
    /\ a \in committed
    /\ Becomes(a, "finished")
    /\ UNCHANGED <<financial, up, entry, committed, lapsed>>

\* The handler throws: a check failed, the transaction rolled back, or its
\* COMMIT took effect but the answer of the database was lost.
Throw(a) ==
    /\ At(a, "running")
    /\ Becomes(a, "failed")
    /\ UNCHANGED <<financial, up, entry, committed, lapsed>>

\* Variant: the answer is stored without the hash.
Stored_Unhashed(a) == [state |-> "done", answer |-> a]

\* The answer as stored for 24 hours.
Stored(a) == [state |-> "done", hash |-> attempt[a].payload, answer |-> a]

\* The answer is stored.  A failure to store it is not noticed.
Store(a) ==
    /\ At(a, "finished")
    /\ entry' = IF up THEN Stored(a) ELSE entry
    /\ attempt' = [attempt EXCEPT ![a].progress = "answered", ![a].answer = a]
    /\ UNCHANGED <<financial, up, committed, lapsed>>

\* The key is deleted, whoever holds it by now.
Release(a) ==
    /\ At(a, "failed")
    /\ entry' = IF up THEN NoEntry ELSE entry
    /\ Becomes(a, "refused")
    /\ UNCHANGED <<financial, up, committed, lapsed>>

Die(a) ==
    /\ attempt[a].progress \in {"running", "finished", "failed"}
    /\ Becomes(a, "dead")
    /\ UNCHANGED <<financial, up, entry, committed, lapsed>>

----------------------------------------------------------------------------
(* Time and Redis *)

\* Variant: the lock is set without a time to live.
HasTtl_AnswersOnly == entry.state = "done"

HasTtl == entry.state \in {"processing", "done"}

Expire ==
    /\ HasTtl
    /\ entry' = NoEntry
    /\ lapsed' = TRUE
    /\ UNCHANGED <<financial, up, attempt, committed>>

RedisFails == up /\ up' = FALSE /\ UNCHANGED <<financial, entry, attempt, committed, lapsed>>
RedisReturns == ~up /\ up' = TRUE /\ UNCHANGED <<financial, entry, attempt, committed, lapsed>>

Handle(a) ==
    \/ Acquire(a)
    \/ FailAcquire(a)
    \/ Lookup(a)
    \/ CommitHandler(a)
    \/ Return(a)
    \/ Throw(a)
    \/ Store(a)
    \/ Release(a)
    \/ Die(a)

Next ==
    \/ \E a \in Attempts, p \in Payloads : Send(a, p)
    \/ \E a \in Attempts : Handle(a)
    \/ Expire
    \/ RedisFails
    \/ RedisReturns

Spec == Init /\ [][Next]_vars

\* Redis expires its keys, whether or not anyone can reach it.  Nothing is
\* assumed of the handlers: they may hang or die with their process.
FairSpec == Spec /\ WF_vars(Expire)

----------------------------------------------------------------------------
(* Properties *)

InHandler == {a \in Attempts : attempt[a].progress \in {"running", "finished"}}

\* While the key has not lapsed no two handlers run for it, and at most one of
\* them has an effect, unless a handler threw although it had committed.
KeyExcludes ==
    ~lapsed =>
        /\ Cardinality(InHandler) <= 1
        /\ \/ Cardinality(committed) <= 1
           \/ \E a \in committed : attempt[a].progress \in {"failed", "refused"}

\* A replayed answer is the answer of a handler that committed, to a request
\* with the same payload.
ReplayIsFaithful ==
    \A a \in Attempts : At(a, "replayed") =>
        LET b == attempt[a].answer
        IN  b \in committed /\ attempt[b].payload = attempt[a].payload

\* A process that dies while it holds the key does not block it for ever.
KeyIsFreed == entry.state = "processing" ~> entry.state # "processing"

\* The promise of the interceptor for financial routes: the requests made with
\* one key have one effect.
FinancialAtMostOnce == financial => Cardinality(committed) <= 1

==============================================================================
