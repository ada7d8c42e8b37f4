-------------------------- MODULE IdempotencyProofs --------------------------
(***************************************************************************)
(* Two components whose names do not clash, proved one after the other.    *)
(* Idempotency: while its key has not lapsed an attempt that holds it      *)
(* excludes all others, and a replayed answer is the answer to the same    *)
(* request, for any number of attempts and payloads.                       *)
(* Customers: redactions form chains, erased data stay erased, and the     *)
(* rules no constraint keeps are broken only by the races they name, for   *)
(* any customers, plates, phones and requests.                             *)
(***************************************************************************)
EXTENDS Idempotency, Customers, FiniteSetTheorems, TLAPS

\* Attempts that hold the key, or did until it lapsed.
Active == {"running", "finished", "failed"}
Failed == {"failed", "refused"}
Effective == {a \in committed : attempt[a].progress \notin Failed}

\* Only a handler commits, and only a handler that committed returns.
CommittedRan ==
    \A a \in Attempts :
        /\ a \in committed =>
              attempt[a].progress \in Active \cup {"answered", "refused", "dead"}
        /\ At(a, "finished") => a \in committed

\* The stored answer is that of a handler that committed, with its payload.
StoredIsFaithful ==
    entry.state = "done" =>
        entry.answer \in committed /\ attempt[entry.answer].payload = entry.hash

\* The key stays while an attempt is active, and after it had an effect.
KeyHeld ==
    ~lapsed =>
        /\ \A a \in Attempts : attempt[a].progress \in Active => entry.state = "processing"
        /\ Effective # {} => entry.state # "none"

\* An active attempt is the only one that is active or had an effect.
Alone ==
    ~lapsed =>
        /\ \A a, b \in Attempts :
              /\ attempt[a].progress \in Active
              /\ attempt[b].progress \in Active \/ b \in Effective
              => a = b
        /\ \A a, b \in Effective : a = b

IInv == TypeOK /\ CommittedRan /\ StoredIsFaithful /\ ReplayIsFaithful /\ KeyHeld /\ Alone

----------------------------------------------------------------------------
(* The tables keep their shape. *)

LEMMA NoEntryType == NoEntry \in Entry
BY DEF NoEntry, Entry

LEMMA InitType == Init => TypeOK
<1> SUFFICES ASSUME Init PROVE TypeOK
  OBVIOUS
<1>1. [payload |-> None, progress |-> "unsent", answer |-> None] \in Attempt
  BY DEF Attempt, Progress
<1>2. QED
  BY <1>1, NoEntryType DEF Init, TypeOK

LEMMA TypeStep == TypeOK /\ [Next]_vars => TypeOK'
<1> SUFFICES ASSUME TypeOK, [Next]_vars PROVE TypeOK'
  OBVIOUS
<1> USE DEF TypeOK
<1>1. ASSUME NEW a \in Attempts, NEW p \in Progress, Becomes(a, p)
      PROVE  attempt' \in [Attempts -> Attempt]
  BY <1>1 DEF Becomes, Attempt
<1>2. ASSUME NEW a \in Attempts, NEW p \in Payloads, Send(a, p) PROVE TypeOK'
  BY <1>2 DEF Send, Attempt, Progress
<1>3. ASSUME NEW a \in Attempts, Acquire(a) PROVE TypeOK'
  <2>1. attempt' \in [Attempts -> Attempt]
    BY <1>1, <1>3 DEF Acquire, Progress
  <2>2. entry' \in Entry
    BY <1>3 DEF Acquire, Entry, Attempt
  <2>3. QED
    BY <1>3, <2>1, <2>2 DEF Acquire
<1>4. ASSUME NEW a \in Attempts, FailAcquire(a) PROVE TypeOK'
  <2>1. attempt' \in [Attempts -> Attempt]
    BY <1>1, <1>4 DEF FailAcquire, Progress
  <2>2. entry' \in Entry
    BY <1>4 DEF FailAcquire, Entry, Attempt
  <2>3. QED
    BY <1>4, <2>1, <2>2 DEF FailAcquire
<1>5. ASSUME NEW a \in Attempts, Lookup(a) PROVE TypeOK'
  <2>1. CASE attempt' = [attempt EXCEPT ![a].progress = "replayed", ![a].answer = entry.answer]
    <3>1. \A x \in Attempt : [x EXCEPT !.progress = "replayed", !.answer = entry.answer] \in Attempt
      BY DEF Attempt, Entry, Progress
    <3>2. attempt' = [attempt EXCEPT ![a] =
             [attempt[a] EXCEPT !.progress = "replayed", !.answer = entry.answer]]
      BY <2>1
    <3>3. attempt' \in [Attempts -> Attempt]
      BY <3>1, <3>2
    <3> QED
      BY <1>5, <3>3 DEF Lookup
  <2>2. CASE Becomes(a, "refused")
    BY <1>1, <1>5, <2>2 DEF Lookup, Progress
  <2>3. QED
    BY <1>5, <2>1, <2>2 DEF Lookup
<1>6. ASSUME NEW a \in Attempts, CommitHandler(a) PROVE TypeOK'
  BY <1>6 DEF CommitHandler
<1>7. ASSUME NEW a \in Attempts, Return(a) \/ Throw(a) \/ Die(a) PROVE TypeOK'
  <2>1. PICK p \in {"finished", "failed", "dead"} : Becomes(a, p)
    BY <1>7, Zenon DEF Return, Throw, Die
  <2>2. attempt' \in [Attempts -> Attempt]
    BY <1>1, <2>1 DEF Progress
  <2>3. UNCHANGED <<financial, up, entry, committed, lapsed>>
    BY <1>7, Zenon DEF Return, Throw, Die
  <2> QED
    BY <2>2, <2>3
<1>8. ASSUME NEW a \in Attempts, Store(a) PROVE TypeOK'
  <2>1. attempt' \in [Attempts -> Attempt]
    <3>1. \A x \in Attempt : [x EXCEPT !.progress = "answered", !.answer = a] \in Attempt
      BY DEF Attempt, Progress
    <3>2. attempt' = [attempt EXCEPT ![a] =
             [attempt[a] EXCEPT !.progress = "answered", !.answer = a]]
      BY <1>8 DEF Store
    <3> QED
      BY <3>1, <3>2
  <2>2. entry' \in Entry
    BY <1>8 DEF Store, Stored, Entry, Attempt
  <2> QED
    BY <1>8, <2>1, <2>2 DEF Store
<1>9. ASSUME NEW a \in Attempts, Release(a) PROVE TypeOK'
  BY <1>1, <1>9, NoEntryType DEF Release, Progress
<1>10. ASSUME Expire PROVE TypeOK'
  BY <1>10, NoEntryType DEF Expire
<1>11. ASSUME RedisFails \/ RedisReturns \/ UNCHANGED vars PROVE TypeOK'
  BY <1>11 DEF RedisFails, RedisReturns, vars
<1>12. QED
  BY <1>2, <1>3, <1>4, <1>5, <1>6, <1>7, <1>8, <1>9, <1>10, <1>11 DEF Next, Handle

\* The attempts, the key and the switches keep the values the interceptor
\* gives them.
THEOREM TypeCorrect == Spec => []TypeOK
BY InitType, TypeStep, PTL DEF Spec

----------------------------------------------------------------------------
(* The key excludes the other attempts. *)

LEMMA InitIInv == Init => IInv
<1> SUFFICES ASSUME Init PROVE IInv
  OBVIOUS
<1>1. \A a \in Attempts : attempt[a].progress = "unsent"
  BY DEF Init
<1>2. entry.state = "none" /\ committed = {}
  BY DEF Init, NoEntry
<1>3. CommittedRan /\ StoredIsFaithful /\ ReplayIsFaithful
  BY <1>1, <1>2 DEF CommittedRan, StoredIsFaithful, ReplayIsFaithful, At
<1>4. KeyHeld /\ Alone
  BY <1>1, <1>2 DEF KeyHeld, Alone, Effective, Active
<1>5. QED
  BY <1>3, <1>4, InitType DEF IInv

\* An attempt of a known payload keeps it, and moves on by itself.
LEMMA OnlyOneMoves ==
    ASSUME TypeOK, NEW a \in Attempts, Handle(a) \/ \E p \in Payloads : Send(a, p)
    PROVE  /\ \A b \in Attempts \ {a} : attempt'[b] = attempt[b]
           /\ ~At(a, "unsent") => attempt'[a].payload = attempt[a].payload
<1>1. CASE \E p \in Payloads : Send(a, p)
  BY <1>1 DEF Send, TypeOK
<1>2. CASE Handle(a)
  <2>1. ASSUME NEW p, Becomes(a, p)
        PROVE  /\ \A b \in Attempts \ {a} : attempt'[b] = attempt[b]
               /\ attempt'[a].payload = attempt[a].payload
    BY <2>1 DEF Becomes, TypeOK, Attempt
  <2>2. CASE Lookup(a)
    BY <2>1, <2>2 DEF Lookup, TypeOK, Attempt
  <2>3. CASE Store(a)
    BY <2>3 DEF Store, TypeOK, Attempt
  <2>4. CASE CommitHandler(a)
    BY <2>4 DEF CommitHandler
  <2>5. QED
    BY <1>2, <2>1, <2>2, <2>3, <2>4
       DEF Handle, Acquire, FailAcquire, Return, Throw, Release, Die
<1>3. QED
  BY <1>1, <1>2

LEMMA ReplayStep ==
    TypeOK /\ CommittedRan /\ StoredIsFaithful /\ ReplayIsFaithful /\ [Next]_vars
        => CommittedRan' /\ StoredIsFaithful' /\ ReplayIsFaithful'
<1> SUFFICES ASSUME TypeOK, CommittedRan, StoredIsFaithful, ReplayIsFaithful, [Next]_vars
             PROVE  CommittedRan' /\ StoredIsFaithful' /\ ReplayIsFaithful'
  OBVIOUS
<1> DEFINE Moves(a) == Handle(a) \/ \E p \in Payloads : Send(a, p)
<1>1. ASSUME NEW a \in Attempts, Moves(a),
             committed' = committed \/ committed' = committed \cup {a},
             a \in committed' =>
                attempt'[a].progress \in Active \cup {"answered", "refused", "dead"},
             attempt'[a].progress = "finished" => a \in committed'
      PROVE  CommittedRan'
  BY <1>1, OnlyOneMoves DEF CommittedRan, At
<1>2. ASSUME NEW a \in Attempts, Moves(a), committed \subseteq committed'
      PROVE  \A b \in committed : b \in committed' /\ attempt'[b].payload = attempt[b].payload
  <2>1. a \in committed => ~At(a, "unsent")
    BY DEF CommittedRan, Active, At
  <2>2. QED
    BY <1>2, <2>1, OnlyOneMoves DEF TypeOK
<1>3. ASSUME NEW a \in Attempts, Moves(a), committed \subseteq committed', entry' \in {entry, NoEntry}
      PROVE  StoredIsFaithful'
  <2>1. CASE entry' = entry
    BY <1>2, <1>3, <2>1 DEF StoredIsFaithful
  <2>2. CASE entry' = NoEntry
    BY <2>2 DEF StoredIsFaithful, NoEntry
  <2>3. QED
    BY <1>3, <2>1, <2>2
<1>4. ASSUME NEW a \in Attempts, Moves(a), committed \subseteq committed',
             attempt'[a].progress # "replayed"
      PROVE  ReplayIsFaithful'
  BY <1>2, <1>4, OnlyOneMoves DEF ReplayIsFaithful, At
<1>5. ASSUME NEW a \in Attempts, NEW q \in Progress, Becomes(a, q)
      PROVE  attempt'[a].progress = q
  BY <1>5 DEF Becomes, TypeOK, Attempt
<1>6. ASSUME NEW a \in Attempts, NEW p \in Payloads, Send(a, p)
      PROVE  CommittedRan' /\ StoredIsFaithful' /\ ReplayIsFaithful'
  <2>1. attempt'[a].progress = "sent" /\ UNCHANGED <<committed, entry>>
    BY <1>6 DEF Send, TypeOK
  <2>2. a \notin committed
    BY <1>6 DEF Send, CommittedRan, Active, At
  <2>3. QED
    BY <1>1, <1>3, <1>4, <1>6, <2>1, <2>2
<1>7. ASSUME NEW a \in Attempts, Acquire(a) \/ FailAcquire(a)
      PROVE  CommittedRan' /\ StoredIsFaithful' /\ ReplayIsFaithful'
  <2>1. attempt'[a].progress \in {"running", "refused", "lookup"} /\ UNCHANGED committed
    BY <1>5, <1>7 DEF Acquire, FailAcquire, Progress
  <2>2. a \notin committed
    BY <1>7 DEF Acquire, FailAcquire, CommittedRan, Active, At
  <2>3. entry' = entry \/ entry'.state = "processing"
    BY <1>7 DEF Acquire, FailAcquire
  <2>4. StoredIsFaithful'
    BY <1>3, <1>7, <2>1, <2>3 DEF StoredIsFaithful, Handle
  <2>5. QED
    BY <1>1, <1>4, <1>7, <2>1, <2>2, <2>4 DEF Handle
<1>8. ASSUME NEW a \in Attempts, Lookup(a)
      PROVE  CommittedRan' /\ StoredIsFaithful' /\ ReplayIsFaithful'
  <2>1. a \notin committed /\ UNCHANGED <<entry, committed>>
    BY <1>8 DEF Lookup, CommittedRan, Active, At
  <2>2. CASE Becomes(a, "refused")
    <3>1. attempt'[a].progress = "refused"
      BY <1>5, <2>2 DEF Progress
    <3>2. QED
      BY <1>1, <1>3, <1>4, <1>8, <2>1, <3>1 DEF Handle
  <2>3. CASE ~Becomes(a, "refused")
    <3>1. /\ entry.state = "done"
          /\ entry.hash = attempt[a].payload
          /\ attempt' = [attempt EXCEPT ![a].progress = "replayed", ![a].answer = entry.answer]
      BY <1>8, <2>3 DEF Lookup, Matches
    <3>2. /\ attempt'[a].progress = "replayed"
          /\ attempt'[a].answer = entry.answer
          /\ attempt'[a].payload = attempt[a].payload
      BY <3>1 DEF TypeOK, Attempt
    <3>3. CommittedRan' /\ StoredIsFaithful'
      BY <1>1, <1>3, <1>8, <2>1, <3>2 DEF Handle
    <3>4. entry.answer \in committed /\ attempt'[entry.answer].payload = entry.hash
      BY <1>2, <1>8, <2>1, <3>1 DEF StoredIsFaithful, Handle
    <3>5. \A b \in Attempts \ {a} : attempt'[b] = attempt[b]
      BY <1>8, OnlyOneMoves DEF Handle
    <3>6. ASSUME NEW b \in Attempts, attempt'[b].progress = "replayed"
          PROVE  /\ attempt'[b].answer \in committed
                 /\ attempt'[attempt'[b].answer].payload = attempt'[b].payload
      <4>1. CASE b = a
        BY <3>1, <3>2, <3>4, <4>1
      <4>2. CASE b # a
        <5>1. /\ attempt[b].answer \in committed
              /\ attempt[attempt[b].answer].payload = attempt[b].payload
          BY <3>5, <3>6, <4>2 DEF ReplayIsFaithful, At
        <5>2. QED
          BY <1>2, <1>8, <2>1, <3>5, <4>2, <5>1 DEF Handle
      <4>3. QED
        BY <4>1, <4>2
    <3>7. QED
      BY <2>1, <3>3, <3>6 DEF ReplayIsFaithful, At
  <2>4. QED
    BY <2>2, <2>3
<1>9. ASSUME NEW a \in Attempts, CommitHandler(a)
      PROVE  CommittedRan' /\ StoredIsFaithful' /\ ReplayIsFaithful'
  <2>1. attempt'[a].progress = "running" /\ committed' = committed \cup {a} /\ UNCHANGED entry
    BY <1>9 DEF CommitHandler, At
  <2>2. QED
    BY <1>1, <1>3, <1>4, <1>9, <2>1 DEF Handle, Active
<1>10. ASSUME NEW a \in Attempts, Return(a) \/ Throw(a) \/ Die(a)
       PROVE  CommittedRan' /\ StoredIsFaithful' /\ ReplayIsFaithful'
  <2>1. /\ attempt'[a].progress \in {"finished", "failed", "dead"}
        /\ attempt'[a].progress = "finished" => a \in committed
        /\ UNCHANGED <<committed, entry>>
    BY <1>5, <1>10 DEF Return, Throw, Die, Progress
  <2>2. QED
    BY <1>1, <1>3, <1>4, <1>10, <2>1 DEF Handle, Active
<1>11. ASSUME NEW a \in Attempts, Store(a)
       PROVE  CommittedRan' /\ StoredIsFaithful' /\ ReplayIsFaithful'
  <2>1. attempt'[a].progress = "answered" /\ UNCHANGED committed /\ a \in committed
    BY <1>11 DEF Store, CommittedRan, TypeOK, Attempt
  <2>2. StoredIsFaithful'
    <3>1. CASE entry' = entry
      BY <1>3, <1>11, <2>1, <3>1 DEF Handle
    <3>2. CASE entry' = Stored(a)
      BY <1>2, <1>11, <2>1, <3>2 DEF StoredIsFaithful, Stored, Handle
    <3>3. QED
      BY <1>11, <3>1, <3>2 DEF Store
  <2>3. QED
    BY <1>1, <1>4, <1>11, <2>1, <2>2 DEF Handle
<1>12. ASSUME NEW a \in Attempts, Release(a)
       PROVE  CommittedRan' /\ StoredIsFaithful' /\ ReplayIsFaithful'
  <2>1. attempt'[a].progress = "refused" /\ UNCHANGED committed /\ entry' \in {entry, NoEntry}
    BY <1>5, <1>12 DEF Release, Progress
  <2>2. QED
    BY <1>1, <1>3, <1>4, <1>12, <2>1 DEF Handle
<1>13. ASSUME Expire \/ RedisFails \/ RedisReturns \/ UNCHANGED vars
       PROVE  CommittedRan' /\ StoredIsFaithful' /\ ReplayIsFaithful'
  <2>1. UNCHANGED <<attempt, committed>> /\ (entry' = entry \/ entry'.state = "none")
    BY <1>13 DEF Expire, RedisFails, RedisReturns, vars, NoEntry
  <2>2. QED
    BY <2>1 DEF CommittedRan, StoredIsFaithful, ReplayIsFaithful, At
<1>14. QED
  BY <1>6, <1>7, <1>8, <1>9, <1>10, <1>11, <1>12, <1>13 DEF Next, Handle

\* A key that has not lapsed is not lent twice.
LEMMA KeyStep == IInv /\ [Next]_vars => KeyHeld' /\ Alone'
<1> SUFFICES ASSUME IInv, [Next]_vars, ~lapsed' PROVE KeyHeld' /\ Alone'
  BY DEF KeyHeld, Alone
<1> USE DEF IInv
<1> DEFINE Moves(a) == Handle(a) \/ \E p \in Payloads : Send(a, p)
<1>1. ~lapsed
  BY DEF Next, Handle, Send, Acquire, FailAcquire, Lookup, CommitHandler, Return, Throw,
         Store, Release, Die, Expire, RedisFails, RedisReturns, vars, TypeOK
<1>2. ASSUME NEW a \in Attempts, NEW q \in Progress, Becomes(a, q)
      PROVE  attempt'[a].progress = q
  BY <1>2 DEF Becomes, TypeOK, Attempt
\* An attempt that is not active and has no effect leaves the key to the others.
<1>3. ASSUME NEW a \in Attempts, Moves(a), attempt'[a].progress \notin Active,
             a \notin Effective', committed' = committed, entry' = entry
      PROVE  KeyHeld' /\ Alone'
  <2>1. \A b \in Attempts \ {a} : attempt'[b] = attempt[b]
    BY <1>3, OnlyOneMoves
  <2>2. Effective' \subseteq Effective
    BY <1>3, <2>1 DEF Effective, TypeOK
  <2>3. QED
    BY <1>1, <1>3, <2>1, <2>2 DEF KeyHeld, Alone
\* An attempt that was active may stay so or have its effect.
<1>4. ASSUME NEW a \in Attempts, Moves(a), attempt[a].progress \in Active,
             committed' \subseteq committed \cup {a}, entry'.state # "none",
             attempt'[a].progress \in Active => entry' = entry
      PROVE  KeyHeld' /\ Alone'
  <2>1. \A b \in Attempts \ {a} : attempt'[b] = attempt[b]
    BY <1>4, OnlyOneMoves
  <2>2. Effective' \subseteq Effective \cup {a}
    BY <1>4, <2>1 DEF Effective, TypeOK
  <2>3. \A b \in Attempts : attempt[b].progress \in Active \/ b \in Effective => b = a
    BY <1>1, <1>4 DEF Alone
  <2>4. \A b \in Attempts : attempt'[b].progress \in Active \/ b \in Effective' => b = a
    BY <2>1, <2>2, <2>3
  <2>5. Effective' \subseteq Attempts
    BY <2>2 DEF Effective, TypeOK
  <2>6. attempt'[a].progress \in Active => entry'.state = "processing"
    BY <1>1, <1>4 DEF KeyHeld
  <2>7. QED
    BY <1>4, <2>4, <2>5, <2>6 DEF KeyHeld, Alone
<1>5. ASSUME NEW a \in Attempts, NEW p \in Payloads, Send(a, p) PROVE KeyHeld' /\ Alone'
  <2>1. attempt'[a].progress = "sent" /\ UNCHANGED <<committed, entry>> /\ a \notin committed
    BY <1>5 DEF Send, TypeOK, CommittedRan, Active, At
  <2>2. QED
    BY <1>3, <1>5, <2>1 DEF Active, Effective
<1>6. ASSUME NEW a \in Attempts, Acquire(a) \/ FailAcquire(a) PROVE KeyHeld' /\ Alone'
  <2>1. a \notin committed /\ committed' = committed
    BY <1>6 DEF Acquire, FailAcquire, CommittedRan, Active, At
  <2>2. a \notin Effective'
    BY <2>1 DEF Effective
  <2>3. CASE attempt'[a].progress \notin Active /\ entry' = entry
    BY <1>3, <1>6, <2>1, <2>2, <2>3 DEF Handle
  <2>4. CASE ~(attempt'[a].progress \notin Active /\ entry' = entry)
    <3>1. /\ entry.state = "none"
          /\ entry'.state = "processing"
      <4>1. CASE Acquire(a)
        <5>1. Becomes(a, "lookup") => attempt'[a].progress = "lookup"
          BY <1>2 DEF Progress
        <5>2. QED
          BY <2>4, <4>1, <5>1 DEF Acquire, Obtained, Active
      <4>2. CASE FailAcquire(a)
        <5>1. Becomes(a, "refused")
          BY <1>1, <4>2 DEF FailAcquire, TypeOK
        <5>2. attempt'[a].progress = "refused"
          BY <1>2, <5>1 DEF Progress
        <5>3. QED
          BY <2>4, <4>2, <5>2 DEF FailAcquire, Obtained, Active
      <4>3. QED
        BY <1>6, <4>1, <4>2
    <3>2. \A b \in Attempts \ {a} : attempt'[b] = attempt[b]
      BY <1>6, OnlyOneMoves DEF Handle
    <3>3. Effective = {} /\ \A b \in Attempts : attempt[b].progress \notin Active
      BY <1>1, <3>1 DEF KeyHeld
    <3>4. Effective' = {}
      BY <2>1, <2>2, <3>2, <3>3 DEF Effective, TypeOK
    <3>5. QED
      BY <3>1, <3>2, <3>3, <3>4 DEF KeyHeld, Alone
  <2>5. QED
    BY <2>3, <2>4
<1>7. ASSUME NEW a \in Attempts, Lookup(a) PROVE KeyHeld' /\ Alone'
  <2>1. attempt'[a].progress \in {"replayed", "refused"} /\ UNCHANGED <<committed, entry>>
    <3>1. CASE Becomes(a, "refused")
      BY <1>2, <1>7, <3>1 DEF Lookup, Progress
    <3>2. CASE attempt' = [attempt EXCEPT ![a].progress = "replayed", ![a].answer = entry.answer]
      BY <1>7, <3>2 DEF Lookup, TypeOK, Attempt
    <3>3. QED
      BY <1>7, <3>1, <3>2 DEF Lookup
  <2>2. a \notin committed
    BY <1>7 DEF Lookup, CommittedRan, Active, At
  <2>3. QED
    BY <1>3, <1>7, <2>1, <2>2 DEF Handle, Active, Effective
<1>8. ASSUME NEW a \in Attempts,
             CommitHandler(a) \/ Return(a) \/ Throw(a) \/ Die(a) \/ Store(a)
      PROVE  KeyHeld' /\ Alone'
  <2>1. attempt[a].progress \in Active
    BY <1>8 DEF CommitHandler, Return, Throw, Die, Store, At, Active
  <2>2. entry.state # "none"
    BY <1>1, <2>1 DEF KeyHeld
  <2>3. committed' \subseteq committed \cup {a}
    BY <1>8 DEF CommitHandler, Return, Throw, Die, Store
  <2>4. entry' = entry \/ (entry'.state = "done" /\ attempt'[a].progress = "answered")
    <3>1. CASE Store(a)
      BY <3>1 DEF Store, Stored, TypeOK, Attempt
    <3>2. CASE ~Store(a)
      BY <1>8, <3>2 DEF CommitHandler, Return, Throw, Die
    <3>3. QED
      BY <3>1, <3>2
  <2>5. QED
    BY <1>4, <1>8, <2>1, <2>2, <2>3, <2>4 DEF Handle, Active
\* The key is deleted by the only attempt that was active.
<1>9. ASSUME NEW a \in Attempts, Release(a) PROVE KeyHeld' /\ Alone'
  <2>1. attempt'[a].progress = "refused" /\ committed' = committed /\ attempt[a].progress \in Active
    BY <1>2, <1>9 DEF Release, Progress, At, Active
  <2>2. \A b \in Attempts \ {a} : attempt'[b] = attempt[b]
    BY <1>9, OnlyOneMoves DEF Handle
  <2>3. \A b \in Attempts : attempt[b].progress \in Active \/ b \in Effective => b = a
    BY <1>1, <2>1 DEF Alone
  <2>4. \A b \in Attempts : attempt'[b].progress \notin Active
    BY <2>1, <2>2, <2>3 DEF Active
  <2>5. Effective' = {}
    BY <2>1, <2>2, <2>3 DEF Effective, Failed, TypeOK
  <2>6. QED
    BY <2>4, <2>5 DEF KeyHeld, Alone
<1>10. ASSUME Expire \/ RedisFails \/ RedisReturns \/ UNCHANGED vars PROVE KeyHeld' /\ Alone'
  <2>1. UNCHANGED <<attempt, committed, entry>>
    BY <1>10 DEF Expire, RedisFails, RedisReturns, vars
  <2>2. Effective' = Effective
    BY <2>1 DEF Effective
  <2>3. QED
    BY <1>1, <2>1, <2>2 DEF KeyHeld, Alone
<1>11. QED
  BY <1>5, <1>6, <1>7, <1>8, <1>9, <1>10 DEF Next, Handle

LEMMA IInvStep == IInv /\ [Next]_vars => IInv'
BY TypeStep, ReplayStep, KeyStep DEF IInv

\* A set whose members are all equal has at most one.
LEMMA AtMostOne ==
    ASSUME NEW S, \A x, y \in S : x = y
    PROVE  Cardinality(S) <= 1
<1>1. CASE S = {}
  BY <1>1, FS_EmptySet
<1>2. CASE S # {}
  <2>1. PICK x \in S : S = {x}
    BY <1>2
  <2>2. Cardinality(S) = 1
    BY <2>1, FS_Singleton
  <2>3. QED
    BY <2>2
<1>3. QED
  BY <1>1, <1>2

LEMMA IInvExcludes == IInv => KeyExcludes
<1> SUFFICES ASSUME IInv, ~lapsed PROVE KeyExcludes
  BY DEF KeyExcludes
<1>1. Cardinality(InHandler) <= 1
  <2>1. \A a, b \in InHandler : a = b
    BY DEF IInv, Alone, Active, InHandler
  <2>2. QED
    BY <2>1, AtMostOne
<1>2. CASE committed = Effective
  <2>1. Cardinality(committed) <= 1
    BY <1>2, AtMostOne DEF IInv, Alone
  <2>2. QED
    BY <1>1, <2>1 DEF KeyExcludes
<1>3. CASE committed # Effective
  <2>1. \E a \in committed : attempt[a].progress \in {"failed", "refused"}
    BY <1>3 DEF Effective, Failed
  <2>2. QED
    BY <1>1, <2>1 DEF KeyExcludes
<1>4. QED
  BY <1>2, <1>3

LEMMA Invariance == Spec => []IInv
BY InitIInv, IInvStep, PTL DEF Spec

\* As long as the key has not lapsed, two handlers never run for it and only
\* one has an effect, unless one threw after its commit.
THEOREM Exclusion == Spec => []KeyExcludes
<1>1. Spec => []IInv
  BY Invariance
<1>2. QED
  BY <1>1, IInvExcludes, PTL

\* A client is never given the answer to another request, or the answer of a
\* handler whose transaction did not commit.
THEOREM FaithfulReplay == Spec => []ReplayIsFaithful
<1>1. Spec => []IInv
  BY Invariance
<1>2. IInv => ReplayIsFaithful
  BY DEF IInv
<1>3. QED
  BY <1>1, <1>2, PTL

----------------------------------------------------------------------------
(* Customers: the inductive invariant *)

Made == {c \in Customers : customer[c].made}

\* What a request under way has checked or found, with the customers made by then.
Knows(x, made) ==
    x.phase \notin {"unsent", "done"} =>
       /\ x.op \in {"update", "archive", "restore", "anonymize"} => x.customer \in made
       /\ x.op \in {"addVehicle", "transfer", "link", "confirm", "direct"} =>
             x.customer \in Customers
       /\ x.op = "book" /\ x.phase # "read" => x.customer \in Customers
       /\ x.op \in {"create", "lead", "book"} => x.phone \in Phones
       /\ x.op \in {"lead", "book", "addVehicle", "transfer", "removeVehicle"} =>
             x.plate \in Plates
       /\ x.op \in {"lead", "import", "book"} => x.seen \subseteq made
       /\ x.op = "create" => x.seen = {}
       /\ x.op = "update" => x.seen \subseteq {x.customer} /\ x.row \in CustomerRow
       /\ x.op = "update" /\ x.phase = "checked" => x.flag
       /\ x.op = "archive" => ~Keeps(x.held)
       /\ x.op = "anonymize" => ~Binds(x.held)

Redacting(r) == Doing(r, "anonymize", "tx")

\* A customer's row is taken by one redaction at a time, which has read the last one.
Chained ==
    /\ \A i \in DOMAIN redactions : redactions[i].previous < i
    /\ \A r \in Requests : Redacting(r) =>
          /\ request[r].last <= Len(redactions)
          /\ \A i \in DOMAIN redactions :
                redactions[i].customer = request[r].customer => i <= request[r].last
    /\ \A r, s \in Requests :
          r # s /\ Redacting(r) /\ Redacting(s) => request[r].customer # request[s].customer
    /\ CustomerChained

CustomerIInv ==
    /\ CustomerTypeOK
    /\ \A c \in Customers : customer[c].deleted => customer[c].made
    /\ \A r \in Requests : Knows(request[r], Made)
    /\ Chained
    /\ CommercialWithKvkk

----------------------------------------------------------------------------
(* Customers: requests begin, go on and end *)

\* The request that has ended, for whatever reason.
Over == [Unsent EXCEPT !.phase = "done"]

LEMMA UnsentTyped == Unsent \in Request /\ Over \in Request
BY DEF Unsent, Over, Request, Claims

LEMMA OverFields == Over.phase = "done" /\ Unsent.phase = "unsent"
BY DEF Unsent, Over

LEMMA NewCustomerTyped ==
    \A p \in Phones : \A data \in SUBSET Data : NewCustomer(p, data) \in CustomerRow
BY DEF NewCustomer, CustomerRow

LEMMA NewCustomerMade ==
    \A p, data : /\ NewCustomer(p, data).made /\ ~NewCustomer(p, data).deleted
                 /\ NewCustomer(p, data).phone = p
BY DEF NewCustomer

LEMMA CustomerInitInv == CustomerInit => CustomerIInv
<1> SUFFICES ASSUME CustomerInit PROVE CustomerIInv
  OBVIOUS
<1>1. request \in [Requests -> Request] /\ \A r \in Requests : request[r] = Unsent
  BY UnsentTyped DEF CustomerInit
<1>2. redactions \in Seq([customer : Customers, previous : Nat])
  BY DEF CustomerInit
<1>3. CustomerTypeOK
  <2>1. customer \in [Customers -> CustomerRow] /\ vehicle \in [Plates -> VehicleRow]
    BY InitialAssumption DEF CustomerInit
  <2>2. approved \in [kvkk : SUBSET Customers, commercial : SUBSET Customers]
    BY DEF CustomerInit
  <2> QED
    BY <1>1, <1>2, <2>1, <2>2 DEF CustomerTypeOK, CustomerInit
<1>4. \A c \in Customers : customer[c].deleted => customer[c].made
  BY InitialAssumption DEF CustomerInit
<1>5. \A r \in Requests : Knows(request[r], Made)
  BY <1>1, OverFields DEF Knows
<1>6. Chained
  <2>1. DOMAIN redactions = {}
    BY DEF CustomerInit
  <2>2. \A r \in Requests : ~Redacting(r)
    BY <1>1, OverFields DEF Redacting, Doing
  <2> QED
    BY <2>1, <2>2 DEF Chained, CustomerChained
<1>7. CommercialWithKvkk
  BY DEF CustomerInit, CommercialWithKvkk
<1> QED
  BY <1>3, <1>4, <1>5, <1>6, <1>7 DEF CustomerIInv

\* What was found stays found when no customer is unmade.
LEMMA KnowsStays ==
    ASSUME NEW x, NEW made, NEW more, made \subseteq more, Knows(x, made)
    PROVE  Knows(x, more)
BY DEF Knows

\* The customers of a step: rows keep their shape, and no customer is unmade.
Grown ==
    /\ customer' \in [Customers -> CustomerRow]
    /\ \A c \in Customers : customer[c].made => customer'[c].made
    /\ \A c \in Customers : customer'[c].deleted => customer'[c].made

LEMMA GrownMade == ASSUME Grown PROVE Made \subseteq Made'
BY DEF Grown, Made

LEMMA SameGrown == ASSUME CustomerIInv, UNCHANGED customer PROVE Grown
BY DEF CustomerIInv, CustomerTypeOK, Grown

\* A step of one request that appends no redaction.
LEMMA RequestStep ==
    ASSUME CustomerIInv, Grown, NEW r \in Requests, NEW x \in Request,
           request' = [request EXCEPT ![r] = x],
           x.phase = "tx" => x.op # "anonymize",
           Knows(x, Made'),
           vehicle' \in [Plates -> VehicleRow],
           UNCHANGED <<claim, expired, redactions>>,
           link' \in [Requests -> Customers \cup {Null}],
           approved' \in [kvkk : SUBSET Customers, commercial : SUBSET Customers],
           CommercialWithKvkk'
    PROVE  CustomerIInv'
<1>1. request \in [Requests -> Request] /\ CustomerTypeOK
  BY DEF CustomerIInv, CustomerTypeOK
<1>2. request'[r] = x /\ \A s \in Requests \ {r} : request'[s] = request[s]
  BY <1>1
<1>3. CustomerTypeOK'
  BY <1>1 DEF CustomerTypeOK, Grown
<1>4. \A s \in Requests : Knows(request[s], Made)'
  <2> SUFFICES ASSUME NEW s \in Requests PROVE Knows(request'[s], Made')
    BY DEF Knows
  <2>1. CASE s = r
    BY <1>2, <2>1
  <2>2. CASE s # r
    BY <1>2, <2>2, GrownMade, KnowsStays DEF CustomerIInv
  <2> QED
    BY <2>1, <2>2
<1>5. Chained'
  <2>1. ~Redacting(r)'
    BY <1>2 DEF Redacting, Doing
  <2>2. \A s \in Requests : Redacting(s)' => Redacting(s) /\ request'[s] = request[s]
    BY <1>2, <2>1 DEF Redacting, Doing
  <2> QED
    BY <2>2 DEF CustomerIInv, Chained, CustomerChained
<1> QED
  BY <1>3, <1>4, <1>5 DEF CustomerIInv, Grown

LEMMA BeginStep ==
    ASSUME CustomerIInv, NEW r \in Requests, NEW op \in Ops, NEW fields \in Request,
           Begin(r, op, fields),
           Knows([fields EXCEPT !.op = op, !.phase = "read"], Made)
    PROVE  CustomerIInv'
<1> DEFINE x == [fields EXCEPT !.op = op, !.phase = "read"]
<1>1. x \in Request /\ x.phase = "read"
  BY DEF Request
<1>2. Knows(x, Made)
  OBVIOUS
<1>3. request' = [request EXCEPT ![r] = x]
  BY DEF Begin
<1> HIDE DEF x
<1>4. Grown /\ UNCHANGED <<vehicle, claim, link, expired, approved, redactions>>
  BY SameGrown DEF Begin
<1>5. Knows(x, Made')
  BY <1>2, <1>4, GrownMade, KnowsStays
<1>6. CommercialWithKvkk'
  BY <1>4 DEF CustomerIInv, CommercialWithKvkk
<1> QED
  BY <1>1, <1>3, <1>4, <1>5, <1>6, RequestStep DEF CustomerIInv, CustomerTypeOK

\* A request that ends, whatever it wrote of customers and vehicles.
LEMMA EndStep ==
    ASSUME CustomerIInv, Grown, NEW r \in Requests, End(r),
           vehicle' \in [Plates -> VehicleRow],
           UNCHANGED <<claim, expired, redactions>>,
           link' \in [Requests -> Customers \cup {Null}],
           approved' \in [kvkk : SUBSET Customers, commercial : SUBSET Customers],
           CommercialWithKvkk'
    PROVE  CustomerIInv'
<1>1. request' = [request EXCEPT ![r] = Over]
  BY DEF End, Over
<1>2. Knows(Over, Made')
  BY OverFields DEF Knows
<1> QED
  BY <1>1, <1>2, OverFields, UnsentTyped, RequestStep

\* One that leaves consents alone.
LEMMA WriteStep ==
    ASSUME CustomerIInv, Grown, NEW r \in Requests, End(r),
           vehicle' \in [Plates -> VehicleRow],
           UNCHANGED <<claim, link, expired, approved, redactions>>
    PROVE  CustomerIInv'
<1>1. CommercialWithKvkk'
  BY DEF CustomerIInv, CommercialWithKvkk
<1> QED
  BY <1>1, EndStep DEF CustomerIInv, CustomerTypeOK

----------------------------------------------------------------------------
(* Customers: each request begins with what it has looked at *)

LEMMA HoldersMade ==
    /\ \A p : Holders(p) \subseteq Made
    /\ Made \subseteq Customers
    /\ \A c : Live(c) => c \in Made
BY DEF Holders, Live, Made

LEMMA ClaimsTyped == CustomerIInv => \A c \in Customers : claim[c] \in Claims \cup {Null}
BY DEF CustomerIInv, CustomerTypeOK

LEMMA RowsTyped == CustomerIInv => \A c \in Customers : customer[c] \in CustomerRow
BY DEF CustomerIInv, CustomerTypeOK

LEMMA StartCreateStep ==
    ASSUME CustomerIInv, NEW r \in Requests, NEW p \in Phones, NEW flag \in BOOLEAN,
           StartCreate(r, p, flag)
    PROVE  CustomerIInv'
<1> DEFINE f == [Unsent EXCEPT !.phone = p, !.seen = Holders(p), !.flag = flag]
<1>1. Begin(r, "create", f) /\ Holders(p) = {}
  BY NullAssumption DEF StartCreate, Free, Holders
<1>2. f \in Request /\ f.seen = {} /\ f.phone = p
  BY <1>1, UnsentTyped DEF Request
<1> HIDE DEF f
<1>3. Knows([f EXCEPT !.op = "create", !.phase = "read"], Made)
  BY <1>2 DEF Knows, Request
<1> QED
  BY <1>1, <1>2, <1>3, BeginStep, Zenon DEF Ops

LEMMA StartUpdateStep ==
    ASSUME CustomerIInv, NEW r \in Requests, NEW c \in Customers,
           NEW p \in Phones \cup {Null}, NEW data \in SUBSET {"identity"},
           StartUpdate(r, c, p, data)
    PROVE  CustomerIInv'
<1> DEFINE found == IF p = Null THEN {} ELSE Holders(p)
           row == [customer[c] EXCEPT !.personal = @ \cup data]
           f == [Unsent EXCEPT !.customer = c, !.phone = p, !.seen = found, !.row = row]
<1>1. Begin(r, "update", f) /\ found \subseteq {c} /\ found \subseteq Customers /\ c \in Made
  BY HoldersMade DEF StartUpdate, Free
<1>row. row \in CustomerRow
  BY RowsTyped DEF CustomerRow, Data
<1> HIDE DEF found, row
<1>2. f \in Request /\ f.seen = found /\ f.customer = c /\ f.row = row
  BY <1>1, <1>row, UnsentTyped DEF Request
<1> HIDE DEF f
<1>3. Knows([f EXCEPT !.op = "update", !.phase = "read"], Made)
  BY <1>1, <1>2, <1>row DEF Knows, Request
<1> QED
  BY <1>1, <1>2, <1>3, BeginStep, Zenon DEF Ops

LEMMA StartArchiveStep ==
    ASSUME CustomerIInv, NEW r \in Requests, NEW c \in Customers,
           StartArchive(r, c) \/ StartRestore(r, c) \/ StartAnonymize(r, c)
    PROVE  CustomerIInv'
<1> DEFINE f == [Unsent EXCEPT !.customer = c, !.held = claim[c]]
           g == [Unsent EXCEPT !.customer = c]
<1>1. f \in Request /\ f.customer = c /\ f.held = claim[c]
  BY UnsentTyped, ClaimsTyped DEF Request
<1>2. g \in Request /\ g.customer = c
  BY UnsentTyped DEF Request
<1>3. CASE StartArchive(r, c)
  <2>1. Begin(r, "archive", f) /\ c \in Made /\ ~Keeps(claim[c])
    BY <1>3, HoldersMade DEF StartArchive
  <2> HIDE DEF f
  <2>2. Knows([f EXCEPT !.op = "archive", !.phase = "read"], Made)
    BY <1>1, <2>1 DEF Knows, Request
  <2> QED
    BY <1>1, <2>1, <2>2, BeginStep, Zenon DEF Ops
<1>4. CASE StartRestore(r, c)
  <2>1. Begin(r, "restore", g) /\ c \in Made
    BY <1>4 DEF StartRestore, Made
  <2> HIDE DEF g
  <2>2. Knows([g EXCEPT !.op = "restore", !.phase = "read"], Made)
    BY <1>2, <2>1 DEF Knows, Request
  <2> QED
    BY <1>2, <2>1, <2>2, BeginStep, Zenon DEF Ops
<1>5. CASE StartAnonymize(r, c)
  <2>1. Begin(r, "anonymize", f) /\ c \in Made /\ ~Binds(claim[c])
    BY <1>5, HoldersMade DEF StartAnonymize
  <2> HIDE DEF f
  <2>2. Knows([f EXCEPT !.op = "anonymize", !.phase = "read"], Made)
    BY <1>1, <2>1 DEF Knows, Request
  <2> QED
    BY <1>1, <2>1, <2>2, BeginStep, Zenon DEF Ops
<1> QED
  BY <1>3, <1>4, <1>5

LEMMA StartLeadStep ==
    ASSUME CustomerIInv, NEW r \in Requests, NEW p \in Phones, NEW v \in Plates,
           StartLead(r, p, v)
    PROVE  CustomerIInv'
<1> DEFINE f == [Unsent EXCEPT !.phone = p, !.plate = v, !.seen = Holders(p)]
<1>1. Begin(r, "lead", f)
  BY Zenon DEF StartLead
<1>2. f \in Request /\ f.seen = Holders(p) /\ f.phone = p /\ f.plate = v
  BY UnsentTyped, Zenon DEF Request, Holders
<1> HIDE DEF f
<1>3. Knows([f EXCEPT !.op = "lead", !.phase = "read"], Made)
  BY <1>2, HoldersMade DEF Knows, Request
<1> QED
  BY <1>1, <1>2, <1>3, BeginStep, Zenon DEF Ops

LEMMA StartBookStep ==
    ASSUME CustomerIInv, NEW r \in Requests, NEW p \in Phones, NEW v \in Plates,
           StartBook(r, p, v)
    PROVE  CustomerIInv'
<1> DEFINE found == {c \in Customers : customer[c].made /\ customer[c].phone = p}
<1>1. PICK seen \in IF found = {} THEN {{}} ELSE {{c} : c \in found} :
         Begin(r, "book", [Unsent EXCEPT !.phone = p, !.plate = v, !.seen = seen,
            !.row = IF seen = {} THEN Null ELSE customer[CHOOSE c \in seen : TRUE]])
  BY Zenon DEF StartBook
<1>2. seen \subseteq Made /\ seen \subseteq Customers
  BY DEF Made
<1> HIDE DEF found
<1> DEFINE row == IF seen = {} THEN Null ELSE customer[CHOOSE c \in seen : TRUE]
           f == [Unsent EXCEPT !.phone = p, !.plate = v, !.seen = seen, !.row = row]
<1>3. row \in CustomerRow \cup {Null}
  <2>1. seen # {} => (CHOOSE c \in seen : TRUE) \in Customers
    BY <1>2
  <2> QED
    BY <2>1, RowsTyped
<1> HIDE DEF row
<1>4. f \in Request /\ f.seen = seen /\ f.phone = p /\ f.plate = v
  BY <1>2, <1>3, UnsentTyped DEF Request
<1>5. Begin(r, "book", f)
  BY <1>1, Zenon DEF row
<1> HIDE DEF f
<1>6. Knows([f EXCEPT !.op = "book", !.phase = "read"], Made)
  BY <1>2, <1>4 DEF Knows, Request
<1> QED
  BY <1>4, <1>5, <1>6, BeginStep, Zenon DEF Ops

LEMMA StartImportStep ==
    ASSUME CustomerIInv, NEW r \in Requests, NEW p \in Phones \cup {Null},
           NEW v \in Plates \cup {Null}, NEW flag \in BOOLEAN, StartImport(r, p, v, flag)
    PROVE  CustomerIInv'
<1> DEFINE found == UNION {Holders(q) : q \in Candidates(p)}
<1>1. PICK seen \in IF found = {} THEN {{}} ELSE {{c} : c \in found} :
         Begin(r, "import", [Unsent EXCEPT !.phone = p, !.plate = v,
                                           !.seen = seen, !.flag = flag])
  BY Zenon DEF StartImport
<1>2. seen \subseteq Made /\ seen \subseteq Customers
  <2>1. found \subseteq Made
    BY HoldersMade
  <2> HIDE DEF found
  <2> QED
    BY <2>1 DEF Made
<1> HIDE DEF found
<1> DEFINE f == [Unsent EXCEPT !.phone = p, !.plate = v, !.seen = seen, !.flag = flag]
<1>4. f \in Request /\ f.seen = seen
  <2>1. Unsent \in Request /\ seen \in SUBSET Customers
    BY <1>2, UnsentTyped
  <2> DEFINE g == [Unsent EXCEPT !.phone = p, !.plate = v]
  <2>2. g \in Request
    BY <2>1 DEF Request
  <2> HIDE DEF g
  <2> DEFINE h == [g EXCEPT !.seen = seen]
  <2>3. h \in Request /\ h.seen = seen
    BY <2>1, <2>2 DEF Request
  <2> HIDE DEF h
  <2>4. [h EXCEPT !.flag = flag] \in Request /\ [h EXCEPT !.flag = flag].seen = seen
    BY <2>3 DEF Request
  <2> QED
    BY <2>4, Zenon DEF g, h
<1>5. Begin(r, "import", f)
  BY <1>1, Zenon
<1> HIDE DEF f
<1>6. Knows([f EXCEPT !.op = "import", !.phase = "read"], Made)
  BY <1>2, <1>4 DEF Knows, Request
<1> QED
  BY <1>4, <1>5, <1>6, BeginStep, Zenon DEF Ops

LEMMA StartVehicleStep ==
    ASSUME CustomerIInv, NEW r \in Requests, NEW v \in Plates,
           \/ \E c \in Customers : StartAddVehicle(r, c, v) \/ StartTransfer(r, c, v)
           \/ StartRemoveVehicle(r, v)
    PROVE  CustomerIInv'
<1>1. ASSUME NEW c \in Customers, StartAddVehicle(r, c, v) \/ StartTransfer(r, c, v)
      PROVE  CustomerIInv'
  <2> DEFINE f == [Unsent EXCEPT !.customer = c, !.plate = v]
  <2>1. f \in Request /\ f.customer = c /\ f.plate = v
    BY UnsentTyped DEF Request
  <2>2. Begin(r, "addVehicle", f) \/ Begin(r, "transfer", f)
    BY <1>1, Zenon DEF StartAddVehicle, StartTransfer
  <2> HIDE DEF f
  <2>3. \A op \in {"addVehicle", "transfer"} :
           Knows([f EXCEPT !.op = op, !.phase = "read"], Made)
    BY <2>1 DEF Knows, Request
  <2> QED
    BY <2>1, <2>2, <2>3, BeginStep, Zenon DEF Ops
<1>2. CASE StartRemoveVehicle(r, v)
  <2> DEFINE f == [Unsent EXCEPT !.plate = v]
  <2>1. f \in Request /\ f.plate = v
    BY UnsentTyped DEF Request
  <2>2. Begin(r, "removeVehicle", f)
    BY <1>2 DEF StartRemoveVehicle
  <2> HIDE DEF f
  <2>3. Knows([f EXCEPT !.op = "removeVehicle", !.phase = "read"], Made)
    BY <2>1 DEF Knows, Request
  <2> QED
    BY <2>1, <2>2, <2>3, BeginStep, Zenon DEF Ops
<1> QED
  BY <1>1, <1>2

LEMMA StartConsentStep ==
    ASSUME CustomerIInv, NEW r \in Requests,
           \/ \E c \in Customers : StartLink(r, c)
           \/ \E t \in Requests, flag \in BOOLEAN : StartConfirm(r, t, flag)
           \/ \E c \in Customers, flag \in BOOLEAN : StartDirect(r, c, flag)
    PROVE  CustomerIInv'
<1>1. ASSUME NEW f \in Request, f.customer \in Customers,
             NEW op \in {"link", "confirm", "direct"}, Begin(r, op, f)
      PROVE  CustomerIInv'
  <2>1. Knows([f EXCEPT !.op = op, !.phase = "read"], Made)
    BY <1>1 DEF Knows, Request
  <2> QED
    BY <1>1, <2>1, BeginStep, Zenon DEF Ops
<1>2. ASSUME NEW c \in Customers, StartLink(r, c) PROVE CustomerIInv'
  <2> DEFINE f == [Unsent EXCEPT !.customer = c]
  <2>1. f \in Request /\ f.customer = c /\ Begin(r, "link", f)
    BY <1>2, UnsentTyped DEF Request, StartLink
  <2> QED
    BY <1>1, <2>1, Zenon
<1>3. ASSUME NEW c \in Customers, NEW flag \in BOOLEAN, NEW op \in {"confirm", "direct"},
             Begin(r, op, [Unsent EXCEPT !.customer = c, !.flag = flag])
      PROVE  CustomerIInv'
  <2> DEFINE f == [Unsent EXCEPT !.customer = c, !.flag = flag]
  <2>1. f \in Request /\ f.customer = c /\ Begin(r, op, f)
    BY <1>3, UnsentTyped DEF Request
  <2> QED
    BY <1>1, <2>1, Zenon
<1>4. ASSUME NEW t \in Requests, NEW flag \in BOOLEAN, StartConfirm(r, t, flag)
      PROVE  CustomerIInv'
  <2>1. link[t] \in Customers
    BY <1>4, Zenon DEF StartConfirm, CustomerIInv, CustomerTypeOK
  <2> QED
    BY <1>3, <1>4, <2>1, Zenon DEF StartConfirm
<1>5. ASSUME NEW c \in Customers, NEW flag \in BOOLEAN, StartDirect(r, c, flag)
      PROVE  CustomerIInv'
  BY <1>3, <1>5, Zenon DEF StartDirect
<1> QED
  BY <1>2, <1>4, <1>5, Zenon

LEMMA StartKeeps ==
    ASSUME CustomerIInv, NEW r \in Requests, Start(r) PROVE CustomerIInv'
BY StartCreateStep, StartUpdateStep, StartArchiveStep, StartLeadStep, StartBookStep,
   StartImportStep, StartVehicleStep, StartConsentStep, Zenon DEF Start

----------------------------------------------------------------------------
(* Customers: what a step changes of a customer *)

\* The row of an unmade customer is written, by a request that had found none.
Makes(r, c) ==
    /\ ~customer[c].made
    /\ request[r].seen = {}
    /\ customer'[c].made /\ ~customer'[c].deleted
    /\ \/ customer'[c].phone \in Looked(r)
       \/ Doing(r, "import", "read") /\ Looked(r) = {}

\* The entity as read is written over the row that save had found.
Saves(r, c) ==
    /\ Doing(r, "update", "checked") /\ request[r].flag
    /\ request[r].customer = c /\ request[r].seen \subseteq {c}
    /\ customer'[c].made = customer[c].made /\ customer'[c].deleted = customer[c].deleted
    /\ customer'[c].phone \in Looked(r) \/ WritesBack(r, customer'[c].phone)

\* An import fills in what it has.
Fills(r, c) ==
    /\ Doing(r, "import", "read") /\ c \in request[r].seen
    /\ customer'[c].made = customer[c].made /\ customer'[c].deleted = customer[c].deleted
    /\ customer'[c].phone = customer[c].phone

\* A customer is archived, with every vehicle.
Archives(r, c) ==
    /\ Doing(r, "archive", "read") /\ request[r].customer = c /\ ~Keeps(request[r].held)
    /\ customer'[c] = [customer[c] EXCEPT !.deleted = TRUE]
    /\ \A v \in Plates : vehicle[v].owner = c => vehicle'[v].deleted

\* A customer is brought back.
Revives(c) ==
    /\ customer[c].made
    /\ customer'[c] = [customer[c] EXCEPT !.deleted = FALSE]

\* A customer is anonymised.
Redacts(r, c) ==
    /\ Redacting(r) /\ request[r].customer = c /\ ~Binds(request[r].held)
    /\ customer'[c].made = customer[c].made
    /\ customer'[c].deleted /\ customer'[c].phone = Masked
    /\ "identity" \notin customer'[c].personal

Changes(r, c) ==
    \/ Makes(r, c)
    \/ Saves(r, c)
    \/ Fills(r, c)
    \/ Archives(r, c)
    \/ Revives(c)
    \/ Redacts(r, c)

\* One customer at most is changed, and in one of these ways.
OneCustomer(r) ==
    \/ UNCHANGED customer
    \/ \E c \in Customers :
          /\ Changes(r, c)
          /\ \A d \in Customers \ {c} : customer'[d] = customer[d]

LEMMA EndMoves ==
    ASSUME CustomerIInv, NEW r \in Requests, End(r), request[r].phase # "done"
    PROVE  request'[r] # request[r]
BY OverFields DEF CustomerIInv, CustomerTypeOK, End, Over

\* One customer changed in one of these ways is not unmade.
LEMMA ChangesGrow ==
    ASSUME CustomerIInv, NEW r \in Requests, NEW c \in Customers, NEW row \in CustomerRow,
           customer' = [customer EXCEPT ![c] = row],
           Changes(r, c)
    PROVE  Grown /\ OneCustomer(r)
<1>1. /\ customer \in [Customers -> CustomerRow]
      /\ \A d \in Customers : customer[d].deleted => customer[d].made
  BY DEF CustomerIInv, CustomerTypeOK
<1>2. customer'[c] = row /\ \A d \in Customers \ {c} : customer'[d] = customer[d]
  BY <1>1
<1>3. (customer[c].made => row.made) /\ (row.deleted => row.made)
  <2>1. CASE Makes(r, c)
    BY <1>2, <2>1 DEF Makes
  <2>2. CASE Saves(r, c) \/ Fills(r, c) \/ Redacts(r, c)
    <3>1. row.made = customer[c].made
      BY <1>2, <2>2 DEF Saves, Fills, Redacts
    <3>2. Redacts(r, c) => customer[c].made
      <4> SUFFICES ASSUME Redacts(r, c) PROVE customer[c].made
        OBVIOUS
      <4>1. Knows(request[r], Made) /\ Doing(r, "anonymize", "tx") /\ request[r].customer = c
        BY DEF CustomerIInv, Redacts, Redacting
      <4> QED
        BY <4>1 DEF Knows, Doing, Made
    <3> QED
      BY <1>1, <1>2, <2>2, <3>1, <3>2 DEF Saves, Fills
  <2>3. CASE Archives(r, c)
    <3>1. Knows(request[r], Made) /\ Doing(r, "archive", "read") /\ request[r].customer = c
      BY <2>3 DEF CustomerIInv, Archives
    <3>2. customer[c].made
      BY <3>1 DEF Knows, Doing, Made
    <3> QED
      BY <1>1, <1>2, <2>3, <3>2 DEF Archives, CustomerRow
  <2>4. CASE Revives(c)
    BY <1>1, <1>2, <2>4 DEF Revives, CustomerRow
  <2> QED
    BY <2>1, <2>2, <2>3, <2>4 DEF Changes
<1>4. Grown
  BY <1>1, <1>2, <1>3 DEF Grown
<1> QED
  BY <1>2, <1>4 DEF OneCustomer

\* What may become of a vehicle: it is archived, it is left with a customer in the
\* books, it goes to a customer the request had read, or a booking brings it back.
Moves(r, v) ==
    \/ vehicle'[v] = vehicle[v]
    \/ vehicle'[v].deleted
    \/ Live(vehicle[v].owner)'
    \/ /\ request[r].plate = v
       /\ \/ vehicle'[v].owner \in request[r].seen \cup {request[r].customer}
          \/ /\ Doing(r, "book", "checked") /\ ~request[r].flag
             /\ vehicle[v].owner # request[r].customer

\* What holds after a step of r, and what it did.
Sound(r) ==
    /\ CustomerIInv'
    /\ request'[r] # request[r]
    /\ OneCustomer(r)
    /\ \A v \in Plates : Moves(r, v)

LEMMA SameVehicles == UNCHANGED vehicle => \A r : \A v \in Plates : Moves(r, v)
BY DEF Moves

LEMMA Ends ==
    ASSUME CustomerIInv, NEW r \in Requests, End(r), request[r].phase # "done",
           Grown, OneCustomer(r), vehicle' \in [Plates -> VehicleRow],
           \A v \in Plates : Moves(r, v),
           UNCHANGED <<claim, link, expired, approved, redactions>>
    PROVE  Sound(r)
BY EndMoves, WriteStep DEF Sound

\* A request that ends and changes no customer.
LEMMA EndsWithoutCustomer ==
    ASSUME CustomerIInv, NEW r \in Requests, End(r), request[r].phase # "done",
           vehicle' \in [Plates -> VehicleRow], \A v \in Plates : Moves(r, v),
           UNCHANGED <<customer, claim, link, expired, approved, redactions>>
    PROVE  Sound(r)
<1>1. OneCustomer(r)
  BY DEF OneCustomer
<1> QED
  BY <1>1, SameGrown, Ends

\* A request that ends and changes one customer, and no vehicle.
LEMMA EndsWithCustomer ==
    ASSUME CustomerIInv, NEW r \in Requests, End(r), request[r].phase # "done",
           NEW c \in Customers, NEW row \in CustomerRow,
           customer' = [customer EXCEPT ![c] = row], Changes(r, c),
           UNCHANGED <<vehicle, claim, link, expired, approved, redactions>>
    PROVE  Sound(r)
<1>1. vehicle' \in [Plates -> VehicleRow]
  BY DEF CustomerIInv, CustomerTypeOK
<1> QED
  BY <1>1, ChangesGrow, SameVehicles, Ends

\* A request that goes on, having changed no row.
LEMMA GoesOn ==
    ASSUME CustomerIInv, NEW r \in Requests, NEW x \in Request,
           request' = [request EXCEPT ![r] = x], x # request[r],
           x.phase = "tx" => x.op # "anonymize", Knows(x, Made),
           UNCHANGED <<customer, vehicle, claim, link, expired, approved, redactions>>
    PROVE  Sound(r)
<1>1. Grown /\ Knows(x, Made')
  BY SameGrown, GrownMade, KnowsStays
<1>2. CommercialWithKvkk'
  BY DEF CustomerIInv, CommercialWithKvkk
<1>3. CustomerIInv'
  BY <1>1, <1>2, RequestStep DEF CustomerIInv, CustomerTypeOK
<1>4. request'[r] # request[r]
  BY DEF CustomerIInv, CustomerTypeOK
<1> QED
  BY <1>3, <1>4, SameVehicles DEF Sound, OneCustomer

----------------------------------------------------------------------------
(* Customers: each step *)

LEMMA RequestTyped ==
    ASSUME CustomerIInv, NEW r \in Requests
    PROVE  request[r] \in Request /\ Knows(request[r], Made)
BY DEF CustomerIInv, CustomerTypeOK

LEMMA WriteCreateStep ==
    ASSUME CustomerIInv, NEW r \in Requests, WriteCreate(r) PROVE Sound(r)
<1>1. PICK c \in Customers :
         /\ ~customer[c].made
         /\ customer' = [customer EXCEPT ![c] =
               NewCustomer(request[r].phone, IF request[r].flag THEN Data ELSE {"identity"})]
  BY Zenon DEF WriteCreate
<1>2. /\ request[r].phone \in Phones /\ request[r].seen = {}
      /\ request[r].op = "create" /\ request[r].phase = "read"
  BY RequestTyped DEF WriteCreate, Doing, Knows
<1>row. PICK row \in CustomerRow :
           /\ customer' = [customer EXCEPT ![c] = row]
           /\ row.made /\ ~row.deleted /\ row.phone = request[r].phone
  <2> DEFINE data == IF request[r].flag THEN Data ELSE {"identity"}
  <2>1. data \in SUBSET Data
    BY DEF Data
  <2>2. customer' = [customer EXCEPT ![c] = NewCustomer(request[r].phone, data)]
    BY <1>1
  <2> HIDE DEF data
  <2> QED
    BY <1>2, <2>1, <2>2, NewCustomerTyped, NewCustomerMade
<1>3. Changes(r, c)
  <2>1. customer'[c] = row
    BY <1>row DEF CustomerIInv, CustomerTypeOK
  <2> QED
    BY <1>1, <1>2, <1>row, <2>1 DEF Changes, Makes, Looked
<1> QED
  BY <1>2, <1>row, <1>3, EndsWithCustomer DEF WriteCreate

LEMMA CheckUpdateStep ==
    ASSUME CustomerIInv, NEW r \in Requests, CheckUpdate(r) PROVE Sound(r)
<1> DEFINE flag == Live(request[r].customer)
           x == [request[r] EXCEPT !.phase = "checked", !.flag = flag]
<1>1. /\ request[r] \in Request /\ Knows(request[r], Made)
      /\ request[r].op = "update" /\ request[r].phase = "read" /\ flag
  BY RequestTyped DEF CheckUpdate, Doing, SaveFinds
<1>2. request' = [request EXCEPT ![r] = x]
  BY Zenon DEF CheckUpdate
<1> HIDE DEF flag
<1>3. /\ x \in Request /\ x.phase = "checked" /\ x.flag /\ x.op = "update"
      /\ x.customer = request[r].customer /\ x.seen = request[r].seen
      /\ x.row = request[r].row
  BY <1>1 DEF Request
<1> HIDE DEF x
<1>4. Knows(x, Made)
  BY <1>1, <1>3 DEF Knows
<1>5. x # request[r] /\ x.phase # "tx"
  BY <1>1, <1>3
<1> QED
  BY <1>2, <1>3, <1>4, <1>5, GoesOn DEF CheckUpdate

LEMMA WriteUpdateStep ==
    ASSUME CustomerIInv, NEW r \in Requests, WriteUpdate(r) PROVE Sound(r)
<1> DEFINE c == request[r].customer
           old == request[r].row
           phone == IF request[r].phone = Null THEN old.phone ELSE request[r].phone
           row == [customer[c] EXCEPT !.anonymized = old.anonymized,
                                      !.personal = old.personal, !.phone = phone]
<1>1. /\ request[r] \in Request /\ Knows(request[r], Made)
      /\ request[r].op = "update" /\ request[r].phase = "checked"
  BY RequestTyped DEF WriteUpdate, Doing
<1>2. /\ c \in Made /\ c \in Customers /\ old \in CustomerRow
      /\ request[r].flag /\ request[r].seen \subseteq {c}
  BY <1>1 DEF Knows, Made
<1>3. phone \in Phones \cup {Masked}
  BY <1>1, <1>2 DEF Request, CustomerRow
<1>4. customer' = [customer EXCEPT ![c] = row]
  BY Zenon DEF WriteUpdate
<1> HIDE DEF phone, old, c
<1>5. /\ row \in CustomerRow /\ row.made = customer[c].made
      /\ row.deleted = customer[c].deleted /\ row.phone = phone
  BY <1>2, <1>3, RowsTyped DEF CustomerRow
<1>6. customer'[c] = row
  BY <1>2, <1>4 DEF CustomerIInv, CustomerTypeOK
<1> HIDE DEF row
<1>phone. phone \in Looked(r) \/ WritesBack(r, phone)
  BY <1>1 DEF phone, old, Looked, WritesBack, Doing
<1>7. Changes(r, c)
  BY <1>1, <1>2, <1>5, <1>6, <1>phone DEF Changes, Saves, Doing, c
<1> QED
  BY <1>1, <1>2, <1>4, <1>5, <1>7, EndsWithCustomer DEF WriteUpdate

LEMMA WriteArchiveStep ==
    ASSUME CustomerIInv, NEW r \in Requests, WriteArchive(r) PROVE Sound(r)
<1> DEFINE c == request[r].customer
           row == [customer[c] EXCEPT !.deleted = TRUE]
<1>1. /\ request[r] \in Request /\ Knows(request[r], Made)
      /\ request[r].op = "archive" /\ request[r].phase = "read"
  BY RequestTyped DEF WriteArchive, Doing
<1>2. c \in Made /\ c \in Customers /\ ~Keeps(request[r].held)
  BY <1>1 DEF Knows, Made
<1>3. customer' = [customer EXCEPT ![c] = row]
  <2>1. customer' = [customer EXCEPT ![c].deleted = TRUE]
    BY Zenon DEF WriteArchive
  <2> QED
    BY <2>1
<1>4. row \in CustomerRow
  BY <1>2, RowsTyped DEF CustomerRow
<1>5. customer'[c] = row
  BY <1>2, <1>3 DEF CustomerIInv, CustomerTypeOK
<1>6. /\ vehicle' \in [Plates -> VehicleRow]
      /\ \A v \in Plates : vehicle'[v] = IF vehicle[v].owner = c
                                         THEN [vehicle[v] EXCEPT !.deleted = TRUE]
                                         ELSE vehicle[v]
  <2>1. \A v \in Plates : vehicle[v] \in VehicleRow
    BY DEF CustomerIInv, CustomerTypeOK
  <2>2. vehicle' = [v \in Plates |-> IF vehicle[v].owner = c
                                     THEN [vehicle[v] EXCEPT !.deleted = TRUE] ELSE vehicle[v]]
    BY Zenon DEF WriteArchive
  <2> HIDE DEF c
  <2> QED
    BY <2>1, <2>2 DEF VehicleRow
<1>7. \A v \in Plates : vehicle[v].owner = c => vehicle'[v].deleted
  <2> HIDE DEF c
  <2> QED
    BY <1>6 DEF CustomerIInv, CustomerTypeOK, VehicleRow
<1>8. \A v \in Plates : Moves(r, v)
  BY <1>6, <1>7 DEF Moves
<1>9. Changes(r, c)
  BY <1>1, <1>2, <1>5, <1>7 DEF Changes, Archives, Doing
<1>10. Grown /\ OneCustomer(r)
  <2> HIDE DEF c, row
  <2> QED
    BY <1>2, <1>3, <1>4, <1>9, ChangesGrow
<1> QED
  BY <1>1, <1>6, <1>8, <1>10, Ends DEF WriteArchive

LEMMA WriteRestoreStep ==
    ASSUME CustomerIInv, NEW r \in Requests, WriteRestore(r) PROVE Sound(r)
<1> DEFINE c == request[r].customer
           row == [customer[c] EXCEPT !.deleted = FALSE]
<1>1. /\ request[r] \in Request /\ Knows(request[r], Made)
      /\ request[r].op = "restore" /\ request[r].phase = "read"
  BY RequestTyped DEF WriteRestore, Doing
<1>2. c \in Made /\ c \in Customers /\ customer[c].made
  BY <1>1 DEF Knows, Made
<1>3. customer' = [customer EXCEPT ![c] = row]
  <2>1. customer' = [customer EXCEPT ![c].deleted = FALSE]
    BY Zenon DEF WriteRestore
  <2> QED
    BY <2>1
<1>4. row \in CustomerRow /\ row.made /\ ~row.deleted
  BY <1>2, RowsTyped DEF CustomerRow
<1>5. customer'[c] = row
  BY <1>2, <1>3 DEF CustomerIInv, CustomerTypeOK
<1>6. /\ vehicle' \in [Plates -> VehicleRow]
      /\ \A v \in Plates : vehicle'[v] = IF vehicle[v].owner = c
                                         THEN [vehicle[v] EXCEPT !.deleted = FALSE]
                                         ELSE vehicle[v]
  <2>1. \A v \in Plates : vehicle[v] \in VehicleRow
    BY DEF CustomerIInv, CustomerTypeOK
  <2>2. vehicle' = [v \in Plates |-> IF vehicle[v].owner = c
                                     THEN [vehicle[v] EXCEPT !.deleted = FALSE] ELSE vehicle[v]]
    BY Zenon DEF WriteRestore
  <2> HIDE DEF c
  <2> QED
    BY <2>1, <2>2 DEF VehicleRow
<1>8. ASSUME NEW v \in Plates PROVE Moves(r, v)
  <2>1. CASE vehicle[v].owner = c
    <3>1. vehicle'[v].owner = c
      BY <1>6, <2>1 DEF CustomerIInv, CustomerTypeOK, VehicleRow
    <3> QED
      BY <1>2, <1>4, <1>5, <3>1 DEF Moves, Live
  <2>2. CASE vehicle[v].owner # c
    BY <1>6, <2>2 DEF Moves
  <2> QED
    BY <2>1, <2>2
<1>9. Changes(r, c)
  BY <1>2, <1>5 DEF Changes, Revives
<1>10. Grown /\ OneCustomer(r)
  <2> HIDE DEF c, row
  <2> QED
    BY <1>2, <1>3, <1>4, <1>9, ChangesGrow
<1> QED
  BY <1>1, <1>6, <1>8, <1>10, Ends DEF WriteRestore

\* The row is taken by one redaction at a time.
LEMMA TakeRowStep ==
    ASSUME CustomerIInv, NEW r \in Requests, TakeRow(r) PROVE Sound(r)
<1> DEFINE n == Len(redactions)
           x == [request[r] EXCEPT !.phase = "tx", !.last = n]
<1>1. /\ request[r] \in Request /\ Knows(request[r], Made)
      /\ request[r].op = "anonymize" /\ request[r].phase = "read"
      /\ ~Locked(request[r].customer)
  BY RequestTyped DEF TakeRow, Doing, MayTake
<1>2. request' = [request EXCEPT ![r] = x]
  BY Zenon DEF TakeRow
<1>3. n \in Nat /\ DOMAIN redactions = 1..n
  BY DEF CustomerIInv, CustomerTypeOK
<1>4. UNCHANGED <<customer, vehicle, claim, link, expired, approved, redactions>>
  BY DEF TakeRow
<1> HIDE DEF n
<1>5. /\ x \in Request /\ x.phase = "tx" /\ x.op = "anonymize" /\ x.last = n
      /\ x.customer = request[r].customer /\ x.held = request[r].held
  BY <1>1, <1>3 DEF Request
<1> HIDE DEF x
<1>6. request'[r] = x /\ \A s \in Requests \ {r} : request'[s] = request[s]
  BY <1>2 DEF CustomerIInv, CustomerTypeOK
<1>7. CustomerTypeOK'
  BY <1>2, <1>4, <1>5 DEF CustomerIInv, CustomerTypeOK
<1>8. \A s \in Requests : Knows(request[s], Made)'
  <2>1. Knows(x, Made)
    BY <1>1, <1>5 DEF Knows
  <2>2. Made' = Made
    BY <1>4 DEF Made
  <2> SUFFICES ASSUME NEW s \in Requests PROVE Knows(request'[s], Made')
    BY DEF Knows
  <2> QED
    BY <1>6, <2>1, <2>2 DEF CustomerIInv
<1>9. Chained'
  <2>1. ASSUME NEW s \in Requests \ {r}, Redacting(s)
        PROVE  request[s].customer # request[r].customer
    BY <1>1, <2>1 DEF Locked, Redacting
  <2>2. \A s \in Requests \ {r} : Redacting(s)' <=> Redacting(s)
    BY <1>6 DEF Redacting, Doing
  <2>3. Redacting(r)'
    BY <1>5, <1>6 DEF Redacting, Doing
  <2>4. \A i \in DOMAIN redactions : i <= n
    BY <1>3
  <2>5. \A s \in Requests : Redacting(s)' =>
           /\ request'[s].last <= n
           /\ \A i \in DOMAIN redactions :
                 redactions[i].customer = request'[s].customer => i <= request'[s].last
    <3> SUFFICES ASSUME NEW s \in Requests, Redacting(s)'
                 PROVE  /\ request'[s].last <= n
                        /\ \A i \in DOMAIN redactions :
                              redactions[i].customer = request'[s].customer =>
                                 i <= request'[s].last
      OBVIOUS
    <3>1. CASE s = r
      BY <1>3, <1>5, <1>6, <2>4, <3>1
    <3>2. CASE s # r
      BY <1>6, <2>2, <3>2 DEF CustomerIInv, Chained, n
    <3> QED
      BY <3>1, <3>2
  <2>6. \A s, t \in Requests :
           s # t /\ Redacting(s)' /\ Redacting(t)' => request'[s].customer # request'[t].customer
    BY <1>5, <1>6, <2>1, <2>2 DEF CustomerIInv, Chained
  <2> QED
    BY <1>4, <2>5, <2>6 DEF CustomerIInv, Chained, CustomerChained, n
<1>10. CustomerIInv'
  BY <1>4, <1>7, <1>8, <1>9 DEF CustomerIInv, CommercialWithKvkk
<1>11. request'[r] # request[r]
  BY <1>1, <1>5, <1>6
<1> QED
  BY <1>4, <1>10, <1>11, SameVehicles DEF Sound, OneCustomer

\* The redaction follows the last one of the customer, and no other follows that.
LEMMA AnonymizeStep ==
    ASSUME CustomerIInv, NEW r \in Requests, Anonymize(r) PROVE Sound(r)
<1> DEFINE c == request[r].customer
           last == request[r].last
           n == Len(redactions)
           kept == customer[c].personal \ {"identity"}
           row == [customer[c] EXCEPT !.deleted = TRUE, !.anonymized = TRUE,
                                      !.phone = Masked, !.personal = kept]
           e == [customer |-> c, previous |-> last]
<1>1. /\ request[r] \in Request /\ Knows(request[r], Made)
      /\ request[r].op = "anonymize" /\ request[r].phase = "tx" /\ Redacting(r)
  BY RequestTyped DEF Anonymize, Doing, Redacting
<1>2. c \in Made /\ c \in Customers /\ last \in Nat /\ ~Binds(request[r].held)
  BY <1>1 DEF Knows, Made, Request
<1>3. customer' = [customer EXCEPT ![c] = row]
  BY Zenon DEF Anonymize
<1>4. redactions' = Append(redactions, e)
  BY DEF Anonymize
<1>5. End(r) /\ UNCHANGED <<vehicle, claim, link, expired, approved>>
  BY DEF Anonymize
<1>6. /\ redactions \in Seq([customer : Customers, previous : Nat])
      /\ n \in Nat /\ DOMAIN redactions = 1..n
      /\ last <= n
      /\ \A i \in 1..n : redactions[i].customer = c => i <= last
      /\ \A i \in 1..n : redactions[i].previous < i
  BY <1>1 DEF CustomerIInv, CustomerTypeOK, Chained
<1>past. /\ \A i \in 1..n : redactions[i] \in [customer : Customers, previous : Nat]
         /\ \A i, j \in 1..n :
               i # j /\ redactions[i].customer = redactions[j].customer =>
                  redactions[i].previous # redactions[j].previous
         /\ \A s \in Requests : Redacting(s) =>
               /\ request[s].last <= n
               /\ \A i \in 1..n :
                     redactions[i].customer = request[s].customer => i <= request[s].last
  <2>1. DOMAIN redactions = 1..n /\ Len(redactions) = n
    BY <1>6
  <2>2. \A i, j \in DOMAIN redactions :
           i # j /\ redactions[i].customer = redactions[j].customer =>
              redactions[i].previous # redactions[j].previous
    BY Zenon DEF CustomerIInv, CustomerChained, Chained
  <2>3. \A s \in Requests : Redacting(s) =>
           /\ request[s].last <= Len(redactions)
           /\ \A i \in DOMAIN redactions :
                 redactions[i].customer = request[s].customer => i <= request[s].last
    BY Zenon DEF CustomerIInv, Chained
  <2>4. \A i \in 1..n : redactions[i] \in [customer : Customers, previous : Nat]
    <3> DEFINE S == [customer : Customers, previous : Nat]
    <3>1. redactions \in Seq(S) /\ n = Len(redactions)
      BY <1>6
    <3> HIDE DEF S, n
    <3>2. \A i \in 1..n : redactions[i] \in S
      BY <3>1
    <3> QED
      BY <3>2 DEF S
  <2> HIDE DEF n
  <2>5. \A i, j \in 1..n :
           i # j /\ redactions[i].customer = redactions[j].customer =>
              redactions[i].previous # redactions[j].previous
    BY <2>1, <2>2, Zenon
  <2>6. \A s \in Requests : Redacting(s) =>
           /\ request[s].last <= n
           /\ \A i \in 1..n :
                 redactions[i].customer = request[s].customer => i <= request[s].last
    BY <2>1, <2>3, Zenon
  <2> QED
    BY <2>4, <2>5, <2>6
<1>7. e \in [customer : Customers, previous : Nat] /\ e.customer = c /\ e.previous = last
  BY <1>2
<1>8. /\ row \in CustomerRow /\ row.made = customer[c].made
      /\ row.deleted /\ row.phone = Masked /\ "identity" \notin row.personal
  <2>1. customer[c] \in CustomerRow
    BY <1>2, RowsTyped
  <2>2. kept \in SUBSET Data /\ "identity" \notin kept
    BY <2>1 DEF CustomerRow
  <2> HIDE DEF kept, c
  <2> QED
    BY <2>1, <2>2 DEF CustomerRow
<1>9. customer'[c] = row
  BY <1>2, <1>3 DEF CustomerIInv, CustomerTypeOK
<1> HIDE DEF row, e
<1>10. Changes(r, c)
  BY <1>1, <1>2, <1>8, <1>9 DEF Changes, Redacts
<1> HIDE DEF c, last, n
<1>11. Grown /\ OneCustomer(r)
  BY <1>2, <1>3, <1>8, <1>10, ChangesGrow
<1>12. /\ redactions' \in Seq([customer : Customers, previous : Nat])
       /\ Len(redactions') = n + 1 /\ DOMAIN redactions' = 1..(n + 1)
       /\ redactions'[n + 1] = e
       /\ \A i \in 1..n : redactions'[i] = redactions[i]
  BY <1>4, <1>6, <1>7 DEF n
<1>13. request' = [request EXCEPT ![r] = Over]
  BY <1>5 DEF End, Over
<1>14. /\ request' \in [Requests -> Request]
       /\ request'[r] = Over /\ \A s \in Requests \ {r} : request'[s] = request[s]
  BY <1>13, UnsentTyped DEF CustomerIInv, CustomerTypeOK
<1>15. CustomerTypeOK'
  BY <1>5, <1>11, <1>12, <1>14 DEF CustomerIInv, CustomerTypeOK, Grown
<1>16. \A s \in Requests : Knows(request[s], Made)'
  <2>1. Knows(Over, Made')
    BY OverFields DEF Knows
  <2> SUFFICES ASSUME NEW s \in Requests PROVE Knows(request'[s], Made')
    BY DEF Knows
  <2>2. CASE s = r
    BY <1>14, <2>1, <2>2
  <2>3. CASE s # r
    BY <1>11, <1>14, <2>3, GrownMade, KnowsStays DEF CustomerIInv
  <2> QED
    BY <2>2, <2>3
<1>17. Chained'
  <2>1. ~Redacting(r)'
    BY <1>14, OverFields DEF Redacting, Doing
  <2>2. \A s \in Requests : Redacting(s)' =>
           s # r /\ Redacting(s) /\ request'[s] = request[s] /\ request[s].customer # c
    <3>1. \A s \in Requests \ {r} : Redacting(s) => request[s].customer # c
      BY <1>1 DEF CustomerIInv, Chained, c
    <3> QED
      BY <1>14, <2>1, <3>1 DEF Redacting, Doing
  <2>3. \A i \in 1..(n + 1) : redactions'[i].previous < i
    BY <1>2, <1>6, <1>7, <1>12
  <2>4. ASSUME NEW s \in Requests, Redacting(s)'
        PROVE  /\ request'[s].last <= n + 1
               /\ \A i \in 1..(n + 1) :
                     redactions'[i].customer = request'[s].customer => i <= request'[s].last
    <3>1. Redacting(s) /\ request'[s] = request[s] /\ request[s].customer # c
      BY <2>2, <2>4, Zenon
    <3>2. request[s].last \in Nat
      BY RequestTyped DEF Request
    <3>3. request[s].last <= n
      BY <1>past, <3>1
    <3>4. ASSUME NEW i \in 1..(n + 1), redactions'[i].customer = request[s].customer
          PROVE  i <= request[s].last
      <4>1. i # n + 1
        BY <1>7, <1>12, <3>1, <3>4
      <4>2. i \in 1..n
        BY <1>6, <4>1
      <4> QED
        BY <1>12, <1>past, <3>1, <3>4, <4>2
    <3> QED
      BY <1>6, <3>1, <3>2, <3>3, <3>4
  <2>5. \A s, t \in Requests :
           s # t /\ Redacting(s)' /\ Redacting(t)' => request'[s].customer # request'[t].customer
    BY <2>2 DEF CustomerIInv, Chained
  <2>6. CustomerChained'
    <3>1. ASSUME NEW i \in 1..n, redactions[i].customer = c
          PROVE  redactions[i].previous # last
      <4>1. redactions[i].previous \in Nat
        BY <1>past
      <4> QED
        BY <1>2, <1>6, <3>1, <4>1
    <3>2. ASSUME NEW i \in 1..(n + 1), NEW j \in 1..(n + 1), i # j,
                 redactions'[i].customer = redactions'[j].customer
          PROVE  redactions'[i].previous # redactions'[j].previous
      <4>1. CASE i = n + 1
        <5>1. j \in 1..n
          BY <1>6, <3>2, <4>1
        <5> QED
          BY <1>7, <1>12, <3>1, <3>2, <4>1, <5>1
      <4>2. CASE j = n + 1
        <5>1. i \in 1..n
          BY <1>6, <3>2, <4>2
        <5> QED
          BY <1>7, <1>12, <3>1, <3>2, <4>2, <5>1
      <4>3. CASE i # n + 1 /\ j # n + 1
        <5>1. i \in 1..n /\ j \in 1..n
          BY <1>6, <4>3
        <5> QED
          BY <1>12, <1>past, <3>2, <5>1
      <4> QED
        BY <4>1, <4>2, <4>3
    <3> QED
      BY <1>12, <3>2 DEF CustomerChained
  <2> QED
    BY <1>12, <2>3, <2>4, <2>5, <2>6 DEF Chained
<1>18. CustomerIInv'
  BY <1>5, <1>11, <1>15, <1>16, <1>17 DEF CustomerIInv, Grown, CommercialWithKvkk
<1>19. request'[r] # request[r]
  BY <1>1, <1>14, OverFields
<1> QED
  BY <1>5, <1>11, <1>18, <1>19, SameVehicles DEF Sound

\* What a request that finds or makes a customer does to the books.
LEMMA SubjectChanges ==
    ASSUME CustomerIInv, NEW r \in Requests, request[r].seen \subseteq Made,
           NEW c \in Subject(r), NEW p \in Phones,
           p \in Looked(r) \/ (Doing(r, "import", "read") /\ Looked(r) = {})
    PROVE  /\ c \in Customers
           /\ c \in request[r].seen => customer[c].made
           /\ request[r].seen = {} => ~customer[c].made
           /\ request[r].seen # {} => c \in request[r].seen
           /\ customer' = [customer EXCEPT ![c] = NewCustomer(p, {"identity"})]
                 /\ request[r].seen = {}
                    => Grown /\ OneCustomer(r) /\ Live(c)'
<1>1. /\ c \in Customers
      /\ c \in request[r].seen => customer[c].made
      /\ request[r].seen = {} => ~customer[c].made
      /\ request[r].seen # {} => c \in request[r].seen
  BY DEF Subject, Made
<1>2. ASSUME customer' = [customer EXCEPT ![c] = NewCustomer(p, {"identity"})],
             request[r].seen = {}
      PROVE  Grown /\ OneCustomer(r) /\ Live(c)'
  <2>1. customer'[c] = NewCustomer(p, {"identity"})
    BY <1>1, <1>2 DEF CustomerIInv, CustomerTypeOK
  <2>2. Changes(r, c)
    BY <1>1, <1>2, <2>1, NewCustomerMade DEF Changes, Makes
  <2>3. NewCustomer(p, {"identity"}) \in CustomerRow
    BY NewCustomerTyped DEF Data
  <2>5. Grown /\ OneCustomer(r)
    BY <1>1, <1>2, <2>2, <2>3, ChangesGrow
  <2>4. Live(c)'
    BY <1>1, <2>1, NewCustomerMade DEF Live
  <2> QED
    BY <2>4, <2>5
<1> QED
  BY <1>1, <1>2

\* The vehicle of one plate is left as it is, or goes to a customer.
LEMMA OneVehicle ==
    ASSUME CustomerIInv, NEW r \in Requests, NEW v \in Plates, NEW row \in VehicleRow,
           vehicle' = [vehicle EXCEPT ![v] = row],
           \/ row = vehicle[v]
           \/ row.deleted
           \/ Live(vehicle[v].owner)'
           \/ /\ request[r].plate = v
              /\ \/ row.owner \in request[r].seen \cup {request[r].customer}
                 \/ /\ Doing(r, "book", "checked") /\ ~request[r].flag
                    /\ vehicle[v].owner # request[r].customer
    PROVE  vehicle' \in [Plates -> VehicleRow] /\ \A w \in Plates : Moves(r, w)
<1>1. vehicle' \in [Plates -> VehicleRow] /\ vehicle'[v] = row
  BY DEF CustomerIInv, CustomerTypeOK
<1>2. \A w \in Plates \ {v} : vehicle'[w] = vehicle[w]
  BY DEF CustomerIInv, CustomerTypeOK
<1> QED
  BY <1>1, <1>2 DEF Moves

LEMMA VehiclesTyped == CustomerIInv => \A v \in Plates : vehicle[v] \in VehicleRow
BY DEF CustomerIInv, CustomerTypeOK

LEMMA OwnedTyped == \A c \in Customers : [owner |-> c, deleted |-> FALSE] \in VehicleRow
BY DEF VehicleRow

LEMMA WriteLeadStep ==
    ASSUME CustomerIInv, NEW r \in Requests, WriteLead(r) PROVE Sound(r)
<1>1. /\ request[r] \in Request /\ Knows(request[r], Made)
      /\ request[r].op = "lead" /\ request[r].phase = "read"
  BY RequestTyped DEF WriteLead, Doing
<1>2. /\ request[r].phone \in Phones /\ request[r].plate \in Plates
      /\ request[r].seen \subseteq Made
  BY <1>1 DEF Knows
<1>3. PICK c \in Subject(r) :
         /\ customer' = IF request[r].seen = {}
                        THEN [customer EXCEPT ![c] =
                                 NewCustomer(request[r].phone, {"identity"})]
                        ELSE customer
         /\ vehicle' = [vehicle EXCEPT ![request[r].plate] = Attach(request[r].plate, c)]
  BY Zenon DEF WriteLead
<1>look. request[r].phone \in Looked(r)
  BY <1>1 DEF Looked
<1>4. /\ c \in Customers
      /\ request[r].seen # {} => c \in request[r].seen
  BY <1>2, <1>3, <1>look, SubjectChanges
<1>5. Grown /\ OneCustomer(r) /\ (request[r].seen = {} => Live(c)')
  <2>1. CASE request[r].seen = {}
    BY <1>2, <1>3, <1>look, <2>1, SubjectChanges
  <2>2. CASE request[r].seen # {}
    BY <1>3, <2>2, SameGrown DEF OneCustomer
  <2> QED
    BY <2>1, <2>2
<1>6. vehicle' \in [Plates -> VehicleRow] /\ \A w \in Plates : Moves(r, w)
  <2>1. PICK v \in Plates : v = request[r].plate
    BY <1>2
  <2> DEFINE row == Attach(v, c)
  <2>2. row \in VehicleRow /\ (row = vehicle[v] \/ row.owner = c)
    BY <1>4, VehiclesTyped, OwnedTyped DEF Attach
  <2>3. vehicle' = [vehicle EXCEPT ![v] = row]
    BY <1>3, <2>1
  <2>4. vehicle'[v] = row
    BY <2>3 DEF CustomerIInv, CustomerTypeOK
  <2> HIDE DEF row
  <2>5. row = vehicle[v] \/ Live(vehicle[v].owner)' \/ row.owner \in request[r].seen
    BY <1>4, <1>5, <2>2, <2>4 DEF Live
  <2> QED
    BY <2>1, <2>2, <2>3, <2>5, OneVehicle
<1> QED
  BY <1>1, <1>5, <1>6, Ends DEF WriteLead

LEMMA WriteImportStep ==
    ASSUME CustomerIInv, NEW r \in Requests, WriteImport(r) PROVE Sound(r)
<1> DEFINE p == StoredPhone(request[r].phone)
           v == request[r].plate
<1>1. /\ request[r] \in Request /\ Knows(request[r], Made)
      /\ request[r].op = "import" /\ request[r].phase = "read"
  BY RequestTyped DEF WriteImport, Doing
<1>2. request[r].seen \subseteq Made /\ v \in Plates \cup {Null}
  BY <1>1 DEF Knows, Request
<1>3. PICK c \in Subject(r), data \in Fill(r) :
         /\ customer' = IF request[r].seen = {}
                        THEN [customer EXCEPT ![c] = NewCustomer(p, {"identity"})]
                        ELSE [customer EXCEPT ![c].personal = @ \cup data]
         /\ vehicle' = CASE v = Null -> vehicle
                         [] v # Null /\ request[r].flag ->
                               [vehicle EXCEPT ![v] = [owner |-> c, deleted |-> FALSE]]
                         [] OTHER -> [vehicle EXCEPT ![v] = Attach(v, c)]
  BY Zenon DEF WriteImport
<1>look. /\ p \in Phones
         /\ p \in Looked(r) \/ (Doing(r, "import", "read") /\ Looked(r) = {})
  <2>1. request[r].phone \in Phones \cup {Null}
    BY <1>1 DEF Request
  <2> QED
    BY <1>1, <2>1, PhonesAssumption DEF StoredPhone, Looked, Candidates, Doing
<1> HIDE DEF p, v
<1>4. /\ c \in Customers
      /\ request[r].seen # {} => c \in request[r].seen
  BY <1>2, <1>3, <1>look, SubjectChanges
<1>5. Grown /\ OneCustomer(r) /\ (request[r].seen = {} => Live(c)')
  <2>1. CASE request[r].seen = {}
    BY <1>2, <1>3, <1>look, <2>1, SubjectChanges
  <2>2. CASE request[r].seen # {}
    <3> DEFINE all == customer[c].personal \cup data
               row == [customer[c] EXCEPT !.personal = all]
    <3>1. customer' = [customer EXCEPT ![c] = row]
      <4>1. customer' = [customer EXCEPT ![c].personal = @ \cup data]
        BY <1>3, <2>2, Zenon
      <4> QED
        BY <4>1
    <3>2. all \in SUBSET Data
      BY <1>3, <1>4, RowsTyped DEF Fill, Data, CustomerRow
    <3> HIDE DEF all
    <3>3. /\ row \in CustomerRow /\ row.made = customer[c].made
          /\ row.deleted = customer[c].deleted /\ row.phone = customer[c].phone
      BY <1>4, <3>2, RowsTyped DEF CustomerRow
    <3>4. customer'[c] = row
      BY <1>4, <3>1 DEF CustomerIInv, CustomerTypeOK
    <3> HIDE DEF row
    <3>5. Changes(r, c)
      BY <1>1, <1>4, <2>2, <3>3, <3>4 DEF Changes, Fills, Doing
    <3> QED
      BY <1>4, <2>2, <3>1, <3>3, <3>5, ChangesGrow
  <2> QED
    BY <2>1, <2>2
<1>6. vehicle' \in [Plates -> VehicleRow] /\ \A w \in Plates : Moves(r, w)
  <2>1. CASE v = Null
    <3>1. vehicle' = vehicle
      BY <1>3, <2>1
    <3> QED
      BY <3>1, SameVehicles DEF CustomerIInv, CustomerTypeOK
  <2>2. CASE v # Null
    <3>1. PICK w \in Plates : w = v
      BY <1>2, <2>2
    <3> DEFINE row == IF request[r].flag THEN [owner |-> c, deleted |-> FALSE]
                      ELSE Attach(w, c)
    <3>2. row \in VehicleRow /\ (row = vehicle[w] \/ row.owner = c)
      BY <1>4, <3>1, VehiclesTyped, OwnedTyped DEF Attach
    <3>3. vehicle' = [vehicle EXCEPT ![w] = row]
      BY <1>3, <2>2, <3>1
    <3>4. vehicle'[w] = row
      BY <3>1, <3>3 DEF CustomerIInv, CustomerTypeOK
    <3> HIDE DEF row
    <3>5. row = vehicle[w] \/ Live(vehicle[w].owner)' \/ row.owner \in request[r].seen
      BY <1>4, <1>5, <3>2, <3>4 DEF Live
    <3>6. request[r].plate = w
      BY <3>1 DEF v
    <3> QED
      BY <3>2, <3>3, <3>5, <3>6, OneVehicle
  <2> QED
    BY <2>1, <2>2
<1> QED
  BY <1>1, <1>5, <1>6, Ends DEF WriteImport

LEMMA BookCustomerStep ==
    ASSUME CustomerIInv, NEW r \in Requests, BookCustomer(r) PROVE Sound(r)
<1>1. /\ request[r] \in Request /\ Knows(request[r], Made)
      /\ request[r].op = "book" /\ request[r].phase = "read"
  BY RequestTyped DEF BookCustomer, Doing
<1>2. /\ request[r].phone \in Phones /\ request[r].plate \in Plates
      /\ request[r].seen \subseteq Made
  BY <1>1 DEF Knows
<1>3. PICK c \in Subject(r) :
         /\ customer' = CASE request[r].seen = {} ->
                                [customer EXCEPT ![c] =
                                    NewCustomer(request[r].phone, {"identity"})]
                          [] request[r].seen # {} /\ request[r].row.deleted ->
                                [customer EXCEPT ![c].deleted = FALSE]
                          [] OTHER -> customer
         /\ request' = [request EXCEPT ![r].phase = "found", ![r].customer = c]
  BY Zenon DEF BookCustomer
<1>look. request[r].phone \in Looked(r)
  BY <1>1 DEF Looked
<1>4. /\ c \in Customers
      /\ request[r].seen # {} => c \in request[r].seen /\ customer[c].made
  BY <1>2, <1>3, <1>look, SubjectChanges
<1>5. Grown /\ OneCustomer(r)
  <2>1. CASE request[r].seen = {}
    BY <1>2, <1>3, <1>look, <2>1, SubjectChanges
  <2>2. CASE request[r].seen # {} /\ request[r].row.deleted
    <3> DEFINE row == [customer[c] EXCEPT !.deleted = FALSE]
    <3>1. customer' = [customer EXCEPT ![c] = row]
      <4>1. customer' = [customer EXCEPT ![c].deleted = FALSE]
        BY <1>3, <2>2
      <4> QED
        BY <4>1
    <3>2. row \in CustomerRow
      BY <1>4, RowsTyped DEF CustomerRow
    <3>3. customer'[c] = row
      BY <1>4, <3>1 DEF CustomerIInv, CustomerTypeOK
    <3>4. Changes(r, c)
      BY <1>4, <2>2, <3>3 DEF Changes, Revives
    <3> HIDE DEF row
    <3> QED
      BY <1>4, <3>1, <3>2, <3>4, ChangesGrow
  <2>3. CASE request[r].seen # {} /\ ~request[r].row.deleted
    BY <1>3, <2>3, SameGrown DEF OneCustomer
  <2> QED
    BY <2>1, <2>2, <2>3
<1> DEFINE x == [request[r] EXCEPT !.phase = "found", !.customer = c]
<1>6. request' = [request EXCEPT ![r] = x]
  <2>1. request' = [request EXCEPT ![r].phase = "found", ![r].customer = c]
    BY <1>3
  <2> QED
    BY <2>1, Zenon
<1>7. /\ x \in Request /\ x.phase = "found" /\ x.op = "book" /\ x.customer = c
      /\ x.phone = request[r].phone /\ x.plate = request[r].plate /\ x.seen = request[r].seen
  BY <1>1, <1>4 DEF Request
<1> HIDE DEF x
<1>8. Knows(x, Made')
  <2>1. Knows(x, Made)
    BY <1>2, <1>4, <1>7 DEF Knows
  <2> QED
    BY <1>5, <2>1, GrownMade, KnowsStays
<1>9. UNCHANGED <<vehicle, claim, link, expired, approved, redactions>>
  BY DEF BookCustomer
<1>10. CommercialWithKvkk'
  BY <1>9 DEF CustomerIInv, CommercialWithKvkk
<1>11. CustomerIInv'
  BY <1>5, <1>6, <1>7, <1>8, <1>9, <1>10, RequestStep DEF CustomerIInv, CustomerTypeOK
<1>12. request'[r] # request[r]
  BY <1>1, <1>6, <1>7 DEF CustomerIInv, CustomerTypeOK
<1> QED
  BY <1>5, <1>9, <1>11, <1>12, SameVehicles DEF Sound

LEMMA BookLooksStep ==
    ASSUME CustomerIInv, NEW r \in Requests, BookLooks(r) PROVE Sound(r)
<1>1. /\ request[r] \in Request /\ Knows(request[r], Made)
      /\ request[r].op = "book" /\ request[r].phase = "found"
  BY RequestTyped DEF BookLooks, Doing
<1>2. UNCHANGED <<customer, vehicle, claim, link, expired, approved, redactions>>
  BY DEF BookLooks
<1> DEFINE flag == (vehicle[request[r].plate].owner = Null)
           x == [request[r] EXCEPT !.phase = "checked", !.flag = flag]
<1>3. CASE End(r)
  <2>1. vehicle' \in [Plates -> VehicleRow]
    BY <1>2 DEF CustomerIInv, CustomerTypeOK
  <2> QED
    BY <1>1, <1>2, <1>3, <2>1, SameVehicles, EndsWithoutCustomer
<1>4. CASE request' = [request EXCEPT ![r].phase = "checked", ![r].flag = flag]
  <2>1. request' = [request EXCEPT ![r] = x]
    BY <1>4, Zenon
  <2>2. flag \in BOOLEAN
    OBVIOUS
  <2> HIDE DEF flag
  <2>3. /\ x \in Request /\ x.phase = "checked" /\ x.op = "book"
        /\ x.customer = request[r].customer /\ x.seen = request[r].seen
        /\ x.phone = request[r].phone /\ x.plate = request[r].plate
    BY <1>1, <2>2 DEF Request
  <2> HIDE DEF x
  <2>4. Knows(x, Made)
    BY <1>1, <2>3 DEF Knows
  <2>5. x # request[r] /\ x.phase # "tx"
    BY <1>1, <2>3
  <2> QED
    BY <1>2, <2>1, <2>3, <2>4, <2>5, GoesOn
<1> QED
  BY <1>3, <1>4, Zenon DEF BookLooks

LEMMA BookVehicleStep ==
    ASSUME CustomerIInv, NEW r \in Requests, BookVehicle(r) PROVE Sound(r)
<1>1. /\ request[r] \in Request /\ Knows(request[r], Made)
      /\ Doing(r, "book", "checked") /\ request[r].op = "book" /\ request[r].phase = "checked"
  BY RequestTyped DEF BookVehicle, Doing
<1>2. request[r].plate \in Plates /\ request[r].customer \in Customers
  BY <1>1 DEF Knows
<1>3. PICK v \in Plates : v = request[r].plate
  BY <1>2
<1>4. PICK c \in Customers : c = request[r].customer
  BY <1>2
<1> DEFINE back == [vehicle[v] EXCEPT !.deleted = FALSE]
           row == IF request[r].flag THEN [owner |-> c, deleted |-> FALSE] ELSE back
<1>5. vehicle' = [vehicle EXCEPT ![v] = row]
  BY <1>3, <1>4, Zenon DEF BookVehicle
<1>6. back \in VehicleRow /\ back.owner = vehicle[v].owner
  BY VehiclesTyped DEF VehicleRow
<1> HIDE DEF back
<1>7. /\ row \in VehicleRow
      /\ request[r].flag => row.owner = c
      /\ ~request[r].flag => row.owner = vehicle[v].owner
  BY <1>6, OwnedTyped
<1> HIDE DEF row
<1>8. vehicle' \in [Plates -> VehicleRow] /\ \A w \in Plates : Moves(r, w)
  <2>1. \/ row.owner = request[r].customer
        \/ ~request[r].flag /\ vehicle[v].owner # request[r].customer
    BY <1>4, <1>7
  <2> QED
    BY <1>1, <1>3, <1>5, <1>7, <2>1, OneVehicle
<1> QED
  BY <1>1, <1>8, EndsWithoutCustomer DEF BookVehicle

LEMMA VehicleSteps ==
    ASSUME CustomerIInv, NEW r \in Requests,
           AddVehicle(r) \/ Transfer(r) \/ RemoveVehicle(r)
    PROVE  Sound(r)
<1>1. /\ request[r] \in Request /\ Knows(request[r], Made)
      /\ request[r].op \in {"addVehicle", "transfer", "removeVehicle"}
      /\ request[r].phase = "read"
  BY RequestTyped DEF AddVehicle, Transfer, RemoveVehicle, Doing
<1>2. PICK v \in Plates : v = request[r].plate
  BY <1>1 DEF Knows
<1>3. End(r) /\ UNCHANGED <<customer, claim, link, expired, approved, redactions>>
  BY Zenon DEF AddVehicle, Transfer, RemoveVehicle
<1>4. CASE AddVehicle(r) \/ Transfer(r)
  <2>1. PICK c \in Customers : c = request[r].customer
    BY <1>1, <1>4 DEF Knows, AddVehicle, Transfer, Doing
  <2>2. vehicle' = [vehicle EXCEPT ![v] = [owner |-> c, deleted |-> FALSE]]
    BY <1>2, <1>4, <2>1, Zenon DEF AddVehicle, Transfer
  <2>3. PICK row \in VehicleRow : row = [owner |-> c, deleted |-> FALSE]
    BY OwnedTyped
  <2>4. row.owner = request[r].customer
    BY <2>1, <2>3
  <2>5. vehicle' \in [Plates -> VehicleRow] /\ \A w \in Plates : Moves(r, w)
    BY <1>2, <2>2, <2>3, <2>4, OneVehicle
  <2> QED
    BY <1>1, <1>3, <2>5, EndsWithoutCustomer
<1>5. CASE RemoveVehicle(r)
  <2> DEFINE row == [vehicle[v] EXCEPT !.deleted = TRUE]
  <2>1. vehicle' = [vehicle EXCEPT ![v] = row]
    <3>1. vehicle' = [vehicle EXCEPT ![v].deleted = TRUE]
      BY <1>2, <1>5, Zenon DEF RemoveVehicle
    <3> QED
      BY <3>1
  <2>2. row \in VehicleRow /\ row.deleted
    BY VehiclesTyped DEF VehicleRow
  <2> HIDE DEF row
  <2>3. vehicle' \in [Plates -> VehicleRow] /\ \A w \in Plates : Moves(r, w)
    BY <2>1, <2>2, OneVehicle
  <2> QED
    BY <1>1, <1>3, <2>3, EndsWithoutCustomer
<1> QED
  BY <1>4, <1>5

LEMMA ConsentSteps ==
    ASSUME CustomerIInv, NEW r \in Requests, SendLink(r) \/ Grant(r) PROVE Sound(r)
<1>1. /\ Knows(request[r], Made) /\ request[r].phase = "read"
      /\ request[r].op \in {"link", "confirm", "direct"}
  BY RequestTyped DEF SendLink, Grant, Doing
<1>2. request[r].customer \in Customers
  BY <1>1 DEF Knows
<1>3. End(r) /\ UNCHANGED <<customer, vehicle, claim, expired, redactions>>
  BY Zenon DEF SendLink, Grant
<1>4. link' \in [Requests -> Customers \cup {Null}]
  BY <1>2 DEF SendLink, Grant, CustomerIInv, CustomerTypeOK
<1>5. approved' \in [kvkk : SUBSET Customers, commercial : SUBSET Customers]
      /\ CommercialWithKvkk'
  <2>1. /\ approved \in [kvkk : SUBSET Customers, commercial : SUBSET Customers]
        /\ approved.commercial \subseteq approved.kvkk
    BY DEF CustomerIInv, CustomerTypeOK, CommercialWithKvkk
  <2>2. PICK c \in Customers, flag \in BOOLEAN :
           c = request[r].customer /\ flag = request[r].flag
    BY <1>2, RequestTyped DEF Request
  <2>3. CASE SendLink(r)
    BY <2>1, <2>3 DEF SendLink, CommercialWithKvkk
  <2>4. CASE Grant(r)
    <3> DEFINE old == approved.commercial
               with == IF flag THEN old \cup {c} ELSE old
    <3>1. approved' = [approved EXCEPT !.kvkk = @ \cup {c}, !.commercial = with]
      BY <2>2, <2>4 DEF Grant, Approve
    <3>2. with \subseteq Customers /\ with \subseteq approved.kvkk \cup {c}
      BY <2>1
    <3> HIDE DEF with
    <3>3. /\ approved' \in [kvkk : SUBSET Customers, commercial : SUBSET Customers]
          /\ approved'.kvkk = approved.kvkk \cup {c} /\ approved'.commercial = with
      BY <2>1, <3>1, <3>2
    <3> QED
      BY <3>2, <3>3 DEF CommercialWithKvkk
  <2> QED
    BY <2>3, <2>4
<1>6. CustomerIInv'
  BY <1>3, <1>4, <1>5, SameGrown, EndStep DEF CustomerIInv, CustomerTypeOK
<1> QED
  BY <1>1, <1>3, <1>6, EndMoves, SameVehicles DEF Sound, OneCustomer

LEMMA FailStep ==
    ASSUME CustomerIInv, NEW r \in Requests, Fail(r) PROVE Sound(r)
<1>1. vehicle' \in [Plates -> VehicleRow]
  BY DEF Fail, CustomerIInv, CustomerTypeOK
<1> QED
  BY <1>1, SameVehicles, EndsWithoutCustomer DEF Fail

LEMMA ContinueSound == ASSUME CustomerIInv, NEW r \in Requests, Continue(r) PROVE Sound(r)
BY WriteCreateStep, CheckUpdateStep, WriteUpdateStep, WriteArchiveStep, WriteRestoreStep,
   TakeRowStep, AnonymizeStep, WriteLeadStep, WriteImportStep, BookCustomerStep,
   BookLooksStep, BookVehicleStep, VehicleSteps, ConsentSteps, FailStep, Zenon DEF Continue

\* A step that leaves requests, customers and redactions alone.
LEMMA OutsideKeeps ==
    ASSUME CustomerIInv,
           \/ \E r \in Requests : ExpireLink(r)
           \/ \E c \in Customers, k \in Claims \cup {Null} : Hold(c, k)
           \/ UNCHANGED customerVars
    PROVE  CustomerIInv'
<1>1. UNCHANGED <<customer, vehicle, link, approved, redactions, request>>
  BY DEF ExpireLink, Hold, customerVars
<1>2. claim' \in [Customers -> Claims \cup {Null}] /\ expired' \subseteq Requests
  BY DEF ExpireLink, Hold, customerVars, CustomerIInv, CustomerTypeOK
<1>3. CustomerTypeOK'
  BY <1>1, <1>2 DEF CustomerIInv, CustomerTypeOK
<1>4. \A r \in Requests : Knows(request[r], Made)'
  BY <1>1 DEF CustomerIInv, Knows, Made
<1>5. Chained'
  BY <1>1 DEF CustomerIInv, Chained, CustomerChained, Redacting, Doing
<1> QED
  BY <1>1, <1>3, <1>4, <1>5 DEF CustomerIInv, CommercialWithKvkk

\* A step changes customers and vehicles through one request, or not at all.
LEMMA CustomerStep ==
    ASSUME CustomerIInv, [CustomerNext]_customerVars
    PROVE  /\ CustomerIInv'
           /\ UNCHANGED <<customer, vehicle>> \/ \E r \in Requests : Sound(r)
<1>1. ASSUME NEW r \in Requests, Start(r) PROVE UNCHANGED <<customer, vehicle>>
  BY <1>1, Zenon DEF Start, Begin, StartCreate, StartUpdate, StartArchive, StartRestore,
     StartAnonymize, StartLead, StartImport, StartBook, StartAddVehicle, StartTransfer,
     StartRemoveVehicle, StartLink, StartConfirm, StartDirect
<1>2. ASSUME NEW r \in Requests, Start(r) \/ Continue(r)
      PROVE  /\ CustomerIInv'
             /\ UNCHANGED <<customer, vehicle>> \/ \E s \in Requests : Sound(s)
  <2>1. CASE Start(r)
    BY <1>1, <2>1, StartKeeps
  <2>2. CASE Continue(r)
    <3>1. Sound(r) /\ CustomerIInv'
      BY <2>2, ContinueSound DEF Sound
    <3> QED
      BY <3>1
  <2> QED
    BY <1>2, <2>1, <2>2
<1>3. ASSUME \/ \E r \in Requests : ExpireLink(r)
             \/ \E c \in Customers, k \in Claims \cup {Null} : Hold(c, k)
             \/ UNCHANGED customerVars
      PROVE  CustomerIInv' /\ UNCHANGED <<customer, vehicle>>
  BY <1>3, OutsideKeeps DEF ExpireLink, Hold, customerVars
<1> QED
  BY <1>2, <1>3, Zenon DEF CustomerNext

LEMMA CustomerInvariance == CustomerSpec => []CustomerIInv
<1>1. CustomerIInv /\ [CustomerNext]_customerVars => CustomerIInv'
  BY CustomerStep
<1> QED
  BY <1>1, CustomerInitInv, PTL DEF CustomerSpec

\* Two redactions of a customer never follow the same one, commercial messages are
\* approved only with the consent itself, and the tables keep their shape
\* (anonymizeByAdmin, kvkk-consent.service.ts).
THEOREM RedactionsAreChained == CustomerSpec => []CustomersConsistent
<1>1. CustomerIInv => CustomersConsistent
  BY DEF CustomerIInv, Chained, CustomersConsistent
<1> QED
  BY <1>1, CustomerInvariance, PTL

----------------------------------------------------------------------------
(* Customers: what a step may do to the rows *)

\* The phone and the identity of an archived, anonymised customer come back only with
\* a save that had found the customer, or an import that had; the address is never
\* erased (prisma-customer.repository.ts save, batchImport, anonymizeCustomer).
THEOREM RedactedStaysRedacted == CustomerSpec => ErasedStaysErased
<1>1. ASSUME CustomerIInv, [CustomerNext]_customerVars, NEW c \in Customers,
             customer[c].deleted, customer[c].anonymized, Erased(c), ~Erased(c)'
      PROVE  \E r \in Requests :
                /\ request'[r] # request[r]
                /\ \/ /\ Doing(r, "update", "checked")
                      /\ request[r].customer = c /\ request[r].flag
                   \/ Doing(r, "import", "read") /\ c \in request[r].seen
  <2>1. customer' # customer
    BY <1>1 DEF Erased
  <2>2. PICK r \in Requests : Sound(r)
    BY <1>1, <2>1, CustomerStep
  <2>3. Changes(r, c) /\ request'[r] # request[r]
    BY <1>1, <2>1, <2>2 DEF Sound, OneCustomer, Erased
  <2>4. Saves(r, c) \/ Fills(r, c)
    <3>1. customer[c].made /\ customer[c] \in CustomerRow
      BY <1>1, RowsTyped DEF CustomerIInv
    <3>2. ~Makes(r, c) /\ ~Redacts(r, c)
      BY <1>1, <3>1 DEF Makes, Redacts, Erased
    <3>3. ~Archives(r, c) /\ ~Revives(c)
      BY <1>1, <3>1 DEF Archives, Revives, CustomerRow, Erased
    <3> QED
      BY <2>3, <3>2, <3>3 DEF Changes
  <2> QED
    BY <2>3, <2>4 DEF Saves, Fills
<1>2. CustomerIInv /\ [CustomerNext]_customerVars =>
         [\A c \in Customers :
             customer[c].deleted /\ customer[c].anonymized /\ Erased(c) /\ ~Erased(c)' =>
                \E r \in Requests :
                   /\ request'[r] # request[r]
                   /\ \/ /\ Doing(r, "update", "checked")
                         /\ request[r].customer = c /\ request[r].flag
                      \/ Doing(r, "import", "read") /\ c \in request[r].seen]_customerVars
  BY <1>1
<1> QED
  BY <1>2, CustomerInvariance, PTL DEF CustomerSpec, ErasedStaysErased

LEMMA SharedStep ==
    ASSUME CustomerIInv, [CustomerNext]_customerVars PROVE SharedOnlyWhenOutdated
<1> SUFFICES ASSUME NEW c \in Customers, NEW d \in Customers, c # d,
                    ~Share(c, d), Share(c, d)'
             PROVE  \/ \E o \in {c, d} : customer[o].made /\ customer[o].deleted
                    \/ \E o \in {c, d}, r \in Requests :
                          /\ customer'[o] = customer[o] /\ request'[r] # request[r]
                          /\ \/ customer[o].phone \in Looked(r) /\ o \notin request[r].seen
                             \/ WritesBack(r, customer[o].phone)
                             \/ Doing(r, "import", "read") /\ Looked(r) = {}
  BY Zenon DEF SharedOnlyWhenOutdated
<1>1. /\ customer'[c].made /\ ~customer'[c].deleted
      /\ customer'[d].made /\ ~customer'[d].deleted
      /\ customer'[c].phone = customer'[d].phone /\ customer'[c].phone # Masked
  BY DEF Share, Live
<1>2. customer' # customer
  BY <1>1 DEF Share, Live
<1>3. PICK r \in Requests : Sound(r)
  BY <1>2, CustomerStep
<1>4. PICK b \in Customers :
         Changes(r, b) /\ \A e \in Customers \ {b} : customer'[e] = customer[e]
  BY <1>2, <1>3 DEF Sound, OneCustomer
<1>5. b \in {c, d}
  BY <1>1, <1>4 DEF Share, Live
<1>6. PICK o \in {c, d} : o # b /\ o \in Customers
  BY <1>5
<1>7. customer'[o] = customer[o] /\ request'[r] # request[r]
  BY <1>3, <1>4, <1>6 DEF Sound
<1>8. customer[b] \in CustomerRow
  BY RowsTyped
<1>9. CASE Makes(r, b) \/ Saves(r, b)
  <2>1. o \notin request[r].seen /\ customer[o].phone = customer'[b].phone
    BY <1>1, <1>5, <1>6, <1>7, <1>9 DEF Makes, Saves
  <2>2. \/ customer[o].phone \in Looked(r)
        \/ WritesBack(r, customer[o].phone)
        \/ Doing(r, "import", "read") /\ Looked(r) = {}
    BY <1>9, <2>1 DEF Makes, Saves
  <2> QED
    BY <1>7, <2>1, <2>2
<1>10. CASE Fills(r, b)
  BY <1>1, <1>4, <1>5, <1>10 DEF Fills, Share, Live
<1>11. CASE Archives(r, b) \/ Redacts(r, b)
  BY <1>1, <1>5, <1>8, <1>11 DEF Archives, Redacts, CustomerRow
<1>12. CASE Revives(b)
  <2>1. CASE customer[b].deleted
    BY <1>5, <1>12, <2>1 DEF Revives
  <2>2. CASE ~customer[b].deleted
    <3>1. customer'[b] = customer[b]
      BY <1>8, <1>12, <2>2 DEF Revives, CustomerRow
    <3> QED
      BY <1>1, <1>4, <1>5, <3>1 DEF Share, Live
  <2> QED
    BY <2>1, <2>2
<1> QED
  BY <1>4, <1>9, <1>10, <1>11, <1>12 DEF Changes

LEMMA PutAwayStep ==
    ASSUME CustomerIInv, [CustomerNext]_customerVars PROVE PutAwayOnlyWhenOutdated
<1> SUFFICES ASSUME NEW c \in Customers, Live(c), customer'[c].deleted
             PROVE  \E r \in Requests :
                       /\ request[r].customer = c /\ request'[r] # request[r]
                       /\ \/ request[r].held # claim[c]
                          \/ claim[c] \notin (IF request[r].op = "archive"
                                              THEN {"order", "debt"} ELSE {"debt", "invoice"})
  BY Zenon DEF PutAwayOnlyWhenOutdated
<1>1. customer[c] \in CustomerRow /\ customer[c].made /\ ~customer[c].deleted
  BY RowsTyped DEF Live
<1>2. customer' # customer
  BY <1>1
<1>3. PICK r \in Requests : Sound(r)
  BY <1>2, CustomerStep
<1>4. Changes(r, c) /\ request'[r] # request[r]
  BY <1>1, <1>2, <1>3 DEF Sound, OneCustomer
<1>5. Archives(r, c) \/ Redacts(r, c)
  <2>1. ~Makes(r, c) /\ ~Saves(r, c) /\ ~Fills(r, c)
    BY <1>1 DEF Makes, Saves, Fills
  <2>2. ~Revives(c)
    BY <1>1 DEF Revives, CustomerRow
  <2> QED
    BY <1>4, <2>1, <2>2 DEF Changes
<1> QED
  BY <1>4, <1>5 DEF Archives, Redacts, Redacting, Doing, Keeps, Binds

LEMMA OrphanStep ==
    ASSUME CustomerIInv, [CustomerNext]_customerVars PROVE OrphanOnlyWhenOutdated
<1> SUFFICES ASSUME NEW v \in Plates, ~Orphan(v), Orphan(v)'
             PROVE  \E r \in Requests :
                       \/ /\ Doing(r, "anonymize", "tx")
                          /\ request[r].customer = vehicle[v].owner
                       \/ /\ request[r].plate = v /\ request'[r] # request[r]
                          /\ \/ vehicle'[v].owner \in request[r].seen \cup {request[r].customer}
                             \/ /\ Doing(r, "book", "checked") /\ ~request[r].flag
                                /\ vehicle[v].owner # request[r].customer
  BY Zenon DEF OrphanOnlyWhenOutdated
<1>1. vehicle'[v].owner # Null /\ ~vehicle'[v].deleted /\ ~Live(vehicle[v].owner)'
  BY DEF Orphan
<1>2. ~UNCHANGED <<customer, vehicle>>
  BY <1>1 DEF Orphan, Live
<1>3. PICK r \in Requests : Sound(r)
  BY <1>2, CustomerStep
<1>4. Moves(r, v) /\ request'[r] # request[r]
  BY <1>3 DEF Sound
<1>5. CASE vehicle'[v] = vehicle[v]
  <2>1. PICK c \in Customers : c = vehicle[v].owner
    BY <1>1, <1>5, VehiclesTyped DEF VehicleRow
  <2>2. Live(c) /\ ~(customer'[c].made /\ ~customer'[c].deleted)
    BY <1>1, <1>5, <2>1 DEF Orphan, Live
  <2>3. customer[c] \in CustomerRow /\ customer[c].made /\ ~customer[c].deleted
    BY <2>2, RowsTyped DEF Live
  <2>4. Changes(r, c)
    BY <1>3, <2>2, <2>3 DEF Sound, OneCustomer
  <2>5. ~Makes(r, c) /\ ~Saves(r, c) /\ ~Fills(r, c)
    BY <2>2, <2>3 DEF Makes, Saves, Fills
  <2>6. ~Revives(c)
    BY <2>2, <2>3 DEF Revives, CustomerRow
  <2>7. ~Archives(r, c)
    BY <1>1, <2>1 DEF Archives
  <2>8. Redacts(r, c)
    BY <2>4, <2>5, <2>6, <2>7 DEF Changes
  <2> QED
    BY <2>1, <2>8 DEF Redacts, Redacting
<1>6. CASE vehicle'[v] # vehicle[v]
  BY <1>1, <1>4, <1>6 DEF Moves
<1> QED
  BY <1>5, <1>6

\* Phones come to be shared, customers put away while something keeps them, and
\* vehicles left without an owner, only by a request that acts on what it had read,
\* by an import of a row without a phone, by an anonymisation, or by a customer brought
\* back.
THEOREM RulesBrokenWhenOutdated == CustomerSpec => RulesBrokenOnlyWhenOutdated
<1>1. CustomerIInv /\ [CustomerNext]_customerVars =>
         [SharedOnlyWhenOutdated /\ PutAwayOnlyWhenOutdated /\ OrphanOnlyWhenOutdated]_customerVars
  BY SharedStep, PutAwayStep, OrphanStep
<1> QED
  BY <1>1, CustomerInvariance, PTL DEF CustomerSpec, RulesBrokenOnlyWhenOutdated
==============================================================================
