------------------------------ MODULE Sessions ------------------------------
(***************************************************************************)
(* Sessions of the users of one tenant: one-time codes sent by SMS, refresh *)
(* tokens that rotate within a family, logout, and the check every request  *)
(* of the API passes before its handler runs.                               *)
(*                                                                          *)
(* What a request reads and what it writes are steps of their own, and the  *)
(* requests of one user interleave.  The codes and their counters live in   *)
(* Redis, where each read may find nothing and each write may be lost;      *)
(* users and tokens live in PostgreSQL.  An inactive user stands for one    *)
(* whose tenant is suspended as well: both are read together wherever one   *)
(* of them is.  The code accepted without an SMS in development is left out.*)
(***************************************************************************)
EXTENDS Integers

CONSTANTS
    Users,
    Requests,      \* requests in flight; a slot is reused when its request ends
    Codes,         \* one-time codes; one that a user used is not drawn for the user again
    Families,      \* families of refresh tokens, one for each login
    Tokens,        \* refresh tokens
    MaxTries,      \* wrong codes after which a code is cancelled (5)
    MaxSent,       \* codes sent in an hour (5)
    None

ASSUME LimitsAssumption == MaxTries \in Nat \ {0} /\ MaxSent \in Nat \ {0}
ASSUME NoneAssumption == None \notin Users \cup Codes \cup Families \cup Tokens

VARIABLES
    user,          \* rows of User: whether they exist and may act
    otp,           \* Redis, for each user: the code and the three counters
    token,         \* rows of RefreshToken
    request,       \* the requests in flight
    spent,         \* history: codes of users deleted because they had opened a session
    sealed         \* history: families revoked while no refresh held a claim on them

vars == <<user, otp, token, request, spent, sealed>>

UserStatus == {"ACTIVE", "INACTIVE", "ABSENT"}

OtpKeys == [code : Codes \cup {None}, tries : 0..MaxTries, cooling : BOOLEAN,
            sent : 0..MaxSent]

TokenRow == [state : {"NONE", "LIVE", "EXPIRED", "REVOKED", "DELETED"},
             user : Users \cup {None}, family : Families \cup {None}]

\* Where a request is: the last thing it read or wrote.
Phase == {"idle", "limits", "stored", "tried", "right", "claiming",
          "claimed", "granting", "identified", "admitted"}

Request == [phase : Phase, user : Users \cup {None}, code : Codes \cup {None},
            token : Tokens \cup {None}, family : Families \cup {None},
            read : 0..(MaxTries + MaxSent), late : BOOLEAN]

TypeOK ==
    /\ user \in [Users -> UserStatus]
    /\ otp \in [Users -> OtpKeys]
    /\ token \in [Tokens -> TokenRow]
    /\ request \in [Requests -> Request]
    /\ spent \subseteq Users \X Codes
    /\ sealed \subseteq Families

Idle == [phase |-> "idle", user |-> None, code |-> None, token |-> None,
         family |-> None, read |-> 0, late |-> FALSE]

NoKeys == [code |-> None, tries |-> 0, cooling |-> FALSE, sent |-> 0]

Init ==
    /\ user \in [Users -> {"ACTIVE", "ABSENT"}]
    /\ otp = [u \in Users |-> NoKeys]
    /\ token = [t \in Tokens |-> [state |-> "NONE", user |-> None, family |-> None]]
    /\ request = [r \in Requests |-> Idle]
    /\ spent = {}
    /\ sealed = {}

----------------------------------------------------------------------------
(* Requests and Redis *)

At(r, p) == request[r].phase = p
Enter(r, p) == request' = [request EXCEPT ![r].phase = p]
End(r) == request' = [request EXCEPT ![r] = Idle]

\* GET of the keys of a user: what is there, or nothing when Redis fails.
Got(u) == {otp[u], NoKeys}

\* SET or DEL of the keys of a user that differ from keys; each may be lost.
Put(u, keys) ==
    \E c \in {otp[u].code, keys.code}, n \in {otp[u].tries, keys.tries},
       b \in {otp[u].cooling, keys.cooling}, s \in {otp[u].sent, keys.sent} :
       otp' = [otp EXCEPT ![u] = [code |-> c, tries |-> n, cooling |-> b, sent |-> s]]

Active(u) == user[u] = "ACTIVE"

----------------------------------------------------------------------------
(* A code is sent *)

\* The cooldown and the count of the hour are read.
StartSend(r, u) ==
    /\ At(r, "idle")
    /\ \E keys \in Got(u) : ~keys.cooling
    /\ \E keys \in Got(u) :
          /\ keys.sent < MaxSent
          /\ request' = [request EXCEPT ![r] = [Idle EXCEPT !.phase = "limits", !.user = u,
                                                            !.read = keys.sent]]
    /\ UNCHANGED <<user, otp, token, spent, sealed>>

\* Variant: a new code starts with a new count of wrong guesses.
CodeStored_ResetsTries(u, k) == [otp[u] EXCEPT !.code = k, !.tries = 0]

\* The code replaces the one before it; the wrong guesses are kept.
CodeStored(u, k) == [otp[u] EXCEPT !.code = k]

\* The account is looked up.  Without an active one the answer is the same and
\* no code is made.
StoreCode(r, k) ==
    /\ At(r, "limits")
    /\ LET u == request[r].user
       IN  IF Active(u)
           THEN /\ <<u, k>> \notin spent
                /\ Put(u, CodeStored(u, k))
                /\ Enter(r, "stored")
           ELSE End(r) /\ UNCHANGED otp
    /\ UNCHANGED <<user, token, spent, sealed>>

\* The provider takes the SMS: the cooldown starts and the count of the hour
\* becomes the count read plus one.  Or it fails: the key is deleted, whatever
\* code it holds by now.
Deliver(r) ==
    /\ At(r, "stored")
    /\ LET u == request[r].user
       IN  \/ Put(u, [otp[u] EXCEPT !.cooling = TRUE, !.sent = request[r].read + 1])
           \/ Put(u, [otp[u] EXCEPT !.code = None])
    /\ End(r)
    /\ UNCHANGED <<user, token, spent, sealed>>

----------------------------------------------------------------------------
(* A code is verified *)

TooMany(n) == n >= MaxTries

\* The account is looked up and the number of wrong guesses read.  Too many of
\* them cancel the code.  None is a guess that was never sent.
StartVerify(r, u, k) ==
    /\ At(r, "idle")
    /\ Active(u)
    /\ \E keys \in Got(u) :
          IF TooMany(keys.tries)
          THEN Put(u, [otp[u] EXCEPT !.code = None]) /\ UNCHANGED request
          ELSE /\ request' = [request EXCEPT ![r] =
                     [Idle EXCEPT !.phase = "tried", !.user = u, !.code = k,
                                  !.read = keys.tries, !.late = <<u, k>> \in spent]]
               /\ UNCHANGED otp
    /\ UNCHANGED <<user, token, spent, sealed>>

\* The keys after a wrong guess by a request that had read n before it.
Missed(u, n) ==
    [otp[u] EXCEPT !.tries = n + 1, !.code = IF TooMany(n + 1) THEN None ELSE @]

\* The code is read: none is there, a wrong one is counted, or it is right.
CheckCode(r) ==
    /\ At(r, "tried")
    /\ LET u == request[r].user
       IN  \E keys \in Got(u) :
              \/ keys.code = None /\ End(r) /\ UNCHANGED otp
              \/ /\ keys.code \notin {None, request[r].code}
                 /\ Put(u, Missed(u, request[r].read))
                 /\ End(r)
              \/ keys.code # None /\ keys.code = request[r].code /\ Enter(r, "right") /\ UNCHANGED otp
    /\ UNCHANGED <<user, token, spent, sealed>>

\* The code and the count of wrong guesses are deleted, whatever they are by now.
CodeConsumed(u) == [otp[u] EXCEPT !.code = None, !.tries = 0]

Consume(r) ==
    /\ At(r, "right")
    /\ LET u == request[r].user
       IN  /\ Put(u, CodeConsumed(u))
           /\ spent' = IF otp'[u].code = None THEN spent \cup {<<u, request[r].code>>} ELSE spent
    /\ Enter(r, "granting")
    /\ UNCHANGED <<user, token, sealed>>

\* A new tenant and its owner are inserted in one transaction; the owner is
\* given tokens without a code.
Register(r, u) ==
    /\ At(r, "idle")
    /\ user[u] = "ABSENT"
    /\ user' = [user EXCEPT ![u] = "ACTIVE"]
    /\ request' = [request EXCEPT ![r] = [Idle EXCEPT !.phase = "granting", !.user = u]]
    /\ UNCHANGED <<otp, token, spent, sealed>>

----------------------------------------------------------------------------
(* Refresh tokens *)

TokensOf(f) == {t \in Tokens : token[t].family = f}
Live(f) == {t \in TokensOf(f) : token[t].state = "LIVE"}

\* Refreshes of the family that have claimed a token and not yet inserted the next.
Claimants(f) == {r \in Requests : request[r].phase \in {"claimed", "granting"}
                                    /\ request[r].family = f}

\* updateMany where familyId, isRevoked: true.
FamilyRevoked(t) ==
    [s \in Tokens |-> IF token[s].family = token[t].family /\ token[s].state # "DELETED"
                      THEN [token[s] EXCEPT !.state = "REVOKED"] ELSE token[s]]

RevokeFamily(t) ==
    /\ token' = FamilyRevoked(t)
    /\ sealed' = IF Claimants(token[t].family) = {} THEN sealed \cup {token[t].family} ELSE sealed

\* The token is looked up.  One that was used before revokes its family.
StartRefresh(r, t) ==
    /\ At(r, "idle")
    /\ token[t].state \in {"LIVE", "EXPIRED", "REVOKED"}
    /\ IF token[t].state = "LIVE"
       THEN /\ request' = [request EXCEPT ![r] =
                  [Idle EXCEPT !.phase = "claiming", !.user = token[t].user,
                               !.token = t, !.family = token[t].family]]
            /\ UNCHANGED <<token, sealed>>
       ELSE RevokeFamily(t) /\ UNCHANGED request
    /\ UNCHANGED <<user, otp, spent>>

\* Variant: the update of the claim is not restricted to unrevoked tokens.
Claimable_Always(t) == token[t].state # "DELETED"

\* updateMany where isRevoked: false finds the row.
Claimable(t) == token[t].state \in {"LIVE", "EXPIRED"}

Claim(r) ==
    /\ At(r, "claiming")
    /\ IF Claimable(request[r].token)
       THEN /\ token' = [token EXCEPT ![request[r].token].state = "REVOKED"]
            /\ Enter(r, "claimed")
       ELSE End(r) /\ UNCHANGED token
    /\ UNCHANGED <<user, otp, spent, sealed>>

\* The account is looked up after the claim; the token stays used.
CheckAccount(r) ==
    /\ At(r, "claimed")
    /\ IF Active(request[r].user) THEN Enter(r, "granting") ELSE End(r)
    /\ UNCHANGED <<user, otp, token, spent, sealed>>

\* generateTokens: a row in the family of the request, or in a new one.  The
\* insertion fails when the account was deleted.
Grant(r, t, f) ==
    /\ At(r, "granting")
    /\ token[t].state = "NONE"
    /\ IF request[r].family = None THEN TokensOf(f) = {} ELSE f = request[r].family
    /\ token' = IF user[request[r].user] = "ABSENT" THEN token
                ELSE [token EXCEPT ![t] = [state |-> "LIVE", user |-> request[r].user,
                                           family |-> f]]
    /\ End(r)
    /\ UNCHANGED <<user, otp, spent, sealed>>

\* The token of the cookie and its family are revoked; errors are swallowed,
\* which Die stands for.
Logout(t) ==
    /\ token[t].state \in {"LIVE", "EXPIRED", "REVOKED"}
    /\ RevokeFamily(t)
    /\ UNCHANGED <<user, otp, request, spent>>

----------------------------------------------------------------------------
(* A request of the API *)

\* An access token of family f: the user and the tenant are read.
StartCall(r, u, f) ==
    /\ At(r, "idle")
    /\ \E t \in TokensOf(f) : token[t].user = u
    /\ Active(u)
    /\ request' = [request EXCEPT ![r] =
          [Idle EXCEPT !.phase = "identified", !.user = u, !.family = f, !.late = f \in sealed]]
    /\ UNCHANGED <<user, otp, token, spent, sealed>>

\* Variant: the signature of the access token is trusted.
SessionFound_Always(u, f) == TRUE

SessionFound(u, f) == \E t \in Live(f) : token[t].user = u

\* The family must have a live token.  The tenant is read once more and may
\* have been suspended, which Die stands for.
CheckSession(r) ==
    /\ At(r, "identified")
    /\ IF SessionFound(request[r].user, request[r].family)
       THEN Enter(r, "admitted")
       ELSE End(r)
    /\ UNCHANGED <<user, otp, token, spent, sealed>>

\* The handler returns, or a request is dropped on the way: the process dies, a
\* query fails.
Die(r) ==
    /\ ~At(r, "idle")
    /\ End(r)
    /\ UNCHANGED <<user, otp, token, spent, sealed>>

----------------------------------------------------------------------------
(* Administration, time and Redis *)

SetActive(u, s) ==
    /\ user[u] \in {"ACTIVE", "INACTIVE"}
    /\ user' = [user EXCEPT ![u] = s]
    /\ UNCHANGED <<otp, token, request, spent, sealed>>

\* The refresh tokens go with the user they reference.
DeleteUser(u) ==
    /\ user[u] # "ABSENT"
    /\ user' = [user EXCEPT ![u] = "ABSENT"]
    /\ token' = [t \in Tokens |-> IF token[t].user = u
                                  THEN [token[t] EXCEPT !.state = "DELETED"] ELSE token[t]]
    /\ UNCHANGED <<otp, request, spent, sealed>>

\* A key of Redis reaches its time to live: 180 seconds for the code, 900 for
\* the wrong guesses, 60 for the cooldown and 3600 for the count set with it.
ExpireKey(u) ==
    /\ \/ otp' = [otp EXCEPT ![u].code = None]
       \/ otp' = [otp EXCEPT ![u].tries = 0]
       \/ otp' = [otp EXCEPT ![u].cooling = FALSE]
       \/ ~otp[u].cooling /\ otp' = [otp EXCEPT ![u].sent = 0]
    /\ UNCHANGED <<user, token, request, spent, sealed>>

ExpireToken(t) ==
    /\ token[t].state = "LIVE"
    /\ token' = [token EXCEPT ![t].state = "EXPIRED"]
    /\ UNCHANGED <<user, otp, request, spent, sealed>>

Step(r) ==
    \/ \E k \in Codes : StoreCode(r, k)
    \/ Deliver(r)
    \/ CheckCode(r)
    \/ Consume(r)
    \/ Claim(r)
    \/ CheckAccount(r)
    \/ \E t \in Tokens, f \in Families : Grant(r, t, f)
    \/ CheckSession(r)
    \/ Die(r)

Next ==
    \/ \E r \in Requests, u \in Users : StartSend(r, u)
    \/ \E r \in Requests, u \in Users, k \in Codes \cup {None} : StartVerify(r, u, k)
    \/ \E r \in Requests, u \in Users : Register(r, u)
    \/ \E r \in Requests, t \in Tokens : StartRefresh(r, t)
    \/ \E r \in Requests, u \in Users, f \in Families : StartCall(r, u, f)
    \/ \E r \in Requests : Step(r)
    \/ \E t \in Tokens : Logout(t)
    \/ \E u \in Users, s \in {"ACTIVE", "INACTIVE"} : SetActive(u, s)
    \/ \E u \in Users : DeleteUser(u)
    \/ \E u \in Users : ExpireKey(u)
    \/ \E t \in Tokens : ExpireToken(t)

Spec == Init /\ [][Next]_vars

----------------------------------------------------------------------------
(* Properties *)

\* Rotation never forks a family: however refreshes, repeated refreshes and
\* logouts interleave, a family has at most one live token, and none while a
\* refresh holds its claim.
OneLiveToken ==
    \A f \in Families :
       /\ \A s, t \in Live(f) : s = t
       /\ \A q, r \in Claimants(f) : q = r
       /\ Live(f) = {} \/ Claimants(f) = {}

\* A family that was revoked (by a logout, or because a used token came back)
\* while no refresh had claimed a token of it is never live again.
SealedStaysSealed == \A f \in sealed : Live(f) = {} /\ Claimants(f) = {}

\* Types, rotation and revocation.
SessionsConsistent == TypeOK /\ OneLiveToken /\ SealedStaysSealed

\* A request that begins after its family was revoked while no refresh had a claim
\* never reaches a handler, and a verification that begins after its code was used
\* and deleted opens no session.
NothingLate ==
    \A r \in Requests : request[r].phase \in {"admitted", "right", "granting"} => ~request[r].late

\* The count of wrong guesses falls only when its key expires, when the right
\* code was given, or when a request that had read an older count writes it back.
TriesFallOnlyWhenOutdated ==
    [][\A u \in Users :
          otp'[u].tries < otp[u].tries =>
              \/ otp'[u] = [otp[u] EXCEPT !.tries = 0]
              \/ \E r \in Requests :
                    /\ request[r].user = u
                    /\ request'[r] # request[r]
                    /\ \/ At(r, "right")
                       \/ At(r, "tried") /\ request[r].read < otp[u].tries]_vars
==============================================================================
