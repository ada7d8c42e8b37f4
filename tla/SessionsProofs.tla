--------------------------- MODULE SessionsProofs ---------------------------
(***************************************************************************)
(* Rotation never forks a family of refresh tokens, and a family that was   *)
(* revoked stays revoked: SessionsConsistent for any number of users,       *)
(* requests, codes, families and tokens.                                    *)
(*                                                                          *)
(* The invariant is not inductive as it stands.  What carries it is that a  *)
(* family has at most one of three things: a live token, an expired one     *)
(* (which Claimable finds as well), or a refresh that has claimed one; that *)
(* only a family with tokens is refreshed, and that a new family has none;  *)
(* and the bounds under which the counters of the codes are written.        *)
(***************************************************************************)
EXTENDS Sessions, TLAPS

\* Tokens a claim would find.
Usable(f) == {t \in TokensOf(f) : Claimable(t)}

\* The counters a request is about to write, and what it has in hand.
Bounds ==
    \A r \in Requests :
       /\ request[r].phase = "tried" => request[r].read < MaxTries
       /\ request[r].phase \in {"limits", "stored"} => request[r].read < MaxSent
       /\ request[r].phase # "idle" => request[r].user \in Users
       /\ request[r].phase \in {"limits", "stored", "tried", "right"} => request[r].family = None
       /\ request[r].phase = "right" => request[r].code # None

\* A token that was inserted has a family and a user.
Rows ==
    \A t \in Tokens : IF token[t].state = "NONE" THEN token[t].family = None /\ token[t].user = None
                      ELSE token[t].family \in Families /\ token[t].user \in Users

\* A refresh is of the family of its token, which keeps its tokens.
Refreshes ==
    \A r \in Requests :
       /\ request[r].phase = "claiming" =>
             /\ request[r].token \in Tokens
             /\ request[r].family \in Families
             /\ token[request[r].token].family = request[r].family
       /\ request[r].phase = "claimed" => request[r].family \in Families
       /\ request[r].phase \in {"claimed", "granting"} /\ request[r].family # None =>
             \E t \in Tokens : token[t].family = request[r].family

OneUsable ==
    \A f \in Families :
       /\ \A s, t \in Usable(f) : s = t
       /\ \A q, r \in Claimants(f) : q = r
       /\ Usable(f) = {} \/ Claimants(f) = {}

Sealed ==
    \A f \in sealed :
       /\ Usable(f) = {}
       /\ Claimants(f) = {}
       /\ \E t \in Tokens : token[t].family = f

IInv == TypeOK /\ Bounds /\ Rows /\ Refreshes /\ OneUsable /\ Sealed
----------------------------------------------------------------------------

\* What SET and DEL leave of the keys of a user are keys again.
LEMMA PutTyped ==
    ASSUME otp \in [Users -> OtpKeys], NEW u \in Users, NEW keys \in OtpKeys, Put(u, keys)
    PROVE  otp' \in [Users -> OtpKeys]
<1>1. PICK c \in {otp[u].code, keys.code}, n \in {otp[u].tries, keys.tries},
           b \in {otp[u].cooling, keys.cooling}, s \in {otp[u].sent, keys.sent} :
           otp' = [otp EXCEPT ![u] = [code |-> c, tries |-> n, cooling |-> b, sent |-> s]]
  BY DEF Put
<1>2. otp[u] \in OtpKeys
  OBVIOUS
<1>3. [code |-> c, tries |-> n, cooling |-> b, sent |-> s] \in OtpKeys
  BY <1>2 DEF OtpKeys
<1> QED
  BY <1>1, <1>3

\* Where tokens keep their families, none becomes usable and no request gets a
\* claim, rotation and revocation stand; a request may begin a refresh, and
\* sealed may gain a family that has neither a usable token nor a claim.
LEMMA Kept ==
    ASSUME IInv,
           \A t \in Tokens :
              /\ token'[t].family = token[t].family
              /\ token'[t].state \in {"LIVE", "EXPIRED"} => token[t].state \in {"LIVE", "EXPIRED"},
           \A r \in Requests :
              /\ request'[r].phase = "claimed" => request'[r] = request[r]
              /\ request'[r].phase = "claiming" =>
                    \/ request'[r] = request[r]
                    \/ /\ request'[r].token \in Tokens
                       /\ request'[r].family \in Families
                       /\ token'[request'[r].token].family = request'[r].family
              /\ request'[r].phase = "granting" /\ request'[r].family # None =>
                    /\ request[r].phase \in {"claimed", "granting"}
                    /\ request'[r].family = request[r].family,
           \A f \in sealed' \ sealed :
              /\ \A t \in Tokens : token[t].family = f => token'[t].state \notin {"LIVE", "EXPIRED"}
              /\ Claimants(f) = {}
              /\ f \in Families
              /\ \E t \in Tokens : token[t].family = f
    PROVE  Refreshes' /\ OneUsable' /\ Sealed'
<1>1. Refreshes'
  BY DEF IInv, Refreshes
<1>2. ASSUME NEW f \in Families
      PROVE  Usable(f)' \subseteq Usable(f) /\ Claimants(f)' \subseteq Claimants(f)
  <2>1. Usable(f)' \subseteq Usable(f)
    BY DEF Usable, TokensOf, Claimable
  <2>2. Claimants(f)' \subseteq Claimants(f)
    BY NoneAssumption DEF Claimants
  <2> QED
    BY <2>1, <2>2
<1>3. OneUsable'
  <2>1. ASSUME NEW f \in Families
        PROVE  /\ \A s, t \in Usable(f)' : s = t
               /\ \A q, r \in Claimants(f)' : q = r
               /\ Usable(f)' = {} \/ Claimants(f)' = {}
    BY <1>2 DEF IInv, OneUsable
  <2> QED
    BY <2>1 DEF OneUsable
<1>4. Sealed'
  <2>1. ASSUME NEW f \in sealed'
        PROVE  /\ Usable(f)' = {}
               /\ Claimants(f)' = {}
               /\ \E t \in Tokens : token'[t].family = f
    <3>1. CASE f \in sealed
      <4>1. f \in Families
        BY <3>1 DEF IInv, TypeOK
      <4> QED
        BY <3>1, <4>1, <1>2 DEF IInv, Sealed
    <3>2. CASE f \notin sealed
      <4>1. Usable(f)' = {}
        BY <3>2 DEF Usable, TokensOf, Claimable
      <4>2. Claimants(f)' = {}
        BY <3>2, <1>2
      <4> QED
        BY <3>2, <4>1, <4>2
    <3> QED
      BY <3>1, <3>2
  <2> QED
    BY <2>1 DEF Sealed
<1> QED
  BY <1>1, <1>3, <1>4

LEMMA InitInv == Init => IInv
<1> SUFFICES ASSUME Init PROVE IInv
  OBVIOUS
<1>1. TypeOK
  BY LimitsAssumption DEF Init, TypeOK, UserStatus, OtpKeys, NoKeys, TokenRow, Request, Phase, Idle
<1>2. Bounds /\ Refreshes
  BY DEF Init, Bounds, Refreshes, Idle
<1>3. Rows /\ OneUsable /\ Sealed
  BY DEF Init, Rows, OneUsable, Sealed, Usable, Claimants, Claimable, TokensOf, Idle
<1> QED
  BY <1>1, <1>2, <1>3 DEF IInv

\* A step that leaves tokens and families alone and makes no request a refresh.
LEMMA NoRefresh ==
    ASSUME IInv, TypeOK', Bounds', UNCHANGED <<token, sealed>>,
           \A r \in Requests :
              /\ request'[r].phase \in {"claiming", "claimed"} => request'[r] = request[r]
              /\ request'[r].phase = "granting" => request'[r].family = None \/ request'[r] = request[r]
    PROVE  IInv'
<1>1. token' = token /\ sealed' = sealed
  OBVIOUS
<1>2. Rows'
  BY <1>1 DEF IInv, Rows
<1>3. Refreshes' /\ OneUsable' /\ Sealed'
  BY <1>1, Kept
<1> QED
  BY <1>2, <1>3 DEF IInv

\* A request becomes another one.
LEMMA RequestTyped ==
    ASSUME TypeOK, NEW r \in Requests, NEW q \in Request,
           request' = [request EXCEPT ![r] = q]
    PROVE  /\ request' \in [Requests -> Request]
           /\ request'[r] = q
           /\ \A s \in Requests \ {r} : request'[s] = request[s]
BY DEF TypeOK

LEMMA PhaseTyped ==
    ASSUME TypeOK, NEW r \in Requests, NEW p \in Phase, Enter(r, p)
    PROVE  /\ request' \in [Requests -> Request]
           /\ request'[r] = [request[r] EXCEPT !.phase = p]
           /\ \A s \in Requests \ {r} : request'[s] = request[s]
<1>1. request[r] \in Request
  BY DEF TypeOK
<1>2. [request[r] EXCEPT !.phase = p] \in Request
  BY <1>1 DEF Request
<1>3. request' = [request EXCEPT ![r] = [request[r] EXCEPT !.phase = p]]
  BY DEF Enter, TypeOK
<1> QED
  BY <1>2, <1>3, RequestTyped

LEMMA IdleTyped == Idle \in Request /\ NoKeys \in OtpKeys
BY LimitsAssumption DEF Idle, NoKeys, Request, OtpKeys, Phase

\* A request that ends.
LEMMA EndTyped ==
    ASSUME TypeOK, NEW r \in Requests, End(r)
    PROVE  /\ request' \in [Requests -> Request]
           /\ request'[r] = Idle
           /\ \A s \in Requests \ {r} : request'[s] = request[s]
BY IdleTyped, RequestTyped DEF End

----------------------------------------------------------------------------
(* Codes *)

LEMMA StartSendStep ==
    ASSUME IInv, NEW r \in Requests, NEW u \in Users, StartSend(r, u) PROVE IInv'
<1>1. PICK keys \in Got(u) :
         /\ keys.sent < MaxSent
         /\ request' = [request EXCEPT ![r] = [Idle EXCEPT !.phase = "limits", !.user = u,
                                                           !.read = keys.sent]]
  BY DEF StartSend
<1> DEFINE q == [Idle EXCEPT !.phase = "limits", !.user = u, !.read = keys.sent]
<1>2. keys \in OtpKeys
  BY IdleTyped DEF Got, IInv, TypeOK
<1>3. keys.sent \in 0..MaxSent /\ keys.sent < MaxSent
  BY <1>1, <1>2 DEF OtpKeys
<1>4. q \in Request
  <2>1. keys.sent \in 0..(MaxTries + MaxSent)
    BY <1>3, LimitsAssumption
  <2> QED
    BY <2>1 DEF Idle, Request, Phase
<1>5. /\ request' \in [Requests -> Request]
      /\ request'[r] = q
      /\ \A s \in Requests \ {r} : request'[s] = request[s]
  BY <1>1, <1>4, RequestTyped DEF IInv
<1>6. q.phase = "limits" /\ q.user = u /\ q.read = keys.sent /\ q.family = None
  BY DEF Idle
<1> HIDE DEF q
<1>7. TypeOK'
  BY <1>5 DEF StartSend, IInv, TypeOK
<1>8. Bounds'
  BY <1>3, <1>5, <1>6 DEF IInv, Bounds
<1> QED
  BY <1>5, <1>6, <1>7, <1>8, NoRefresh DEF StartSend

LEMMA StoreCodeStep ==
    ASSUME IInv, NEW r \in Requests, NEW k \in Codes, StoreCode(r, k) PROVE IInv'
<1> DEFINE u == request[r].user
<1>1. u \in Users /\ request[r] \in Request /\ otp[u] \in OtpKeys
  BY DEF IInv, Bounds, TypeOK, StoreCode, At
<1>2. CASE Active(u)
  <2>1. Put(u, CodeStored(u, k)) /\ Enter(r, "stored")
    BY <1>2 DEF StoreCode
  <2>2. CodeStored(u, k) \in OtpKeys
    BY <1>1 DEF CodeStored, OtpKeys
  <2>3. otp' \in [Users -> OtpKeys]
    BY <1>1, <2>1, <2>2, PutTyped DEF IInv, TypeOK
  <2>4. /\ request' \in [Requests -> Request]
        /\ request'[r] = [request[r] EXCEPT !.phase = "stored"]
        /\ \A s \in Requests \ {r} : request'[s] = request[s]
    BY <2>1, PhaseTyped DEF IInv, Phase
  <2>5. TypeOK'
    BY <2>3, <2>4 DEF StoreCode, IInv, TypeOK
  <2>6. /\ request'[r].phase = "stored"
        /\ request'[r].user = request[r].user
        /\ request'[r].read = request[r].read
        /\ request'[r].family = request[r].family
    BY <1>1, <2>4 DEF Request
  <2>7. Bounds'
    BY <2>4, <2>6 DEF IInv, Bounds, StoreCode, At
  <2> QED
    BY <2>4, <2>5, <2>6, <2>7, NoRefresh DEF StoreCode
<1>3. CASE ~Active(u)
  <2>1. End(r) /\ otp' = otp
    BY <1>3 DEF StoreCode
  <2>2. /\ request' \in [Requests -> Request]
        /\ request'[r] = Idle
        /\ \A s \in Requests \ {r} : request'[s] = request[s]
    BY <2>1, EndTyped DEF IInv
  <2>3. TypeOK'
    BY <2>1, <2>2 DEF StoreCode, IInv, TypeOK
  <2>4. Idle.phase = "idle"
    BY DEF Idle
  <2>5. Bounds'
    BY <2>2, <2>4 DEF IInv, Bounds
  <2> QED
    BY <2>2, <2>3, <2>4, <2>5, NoRefresh DEF StoreCode
<1> QED
  BY <1>2, <1>3

\* A request that ends, whatever becomes of the keys.
LEMMA Ends ==
    ASSUME IInv, NEW r \in Requests, End(r), UNCHANGED <<user, token, sealed>>,
           otp' \in [Users -> OtpKeys], spent' \subseteq Users \X Codes
    PROVE  IInv'
<1>1. /\ request' \in [Requests -> Request]
      /\ request'[r] = Idle
      /\ \A s \in Requests \ {r} : request'[s] = request[s]
  BY EndTyped DEF IInv
<1>2. Idle.phase = "idle"
  BY DEF Idle
<1>3. TypeOK'
  BY <1>1 DEF IInv, TypeOK
<1>4. Bounds'
  BY <1>1, <1>2 DEF IInv, Bounds
<1> QED
  BY <1>1, <1>2, <1>3, <1>4, NoRefresh

\* A step of no request that leaves the tokens alone.
LEMMA Elsewhere ==
    ASSUME IInv, UNCHANGED <<token, request, sealed>>, user' \in [Users -> UserStatus],
           otp' \in [Users -> OtpKeys], spent' \subseteq Users \X Codes
    PROVE  IInv'
<1>1. TypeOK' /\ Bounds'
  BY DEF IInv, TypeOK, Bounds
<1> QED
  BY <1>1, NoRefresh

LEMMA DeliverStep ==
    ASSUME IInv, NEW r \in Requests, Deliver(r) PROVE IInv'
<1> DEFINE u == request[r].user
<1>1. u \in Users /\ request[r] \in Request /\ otp[u] \in OtpKeys /\ request[r].read < MaxSent
  BY DEF IInv, Bounds, TypeOK, Deliver, At
<1>2. request[r].read \in Nat
  BY <1>1, LimitsAssumption DEF Request
<1>3. request[r].read + 1 \in 0..MaxSent
  BY <1>1, <1>2, LimitsAssumption
<1>4. /\ [otp[u] EXCEPT !.cooling = TRUE, !.sent = request[r].read + 1] \in OtpKeys
      /\ [otp[u] EXCEPT !.code = None] \in OtpKeys
  BY <1>1, <1>3 DEF OtpKeys
<1>5. otp' \in [Users -> OtpKeys]
  <2>1. \/ Put(u, [otp[u] EXCEPT !.cooling = TRUE, !.sent = request[r].read + 1])
        \/ Put(u, [otp[u] EXCEPT !.code = None])
    BY DEF Deliver
  <2>2. otp \in [Users -> OtpKeys]
    BY DEF IInv, TypeOK
  <2> HIDE DEF u
  <2> QED
    BY <1>1, <1>4, <2>1, <2>2, PutTyped
<1> QED
  BY <1>5, Ends DEF Deliver, IInv, TypeOK

LEMMA StartVerifyStep ==
    ASSUME IInv, NEW r \in Requests, NEW u \in Users, NEW k \in Codes \cup {None},
           StartVerify(r, u, k)
    PROVE  IInv'
<1>1. otp \in [Users -> OtpKeys] /\ otp[u] \in OtpKeys
  BY DEF IInv, TypeOK
<1>2. PICK keys \in Got(u) :
         IF TooMany(keys.tries)
         THEN Put(u, [otp[u] EXCEPT !.code = None]) /\ UNCHANGED request
         ELSE /\ request' = [request EXCEPT ![r] =
                     [Idle EXCEPT !.phase = "tried", !.user = u, !.code = k,
                                  !.read = keys.tries, !.late = <<u, k>> \in spent]]
              /\ UNCHANGED otp
  BY DEF StartVerify
<1>3. keys.tries \in 0..MaxTries
  BY <1>1, IdleTyped DEF Got, OtpKeys
<1>4. UNCHANGED <<user, token, spent, sealed>>
  BY DEF StartVerify
<1>5. CASE TooMany(keys.tries)
  <2>1. Put(u, [otp[u] EXCEPT !.code = None]) /\ UNCHANGED request
    BY <1>2, <1>5
  <2>2. [otp[u] EXCEPT !.code = None] \in OtpKeys
    BY <1>1 DEF OtpKeys
  <2>3. otp' \in [Users -> OtpKeys]
    BY <1>1, <2>1, <2>2, PutTyped
  <2> QED
    BY <1>4, <2>1, <2>3, Elsewhere DEF IInv, TypeOK
<1>6. CASE ~TooMany(keys.tries)
  <2> DEFINE q == [Idle EXCEPT !.phase = "tried", !.user = u, !.code = k,
                               !.read = keys.tries, !.late = <<u, k>> \in spent]
  <2>1. request' = [request EXCEPT ![r] = q] /\ otp' = otp
    BY <1>2, <1>6
  <2>2. keys.tries < MaxTries /\ keys.tries \in 0..(MaxTries + MaxSent)
    BY <1>3, <1>6, LimitsAssumption DEF TooMany
  <2>3. q \in Request
    <3>1. (<<u, k>> \in spent) \in BOOLEAN
      OBVIOUS
    <3> DEFINE late == <<u, k>> \in spent
    <3>2. late \in BOOLEAN
      BY <3>1
    <3> HIDE DEF late
    <3>3. [Idle EXCEPT !.phase = "tried", !.user = u, !.code = k,
                       !.read = keys.tries, !.late = late] \in Request
      BY <2>2, <3>2 DEF Idle, Request, Phase
    <3> QED
      BY <3>3 DEF late
  <2>4. q.phase = "tried" /\ q.user = u /\ q.read = keys.tries /\ q.family = None
    BY DEF Idle
  <2> HIDE DEF q
  <2>5. /\ request' \in [Requests -> Request]
        /\ request'[r] = q
        /\ \A s \in Requests \ {r} : request'[s] = request[s]
    BY <2>1, <2>3, RequestTyped DEF IInv
  <2>6. TypeOK'
    BY <1>4, <2>1, <2>5 DEF IInv, TypeOK
  <2>7. Bounds'
    BY <2>2, <2>4, <2>5 DEF IInv, Bounds
  <2> QED
    BY <1>4, <2>4, <2>5, <2>6, <2>7, NoRefresh
<1> QED
  BY <1>5, <1>6

LEMMA CheckCodeStep ==
    ASSUME IInv, NEW r \in Requests, CheckCode(r) PROVE IInv'
<1> DEFINE u == request[r].user
<1>1. u \in Users /\ request[r] \in Request /\ otp[u] \in OtpKeys /\ request[r].read < MaxTries
  BY DEF IInv, Bounds, TypeOK, CheckCode, At
<1>2. otp \in [Users -> OtpKeys] /\ spent' \subseteq Users \X Codes /\ UNCHANGED <<user, token, spent, sealed>>
  BY DEF IInv, TypeOK, CheckCode
<1>3. CASE End(r) /\ UNCHANGED otp
  BY <1>2, <1>3, Ends
<1>4. CASE Put(u, Missed(u, request[r].read)) /\ End(r)
  <2>1. request[r].read + 1 \in 0..MaxTries
    <3>1. request[r].read \in Nat
      BY <1>1, LimitsAssumption DEF Request
    <3> QED
      BY <1>1, <3>1, LimitsAssumption
  <2>2. Missed(u, request[r].read) \in OtpKeys
    BY <1>1, <2>1 DEF Missed, OtpKeys
  <2>3. otp' \in [Users -> OtpKeys]
    BY <1>1, <1>2, <1>4, <2>2, PutTyped
  <2> QED
    BY <1>2, <1>4, <2>3, Ends
<1>5. CASE Enter(r, "right") /\ UNCHANGED otp /\ request[r].code # None
  <2>1. /\ request' \in [Requests -> Request]
        /\ request'[r] = [request[r] EXCEPT !.phase = "right"]
        /\ \A s \in Requests \ {r} : request'[s] = request[s]
    BY <1>5, PhaseTyped DEF IInv, Phase
  <2>2. /\ request'[r].phase = "right"
        /\ request'[r].user = request[r].user
        /\ request'[r].family = request[r].family
        /\ request'[r].code = request[r].code
    BY <1>1, <2>1 DEF Request
  <2>3. TypeOK'
    BY <1>2, <1>5, <2>1 DEF IInv, TypeOK
  <2>4. Bounds'
    BY <1>5, <2>1, <2>2 DEF IInv, Bounds, CheckCode, At
  <2> QED
    BY <1>2, <2>1, <2>2, <2>3, <2>4, NoRefresh
<1> QED
  BY <1>3, <1>4, <1>5 DEF CheckCode

LEMMA ConsumeStep ==
    ASSUME IInv, NEW r \in Requests, Consume(r) PROVE IInv'
<1> DEFINE u == request[r].user
<1>1. u \in Users /\ request[r] \in Request /\ otp[u] \in OtpKeys /\ request[r].family = None
  BY DEF IInv, Bounds, TypeOK, Consume, At
<1>2. otp' \in [Users -> OtpKeys]
  <2>1. CodeConsumed(u) \in OtpKeys
    <3>1. 0 \in 0..MaxTries
      BY LimitsAssumption
    <3> QED
      BY <1>1, <3>1 DEF CodeConsumed, OtpKeys
  <2>2. Put(u, CodeConsumed(u))
    BY DEF Consume
  <2>3. otp \in [Users -> OtpKeys]
    BY DEF IInv, TypeOK
  <2> QED
    BY <1>1, <2>1, <2>2, <2>3, PutTyped
<1>3. /\ request' \in [Requests -> Request]
      /\ request'[r] = [request[r] EXCEPT !.phase = "granting"]
      /\ \A s \in Requests \ {r} : request'[s] = request[s]
  BY PhaseTyped DEF Consume, IInv, Phase
<1>4. /\ request'[r].phase = "granting"
      /\ request'[r].user = request[r].user
      /\ request'[r].family = None
  BY <1>1, <1>3 DEF Request
<1>5. spent' \subseteq Users \X Codes
  <2>1. request[r].code \in Codes
    BY <1>1 DEF Request, IInv, Bounds, Consume, At
  <2>2. spent \subseteq Users \X Codes /\ spent' \subseteq spent \cup {<<u, request[r].code>>}
    BY DEF Consume, IInv, TypeOK
  <2> QED
    BY <1>1, <2>1, <2>2
<1>6. TypeOK'
  BY <1>2, <1>3, <1>5 DEF Consume, IInv, TypeOK
<1>7. Bounds'
  BY <1>1, <1>3, <1>4 DEF IInv, Bounds
<1> QED
  BY <1>3, <1>4, <1>6, <1>7, NoRefresh DEF Consume
LEMMA RegisterStep ==
    ASSUME IInv, NEW r \in Requests, NEW u \in Users, Register(r, u) PROVE IInv'
<1> DEFINE q == [Idle EXCEPT !.phase = "granting", !.user = u]
<1>1. q \in Request
  BY IdleTyped DEF Idle, Request, Phase
<1>2. q.phase = "granting" /\ q.user = u /\ q.family = None
  BY DEF Idle
<1>3. request' = [request EXCEPT ![r] = q]
  BY DEF Register
<1> HIDE DEF q
<1>4. /\ request' \in [Requests -> Request]
      /\ request'[r] = q
      /\ \A s \in Requests \ {r} : request'[s] = request[s]
  BY <1>1, <1>3, RequestTyped DEF IInv
<1>5. TypeOK'
  BY <1>4 DEF Register, IInv, TypeOK, UserStatus
<1>6. Bounds'
  BY <1>2, <1>4 DEF IInv, Bounds
<1> QED
  BY <1>2, <1>4, <1>5, <1>6, NoRefresh DEF Register

----------------------------------------------------------------------------
(* Refresh tokens *)

\* Every token of the family is revoked, and the family is sealed unless a
\* refresh of it is on its way.
LEMMA RevokeStep ==
    ASSUME IInv, NEW t \in Tokens, token[t].state # "NONE", RevokeFamily(t),
           UNCHANGED <<user, otp, request, spent>>
    PROVE  IInv'
<1> DEFINE f == token[t].family
<1>1. f \in Families /\ f # None
  BY NoneAssumption DEF IInv, Rows
<1>2. ASSUME NEW s \in Tokens
      PROVE  /\ token'[s] \in TokenRow
             /\ token'[s].family = token[s].family
             /\ token'[s].user = token[s].user
             /\ (token'[s].state = "NONE") <=> (token[s].state = "NONE")
             /\ token'[s].state \in {"LIVE", "EXPIRED"} =>
                   token[s].family # f /\ token[s].state \in {"LIVE", "EXPIRED"}
  <2>1. token[s] \in TokenRow
    BY DEF IInv, TypeOK
  <2>2. token'[s] = IF token[s].family = f /\ token[s].state # "DELETED"
                    THEN [token[s] EXCEPT !.state = "REVOKED"] ELSE token[s]
    BY DEF RevokeFamily, FamilyRevoked
  <2>3. token[s].state = "NONE" => token[s].family # f
    BY <1>1 DEF IInv, Rows
  <2> HIDE DEF f
  <2> QED
    BY <2>1, <2>2, <2>3 DEF TokenRow
<1>3. token' \in [Tokens -> TokenRow]
  <2>1. token' = [s \in Tokens |-> token'[s]]
    BY DEF RevokeFamily, FamilyRevoked
  <2> QED
    BY <1>2, <2>1
<1>4. sealed' \subseteq sealed \cup {f} /\ (sealed' \subseteq sealed \/ Claimants(f) = {})
  BY DEF RevokeFamily
<1> HIDE DEF f
<1>5. TypeOK'
  BY <1>1, <1>3, <1>4 DEF IInv, TypeOK
<1>6. Bounds'
  BY DEF IInv, Bounds
<1>7. Rows'
  BY <1>2 DEF IInv, Rows
<1>8. \E s \in Tokens : token[s].family = f
  BY DEF f
<1>9. Refreshes' /\ OneUsable' /\ Sealed'
  <2>1. \A g \in sealed' \ sealed : g = f
    BY <1>4
  <2>2. \A g \in sealed' \ sealed :
           /\ \A s \in Tokens : token[s].family = g => token'[s].state \notin {"LIVE", "EXPIRED"}
           /\ Claimants(g) = {}
           /\ g \in Families
           /\ \E s \in Tokens : token[s].family = g
    BY <1>1, <1>2, <1>4, <1>8, <2>1
  <2>3. \A s \in Tokens :
           /\ token'[s].family = token[s].family
           /\ token'[s].state \in {"LIVE", "EXPIRED"} => token[s].state \in {"LIVE", "EXPIRED"}
    BY <1>2
  <2> QED
    BY <2>2, <2>3, Kept DEF IInv, Refreshes
<1> QED
  BY <1>5, <1>6, <1>7, <1>9 DEF IInv

LEMMA StartRefreshStep ==
    ASSUME IInv, NEW r \in Requests, NEW t \in Tokens, StartRefresh(r, t) PROVE IInv'
<1>1. CASE token[t].state = "LIVE"
  <2> DEFINE q == [Idle EXCEPT !.phase = "claiming", !.user = token[t].user,
                               !.token = t, !.family = token[t].family]
  <2>1. request' = [request EXCEPT ![r] = q] /\ UNCHANGED <<token, sealed>>
    BY <1>1 DEF StartRefresh
  <2>2. token[t].family \in Families /\ token[t].user \in Users
    BY <1>1 DEF IInv, Rows
  <2>3. q \in Request
    BY <2>2, IdleTyped DEF Idle, Request, Phase
  <2>4. /\ q.phase = "claiming"
        /\ q.user = token[t].user
        /\ q.token = t
        /\ q.family = token[t].family
    BY DEF Idle
  <2> HIDE DEF q
  <2>5. /\ request' \in [Requests -> Request]
        /\ request'[r] = q
        /\ \A s \in Requests \ {r} : request'[s] = request[s]
    BY <2>1, <2>3, RequestTyped DEF IInv
  <2>6. TypeOK'
    BY <2>1, <2>5 DEF StartRefresh, IInv, TypeOK
  <2>7. Bounds'
    BY <2>2, <2>4, <2>5 DEF IInv, Bounds
  <2>8. Rows'
    BY <2>1 DEF IInv, Rows
  <2>9. Refreshes' /\ OneUsable' /\ Sealed'
    BY <2>1, <2>2, <2>4, <2>5, Kept
  <2> QED
    BY <2>6, <2>7, <2>8, <2>9 DEF IInv
<1>2. CASE token[t].state # "LIVE"
  BY <1>2, RevokeStep DEF StartRefresh
<1> QED
  BY <1>1, <1>2

\* One refresh alone finds the token: it was the family's only usable one.
LEMMA ClaimStep ==
    ASSUME IInv, NEW r \in Requests, Claim(r) PROVE IInv'
<1>0. PICK t \in Tokens, f \in Families : t = request[r].token /\ f = request[r].family
  BY DEF IInv, Refreshes, Claim, At
<1>1. /\ token[t].family = f
      /\ request[r] \in Request /\ request[r].user \in Users /\ token[t] \in TokenRow
  BY <1>0 DEF IInv, Bounds, Refreshes, TypeOK, Claim, At
<1>2. CASE ~Claimable(t)
  <2>1. End(r) /\ UNCHANGED <<user, otp, token, spent, sealed>>
    BY <1>0, <1>2 DEF Claim
  <2> QED
    BY <2>1, Ends DEF IInv, TypeOK
<1>3. CASE Claimable(t)
  <2>1. token' = [token EXCEPT ![t].state = "REVOKED"] /\ Enter(r, "claimed")
    BY <1>0, <1>3 DEF Claim
  <2>2. /\ request' \in [Requests -> Request]
        /\ request'[r] = [request[r] EXCEPT !.phase = "claimed"]
        /\ \A s \in Requests \ {r} : request'[s] = request[s]
    BY <2>1, PhaseTyped DEF IInv, Phase
  <2>3. request'[r].phase = "claimed" /\ request'[r].family = f /\ request'[r].user \in Users
    BY <1>0, <1>1, <2>2 DEF Request
  <2>4. /\ token'[t] \in TokenRow
        /\ token'[t].state = "REVOKED"
        /\ token'[t].family = f
        /\ token'[t].user = token[t].user
        /\ \A s \in Tokens \ {t} : token'[s] = token[s]
    BY <1>1, <2>1 DEF TokenRow, IInv, TypeOK
  <2>5. token' \in [Tokens -> TokenRow]
    BY <1>1, <2>1, <2>4 DEF IInv, TypeOK
  <2>6. Usable(f) = {t} /\ Claimants(f) = {}
    <3>1. t \in Usable(f)
      BY <1>1, <1>3 DEF Usable, TokensOf
    <3> QED
      BY <1>1, <3>1 DEF IInv, OneUsable
  <2>7. f \notin sealed
    BY <2>6 DEF IInv, Sealed
  <2>8. UNCHANGED <<user, otp, spent, sealed>>
    BY DEF Claim
  <2>9. TypeOK'
    BY <2>2, <2>5, <2>8 DEF IInv, TypeOK
  <2>10. Bounds'
    BY <2>2, <2>3 DEF IInv, Bounds
  <2>11. Rows'
    BY <1>1, <1>3, <2>4 DEF IInv, Rows, Claimable
  <2>12. \A s \in Tokens : token'[s].family = token[s].family
    BY <1>1, <2>4
  <2>13. Refreshes'
    <3>1. ASSUME NEW s \in Requests
          PROVE  /\ request'[s].phase = "claiming" =>
                       /\ request'[s].token \in Tokens
                       /\ request'[s].family \in Families
                       /\ token'[request'[s].token].family = request'[s].family
                 /\ request'[s].phase = "claimed" => request'[s].family \in Families
                 /\ request'[s].phase \in {"claimed", "granting"} /\ request'[s].family # None =>
                       \E k \in Tokens : token'[k].family = request'[s].family
      <4>1. CASE s = r
        BY <2>3, <2>4, <4>1
      <4>2. CASE s # r
        <5>1. request'[s] = request[s]
          BY <2>2, <4>2
        <5> QED
          BY <2>12, <5>1 DEF IInv, Refreshes
      <4> QED
        BY <4>1, <4>2
    <3> QED
      BY <3>1 DEF Refreshes
  <2>14. Usable(f)' = {} /\ Claimants(f)' = {r}
    <3>1. Usable(f)' = {}
      BY <2>4, <2>6, <2>12 DEF Usable, TokensOf, Claimable
    <3>2. r \in Claimants(f)'
      BY <2>3 DEF Claimants
    <3>3. ASSUME NEW s \in Requests, s # r PROVE s \notin Claimants(f)'
      <4>1. s \notin Claimants(f) /\ request'[s] = request[s]
        BY <2>2, <2>6, <3>3
      <4> QED
        BY <4>1 DEF Claimants
    <3>4. Claimants(f)' \subseteq Requests
      BY DEF Claimants
    <3> QED
      BY <3>1, <3>2, <3>3, <3>4
  <2>15. ASSUME NEW g \in Families, g # f
         PROVE  Usable(g)' = Usable(g) /\ Claimants(g)' = Claimants(g)
    <3>1. Usable(g)' = Usable(g)
      BY <1>1, <2>4, <2>15 DEF Usable, TokensOf, Claimable
    <3>2. request[r].family # g
      BY <1>0, <2>15
    <3>3. Claimants(g)' = Claimants(g)
      BY <2>2, <2>3, <2>15, <3>2 DEF Claimants
    <3> QED
      BY <3>1, <3>3
  <2>16. OneUsable'
    <3>1. ASSUME NEW g \in Families
          PROVE  /\ \A s, q \in Usable(g)' : s = q
                 /\ \A q, s \in Claimants(g)' : q = s
                 /\ Usable(g)' = {} \/ Claimants(g)' = {}
      <4>1. CASE g = f
        BY <2>14, <4>1
      <4>2. CASE g # f
        BY <2>15, <4>2 DEF IInv, OneUsable
      <4> QED
        BY <4>1, <4>2
    <3> QED
      BY <3>1 DEF OneUsable
  <2>17. Sealed'
    <3>1. ASSUME NEW g \in sealed'
          PROVE  /\ Usable(g)' = {}
                 /\ Claimants(g)' = {}
                 /\ \E s \in Tokens : token'[s].family = g
      <4>1. g \in sealed /\ g \in Families /\ g # f
        BY <2>7, <2>8 DEF IInv, TypeOK
      <4> QED
        BY <2>12, <2>15, <4>1 DEF IInv, Sealed
    <3> QED
      BY <3>1 DEF Sealed
  <2> QED
    BY <2>9, <2>10, <2>11, <2>13, <2>16, <2>17 DEF IInv
<1> QED
  BY <1>2, <1>3

\* The account is looked up after the claim: the refresh keeps its family.
LEMMA CheckAccountStep ==
    ASSUME IInv, NEW r \in Requests, CheckAccount(r) PROVE IInv'
<1>1. request[r] \in Request /\ request[r].user \in Users /\ request[r].phase = "claimed"
  BY DEF IInv, Bounds, TypeOK, CheckAccount, At
<1>2. CASE Enter(r, "granting")
  <2>1. /\ request' \in [Requests -> Request]
        /\ request'[r] = [request[r] EXCEPT !.phase = "granting"]
        /\ \A s \in Requests \ {r} : request'[s] = request[s]
    BY <1>2, PhaseTyped DEF IInv, Phase
  <2>2. /\ request'[r].phase = "granting"
        /\ request'[r].user \in Users
        /\ request'[r].family = request[r].family
    BY <1>1, <2>1 DEF Request
  <2>3. UNCHANGED <<user, otp, token, spent, sealed>>
    BY DEF CheckAccount
  <2>4. TypeOK'
    BY <2>1, <2>3 DEF IInv, TypeOK
  <2>5. Bounds'
    BY <2>1, <2>2 DEF IInv, Bounds
  <2>6. Rows'
    BY <2>3 DEF IInv, Rows
  <2>7. Refreshes' /\ OneUsable' /\ Sealed'
    <3>1. \A s \in Requests :
             /\ request'[s].phase \in {"claiming", "claimed"} => request'[s] = request[s]
             /\ request'[s].phase = "granting" =>
                   \/ request'[s] = request[s]
                   \/ s = r /\ request[s].phase = "claimed" /\ request'[s].family = request[s].family
      BY <1>1, <2>1, <2>2
    <3> QED
      BY <2>3, <3>1, Kept
  <2> QED
    BY <2>4, <2>5, <2>6, <2>7 DEF IInv
<1>3. CASE End(r)
  BY <1>3, Ends DEF CheckAccount, IInv, TypeOK
<1> QED
  BY <1>2, <1>3 DEF CheckAccount

\* The next token of a family takes the place of the claim, and a new family
\* has no other.
LEMMA GrantStep ==
    ASSUME IInv, NEW r \in Requests, NEW t \in Tokens, NEW f \in Families, Grant(r, t, f)
    PROVE  IInv'
<1>1. /\ request[r] \in Request /\ request[r].user \in Users /\ request[r].phase = "granting"
      /\ token[t].state = "NONE" /\ token[t].family = None /\ f # None
  BY NoneAssumption DEF IInv, Bounds, Rows, TypeOK, Grant, At
<1>2. End(r) /\ UNCHANGED <<user, otp, spent, sealed>>
  BY DEF Grant
<1>3. CASE user[request[r].user] = "ABSENT"
  BY <1>2, <1>3, Ends DEF Grant, IInv, TypeOK
<1>4. CASE user[request[r].user] # "ABSENT"
  <2> DEFINE row == [state |-> "LIVE", user |-> request[r].user, family |-> f]
  <2>1. token' = [token EXCEPT ![t] = row]
    BY <1>4 DEF Grant
  <2>2. row \in TokenRow
    BY <1>1 DEF TokenRow
  <2>3. token' \in [Tokens -> TokenRow]
    BY <2>1, <2>2 DEF IInv, TypeOK
  <2>4. /\ token'[t].state = "LIVE"
        /\ token'[t].user \in Users
        /\ token'[t].family = f
        /\ \A s \in Tokens \ {t} : token'[s] = token[s]
    BY <1>1, <2>1 DEF IInv, TypeOK
  <2>5. /\ request' \in [Requests -> Request]
        /\ request'[r] = Idle
        /\ \A s \in Requests \ {r} : request'[s] = request[s]
    BY <1>2, EndTyped DEF IInv
  <2>6. Idle.phase = "idle"
    BY DEF Idle
  <2>7. TypeOK'
    BY <1>2, <2>3, <2>5 DEF IInv, TypeOK
  <2>8. Bounds'
    BY <2>5, <2>6 DEF IInv, Bounds
  <2>9. Rows'
    BY <2>4 DEF IInv, Rows
  <2>10. Usable(f) = {} /\ Claimants(f) \subseteq {r} /\ f \notin sealed
    <3>1. CASE request[r].family = None
      <4>1. \A s \in Tokens : token[s].family # f
        BY <3>1 DEF Grant, TokensOf
      <4>2. Claimants(f) = {}
        BY <1>1, <4>1 DEF Claimants, IInv, Refreshes
      <4>3. Usable(f) = {}
        BY <4>1 DEF Usable, TokensOf
      <4> QED
        BY <4>1, <4>2, <4>3 DEF IInv, Sealed
    <3>2. CASE request[r].family # None
      <4>1. r \in Claimants(f)
        BY <1>1, <3>2 DEF Grant, Claimants
      <4>2. Usable(f) = {} /\ \A q \in Claimants(f) : q = r
        BY <4>1 DEF IInv, OneUsable
      <4> QED
        BY <4>1, <4>2 DEF IInv, Sealed
    <3> QED
      BY <3>1, <3>2
  <2>11. Usable(f)' \subseteq {t} /\ Claimants(f)' = {}
    <3>1. Usable(f)' \subseteq {t}
      BY <2>4, <2>10 DEF Usable, TokensOf, Claimable
    <3>2. ASSUME NEW s \in Requests PROVE s \notin Claimants(f)'
      <4>1. CASE s = r
        BY <2>5, <2>6, <4>1 DEF Claimants
      <4>2. CASE s # r
        <5>1. s \notin Claimants(f) /\ request'[s] = request[s]
          BY <2>5, <2>10, <4>2
        <5> QED
          BY <5>1 DEF Claimants
      <4> QED
        BY <4>1, <4>2
    <3> QED
      BY <3>1, <3>2 DEF Claimants
  <2>12. ASSUME NEW g \in Families, g # f
         PROVE  Usable(g)' \subseteq Usable(g) /\ Claimants(g)' \subseteq Claimants(g)
    <3>1. Usable(g)' \subseteq Usable(g)
      BY <2>4, <2>12 DEF Usable, TokensOf, Claimable
    <3>2. Claimants(g)' \subseteq Claimants(g)
      BY <2>5, <2>6 DEF Claimants
    <3> QED
      BY <3>1, <3>2
  <2>13. Refreshes'
    <3>1. ASSUME NEW s \in Requests
          PROVE  /\ request'[s].phase = "claiming" =>
                       /\ request'[s].token \in Tokens
                       /\ request'[s].family \in Families
                       /\ token'[request'[s].token].family = request'[s].family
                 /\ request'[s].phase = "claimed" => request'[s].family \in Families
                 /\ request'[s].phase \in {"claimed", "granting"} /\ request'[s].family # None =>
                       \E k \in Tokens : token'[k].family = request'[s].family
      <4>1. CASE s = r
        BY <2>5, <2>6, <4>1
      <4>2. CASE s # r
        <5>1. request'[s] = request[s]
          BY <2>5, <4>2
        <5>2. \A k \in Tokens : token[k].family # None => token'[k].family = token[k].family
          BY <1>1, <2>4
        <5>3. CASE request[s].phase = "claiming"
          BY <5>1, <5>2, <5>3, NoneAssumption DEF IInv, Refreshes
        <5>4. CASE request[s].phase # "claiming"
          BY <5>1, <5>2, <5>4, NoneAssumption DEF IInv, Refreshes
        <5> QED
          BY <5>3, <5>4
      <4> QED
        BY <4>1, <4>2
    <3> QED
      BY <3>1 DEF Refreshes
  <2>14. OneUsable'
    <3>1. ASSUME NEW g \in Families
          PROVE  /\ \A s, q \in Usable(g)' : s = q
                 /\ \A q, s \in Claimants(g)' : q = s
                 /\ Usable(g)' = {} \/ Claimants(g)' = {}
      <4>1. CASE g = f
        BY <2>11, <4>1
      <4>2. CASE g # f
        BY <2>12, <4>2 DEF IInv, OneUsable
      <4> QED
        BY <4>1, <4>2
    <3> QED
      BY <3>1 DEF OneUsable
  <2>15. Sealed'
    <3>1. ASSUME NEW g \in sealed'
          PROVE  /\ Usable(g)' = {}
                 /\ Claimants(g)' = {}
                 /\ \E s \in Tokens : token'[s].family = g
      <4>1. g \in sealed /\ g \in Families /\ g # f /\ g # None
        BY <1>2, <2>10, NoneAssumption DEF IInv, TypeOK
      <4>2. \E s \in Tokens : token'[s].family = g
        BY <1>1, <2>4, <4>1 DEF IInv, Sealed
      <4> QED
        BY <2>12, <4>1, <4>2 DEF IInv, Sealed
    <3> QED
      BY <3>1 DEF Sealed
  <2> QED
    BY <2>7, <2>8, <2>9, <2>13, <2>14, <2>15 DEF IInv
<1> QED
  BY <1>3, <1>4

----------------------------------------------------------------------------
(* Requests of the API, administration and time *)

LEMMA StartCallStep ==
    ASSUME IInv, NEW r \in Requests, NEW u \in Users, NEW f \in Families, StartCall(r, u, f)
    PROVE  IInv'
<1> DEFINE late == f \in sealed
           q == [Idle EXCEPT !.phase = "identified", !.user = u, !.family = f, !.late = late]
<1>1. late \in BOOLEAN
  OBVIOUS
<1>2. request' = [request EXCEPT ![r] = q]
  BY DEF StartCall
<1> HIDE DEF late
<1>3. q \in Request /\ q.phase = "identified" /\ q.user = u
  BY <1>1, IdleTyped DEF Idle, Request, Phase
<1> HIDE DEF q
<1>4. /\ request' \in [Requests -> Request]
      /\ request'[r] = q
      /\ \A s \in Requests \ {r} : request'[s] = request[s]
  BY <1>2, <1>3, RequestTyped DEF IInv
<1>5. TypeOK'
  BY <1>4 DEF StartCall, IInv, TypeOK
<1>6. Bounds'
  BY <1>3, <1>4 DEF IInv, Bounds
<1> QED
  BY <1>3, <1>4, <1>5, <1>6, NoRefresh DEF StartCall

LEMMA CheckSessionStep ==
    ASSUME IInv, NEW r \in Requests, CheckSession(r) PROVE IInv'
<1>1. request[r] \in Request /\ request[r].user \in Users
  BY DEF IInv, Bounds, TypeOK, CheckSession, At
<1>2. CASE Enter(r, "admitted")
  <2>1. /\ request' \in [Requests -> Request]
        /\ request'[r] = [request[r] EXCEPT !.phase = "admitted"]
        /\ \A s \in Requests \ {r} : request'[s] = request[s]
    BY <1>2, PhaseTyped DEF IInv, Phase
  <2>2. request'[r].phase = "admitted" /\ request'[r].user \in Users
    BY <1>1, <2>1 DEF Request
  <2>3. TypeOK'
    BY <2>1 DEF CheckSession, IInv, TypeOK
  <2>4. Bounds'
    BY <2>1, <2>2 DEF IInv, Bounds
  <2> QED
    BY <2>1, <2>2, <2>3, <2>4, NoRefresh DEF CheckSession
<1>3. CASE End(r)
  BY <1>3, Ends DEF CheckSession, IInv, TypeOK
<1> QED
  BY <1>2, <1>3 DEF CheckSession

LEMMA ExpireKeyStep ==
    ASSUME IInv, NEW u \in Users, ExpireKey(u) PROVE IInv'
<1>1. otp \in [Users -> OtpKeys] /\ otp[u] \in OtpKeys
  BY DEF IInv, TypeOK
<1>2. 0 \in 0..MaxTries /\ 0 \in 0..MaxSent
  BY LimitsAssumption
<1>3. /\ [otp[u] EXCEPT !.code = None] \in OtpKeys
      /\ [otp[u] EXCEPT !.tries = 0] \in OtpKeys
      /\ [otp[u] EXCEPT !.cooling = FALSE] \in OtpKeys
      /\ [otp[u] EXCEPT !.sent = 0] \in OtpKeys
  BY <1>1, <1>2 DEF OtpKeys
<1>4. \E keys \in OtpKeys : otp' = [otp EXCEPT ![u] = keys]
  BY <1>1, <1>3 DEF ExpireKey
<1>5. otp' \in [Users -> OtpKeys]
  BY <1>1, <1>4
<1> QED
  BY <1>5, Elsewhere DEF ExpireKey, IInv, TypeOK

\* Tokens that only lose their state: they expire, or go with their user.
LEMMA Fades ==
    ASSUME IInv, UNCHANGED <<otp, request, spent, sealed>>, user' \in [Users -> UserStatus],
           token' \in [Tokens -> TokenRow],
           \A t \in Tokens :
              \/ token'[t] = token[t]
              \/ /\ token[t].state # "NONE"
                 /\ token'[t].state = "DELETED" \/ (token[t].state = "LIVE" /\ token'[t].state = "EXPIRED")
                 /\ token'[t].family = token[t].family
                 /\ token'[t].user = token[t].user
    PROVE  IInv'
<1>1. TypeOK' /\ Bounds'
  BY DEF IInv, TypeOK, Bounds
<1>2. Rows'
  BY DEF IInv, Rows
<1>3. \A t \in Tokens :
         /\ token'[t].family = token[t].family
         /\ token'[t].state \in {"LIVE", "EXPIRED"} => token[t].state \in {"LIVE", "EXPIRED"}
  OBVIOUS
<1>4. Refreshes' /\ OneUsable' /\ Sealed'
  BY <1>3, Kept
<1> QED
  BY <1>1, <1>2, <1>4 DEF IInv

LEMMA ExpireTokenStep ==
    ASSUME IInv, NEW t \in Tokens, ExpireToken(t) PROVE IInv'
<1>1. token[t] \in TokenRow /\ token[t].state = "LIVE" /\ token \in [Tokens -> TokenRow]
  BY DEF IInv, TypeOK, ExpireToken
<1> DEFINE row == [token[t] EXCEPT !.state = "EXPIRED"]
<1>2. token' = [token EXCEPT ![t] = row]
  BY <1>1 DEF ExpireToken
<1>3. row \in TokenRow /\ row.state = "EXPIRED" /\ row.family = token[t].family /\ row.user = token[t].user
  BY <1>1 DEF TokenRow
<1> HIDE DEF row
<1>4. /\ token' \in [Tokens -> TokenRow]
      /\ token'[t] = row
      /\ \A s \in Tokens \ {t} : token'[s] = token[s]
  BY <1>1, <1>2, <1>3
<1> QED
  BY <1>1, <1>3, <1>4, Fades DEF ExpireToken, IInv, TypeOK

LEMMA DeleteUserStep ==
    ASSUME IInv, NEW u \in Users, DeleteUser(u) PROVE IInv'
<1>1. ASSUME NEW t \in Tokens
      PROVE  /\ token'[t] \in TokenRow
             /\ \/ token'[t] = token[t]
                \/ /\ token[t].state # "NONE"
                   /\ token'[t].state = "DELETED" \/ (token[t].state = "LIVE" /\ token'[t].state = "EXPIRED")
                   /\ token'[t].family = token[t].family
                   /\ token'[t].user = token[t].user
  <2>1. token'[t] = IF token[t].user = u THEN [token[t] EXCEPT !.state = "DELETED"] ELSE token[t]
    BY DEF DeleteUser
  <2>2. token[t] \in TokenRow
    BY DEF IInv, TypeOK
  <2>3. token[t].state = "NONE" => token[t].user # u
    BY NoneAssumption DEF IInv, Rows
  <2> QED
    BY <2>1, <2>2, <2>3 DEF TokenRow
<1>2. token' \in [Tokens -> TokenRow]
  <2>1. token' = [t \in Tokens |-> token'[t]]
    BY DEF DeleteUser
  <2> QED
    BY <1>1, <2>1
<1>3. user' \in [Users -> UserStatus]
  BY DEF DeleteUser, IInv, TypeOK, UserStatus
<1>4. UNCHANGED <<otp, request, spent, sealed>>
  BY DEF DeleteUser
<1>5. \A t \in Tokens :
         \/ token'[t] = token[t]
         \/ /\ token[t].state # "NONE"
            /\ token'[t].state = "DELETED" \/ (token[t].state = "LIVE" /\ token'[t].state = "EXPIRED")
            /\ token'[t].family = token[t].family
            /\ token'[t].user = token[t].user
  BY <1>1
<1> QED
  BY <1>2, <1>3, <1>4, <1>5, Fades

----------------------------------------------------------------------------

LEMMA RequestStep ==
    ASSUME IInv, NEW r \in Requests, Step(r) PROVE IInv'
<1>1. CASE \E k \in Codes : StoreCode(r, k)
  BY <1>1, StoreCodeStep
<1>2. CASE Deliver(r)
  BY <1>2, DeliverStep
<1>3. CASE CheckCode(r)
  BY <1>3, CheckCodeStep
<1>4. CASE Consume(r)
  BY <1>4, ConsumeStep
<1>5. CASE Claim(r)
  BY <1>5, ClaimStep
<1>6. CASE CheckAccount(r)
  BY <1>6, CheckAccountStep
<1>7. CASE \E t \in Tokens, f \in Families : Grant(r, t, f)
  BY <1>7, GrantStep
<1>8. CASE CheckSession(r)
  BY <1>8, CheckSessionStep
<1>9. CASE Die(r)
  BY <1>9, Ends DEF Die, IInv, TypeOK
<1> QED
  BY <1>1, <1>2, <1>3, <1>4, <1>5, <1>6, <1>7, <1>8, <1>9 DEF Step

LEMMA NextInv == IInv /\ [Next]_vars => IInv'
<1> SUFFICES ASSUME IInv, [Next]_vars PROVE IInv'
  OBVIOUS
<1>1. CASE \E r \in Requests, u \in Users : StartSend(r, u)
  BY <1>1, StartSendStep
<1>2. CASE \E r \in Requests, u \in Users, k \in Codes \cup {None} : StartVerify(r, u, k)
  BY <1>2, StartVerifyStep
<1>3. CASE \E r \in Requests, u \in Users : Register(r, u)
  BY <1>3, RegisterStep
<1>4. CASE \E r \in Requests, t \in Tokens : StartRefresh(r, t)
  BY <1>4, StartRefreshStep
<1>5. CASE \E r \in Requests, u \in Users, f \in Families : StartCall(r, u, f)
  BY <1>5, StartCallStep
<1>6. CASE \E r \in Requests : Step(r)
  BY <1>6, RequestStep
<1>7. CASE \E t \in Tokens : Logout(t)
  BY <1>7, RevokeStep DEF Logout
<1>8. CASE \E u \in Users, s \in {"ACTIVE", "INACTIVE"} : SetActive(u, s)
  <2>1. PICK u \in Users, s \in {"ACTIVE", "INACTIVE"} : SetActive(u, s)
    BY <1>8
  <2>2. user' \in [Users -> UserStatus]
    BY <2>1 DEF SetActive, IInv, TypeOK, UserStatus
  <2> QED
    BY <2>1, <2>2, Elsewhere DEF SetActive, IInv, TypeOK
<1>9. CASE \E u \in Users : DeleteUser(u)
  BY <1>9, DeleteUserStep
<1>10. CASE \E u \in Users : ExpireKey(u)
  BY <1>10, ExpireKeyStep
<1>11. CASE \E t \in Tokens : ExpireToken(t)
  BY <1>11, ExpireTokenStep
<1>12. CASE UNCHANGED vars
  <2>1. UNCHANGED <<user, otp, token, request, spent, sealed>>
    BY <1>12 DEF vars
  <2> QED
    BY <2>1, Elsewhere DEF IInv, TypeOK
<1> QED
  BY <1>1, <1>2, <1>3, <1>4, <1>5, <1>6, <1>7, <1>8, <1>9, <1>10, <1>11, <1>12 DEF Next

\* A live token is one a claim would find.
LEMMA Consistent == IInv => SessionsConsistent
<1> SUFFICES ASSUME IInv PROVE SessionsConsistent
  OBVIOUS
<1>1. ASSUME NEW f PROVE Live(f) \subseteq Usable(f)
  BY DEF Live, Usable, Claimable
<1>2. OneLiveToken
  <2>1. ASSUME NEW f \in Families
        PROVE  /\ \A s, t \in Live(f) : s = t
               /\ \A q, r \in Claimants(f) : q = r
               /\ Live(f) = {} \/ Claimants(f) = {}
    BY <1>1 DEF IInv, OneUsable
  <2> QED
    BY <2>1 DEF OneLiveToken
<1>3. SealedStaysSealed
  BY <1>1 DEF IInv, Sealed, SealedStaysSealed
<1> QED
  BY <1>2, <1>3 DEF IInv, SessionsConsistent

\* For any number of users, requests, codes, families and tokens: however
\* refreshes, repeated refreshes, logins and logouts interleave, a family of
\* refresh tokens has at most one live token and none while a refresh holds its
\* claim, and a family revoked while no refresh held a claim is never live again.
THEOREM RotationNeverForks == Spec => []SessionsConsistent
<1>1. Init => IInv
  BY InitInv
<1>2. IInv /\ [Next]_vars => IInv'
  BY NextInv
<1>3. IInv => SessionsConsistent
  BY Consistent
<1> QED
  BY <1>1, <1>2, <1>3, PTL DEF Spec

----------------------------------------------------------------------------
(* Nobody is late *)

\* A code that is stored is not one its user has used.
Unspent == \A u \in Users : <<u, otp[u].code>> \notin spent

\* Only a verification that has not looked at the code, and a call that has not
\* looked at the family, may be late: the code was used, the family revoked.
Lateness ==
    \A r \in Requests :
       /\ request[r].phase \notin {"tried", "identified"} => ~request[r].late
       /\ request[r].phase = "tried" /\ request[r].late => <<request[r].user, request[r].code>> \in spent
       /\ request[r].phase = "identified" /\ request[r].late => request[r].family \in sealed

LInv == IInv /\ Unspent /\ Lateness

\* What SET and DEL write to the keys of one user.
LEMMA PutWrites ==
    ASSUME otp \in [Users -> OtpKeys], NEW u \in Users, NEW keys, Put(u, keys)
    PROVE  /\ otp'[u].code \in {otp[u].code, keys.code}
           /\ otp'[u].tries \in {otp[u].tries, keys.tries}
           /\ \A v \in Users \ {u} : otp'[v] = otp[v]
<1>1. PICK c \in {otp[u].code, keys.code}, n \in {otp[u].tries, keys.tries},
           b \in {otp[u].cooling, keys.cooling}, s \in {otp[u].sent, keys.sent} :
           otp' = [otp EXCEPT ![u] = [code |-> c, tries |-> n, cooling |-> b, sent |-> s]]
  BY DEF Put
<1>2. otp'[u] = [code |-> c, tries |-> n, cooling |-> b, sent |-> s]
  BY <1>1
<1> QED
  BY <1>1, <1>2

\* The steps of request r that leave the codes of the others alone.
LEMMA OnTime ==
    ASSUME LInv, NEW r \in Requests,
           \A s \in Requests \ {r} : request'[s] = request[s],
           spent \subseteq spent', sealed \subseteq sealed',
           request'[r].phase \notin {"tried", "identified"} => ~request'[r].late,
           request'[r].phase = "tried" /\ request'[r].late =>
              <<request'[r].user, request'[r].code>> \in spent',
           request'[r].phase = "identified" /\ request'[r].late => request'[r].family \in sealed'
    PROVE  Lateness'
<1>1. ASSUME NEW s \in Requests
      PROVE  /\ request'[s].phase \notin {"tried", "identified"} => ~request'[s].late
             /\ request'[s].phase = "tried" /\ request'[s].late =>
                   <<request'[s].user, request'[s].code>> \in spent'
             /\ request'[s].phase = "identified" /\ request'[s].late => request'[s].family \in sealed'
  <2>1. CASE s = r
    BY <2>1
  <2>2. CASE s # r
    <3>1. request'[s] = request[s]
      BY <2>2
    <3> QED
      BY <3>1 DEF LInv, Lateness
  <2> QED
    BY <2>1, <2>2
<1> QED
  BY <1>1 DEF Lateness

\* Codes that are kept, deleted or newly drawn are unspent.
LEMMA CodesKept ==
    ASSUME LInv, spent' = spent,
           \A u \in Users : \/ otp'[u].code \in {otp[u].code, None}
                            \/ <<u, otp'[u].code>> \notin spent
    PROVE  Unspent'
BY NoneAssumption DEF LInv, IInv, TypeOK, Unspent

LEMMA Ended ==
    ASSUME LInv, NEW r \in Requests, End(r), spent' = spent, sealed' = sealed PROVE Lateness'
<1>1. /\ request'[r] = Idle
      /\ \A s \in Requests \ {r} : request'[s] = request[s]
  BY EndTyped DEF LInv, IInv
<1>2. Idle.phase = "idle" /\ ~Idle.late
  BY DEF Idle
<1> QED
  BY <1>1, <1>2, OnTime

\* A request that was on time enters a phase that only such a request may.
LEMMA Entered ==
    ASSUME LInv, NEW r \in Requests, NEW p \in Phase \ {"tried", "identified"}, Enter(r, p),
           ~request[r].late, spent \subseteq spent', sealed' = sealed
    PROVE  Lateness'
<1>1. request[r] \in Request
  BY DEF LInv, IInv, TypeOK
<1>2. /\ request'[r] = [request[r] EXCEPT !.phase = p]
      /\ \A s \in Requests \ {r} : request'[s] = request[s]
  BY PhaseTyped DEF LInv, IInv
<1>3. request'[r].phase = p /\ ~request'[r].late
  BY <1>1, <1>2 DEF Request
<1> QED
  BY <1>2, <1>3, OnTime

LEMMA LateStart ==
    ASSUME LInv, NEW r \in Requests, NEW u \in Users, NEW k \in Codes \cup {None},
           StartVerify(r, u, k)
    PROVE  Unspent' /\ Lateness'
<1>1. otp \in [Users -> OtpKeys] /\ otp[u] \in OtpKeys
  BY DEF LInv, IInv, TypeOK
<1>2. PICK keys \in Got(u) :
         IF TooMany(keys.tries)
         THEN Put(u, [otp[u] EXCEPT !.code = None]) /\ UNCHANGED request
         ELSE /\ request' = [request EXCEPT ![r] =
                     [Idle EXCEPT !.phase = "tried", !.user = u, !.code = k,
                                  !.read = keys.tries, !.late = <<u, k>> \in spent]]
              /\ UNCHANGED otp
  BY DEF StartVerify
<1>3. UNCHANGED <<user, token, spent, sealed>>
  BY DEF StartVerify
<1>4. CASE TooMany(keys.tries)
  <2>1. Put(u, [otp[u] EXCEPT !.code = None]) /\ UNCHANGED request
    BY <1>2, <1>4
  <2>2. [otp[u] EXCEPT !.code = None].code = None
    BY <1>1 DEF OtpKeys
  <2>3. Unspent'
    BY <1>1, <1>3, <2>1, <2>2, PutWrites, CodesKept
  <2> QED
    BY <1>3, <2>1, <2>3 DEF LInv, Lateness
<1>5. CASE ~TooMany(keys.tries)
  <2> DEFINE q == [Idle EXCEPT !.phase = "tried", !.user = u, !.code = k,
                               !.read = keys.tries, !.late = <<u, k>> \in spent]
  <2>1. request' = [request EXCEPT ![r] = q] /\ otp' = otp
    BY <1>2, <1>5
  <2>2. q.phase = "tried" /\ q.user = u /\ q.code = k
    BY DEF Idle
  <2>3. q.late = (<<u, k>> \in spent)
    BY DEF Idle
  <2> HIDE DEF q
  <2>4. request'[r] = q /\ \A s \in Requests \ {r} : request'[s] = request[s]
    BY <2>1 DEF LInv, IInv, TypeOK
  <2>5. request'[r].late => <<u, k>> \in spent
    BY <2>3, <2>4
  <2>6. Lateness'
    BY <1>3, <2>2, <2>4, <2>5, OnTime
  <2>7. Unspent'
    BY <1>3, <2>1, CodesKept
  <2> QED
    BY <2>6, <2>7
<1> QED
  BY <1>4, <1>5

\* The code found is one its user has not used: a verification that is late
\* finds another, or none.
LEMMA LateCheck ==
    ASSUME LInv, NEW r \in Requests, CheckCode(r) PROVE Unspent' /\ Lateness'
<1> DEFINE u == request[r].user
<1>1. u \in Users /\ otp \in [Users -> OtpKeys] /\ otp[u] \in OtpKeys
  BY DEF LInv, IInv, Bounds, TypeOK, CheckCode, At
<1>2. UNCHANGED <<user, token, spent, sealed>>
  BY DEF CheckCode
<1>3. CASE End(r) /\ UNCHANGED otp
  BY <1>2, <1>3, Ended, CodesKept
<1>4. CASE Put(u, Missed(u, request[r].read)) /\ End(r)
  <2>1. Missed(u, request[r].read).code \in {otp[u].code, None}
    BY <1>1 DEF Missed, OtpKeys
  <2>2. PICK v \in Users : v = u
    BY <1>1
  <2>3. \A w \in Users : otp'[w].code \in {otp[w].code, None}
    BY <1>1, <1>4, <2>1, <2>2, PutWrites
  <2> QED
    BY <1>2, <1>4, <2>3, Ended, CodesKept
<1>5. CASE /\ Enter(r, "right") /\ UNCHANGED otp
           /\ \E keys \in Got(u) : keys.code # None /\ keys.code = request[r].code
  <2>1. otp[u].code = request[r].code
    BY <1>5 DEF Got, NoKeys
  <2>2. ~request[r].late
    BY <1>1, <2>1 DEF LInv, Unspent, Lateness, CheckCode, At
  <2> QED
    BY <1>2, <1>5, <2>2, Entered, CodesKept DEF Phase
<1> QED
  BY <1>3, <1>4, <1>5 DEF CheckCode

LEMMA LateConsume ==
    ASSUME LInv, NEW r \in Requests, Consume(r) PROVE Unspent' /\ Lateness'
<1>1. PICK u \in Users : u = request[r].user
  BY DEF LInv, IInv, Bounds, Consume, At
<1>2. otp \in [Users -> OtpKeys] /\ otp[u] \in OtpKeys /\ spent \subseteq Users \X Codes
  BY DEF LInv, IInv, TypeOK
<1>3. /\ Put(u, CodeConsumed(u))
      /\ spent' = IF otp'[u].code = None THEN spent \cup {<<u, request[r].code>>} ELSE spent
      /\ request[r].phase = "right" /\ Enter(r, "granting") /\ sealed' = sealed
  BY <1>1 DEF Consume, At
<1>4. CodeConsumed(u).code = None
  BY <1>2 DEF CodeConsumed, OtpKeys
<1>5. otp'[u].code \in {otp[u].code, None} /\ \A v \in Users \ {u} : otp'[v] = otp[v]
  BY <1>2, <1>3, <1>4, PutWrites
<1>6. Unspent'
  <2>1. request[r].code # None
    BY <1>3 DEF LInv, IInv, Bounds
  <2>2. ASSUME NEW v \in Users PROVE <<v, otp'[v].code>> \notin spent'
    <3>1. CASE v = u
      <4>1. CASE otp'[u].code = None
        BY <1>2, <1>3, <2>1, <3>1, <4>1, NoneAssumption
      <4>2. CASE otp'[u].code # None
        BY <1>3, <1>5, <3>1, <4>2 DEF LInv, Unspent
      <4> QED
        BY <4>1, <4>2
    <3>2. CASE v # u
      BY <1>3, <1>5, <3>2 DEF LInv, Unspent
    <3> QED
      BY <3>1, <3>2
  <2> QED
    BY <2>2 DEF Unspent
<1>7. Lateness'
  <2>1. ~request[r].late
    BY <1>3 DEF LInv, Lateness
  <2>2. spent \subseteq spent' /\ "granting" \in Phase \ {"tried", "identified"}
    BY <1>3 DEF Phase
  <2> QED
    BY <1>3, <2>1, <2>2, Entered
<1> QED
  BY <1>6, <1>7

\* A request that begins on time, whatever it asks for.
LEMMA Began ==
    ASSUME LInv, NEW r \in Requests, NEW q,
           request' = [request EXCEPT ![r] = q], q.phase \notin {"tried", "identified"}, ~q.late,
           spent' = spent, sealed' = sealed
    PROVE  Lateness'
<1>1. request'[r] = q /\ \A s \in Requests \ {r} : request'[s] = request[s]
  BY DEF LInv, IInv, TypeOK
<1> QED
  BY <1>1, OnTime

\* The steps that send a code and look at an account.
LEMMA LateStore ==
    ASSUME LInv, NEW r \in Requests, NEW k \in Codes, StoreCode(r, k) PROVE Unspent' /\ Lateness'
<1>1. PICK u \in Users : u = request[r].user
  BY DEF LInv, IInv, Bounds, StoreCode, At
<1>2. otp \in [Users -> OtpKeys] /\ otp[u] \in OtpKeys
  BY DEF LInv, IInv, TypeOK
<1>3. spent' = spent /\ sealed' = sealed /\ request[r].phase = "limits" /\ ~request[r].late
  BY DEF LInv, Lateness, StoreCode, At
<1>4. CASE Active(u)
  <2>1. <<u, k>> \notin spent /\ Put(u, CodeStored(u, k)) /\ Enter(r, "stored")
    BY <1>1, <1>4 DEF StoreCode
  <2>2. CodeStored(u, k).code = k
    BY <1>2 DEF CodeStored, OtpKeys
  <2>3. Unspent'
    BY <1>2, <1>3, <2>1, <2>2, PutWrites, CodesKept
  <2> QED
    BY <1>3, <2>1, <2>3, Entered DEF Phase
<1>5. CASE ~Active(u)
  BY <1>1, <1>3, <1>5, Ended, CodesKept DEF StoreCode
<1> QED
  BY <1>4, <1>5

LEMMA LateDeliver ==
    ASSUME LInv, NEW r \in Requests, Deliver(r) PROVE Unspent' /\ Lateness'
<1>1. PICK u \in Users : u = request[r].user
  BY DEF LInv, IInv, Bounds, Deliver, At
<1>2. otp \in [Users -> OtpKeys] /\ otp[u] \in OtpKeys
  BY DEF LInv, IInv, TypeOK
<1>3. /\ [otp[u] EXCEPT !.cooling = TRUE, !.sent = request[r].read + 1].code = otp[u].code
      /\ [otp[u] EXCEPT !.code = None].code = None
  BY <1>2 DEF OtpKeys
<1>4. \/ Put(u, [otp[u] EXCEPT !.cooling = TRUE, !.sent = request[r].read + 1])
      \/ Put(u, [otp[u] EXCEPT !.code = None])
  BY <1>1 DEF Deliver
<1>5. \A w \in Users : otp'[w].code \in {otp[w].code, None}
  BY <1>2, <1>3, <1>4, PutWrites
<1> QED
  BY <1>5, Ended, CodesKept DEF Deliver

\* A call of a family that was sealed when it began finds no live token.
LEMMA LateSession ==
    ASSUME LInv, NEW r \in Requests, CheckSession(r) PROVE Unspent' /\ Lateness'
<1>1. UNCHANGED <<user, otp, token, spent, sealed>> /\ request[r].phase = "identified"
  BY DEF CheckSession, At
<1>2. Unspent'
  BY <1>1, CodesKept
<1>3. CASE SessionFound(request[r].user, request[r].family)
  <2>1. Live(request[r].family) # {}
    BY <1>3 DEF SessionFound
  <2>2. Usable(request[r].family) # {}
    BY <2>1 DEF Live, Usable, Claimable
  <2>3. ~request[r].late
    BY <1>1, <2>2 DEF LInv, IInv, Sealed, Lateness
  <2>4. Enter(r, "admitted") /\ "admitted" \in Phase \ {"tried", "identified"}
    BY <1>3 DEF CheckSession, Phase
  <2> QED
    BY <1>1, <1>2, <2>3, <2>4, Entered
<1>4. CASE ~SessionFound(request[r].user, request[r].family)
  BY <1>1, <1>2, <1>4, Ended DEF CheckSession
<1> QED
  BY <1>3, <1>4

LEMMA LateCall ==
    ASSUME LInv, NEW r \in Requests, NEW u \in Users, NEW f \in Families, StartCall(r, u, f)
    PROVE  Unspent' /\ Lateness'
<1> DEFINE q == [Idle EXCEPT !.phase = "identified", !.user = u, !.family = f,
                             !.late = f \in sealed]
<1>1. request' = [request EXCEPT ![r] = q] /\ UNCHANGED <<user, otp, token, spent, sealed>>
  BY DEF StartCall
<1>2. q.phase = "identified" /\ q.family = f
  BY DEF Idle
<1>3. q.late = (f \in sealed)
  BY DEF Idle
<1> HIDE DEF q
<1>4. request'[r] = q /\ \A s \in Requests \ {r} : request'[s] = request[s]
  BY <1>1 DEF LInv, IInv, TypeOK
<1>5. request'[r].late => f \in sealed
  BY <1>3, <1>4
<1>6. request'[r].phase = "identified" /\ request'[r].family = f
  BY <1>2, <1>4
<1>7. Lateness'
  <2>1. request'[r].phase \notin {"tried", "identified"} => ~request'[r].late
    BY <1>6
  <2>2. request'[r].phase = "tried" /\ request'[r].late =>
           <<request'[r].user, request'[r].code>> \in spent'
    BY <1>6
  <2>3. request'[r].phase = "identified" /\ request'[r].late => request'[r].family \in sealed'
    BY <1>1, <1>5, <1>6
  <2>4. spent \subseteq spent' /\ sealed \subseteq sealed'
    BY <1>1
  <2>5. \A s \in Requests \ {r} : request'[s] = request[s]
    BY <1>4
  <2> QED
    BY <2>1, <2>2, <2>3, <2>4, <2>5, OnTime
<1> QED
  BY <1>1, <1>7, CodesKept

LEMMA LateBegin ==
    ASSUME LInv, NEW r \in Requests,
           \/ \E u \in Users : StartSend(r, u) \/ Register(r, u)
           \/ \E t \in Tokens : StartRefresh(r, t)
    PROVE  Unspent' /\ Lateness'
<1>1. CASE \E u \in Users : StartSend(r, u)
  <2>0. PICK u \in Users : StartSend(r, u)
    BY <1>1
  <2>1. PICK keys \in Got(u) :
           request' = [request EXCEPT ![r] = [Idle EXCEPT !.phase = "limits", !.user = u,
                                                          !.read = keys.sent]]
    BY <2>0 DEF StartSend
  <2> DEFINE q == [Idle EXCEPT !.phase = "limits", !.user = u, !.read = keys.sent]
  <2>2. q.phase = "limits" /\ ~q.late
    BY DEF Idle
  <2>3. otp' = otp /\ spent' = spent /\ sealed' = sealed
    BY <1>1 DEF StartSend
  <2> HIDE DEF q
  <2>4. request' = [request EXCEPT ![r] = q]
    BY <2>1 DEF q
  <2> QED
    BY <2>2, <2>3, <2>4, Began, CodesKept
<1>2. CASE \E u \in Users : Register(r, u)
  <2>1. PICK u \in Users :
           request' = [request EXCEPT ![r] = [Idle EXCEPT !.phase = "granting", !.user = u]]
    BY <1>2 DEF Register
  <2> DEFINE q == [Idle EXCEPT !.phase = "granting", !.user = u]
  <2>2. q.phase = "granting" /\ ~q.late
    BY DEF Idle
  <2>3. otp' = otp /\ spent' = spent /\ sealed' = sealed
    BY <1>2 DEF Register
  <2> HIDE DEF q
  <2>4. request' = [request EXCEPT ![r] = q]
    BY <2>1 DEF q
  <2> QED
    BY <2>2, <2>3, <2>4, Began, CodesKept
<1>3. CASE \E t \in Tokens : StartRefresh(r, t)
  <2>1. PICK t \in Tokens : StartRefresh(r, t)
    BY <1>3
  <2>2. otp' = otp /\ spent' = spent
    BY <2>1 DEF StartRefresh
  <2>3. CASE token[t].state = "LIVE"
    <3> DEFINE q == [Idle EXCEPT !.phase = "claiming", !.user = token[t].user,
                                 !.token = t, !.family = token[t].family]
    <3>1. request' = [request EXCEPT ![r] = q] /\ sealed' = sealed
      BY <2>1, <2>3 DEF StartRefresh
    <3>2. q.phase = "claiming" /\ ~q.late
      BY DEF Idle
    <3> HIDE DEF q
    <3> QED
      BY <2>2, <3>1, <3>2, Began, CodesKept
  <2>4. CASE token[t].state # "LIVE"
    <3>1. RevokeFamily(t) /\ request' = request
      BY <2>1, <2>4 DEF StartRefresh
    <3>2. sealed \subseteq sealed'
      BY <3>1 DEF RevokeFamily
    <3> QED
      BY <2>2, <3>1, <3>2, CodesKept DEF LInv, Lateness
  <2> QED
    BY <2>3, <2>4
<1> QED
  BY <1>1, <1>2, <1>3

LEMMA LateStep ==
    ASSUME LInv, NEW r \in Requests, Step(r) PROVE Unspent' /\ Lateness'
<1>1. CASE \E k \in Codes : StoreCode(r, k)
  BY <1>1, LateStore
<1>2. CASE Deliver(r)
  BY <1>2, LateDeliver
<1>3. CASE CheckCode(r)
  BY <1>3, LateCheck
<1>4. CASE Consume(r)
  BY <1>4, LateConsume
<1>5. CASE Claim(r)
  <2>1. UNCHANGED <<user, otp, spent, sealed>> /\ ~request[r].late
    BY <1>5 DEF Claim, At, LInv, Lateness
  <2>2. Enter(r, "claimed") \/ End(r)
    BY <1>5 DEF Claim
  <2> QED
    BY <2>1, <2>2, Entered, Ended, CodesKept DEF Phase
<1>6. CASE CheckAccount(r)
  <2>1. UNCHANGED <<user, otp, token, spent, sealed>> /\ ~request[r].late
    BY <1>6 DEF CheckAccount, At, LInv, Lateness
  <2>2. Enter(r, "granting") \/ End(r)
    BY <1>6 DEF CheckAccount
  <2> QED
    BY <2>1, <2>2, Entered, Ended, CodesKept DEF Phase
<1>7. CASE \E t \in Tokens, f \in Families : Grant(r, t, f)
  BY <1>7, Ended, CodesKept DEF Grant
<1>8. CASE CheckSession(r)
  BY <1>8, LateSession
<1>9. CASE Die(r)
  BY <1>9, Ended, CodesKept DEF Die
<1> QED
  BY <1>1, <1>2, <1>3, <1>4, <1>5, <1>6, <1>7, <1>8, <1>9 DEF Step

\* A step of no request: codes are only deleted, families only sealed.
LEMMA LateElsewhere ==
    ASSUME LInv, UNCHANGED <<request, spent>>, sealed \subseteq sealed',
           \A u \in Users : otp'[u].code \in {otp[u].code, None}
    PROVE  Unspent' /\ Lateness'
<1>1. Lateness'
  BY DEF LInv, Lateness
<1> QED
  BY <1>1, CodesKept

\* What the expiry of a key leaves of the keys of a user.
LEMMA KeyExpires ==
    ASSUME otp \in [Users -> OtpKeys], NEW u \in Users, ExpireKey(u)
    PROVE  /\ otp'[u].code \in {otp[u].code, None}
           /\ otp'[u].tries = otp[u].tries \/ otp'[u] = [otp[u] EXCEPT !.tries = 0]
           /\ \A v \in Users \ {u} : otp'[v] = otp[v]
<1>1. otp[u] \in OtpKeys
  OBVIOUS
<1>2. \/ otp' = [otp EXCEPT ![u] = [otp[u] EXCEPT !.code = None]]
      \/ otp' = [otp EXCEPT ![u] = [otp[u] EXCEPT !.tries = 0]]
      \/ otp' = [otp EXCEPT ![u] = [otp[u] EXCEPT !.cooling = FALSE]]
      \/ otp' = [otp EXCEPT ![u] = [otp[u] EXCEPT !.sent = 0]]
  BY DEF ExpireKey
<1> QED
  BY <1>1, <1>2 DEF OtpKeys

LEMMA LateNext == LInv /\ [Next]_vars => LInv'
<1> SUFFICES ASSUME LInv, [Next]_vars PROVE Unspent' /\ Lateness'
  BY NextInv DEF LInv
<1>1. CASE \E r \in Requests, u \in Users : StartSend(r, u)
  BY <1>1, LateBegin
<1>2. CASE \E r \in Requests, u \in Users, k \in Codes \cup {None} : StartVerify(r, u, k)
  BY <1>2, LateStart
<1>3. CASE \E r \in Requests, u \in Users : Register(r, u)
  BY <1>3, LateBegin
<1>4. CASE \E r \in Requests, t \in Tokens : StartRefresh(r, t)
  BY <1>4, LateBegin
<1>5. CASE \E r \in Requests, u \in Users, f \in Families : StartCall(r, u, f)
  BY <1>5, LateCall
<1>6. CASE \E r \in Requests : Step(r)
  BY <1>6, LateStep
<1>7. CASE \E t \in Tokens : Logout(t)
  <2>1. UNCHANGED <<user, otp, request, spent>> /\ sealed \subseteq sealed'
    BY <1>7 DEF Logout, RevokeFamily
  <2> QED
    BY <2>1, LateElsewhere
<1>8. CASE \E u \in Users, s \in {"ACTIVE", "INACTIVE"} : SetActive(u, s)
  BY <1>8, LateElsewhere DEF SetActive
<1>9. CASE \E u \in Users : DeleteUser(u)
  BY <1>9, LateElsewhere DEF DeleteUser
<1>10. CASE \E u \in Users : ExpireKey(u)
  <2>1. \A u \in Users : otp'[u].code \in {otp[u].code, None}
    BY <1>10, KeyExpires DEF LInv, IInv, TypeOK
  <2>2. UNCHANGED <<user, token, request, spent, sealed>>
    BY <1>10 DEF ExpireKey
  <2> QED
    BY <2>1, <2>2, LateElsewhere
<1>11. CASE \E t \in Tokens : ExpireToken(t)
  BY <1>11, LateElsewhere DEF ExpireToken
<1>12. CASE UNCHANGED vars
  <2>1. UNCHANGED <<user, otp, token, request, spent, sealed>>
    BY <1>12 DEF vars
  <2> QED
    BY <2>1, LateElsewhere
<1> QED
  BY <1>1, <1>2, <1>3, <1>4, <1>5, <1>6, <1>7, <1>8, <1>9, <1>10, <1>11, <1>12 DEF Next

LEMMA LInvAlways == Spec => []LInv
<1>1. Init => LInv
  <2>1. Init => Unspent /\ Lateness
    BY DEF Init, Unspent, Lateness, Idle
  <2> QED
    BY <2>1, InitInv DEF LInv
<1> QED
  BY <1>1, LateNext, PTL DEF Spec

\* A call that begins after its family was revoked (while no refresh held a claim)
\* reaches no handler, and a verification that begins after its code was used opens
\* no session, for any number of users, requests, codes, families and tokens.
THEOREM NobodyIsLate == Spec => []NothingLate
<1>1. LInv => NothingLate
  BY DEF LInv, Lateness, NothingLate
<1> QED
  BY <1>1, LInvAlways, PTL

----------------------------------------------------------------------------
(* The count of wrong guesses *)

\* What a step may do to the count of wrong guesses of a user.
TriesStep(u) ==
    otp'[u].tries < otp[u].tries =>
       \/ otp'[u] = [otp[u] EXCEPT !.tries = 0]
       \/ \E r \in Requests :
             /\ request[r].user = u
             /\ request'[r] # request[r]
             /\ \/ At(r, "right")
                \/ At(r, "tried") /\ request[r].read < otp[u].tries

\* The steps that write no count.
LEMMA TriesKept ==
    ASSUME IInv, \A v \in Users : otp'[v].tries = otp[v].tries
    PROVE  \A u \in Users : TriesStep(u)
<1>1. \A v \in Users : otp[v].tries \in 0..MaxTries
  BY DEF IInv, TypeOK, OtpKeys
<1>2. \A v \in Users : ~(otp'[v].tries < otp[v].tries)
  BY <1>1, LimitsAssumption
<1> QED
  BY <1>2 DEF TriesStep

\* A request that is about to write a count, or to delete it.
LEMMA TriesOfRequest ==
    ASSUME IInv, NEW r \in Requests, CheckCode(r) \/ Consume(r)
    PROVE  \A u \in Users : TriesStep(u)
<1>1. PICK w \in Users : w = request[r].user
  BY DEF IInv, Bounds, CheckCode, Consume, At
<1>2. /\ otp \in [Users -> OtpKeys] /\ otp[w] \in OtpKeys /\ request[r] \in Request
      /\ otp[w].tries \in 0..MaxTries
  BY DEF IInv, TypeOK, OtpKeys
<1>3. CASE CheckCode(r)
  <2>1. CASE UNCHANGED otp
    BY <2>1, TriesKept
  <2>2. CASE Put(w, Missed(w, request[r].read)) /\ End(r)
    <3>1. Missed(w, request[r].read).tries = request[r].read + 1
      BY <1>2 DEF Missed, OtpKeys
    <3>2. /\ otp'[w].tries \in {otp[w].tries, request[r].read + 1}
          /\ \A v \in Users \ {w} : otp'[v] = otp[v]
      BY <1>2, <2>2, <3>1, PutWrites
    <3>3. request[r].phase = "tried" /\ request[r].read < MaxTries /\ request[r].read \in Nat
      <4>1. request[r].phase = "tried" /\ request[r].read < MaxTries
        BY <1>3 DEF CheckCode, At, IInv, Bounds
      <4>2. request[r].read \in 0..(MaxTries + MaxSent)
        BY <1>2 DEF Request
      <4> QED
        BY <4>1, <4>2, LimitsAssumption
    <3>4. request'[r] # request[r]
      <4>1. request'[r] = Idle
        BY <2>2, EndTyped DEF IInv
      <4> QED
        BY <3>3, <4>1 DEF Idle
    <3>5. otp'[w].tries < otp[w].tries => request[r].read < otp[w].tries
      BY <1>2, <3>2, <3>3, LimitsAssumption
    <3>6. \A v \in Users \ {w} : ~(otp'[v].tries < otp[v].tries)
      <4>1. \A v \in Users : otp[v].tries \in 0..MaxTries
        BY DEF IInv, TypeOK, OtpKeys
      <4> QED
        BY <3>2, <4>1, LimitsAssumption
    <3> QED
      BY <1>1, <3>3, <3>4, <3>5, <3>6 DEF TriesStep, At
  <2> QED
    BY <1>1, <1>3, <2>1, <2>2 DEF CheckCode
<1>4. CASE Consume(r)
  <2>1. /\ Put(w, CodeConsumed(w)) /\ request[r].phase = "right"
        /\ Enter(r, "granting")
    BY <1>1, <1>4 DEF Consume, At
  <2>2. request'[r] # request[r]
    <3>1. request'[r] = [request[r] EXCEPT !.phase = "granting"]
      BY <2>1, PhaseTyped DEF IInv, Phase
    <3>2. request'[r].phase = "granting"
      BY <1>2, <3>1 DEF Request
    <3> QED
      BY <2>1, <3>2
  <2>3. \A v \in Users \ {w} : otp'[v] = otp[v]
    BY <1>2, <2>1, PutWrites
  <2>4. \A v \in Users \ {w} : ~(otp'[v].tries < otp[v].tries)
    <3>1. \A v \in Users : otp[v].tries \in 0..MaxTries
      BY DEF IInv, TypeOK, OtpKeys
    <3> QED
      BY <2>3, <3>1, LimitsAssumption
  <2> QED
    BY <1>1, <2>1, <2>2, <2>4 DEF TriesStep, At
<1> QED
  BY <1>3, <1>4

\* The other steps that write to Redis leave the counts alone.
LEMMA TriesElsewhere ==
    ASSUME IInv, NEW r \in Requests,
           \/ \E k \in Codes : StoreCode(r, k)
           \/ Deliver(r)
           \/ \E u \in Users, k \in Codes \cup {None} : StartVerify(r, u, k)
    PROVE  \A v \in Users : TriesStep(v)
<1>1. otp \in [Users -> OtpKeys] /\ \A v \in Users : otp[v] \in OtpKeys
  BY DEF IInv, TypeOK
<1>2. ASSUME NEW u \in Users, NEW keys, keys.tries = otp[u].tries, Put(u, keys)
      PROVE  \A v \in Users : otp'[v].tries = otp[v].tries
  BY <1>1, <1>2, PutWrites
<1>3. CASE \E k \in Codes : StoreCode(r, k)
  <2>1. PICK k \in Codes : StoreCode(r, k)
    BY <1>3
  <2>2. PICK u \in Users : u = request[r].user
    BY <2>1 DEF IInv, Bounds, StoreCode, At
  <2>3. CodeStored(u, k).tries = otp[u].tries
    BY <1>1 DEF CodeStored, OtpKeys
  <2>4. Put(u, CodeStored(u, k)) \/ otp' = otp
    BY <2>1, <2>2 DEF StoreCode
  <2> QED
    BY <1>2, <2>3, <2>4, TriesKept
<1>4. CASE Deliver(r)
  <2>1. PICK u \in Users : u = request[r].user
    BY <1>4 DEF IInv, Bounds, Deliver, At
  <2>2. /\ [otp[u] EXCEPT !.cooling = TRUE, !.sent = request[r].read + 1].tries = otp[u].tries
        /\ [otp[u] EXCEPT !.code = None].tries = otp[u].tries
    BY <1>1 DEF OtpKeys
  <2>3. \/ Put(u, [otp[u] EXCEPT !.cooling = TRUE, !.sent = request[r].read + 1])
        \/ Put(u, [otp[u] EXCEPT !.code = None])
    BY <1>4, <2>1 DEF Deliver
  <2> QED
    BY <1>2, <2>2, <2>3, TriesKept
<1>5. CASE \E u \in Users, k \in Codes \cup {None} : StartVerify(r, u, k)
  <2>1. PICK u \in Users, k \in Codes \cup {None} : StartVerify(r, u, k)
    BY <1>5
  <2>2. [otp[u] EXCEPT !.code = None].tries = otp[u].tries
    BY <1>1 DEF OtpKeys
  <2>3. Put(u, [otp[u] EXCEPT !.code = None]) \/ otp' = otp
    BY <2>1 DEF StartVerify
  <2> QED
    BY <1>2, <2>2, <2>3, TriesKept
<1> QED
  BY <1>3, <1>4, <1>5

LEMMA TriesNext == IInv /\ [Next]_vars => \A u \in Users : TriesStep(u)
<1> SUFFICES ASSUME IInv, [Next]_vars PROVE \A u \in Users : TriesStep(u)
  OBVIOUS
<1>1. CASE UNCHANGED otp
  BY <1>1, TriesKept
<1>2. CASE \E u \in Users : ExpireKey(u)
  <2>1. PICK w \in Users : ExpireKey(w)
    BY <1>2
  <2>2. /\ otp'[w].tries = otp[w].tries \/ otp'[w] = [otp[w] EXCEPT !.tries = 0]
        /\ \A v \in Users \ {w} : otp'[v] = otp[v]
    BY <2>1, KeyExpires DEF IInv, TypeOK
  <2>3. \A v \in Users : otp[v].tries \in 0..MaxTries
    BY DEF IInv, TypeOK, OtpKeys
  <2>4. \A v \in Users : \/ ~(otp'[v].tries < otp[v].tries)
                         \/ otp'[v] = [otp[v] EXCEPT !.tries = 0]
    BY <2>2, <2>3, LimitsAssumption
  <2> QED
    BY <2>4 DEF TriesStep
<1>3. CASE \E r \in Requests, u \in Users, k \in Codes \cup {None} : StartVerify(r, u, k)
  BY <1>3, TriesElsewhere
<1>4. CASE \E r \in Requests : (\E k \in Codes : StoreCode(r, k)) \/ Deliver(r)
  BY <1>4, TriesElsewhere
<1>5. CASE \E r \in Requests : CheckCode(r) \/ Consume(r)
  BY <1>5, TriesOfRequest
<1> QED
  BY <1>1, <1>2, <1>3, <1>4, <1>5
     DEF Next, Step, vars, StartSend, Register, StartRefresh, StartCall, Claim, CheckAccount,
         Grant, CheckSession, Die, Logout, SetActive, DeleteUser, ExpireToken

\* For any number of users and requests and any limit of wrong guesses, the count
\* falls only when its key expires, when the right code was given, or when a
\* request that had read an older count writes it back.
THEOREM TriesFallByRacesOnly == Spec => TriesFallOnlyWhenOutdated
<1>1. IInv /\ [Next]_vars => \A u \in Users : TriesStep(u)
  BY TriesNext
<1>2. LInv => IInv
  BY DEF LInv
<1>3. Spec => [][\A u \in Users : TriesStep(u)]_vars
  BY <1>1, <1>2, LInvAlways, PTL DEF Spec
<1> QED
  BY <1>3 DEF TriesFallOnlyWhenOutdated, TriesStep

==============================================================================
