-------------------------- MODULE Membership_proofs --------------------------
(***************************************************************************)
(* Theorems about Accounts and Membership for any number of users,         *)
(* sessions, workspaces, invitations, projects and requests.               *)
(***************************************************************************)
EXTENDS Membership, FiniteSetTheorems, TLAPS

-----------------------------------------------------------------------------
(* Accounts.                                                               *)

\* A call past its check works for a user that exists, with a session of its own.
CallsSound == \A c \in Calls :
  /\ call[c].at # "idle" => call[c].user \in Users
  /\ call[c].at \notin {"idle", "create"} => account[call[c].user] # "absent"
  /\ call[c].at \in {"set", "drop"} =>
       /\ call[c].key \in drawn
       /\ \A s \in sessions : s.key = call[c].key => s.user = call[c].user

SessionsOf(u) == {s \in sessions : s.user = u}
Renewing(u) == {c \in Calls : call[c].at = "renew" /\ call[c].user = u}

\* A call that is about to renew a session has made room for it.
RoomFor(u) ==
  /\ IsFiniteSet(SessionsOf(u)) /\ IsFiniteSet(Renewing(u))
  /\ u \notin unrotated =>
       Cardinality(SessionsOf(u)) + Cardinality(Renewing(u)) <= entered[u]
RoomToRenew == \A u \in Users : RoomFor(u)

\* Nobody is on the way to a new session or password of a deactivated account.
LeftAlone(u) == u \notin overlap /\ account[u] = "inactive" =>
  /\ password[u] = Scrambled
  /\ \A c \in Calls : call[c].user = u => call[c].at \notin {"start", "set", "drop", "renew"}
  /\ (\A c \in Calls : ~(call[c].user = u /\ call[c].at = "forget")) => SessionsOf(u) = {}
NobodyUnderway == \A u \in Users : LeftAlone(u)

AInv == AccountsOK /\ CallsSound /\ RoomToRenew /\ NobodyUnderway

LEMMA AccountsStart == AccountsInit => AInv
<1> SUFFICES ASSUME AccountsInit PROVE AInv
  OBVIOUS
<1>1. AccountsOK
  BY DEF AccountsInit, AccountsOK, Call, CallSteps, Quiet, Session
<1>2. CallsSound /\ NobodyUnderway
  BY DEF AccountsInit, CallsSound, NobodyUnderway, LeftAlone, Quiet
<1>3. \A u \in Users : SessionsOf(u) = {} /\ Renewing(u) = {}
  BY DEF AccountsInit, SessionsOf, Renewing, Quiet
<1>4. RoomToRenew
  BY <1>3, FS_EmptySet DEF AccountsInit, RoomToRenew, RoomFor
<1> QED
  BY <1>1, <1>2, <1>4 DEF AInv

\* The statement that puts a call where it goes on.
LEMMA GoesOn ==
  ASSUME AccountsOK, NEW c \in Calls, NEW step \in CallSteps, GoOn(c, step)
  PROVE  /\ call' \in [Calls -> Call]
         /\ call'[c].at = step
         /\ step # "idle" => /\ call'[c].user = call[c].user /\ call'[c].key = call[c].key
                             /\ call'[c].password = call[c].password
         /\ \A d \in Calls : d # c => call'[d] = call[d]
<1>1. call \in [Calls -> Call]
  BY DEF AccountsOK
<1>2. Quiet \in Call /\ Quiet.at = "idle"
  BY DEF Quiet, Call, CallSteps
<1>3. [call[c] EXCEPT !.at = step] \in Call
  BY <1>1 DEF Call
<1> QED
  BY <1>1, <1>2, <1>3 DEF GoOn, Call

\* A request that passes its checks.
LEMMA Asks ==
  ASSUME AccountsOK, NEW c \in Calls, NEW step \in CallSteps, NEW u \in Users,
         NEW k \in Keys \cup {None}, NEW pw \in Passwords \cup {None}, Ask(c, step, u, k, pw)
  PROVE  /\ call' \in [Calls -> Call]
         /\ call'[c] = [at |-> step, user |-> u, key |-> k, password |-> pw]
         /\ \A d \in Calls : d # c => call'[d] = call[d]
         /\ call[c].at = "idle"
         /\ UNCHANGED <<account, password, sessions, drawn, overlap, entered, unrotated>>
BY DEF Ask, AccountsOK, Call, Quiet

\* Every check of a handler, as the lemmas below need it.
Asking == \E c \in Calls, step \in CallSteps, u \in Users, k \in Keys \cup {None},
             pw \in Passwords \cup {None} :
  /\ Ask(c, step, u, k, pw)
  /\ step \in {"create", "start", "scramble", "set"}
  /\ step # "create" => account[u] # "absent"
  /\ step \in {"start", "set"} => password[u] \in Passwords
  /\ step = "set" => k \in drawn /\ \A s \in sessions : s.key = k => s.user = u

LEMMA ChecksAsk ==
  ASSUME AccountsOK, NEW c \in Calls, NEW u \in Users, NEW k \in Keys,
         NEW old \in Passwords, NEW new \in Passwords,
         \/ BeginSignUp(c, u, new) \/ BeginSignIn(c, u, new)
         \/ BeginDeactivate(c, u, k) \/ BeginChangePassword(c, u, k, old, new)
  PROVE  Asking
<1>1. {"create", "start", "scramble", "set"} \subseteq CallSteps
  BY DEF CallSteps
<1>2. CASE BeginSignUp(c, u, new)
  BY <1>1, <1>2 DEF BeginSignUp, Asking
<1>3. CASE BeginSignIn(c, u, new)
  BY <1>1, <1>3 DEF BeginSignIn, Asking
<1>4. ASSUME Require(u, k)
      PROVE  account[u] # "absent" /\ k \in drawn /\ \A s \in sessions : s.key = k => s.user = u
  BY <1>4 DEF Require, AccountsOK
<1>5. CASE BeginDeactivate(c, u, k)
  BY <1>1, <1>4, <1>5 DEF BeginDeactivate, Asking
<1>6. CASE BeginChangePassword(c, u, k, old, new)
  BY <1>1, <1>4, <1>6 DEF BeginChangePassword, Asking
<1> QED
  BY <1>2, <1>3, <1>5, <1>6

\* What a step of an account is.
LEMMA AccountSteps ==
  ASSUME AccountsOK, AccountsNext
  PROVE  \/ Asking
         \/ \E c \in Calls, k \in Keys : StartSession(c, k) \/ RenewSession(c, k)
         \/ \E c \in Calls : \/ CreateUser(c) \/ Scramble(c) \/ ForgetSessions(c)
                             \/ SetPassword(c) \/ DropSession(c) \/ CallFails(c)
         \/ \E k \in Keys : SignOut(k)
         \/ \E s \in sessions : Expire(s)
<1>1. ASSUME NEW c \in Calls, NEW u \in Users, NEW pw \in Passwords,
             \/ BeginSignUp(c, u, pw) \/ BeginSignIn(c, u, pw)
             \/ \E k \in Keys, old \in Passwords : BeginChangePassword(c, u, k, old, pw)
      PROVE  Asking
  <2>1. CASE \E k \in Keys, old \in Passwords : BeginChangePassword(c, u, k, old, pw)
    BY <2>1, ChecksAsk
  <2>2. CASE BeginSignUp(c, u, pw)
    BY <2>2 DEF BeginSignUp, Asking, CallSteps
  <2>3. CASE BeginSignIn(c, u, pw)
    BY <2>3 DEF BeginSignIn, Asking, CallSteps
  <2> QED
    BY <1>1, <2>1, <2>2, <2>3
<1>2. ASSUME NEW c \in Calls, NEW k \in Keys, NEW u \in Users, BeginDeactivate(c, u, k)
      PROVE  Asking
  <2>1. account[u] # "absent"
    BY <1>2 DEF BeginDeactivate, Require, AccountsOK
  <2> QED
    BY <1>2, <2>1 DEF BeginDeactivate, Asking, CallSteps
<1> QED
  BY <1>1, <1>2 DEF AccountsNext

\* The rows and calls of accounts stay well formed, and calls past their checks sound.
LEMMA AccountsKept ==
  ASSUME AccountsOK, CallsSound, AccountsNext
  PROVE  AccountsOK' /\ CallsSound'
<1> USE DEF AccountsOK
<1>1. CASE Asking
  <2> PICK c \in Calls, step \in CallSteps, u \in Users, k \in Keys \cup {None},
           pw \in Passwords \cup {None} :
        /\ Ask(c, step, u, k, pw)
        /\ step \in {"create", "start", "scramble", "set"}
        /\ step # "create" => account[u] # "absent"
        /\ step \in {"start", "set"} => password[u] \in Passwords
        /\ step = "set" => k \in drawn /\ \A s \in sessions : s.key = k => s.user = u
    BY <1>1 DEF Asking
  <2>1. /\ call' \in [Calls -> Call]
        /\ call'[c] = [at |-> step, user |-> u, key |-> k, password |-> pw]
        /\ \A d \in Calls : d # c => call'[d] = call[d]
        /\ UNCHANGED <<account, password, sessions, drawn, overlap, entered, unrotated>>
    BY Asks
  <2>2. AccountsOK'
    BY <2>1
  <2>3. CallsSound'
    BY <2>1 DEF CallsSound
  <2> QED
    BY <2>2, <2>3
<1>2. ASSUME NEW c \in Calls, NEW k \in Keys, StartSession(c, k) \/ RenewSession(c, k)
      PROVE  AccountsOK' /\ CallsSound'
  <2> DEFINE new == [key |-> k, user |-> call[c].user, expired |-> FALSE]
  <2>1. /\ k \notin drawn /\ drawn' = drawn \cup {k} /\ sessions' = sessions \cup {new}
        /\ call[c].at \in {"start", "renew"}
        /\ UNCHANGED <<account, password, overlap, unrotated>>
        /\ entered' \in [Users -> Nat]
    BY <1>2 DEF StartSession, RenewSession, NewSession
  <2>2. GoOn(c, "idle") /\ "idle" \in CallSteps
    BY <1>2 DEF StartSession, RenewSession, CallSteps
  <2>3. /\ call' \in [Calls -> Call] /\ call'[c].at = "idle"
        /\ \A d \in Calls : d # c => call'[d] = call[d]
    BY <2>2, GoesOn
  <2>4. call[c].user \in Users /\ account[call[c].user] # "absent"
    BY <2>1 DEF CallsSound
  <2>5. new \in Session /\ new.key = k /\ new.user = call[c].user
    BY <2>4 DEF Session
  <2>6. \A s \in sessions : s.key \in drawn
    OBVIOUS
  <2> HIDE DEF new
  <2>7. AccountsOK'
    <3>1. \A s \in sessions' : s.key \in drawn' /\ account'[s.user] # "absent"
      <4> TAKE s \in sessions'
      <4>1. CASE s \in sessions
        BY <2>1, <2>6, <4>1
      <4>2. CASE s = new
        BY <2>1, <2>4, <2>5, <4>2
      <4> QED
        BY <2>1, <4>1, <4>2
    <3>2. \A s, t \in sessions' : s.key = t.key => s = t
      BY <2>1, <2>5, <2>6
    <3>3. sessions' \subseteq Session /\ drawn' \subseteq Keys
      BY <2>1, <2>5
    <3>4. /\ account' = account /\ password' = password /\ overlap' = overlap
          /\ unrotated' = unrotated /\ entered' \in [Users -> Nat]
      BY <2>1
    <3> QED
      BY <2>3, <3>1, <3>2, <3>3, <3>4
  <2>8. CallsSound'
    BY <2>1, <2>3, <2>5 DEF CallsSound
  <2> QED
    BY <2>7, <2>8
<1>3. ASSUME NEW c \in Calls, \/ CreateUser(c) \/ Scramble(c) \/ ForgetSessions(c)
                             \/ SetPassword(c) \/ DropSession(c) \/ CallFails(c)
      PROVE  AccountsOK' /\ CallsSound'
  <2>1. PICK step \in CallSteps : GoOn(c, step) /\ (step \notin {"idle", "start"} =>
             call[c].at \in {"scramble", "set", "drop"} /\ (step = "drop" => call[c].at = "set"))
          /\ (step \in {"start", "set"} => step = "start" /\ account'[call[c].user] # "absent")
    <3>1. call[c].user \in Users \/ call[c].at = "idle"
      BY DEF CallsSound
    <3>2. CASE CreateUser(c)
      BY <3>1, <3>2 DEF CreateUser, CallSteps
    <3>3. CASE \/ Scramble(c) \/ ForgetSessions(c) \/ SetPassword(c) \/ DropSession(c)
               \/ CallFails(c)
      BY <3>3 DEF Scramble, ForgetSessions, SetPassword, DropSession, CallFails, CallSteps
    <3> QED
      BY <1>3, <3>2, <3>3
  <2>2. /\ call' \in [Calls -> Call]
        /\ call'[c].at = step
        /\ step # "idle" => /\ call'[c].user = call[c].user /\ call'[c].key = call[c].key
        /\ \A d \in Calls : d # c => call'[d] = call[d]
    BY <2>1, GoesOn
  <2>3. call[c].at # "idle" /\ call[c].user \in Users
    BY <1>3 DEF CallsSound, CreateUser, Scramble, ForgetSessions, SetPassword, DropSession, CallFails
  <2>4. call[c] \in Call
    OBVIOUS
  <2>5. /\ account' \in [Users -> {"absent", "active", "inactive"}]
        /\ \A u \in Users : account[u] # "absent" => account'[u] # "absent"
        /\ sessions' \subseteq sessions /\ drawn' = drawn /\ entered' = entered
        /\ overlap' \subseteq Users /\ unrotated' \subseteq Users
    BY <1>3, <2>3 DEF CreateUser, Scramble, ForgetSessions, SetPassword, DropSession, CallFails
  <2>6. password' \in [Users -> Passwords \cup {Scrambled, None}]
    BY <1>3, <2>3, <2>4 DEF CreateUser, Scramble, ForgetSessions, SetPassword, DropSession,
       CallFails, Call
  <2>7. AccountsOK'
    <3>1. \A s \in sessions' : s.user \in Users
      BY <2>5 DEF Session
    <3> QED
      BY <2>2, <2>5, <2>6, <3>1
  <2>8. CallsSound'
    <3>1. \A d \in Calls : d # c => call'[d] = call[d] /\ (call[d].at # "idle" => call[d].user \in Users)
      BY <2>2 DEF CallsSound
    <3>2. ASSUME step # "idle" PROVE account[call[c].user] # "absent" \/ step = "start"
      BY <2>1, <3>2 DEF CallsSound
    <3> QED
      BY <2>1, <2>2, <2>3, <2>5, <3>1, <3>2 DEF CallsSound
  <2> QED
    BY <2>7, <2>8
<1>4. CASE \E k \in Keys : SignOut(k)
  <2>1. sessions' \subseteq sessions /\ UNCHANGED <<account, password, drawn, call, overlap, entered, unrotated>>
    BY <1>4 DEF SignOut
  <2> QED
    BY <2>1 DEF CallsSound
<1>5. ASSUME NEW s \in sessions, Expire(s) PROVE AccountsOK' /\ CallsSound'
  <2> DEFINE over == [s EXCEPT !.expired = TRUE]
  <2>1. /\ sessions' = (sessions \ {s}) \cup {over}
        /\ UNCHANGED <<account, password, drawn, call, overlap, entered, unrotated>>
    BY <1>5 DEF Expire
  <2>2. over \in Session /\ over.key = s.key /\ over.user = s.user
    BY DEF Session
  <2> HIDE DEF over
  <2>3. \A t \in sessions' : \E o \in sessions : t.key = o.key /\ t.user = o.user
    BY <2>1, <2>2
  <2>4. \A t, o \in sessions' : t.key = o.key => t = o
    BY <2>1, <2>2
  <2>5. AccountsOK'
    BY <2>1, <2>2, <2>3, <2>4
  <2>6. CallsSound'
    BY <2>1, <2>3 DEF CallsSound
  <2> QED
    BY <2>5, <2>6
<1> QED
  BY <1>1, <1>2, <1>3, <1>4, <1>5, AccountSteps

\* Fewer sessions and fewer calls about to renew one leave the room there was.
LEMMA RoomStays ==
  ASSUME AccountsOK, NEW u \in Users, RoomFor(u),
         SessionsOf(u)' \subseteq SessionsOf(u), Renewing(u)' \subseteq Renewing(u),
         unrotated \subseteq unrotated', entered'[u] = entered[u]
  PROVE  RoomFor(u)'
<1>1. /\ IsFiniteSet(SessionsOf(u)') /\ Cardinality(SessionsOf(u)') <= Cardinality(SessionsOf(u))
      /\ IsFiniteSet(Renewing(u)') /\ Cardinality(Renewing(u)') <= Cardinality(Renewing(u))
  BY FS_Subset DEF RoomFor
<1>2. /\ Cardinality(SessionsOf(u)) \in Nat /\ Cardinality(Renewing(u)) \in Nat
      /\ Cardinality(SessionsOf(u)') \in Nat /\ Cardinality(Renewing(u)') \in Nat
      /\ entered[u] \in Nat
  BY <1>1, FS_CardinalityType DEF RoomFor, AccountsOK
<1>3. (Cardinality(SessionsOf(u)))' = Cardinality(SessionsOf(u)')
  OBVIOUS
<1> QED
  BY <1>1, <1>2 DEF RoomFor

\* ChangePassword ends one session for the one it starts, the other handlers that
\* start one count it.
LEMMA RoomKept ==
  ASSUME AccountsOK, CallsSound, RoomToRenew, AccountsNext
  PROVE  RoomToRenew'
<1> SUFFICES ASSUME NEW u \in Users PROVE RoomFor(u)'
  BY DEF RoomToRenew
<1>0. RoomFor(u)
  BY DEF RoomToRenew
<1>1. CASE Asking
  <2> PICK c \in Calls, step \in CallSteps, v \in Users, k \in Keys \cup {None},
           pw \in Passwords \cup {None} :
        /\ Ask(c, step, v, k, pw)
        /\ step \in {"create", "start", "scramble", "set"}
    BY <1>1 DEF Asking
  <2>1. /\ call'[c] = [at |-> step, user |-> v, key |-> k, password |-> pw]
        /\ \A d \in Calls : d # c => call'[d] = call[d]
        /\ UNCHANGED <<account, password, sessions, drawn, overlap, entered, unrotated>>
    BY Asks
  <2>2. SessionsOf(u)' = SessionsOf(u) /\ Renewing(u)' \subseteq Renewing(u)
    BY <2>1 DEF SessionsOf, Renewing
  <2> QED
    BY <1>0, <2>1, <2>2, RoomStays
<1>2. ASSUME NEW c \in Calls, NEW k \in Keys, StartSession(c, k)
      PROVE  RoomFor(u)'
  <2> DEFINE v == call[c].user
             new == [key |-> k, user |-> v, expired |-> FALSE]
  <2>1. v \in Users /\ GoOn(c, "idle") /\ "idle" \in CallSteps
    BY <1>2 DEF CallsSound, StartSession, CallSteps
  <2>2. call'[c].at = "idle" /\ \A d \in Calls : d # c => call'[d] = call[d]
    BY <2>1, GoesOn
  <2>3. Renewing(u)' \subseteq Renewing(u)
    BY <2>2 DEF Renewing
  <2>4. /\ sessions' = sessions \cup {new} /\ k \notin drawn /\ unrotated' = unrotated
        /\ entered' = [entered EXCEPT ![v] = @ + 1]
    BY <1>2 DEF StartSession, NewSession
  <2>5. CASE u # v
    <3>1. SessionsOf(u)' \subseteq SessionsOf(u)
      BY <2>4, <2>5 DEF SessionsOf
    <3>2. entered'[u] = entered[u]
      BY <2>1, <2>4, <2>5 DEF AccountsOK
    <3> QED
      BY <1>0, <2>3, <2>4, <3>1, <3>2, RoomStays
  <2>6. CASE u = v
    <3>1. SessionsOf(u)' = SessionsOf(u) \cup {new}
      BY <2>4, <2>6 DEF SessionsOf
    <3>2. new \notin SessionsOf(u)
      BY <2>4 DEF SessionsOf, AccountsOK
    <3>3. /\ IsFiniteSet(SessionsOf(u)')
          /\ Cardinality(SessionsOf(u)') = Cardinality(SessionsOf(u)) + 1
      BY <1>0, <3>1, <3>2, FS_AddElement DEF RoomFor
    <3>4. IsFiniteSet(Renewing(u)') /\ Cardinality(Renewing(u)') <= Cardinality(Renewing(u))
      BY <1>0, <2>3, FS_Subset DEF RoomFor
    <3>5. entered'[u] = entered[u] + 1 /\ entered[u] \in Nat
      BY <2>4, <2>6 DEF AccountsOK
    <3>6. /\ Cardinality(SessionsOf(u)) \in Nat /\ Cardinality(Renewing(u)) \in Nat
          /\ Cardinality(Renewing(u)') \in Nat
      BY <1>0, <3>4, FS_CardinalityType DEF RoomFor
    <3> QED
      BY <1>0, <2>4, <3>3, <3>4, <3>5, <3>6 DEF RoomFor
  <2> QED
    BY <2>5, <2>6
<1>3. ASSUME NEW c \in Calls, NEW k \in Keys, RenewSession(c, k)
      PROVE  RoomFor(u)'
  <2> DEFINE v == call[c].user
             new == [key |-> k, user |-> v, expired |-> FALSE]
  <2>1. v \in Users /\ GoOn(c, "idle") /\ "idle" \in CallSteps /\ call[c].at = "renew"
    BY <1>3 DEF CallsSound, RenewSession, CallSteps
  <2>2. call'[c].at = "idle" /\ \A d \in Calls : d # c => call'[d] = call[d]
    BY <2>1, GoesOn
  <2>3. /\ sessions' = sessions \cup {new} /\ k \notin drawn /\ unrotated' = unrotated
        /\ entered' = entered
    BY <1>3 DEF RenewSession, NewSession
  <2>4. CASE u # v
    <3>1. SessionsOf(u)' \subseteq SessionsOf(u) /\ Renewing(u)' \subseteq Renewing(u)
      BY <2>2, <2>3, <2>4 DEF SessionsOf, Renewing
    <3> QED
      BY <1>0, <2>3, <3>1, RoomStays
  <2>5. CASE u = v
    <3>1. SessionsOf(u)' = SessionsOf(u) \cup {new}
      BY <2>3, <2>5 DEF SessionsOf
    <3>2. new \notin SessionsOf(u)
      BY <2>3 DEF SessionsOf, AccountsOK
    <3>3. /\ IsFiniteSet(SessionsOf(u)')
          /\ Cardinality(SessionsOf(u)') = Cardinality(SessionsOf(u)) + 1
      BY <1>0, <3>1, <3>2, FS_AddElement DEF RoomFor
    <3>4. c \in Renewing(u) /\ Renewing(u)' = Renewing(u) \ {c}
      BY <2>1, <2>2, <2>5 DEF Renewing
    <3>5. IsFiniteSet(Renewing(u)') /\ Cardinality(Renewing(u)') = Cardinality(Renewing(u)) - 1
      BY <1>0, <3>4, FS_RemoveElement DEF RoomFor
    <3>6. Cardinality(SessionsOf(u)) \in Nat /\ Cardinality(Renewing(u)) \in Nat
      BY <1>0, FS_CardinalityType DEF RoomFor
    <3> QED
      BY <1>0, <2>3, <3>3, <3>5, <3>6 DEF RoomFor
  <2> QED
    BY <2>4, <2>5
<1>4. ASSUME NEW c \in Calls, CreateUser(c) \/ Scramble(c) \/ ForgetSessions(c) \/ SetPassword(c)
      PROVE  RoomFor(u)'
  <2>1. PICK step \in CallSteps : GoOn(c, step) /\ step # "renew"
    BY <1>4 DEF CreateUser, Scramble, ForgetSessions, SetPassword, CallSteps
  <2>2. call'[c].at = step /\ \A d \in Calls : d # c => call'[d] = call[d]
    BY <2>1, GoesOn
  <2>3. Renewing(u)' \subseteq Renewing(u)
    BY <2>1, <2>2 DEF Renewing
  <2>4. sessions' \subseteq sessions /\ unrotated' = unrotated /\ entered' = entered
    BY <1>4 DEF CreateUser, Scramble, ForgetSessions, SetPassword
  <2>5. SessionsOf(u)' \subseteq SessionsOf(u)
    BY <2>4 DEF SessionsOf
  <2> QED
    BY <1>0, <2>3, <2>4, <2>5, RoomStays
<1>5. ASSUME NEW c \in Calls, DropSession(c) \/ CallFails(c)
      PROVE  RoomFor(u)'
  <2> DEFINE v == call[c].user
             old == SessionsWith(call[c].key)
  <2>1. PICK step \in CallSteps : /\ GoOn(c, step) /\ (step = "renew" <=> call[c].at = "drop")
                                  /\ v \in Users
    BY <1>5 DEF DropSession, CallFails, CallSteps, CallsSound
  <2>2. /\ call'[c].at = step /\ (step # "idle" => call'[c].user = v)
        /\ \A d \in Calls : d # c => call'[d] = call[d]
    BY <2>1, GoesOn
  <2>3. /\ sessions' \subseteq sessions /\ entered' = entered /\ unrotated \subseteq unrotated'
        /\ call[c].at = "drop" /\ v \notin unrotated' => old # {} /\ sessions' = sessions \ old
    BY <1>5 DEF DropSession, CallFails
  <2>4. SessionsOf(u)' \subseteq SessionsOf(u)
    BY <2>3 DEF SessionsOf
  <2>5. CASE u # v \/ call[c].at # "drop"
    <3>1. Renewing(u)' \subseteq Renewing(u)
      BY <2>1, <2>2, <2>5 DEF Renewing
    <3> QED
      BY <1>0, <2>3, <2>4, <3>1, RoomStays
  <2>6. CASE u = v /\ call[c].at = "drop"
    <3>1. c \notin Renewing(u) /\ Renewing(u)' = Renewing(u) \cup {c}
      BY <2>1, <2>2, <2>6 DEF Renewing
    <3>2. IsFiniteSet(Renewing(u)') /\ Cardinality(Renewing(u)') = Cardinality(Renewing(u)) + 1
      BY <1>0, <3>1, FS_AddElement DEF RoomFor
    <3>3. IsFiniteSet(SessionsOf(u)')
      BY <1>0, <2>4, FS_Subset DEF RoomFor
    <3>4. ASSUME u \notin unrotated'
          PROVE  Cardinality(SessionsOf(u)') <= Cardinality(SessionsOf(u)) - 1
      <4>1. PICK s \in sessions : s.key = call[c].key
        BY <2>3, <2>6, <3>4 DEF SessionsWith
      <4>2. s \in SessionsOf(u) /\ s \notin SessionsOf(u)'
        BY <2>3, <2>6, <3>4, <4>1 DEF SessionsOf, SessionsWith, CallsSound
      <4>3. SessionsOf(u)' \subseteq SessionsOf(u) \ {s}
        BY <2>4, <4>2
      <4>4. /\ IsFiniteSet(SessionsOf(u) \ {s})
            /\ Cardinality(SessionsOf(u) \ {s}) = Cardinality(SessionsOf(u)) - 1
        BY <1>0, <4>2, FS_RemoveElement DEF RoomFor
      <4> QED
        BY <4>3, <4>4, FS_Subset
    <3>5. /\ Cardinality(SessionsOf(u)) \in Nat /\ Cardinality(Renewing(u)) \in Nat
          /\ Cardinality(SessionsOf(u)') \in Nat /\ entered[u] \in Nat
      BY <1>0, <3>3, FS_CardinalityType DEF RoomFor, AccountsOK
    <3> QED
      BY <1>0, <2>3, <3>2, <3>3, <3>4, <3>5 DEF RoomFor
  <2> QED
    BY <2>5, <2>6
<1>6. CASE \E k \in Keys : SignOut(k)
  <2>1. sessions' \subseteq sessions /\ UNCHANGED <<call, entered, unrotated>>
    BY <1>6 DEF SignOut
  <2>2. SessionsOf(u)' \subseteq SessionsOf(u) /\ Renewing(u)' = Renewing(u)
    BY <2>1 DEF SessionsOf, Renewing
  <2> QED
    BY <1>0, <2>1, <2>2, RoomStays
<1>7. ASSUME NEW s \in sessions, Expire(s)
      PROVE  RoomFor(u)'
  <2> DEFINE over == [s EXCEPT !.expired = TRUE]
  <2>1. /\ sessions' = (sessions \ {s}) \cup {over} /\ ~s.expired
        /\ UNCHANGED <<call, entered, unrotated>>
    BY <1>7 DEF Expire
  <2>2. over.key = s.key /\ over.user = s.user /\ over.expired
    BY DEF AccountsOK, Session
  <2>3. over \notin sessions
    BY <2>1, <2>2 DEF AccountsOK
  <2>4. Renewing(u)' = Renewing(u)
    BY <2>1 DEF Renewing
  <2> HIDE DEF over
  <2>5. CASE s.user # u
    <3>1. SessionsOf(u)' = SessionsOf(u)
      BY <2>1, <2>2, <2>5 DEF SessionsOf
    <3> QED
      BY <1>0, <2>1, <2>4, <3>1, RoomStays
  <2>6. CASE s.user = u
    <3>1. s \in SessionsOf(u) /\ SessionsOf(u)' = (SessionsOf(u) \ {s}) \cup {over}
      BY <2>1, <2>2, <2>6 DEF SessionsOf
    <3>2. /\ IsFiniteSet(SessionsOf(u) \ {s}) /\ over \notin SessionsOf(u) \ {s}
          /\ Cardinality(SessionsOf(u) \ {s}) = Cardinality(SessionsOf(u)) - 1
      BY <1>0, <2>3, <3>1, FS_RemoveElement DEF RoomFor, SessionsOf
    <3>3. /\ IsFiniteSet(SessionsOf(u)')
          /\ Cardinality(SessionsOf(u)') = Cardinality(SessionsOf(u)) - 1 + 1
      BY <3>1, <3>2, FS_AddElement
    <3>4. Cardinality(SessionsOf(u)) \in Nat
      BY <1>0, FS_CardinalityType DEF RoomFor
    <3> QED
      BY <1>0, <2>1, <2>4, <3>3, <3>4 DEF RoomFor
  <2> QED
    BY <2>5, <2>6
<1> QED
  BY <1>1, <1>2, <1>3, <1>4, <1>5, <1>6, <1>7, AccountSteps

\* Scramble sees who is underway, and nobody sets out for a deactivated account: its
\* password is no password.
LEMMA NobodyKept ==
  ASSUME AccountsOK, CallsSound, NobodyUnderway, AccountsNext
  PROVE  NobodyUnderway'
<1> SUFFICES ASSUME NEW u \in Users, u \notin overlap', account'[u] = "inactive"
             PROVE  /\ password'[u] = Scrambled
                    /\ \A c \in Calls : call'[c].user = u =>
                         call'[c].at \notin {"start", "set", "drop", "renew"}
                    /\ (\A c \in Calls : ~(call'[c].user = u /\ call'[c].at = "forget"))
                       => SessionsOf(u)' = {}
  BY DEF NobodyUnderway, LeftAlone
<1>0. LeftAlone(u)
  BY DEF NobodyUnderway
<1>1. CASE Asking
  <2> PICK c \in Calls, step \in CallSteps, v \in Users, k \in Keys \cup {None},
           pw \in Passwords \cup {None} :
        /\ Ask(c, step, v, k, pw)
        /\ step \in {"create", "start", "scramble", "set"}
        /\ step \in {"start", "set"} => password[v] \in Passwords
    BY <1>1 DEF Asking
  <2>1. /\ call'[c] = [at |-> step, user |-> v, key |-> k, password |-> pw]
        /\ \A d \in Calls : d # c => call'[d] = call[d]
        /\ call[c].at = "idle"
        /\ UNCHANGED <<account, password, sessions, drawn, overlap, entered, unrotated>>
    BY Asks
  <2>2. SessionsOf(u)' = SessionsOf(u)
    BY <2>1 DEF SessionsOf
  <2> QED
    BY <1>0, <2>1, <2>2, AccountSets DEF LeftAlone
<1>2. ASSUME NEW c \in Calls, NEW k \in Keys, StartSession(c, k) \/ RenewSession(c, k)
      PROVE  LeftAlone(u)'
  <2> DEFINE v == call[c].user
             new == [key |-> k, user |-> v, expired |-> FALSE]
  <2>1. GoOn(c, "idle") /\ "idle" \in CallSteps /\ call[c].at \in {"start", "renew"}
    BY <1>2 DEF StartSession, RenewSession, CallSteps
  <2>2. call'[c].at = "idle" /\ \A d \in Calls : d # c => call'[d] = call[d]
    BY <2>1, GoesOn
  <2>3. sessions' = sessions \cup {new} /\ UNCHANGED <<account, password, overlap>>
    BY <1>2 DEF StartSession, RenewSession, NewSession
  <2>4. u # v
    BY <1>0, <2>1, <2>3 DEF LeftAlone
  <2>5. SessionsOf(u)' = SessionsOf(u)
    BY <2>3, <2>4 DEF SessionsOf
  <2> QED
    BY <1>0, <2>1, <2>2, <2>3, <2>5 DEF LeftAlone
<1>3. ASSUME NEW c \in Calls, \/ CreateUser(c) \/ Scramble(c) \/ ForgetSessions(c)
                             \/ SetPassword(c) \/ DropSession(c) \/ CallFails(c)
      PROVE  LeftAlone(u)'
  <2> DEFINE v == call[c].user
  <2>1. PICK step \in CallSteps : GoOn(c, step)
    BY <1>3 DEF CreateUser, Scramble, ForgetSessions, SetPassword, DropSession, CallFails,
       CallSteps
  <2>2. /\ call'[c].at = step
        /\ step # "idle" => call'[c].user = v
        /\ \A d \in Calls : d # c => call'[d] = call[d]
    BY <2>1, GoesOn
  <2>3. overlap \subseteq overlap' /\ sessions' \subseteq sessions /\ v \in Users
    BY <1>3 DEF CallsSound, CreateUser, Scramble, ForgetSessions, SetPassword, DropSession,
       CallFails
  <2>4. SessionsOf(u)' \subseteq SessionsOf(u)
    BY <2>3 DEF SessionsOf
  <2>5. CASE u # v
    <3>1. account'[u] = account[u] /\ password'[u] = password[u]
      BY <1>3, <2>5 DEF CreateUser, Scramble, ForgetSessions, SetPassword, DropSession,
         CallFails, AccountsOK
    <3> QED
      BY <1>0, <2>2, <2>3, <2>4, <2>5, <3>1 DEF LeftAlone
  <2>6. CASE u = v /\ account[u] # "inactive"
    <3>1. Scramble(c)
      BY <1>3, <2>3, <2>6 DEF CreateUser, ForgetSessions, SetPassword, DropSession, CallFails,
         AccountsOK
    <3>2. password'[u] = Scrambled /\ call'[c].at = "forget" /\ call'[c].user = u
      BY <2>2, <2>3, <2>6, <3>1, GoesOn DEF Scramble, AccountsOK, CallSteps
    <3>3. Underway(u) = {}
      BY <2>6, <3>1 DEF Scramble
    <3> QED
      BY <2>2, <3>2, <3>3 DEF LeftAlone, Underway
  <2>7. CASE u = v /\ account[u] = "inactive"
    <3>1. call[c].at \notin {"start", "set", "drop", "renew"}
      BY <1>0, <2>3, <2>7 DEF LeftAlone
    <3>2. CASE Scramble(c)
      <4>1. password'[u] = Scrambled /\ call'[c].at = "forget" /\ call'[c].user = u
        BY <2>2, <2>3, <2>7, <3>2, GoesOn DEF Scramble, AccountsOK, CallSteps
      <4> QED
        BY <1>0, <2>2, <2>3, <2>7, <4>1 DEF LeftAlone
    <3>3. CASE ForgetSessions(c)
      <4>1. SessionsOf(u)' = {} /\ password' = password /\ GoOn(c, "idle") /\ "idle" \in CallSteps
        BY <2>7, <3>3 DEF ForgetSessions, SessionsOf, CallSteps
      <4>2. call'[c].at = "idle"
        BY <4>1, GoesOn
      <4> QED
        BY <1>0, <2>2, <2>3, <2>7, <4>1, <4>2 DEF LeftAlone
    <3>4. CASE CreateUser(c) \/ CallFails(c)
      <4>1. /\ GoOn(c, "idle") /\ "idle" \in CallSteps /\ password' = password
            /\ call[c].at # "forget"
        BY <2>7, <3>1, <3>4 DEF CreateUser, CallFails, CallSteps
      <4>2. call'[c].at = "idle"
        BY <4>1, GoesOn
      <4> QED
        BY <1>0, <2>2, <2>3, <2>4, <2>7, <4>1, <4>2 DEF LeftAlone
    <3> QED
      BY <1>3, <3>1, <3>2, <3>3, <3>4 DEF SetPassword, DropSession
  <2> QED
    BY <2>5, <2>6, <2>7
<1>4. CASE \/ \E k \in Keys : SignOut(k)
           \/ \E s \in sessions : Expire(s)
  <2>1. UNCHANGED <<account, password, call, overlap>>
    BY <1>4 DEF SignOut, Expire
  <2>2. \A s \in sessions' : \E o \in sessions : s.user = o.user
    <3>1. ASSUME NEW s \in sessions, Expire(s)
          PROVE  \A t \in sessions' : \E o \in sessions : t.user = o.user
      <4>1. [s EXCEPT !.expired = TRUE].user = s.user
        BY DEF AccountsOK, Session
      <4> QED
        BY <3>1, <4>1 DEF Expire
    <3> QED
      BY <1>4, <3>1 DEF SignOut
  <2>3. SessionsOf(u) = {} => SessionsOf(u)' = {}
    BY <2>2 DEF SessionsOf
  <2> QED
    BY <1>0, <2>1, <2>3 DEF LeftAlone
<1>5. CASE LeftAlone(u)'
  BY <1>5 DEF LeftAlone
<1> QED
  BY <1>1, <1>2, <1>3, <1>4, <1>5, AccountSteps

\* What every step of an account keeps, and with it every step of the specification.
LEMMA AccountsInductive == AInv /\ [AccountsNext]_accountVars => AInv'
<1> SUFFICES ASSUME AInv, [AccountsNext]_accountVars PROVE AInv'
  OBVIOUS
<1> USE DEF AInv
<1>1. CASE AccountsNext
  BY <1>1, AccountsKept, RoomKept, NobodyKept
<1>2. CASE UNCHANGED accountVars
  BY <1>2 DEF accountVars, AccountsOK, CallsSound, RoomToRenew, RoomFor, SessionsOf, Renewing,
     NobodyUnderway, LeftAlone
<1> QED
  BY <1>1, <1>2

-----------------------------------------------------------------------------
(* Workspaces, invitations and projects.                                   *)

AskedOK == asked \in [Projects -> [on : SUBSET Switches, role : [Users -> Roles \cup {NoRole}]]]

\* What a request has read, as far as its next statement relies on it.
Sound(r) == LET q == req[r] IN
  /\ q.at # "idle" => q.user \in Users
  /\ q.at \in {"create workspace", "seat", "join", "create project"} => q.ws \in Workspaces
  /\ q.at = "seat" => owner[q.ws] = q.user
  /\ q.at \in {"join", "mark"} =>
       q.id \in Invites /\ invite[q.id] # NoInvite
  /\ q.at = "join" => q.ws = invite[q.id].ws /\ q.role = invite[q.id].role
  /\ q.at = "mark" /\ q.id \notin botched => seat[invite[q.id].ws][q.user] # NoRole
  /\ q.at \in {"create project", "lead", "seed", "switch", "enlist", "role", "keep role"} =>
       q.id \in Projects
  /\ q.at \in {"lead", "seed", "switch"} => project[q.id] # NoProject
  /\ q.at = "lead" => project[q.id].creator = q.user
  /\ q.at \in {"lead", "seed"} => project[q.id].states < DefaultStates
  /\ q.at = "switch" => q.switch \in Switches
  /\ q.at \in {"enlist", "role", "keep role"} => q.member \in Users /\ q.role \in Roles
RequestsSound == \A r \in Requests : Sound(r)

\* One request at most is creating a project.
OneCreator == \A q, r \in Requests :
  req[q].at \in {"lead", "seed"} /\ req[r].at \in {"lead", "seed"} /\ req[q].id = req[r].id => q = r

\* An invitation is to a workspace that exists.
InvitesSound == \A i \in Invites : invite[i] # NoInvite => owner[invite[i].ws] # None

\* CreatedWhole, while a request is still adding what is missing.
WorkspaceWhole(w) ==
  w \notin botched /\ owner[w] # None
    => \/ seat[w][owner[w]] = Admin
       \/ \E r \in Requests : req[r].at = "seat" /\ req[r].ws = w
ProjectWhole(p) ==
  p \notin botched /\ project[p] # NoProject
    => /\ \/ crew[p][project[p].creator] # NoRole
          \/ \E r \in Requests : req[r].at = "lead" /\ req[r].id = p
       /\ \/ project[p].states = DefaultStates
          \/ \E r \in Requests : req[r].at \in {"lead", "seed"} /\ req[r].id = p
AllWhole == (\A w \in Workspaces : WorkspaceWhole(w)) /\ (\A p \in Projects : ProjectWhole(p))

\* A PATCH that has been told of no other write knows the row as it is.
Fresh(r) == LET q == req[r] IN ~q.old =>
  /\ q.at = "switch" => q.on = With(project[q.id].on, q.switch, q.switch \in q.on)
  /\ q.at = "keep role" => q.role = crew[q.id][q.member]
AllFresh == \A r \in Requests : Fresh(r)

\* InvitesMatchSeats, one half each.
AcceptedSeated == \A i \in Invites :
  i \notin botched /\ invite[i] # NoInvite /\ invite[i].accepted =>
    \E u \in Users : <<i, u>> \in accepted /\ seat[invite[i].ws][u] # NoRole
SeatExplained(w, u) == seat[w][u] # NoRole =>
  \/ u = owner[w] /\ seat[w][u] = Admin
  \/ \E i \in Invites : invite[i].ws = w /\ invite[i].role = seat[w][u]
SeatsExplained == \A w \in Workspaces, u \in Users : SeatExplained(w, u)

IInv == /\ AInv /\ TypeOK /\ AskedOK
        /\ RequestsSound /\ OneCreator /\ InvitesSound
        /\ AllWhole /\ AcceptedSeated /\ SeatsExplained
        /\ AllFresh /\ AsLastAsked

LEMMA Start == Init => IInv
<1> SUFFICES ASSUME Init PROVE IInv
  OBVIOUS
<1>1. AInv
  BY AccountsStart DEF Init
<1>2. /\ Idle \in Request /\ Idle.at = "idle" /\ NoProject \in Project /\ NoInvite \in Invite
      /\ NoRoles \in [Users -> Roles \cup {NoRole}]
  BY DEF Idle, Request, Steps, Project, Invite, NoRoles
<1>3. TypeOK
  BY <1>1, <1>2 DEF TypeOK, AInv, Init, NoRoles
<1>4. AskedOK
  BY <1>2 DEF AskedOK, Init
<1>5. RequestsSound /\ OneCreator /\ InvitesSound /\ AllFresh
  BY <1>2 DEF Init, RequestsSound, Sound, OneCreator, InvitesSound, AllFresh, Fresh
<1>6. AllWhole
  BY DEF Init, AllWhole, WorkspaceWhole, ProjectWhole
<1>7. AcceptedSeated /\ SeatsExplained
  BY DEF Init, AcceptedSeated, SeatsExplained, SeatExplained, NoRoles
<1>8. AsLastAsked
  BY DEF Init, AsLastAsked, NoProject
<1> QED
  BY <1>1, <1>3, <1>4, <1>5, <1>6, <1>7, <1>8 DEF IInv

-----------------------------------------------------------------------------
(* What becomes of the requests in a step.                                 *)

\* Request d only learns, if anything, that what it has read is out of date.
Waits(d) == /\ req'[d].at = req[d].at /\ req'[d].user = req[d].user /\ req'[d].ws = req[d].ws
            /\ req'[d].id = req[d].id /\ req'[d].role = req[d].role /\ req'[d].on = req[d].on
            /\ req'[d].switch = req[d].switch /\ req'[d].member = req[d].member
            /\ req[d].old => req'[d].old

\* Request r is at step, with the locals it had.
MovesTo(r, step) ==
  /\ req' \in [Requests -> Request]
  /\ req'[r].at = step
  /\ step # "idle" => /\ req'[r].user = req[r].user /\ req'[r].ws = req[r].ws
                      /\ req'[r].id = req[r].id /\ req'[r].role = req[r].role
  /\ \A d \in Requests : d # r => Waits(d)

LEMMA Continues ==
  ASSUME TypeOK, NEW r \in Requests, NEW step \in Steps, Continue(r, step)
  PROVE  MovesTo(r, step) /\ \A d \in Requests : d # r => req'[d] = req[d]
<1>1. Idle \in Request /\ Idle.at = "idle"
  BY DEF Idle, Request, Steps
<1>2. req \in [Requests -> Request]
  BY DEF TypeOK
<1> DEFINE x == [req[r] EXCEPT !.at = step]
<1>3. /\ x \in Request /\ x.at = step /\ x.user = req[r].user /\ x.ws = req[r].ws
      /\ x.id = req[r].id /\ x.role = req[r].role
  BY <1>2 DEF Request
<1>4. req' = [req EXCEPT ![r] = IF step = "idle" THEN Idle ELSE x]
  BY DEF Continue
<1> HIDE DEF x
<1> QED
  BY <1>1, <1>2, <1>3, <1>4 DEF MovesTo, Waits

LEMMA Outdates ==
  ASSUME TypeOK, NEW r \in Requests, NEW step \in Steps, NEW p, Outdate(r, step, p)
  PROVE  MovesTo(r, step) /\ \A d \in Requests : d # r /\ req[d].id = p => req'[d].old
<1>1. Idle \in Request /\ Idle.at = "idle"
  BY DEF Idle, Request, Steps
<1>2. req \in [Requests -> Request]
  BY DEF TypeOK
<1> DEFINE x == [req[r] EXCEPT !.at = step]
           y(d) == [req[d] EXCEPT !.old = @ \/ req[d].id = p]
<1>3. /\ x \in Request /\ x.at = step /\ x.user = req[r].user /\ x.ws = req[r].ws
      /\ x.id = req[r].id /\ x.role = req[r].role
  BY <1>2 DEF Request
<1>4. ASSUME NEW d \in Requests
      PROVE  /\ y(d) \in Request /\ y(d).at = req[d].at /\ y(d).user = req[d].user
             /\ y(d).ws = req[d].ws /\ y(d).id = req[d].id /\ y(d).role = req[d].role
             /\ y(d).on = req[d].on /\ y(d).switch = req[d].switch /\ y(d).member = req[d].member
             /\ req[d].old => y(d).old
             /\ req[d].id = p => y(d).old
  <2>1. req[d] \in Request
    BY <1>2
  <2>2. (req[d].old \/ req[d].id = p) \in BOOLEAN
    OBVIOUS
  <2> QED
    BY <2>1, <2>2 DEF Request
<1>5. req' = [d \in Requests |-> IF d = r THEN (IF step = "idle" THEN Idle ELSE x) ELSE y(d)]
  BY DEF Outdate
<1> HIDE DEF x, y
<1> QED
  BY <1>1, <1>2, <1>3, <1>4, <1>5 DEF MovesTo, Waits

-----------------------------------------------------------------------------
(* Rows only ever gain.                                                    *)

Grown ==
  /\ \A w \in Workspaces : owner[w] # None => owner'[w] = owner[w]
  /\ \A w \in Workspaces, u \in Users : seat[w][u] # NoRole => seat'[w][u] = seat[w][u]
  /\ \A i \in Invites : invite[i] # NoInvite =>
       /\ invite'[i] # NoInvite
       /\ invite'[i].to = invite[i].to /\ invite'[i].ws = invite[i].ws
       /\ invite'[i].role = invite[i].role
  /\ \A p \in Projects : project[p] # NoProject =>
       project'[p] # NoProject /\ project'[p].creator = project[p].creator
  /\ botched \subseteq botched'

\* What request d relies on stays, when nobody else changes the number of states of
\* the project it is creating.
LEMMA OtherSound ==
  ASSUME TypeOK, RequestsSound, Grown, NEW d \in Requests, Waits(d),
         \A p \in Projects : project[p] # NoProject /\ project'[p].states # project[p].states
                             => ~(req[d].at \in {"lead", "seed"} /\ req[d].id = p)
  PROVE  Sound(d)'
<1>1. Sound(d)
  BY DEF RequestsSound
<1>2. req[d].at = "mark" /\ req[d].id \notin botched => seat[invite[req[d].id].ws][req[d].user] # NoRole
  BY <1>1 DEF Sound
<1>3. req[d].at = "mark" => invite[req[d].id].ws \in Workspaces /\ req[d].user \in Users
  BY <1>1 DEF Sound, TypeOK, Invite
<1>4. req[d].at = "mark" /\ req[d].id \notin botched'
      => seat'[invite'[req[d].id].ws][req[d].user] # NoRole
  BY <1>1, <1>2, <1>3 DEF Grown, Sound
<1>5. req[d].at = "seat" => owner'[req[d].ws] = req[d].user
  BY <1>1, MembershipSets DEF Sound, Grown
<1>6. req[d].at = "join" => /\ req[d].ws = invite'[req[d].id].ws
                            /\ req[d].role = invite'[req[d].id].role
  BY <1>1 DEF Sound, Grown
<1>7. req[d].at \in {"lead", "seed"} => project'[req[d].id].states < DefaultStates
  BY <1>1 DEF Sound
<1>8. req[d].at \in {"join", "mark"} => req[d].id \in Invites /\ invite'[req[d].id] # NoInvite
  BY <1>1 DEF Sound, Grown
<1>9. /\ req[d].at \in {"lead", "seed", "switch"} => project'[req[d].id] # NoProject
      /\ req[d].at = "lead" => project'[req[d].id].creator = req[d].user
  BY <1>1 DEF Sound, Grown
<1> DEFINE before == req[d]
           after == req'[d]
<1>10. /\ after.at = before.at /\ after.user = before.user /\ after.ws = before.ws
       /\ after.id = before.id /\ after.role = before.role /\ after.on = before.on
       /\ after.switch = before.switch /\ after.member = before.member
  BY DEF Waits
<1>11. /\ after.at # "idle" => after.user \in Users
       /\ after.at \in {"create workspace", "seat", "join", "create project"} =>
            after.ws \in Workspaces
       /\ after.at \in {"create project", "lead", "seed", "switch", "enlist", "role",
                        "keep role"} => after.id \in Projects
       /\ after.at = "switch" => after.switch \in Switches
       /\ after.at \in {"enlist", "role", "keep role"} =>
            after.member \in Users /\ after.role \in Roles
  BY <1>1, <1>10 DEF Sound
<1> QED
  BY <1>4, <1>5, <1>6, <1>7, <1>8, <1>9, <1>10, <1>11 DEF Sound

\* So does what a PATCH has read.
LEMMA OtherFresh ==
  ASSUME RequestsSound, AllFresh, NEW d \in Requests, Waits(d),
         req[d].id \in Projects /\ ~req'[d].old =>
           project'[req[d].id].on = project[req[d].id].on /\ crew'[req[d].id] = crew[req[d].id]
  PROVE  Fresh(d)'
<1>1. Fresh(d) /\ (req[d].at \in {"switch", "keep role"} => req[d].id \in Projects)
  BY DEF AllFresh, RequestsSound, Sound
<1> QED
  BY <1>1 DEF Fresh, Waits, With

LEMMA OtherWorkspaces ==
  ASSUME TypeOK, Grown, NEW w \in Workspaces, WorkspaceWhole(w), owner'[w] = owner[w],
         w \notin botched' =>
           \A d \in Requests : req[d].at = "seat" /\ req[d].ws = w => Waits(d)
  PROVE  WorkspaceWhole(w)'
<1> SUFFICES ASSUME w \notin botched', owner[w] # None
             PROVE  \/ seat'[w][owner[w]] = Admin
                    \/ \E d \in Requests : req'[d].at = "seat" /\ req'[d].ws = w
  BY DEF WorkspaceWhole
<1>1. owner[w] \in Users /\ w \notin botched
  BY DEF TypeOK, Grown
<1>2. CASE seat[w][owner[w]] = Admin
  BY <1>1, <1>2 DEF Grown, Admin, NoRole
<1>3. CASE \E d \in Requests : req[d].at = "seat" /\ req[d].ws = w
  BY <1>3 DEF Waits
<1> QED
  BY <1>1, <1>2, <1>3 DEF WorkspaceWhole

LEMMA OtherProjects ==
  ASSUME TypeOK, NEW p \in Projects, ProjectWhole(p), botched \subseteq botched',
         project'[p] # NoProject => /\ project[p] # NoProject
                                    /\ project'[p].creator = project[p].creator
                                    /\ project'[p].states = project[p].states,
         \A u \in Users : crew[p][u] # NoRole => crew'[p][u] # NoRole,
         p \notin botched' =>
           \A d \in Requests : req[d].at \in {"lead", "seed"} /\ req[d].id = p => Waits(d)
  PROVE  ProjectWhole(p)'
<1> SUFFICES ASSUME p \notin botched', project'[p] # NoProject
             PROVE  /\ \/ crew'[p][project[p].creator] # NoRole
                       \/ \E d \in Requests : req'[d].at = "lead" /\ req'[d].id = p
                    /\ \/ project[p].states = DefaultStates
                       \/ \E d \in Requests : req'[d].at \in {"lead", "seed"} /\ req'[d].id = p
  BY DEF ProjectWhole
<1>1. project[p].creator \in Users
  BY DEF TypeOK, Project
<1>2. crew[p][project[p].creator] # NoRole => crew'[p][project[p].creator] # NoRole
  BY <1>1
<1>3. \A d \in Requests : req[d].at \in {"lead", "seed"} /\ req[d].id = p =>
        req'[d].at = req[d].at /\ req'[d].id = p
  BY DEF Waits
<1> QED
  BY <1>2, <1>3 DEF ProjectWhole

LEMMA AccountsAlone == ASSUME AInv, UNCHANGED accountVars PROVE AInv' /\ AccountsOK'
BY AccountsInductive DEF AInv

-----------------------------------------------------------------------------
(* Steps of the rows that nothing else changes: the start of a handler.    *)

Beginnings == {"create workspace", "join", "create project", "switch", "enlist", "role",
               "keep role"}

\* A request that nothing has touched.
LEMMA SoundStays ==
  ASSUME NEW d, Sound(d), req'[d] = req[d],
         owner' = owner, seat' = seat, invite' = invite, project' = project, crew' = crew,
         botched' = botched
  PROVE  Sound(d)'
<1> DEFINE q == req[d]
           t == req'[d]
<1>1. t = q
  OBVIOUS
<1>2. /\ q.at # "idle" => q.user \in Users
      /\ q.at \in {"create workspace", "seat", "join", "create project"} => q.ws \in Workspaces
      /\ q.at = "seat" => owner[q.ws] = q.user
      /\ q.at \in {"join", "mark"} => q.id \in Invites /\ invite[q.id] # NoInvite
      /\ q.at = "join" => q.ws = invite[q.id].ws /\ q.role = invite[q.id].role
      /\ q.at = "mark" /\ q.id \notin botched => seat[invite[q.id].ws][q.user] # NoRole
  BY DEF Sound
<1>3. /\ q.at \in {"create project", "lead", "seed", "switch", "enlist", "role", "keep role"} =>
           q.id \in Projects
      /\ q.at \in {"lead", "seed", "switch"} => project[q.id] # NoProject
      /\ q.at = "lead" => project[q.id].creator = q.user
      /\ q.at \in {"lead", "seed"} => project[q.id].states < DefaultStates
      /\ q.at = "switch" => q.switch \in Switches
      /\ q.at \in {"enlist", "role", "keep role"} => q.member \in Users /\ q.role \in Roles
  BY DEF Sound
<1> HIDE DEF q, t
<1>4. /\ t.at # "idle" => t.user \in Users
      /\ t.at \in {"create workspace", "seat", "join", "create project"} => t.ws \in Workspaces
      /\ t.at = "seat" => owner'[t.ws] = t.user
      /\ t.at \in {"join", "mark"} => t.id \in Invites /\ invite'[t.id] # NoInvite
      /\ t.at = "join" => t.ws = invite'[t.id].ws /\ t.role = invite'[t.id].role
      /\ t.at = "mark" /\ t.id \notin botched' => seat'[invite'[t.id].ws][t.user] # NoRole
  BY <1>1, <1>2
<1>5. /\ t.at \in {"create project", "lead", "seed", "switch", "enlist", "role", "keep role"} =>
           t.id \in Projects
      /\ t.at \in {"lead", "seed", "switch"} => project'[t.id] # NoProject
      /\ t.at = "lead" => project'[t.id].creator = t.user
      /\ t.at \in {"lead", "seed"} => project'[t.id].states < DefaultStates
      /\ t.at = "switch" => t.switch \in Switches
      /\ t.at \in {"enlist", "role", "keep role"} => t.member \in Users /\ t.role \in Roles
  BY <1>1, <1>3
<1> QED
  BY <1>4, <1>5 DEF Sound, t

LEMMA ExplainedStays ==
  ASSUME SeatsExplained, owner' = owner, seat' = seat, invite' = invite
  PROVE  SeatsExplained'
<1> SUFFICES ASSUME NEW w \in Workspaces, NEW u \in Users PROVE SeatExplained(w, u)'
  BY DEF SeatsExplained
<1>1. SeatExplained(w, u)
  BY DEF SeatsExplained
<1> QED
  BY <1>1 DEF SeatExplained

\* What was last asked for, when only one project is written.
LEMMA AskedStays ==
  ASSUME AsLastAsked, NEW p \in Projects, doubtful \subseteq doubtful',
         \A o \in Projects : o # p => /\ project'[o].on = project[o].on
                                    /\ crew'[o] = crew[o] /\ asked'[o] = asked[o],
         p \notin doubtful' => project'[p].on = asked'[p].on /\ crew'[p] = asked'[p].role
  PROVE  AsLastAsked'
BY DEF AsLastAsked

LEMMA BeginKeeps ==
  ASSUME IInv, NEW r \in Requests, NEW u \in Users, NEW step \in Beginnings,
         NEW more \in Request, Begin(r, step, u, more),
         step \in {"create workspace", "join", "create project"} => more.ws \in Workspaces,
         step = "join" => /\ more.id \in Invites /\ invite[more.id] # NoInvite
                          /\ more.ws = invite[more.id].ws /\ more.role = invite[more.id].role,
         step \in Beginnings \ {"create workspace", "join"} => more.id \in Projects,
         step = "switch" => /\ project[more.id] # NoProject /\ more.switch \in Switches
                            /\ \E value \in BOOLEAN :
                                 more.on = With(project[more.id].on, more.switch, value),
         step \in {"enlist", "role", "keep role"} => more.member \in Users /\ more.role \in Roles,
         step = "keep role" => more.role = crew[more.id][more.member]
  PROVE  IInv'
<1> DEFINE x == [more EXCEPT !.at = step, !.user = u]
<1>0. TypeOK /\ AInv
  BY DEF IInv
<1>1. /\ x \in Request /\ x.at = step /\ x.user = u /\ x.ws = more.ws /\ x.id = more.id
      /\ x.role = more.role /\ x.on = more.on /\ x.switch = more.switch
      /\ x.member = more.member
  <2>1. step \in Steps
    BY DEF Beginnings, Steps
  <2> QED
    BY <2>1 DEF Request
<1>2. /\ req[r] = Idle /\ req' = [req EXCEPT ![r] = x]
      /\ UNCHANGED accountVars
      /\ owner' = owner /\ seat' = seat /\ invite' = invite /\ project' = project /\ crew' = crew
      /\ botched' = botched /\ accepted' = accepted /\ asked' = asked /\ doubtful' = doubtful
  BY DEF Begin, memberRows, histories
<1>3. req[r].at = "idle" /\ req \in [Requests -> Request]
  <2>1. Idle.at = "idle"
    BY DEF Idle
  <2> QED
    BY <1>0, <1>2, <2>1 DEF TypeOK
<1> HIDE DEF x
<1>4. /\ req' \in [Requests -> Request] /\ req'[r] = x
      /\ \A d \in Requests : d # r => req'[d] = req[d]
  BY <1>1, <1>2, <1>3
<1>5. AInv' /\ AccountsOK'
  BY <1>0, <1>2, AccountsAlone
<1>6. TypeOK'
  BY <1>0, <1>2, <1>4, <1>5 DEF TypeOK
<1>7. AskedOK' /\ InvitesSound' /\ AcceptedSeated' /\ SeatsExplained' /\ AsLastAsked'
  <2>1. AskedOK' /\ InvitesSound' /\ AsLastAsked'
    BY <1>2 DEF IInv, AskedOK, InvitesSound, AsLastAsked
  <2>2. AcceptedSeated'
    BY <1>2 DEF IInv, AcceptedSeated
  <2>3. SeatsExplained'
    BY <1>2, ExplainedStays DEF IInv
  <2> QED
    BY <2>1, <2>2, <2>3
<1>8. Sound(r)'
  BY <1>1, <1>2, <1>4 DEF Sound, Beginnings
<1>9. ASSUME NEW d \in Requests, d # r PROVE Sound(d)'
  <2>1. Sound(d) /\ req'[d] = req[d]
    BY <1>4, <1>9 DEF IInv, RequestsSound
  <2> QED
    BY <1>2, <2>1, SoundStays
<1>10. Fresh(r)'
  <2>1. step = "switch" =>
          more.on = With(project[more.id].on, more.switch, more.switch \in more.on)
    BY DEF With
  <2> QED
    BY <1>1, <1>2, <1>4, <2>1 DEF Fresh, With
<1>11. \A d \in Requests : d # r => Fresh(d)'
  BY <1>2, <1>4 DEF IInv, AllFresh, Fresh
<1>12. OneCreator'
  BY <1>1, <1>4 DEF IInv, OneCreator, Beginnings
<1>13. AllWhole'
  <2>1. \A d \in Requests : req[d].at # "idle" => req'[d] = req[d]
    BY <1>3, <1>4
  <2>2. \A w \in Workspaces : WorkspaceWhole(w)'
    BY <1>0, <1>2, <2>1, OtherWorkspaces DEF IInv, AllWhole, Waits, Grown
  <2>3. \A p \in Projects : ProjectWhole(p)'
    BY <1>0, <1>2, <2>1, OtherProjects DEF IInv, AllWhole, Waits
  <2> QED
    BY <2>2, <2>3 DEF AllWhole
<1> QED
  BY <1>5, <1>6, <1>7, <1>8, <1>9, <1>10, <1>11, <1>12, <1>13 DEF IInv, RequestsSound, AllFresh

\* Whoever has accepted an invitation keeps the seat.
LEMMA AcceptedStay ==
  ASSUME TypeOK, AcceptedSeated, Grown, accepted \subseteq accepted', NEW i \in Invites,
         i \notin botched', invite[i] # NoInvite, invite[i].accepted
  PROVE  \E u \in Users : <<i, u>> \in accepted' /\ seat'[invite'[i].ws][u] # NoRole
<1>1. PICK u \in Users : <<i, u>> \in accepted /\ seat[invite[i].ws][u] # NoRole
  BY DEF AcceptedSeated, Grown
<1>2. invite[i].ws \in Workspaces /\ invite'[i].ws = invite[i].ws
  BY DEF TypeOK, Invite, Grown
<1> QED
  BY <1>1, <1>2 DEF Grown

-----------------------------------------------------------------------------
(* The statements of a handler, and how it ends.                           *)

RowsOK ==
  /\ owner \in [Workspaces -> Users \cup {None}]
  /\ seat \in [Workspaces -> [Users -> Roles \cup {NoRole}]]
  /\ \A w \in Workspaces, u \in Users : seat[w][u] # NoRole => owner[w] # None
  /\ invite \in [Invites -> Invite]
  /\ project \in [Projects -> Project]
  /\ crew \in [Projects -> [Users -> Roles \cup {NoRole}]]
  /\ botched \subseteq Workspaces \cup Invites \cup Projects
  /\ accepted \subseteq Invites \X Users
  /\ doubtful \subseteq Projects

\* What is left to show for a statement of request r, which goes on at step.
LEMMA Statement ==
  ASSUME IInv, NEW r \in Requests, NEW step \in Steps, MovesTo(r, step), UNCHANGED accountVars,
         RowsOK', AskedOK', Grown, Sound(r)', Fresh(r)',
         \A p \in Projects : project[p] # NoProject /\ project'[p].states # project[p].states
                             => req[r].at \in {"lead", "seed"} /\ req[r].id = p,
         step \in {"lead", "seed"} =>
           \/ req[r].at \in {"lead", "seed"}
           \/ \A d \in Requests : ~(req[d].at \in {"lead", "seed"} /\ req[d].id = req[r].id),
         \A d \in Requests : d # r /\ req[d].id \in Projects /\ ~req'[d].old =>
           project'[req[d].id].on = project[req[d].id].on /\ crew'[req[d].id] = crew[req[d].id],
         InvitesSound', AllWhole', AcceptedSeated', SeatsExplained', AsLastAsked'
  PROVE  IInv'
<1>0. TypeOK /\ AInv /\ RequestsSound /\ OneCreator /\ AllFresh
  BY DEF IInv
<1>1. AInv' /\ AccountsOK'
  BY <1>0, AccountsAlone
<1>2. TypeOK'
  BY <1>1 DEF TypeOK, RowsOK, MovesTo
<1>3. RequestsSound'
  <2> SUFFICES ASSUME NEW d \in Requests, d # r PROVE Sound(d)'
    BY DEF RequestsSound
  <2>1. Waits(d)
    BY DEF MovesTo
  <2>2. \A p \in Projects : project[p] # NoProject /\ project'[p].states # project[p].states
          => ~(req[d].at \in {"lead", "seed"} /\ req[d].id = p)
    BY <1>0 DEF OneCreator
  <2> QED
    BY <1>0, <2>1, <2>2, OtherSound
<1>4. AllFresh'
  <2> SUFFICES ASSUME NEW d \in Requests, d # r PROVE Fresh(d)'
    BY DEF AllFresh
  <2>1. Waits(d)
    BY DEF MovesTo
  <2> QED
    BY <1>0, <2>1, OtherFresh
<1>5. OneCreator'
  <2> SUFFICES ASSUME NEW d \in Requests, d # r,
                      step \in {"lead", "seed"}, req[d].at \in {"lead", "seed"},
                      req[d].id = req[r].id
               PROVE  FALSE
    BY <1>0 DEF OneCreator, MovesTo, Waits
  <2> QED
    BY <1>0 DEF OneCreator
<1> QED
  BY <1>1, <1>2, <1>3, <1>4, <1>5 DEF IInv

\* Statements that leave the projects and their crews alone.
LEMMA WorkspaceStatement ==
  ASSUME IInv, NEW r \in Requests, NEW step \in Steps \ {"lead", "seed", "switch", "keep role"},
         MovesTo(r, step),
         UNCHANGED <<accountVars, project, crew, asked, doubtful>>,
         req[r].at \notin {"lead", "seed"},
         RowsOK', Grown, Sound(r)', InvitesSound', AcceptedSeated', SeatsExplained',
         \A w \in Workspaces : WorkspaceWhole(w)'
  PROVE  IInv'
<1>0. TypeOK
  BY DEF IInv
<1>1. AskedOK' /\ AsLastAsked'
  BY DEF IInv, AskedOK, AsLastAsked
<1>2. Fresh(r)'
  BY DEF Fresh, MovesTo
<1>3. \A d \in Requests : req[d].at \in {"lead", "seed"} => Waits(d)
  BY DEF MovesTo
<1>4. \A p \in Projects : ProjectWhole(p)'
  BY <1>0, <1>3, OtherProjects DEF IInv, AllWhole, Grown
<1>5. AllWhole'
  BY <1>4 DEF AllWhole
<1> QED
  BY <1>1, <1>2, <1>5, Statement

\* Statements that leave the workspaces and invitations alone.
LEMMA ProjectStatement ==
  ASSUME IInv, NEW r \in Requests, NEW step \in Steps \ {"seat", "join", "mark", "create workspace"},
         MovesTo(r, step),
         UNCHANGED <<accountVars, owner, seat, invite, accepted>>, botched' = botched,
         req[r].at # "seat",
         RowsOK', AskedOK', Sound(r)', Fresh(r)',
         \A p \in Projects : project[p] # NoProject =>
           project'[p] # NoProject /\ project'[p].creator = project[p].creator,
         \A p \in Projects : project[p] # NoProject /\ project'[p].states # project[p].states
                             => req[r].at \in {"lead", "seed"} /\ req[r].id = p,
         step \in {"lead", "seed"} =>
           \/ req[r].at \in {"lead", "seed"}
           \/ \A d \in Requests : ~(req[d].at \in {"lead", "seed"} /\ req[d].id = req[r].id),
         \A d \in Requests : d # r /\ req[d].id \in Projects /\ ~req'[d].old =>
           project'[req[d].id].on = project[req[d].id].on /\ crew'[req[d].id] = crew[req[d].id],
         \A p \in Projects : ProjectWhole(p)',
         AsLastAsked'
  PROVE  IInv'
<1>0. TypeOK
  BY DEF IInv
<1>1. Grown
  BY DEF Grown
<1>2. InvitesSound'
  BY DEF IInv, InvitesSound
<1>3. AcceptedSeated' /\ SeatsExplained'
  <2>1. AcceptedSeated'
    BY AcceptedStay, <1>0, <1>1 DEF IInv, AcceptedSeated
  <2>2. SeatsExplained'
    <3>1. owner' = owner /\ seat' = seat /\ invite' = invite
      OBVIOUS
    <3> QED
      BY <3>1, ExplainedStays DEF IInv
  <2> QED
    BY <2>1, <2>2
<1>4. \A d \in Requests : req[d].at = "seat" => Waits(d)
  BY DEF MovesTo
<1>5. \A w \in Workspaces : WorkspaceWhole(w)'
  BY <1>0, <1>1, <1>4, OtherWorkspaces DEF IInv, AllWhole
<1>6. AllWhole'
  BY <1>5 DEF AllWhole
<1> QED
  BY <1>1, <1>2, <1>3, <1>6, Statement

-----------------------------------------------------------------------------
(* The statements one by one.                                              *)

LEMMA CreateWorkspaceKeeps ==
  ASSUME IInv, NEW r \in Requests, CreateWorkspace(r)
  PROVE  IInv'
<1> DEFINE w == req[r].ws
<1>0. TypeOK /\ Sound(r) /\ req[r] \in Request
  BY DEF IInv, RequestsSound, TypeOK
<1>1. /\ req[r].at = "create workspace"
      /\ w \in Workspaces /\ req[r].user \in Users
      /\ UNCHANGED <<accountVars, seat, invite, project, crew, botched, accepted, asked, doubtful>>
  BY <1>0 DEF CreateWorkspace, At, Sound, histories
<1>2. PICK step \in {"idle", "seat"} :
        /\ Continue(r, step)
        /\ step = "seat" => owner[w] = None /\ owner' = [owner EXCEPT ![w] = req[r].user]
        /\ step = "idle" => owner' = owner
  BY DEF CreateWorkspace
<1>3. MovesTo(r, step) /\ step \in Steps \ {"lead", "seed", "switch", "keep role"}
  BY <1>0, <1>2, Continues DEF Steps
<1>4. /\ owner \in [Workspaces -> Users \cup {None}]
      /\ owner' \in [Workspaces -> Users \cup {None}]
      /\ \A v \in Workspaces : owner[v] # None => owner'[v] = owner[v]
      /\ step = "seat" => owner'[w] = req[r].user
  BY <1>0, <1>1, <1>2 DEF TypeOK
<1>5. RowsOK'
  BY <1>0, <1>1, <1>4 DEF RowsOK, TypeOK
<1>6. Grown
  BY <1>1, <1>4 DEF Grown
<1>7. Sound(r)'
  BY <1>1, <1>2, <1>3, <1>4 DEF Sound, MovesTo
<1>8. InvitesSound'
  <2>1. \A i \in Invites : invite[i] # NoInvite => invite[i].ws \in Workspaces
    BY <1>0 DEF TypeOK, Invite
  <2> QED
    BY <1>1, <1>4, <2>1 DEF IInv, InvitesSound
<1>9. AcceptedSeated' /\ SeatsExplained'
  <2>1. \A v \in Workspaces, u \in Users : seat[v][u] # NoRole => owner'[v] = owner[v]
    BY <1>0, <1>4 DEF TypeOK
  <2>2. AcceptedSeated'
    BY <1>0, <1>1, <1>6, AcceptedStay DEF IInv, AcceptedSeated
  <2>3. ASSUME NEW v \in Workspaces, NEW u \in Users PROVE SeatExplained(v, u)'
    <3>1. SeatExplained(v, u)
      BY DEF IInv, SeatsExplained
    <3> QED
      BY <1>1, <2>1, <3>1 DEF SeatExplained
  <2> QED
    BY <2>2, <2>3 DEF SeatsExplained
<1>10. \A v \in Workspaces : WorkspaceWhole(v)'
  <2> TAKE v \in Workspaces
  <2>1. CASE owner'[v] = owner[v]
    <3>1. \A d \in Requests : req[d].at = "seat" => Waits(d)
      BY <1>1, <1>3 DEF MovesTo
    <3> QED
      BY <1>0, <1>6, <2>1, <3>1, OtherWorkspaces DEF IInv, AllWhole
  <2>2. CASE owner'[v] # owner[v]
    <3>1. v = w /\ step = "seat"
      BY <1>0, <1>1, <1>2, <2>2 DEF TypeOK
    <3>2. req'[r].at = "seat" /\ req'[r].ws = v
      BY <1>3, <3>1 DEF MovesTo
    <3> QED
      BY <3>2 DEF WorkspaceWhole
  <2> QED
    BY <2>1, <2>2
<1> QED
  BY <1>1, <1>3, <1>5, <1>6, <1>7, <1>8, <1>9, <1>10, WorkspaceStatement

\* on conflict do nothing.
LEMMA SeatedOnce ==
  ASSUME TypeOK, NEW w \in Workspaces, NEW u \in Users, NEW role \in Roles,
         seat' = Seated(w, u, role)
  PROVE  /\ seat' \in [Workspaces -> [Users -> Roles \cup {NoRole}]]
         /\ seat'[w][u] = IF seat[w][u] = NoRole THEN role ELSE seat[w][u]
         /\ \A v \in Workspaces, x \in Users : v # w \/ x # u => seat'[v][x] = seat[v][x]
<1> DEFINE new == IF seat[w][u] = NoRole THEN role ELSE seat[w][u]
<1>1. seat \in [Workspaces -> [Users -> Roles \cup {NoRole}]]
  BY DEF TypeOK
<1>2. new \in Roles \cup {NoRole}
  BY <1>1
<1>3. seat' = [seat EXCEPT ![w] = [seat[w] EXCEPT ![u] = new]]
  BY DEF Seated
<1> HIDE DEF new
<1>4. [seat[w] EXCEPT ![u] = new] \in [Users -> Roles \cup {NoRole}]
  BY <1>1, <1>2
<1>5. /\ seat' \in [Workspaces -> [Users -> Roles \cup {NoRole}]]
      /\ seat'[w] = [seat[w] EXCEPT ![u] = new]
      /\ \A v \in Workspaces : v # w => seat'[v] = seat[v]
  BY <1>1, <1>3, <1>4
<1>6. seat'[w][u] = new /\ \A x \in Users : x # u => seat'[w][x] = seat[w][x]
  BY <1>1, <1>5
<1> QED
  BY <1>5, <1>6 DEF new

LEMMA AddOwnerKeeps ==
  ASSUME IInv, NEW r \in Requests, AddOwner(r)
  PROVE  IInv'
<1> DEFINE w == req[r].ws
           u == req[r].user
<1>0. TypeOK /\ Sound(r)
  BY DEF IInv, RequestsSound
<1>1. /\ req[r].at = "seat" /\ w \in Workspaces /\ u \in Users /\ owner[w] = u
      /\ seat' = Seated(w, u, Admin) /\ Continue(r, "idle")
      /\ botched' = IF seat[w][u] # NoRole THEN botched \cup {w} ELSE botched
      /\ UNCHANGED <<accountVars, owner, invite, project, crew, accepted, asked, doubtful>>
  BY <1>0 DEF AddOwner, At, Sound
<1>2. MovesTo(r, "idle") /\ "idle" \in Steps \ {"lead", "seed", "switch", "keep role"}
  BY <1>0, <1>1, Continues DEF Steps
<1>3. Admin \in Roles /\ Admin # NoRole
  BY DEF Roles, Guest, Member, Admin, NoRole
<1>4. /\ seat' \in [Workspaces -> [Users -> Roles \cup {NoRole}]]
      /\ seat'[w][u] = IF seat[w][u] = NoRole THEN Admin ELSE seat[w][u]
      /\ \A v \in Workspaces, x \in Users : v # w \/ x # u => seat'[v][x] = seat[v][x]
  BY <1>0, <1>1, <1>3, SeatedOnce
<1>5. owner[w] # None
  BY <1>1, MembershipSets
<1>6. RowsOK'
  <2>1. \A v \in Workspaces, x \in Users : seat'[v][x] # NoRole => owner[v] # None
    BY <1>0, <1>4, <1>5 DEF TypeOK
  <2> QED
    BY <1>0, <1>1, <1>4, <2>1 DEF RowsOK, TypeOK
<1>7. Grown
  BY <1>1, <1>4 DEF Grown
<1>8. Sound(r)'
  BY <1>2 DEF Sound, MovesTo
<1>9. InvitesSound'
  BY <1>1 DEF IInv, InvitesSound
<1>10. AcceptedSeated' /\ SeatsExplained'
  <2>1. AcceptedSeated'
    BY <1>0, <1>1, <1>7, AcceptedStay DEF IInv, AcceptedSeated
  <2>2. ASSUME NEW v \in Workspaces, NEW x \in Users PROVE SeatExplained(v, x)'
    <3>1. CASE v = w /\ x = u /\ seat[v][x] = NoRole
      BY <1>1, <1>4, <3>1 DEF SeatExplained
    <3>2. CASE seat'[v][x] = seat[v][x]
      BY <1>1, <3>2 DEF IInv, SeatsExplained, SeatExplained
    <3> QED
      BY <1>4, <3>1, <3>2
  <2> QED
    BY <2>1, <2>2 DEF SeatsExplained
<1>11. \A v \in Workspaces : WorkspaceWhole(v)'
  <2> TAKE v \in Workspaces
  <2>1. CASE v # w
    <3>1. \A d \in Requests : req[d].at = "seat" /\ req[d].ws = v => Waits(d)
      BY <1>2, <2>1 DEF MovesTo
    <3> QED
      BY <1>0, <1>1, <1>7, <3>1, OtherWorkspaces DEF IInv, AllWhole
  <2>2. CASE v = w
    BY <1>1, <1>4, <2>2 DEF WorkspaceWhole
  <2> QED
    BY <2>1, <2>2
<1> QED
  BY <1>1, <1>2, <1>6, <1>7, <1>8, <1>9, <1>10, <1>11, WorkspaceStatement

LEMMA AddInvitedKeeps ==
  ASSUME IInv, NEW r \in Requests, AddInvited(r)
  PROVE  IInv'
<1> DEFINE w == req[r].ws
           u == req[r].user
           role == req[r].role
           i == req[r].id
<1>0. TypeOK /\ Sound(r)
  BY DEF IInv, RequestsSound
<1>1. /\ req[r].at = "join" /\ w \in Workspaces /\ u \in Users
      /\ i \in Invites /\ invite[i] # NoInvite /\ w = invite[i].ws /\ role = invite[i].role
      /\ seat' = Seated(w, u, role) /\ Continue(r, "mark")
      /\ UNCHANGED <<accountVars, owner, invite, project, crew, botched, accepted, asked, doubtful>>
  BY <1>0 DEF AddInvited, At, Sound, histories
<1>2. MovesTo(r, "mark") /\ "mark" \in Steps \ {"lead", "seed", "switch", "keep role"}
  BY <1>0, <1>1, Continues DEF Steps
<1>3. role \in Roles /\ role # NoRole
  <2>1. invite[i].role \in Roles
    BY <1>0, <1>1 DEF TypeOK, Invite
  <2> QED
    BY <1>1, <2>1 DEF Roles, Guest, Member, Admin, NoRole
<1>4. /\ seat' \in [Workspaces -> [Users -> Roles \cup {NoRole}]]
      /\ seat'[w][u] = IF seat[w][u] = NoRole THEN role ELSE seat[w][u]
      /\ \A v \in Workspaces, x \in Users : v # w \/ x # u => seat'[v][x] = seat[v][x]
  BY <1>0, <1>1, <1>3, SeatedOnce
<1>5. owner[w] # None
  BY <1>1 DEF IInv, InvitesSound
<1>6. RowsOK'
  <2>1. \A v \in Workspaces, x \in Users : seat'[v][x] # NoRole => owner[v] # None
    BY <1>0, <1>4, <1>5 DEF TypeOK
  <2> QED
    BY <1>0, <1>1, <1>4, <2>1 DEF RowsOK, TypeOK
<1>7. Grown
  BY <1>1, <1>4 DEF Grown
<1>8. Sound(r)'
  <2>1. /\ req'[r].at = "mark" /\ req'[r].user = u /\ req'[r].id = i
        /\ seat'[invite[i].ws][u] # NoRole /\ invite' = invite
    BY <1>1, <1>2, <1>3, <1>4 DEF MovesTo
  <2> QED
    BY <1>1, <2>1 DEF Sound
<1>9. InvitesSound'
  BY <1>1 DEF IInv, InvitesSound
<1>10. AcceptedSeated' /\ SeatsExplained'
  <2>1. AcceptedSeated'
    BY <1>0, <1>1, <1>7, AcceptedStay DEF IInv, AcceptedSeated
  <2>2. ASSUME NEW v \in Workspaces, NEW x \in Users PROVE SeatExplained(v, x)'
    <3>1. CASE v = w /\ x = u /\ seat[v][x] = NoRole
      BY <1>1, <1>4, <3>1 DEF SeatExplained
    <3>2. CASE seat'[v][x] = seat[v][x]
      BY <1>1, <3>2 DEF IInv, SeatsExplained, SeatExplained
    <3> QED
      BY <1>4, <3>1, <3>2
  <2> QED
    BY <2>1, <2>2 DEF SeatsExplained
<1>11. \A v \in Workspaces : WorkspaceWhole(v)'
  <2>1. \A d \in Requests : req[d].at = "seat" => Waits(d)
    BY <1>1, <1>2 DEF MovesTo
  <2> QED
    BY <1>0, <1>1, <1>7, <2>1, OtherWorkspaces DEF IInv, AllWhole
<1> QED
  BY <1>1, <1>2, <1>6, <1>7, <1>8, <1>9, <1>10, <1>11, WorkspaceStatement

\* Marking an invitation leaves the rest of its row.
LEMMA Marked ==
  ASSUME TypeOK, NEW i \in Invites, invite[i] # NoInvite,
         invite' = [invite EXCEPT ![i].accepted = TRUE]
  PROVE  /\ invite' \in [Invites -> Invite]
         /\ invite'[i] # NoInvite
         /\ \A j \in Invites : /\ invite'[j].to = invite[j].to /\ invite'[j].ws = invite[j].ws
                               /\ invite'[j].role = invite[j].role
                               /\ j # i => invite'[j] = invite[j]
<1> DEFINE new == [invite[i] EXCEPT !.accepted = TRUE]
<1>1. invite \in [Invites -> Invite]
  BY DEF TypeOK
<1>2. /\ new \in Invite /\ new # NoInvite
      /\ new.to = invite[i].to /\ new.ws = invite[i].ws /\ new.role = invite[i].role
  BY <1>1, MembershipSets DEF Invite, NoInvite
<1>3. invite' = [invite EXCEPT ![i] = new]
  OBVIOUS
<1> HIDE DEF new
<1> QED
  BY <1>1, <1>2, <1>3

LEMMA AcceptInviteKeeps ==
  ASSUME IInv, NEW r \in Requests, AcceptInvite(r)
  PROVE  IInv'
<1> DEFINE u == req[r].user
           i == req[r].id
<1>0. TypeOK /\ Sound(r)
  BY DEF IInv, RequestsSound
<1>1. /\ req[r].at = "mark" /\ u \in Users /\ i \in Invites /\ invite[i] # NoInvite
      /\ i \notin botched => seat[invite[i].ws][u] # NoRole
      /\ invite' = [invite EXCEPT ![i].accepted = TRUE]
      /\ accepted' = accepted \cup {<<i, u>>}
      /\ Continue(r, "idle")
      /\ UNCHANGED <<accountVars, owner, seat, project, crew, botched, asked, doubtful>>
  BY <1>0 DEF AcceptInvite, At, Sound
<1>2. MovesTo(r, "idle") /\ "idle" \in Steps \ {"lead", "seed", "switch", "keep role"}
  BY <1>0, <1>1, Continues DEF Steps
<1>3. /\ invite' \in [Invites -> Invite]
      /\ invite'[i] # NoInvite
      /\ \A j \in Invites : /\ invite'[j].to = invite[j].to /\ invite'[j].ws = invite[j].ws
                            /\ invite'[j].role = invite[j].role
                            /\ j # i => invite'[j] = invite[j]
  BY <1>0, <1>1, Marked
<1>4. RowsOK'
  BY <1>0, <1>1, <1>3 DEF RowsOK, TypeOK
<1>5. Grown
  BY <1>1, <1>3 DEF Grown
<1>6. Sound(r)'
  BY <1>2 DEF Sound, MovesTo
<1>7. InvitesSound'
  BY <1>1, <1>3 DEF IInv, InvitesSound
<1>8. AcceptedSeated' /\ SeatsExplained'
  <2>1. ASSUME NEW j \in Invites, j \notin botched, invite'[j] # NoInvite, invite'[j].accepted
        PROVE  \E x \in Users : <<j, x>> \in accepted' /\ seat[invite'[j].ws][x] # NoRole
    <3>1. CASE j = i
      <4>1. <<i, u>> \in accepted' /\ seat[invite[i].ws][u] # NoRole /\ invite'[i].ws = invite[i].ws
        BY <1>1, <1>3, <2>1, <3>1
      <4> QED
        BY <1>1, <3>1, <4>1
    <3>2. CASE j # i
      <4>1. invite'[j] = invite[j] /\ invite[j] # NoInvite /\ invite[j].accepted
        BY <1>3, <2>1, <3>2
      <4>2. \E x \in Users : <<j, x>> \in accepted /\ seat[invite[j].ws][x] # NoRole
        BY <2>1, <4>1 DEF IInv, AcceptedSeated
      <4> QED
        BY <1>1, <4>1, <4>2
    <3> QED
      BY <3>1, <3>2
  <2>2. AcceptedSeated'
    BY <1>1, <2>1 DEF AcceptedSeated
  <2>3. SeatsExplained'
    BY <1>1, <1>3 DEF IInv, SeatsExplained, SeatExplained
  <2> QED
    BY <2>2, <2>3
<1>9. \A v \in Workspaces : WorkspaceWhole(v)'
  <2>1. \A d \in Requests : req[d].at = "seat" => Waits(d)
    BY <1>1, <1>2 DEF MovesTo
  <2> QED
    BY <1>0, <1>1, <1>5, <2>1, OtherWorkspaces DEF IInv, AllWhole
<1> QED
  BY <1>1, <1>2, <1>4, <1>5, <1>6, <1>7, <1>8, <1>9, WorkspaceStatement

LEMMA CreateProjectKeeps ==
  ASSUME IInv, NEW r \in Requests, CreateProject(r)
  PROVE  IInv'
<1> DEFINE p == req[r].id
           new == [NoProject EXCEPT !.ws = req[r].ws, !.creator = req[r].user]
<1>0. TypeOK /\ Sound(r)
  BY DEF IInv, RequestsSound
<1>1. /\ req[r].at = "create project" /\ p \in Projects
      /\ req[r].ws \in Workspaces /\ req[r].user \in Users
      /\ UNCHANGED <<accountVars, owner, seat, invite, crew, botched, accepted, asked, doubtful>>
  BY <1>0 DEF CreateProject, At, Sound, histories
<1>2. PICK step \in {"idle", "lead"} :
        /\ Continue(r, step)
        /\ step = "lead" => project[p] = NoProject /\ project' = [project EXCEPT ![p] = new]
        /\ step = "idle" => project' = project
  BY DEF CreateProject
<1>3. MovesTo(r, step) /\ step \in Steps \ {"seat", "join", "mark", "create workspace"}
  BY <1>0, <1>2, Continues DEF Steps
<1>4. /\ new \in Project /\ new # NoProject /\ new.creator = req[r].user /\ new.states = 0
      /\ new.on = {} /\ NoProject.on = {}
  <2>1. NoProject = [ws |-> None, creator |-> None, deleted |-> FALSE, archived |-> FALSE,
                     on |-> {}, states |-> 0]
    BY DEF NoProject
  <2>2. 0 \in 0..DefaultStates /\ {} \in SUBSET Switches
    BY MembershipSets
  <2>3. new \in [ws : Workspaces, creator : Users, deleted : BOOLEAN, archived : BOOLEAN,
                on : SUBSET Switches, states : 0..DefaultStates]
    BY <1>1, <2>1, <2>2
  <2>4. new.creator = req[r].user /\ new.states = 0 /\ new.on = {}
    BY <2>1
  <2>5. NoProject.creator = None /\ NoProject.on = {}
    BY DEF NoProject
  <2> QED
    BY <1>1, <2>3, <2>4, <2>5, MembershipSets DEF Project
<1> HIDE DEF new
<1>5. project \in [Projects -> Project]
  BY <1>0 DEF TypeOK
<1>6. /\ project' \in [Projects -> Project]
      /\ \A o \in Projects : project[o] # NoProject => project'[o] = project[o]
      /\ \A o \in Projects : project'[o].on = project[o].on
      /\ step = "lead" => project'[p] = new
      /\ \A o \in Projects : project'[o] # project[o] => step = "lead" /\ o = p
  BY <1>1, <1>2, <1>4, <1>5
<1>7. RowsOK' /\ AskedOK'
  BY <1>0, <1>1, <1>6 DEF IInv, AskedOK, RowsOK, TypeOK
<1>8. Sound(r)'
  <2>1. step = "lead" => /\ project'[p] # NoProject /\ project'[p].creator = req[r].user
                         /\ project'[p].states < DefaultStates
    BY <1>4, <1>6, MembershipSets
  <2> QED
    BY <1>1, <1>2, <1>3, <2>1 DEF Sound, MovesTo
<1>9. Fresh(r)'
  BY <1>3 DEF Fresh, MovesTo
<1>10. step \in {"lead", "seed"} =>
         \A d \in Requests : ~(req[d].at \in {"lead", "seed"} /\ req[d].id = p)
  BY <1>2 DEF IInv, RequestsSound, Sound
<1>11. \A o \in Projects : ProjectWhole(o)'
  <2> TAKE o \in Projects
  <2>1. CASE project'[o] = project[o]
    <3>1. \A d \in Requests : req[d].at \in {"lead", "seed"} => Waits(d)
      BY <1>1, <1>3 DEF MovesTo
    <3> QED
      BY <1>0, <1>1, <2>1, <3>1, OtherProjects DEF IInv, AllWhole
  <2>2. CASE project'[o] # project[o]
    <3>1. o = p /\ req'[r].at = "lead" /\ req'[r].id = p
      BY <1>3, <1>6, <2>2 DEF MovesTo
    <3> QED
      BY <3>1 DEF ProjectWhole
  <2> QED
    BY <2>1, <2>2
<1>12. AsLastAsked'
  BY <1>1, <1>6 DEF IInv, AsLastAsked
<1>13. /\ \A o \in Projects : project[o] # NoProject =>
            project'[o] # NoProject /\ project'[o].creator = project[o].creator
       /\ \A o \in Projects : ~(project[o] # NoProject /\ project'[o].states # project[o].states)
       /\ \A d \in Requests : req[d].id \in Projects =>
            project'[req[d].id].on = project[req[d].id].on /\ crew'[req[d].id] = crew[req[d].id]
  BY <1>1, <1>6
<1> QED
  BY <1>1, <1>3, <1>7, <1>8, <1>9, <1>10, <1>11, <1>12, <1>13, ProjectStatement

\* A row of project_members.
LEMMA Enlisted ==
  ASSUME TypeOK, NEW p \in Projects, NEW u \in Users, NEW role \in Roles, Enlist(p, u, role)
  PROVE  /\ crew' \in [Projects -> [Users -> Roles \cup {NoRole}]]
         /\ crew'[p] = [crew[p] EXCEPT ![u] = role]
         /\ crew'[p][u] = role /\ role # NoRole
         /\ \A o \in Projects : o # p => crew'[o] = crew[o]
         /\ \A o \in Projects, v \in Users : crew[o][v] # NoRole => crew'[o][v] # NoRole
<1> DEFINE new == [crew[p] EXCEPT ![u] = role]
<1>1. crew \in [Projects -> [Users -> Roles \cup {NoRole}]] /\ role # NoRole
  BY DEF TypeOK, Roles, Guest, Member, Admin, NoRole
<1>2. /\ new \in [Users -> Roles \cup {NoRole}] /\ new[u] = role
      /\ \A v \in Users : v # u => new[v] = crew[p][v]
  BY <1>1
<1>3. crew' = [crew EXCEPT ![p] = new]
  BY DEF Enlist
<1> HIDE DEF new
<1>4. /\ crew' \in [Projects -> [Users -> Roles \cup {NoRole}]] /\ crew'[p] = new
      /\ \A o \in Projects : o # p => crew'[o] = crew[o]
  BY <1>1, <1>2, <1>3
<1>5. \A o \in Projects, v \in Users : crew[o][v] # NoRole => crew'[o][v] # NoRole
  BY <1>1, <1>2, <1>4
<1> QED
  BY <1>1, <1>2, <1>4, <1>5 DEF new

\* The role a member was last asked to have.
LEMMA RoleAsked ==
  ASSUME AskedOK, NEW p \in Projects, NEW u \in Users, NEW role \in Roles,
         asked' = [asked EXCEPT ![p].role[u] = role]
  PROVE  /\ AskedOK'
         /\ asked'[p].role = [asked[p].role EXCEPT ![u] = role]
         /\ asked'[p].on = asked[p].on
         /\ \A o \in Projects : o # p => asked'[o] = asked[o]
<1> DEFINE as == [asked[p] EXCEPT !.role = [asked[p].role EXCEPT ![u] = role]]
<1>1. asked \in [Projects -> [on : SUBSET Switches, role : [Users -> Roles \cup {NoRole}]]]
  BY DEF AskedOK
<1>2. [asked[p].role EXCEPT ![u] = role] \in [Users -> Roles \cup {NoRole}]
  BY <1>1
<1>3. /\ as \in [on : SUBSET Switches, role : [Users -> Roles \cup {NoRole}]]
      /\ as.role = [asked[p].role EXCEPT ![u] = role] /\ as.on = asked[p].on
  BY <1>1, <1>2
<1>4. asked' = [asked EXCEPT ![p] = as]
  OBVIOUS
<1> HIDE DEF as
<1> QED
  BY <1>1, <1>3, <1>4 DEF AskedOK

LEMMA AddCreatorKeeps ==
  ASSUME IInv, NEW r \in Requests, AddCreator(r)
  PROVE  IInv'
<1> DEFINE p == req[r].id
           u == req[r].user
<1>0. TypeOK /\ Sound(r) /\ AskedOK /\ Admin \in Roles
  BY DEF IInv, RequestsSound, Roles
<1>1. /\ req[r].at = "lead" /\ p \in Projects /\ u \in Users
      /\ project[p] # NoProject /\ project[p].creator = u /\ project[p].states < DefaultStates
      /\ Enlist(p, u, Admin) /\ asked' = [asked EXCEPT ![p].role[u] = Admin]
      /\ Outdate(r, "seed", p)
      /\ UNCHANGED <<accountVars, owner, seat, invite, project, botched, accepted, doubtful>>
  BY <1>0 DEF AddCreator, At, Sound
<1>2. /\ MovesTo(r, "seed") /\ "seed" \in Steps \ {"seat", "join", "mark", "create workspace"}
      /\ \A d \in Requests : d # r /\ req[d].id = p => req'[d].old
  BY <1>0, <1>1, Outdates DEF Steps
<1>3. /\ crew' \in [Projects -> [Users -> Roles \cup {NoRole}]]
      /\ crew'[p] = [crew[p] EXCEPT ![u] = Admin] /\ crew'[p][u] # NoRole
      /\ \A o \in Projects : o # p => crew'[o] = crew[o]
      /\ \A o \in Projects, v \in Users : crew[o][v] # NoRole => crew'[o][v] # NoRole
  BY <1>0, <1>1, Enlisted
<1>4. /\ AskedOK' /\ asked'[p].role = [asked[p].role EXCEPT ![u] = Admin]
      /\ asked'[p].on = asked[p].on
      /\ \A o \in Projects : o # p => asked'[o] = asked[o]
  BY <1>0, <1>1, RoleAsked
<1>5. RowsOK'
  BY <1>0, <1>1, <1>3 DEF RowsOK, TypeOK
<1>6. Sound(r)'
  BY <1>1, <1>2 DEF Sound, MovesTo
<1>7. Fresh(r)'
  BY <1>2 DEF Fresh, MovesTo
<1>8. \A o \in Projects : ProjectWhole(o)'
  <2> TAKE o \in Projects
  <2>1. CASE o # p
    <3>1. \A d \in Requests : req[d].at \in {"lead", "seed"} /\ req[d].id = o => Waits(d)
      BY <1>2, <2>1 DEF MovesTo
    <3> QED
      BY <1>0, <1>1, <1>3, <2>1, <3>1, OtherProjects DEF IInv, AllWhole
  <2>2. CASE o = p
    <3>1. req'[r].at = "seed" /\ req'[r].id = p
      BY <1>2 DEF MovesTo
    <3> QED
      BY <1>1, <1>3, <2>2, <3>1 DEF ProjectWhole
  <2> QED
    BY <2>1, <2>2
<1>9. AsLastAsked'
  <2>1. project' = project /\ doubtful' = doubtful /\ AsLastAsked
    BY <1>1 DEF IInv
  <2>2. p \notin doubtful => project[p].on = asked'[p].on /\ crew'[p] = asked'[p].role
    BY <1>1, <1>3, <1>4, <2>1 DEF AsLastAsked
  <2>3. \A o \in Projects : o # p => /\ project'[o].on = project[o].on
                                     /\ crew'[o] = crew[o] /\ asked'[o] = asked[o]
    BY <1>3, <1>4, <2>1
  <2>4. p \in Projects /\ AsLastAsked /\ doubtful \subseteq doubtful'
    BY <1>1, <2>1
  <2>5. p \notin doubtful' => project'[p].on = asked'[p].on /\ crew'[p] = asked'[p].role
    BY <2>1, <2>2
  <2> HIDE DEF p
  <2> QED
    BY <2>3, <2>4, <2>5, AskedStays
<1>10. \A d \in Requests : d # r /\ req[d].id \in Projects /\ ~req'[d].old =>
         project'[req[d].id].on = project[req[d].id].on /\ crew'[req[d].id] = crew[req[d].id]
  BY <1>1, <1>2, <1>3
<1> QED
  BY <1>1, <1>2, <1>4, <1>5, <1>6, <1>7, <1>8, <1>9, <1>10, ProjectStatement

LEMMA SeedDefaultsKeeps ==
  ASSUME IInv, NEW r \in Requests, SeedDefaults(r)
  PROVE  IInv'
<1> DEFINE p == req[r].id
           n == project[p].states + 1
           new == [project[p] EXCEPT !.states = n]
<1>0. TypeOK /\ Sound(r)
  BY DEF IInv, RequestsSound
<1>1. /\ req[r].at = "seed" /\ p \in Projects /\ req[r].user \in Users
      /\ project[p] # NoProject /\ project[p].states < DefaultStates
      /\ project' = [project EXCEPT ![p] = new]
      /\ UNCHANGED <<accountVars, owner, seat, invite, crew, botched, accepted, asked, doubtful>>
  BY <1>0 DEF SeedDefaults, At, Sound, histories
<1>2. PICK step \in {"idle", "seed"} :
        Continue(r, step) /\ step = (IF n = DefaultStates THEN "idle" ELSE "seed")
  BY DEF SeedDefaults
<1>3. MovesTo(r, step) /\ step \in Steps \ {"seat", "join", "mark", "create workspace"}
  BY <1>0, <1>2, Continues DEF Steps
<1>4. project \in [Projects -> Project] /\ project[p] \in Project \ {NoProject}
  BY <1>0, <1>1 DEF TypeOK
<1>5. project[p].states \in Nat /\ n \in 0..DefaultStates
  BY <1>1, <1>4, MembershipSets DEF Project
<1> HIDE DEF n
<1>6. /\ new \in Project /\ new.creator = project[p].creator /\ new.on = project[p].on
      /\ new.states = n /\ project[p].creator \in Users
  BY <1>4, <1>5 DEF Project
<1>7. new # NoProject
  BY <1>6, MembershipSets DEF NoProject
<1> HIDE DEF new
<1>8. /\ project' \in [Projects -> Project] /\ project'[p] = new
      /\ \A o \in Projects : o # p => project'[o] = project[o]
      /\ \A o \in Projects : project'[o].on = project[o].on
  BY <1>1, <1>4, <1>6
<1>9. RowsOK' /\ AskedOK'
  BY <1>0, <1>1, <1>8 DEF IInv, AskedOK, RowsOK, TypeOK
<1>10. step = "seed" => n < DefaultStates
  BY <1>2, <1>5, MembershipSets
<1>11. Sound(r)'
  BY <1>1, <1>2, <1>3, <1>6, <1>7, <1>8, <1>10 DEF Sound, MovesTo
<1>12. Fresh(r)'
  BY <1>2, <1>3 DEF Fresh, MovesTo
<1>13. \A o \in Projects : ProjectWhole(o)'
  <2> TAKE o \in Projects
  <2>1. CASE o # p
    <3>1. \A d \in Requests : req[d].at \in {"lead", "seed"} /\ req[d].id = o => Waits(d)
      BY <1>3, <2>1 DEF MovesTo
    <3> QED
      BY <1>0, <1>1, <1>8, <2>1, <3>1, OtherProjects DEF IInv, AllWhole
  <2>2. CASE o = p
    <3>1. p \notin botched => crew[p][project[p].creator] # NoRole
      BY <1>1 DEF IInv, AllWhole, ProjectWhole, OneCreator
    <3>2. p \notin botched' => crew'[p][project'[p].creator] # NoRole
      BY <1>1, <1>6, <1>8, <3>1
    <3>3. \/ project'[p].states = DefaultStates
          \/ req'[r].at = "seed" /\ req'[r].id = p
      BY <1>2, <1>3, <1>6, <1>8 DEF MovesTo
    <3> QED
      BY <2>2, <3>2, <3>3 DEF ProjectWhole
  <2> QED
    BY <2>1, <2>2
<1>14. AsLastAsked'
  BY <1>1, <1>8 DEF IInv, AsLastAsked
<1>15. /\ \A o \in Projects : project[o] # NoProject =>
            project'[o] # NoProject /\ project'[o].creator = project[o].creator
       /\ \A o \in Projects : project[o] # NoProject /\ project'[o].states # project[o].states => o = p
       /\ \A d \in Requests : req[d].id \in Projects =>
            project'[req[d].id].on = project[req[d].id].on /\ crew'[req[d].id] = crew[req[d].id]
  BY <1>1, <1>6, <1>7, <1>8
<1> QED
  BY <1>1, <1>3, <1>9, <1>11, <1>12, <1>13, <1>14, <1>15, ProjectStatement

\* A statement that leaves what a project is made of, and who is on its crew.
LEMMA SwitchesOnly ==
  ASSUME IInv, NEW r \in Requests, MovesTo(r, "idle"),
         UNCHANGED <<accountVars, owner, seat, invite, crew, botched, accepted>>,
         project' \in [Projects -> Project], AskedOK', doubtful' \subseteq Projects,
         req[r].at \notin {"seat", "lead", "seed"},
         \A o \in Projects : /\ project'[o] # NoProject <=> project[o] # NoProject
                             /\ project'[o].creator = project[o].creator
                             /\ project'[o].states = project[o].states,
         \A d \in Requests : d # r /\ req[d].id \in Projects /\ ~req'[d].old =>
           project'[req[d].id].on = project[req[d].id].on,
         AsLastAsked'
  PROVE  IInv'
<1>0. TypeOK
  BY DEF IInv
<1>1. RowsOK'
  BY <1>0 DEF RowsOK, TypeOK
<1>2. Sound(r)' /\ Fresh(r)'
  BY DEF Sound, Fresh, MovesTo
<1>3. \A d \in Requests : req[d].at \in {"lead", "seed"} => Waits(d)
  BY DEF MovesTo
<1>4. \A o \in Projects : ProjectWhole(o)'
  BY <1>0, <1>3, OtherProjects DEF IInv, AllWhole
<1>5. "idle" \in Steps \ {"seat", "join", "mark", "create workspace"}
  BY DEF Steps
<1> QED
  BY <1>1, <1>2, <1>4, <1>5, ProjectStatement

LEMMA UpdateProjectFeaturesKeeps ==
  ASSUME IInv, NEW r \in Requests, UpdateProjectFeatures(r)
  PROVE  IInv'
<1> DEFINE p == req[r].id
           s == req[r].switch
           on == req[r].on
<1>0. TypeOK /\ Sound(r) /\ AskedOK /\ AsLastAsked /\ Fresh(r)
  BY DEF IInv, RequestsSound, AllFresh
<1>1. /\ req[r].at = "switch" /\ p \in Projects /\ s \in Switches /\ project[p] # NoProject
      /\ UNCHANGED <<accountVars, owner, seat, invite, crew, botched, accepted>>
  BY <1>0 DEF UpdateProjectFeatures, At, Sound
<1>2. /\ project \in [Projects -> Project] /\ project[p] \in Project /\ doubtful \subseteq Projects
      /\ on \in SUBSET Switches
  BY <1>0, <1>1 DEF TypeOK, Request
<1>3. CASE project[p].deleted
  <2>1. Continue(r, "idle") /\ UNCHANGED <<project, asked, doubtful>> /\ "idle" \in Steps
    BY <1>3 DEF UpdateProjectFeatures, Steps
  <2>2. MovesTo(r, "idle")
    BY <1>0, <2>1, Continues
  <2>3. AskedOK' /\ AsLastAsked'
    BY <1>0, <1>1, <2>1 DEF AskedOK, AsLastAsked
  <2> QED
    BY <1>1, <1>2, <2>1, <2>2, <2>3, SwitchesOnly
<1>4. CASE ~project[p].deleted
  <2> DEFINE new == [project[p] EXCEPT !.on = on]
             as == [asked[p] EXCEPT !.on = With(asked[p].on, s, s \in on)]
  <2>1. /\ project' = [project EXCEPT ![p] = new] /\ asked' = [asked EXCEPT ![p] = as]
        /\ doubtful' = IF req[r].old THEN doubtful \cup {p} ELSE doubtful
        /\ Outdate(r, "idle", p) /\ "idle" \in Steps
    BY <1>4 DEF UpdateProjectFeatures, Steps
  <2>2. MovesTo(r, "idle") /\ \A d \in Requests : d # r /\ req[d].id = p => req'[d].old
    BY <1>0, <2>1, Outdates
  <2>3. /\ new \in Project /\ new.creator = project[p].creator /\ new.states = project[p].states
        /\ new.on = on /\ project[p].creator \in Users
    BY <1>1, <1>2 DEF Project
  <2>4. new # NoProject
    BY <2>3, MembershipSets DEF NoProject
  <2>5. asked \in [Projects -> [on : SUBSET Switches, role : [Users -> Roles \cup {NoRole}]]]
    BY <1>0 DEF AskedOK
  <2>6. /\ as \in [on : SUBSET Switches, role : [Users -> Roles \cup {NoRole}]]
        /\ as.role = asked[p].role /\ as.on = With(asked[p].on, s, s \in on)
    BY <1>1, <2>5 DEF With
  <2> HIDE DEF new, as
  <2>7. /\ project' \in [Projects -> Project] /\ project'[p] = new
        /\ \A o \in Projects : o # p => project'[o] = project[o]
    BY <1>1, <1>2, <2>1, <2>3
  <2>8. AskedOK' /\ asked'[p] = as /\ \A o \in Projects : o # p => asked'[o] = asked[o]
    BY <1>1, <2>1, <2>5, <2>6 DEF AskedOK
  <2>9. AsLastAsked'
    <3>1. ASSUME NEW o \in Projects, o \notin doubtful', o # p
          PROVE  project'[o].on = asked'[o].on /\ crew'[o] = asked'[o].role
      BY <1>0, <1>1, <2>1, <2>7, <2>8, <3>1 DEF AsLastAsked
    <3>2. ASSUME p \notin doubtful'
          PROVE  project'[p].on = asked'[p].on /\ crew'[p] = asked'[p].role
      <4>1. p \notin doubtful /\ ~req[r].old
        BY <2>1, <3>2
      <4>2. project[p].on = asked[p].on /\ crew[p] = asked[p].role
        BY <1>0, <1>1, <4>1 DEF AsLastAsked
      <4>3. on = With(project[p].on, s, s \in on)
        BY <1>0, <1>1, <4>1 DEF Fresh
      <4> QED
        BY <1>1, <2>3, <2>6, <2>7, <2>8, <4>2, <4>3
    <3> QED
      BY <3>1, <3>2 DEF AsLastAsked
  <2>10. \A o \in Projects : /\ project'[o] # NoProject <=> project[o] # NoProject
                             /\ project'[o].creator = project[o].creator
                             /\ project'[o].states = project[o].states
    BY <1>1, <2>3, <2>4, <2>7
  <2>11. \A d \in Requests : d # r /\ req[d].id \in Projects /\ ~req'[d].old =>
           project'[req[d].id].on = project[req[d].id].on
    BY <2>2, <2>7
  <2>12. doubtful' \subseteq Projects
    BY <1>1, <1>2, <2>1
  <2> QED
    BY <1>1, <2>2, <2>7, <2>8, <2>9, <2>10, <2>11, <2>12, SwitchesOnly
<1> QED
  BY <1>3, <1>4

\* A statement that writes a row of the crew and nothing else.
LEMMA CrewOnly ==
  ASSUME IInv, NEW r \in Requests, NEW p \in Projects, NEW u \in Users, NEW role \in Roles,
         Enlist(p, u, role), Outdate(r, "idle", p),
         UNCHANGED <<accountVars, owner, seat, invite, project, botched, accepted>>,
         AskedOK', doubtful' \subseteq Projects,
         req[r].at \notin {"seat", "lead", "seed"},
         AsLastAsked'
  PROVE  IInv'
<1>0. TypeOK
  BY DEF IInv
<1>1. /\ MovesTo(r, "idle") /\ "idle" \in Steps \ {"seat", "join", "mark", "create workspace"}
      /\ \A d \in Requests : d # r /\ req[d].id = p => req'[d].old
  BY <1>0, Outdates DEF Steps
<1>2. /\ crew' \in [Projects -> [Users -> Roles \cup {NoRole}]]
      /\ \A o \in Projects : o # p => crew'[o] = crew[o]
      /\ \A o \in Projects, v \in Users : crew[o][v] # NoRole => crew'[o][v] # NoRole
  BY <1>0, Enlisted
<1>3. RowsOK'
  BY <1>0, <1>2 DEF RowsOK, TypeOK
<1>4. Sound(r)' /\ Fresh(r)'
  BY <1>1 DEF Sound, Fresh, MovesTo
<1>5. \A d \in Requests : req[d].at \in {"lead", "seed"} => Waits(d)
  BY <1>1 DEF MovesTo
<1>6. \A o \in Projects : ProjectWhole(o)'
  BY <1>0, <1>2, <1>5, OtherProjects DEF IInv, AllWhole
<1>7. \A d \in Requests : d # r /\ req[d].id \in Projects /\ ~req'[d].old =>
         project'[req[d].id].on = project[req[d].id].on /\ crew'[req[d].id] = crew[req[d].id]
  BY <1>1, <1>2
<1> QED
  BY <1>1, <1>3, <1>4, <1>6, <1>7, ProjectStatement

LEMMA AddProjectMemberKeeps ==
  ASSUME IInv, NEW r \in Requests, AddProjectMember(r)
  PROVE  IInv'
<1> DEFINE p == req[r].id
           m == req[r].member
           role == req[r].role
<1>0. TypeOK /\ Sound(r) /\ AskedOK /\ AsLastAsked
  BY DEF IInv, RequestsSound
<1>1. /\ req[r].at = "enlist" /\ p \in Projects /\ m \in Users /\ role \in Roles
      /\ Enlist(p, m, role) /\ Outdate(r, "idle", p)
      /\ asked' = [asked EXCEPT ![p].role[m] = role]
      /\ UNCHANGED <<accountVars, owner, seat, invite, project, botched, accepted, doubtful>>
  BY <1>0 DEF AddProjectMember, At, Sound
<1> HIDE DEF p, m, role
<1>2. /\ AskedOK' /\ asked'[p].role = [asked[p].role EXCEPT ![m] = role]
      /\ asked'[p].on = asked[p].on
      /\ \A o \in Projects : o # p => asked'[o] = asked[o]
  BY <1>0, <1>1, RoleAsked
<1>3. /\ crew'[p] = [crew[p] EXCEPT ![m] = role]
      /\ \A o \in Projects : o # p => crew'[o] = crew[o]
  BY <1>0, <1>1, Enlisted
<1>4. AsLastAsked'
  BY <1>0, <1>1, <1>2, <1>3 DEF AsLastAsked
<1>5. doubtful \subseteq Projects
  BY <1>0 DEF TypeOK
<1> QED
  BY <1>1, <1>2, <1>4, <1>5, CrewOnly

LEMMA UpdateProjectMemberRoleKeeps ==
  ASSUME IInv, NEW r \in Requests, UpdateProjectMemberRole(r)
  PROVE  IInv'
<1> DEFINE p == req[r].id
           m == req[r].member
           role == req[r].role
<1>0. TypeOK /\ Sound(r) /\ AskedOK /\ AsLastAsked /\ Fresh(r)
  BY DEF IInv, RequestsSound, AllFresh
<1>1. /\ req[r].at \in {"role", "keep role"} /\ p \in Projects /\ m \in Users /\ role \in Roles
      /\ Enlist(p, m, role) /\ Outdate(r, "idle", p)
      /\ UNCHANGED <<accountVars, owner, seat, invite, project, botched, accepted>>
  BY <1>0 DEF UpdateProjectMemberRole, Sound
<1> HIDE DEF p, m, role
<1>2. /\ crew'[p] = [crew[p] EXCEPT ![m] = role]
      /\ \A o \in Projects : o # p => crew'[o] = crew[o]
  BY <1>0, <1>1, Enlisted
<1>3. doubtful \subseteq Projects /\ crew \in [Projects -> [Users -> Roles \cup {NoRole}]]
  BY <1>0 DEF TypeOK
<1>4. CASE req[r].at = "role"
  <2>1. asked' = [asked EXCEPT ![p].role[m] = role] /\ doubtful' = doubtful
    BY <1>4 DEF UpdateProjectMemberRole, p, m, role
  <2>2. /\ AskedOK' /\ asked'[p].role = [asked[p].role EXCEPT ![m] = role]
        /\ asked'[p].on = asked[p].on
        /\ \A o \in Projects : o # p => asked'[o] = asked[o]
    BY <1>0, <1>1, <2>1, RoleAsked
  <2>3. AsLastAsked'
    <3>1. project' = project /\ doubtful' = doubtful
      BY <1>1, <2>1
    <3>2. crew'[p] = [crew[p] EXCEPT ![m] = role]
      BY <1>2
    <3>3. p \notin doubtful => project[p].on = asked'[p].on /\ crew'[p] = asked'[p].role
      BY <1>0, <1>1, <2>2, <3>2 DEF AsLastAsked
    <3> QED
      BY <1>0, <1>1, <1>2, <2>2, <3>1, <3>3, AskedStays
  <2> QED
    BY <1>1, <1>3, <1>4, <2>1, <2>2, <2>3, CrewOnly
<1>5. CASE req[r].at = "keep role"
  <2>1. /\ asked' = asked
        /\ doubtful' = IF req[r].old THEN doubtful \cup {p} ELSE doubtful
    BY <1>5 DEF UpdateProjectMemberRole, p, m, role
  <2>2. AskedOK'
    BY <1>0, <2>1 DEF AskedOK
  <2>3. ASSUME p \notin doubtful' PROVE crew'[p] = crew[p] /\ p \notin doubtful
    <3>1. role = crew[p][m]
      BY <1>0, <1>5, <2>1, <2>3 DEF Fresh, p, m, role
    <3> QED
      BY <1>1, <1>2, <1>3, <2>1, <2>3, <3>1
  <2>4. AsLastAsked'
    BY <1>0, <1>1, <1>2, <2>1, <2>3 DEF AsLastAsked
  <2>5. doubtful' \subseteq Projects
    BY <1>1, <1>3, <2>1
  <2> QED
    BY <1>1, <1>5, <2>2, <2>4, <2>5, CrewOnly
<1> QED
  BY <1>1, <1>4, <1>5

LEMMA StatementFailsKeeps ==
  ASSUME IInv, NEW r \in Requests, StatementFails(r)
  PROVE  IInv'
<1> DEFINE step == IF req[r].at = "join" THEN "mark" ELSE "idle"
<1>0. TypeOK /\ Sound(r)
  BY DEF IInv, RequestsSound
<1>1. /\ req[r].at # "idle" /\ Continue(r, step) /\ step \in Steps
      /\ UNCHANGED accountVars
      /\ owner' = owner /\ seat' = seat /\ invite' = invite /\ project' = project /\ crew' = crew
      /\ accepted' = accepted /\ asked' = asked /\ doubtful' = doubtful
      /\ botched' = botched \cup (CASE req[r].at = "seat" -> {req[r].ws}
                                    [] req[r].at \in {"join", "lead", "seed"} -> {req[r].id}
                                    [] OTHER -> {})
  BY DEF StatementFails, memberRows, Steps
<1>2. /\ req[r].at = "seat" => botched' = botched \cup {req[r].ws} /\ req[r].ws \in Workspaces
      /\ req[r].at = "join" => botched' = botched \cup {req[r].id} /\ req[r].id \in Invites
      /\ req[r].at \in {"lead", "seed"} =>
           botched' = botched \cup {req[r].id} /\ req[r].id \in Projects
      /\ req[r].at \notin {"seat", "join", "lead", "seed"} => botched' = botched
  BY <1>0, <1>1 DEF Sound
<1>3. MovesTo(r, step)
  BY <1>0, <1>1, Continues
<1>4. botched \subseteq botched' /\ botched' \subseteq Workspaces \cup Invites \cup Projects
  BY <1>0, <1>2 DEF TypeOK
<1>5. RowsOK' /\ AskedOK' /\ Grown
  BY <1>0, <1>1, <1>4 DEF IInv, RowsOK, TypeOK, AskedOK, Grown
<1>6. Sound(r)'
  BY <1>0, <1>1, <1>2, <1>3 DEF Sound, MovesTo
<1>7. Fresh(r)'
  BY <1>3 DEF Fresh, MovesTo
<1>8. InvitesSound' /\ AsLastAsked'
  BY <1>1 DEF IInv, InvitesSound, AsLastAsked
<1>9. AcceptedSeated'
  BY <1>0, <1>1, <1>5, AcceptedStay DEF IInv, AcceptedSeated
<1>10. SeatsExplained'
  BY <1>1 DEF IInv, SeatsExplained, SeatExplained
<1>11. \A w \in Workspaces : WorkspaceWhole(w)'
  <2> TAKE w \in Workspaces
  <2>1. w \notin botched' => \A d \in Requests : req[d].at = "seat" /\ req[d].ws = w => Waits(d)
    BY <1>2, <1>3 DEF MovesTo
  <2> QED
    BY <1>0, <1>1, <1>5, <2>1, OtherWorkspaces DEF IInv, AllWhole
<1>12. \A p \in Projects : ProjectWhole(p)'
  <2> TAKE p \in Projects
  <2>1. p \notin botched' =>
          \A d \in Requests : req[d].at \in {"lead", "seed"} /\ req[d].id = p => Waits(d)
    BY <1>2, <1>3 DEF MovesTo
  <2> QED
    BY <1>0, <1>1, <1>4, <2>1, OtherProjects DEF IInv, AllWhole
<1>13. AllWhole'
  BY <1>11, <1>12 DEF AllWhole
<1> QED
  BY <1>1, <1>3, <1>5, <1>6, <1>7, <1>8, <1>9, <1>10, <1>13, Statement

-----------------------------------------------------------------------------
(* Statements that are a handler of their own.                             *)

LEMMA NoRequest ==
  ASSUME IInv, UNCHANGED <<accountVars, req, crew, botched, asked, doubtful, accepted, owner, seat>>,
         RowsOK', Grown,
         \A p \in Projects : /\ project'[p] # NoProject <=> project[p] # NoProject
                             /\ project'[p].creator = project[p].creator
                             /\ project'[p].states = project[p].states
                             /\ project'[p].on = project[p].on,
         InvitesSound', AcceptedSeated', SeatsExplained'
  PROVE  IInv'
<1>0. TypeOK /\ AInv /\ RequestsSound /\ OneCreator /\ AllFresh
  BY DEF IInv
<1>1. AInv' /\ AccountsOK'
  BY <1>0, AccountsAlone
<1>2. TypeOK'
  BY <1>0, <1>1 DEF TypeOK, RowsOK
<1>3. \A d \in Requests : Waits(d)
  BY DEF Waits
<1>4. RequestsSound'
  BY <1>0, <1>3, OtherSound DEF RequestsSound
<1>5. AllFresh'
  <2> SUFFICES ASSUME NEW d \in Requests PROVE Fresh(d)'
    BY DEF AllFresh
  <2>1. req[d].id \in Projects =>
          project'[req[d].id].on = project[req[d].id].on /\ crew'[req[d].id] = crew[req[d].id]
    OBVIOUS
  <2> QED
    BY <1>0, <1>3, <2>1, OtherFresh
<1>6. OneCreator' /\ AskedOK' /\ AsLastAsked'
  BY DEF IInv, OneCreator, AskedOK, AsLastAsked
<1>7. \A w \in Workspaces : WorkspaceWhole(w)'
  BY <1>0, <1>3, OtherWorkspaces DEF IInv, AllWhole
<1>8. \A p \in Projects : ProjectWhole(p)'
  BY <1>0, <1>3, OtherProjects DEF IInv, AllWhole
<1>9. AllWhole'
  BY <1>7, <1>8 DEF AllWhole
<1> QED
  BY <1>1, <1>2, <1>4, <1>5, <1>6, <1>9 DEF IInv

LEMMA CreateWorkspaceInviteKeeps ==
  ASSUME IInv, NEW u \in Users, NEW w \in Workspaces, NEW i \in Invites, NEW to \in Users,
         NEW role \in Roles, CreateWorkspaceInvite(u, w, i, to, role)
  PROVE  IInv'
<1> DEFINE new == [to |-> to, ws |-> w, role |-> role, accepted |-> FALSE]
<1>0. TypeOK
  BY DEF IInv
<1>1. /\ owner[w] # None /\ invite[i] = NoInvite /\ invite' = [invite EXCEPT ![i] = new]
      /\ UNCHANGED <<accountVars, owner, seat, project, crew, req, botched, accepted, asked, doubtful>>
  BY DEF CreateWorkspaceInvite, GetWorkspaceBySlug, histories
<1>2. /\ new \in Invite /\ new.ws = w /\ ~new.accepted
      /\ NoInvite.ws = None
  BY DEF Invite, NoInvite
<1> HIDE DEF new
<1>3. /\ invite' \in [Invites -> Invite] /\ invite'[i] = new
      /\ \A j \in Invites : j # i => invite'[j] = invite[j]
  BY <1>0, <1>1, <1>2 DEF TypeOK
<1>4. RowsOK'
  BY <1>0, <1>1, <1>3 DEF RowsOK, TypeOK
<1>5. Grown
  BY <1>1, <1>3 DEF Grown
<1>6. InvitesSound'
  BY <1>1, <1>2, <1>3 DEF IInv, InvitesSound
<1>7. AcceptedSeated'
  <2>1. \A j \in Invites : invite'[j].accepted => j # i
    BY <1>2, <1>3
  <2> QED
    BY <1>0, <1>1, <1>3, <1>5, <2>1, AcceptedStay DEF IInv, AcceptedSeated
<1>8. SeatsExplained'
  <2>1. ASSUME NEW v \in Workspaces, NEW j \in Invites, invite[j].ws = v
        PROVE  invite'[j] = invite[j]
    BY <1>1, <1>2, <1>3, <2>1, MembershipSets
  <2>2. ASSUME NEW v \in Workspaces, NEW x \in Users PROVE SeatExplained(v, x)'
    <3>1. SeatExplained(v, x)
      BY DEF IInv, SeatsExplained
    <3> QED
      BY <1>1, <2>1, <3>1 DEF SeatExplained
  <2> QED
    BY <2>2 DEF SeatsExplained
<1> QED
  BY <1>1, <1>4, <1>5, <1>6, <1>7, <1>8, NoRequest

LEMMA MarkKeeps ==
  ASSUME IInv, NEW u \in Users, NEW w \in Workspaces, NEW p \in Projects,
         SoftDeleteProject(u, w, p) \/ ArchiveProject(u, w, p) \/ UnarchiveProject(u, w, p)
  PROVE  IInv'
<1>0. TypeOK
  BY DEF IInv
<1>1. /\ project[p].ws = w
      /\ UNCHANGED <<accountVars, owner, seat, invite, crew, req, botched, accepted, asked, doubtful>>
  BY DEF SoftDeleteProject, ArchiveProject, UnarchiveProject, Mark, histories
<1>2. PICK new : /\ project' = [project EXCEPT ![p] = new]
                 /\ new \in {[project[p] EXCEPT !.deleted = TRUE],
                             [project[p] EXCEPT !.archived = TRUE],
                             [project[p] EXCEPT !.archived = FALSE]}
  BY DEF SoftDeleteProject, ArchiveProject, UnarchiveProject, Mark
<1>3. project \in [Projects -> Project] /\ project[p] \in Project
  BY <1>0 DEF TypeOK
<1>4. project[p] # NoProject
  BY <1>1, MembershipSets DEF NoProject
<1>5. /\ new \in Project /\ new.creator = project[p].creator /\ new.states = project[p].states
      /\ new.on = project[p].on /\ project[p].creator \in Users
  BY <1>2, <1>3, <1>4 DEF Project
<1>6. new # NoProject
  BY <1>5, MembershipSets DEF NoProject
<1>7. /\ project' \in [Projects -> Project] /\ project'[p] = new
      /\ \A o \in Projects : o # p => project'[o] = project[o]
  BY <1>2, <1>3, <1>5
<1>8. RowsOK'
  BY <1>0, <1>1, <1>7 DEF RowsOK, TypeOK
<1>9. Grown
  BY <1>1, <1>5, <1>6, <1>7 DEF Grown
<1>10. InvitesSound' /\ AcceptedSeated' /\ SeatsExplained'
  BY <1>1 DEF IInv, InvitesSound, AcceptedSeated, SeatsExplained, SeatExplained
<1>11. \A o \in Projects : /\ project'[o] # NoProject <=> project[o] # NoProject
                           /\ project'[o].creator = project[o].creator
                           /\ project'[o].states = project[o].states
                           /\ project'[o].on = project[o].on
  BY <1>4, <1>5, <1>6, <1>7
<1> QED
  BY <1>1, <1>8, <1>9, <1>10, <1>11, NoRequest

-----------------------------------------------------------------------------
(* The handlers that read before they write.                               *)

LEMMA IdleFields ==
  Idle \in [at : {"idle"}, user : {None}, ws : {None}, id : {None}, role : {NoRole},
            on : {{}}, switch : {None}, member : {None}, old : {FALSE}]
BY DEF Idle

LEMMA WorkspaceBegins ==
  ASSUME IInv, NEW r \in Requests, NEW u \in Users, NEW w \in Workspaces,
         \/ BeginCreateWorkspace(r, u, w)
         \/ \E p \in Projects : BeginCreateProject(r, u, w, p)
  PROVE  IInv'
<1>1. CASE BeginCreateWorkspace(r, u, w)
  <2> DEFINE more == [Idle EXCEPT !.ws = w]
  <2>1. more \in Request /\ more.ws = w
    BY IdleFields DEF Request, Steps
  <2>2. Begin(r, "create workspace", u, more)
    BY <1>1 DEF BeginCreateWorkspace
  <2> HIDE DEF more
  <2> QED
    BY <2>1, <2>2, BeginKeeps DEF Beginnings
<1>2. ASSUME NEW p \in Projects, BeginCreateProject(r, u, w, p) PROVE IInv'
  <2> DEFINE more == [Idle EXCEPT !.ws = w, !.id = p]
  <2>1. more \in Request /\ more.ws = w /\ more.id = p
    BY IdleFields DEF Request, Steps
  <2>2. Begin(r, "create project", u, more)
    BY <1>2 DEF BeginCreateProject
  <2> HIDE DEF more
  <2> QED
    BY <2>1, <2>2, BeginKeeps DEF Beginnings
<1> QED
  BY <1>1, <1>2

LEMMA InviteBegins ==
  ASSUME IInv, NEW r \in Requests, NEW u \in Users, NEW i \in Invites, GetInvite(r, u, i)
  PROVE  IInv'
<1> DEFINE more == [Idle EXCEPT !.id = i, !.ws = invite[i].ws, !.role = invite[i].role]
<1>1. invite[i] # NoInvite /\ Begin(r, "join", u, more)
  BY DEF GetInvite
<1>2. invite[i].ws \in Workspaces /\ invite[i].role \in Roles
  BY <1>1 DEF IInv, TypeOK, Invite
<1>3. more \in Request /\ more.id = i /\ more.ws = invite[i].ws /\ more.role = invite[i].role
  BY <1>2, IdleFields DEF Request, Steps
<1> HIDE DEF more
<1> QED
  BY <1>1, <1>2, <1>3, BeginKeeps DEF Beginnings

LEMMA PatchBegins ==
  ASSUME IInv, NEW r \in Requests, NEW u \in Users, NEW w \in Workspaces, NEW p \in Projects,
         NEW s \in Switches, NEW value \in BOOLEAN, BeginUpdateProject(r, u, w, p, s, value)
  PROVE  IInv'
<1> DEFINE on == With(project[p].on, s, value)
           more == [Idle EXCEPT !.ws = w, !.id = p, !.switch = s, !.on = on]
<1>1. project[p].ws = w /\ Begin(r, "switch", u, more)
  BY DEF BeginUpdateProject, GetProjectByID
<1>2. project[p] # NoProject
  BY <1>1, MembershipSets DEF NoProject
<1>3. project[p].on \in SUBSET Switches
  BY <1>2 DEF IInv, TypeOK, Project
<1>4. on \in SUBSET Switches /\ on = With(project[p].on, s, value)
  BY <1>3 DEF With
<1> HIDE DEF on
<1>5. Idle \in Request
  BY IdleFields DEF Request, Steps
<1>6. more \in Request /\ more.id = p /\ more.switch = s /\ more.on = on
  BY <1>4, <1>5 DEF Request
<1> HIDE DEF more
<1>7. /\ project[more.id] # NoProject /\ more.switch \in Switches /\ more.id \in Projects
      /\ more.on = With(project[more.id].on, more.switch, value)
  BY <1>2, <1>4, <1>6
<1>8. Begin(r, "switch", u, more) /\ "switch" \in Beginnings
  BY <1>1 DEF Beginnings
<1> QED
  BY <1>6, <1>7, <1>8, BeginKeeps

LEMMA MemberBegins ==
  ASSUME IInv, NEW r \in Requests, NEW u \in Users, NEW w \in Workspaces, NEW p \in Projects,
         NEW m \in Users, NEW role \in Roles,
         \/ GetWorkspaceMemberRole(r, u, w, p, m, role)
         \/ BeginUpdateMember(r, u, w, p, m, role)
         \/ BeginUpdateMember(r, u, w, p, m, NoRole)
  PROVE  IInv'
<1>1. PICK step \in {"enlist", "role", "keep role"}, x \in Roles :
        /\ Begin(r, step, u, [Idle EXCEPT !.ws = w, !.id = p, !.member = m, !.role = x])
        /\ step = "keep role" => x = crew[p][m]
  <2>1. CASE GetWorkspaceMemberRole(r, u, w, p, m, role)
    BY <2>1 DEF GetWorkspaceMemberRole
  <2>2. CASE BeginUpdateMember(r, u, w, p, m, role)
    <3>1. role # NoRole
      BY DEF Roles, Guest, Member, Admin, NoRole
    <3> QED
      BY <2>2, <3>1 DEF BeginUpdateMember
  <2>3. CASE BeginUpdateMember(r, u, w, p, m, NoRole)
    <3>1. crew[p][m] \in Roles
      <4>1. crew \in [Projects -> [Users -> Roles \cup {NoRole}]]
        BY DEF IInv, TypeOK
      <4> QED
        BY <2>3, <4>1 DEF BeginUpdateMember
    <3> QED
      BY <2>3, <3>1 DEF BeginUpdateMember
  <2> QED
    BY <2>1, <2>2, <2>3
<1> DEFINE more == [Idle EXCEPT !.ws = w, !.id = p, !.member = m, !.role = x]
<1>2. more \in Request /\ more.id = p /\ more.member = m /\ more.role = x
  BY IdleFields DEF Request, Steps
<1>3. Begin(r, step, u, more)
  BY <1>1
<1> HIDE DEF more
<1>4. /\ step \in Beginnings /\ step \notin {"create workspace", "join", "create project", "switch"}
      /\ more.id \in Projects /\ more.member \in Users /\ more.role \in Roles
      /\ step = "keep role" => more.role = crew[more.id][more.member]
  BY <1>1, <1>2 DEF Beginnings
<1> QED
  BY <1>2, <1>3, <1>4, BeginKeeps

-----------------------------------------------------------------------------
(* The inductive invariant, and what it means.                             *)

LEMMA RowsAlone == ASSUME IInv, AInv', UNCHANGED <<memberRows, req, histories>> PROVE IInv'
<1>1. /\ owner' = owner /\ seat' = seat /\ invite' = invite /\ project' = project /\ crew' = crew
      /\ botched' = botched /\ accepted' = accepted /\ asked' = asked /\ doubtful' = doubtful
      /\ req' = req
  BY DEF memberRows, histories
<1>2. TypeOK' /\ AskedOK'
  BY <1>1 DEF IInv, TypeOK, AskedOK, AInv
<1>3. RequestsSound' /\ OneCreator' /\ InvitesSound' /\ AllFresh' /\ AsLastAsked'
  <2>1. RequestsSound' /\ InvitesSound'
    <3>1. RequestsSound'
      BY <1>1, SoundStays DEF IInv, RequestsSound
    <3> QED
      BY <1>1, <3>1 DEF IInv, InvitesSound
  <2>2. OneCreator' /\ AllFresh' /\ AsLastAsked'
    BY <1>1 DEF IInv, OneCreator, AllFresh, Fresh, With, AsLastAsked
  <2> QED
    BY <2>1, <2>2
<1>4. AllWhole'
  <2>1. (\A w \in Workspaces : WorkspaceWhole(w)')
    BY <1>1 DEF IInv, AllWhole, WorkspaceWhole
  <2>2. (\A p \in Projects : ProjectWhole(p)')
    BY <1>1 DEF IInv, AllWhole, ProjectWhole
  <2> QED
    BY <2>1, <2>2 DEF AllWhole
<1>5. AcceptedSeated' /\ SeatsExplained'
  BY <1>1 DEF IInv, AcceptedSeated, SeatsExplained, SeatExplained
<1> QED
  BY <1>2, <1>3, <1>4, <1>5 DEF IInv

LEMMA Inductive == IInv /\ [Next]_vars => IInv'
<1> SUFFICES ASSUME IInv, [Next]_vars PROVE IInv'
  OBVIOUS
<1>1. CASE AccountsNext /\ UNCHANGED <<memberRows, req, histories>>
  BY <1>1, AccountsInductive, RowsAlone DEF IInv
<1>2. CASE \E r \in Requests, u \in Users, w \in Workspaces :
       \/ BeginCreateWorkspace(r, u, w)
       \/ \E p \in Projects : \/ BeginCreateProject(r, u, w, p)
                              \/ \E s \in Switches, value \in BOOLEAN :
                                   BeginUpdateProject(r, u, w, p, s, value)
       \/ \E p \in Projects, m \in Users : \E role \in Roles :
            \/ GetWorkspaceMemberRole(r, u, w, p, m, role)
            \/ BeginUpdateMember(r, u, w, p, m, role) \/ BeginUpdateMember(r, u, w, p, m, NoRole)
  <2> PICK r \in Requests, u \in Users, w \in Workspaces :
       \/ BeginCreateWorkspace(r, u, w)
       \/ \E p \in Projects : \/ BeginCreateProject(r, u, w, p)
                              \/ \E s \in Switches, value \in BOOLEAN :
                                   BeginUpdateProject(r, u, w, p, s, value)
       \/ \E p \in Projects, m \in Users : \E role \in Roles :
            \/ GetWorkspaceMemberRole(r, u, w, p, m, role)
            \/ BeginUpdateMember(r, u, w, p, m, role) \/ BeginUpdateMember(r, u, w, p, m, NoRole)
    BY <1>2
  <2> QED
    BY WorkspaceBegins, PatchBegins, MemberBegins
<1>3. CASE \E r \in Requests, u \in Users, i \in Invites : GetInvite(r, u, i)
  BY <1>3, InviteBegins
<1>4. ASSUME NEW r \in Requests,
             \/ CreateWorkspace(r) \/ AddOwner(r) \/ AddInvited(r) \/ AcceptInvite(r)
             \/ CreateProject(r) \/ AddCreator(r) \/ SeedDefaults(r)
             \/ UpdateProjectFeatures(r) \/ AddProjectMember(r)
             \/ UpdateProjectMemberRole(r) \/ StatementFails(r)
      PROVE  IInv'
  BY <1>4, CreateWorkspaceKeeps, AddOwnerKeeps, AddInvitedKeeps, AcceptInviteKeeps,
     CreateProjectKeeps, AddCreatorKeeps, SeedDefaultsKeeps, UpdateProjectFeaturesKeeps,
     AddProjectMemberKeeps, UpdateProjectMemberRoleKeeps, StatementFailsKeeps
<1>5. CASE \E u, to \in Users, w \in Workspaces, i \in Invites, role \in Roles :
             CreateWorkspaceInvite(u, w, i, to, role)
  BY <1>5, CreateWorkspaceInviteKeeps
<1>6. CASE \E u \in Users, w \in Workspaces, p \in Projects :
             SoftDeleteProject(u, w, p) \/ ArchiveProject(u, w, p) \/ UnarchiveProject(u, w, p)
  BY <1>6, MarkKeeps
<1>7. CASE UNCHANGED vars
  <2>1. UNCHANGED accountVars /\ UNCHANGED <<memberRows, req, histories>>
    BY <1>7 DEF vars
  <2> QED
    BY <2>1, AccountsAlone, RowsAlone DEF IInv
<1> QED
  BY <1>1, <1>2, <1>3, <1>4, <1>5, <1>6, <1>7 DEF Next

\* Every statement of every handler keeps the inductive invariant.
THEOREM Invariant == Spec => []IInv
<1>1. Init => IInv
  BY Start
<1>2. IInv /\ [Next]_vars => IInv'
  BY Inductive
<1> QED
  BY <1>1, <1>2, PTL DEF Spec

\* The rows of accounts, sessions, workspaces, invitations, projects and their crews
\* keep their shape, and every session is of a user that exists
\* (auth/handlers.go, workspace/handlers.go, project/handlers.go).
THEOREM TypeCorrect == Spec => []TypeOK
BY Invariant, PTL DEF IInv

LEMMA WholeThen == IInv => CreatedWhole
<1> SUFFICES ASSUME IInv PROVE CreatedWhole
  OBVIOUS
<1>0. TypeOK
  BY DEF IInv
<1>1. ASSUME NEW w \in Workspaces \ botched, owner[w] # None, ~Making(w)
      PROVE  w \in DOMAIN ListUserWorkspaces(owner[w]) /\ ListUserWorkspaces(owner[w])[w] = Admin
  <2>1. seat[w][owner[w]] = Admin
    BY <1>1 DEF IInv, AllWhole, WorkspaceWhole, Making
  <2>2. Admin # NoRole
    BY DEF Admin, NoRole
  <2> QED
    BY <1>1, <2>1, <2>2 DEF ListUserWorkspaces
<1>2. ASSUME NEW p \in Projects \ botched, project[p] # NoProject, ~Making(p)
      PROVE  /\ Retrieve(project[p].creator, project[p].ws, p) # 409
             /\ project[p].states = DefaultStates
  <2>1. crew[p][project[p].creator] # NoRole /\ project[p].states = DefaultStates
    BY <1>2 DEF IInv, AllWhole, ProjectWhole, Making
  <2> QED
    BY <2>1 DEF Retrieve
<1> QED
  BY <1>1, <1>2 DEF CreatedWhole

\* A workspace that its creator has been told of with 201 has its owner for an Admin, a
\* project its creator on the crew and all of its default states
\* (workspace/handlers.go create, project/handlers.go create).
THEOREM Whole == Spec => []MembershipInv
<1>1. IInv => MembershipInv
  BY WholeThen DEF IInv, MembershipInv
<1> QED
  BY <1>1, Invariant, PTL

\* An accepted invitation has somebody sitting, and every seat an explanation
\* (acceptInvites in workspace/handlers.go).
THEOREM SeatsMatch == Spec => []InvitesMatchSeats
<1>1. IInv => InvitesMatchSeats
  BY DEF IInv, AcceptedSeated, SeatsExplained, SeatExplained, InvitesMatchSeats,
     ListInvitesForEmail
<1> QED
  BY <1>1, Invariant, PTL

\* Whoever has a seat keeps it with its role: "on conflict do nothing".
THEOREM SeatsAreKept == Spec => SeatsStay
<1> DEFINE Stay == \A w \in Workspaces, u \in Users :
                     seat[w][u] # NoRole => seat'[w][u] = seat[w][u]
<1>1. IInv /\ [Next]_vars => [Stay]_vars
  <2> SUFFICES ASSUME IInv, Next, seat' # seat PROVE Stay
    BY DEF vars, memberRows
  <2>1. PICK r \in Requests : AddOwner(r) \/ AddInvited(r)
    <3>1. CASE AccountsNext /\ UNCHANGED <<memberRows, req, histories>>
      BY <3>1 DEF memberRows
    <3>2. CASE \E r \in Requests : \/ CreateWorkspace(r) \/ AcceptInvite(r) \/ CreateProject(r)
                 \/ AddCreator(r) \/ SeedDefaults(r) \/ UpdateProjectFeatures(r)
                 \/ AddProjectMember(r) \/ UpdateProjectMemberRole(r) \/ StatementFails(r)
      BY <3>2 DEF memberRows, CreateWorkspace, AcceptInvite, CreateProject, AddCreator,
         SeedDefaults, UpdateProjectFeatures, AddProjectMember, UpdateProjectMemberRole,
         StatementFails
    <3>3. \A u, to \in Users, w \in Workspaces, i \in Invites, role \in Roles :
            ~CreateWorkspaceInvite(u, w, i, to, role)
      BY DEF CreateWorkspaceInvite
    <3>4. \A u \in Users, w \in Workspaces, p \in Projects :
            ~(SoftDeleteProject(u, w, p) \/ ArchiveProject(u, w, p) \/ UnarchiveProject(u, w, p))
      BY DEF SoftDeleteProject, ArchiveProject, UnarchiveProject, Mark
    <3>5. ASSUME NEW r \in Requests, NEW u \in Users, NEW w \in Workspaces, NEW p \in Projects
          PROVE  /\ ~BeginCreateProject(r, u, w, p)
                 /\ \A s \in Switches, value \in BOOLEAN : ~BeginUpdateProject(r, u, w, p, s, value)
                 /\ \A m \in Users, role \in Roles \cup {NoRole} :
                      /\ ~GetWorkspaceMemberRole(r, u, w, p, m, role)
                      /\ ~BeginUpdateMember(r, u, w, p, m, role)
      BY DEF BeginCreateProject, BeginUpdateProject, GetWorkspaceMemberRole, BeginUpdateMember,
         Begin, memberRows
    <3>6. \A r \in Requests, u \in Users, w \in Workspaces : ~BeginCreateWorkspace(r, u, w)
      BY DEF BeginCreateWorkspace, Begin, memberRows
    <3>7. \A r \in Requests, u \in Users, i \in Invites : ~GetInvite(r, u, i)
      BY DEF GetInvite, Begin, memberRows
    <3> QED
      BY <3>1, <3>2, <3>3, <3>4, <3>5, <3>6, <3>7 DEF Next
  <2>2. seat \in [Workspaces -> [Users -> Roles \cup {NoRole}]]
    BY DEF IInv, TypeOK
  <2>3. PICK role : seat' = Seated(req[r].ws, req[r].user, role)
    BY <2>1 DEF AddOwner, AddInvited
  <2>4. ASSUME NEW w \in Workspaces, NEW u \in Users, seat[w][u] # NoRole
        PROVE  seat'[w][u] = seat[w][u]
    BY <2>2, <2>3, <2>4 DEF Seated
  <2> QED
    BY <2>4
<1>2. Spec => [][Stay]_vars
  BY <1>1, Invariant, PTL DEF Spec
<1> QED
  BY <1>2 DEF SeatsStay

\* Roles and switches are as last asked for, unless a PATCH has written back what it had
\* read before another request wrote (update and updateMember in project/handlers.go).
THEOREM LastAskedHolds == Spec => []AsLastAsked
BY Invariant, PTL DEF IInv

\* After deactivate no session of the account is left and its password opens nothing
\* (userextra/handlers.go deactivate), for whoever had nothing else underway.
THEOREM StaysOut == Spec => []DeactivatedStaysOut
<1>1. IInv => DeactivatedStaysOut
  BY DEF IInv, AInv, NobodyUnderway, LeftAlone, SessionsOf, DeactivatedStaysOut
<1> QED
  BY <1>1, Invariant, PTL

\* ChangePassword never adds to the sessions that signing up and in have started
\* (userextra/handlers.go ChangePassword).
THEOREM SessionsBounded == Spec => []SessionsCounted
<1>1. IInv => SessionsCounted
  <2> SUFFICES ASSUME IInv, NEW u \in Users \ unrotated
               PROVE  Cardinality({s \in sessions : s.user = u}) <= entered[u]
    BY DEF SessionsCounted
  <2>1. RoomFor(u) /\ entered[u] \in Nat
    BY DEF IInv, AInv, RoomToRenew, AccountsOK
  <2>2. Cardinality(SessionsOf(u)) \in Nat /\ Cardinality(Renewing(u)) \in Nat
    BY <2>1, FS_CardinalityType DEF RoomFor
  <2> QED
    BY <2>1, <2>2 DEF RoomFor, SessionsOf
<1> QED
  BY <1>1, Invariant, PTL
=============================================================================
