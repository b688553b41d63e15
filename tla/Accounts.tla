------------------------------- MODULE Accounts -------------------------------
(***************************************************************************)
(* Accounts and their sessions: sign-up, sign-in, sign-out, the change of  *)
(* a password and the end of an account.  Each is a check followed by      *)
(* statements of their own.  The names and the profile of a user are left  *)
(* out, and so are the tokens against forgery: they are checked before     *)
(* anything is read.                                                       *)
(***************************************************************************)
EXTENDS Naturals, FiniteSets

CONSTANTS Users,     \* users, or the addresses they sign up with
          Passwords, \* those that are strong enough
          Scrambled, \* the random password of a deactivated account
          Keys,      \* random keys of sessions, each drawn once
          None,      \* nothing
          Calls      \* goroutines serving the requests of this module

ASSUME AccountSets == IsFiniteSet(Keys) /\ Scrambled \notin Passwords /\ None \notin Keys

VARIABLES account,  \* account[u]: is there a user row with the address, and is it active?
          password, \* password[u]
          sessions, \* rows of sessions
          drawn,    \* keys that have been drawn
          call,     \* call[c]: the handler c is in, its next statement, its locals
          overlap,  \* history: users whose account was deactivated in the middle of
                    \* another call of theirs, or not to the end
          entered,  \* history: entered[u]: sessions started by signing up or in
          unrotated \* history: users who changed a password without ending a session

accountVars == <<account, password, sessions, drawn, call, overlap, entered, unrotated>>

Session == [key : Keys, user : Users, expired : BOOLEAN]

Quiet == [at |-> "idle", user |-> None, key |-> None, password |-> None]
CallSteps == {"idle", "create", "start", "scramble", "forget", "set", "drop", "renew"}
Call == [at : CallSteps, user : Users \cup {None}, key : Keys \cup {None},
         password : Passwords \cup {None}]

AccountsOK ==
  /\ account \in [Users -> {"absent", "active", "inactive"}]
  /\ password \in [Users -> Passwords \cup {Scrambled, None}]
  /\ sessions \subseteq Session /\ drawn \subseteq Keys
  /\ call \in [Calls -> Call]
  /\ overlap \subseteq Users /\ unrotated \subseteq Users
  /\ entered \in [Users -> Nat]
  /\ \A s \in sessions : s.key \in drawn /\ account[s.user] # "absent"
  /\ \A s, t \in sessions : s.key = t.key => s = t

AccountsInit ==
  /\ account = [u \in Users |-> "absent"] /\ password = [u \in Users |-> None]
  /\ sessions = {} /\ drawn = {}
  /\ call = [c \in Calls |-> Quiet]
  /\ overlap = {} /\ entered = [u \in Users |-> 0] /\ unrotated = {}

-----------------------------------------------------------------------------
\* Require: the user of a session that has not expired.
Require(u, k) == \E s \in sessions : s.key = k /\ s.user = u /\ ~s.expired

Ask(c, step, u, k, pw) ==
  /\ call[c] = Quiet
  /\ call' = [call EXCEPT ![c] = [at |-> step, user |-> u, key |-> k, password |-> pw]]
  /\ UNCHANGED <<account, password, sessions, drawn, overlap, entered, unrotated>>

GoOn(c, step) == call' = [call EXCEPT ![c] = IF step = "idle" THEN Quiet
                                             ELSE [call[c] EXCEPT !.at = step]]

\* signUp: the address is looked up before the insert, which its unique index
\* refuses if somebody else has come first.
BeginSignUp(c, u, pw) == account[u] = "absent" /\ Ask(c, "create", u, None, pw)

CreateUser(c) ==
  LET u == call[c].user IN
  /\ call[c].at = "create"
  /\ IF account[u] # "absent" THEN GoOn(c, "idle") /\ UNCHANGED <<account, password>>
     ELSE /\ account' = [account EXCEPT ![u] = "active"]
          /\ password' = [password EXCEPT ![u] = call[c].password]
          /\ GoOn(c, "start")
  /\ UNCHANGED <<sessions, drawn, overlap, entered, unrotated>>

\* signIn: whether the account is active does not matter, its password does.
BeginSignIn(c, u, pw) ==
  /\ account[u] # "absent" /\ password[u] = pw
  /\ Ask(c, "start", u, None, None)

NewSession(u, k) == /\ k \notin drawn
                    /\ drawn' = drawn \cup {k}
                    /\ sessions' = sessions \cup {[key |-> k, user |-> u, expired |-> FALSE]}

StartSession(c, k) ==
  LET u == call[c].user IN
  /\ call[c].at = "start"
  /\ NewSession(u, k)
  /\ entered' = [entered EXCEPT ![u] = @ + 1]
  /\ GoOn(c, "idle")
  /\ UNCHANGED <<account, password, overlap, unrotated>>

SessionsWith(k) == {s \in sessions : s.key = k}

SignOut(k) ==
  /\ SessionsWith(k) # {}
  /\ sessions' = sessions \ SessionsWith(k)
  /\ UNCHANGED <<account, password, drawn, call, overlap, entered, unrotated>>

\* The clock passes expires_at.
Expire(s) ==
  /\ s \in sessions /\ ~s.expired
  /\ sessions' = (sessions \ {s}) \cup {[s EXCEPT !.expired = TRUE]}
  /\ UNCHANGED <<account, password, drawn, call, overlap, entered, unrotated>>

-----------------------------------------------------------------------------
(* deactivate.                                                             *)

BeginDeactivate(c, u, k) == Require(u, k) /\ Ask(c, "scramble", u, k, None)

\* Calls that have checked what the account was, and go on to write.
Underway(u) == {c \in Calls : call[c].user = u /\ call[c].at \in {"start", "set", "drop", "renew"}}

ScrambleLeavesPassword(c) ==
  LET u == call[c].user IN
  /\ call[c].at = "scramble"
  /\ account' = [account EXCEPT ![u] = "inactive"]
  /\ overlap' = IF Underway(u) # {} THEN overlap \cup {u} ELSE overlap
  /\ GoOn(c, "forget")
  /\ UNCHANGED <<password, sessions, drawn, entered, unrotated>>
Scramble(c) ==
  LET u == call[c].user IN
  /\ call[c].at = "scramble"
  /\ account' = [account EXCEPT ![u] = "inactive"]
  /\ password' = [password EXCEPT ![u] = Scrambled]
  /\ overlap' = IF Underway(u) # {} THEN overlap \cup {u} ELSE overlap
  /\ GoOn(c, "forget")
  /\ UNCHANGED <<sessions, drawn, entered, unrotated>>

\* All sessions of the user, not only the one the request came with.
ForgetSessions(c) ==
  /\ call[c].at = "forget"
  /\ sessions' = {s \in sessions : s.user # call[c].user}
  /\ GoOn(c, "idle")
  /\ UNCHANGED <<account, password, drawn, overlap, entered, unrotated>>

-----------------------------------------------------------------------------
(* ChangePassword: the old password is compared with the row that Require  *)
(* has read.                                                               *)

BeginChangePassword(c, u, k, old, new) ==
  /\ Require(u, k) /\ password[u] = old
  /\ Ask(c, "set", u, k, new)

SetPassword(c) ==
  /\ call[c].at = "set"
  /\ password' = [password EXCEPT ![call[c].user] = call[c].password]
  /\ GoOn(c, "drop")
  /\ UNCHANGED <<account, sessions, drawn, overlap, entered, unrotated>>

\* The session of the request is replaced by a new one.
DropSessionNever(c) ==
  /\ call[c].at = "drop"
  /\ GoOn(c, "renew")
  /\ UNCHANGED <<account, password, sessions, drawn, overlap, entered, unrotated>>
DropSession(c) ==
  LET old == SessionsWith(call[c].key) IN
  /\ call[c].at = "drop"
  /\ sessions' = sessions \ old
  /\ unrotated' = IF old = {} THEN unrotated \cup {call[c].user} ELSE unrotated
  /\ GoOn(c, "renew")
  /\ UNCHANGED <<account, password, drawn, overlap, entered>>

RenewSession(c, k) ==
  /\ call[c].at = "renew"
  /\ NewSession(call[c].user, k)
  /\ GoOn(c, "idle")
  /\ UNCHANGED <<account, password, overlap, entered, unrotated>>

\* A statement that fails ends the handler, except that ChangePassword goes on
\* when it cannot delete the old session.
CallFails(c) ==
  LET u == call[c].user IN
  /\ call[c].at # "idle"
  /\ GoOn(c, IF call[c].at = "drop" THEN "renew" ELSE "idle")
  /\ unrotated' = IF call[c].at = "drop" THEN unrotated \cup {u} ELSE unrotated
  /\ overlap' = IF call[c].at = "forget" THEN overlap \cup {u} ELSE overlap
  /\ UNCHANGED <<account, password, sessions, drawn, entered>>

AccountsNext ==
  \/ \E c \in Calls, u \in Users, pw \in Passwords :
       \/ BeginSignUp(c, u, pw) \/ BeginSignIn(c, u, pw)
       \/ \E k \in Keys, old \in Passwords : BeginChangePassword(c, u, k, old, pw)
  \/ \E c \in Calls, k \in Keys :
       \/ \E u \in Users : BeginDeactivate(c, u, k)
       \/ StartSession(c, k) \/ RenewSession(c, k)
  \/ \E c \in Calls : \/ CreateUser(c) \/ Scramble(c) \/ ForgetSessions(c)
                      \/ SetPassword(c) \/ DropSession(c) \/ CallFails(c)
  \/ \E k \in Keys : SignOut(k)
  \/ \E s \in sessions : Expire(s)

AccountsSpec == AccountsInit /\ [][AccountsNext]_accountVars

-----------------------------------------------------------------------------
(* Properties.                                                             *)

\* deactivate "deletes every session belonging to the user" and scrambles the
\* password "so old credentials can never sign in again" (userextra/handlers.go:67):
\* once it has returned, no session of the account is left and none can start, unless
\* a sign-in or a change of password was underway, or the delete failed.
DeactivatedStaysOut ==
  \A u \in Users \ overlap :
    (account[u] = "inactive" /\ \A c \in Calls : ~(call[c].user = u /\ call[c].at = "forget"))
      => /\ \A s \in sessions : s.user # u
         /\ password[u] = Scrambled

\* ChangePassword rotates the session: it never leaves a user with more sessions than
\* sign-ups and sign-ins have started, unless the session it came with was gone
\* already or could not be deleted.
SessionsCounted ==
  \A u \in Users \ unrotated : Cardinality({s \in sessions : s.user = u}) <= entered[u]
=============================================================================
