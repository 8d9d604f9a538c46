------------------------------ MODULE Sessions ------------------------------
(***************************************************************************)
(* How one user signs in, keeps a session alive by rotating its refresh    *)
(* token, and loses it: by logging out, by changing the password, by being *)
(* suspended, or by presenting a token that was already exchanged.         *)
(*                                                                         *)
(* Every handler is a database transaction of its own thread, at READ      *)
(* COMMITTED.  It reads (and locks, where the code does), decides, and     *)
(* writes when it commits; an UPDATE of many rows locks them one by one,   *)
(* in an order nobody chose, and sees only the rows that were there when   *)
(* it began.                                                               *)
(***************************************************************************)
EXTENDS Integers, FiniteSets

CONSTANTS
  Threads,       \* the server's threads
  Tokens,        \* the identities of refresh tokens
  Passwords,
  MaxFailures,   \* settings.MAX_FAILED_LOGIN_ATTEMPTS
  None           \* nobody

ASSUME MaxFailuresAssumption == MaxFailures \in Nat \ {0}
ASSUME NobodyAssumption == None \notin Threads
ASSUME FiniteAssumption == IsFiniteSet(Threads) /\ IsFiniteSet(Tokens) /\ Tokens # {}

VARIABLES
  user,       \* the user's row
  tokens,     \* the refresh tokens there are
  request,    \* what each thread is in the middle of
  holder,     \* who has locked a row
  misses      \* wrong passwords answered since the last one that was right

vars == <<user, tokens, request, holder, misses>>

-----------------------------------------------------------------------------
(* State.                                                                  *)

(* locked: locked_until lies in the future.                                *)
UserRows ==
  [password : Passwords, failed : 0 .. MaxFailures - 1, locked : BOOLEAN, suspended : BOOLEAN]

(* That a token has expired only makes refresh_session() refuse it.        *)
TokenRows == [family : Tokens, rotated : BOOLEAN, revoked : BOOLEAN]

User == "user"
Rows == Tokens \cup {User}

Issuing == {"login", "google", "refresh"}
Revoking == {"reuse", "logout", "change_password", "suspend"}
Ops == Issuing \cup Revoking \cup {"none", "miss", "reinstate"}

(* The columns of the user's row whose loaded values a handler goes by     *)
(* after its decision, to write them or to compare them with what it was   *)
(* sent.                                                                   *)
GoesBy(op) ==
  CASE op = "login" -> {"password"}
    [] op \in {"miss", "google"} -> {"failed"}
    [] op = "change_password" -> {"password", "failed", "locked"}
    [] op = "suspend" -> {"suspended"}
    [] op = "reinstate" -> {"failed", "locked", "suspended"}
    [] OTHER -> {}

(* read: those columns.  revokes: the rows an UPDATE found, and rows:      *)
(* those it has still to lock.                                             *)
Requests ==
  [op : Ops, token : Tokens, read : UserRows, revokes : SUBSET Tokens, rows : SUBSET Tokens]

TypeOK ==
  /\ user \in UserRows
  /\ DOMAIN tokens \subseteq Tokens
  /\ \A t \in DOMAIN tokens : tokens[t] \in TokenRows
  /\ request \in [Threads -> Requests]
  /\ holder \in [Rows -> Threads \cup {None}]
  /\ misses \in 0 .. MaxFailures

AnyToken == CHOOSE t \in Tokens : TRUE

NoRequest ==
  [op |-> "none", token |-> AnyToken, read |-> CHOOSE row \in UserRows : TRUE,
   revokes |-> {}, rows |-> {}]

(* A user who has registered and not signed in yet.                        *)
Init ==
  /\ \E p \in Passwords :
       user = [password |-> p, failed |-> 0, locked |-> FALSE, suspended |-> FALSE]
  /\ tokens = << >>
  /\ request = [s \in Threads |-> NoRequest]
  /\ holder = [r \in Rows |-> None]
  /\ misses = 0

-----------------------------------------------------------------------------
(* A handler begins and ends.                                              *)

Open(s, row) == holder[row] \in {None, s}

CanAuthenticate(row) == ~row.locked /\ ~row.suspended

(* Bound: no session is asked for that no token would be left for.         *)
TokenLeft ==
  Cardinality({s \in Threads : request[s].op \in Issuing})
    < Cardinality(Tokens \ DOMAIN tokens)

Begins(s, op, t, found) ==
  /\ request[s].op = "none"
  /\ request' = [request EXCEPT ![s] =
       [op |-> op, token |-> t, revokes |-> found, rows |-> found,
        read |-> [c \in DOMAIN user |->
                    IF c \in GoesBy(op) THEN user[c] ELSE NoRequest.read[c]]]]
  /\ UNCHANGED <<user, tokens, misses>>

Locks(s, row) == Open(s, row) /\ holder' = [holder EXCEPT ![row] = s]

(* Bug: the transaction is left open.                                      *)
BugEnds(s) ==
  /\ request' = [request EXCEPT ![s] = NoRequest]
  /\ UNCHANGED holder

Ends(s) ==
  /\ request' = [request EXCEPT ![s] = NoRequest]
  /\ holder' = [r \in Rows |-> IF holder[r] = s THEN None ELSE holder[r]]

(* A column is written only if it differs from what was loaded.            *)
Cleared(s) ==
  [user EXCEPT !.failed = IF request[s].read.failed = 0 THEN @ ELSE 0,
               !.locked = IF request[s].read.locked THEN FALSE ELSE @]

With(rows, t, family) ==
  [u \in DOMAIN rows \cup {t} |->
     IF u = t THEN [family |-> family, rotated |-> FALSE, revoked |-> FALSE] ELSE rows[u]]

NewToken == CHOOSE t \in Tokens : t \notin DOMAIN tokens

-----------------------------------------------------------------------------
(* Signing in.                                                             *)

(* Bug: the row is read without its lock.                                  *)
BugLogin(s, password) ==
  /\ TokenLeft /\ CanAuthenticate(user)
  /\ Begins(s, IF password = user.password THEN "login" ELSE "miss", AnyToken, {})
  /\ UNCHANGED holder

(* The row is locked and read again before anything is decided.            *)
Login(s, password) ==
  /\ TokenLeft /\ CanAuthenticate(user)
  /\ Begins(s, IF password = user.password THEN "login" ELSE "miss", AnyToken, {})
  /\ Locks(s, User)

FinishLogin(s) ==
  /\ request[s].op = "login"
  /\ user' = [user EXCEPT !.failed = 0, !.locked = FALSE]
  /\ tokens' = With(tokens, NewToken, NewToken)
  /\ misses' = 0
  /\ Ends(s)

(* Bug: one failure too many is allowed.                                   *)
BugFinishMiss(s) ==
  /\ request[s].op = "miss"
  /\ LET failed == request[s].read.failed + 1 IN
     IF failed > MaxFailures
     THEN user' = [user EXCEPT !.failed = 0, !.locked = TRUE] /\ misses' = 0
     ELSE user' = [user EXCEPT !.failed = failed] /\ misses' = misses + 1
  /\ Ends(s) /\ UNCHANGED tokens

(* The last failure allowed locks the account and starts the count anew.   *)
FinishMiss(s) ==
  /\ request[s].op = "miss"
  /\ LET failed == request[s].read.failed + 1 IN
     IF failed >= MaxFailures
     THEN user' = [user EXCEPT !.failed = 0, !.locked = TRUE] /\ misses' = 0
     ELSE user' = [user EXCEPT !.failed = failed] /\ misses' = misses + 1
  /\ Ends(s) /\ UNCHANGED tokens

(* Google vouches for the user; the row is not locked.                     *)
GoogleSignIn(s) ==
  /\ TokenLeft /\ CanAuthenticate(user)
  /\ Begins(s, "google", AnyToken, {})
  /\ UNCHANGED holder

FinishGoogle(s) ==
  /\ request[s].op = "google" /\ Open(s, User)
  /\ user' = [user EXCEPT !.failed = Cleared(s).failed]
  /\ tokens' = With(tokens, NewToken, NewToken)
  /\ misses' = 0
  /\ Ends(s)

-----------------------------------------------------------------------------
(* Rotation.                                                               *)

Spent(t) == tokens[t].rotated \/ tokens[t].revoked

(* Bug: the token is read without its lock.                                *)
BugRefresh(s, t) ==
  /\ t \in DOMAIN tokens /\ ~Spent(t)
  /\ CanAuthenticate(user) /\ TokenLeft
  /\ Begins(s, "refresh", t, {})
  /\ UNCHANGED holder

Refresh(s, t) ==
  /\ t \in DOMAIN tokens /\ ~Spent(t)
  /\ CanAuthenticate(user) /\ TokenLeft
  /\ Begins(s, "refresh", t, {})
  /\ Locks(s, t)

(* The new token refers to the user's row, which must not be locked.       *)
FinishRefresh(s) ==
  /\ request[s].op = "refresh" /\ Open(s, User)
  /\ tokens' = With([tokens EXCEPT ![request[s].token].rotated = TRUE], NewToken,
                    tokens[request[s].token].family)
  /\ Ends(s) /\ UNCHANGED <<user, misses>>

-----------------------------------------------------------------------------
(* Revocation.                                                             *)

Unrevoked == {t \in DOMAIN tokens : ~tokens[t].revoked}

Family(t) == {u \in Unrevoked : tokens[u].family = tokens[t].family}

(* A token that was exchanged or revoked before ends its family.           *)
Reuse(s, t) ==
  /\ t \in DOMAIN tokens /\ Spent(t)
  /\ Begins(s, "reuse", AnyToken, Family(t))
  /\ Locks(s, t)

LogOut(s, t) ==
  /\ t \in DOMAIN tokens /\ ~user.suspended
  /\ Begins(s, "logout", AnyToken, Family(t))
  /\ UNCHANGED holder

LogOutEverywhere(s) ==
  /\ ~user.suspended
  /\ Begins(s, "logout", AnyToken, Unrevoked)
  /\ UNCHANGED holder

ChangePassword(s) ==
  /\ ~user.suspended
  /\ Begins(s, "change_password", AnyToken, Unrevoked)
  /\ UNCHANGED holder

(* An administrator suspends the account, or reinstates it.                *)
Suspend(s) ==
  /\ Begins(s, "suspend", AnyToken, Unrevoked)
  /\ UNCHANGED holder

Reinstate(s) ==
  /\ Begins(s, "reinstate", AnyToken, {})
  /\ UNCHANGED holder

LockRow(s, t) ==
  /\ t \in request[s].rows
  /\ Locks(s, t)
  /\ request' = [request EXCEPT ![s].rows = @ \ {t}]
  /\ UNCHANGED <<user, tokens, misses>>

Revoked(s) ==
  [t \in DOMAIN tokens |->
     [tokens[t] EXCEPT !.revoked = @ \/ t \in request[s].revokes]]

FinishRevoking(s) ==
  /\ request[s].op \in {"reuse", "logout"} /\ request[s].rows = {}
  /\ tokens' = Revoked(s)
  /\ UNCHANGED <<user, misses>> /\ Ends(s)

(* The user's row is written when the session commits.                     *)
FinishPassword(s, password) ==
  /\ request[s].op = "change_password" /\ request[s].rows = {} /\ Open(s, User)
  /\ password # request[s].read.password
  /\ user' = [Cleared(s) EXCEPT !.password = password]
  /\ tokens' = Revoked(s) /\ misses' = 0
  /\ Ends(s)

FinishSuspension(s) ==
  /\ request[s].op = "suspend" /\ request[s].rows = {} /\ Open(s, User)
  /\ user' = [user EXCEPT !.suspended = IF request[s].read.suspended THEN @ ELSE TRUE]
  /\ tokens' = Revoked(s)
  /\ Ends(s) /\ UNCHANGED misses

FinishReinstatement(s) ==
  /\ request[s].op = "reinstate" /\ Open(s, User)
  /\ user' = [Cleared(s) EXCEPT !.suspended =
                IF request[s].read.suspended THEN FALSE ELSE @]
  /\ misses' = 0
  /\ Ends(s) /\ UNCHANGED tokens

-----------------------------------------------------------------------------
(* A handler that dies, or that the database aborts, leaves nothing.       *)
Rollback(s) ==
  /\ request[s].op # "none"
  /\ UNCHANGED <<user, tokens, misses>>
  /\ Ends(s)

(* What is left to lock is locked by others ...                            *)
Stuck(s) == request[s].rows # {} /\ \A t \in request[s].rows : ~Open(s, t)

WaitsFor(s) == {holder[t] : t \in request[s].rows}

(* ... and they wait for one another.                                      *)
Deadlocked(s) ==
  \E D \in SUBSET Threads :
    s \in D /\ \A d \in D : Stuck(d) /\ WaitsFor(d) \cap D # {}

BreakDeadlock(s) == Deadlocked(s) /\ Rollback(s)

LockoutPasses ==
  /\ user.locked
  /\ user' = [user EXCEPT !.locked = FALSE]
  /\ UNCHANGED <<tokens, request, holder, misses>>

Asks(s) ==
  \/ \E password \in Passwords : Login(s, password)
  \/ GoogleSignIn(s)
  \/ \E t \in Tokens : Refresh(s, t) \/ Reuse(s, t) \/ LogOut(s, t)
  \/ LogOutEverywhere(s) \/ ChangePassword(s) \/ Suspend(s) \/ Reinstate(s)

Goes(s) ==
  \/ FinishLogin(s) \/ FinishMiss(s) \/ FinishGoogle(s) \/ FinishRefresh(s)
  \/ \E t \in Tokens : LockRow(s, t)
  \/ FinishRevoking(s) \/ FinishSuspension(s) \/ FinishReinstatement(s)
  \/ \E password \in Passwords : FinishPassword(s, password)

Next ==
  \/ \E s \in Threads : Asks(s) \/ Goes(s) \/ Rollback(s)
  \/ LockoutPasses

Spec == Init /\ [][Next]_vars

(* A thread is scheduled, a lock is granted to those who wait for it, and  *)
(* the database notices a deadlock.                                        *)
Fairness == \A s \in Threads : SF_vars(Goes(s)) /\ WF_vars(BreakDeadlock(s))

FairSpec == Spec /\ Fairness

-----------------------------------------------------------------------------
(* Properties.                                                             *)

(* "Two concurrent refreshes cannot both rotate one token": a family is a  *)
(* chain, with one token at its end that has not been exchanged, however   *)
(* rotations, revocations and rollbacks interleave.                        *)
OneEndPerFamily ==
  \A t \in DOMAIN tokens :
    Cardinality({u \in DOMAIN tokens :
                   tokens[u].family = tokens[t].family /\ ~tokens[u].rotated}) = 1

(* "Concurrent attempts must serialise on the failed-attempt counter": no  *)
(* wrong password goes uncounted.                                          *)
EveryMissCounts == misses <= user.failed

(* What a sign-in by password checked still holds when its session is      *)
(* issued: the account is open and the password is the one it compared.    *)
SignInChecksHold ==
  [][\A s \in Threads :
       request[s].op = "login" /\ tokens' # tokens /\ request'[s] # request[s]
         => CanAuthenticate(user) /\ request[s].read.password = user.password]_vars

(* Every handler ends, even when revocations wait for each other's rows.   *)
EveryHandlerEnds == \A s \in Threads : request[s].op # "none" ~> request[s].op = "none"
=============================================================================
