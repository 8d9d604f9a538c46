---------------------------- MODULE SessionsProofs ----------------------------
(***************************************************************************)
(* Machine-checked safety of a user's sessions, for any number of threads, *)
(* tokens and passwords, and any number of failures allowed.               *)
(*                                                                         *)
(* A handler that has locked a row decides on what the row still is when   *)
(* it commits; of the handlers that lock nothing, no property depends on   *)
(* what they have read.                                                    *)
(***************************************************************************)
EXTENDS Sessions, FiniteSetTheorems, TLAPS

-----------------------------------------------------------------------------
(* The strengthening.                                                      *)

(* What a request has decided on under a lock still is so.                 *)
StillSo(s) ==
  /\ request[s].op \in {"login", "miss"} => holder[User] = s
  /\ request[s].op = "login"
       => CanAuthenticate(user) /\ request[s].read.password = user.password
  /\ request[s].op = "miss" => request[s].read.failed = user.failed
  /\ request[s].op = "refresh"
       => /\ request[s].token \in DOMAIN tokens
          /\ ~tokens[request[s].token].rotated
          /\ holder[request[s].token] = s

(* A family is named for the token that it began with.                     *)
Rooted == \A t \in DOMAIN tokens : tokens[t].family \in DOMAIN tokens

HasOneEnd(family) ==
  \E u \in DOMAIN tokens : \A v \in DOMAIN tokens :
    (tokens[v].family = family /\ ~tokens[v].rotated) <=> v = u

ChainsEnd == \A t \in DOMAIN tokens : HasOneEnd(tokens[t].family)

Issuers == {s \in Threads : request[s].op \in Issuing}
Unused == Tokens \ DOMAIN tokens

(* The bound on tokens leaves one for each handler that will issue one.    *)
TokensLeft == Cardinality(Issuers) <= Cardinality(Unused)

IInv ==
  /\ TypeOK
  /\ \A s \in Threads : StillSo(s)
  /\ Rooted /\ ChainsEnd
  /\ TokensLeft
  /\ EveryMissCounts

-----------------------------------------------------------------------------
(* Typing and counting.                                                    *)

LEMMA NoRequestIsTyped ==
  ASSUME TypeOK
  PROVE  NoRequest \in Requests /\ NoRequest.read \in UserRows /\ NoRequest.op = "none"
         /\ AnyToken \in Tokens
  <1>1. AnyToken \in Tokens
    BY FiniteAssumption DEF AnyToken
  <1>2. (CHOOSE row \in UserRows : TRUE) \in UserRows
    BY DEF TypeOK
  <1> DEFINE read == CHOOSE row \in UserRows : TRUE
  <1> HIDE DEF read
  <1>3. NoRequest = [op |-> "none", token |-> AnyToken, read |-> read,
                     revokes |-> {}, rows |-> {}]
    BY DEF NoRequest, read
  <1> QED BY <1>1, <1>2, <1>3 DEF Requests, Ops, read

LEMMA UserIsARow == User \in Rows /\ Tokens \subseteq Rows
  BY DEF Rows

(* What a handler locks was free or its own; what it releases was its own. *)
LEMMA LocksOfOthers ==
  ASSUME TypeOK, NEW s \in Threads,
         holder' = holder \/ (\E row \in Rows : Locks(s, row)) \/ Ends(s)
  PROVE  /\ holder' \in [Rows -> Threads \cup {None}]
         /\ \A t \in Threads \ {s} : \A r \in Rows : holder[r] = t => holder'[r] = t
  <1>1. CASE holder' = holder
    BY <1>1 DEF TypeOK
  <1>2. CASE \E row \in Rows : Locks(s, row)
    BY <1>2, NobodyAssumption DEF TypeOK, Locks, Open
  <1>3. CASE Ends(s)
    BY <1>3, NobodyAssumption DEF TypeOK, Ends
  <1> QED BY <1>1, <1>2, <1>3

LEMMA Counts ==
  /\ IsFiniteSet(Issuers) /\ Cardinality(Issuers) \in Nat
  /\ IsFiniteSet(Unused) /\ Cardinality(Unused) \in Nat
  <1>1. Issuers \in SUBSET Threads /\ Unused \in SUBSET Tokens
    BY DEF Issuers, Unused
  <1> QED BY <1>1, FiniteAssumption, FS_Subset, FS_CardinalityType

LEMMA CountsNext ==
  /\ IsFiniteSet(Issuers') /\ Cardinality(Issuers') \in Nat
  /\ IsFiniteSet(Unused') /\ Cardinality(Unused') \in Nat
  <1>1. Issuers' \in SUBSET Threads /\ Unused' \in SUBSET Tokens
    BY DEF Issuers, Unused
  <1> QED BY <1>1, FiniteAssumption, FS_Subset, FS_CardinalityType

(* A token is there for whoever issues one.                                *)
LEMMA NewTokenIsNew ==
  ASSUME IInv, NEW s \in Threads, request[s].op \in Issuing
  PROVE  NewToken \in Tokens /\ NewToken \notin DOMAIN tokens
  <1>1. Issuers # {}
    BY DEF Issuers
  <1>2. Cardinality(Issuers) # 0
    BY <1>1, Counts, FS_EmptySet
  <1>3. Cardinality(Unused) # 0
    BY <1>2, Counts DEF IInv, TokensLeft
  <1>4. Unused # {}
    BY <1>3, FS_EmptySet
  <1> QED BY <1>4 DEF Unused, NewToken

-----------------------------------------------------------------------------
(* A request begins, or locks one row more.                                *)

LEMMA QuietStep ==
  ASSUME IInv, NEW s \in Threads, NEW x \in Requests, request' = [request EXCEPT ![s] = x],
         holder' = holder \/ (\E row \in Rows : Locks(s, row)),
         UNCHANGED <<user, tokens, misses>>, StillSo(s)', TokensLeft'
  PROVE  IInv'
  <1>1. /\ holder' \in [Rows -> Threads \cup {None}]
        /\ \A t \in Threads \ {s} : \A r \in Rows : holder[r] = t => holder'[r] = t
    BY LocksOfOthers DEF IInv
  <1>2. request'[s] = x /\ \A t \in Threads \ {s} : request'[t] = request[t]
    BY DEF IInv, TypeOK
  <1>3. ASSUME NEW t \in Threads \ {s} PROVE StillSo(t)'
    <2>1. StillSo(t) /\ request[t] \in Requests
      BY DEF IInv, TypeOK
    <2>2. request[t].token \in Rows /\ User \in Rows
      BY <2>1, UserIsARow DEF Requests
    <2> QED BY <1>1, <1>2, <2>1, <2>2 DEF StillSo, CanAuthenticate
  <1>4. TypeOK'
    BY <1>1 DEF IInv, TypeOK
  <1>5. Rooted' /\ ChainsEnd' /\ EveryMissCounts'
    BY DEF IInv, Rooted, ChainsEnd, HasOneEnd, EveryMissCounts
  <1> QED BY <1>3, <1>4, <1>5 DEF IInv

LEMMA BeginsPreserves ==
  ASSUME IInv, NEW s \in Threads, NEW op \in Ops, NEW t \in Tokens,
         NEW found \in SUBSET Tokens, Begins(s, op, t, found),
         holder' = holder \/ (\E row \in Rows : Locks(s, row)),
         op \in Issuing => TokenLeft,
         op \in {"login", "miss"} => holder'[User] = s /\ CanAuthenticate(user),
         op = "refresh" => t \in DOMAIN tokens /\ ~tokens[t].rotated /\ holder'[t] = s
  PROVE  IInv'
  <1> DEFINE read == [c \in DOMAIN user |-> IF c \in GoesBy(op) THEN user[c]
                                            ELSE NoRequest.read[c]]
  <1> DEFINE x == [op |-> op, token |-> t, revokes |-> found, rows |-> found, read |-> read]
  <1>1. user \in UserRows /\ NoRequest.read \in UserRows
    BY NoRequestIsTyped DEF IInv, TypeOK
  <1>2. DOMAIN user = {"password", "failed", "locked", "suspended"}
    BY <1>1 DEF UserRows
  <1>3. read \in UserRows
    BY <1>1, <1>2 DEF UserRows
  <1>4. op = "login" => read.password = user.password
    BY <1>2 DEF GoesBy
  <1>5. op = "miss" => read.failed = user.failed
    BY <1>2 DEF GoesBy
  <1>6. request' = [request EXCEPT ![s] = x] /\ UNCHANGED <<user, tokens, misses>>
        /\ request[s].op = "none"
    BY DEF Begins
  <1> HIDE DEF read
  <1>7. x \in Requests
    BY <1>3 DEF Requests
  <1>8. x.op = op /\ x.token = t /\ x.read = read
    OBVIOUS
  <1> HIDE DEF x
  <1>9. request'[s] = x /\ \A u \in Threads \ {s} : request'[u] = request[u]
    BY <1>6 DEF IInv, TypeOK
  <1>10. StillSo(s)'
    BY <1>4, <1>5, <1>6, <1>8, <1>9 DEF StillSo, CanAuthenticate
  <1>11. TokensLeft'
    <2>1. s \notin Issuers
      BY <1>6 DEF Issuers, Issuing
    <2>2. Unused' = Unused
      BY <1>6 DEF Unused
    <2>3. CASE op \in Issuing
      <3>1. Issuers' = Issuers \cup {s}
        BY <1>8, <1>9, <2>3 DEF Issuers
      <3>2. Cardinality(Issuers') = Cardinality(Issuers) + 1
        BY <2>1, <3>1, Counts, FS_AddElement
      <3>3. Cardinality(Issuers) < Cardinality(Unused)
        BY <2>3 DEF TokenLeft, Issuers, Unused
      <3> QED BY <2>2, <3>2, <3>3, Counts DEF TokensLeft
    <2>4. CASE op \notin Issuing
      <3>1. Issuers' = Issuers
        BY <1>8, <1>9, <2>1, <2>4 DEF Issuers
      <3> QED BY <2>2, <3>1 DEF IInv, TokensLeft
    <2> QED BY <2>3, <2>4
  <1> QED BY <1>6, <1>7, <1>10, <1>11, QuietStep

LEMMA LocksIt ==
  ASSUME TypeOK, NEW s, NEW row \in Rows, Locks(s, row)
  PROVE  holder'[row] = s
  BY DEF TypeOK, Locks

LEMMA FoundAreTokens ==
  ASSUME TypeOK
  PROVE  Unrevoked \in SUBSET Tokens /\ \A t : Family(t) \in SUBSET Tokens
  BY DEF TypeOK, Unrevoked, Family

LEMMA LoginPreserves ==
  ASSUME IInv, NEW s \in Threads, NEW password, Login(s, password)
  PROVE  IInv'
  <1> DEFINE op == IF password = user.password THEN "login" ELSE "miss"
  <1>1. Begins(s, op, AnyToken, {}) /\ Locks(s, User) /\ TokenLeft /\ CanAuthenticate(user)
    BY DEF Login
  <1>2. op \in Ops /\ op # "refresh"
    BY DEF Ops, Issuing
  <1>3. AnyToken \in Tokens /\ {} \in SUBSET Tokens
    BY NoRequestIsTyped DEF IInv
  <1>4. holder'[User] = s
    BY <1>1, LocksIt, UserIsARow DEF IInv
  <1> HIDE DEF op
  <1> QED BY <1>1, <1>2, <1>3, <1>4, BeginsPreserves, UserIsARow

LEMMA AsksPreserves ==
  ASSUME IInv, NEW s \in Threads, Asks(s)
  PROVE  IInv'
  <1>1. AnyToken \in Tokens /\ {} \in SUBSET Tokens
    BY NoRequestIsTyped DEF IInv
  <1>2. Unrevoked \in SUBSET Tokens /\ \A t : Family(t) \in SUBSET Tokens
    BY FoundAreTokens DEF IInv
  <1>3. CASE \E password \in Passwords : Login(s, password)
    BY <1>3, LoginPreserves
  <1>4. CASE GoogleSignIn(s)
    BY <1>1, <1>4, BeginsPreserves DEF GoogleSignIn, Ops, Issuing
  <1>5. CASE \E t \in Tokens : Refresh(s, t)
    <2>1. PICK t \in Tokens : Refresh(s, t)
      BY <1>5
    <2>2. holder'[t] = s
      BY <2>1, LocksIt, UserIsARow DEF Refresh, IInv
    <2>3. "refresh" \in Ops /\ ~tokens[t].rotated
      BY <2>1 DEF Refresh, Spent, Ops, Issuing
    <2> QED BY <1>1, <2>1, <2>2, <2>3, BeginsPreserves, UserIsARow DEF Refresh
  <1>6. CASE \E t \in Tokens : Reuse(s, t)
    BY <1>1, <1>2, <1>6, BeginsPreserves, UserIsARow DEF Reuse, Ops, Revoking, Issuing
  <1>7. CASE (\E t \in Tokens : LogOut(s, t)) \/ LogOutEverywhere(s)
    BY <1>1, <1>2, <1>7, BeginsPreserves DEF LogOut, LogOutEverywhere, Ops, Revoking, Issuing
  <1>8. CASE ChangePassword(s) \/ Suspend(s)
    BY <1>1, <1>2, <1>8, BeginsPreserves DEF ChangePassword, Suspend, Ops, Revoking, Issuing
  <1>9. CASE Reinstate(s)
    BY <1>1, <1>9, BeginsPreserves DEF Reinstate, Ops, Issuing
  <1> QED BY <1>3, <1>4, <1>5, <1>6, <1>7, <1>8, <1>9 DEF Asks

LEMMA LockRowPreserves ==
  ASSUME IInv, NEW s \in Threads, NEW t \in Tokens, LockRow(s, t)
  PROVE  IInv'
  <1> DEFINE x == [request[s] EXCEPT !.rows = @ \ {t}]
  <1>1. request[s] \in Requests /\ StillSo(s)
    BY DEF IInv, TypeOK
  <1>2. x \in Requests /\ x.op = request[s].op /\ x.token = request[s].token
        /\ x.read = request[s].read
    BY <1>1 DEF Requests
  <1>3. request' = [request EXCEPT ![s] = x]
    BY DEF LockRow
  <1> HIDE DEF x
  <1>4. request'[s] = x /\ \A u \in Threads \ {s} : request'[u] = request[u]
    BY <1>3 DEF IInv, TypeOK
  <1>5. Locks(s, t) /\ t \in Rows /\ UNCHANGED <<user, tokens, misses>>
    BY UserIsARow DEF LockRow
  <1>6. \A r \in Rows : holder[r] = s => holder'[r] = s
    BY <1>5 DEF Locks, IInv, TypeOK
  <1>7. request[s].token \in Rows /\ User \in Rows
    BY <1>1, UserIsARow DEF Requests
  <1>8. StillSo(s)'
    BY <1>1, <1>2, <1>4, <1>5, <1>6, <1>7 DEF StillSo, CanAuthenticate
  <1>9. TokensLeft'
    <2>1. Issuers' = Issuers /\ Unused' = Unused
      BY <1>2, <1>4, <1>5 DEF Issuers, Unused
    <2> QED BY <2>1 DEF IInv, TokensLeft
  <1> QED BY <1>2, <1>3, <1>5, <1>8, <1>9, QuietStep

-----------------------------------------------------------------------------
(* What becomes of the tokens.                                             *)

TypedTokens ==
  DOMAIN tokens \subseteq Tokens /\ \A t \in DOMAIN tokens : tokens[t] \in TokenRows

(* No token is taken away, and only who has locked one exchanges it.       *)
Exchanges(s) ==
  \A t \in DOMAIN tokens :
    t \in DOMAIN tokens' /\ (tokens'[t].rotated = tokens[t].rotated \/ holder[t] = s)

(* A token is added by who has announced one, or none is.                  *)
Adds(s) ==
  \/ DOMAIN tokens' = DOMAIN tokens
  \/ /\ request[s].op \in Issuing
     /\ \E t \in Unused : DOMAIN tokens' = DOMAIN tokens \cup {t}

TokensStand(s) ==
  TypedTokens' /\ Rooted' /\ ChainsEnd' /\ Exchanges(s) /\ Adds(s)

LEMMA SameTokens ==
  ASSUME IInv, NEW s, tokens' = tokens
  PROVE  TokensStand(s)
  BY DEF IInv, TypeOK, TokensStand, TypedTokens, Rooted, ChainsEnd, HasOneEnd, Exchanges, Adds

LEMMA RevokedStand ==
  ASSUME IInv, NEW s, tokens' = Revoked(s)
  PROVE  TokensStand(s)
  <1>1. DOMAIN tokens' = DOMAIN tokens
    BY DEF Revoked
  <1>2. \A t \in DOMAIN tokens : tokens[t] \in TokenRows
    BY DEF IInv, TypeOK
  <1>3. \A t \in DOMAIN tokens :
          /\ tokens'[t] \in TokenRows /\ tokens'[t].family = tokens[t].family
          /\ tokens'[t].rotated = tokens[t].rotated
    BY <1>2 DEF Revoked, TokenRows
  <1>4. TypedTokens' /\ Rooted' /\ Exchanges(s) /\ Adds(s)
    BY <1>1, <1>3 DEF IInv, TypeOK, TypedTokens, Rooted, Exchanges, Adds
  <1>5. ChainsEnd'
    <2>1. ASSUME NEW t \in DOMAIN tokens
          PROVE  \E u \in DOMAIN tokens : \A v \in DOMAIN tokens :
                   (tokens'[v].family = tokens'[t].family /\ ~tokens'[v].rotated) <=> v = u
      <3>1. PICK u \in DOMAIN tokens : \A v \in DOMAIN tokens :
              (tokens[v].family = tokens[t].family /\ ~tokens[v].rotated) <=> v = u
        BY DEF IInv, ChainsEnd, HasOneEnd
      <3> QED BY <1>3, <3>1
    <2> QED BY <1>1, <2>1 DEF ChainsEnd, HasOneEnd
  <1> QED BY <1>4, <1>5 DEF TokensStand

LEMMA FreshRow ==
  ASSUME NEW family \in Tokens, NEW row,
         row = [family |-> family, rotated |-> FALSE, revoked |-> FALSE]
  PROVE  row \in TokenRows /\ row.family = family /\ ~row.rotated
  BY DEF TokenRows

(* A session that begins is a family of its own.                           *)
LEMMA IssuedStand ==
  ASSUME IInv, NEW s \in Threads, request[s].op \in Issuing,
         tokens' = With(tokens, NewToken, NewToken)
  PROVE  TokensStand(s)
  <1> DEFINE new == NewToken
  <1>1. new \in Tokens /\ new \notin DOMAIN tokens
    BY NewTokenIsNew
  <1> HIDE DEF new
  <1>2. tokens' = [u \in DOMAIN tokens \cup {new} |->
                     IF u = new THEN [family |-> new, rotated |-> FALSE, revoked |-> FALSE]
                     ELSE tokens[u]]
    BY DEF With, new
  <1>3. /\ DOMAIN tokens' = DOMAIN tokens \cup {new}
        /\ tokens'[new] = [family |-> new, rotated |-> FALSE, revoked |-> FALSE]
        /\ \A t \in DOMAIN tokens : tokens'[t] = tokens[t]
    BY <1>1, <1>2
  <1>4. tokens'[new] \in TokenRows /\ tokens'[new].family = new /\ ~tokens'[new].rotated
    BY <1>1, <1>3 DEF TokenRows
  <1>5. TypedTokens' /\ Rooted'
    BY <1>1, <1>3, <1>4 DEF IInv, TypeOK, TypedTokens, Rooted
  <1>6. Exchanges(s) /\ Adds(s)
    BY <1>1, <1>3 DEF Exchanges, Adds, Unused
  <1>7. ChainsEnd'
    <2>1. \A t \in DOMAIN tokens : tokens[t].family # new
      BY <1>1 DEF IInv, Rooted
    <2>2. \A v \in DOMAIN tokens' :
            (tokens'[v].family = new /\ ~tokens'[v].rotated) <=> v = new
      BY <1>3, <1>4, <2>1
    <2>3. ASSUME NEW t \in DOMAIN tokens
          PROVE  \E u \in DOMAIN tokens' : \A v \in DOMAIN tokens' :
                   (tokens'[v].family = tokens'[t].family /\ ~tokens'[v].rotated) <=> v = u
      <3>1. PICK u \in DOMAIN tokens : \A v \in DOMAIN tokens :
              (tokens[v].family = tokens[t].family /\ ~tokens[v].rotated) <=> v = u
        BY DEF IInv, ChainsEnd, HasOneEnd
      <3>2. \A v \in DOMAIN tokens' :
              (tokens'[v].family = tokens'[t].family /\ ~tokens'[v].rotated) <=> v = u
        BY <1>1, <1>3, <1>4, <2>1, <3>1
      <3> QED BY <1>3, <3>1, <3>2
    <2>4. ASSUME NEW t \in DOMAIN tokens'
          PROVE  \E u \in DOMAIN tokens' : \A v \in DOMAIN tokens' :
                   (tokens'[v].family = tokens'[t].family /\ ~tokens'[v].rotated) <=> v = u
      <3>1. CASE t = new
        BY <1>3, <1>4, <2>2, <3>1
      <3>2. CASE t # new
        BY <1>3, <2>3, <3>2
      <3> QED BY <3>1, <3>2
    <2> QED BY <2>4 DEF ChainsEnd, HasOneEnd
  <1> QED BY <1>5, <1>6, <1>7 DEF TokensStand

(* A rotation moves the end of its chain: the token that was exchanged was *)
(* the end, because it is locked and was not exchanged before.             *)
LEMMA RotatedStand ==
  ASSUME IInv, NEW s \in Threads, request[s].op = "refresh",
         tokens' = With([tokens EXCEPT ![request[s].token].rotated = TRUE], NewToken,
                        tokens[request[s].token].family)
  PROVE  TokensStand(s)
  <1> DEFINE old == request[s].token
  <1> DEFINE new == NewToken
  <1>1. new \in Tokens /\ new \notin DOMAIN tokens
    BY NewTokenIsNew DEF Issuing
  <1>2. old \in DOMAIN tokens /\ ~tokens[old].rotated /\ holder[old] = s
    BY DEF IInv, StillSo
  <1>3. tokens[old] \in TokenRows
    BY <1>2 DEF IInv, TypeOK
  <1>8. PICK family \in DOMAIN tokens : family = tokens[old].family
    BY <1>2 DEF IInv, Rooted
  <1> DEFINE spent == [tokens[old] EXCEPT !.rotated = TRUE]
  <1>4. spent \in TokenRows /\ spent.family = family /\ spent.rotated
    BY <1>3, <1>8 DEF TokenRows
  <1>5. [tokens EXCEPT ![old].rotated = TRUE] = [tokens EXCEPT ![old] = spent]
    OBVIOUS
  <1> HIDE DEF new, spent
  <1>6. tokens' = [u \in DOMAIN tokens \cup {new} |->
                     IF u = new THEN [family |-> family, rotated |-> FALSE, revoked |-> FALSE]
                     ELSE [tokens EXCEPT ![old] = spent][u]]
    BY <1>5, <1>8 DEF With, new
  <1>7. /\ DOMAIN tokens' = DOMAIN tokens \cup {new}
        /\ tokens'[new] = [family |-> family, rotated |-> FALSE, revoked |-> FALSE]
        /\ tokens'[old] = spent
        /\ \A t \in DOMAIN tokens \ {old} : tokens'[t] = tokens[t]
    BY <1>1, <1>2, <1>6
  <1>9. family \in Tokens
    BY <1>8 DEF IInv, TypeOK
  <1>10. tokens'[new] \in TokenRows /\ tokens'[new].family = family /\ ~tokens'[new].rotated
    BY <1>7, <1>9, FreshRow
  <1>11. TypedTokens'
    BY <1>1, <1>4, <1>7, <1>10 DEF IInv, TypeOK, TypedTokens
  <1>12. \A t \in DOMAIN tokens : tokens'[t].family = tokens[t].family
    BY <1>4, <1>7, <1>8
  <1>13. Rooted'
    BY <1>7, <1>8, <1>10, <1>12 DEF IInv, Rooted
  <1>14. Exchanges(s) /\ Adds(s)
    BY <1>1, <1>2, <1>7 DEF Exchanges, Adds, Unused, Issuing
  <1>15. ChainsEnd'
    <2>1. \A v \in DOMAIN tokens : (tokens[v].family = family /\ ~tokens[v].rotated) <=> v = old
      <3>1. PICK u \in DOMAIN tokens : \A v \in DOMAIN tokens :
              (tokens[v].family = family /\ ~tokens[v].rotated) <=> v = u
        <4>1. HasOneEnd(tokens[old].family)
          BY <1>2 DEF IInv, ChainsEnd
        <4>2. HasOneEnd(family)
          BY <1>8, <4>1
        <4> QED BY <4>2 DEF HasOneEnd
      <3> QED BY <1>2, <1>8, <3>1
    <2>2. \A v \in DOMAIN tokens' :
            (tokens'[v].family = family /\ ~tokens'[v].rotated) <=> v = new
      <3>1. (tokens'[new].family = family /\ ~tokens'[new].rotated) /\ new \in DOMAIN tokens'
        BY <1>7, <1>10
      <3>2. tokens'[old].rotated
        BY <1>4, <1>7
      <3>3. ASSUME NEW v \in DOMAIN tokens \ {old}
            PROVE  ~(tokens'[v].family = family /\ ~tokens'[v].rotated)
        BY <1>7, <2>1, <3>3
      <3>4. \A v \in DOMAIN tokens' : v = new \/ v = old \/ v \in DOMAIN tokens \ {old}
        BY <1>7
      <3>5. old # new
        BY <1>1, <1>2
      <3> QED BY <3>1, <3>2, <3>3, <3>4, <3>5
    <2>3. ASSUME NEW t \in DOMAIN tokens, tokens[t].family # family
          PROVE  \E u \in DOMAIN tokens' : \A v \in DOMAIN tokens' :
                   (tokens'[v].family = tokens[t].family /\ ~tokens'[v].rotated) <=> v = u
      <3>1. PICK u \in DOMAIN tokens : \A v \in DOMAIN tokens :
              (tokens[v].family = tokens[t].family /\ ~tokens[v].rotated) <=> v = u
        BY DEF IInv, ChainsEnd, HasOneEnd
      <3>2. u # old /\ u # new
        BY <1>1, <2>1, <2>3, <3>1
      <3>3. \A v \in DOMAIN tokens' :
              (tokens'[v].family = tokens[t].family /\ ~tokens'[v].rotated) <=> v = u
        BY <1>1, <1>4, <1>7, <1>10, <1>12, <2>1, <2>3, <3>1, <3>2
      <3>4. u \in DOMAIN tokens'
        BY <1>7
      <3> QED BY <3>3, <3>4
    <2>4. ASSUME NEW t \in DOMAIN tokens'
          PROVE  \E u \in DOMAIN tokens' : \A v \in DOMAIN tokens' :
                   (tokens'[v].family = tokens'[t].family /\ ~tokens'[v].rotated) <=> v = u
      <3>1. CASE tokens'[t].family = family
        <4>1. new \in DOMAIN tokens'
          BY <1>7
        <4> QED BY <2>2, <3>1, <4>1
      <3>2. CASE tokens'[t].family # family
        <4>1. t \in DOMAIN tokens /\ tokens'[t].family = tokens[t].family
          BY <1>7, <1>10, <1>12, <2>4, <3>2
        <4>2. tokens[t].family # family
          BY <3>2, <4>1
        <4>3. PICK u \in DOMAIN tokens' : \A v \in DOMAIN tokens' :
                (tokens'[v].family = tokens[t].family /\ ~tokens'[v].rotated) <=> v = u
          BY <2>3, <4>1, <4>2
        <4>4. \A v \in DOMAIN tokens' :
                (tokens'[v].family = tokens'[t].family /\ ~tokens'[v].rotated) <=> v = u
          BY <4>1, <4>3
        <4> QED BY <4>3, <4>4
      <3> QED BY <3>1, <3>2
    <2> QED BY <2>4 DEF ChainsEnd, HasOneEnd
  <1> QED BY <1>11, <1>13, <1>14, <1>15 DEF TokensStand

-----------------------------------------------------------------------------
(* A request ends.                                                         *)

LEMMA EndKeepsTokensLeft ==
  ASSUME IInv, NEW s \in Threads, Ends(s), Adds(s), TypedTokens'
  PROVE  TokensLeft'
  <1>1. NoRequest.op \notin Issuing
    BY NoRequestIsTyped DEF IInv, Issuing
  <1>2. request'[s] = NoRequest /\ \A t \in Threads \ {s} : request'[t] = request[t]
    BY DEF Ends, IInv, TypeOK
  <1>3. Issuers' = Issuers \ {s}
    BY <1>1, <1>2 DEF Issuers
  <1>4. Cardinality(Issuers') <= Cardinality(Issuers)
    <2>1. Issuers' \in SUBSET Issuers
      BY <1>3
    <2> QED BY <2>1, Counts, FS_Subset
  <1>5. CASE DOMAIN tokens' = DOMAIN tokens
    <2>1. Unused' = Unused
      BY <1>5 DEF Unused
    <2> QED BY <1>4, <2>1, Counts, CountsNext DEF IInv, TokensLeft
  <1>6. CASE DOMAIN tokens' # DOMAIN tokens
    <2>1. PICK t \in Unused : DOMAIN tokens' = DOMAIN tokens \cup {t}
      BY <1>6 DEF Adds
    <2>2. Unused' = Unused \ {t} /\ s \in Issuers
      BY <1>6, <2>1 DEF Unused, Adds, Issuers
    <2>3. Cardinality(Unused') = Cardinality(Unused) - 1
          /\ Cardinality(Issuers') = Cardinality(Issuers) - 1
      BY <1>3, <2>1, <2>2, Counts, FS_RemoveElement
    <2> QED BY <2>3, Counts DEF IInv, TokensLeft
  <1> QED BY <1>5, <1>6

LEMMA EndStep ==
  ASSUME IInv, NEW s \in Threads, Ends(s), TokensStand(s),
         user' = user \/ holder[User] \in {s, None},
         user' \in UserRows, misses' \in 0 .. MaxFailures, EveryMissCounts'
  PROVE  IInv'
  <1>1. /\ holder' \in [Rows -> Threads \cup {None}]
        /\ \A t \in Threads \ {s} : \A r \in Rows : holder[r] = t => holder'[r] = t
    BY LocksOfOthers DEF IInv
  <1>2. /\ request'[s] = NoRequest /\ NoRequest.op = "none"
        /\ \A t \in Threads \ {s} : request'[t] = request[t]
    BY NoRequestIsTyped DEF Ends, IInv, TypeOK
  <1>3. StillSo(s)'
    BY <1>2 DEF StillSo
  <1>4. ASSUME NEW t \in Threads \ {s} PROVE StillSo(t)'
    <2>1. StillSo(t) /\ request[t] \in Requests /\ t # None
      BY NobodyAssumption DEF IInv, TypeOK
    <2>2. request[t].token \in Rows /\ User \in Rows
      BY <2>1, UserIsARow DEF Requests
    <2>3. request[t].op = "refresh" =>
            /\ request[t].token \in DOMAIN tokens'
            /\ ~tokens'[request[t].token].rotated
      BY <2>1 DEF StillSo, TokensStand, Exchanges
    <2>4. request[t].op \in {"login", "miss"} => user' = user
      BY <2>1 DEF StillSo
    <2> QED BY <1>1, <1>2, <2>1, <2>2, <2>3, <2>4 DEF StillSo, CanAuthenticate
  <1>5. TypeOK'
    <2>1. request' \in [Threads -> Requests]
      BY NoRequestIsTyped DEF Ends, IInv, TypeOK
    <2> QED BY <1>1, <2>1 DEF TypeOK, TokensStand, TypedTokens
  <1>6. TokensLeft'
    BY EndKeepsTokensLeft DEF TokensStand
  <1> QED BY <1>3, <1>4, <1>5, <1>6 DEF IInv, TokensStand

LEMMA ClearedIsTyped ==
  ASSUME TypeOK, NEW s \in Threads
  PROVE  /\ Cleared(s) \in UserRows
         /\ DOMAIN Cleared(s) = {"password", "failed", "locked", "suspended"}
  <1>1. user \in UserRows /\ 0 \in 0 .. MaxFailures - 1
    BY MaxFailuresAssumption DEF TypeOK
  <1> DEFINE failed == IF request[s].read.failed = 0 THEN user.failed ELSE 0
  <1> DEFINE locked == IF request[s].read.locked THEN FALSE ELSE user.locked
  <1>2. Cleared(s) = [user EXCEPT !.failed = failed, !.locked = locked]
    BY DEF Cleared
  <1>3. failed \in 0 .. MaxFailures - 1 /\ locked \in BOOLEAN
    BY <1>1 DEF UserRows
  <1> HIDE DEF failed, locked
  <1>4. Cleared(s) \in UserRows
    BY <1>1, <1>2, <1>3 DEF UserRows
  <1> QED BY <1>4 DEF UserRows

LEMMA SignInPreserves ==
  ASSUME IInv, NEW s \in Threads, FinishLogin(s) \/ FinishGoogle(s)
  PROVE  IInv'
  <1>1. user \in UserRows /\ 0 \in 0 .. MaxFailures - 1 /\ 0 \in 0 .. MaxFailures
    BY MaxFailuresAssumption DEF IInv, TypeOK
  <1>2. Ends(s) /\ TokensStand(s)
    BY IssuedStand DEF FinishLogin, FinishGoogle, Issuing
  <1>3. holder[User] \in {s, None}
    BY DEF FinishLogin, FinishGoogle, Open, IInv, StillSo
  <1>4. user' \in UserRows
    <2>1. CASE FinishLogin(s)
      BY <1>1, <2>1 DEF FinishLogin, UserRows
    <2>2. CASE FinishGoogle(s)
      <3>1. Cleared(s).failed \in 0 .. MaxFailures - 1
        BY ClearedIsTyped DEF IInv, UserRows
      <3> QED BY <1>1, <2>2, <3>1 DEF FinishGoogle, UserRows
    <2> QED BY <2>1, <2>2
  <1>5. misses' = 0
    BY DEF FinishLogin, FinishGoogle
  <1>6. EveryMissCounts'
    BY <1>4, <1>5 DEF EveryMissCounts, UserRows
  <1> QED BY <1>1, <1>2, <1>3, <1>4, <1>5, <1>6, EndStep

(* The failure is counted on the number that the row still has.            *)
LEMMA FinishMissPreserves ==
  ASSUME IInv, NEW s \in Threads, FinishMiss(s)
  PROVE  IInv'
  <1> DEFINE failed == request[s].read.failed + 1
  <1>1. user \in UserRows /\ misses \in 0 .. MaxFailures /\ misses <= user.failed
    BY DEF IInv, TypeOK, EveryMissCounts
  <1>2. failed = user.failed + 1 /\ holder[User] = s
    BY DEF FinishMiss, IInv, StillSo
  <1>3. Ends(s) /\ TokensStand(s)
    BY SameTokens DEF FinishMiss
  <1>4. user.failed \in 0 .. MaxFailures - 1
    BY <1>1 DEF UserRows
  <1> HIDE DEF failed
  <1>5. CASE failed >= MaxFailures
    <2>1. user' = [user EXCEPT !.failed = 0, !.locked = TRUE] /\ misses' = 0
      BY <1>5 DEF FinishMiss, failed
    <2>2. user' \in UserRows /\ user'.failed = 0
      <3>1. 0 \in 0 .. MaxFailures - 1
        BY MaxFailuresAssumption
      <3> QED BY <1>1, <2>1, <3>1 DEF UserRows
    <2>3. EveryMissCounts' /\ misses' \in 0 .. MaxFailures
      BY <2>1, <2>2, MaxFailuresAssumption DEF EveryMissCounts
    <2> QED BY <1>2, <1>3, <2>2, <2>3, EndStep
  <1>6. CASE ~(failed >= MaxFailures)
    <2>1. user' = [user EXCEPT !.failed = failed] /\ misses' = misses + 1
      BY <1>6 DEF FinishMiss, failed
    <2>2. failed \in 0 .. MaxFailures - 1
      BY <1>2, <1>4, <1>6, MaxFailuresAssumption
    <2>3. user' \in UserRows /\ user'.failed = failed
      BY <1>1, <2>1, <2>2 DEF UserRows
    <2>4. EveryMissCounts' /\ misses' \in 0 .. MaxFailures
      BY <1>1, <1>2, <1>4, <2>1, <2>2, <2>3, MaxFailuresAssumption DEF EveryMissCounts
    <2> QED BY <1>2, <1>3, <2>3, <2>4, EndStep
  <1> QED BY <1>5, <1>6

(* These write nothing to the user's row.                                  *)
LEMMA UserUntouchedPreserves ==
  ASSUME IInv, NEW s \in Threads, FinishRefresh(s) \/ FinishRevoking(s) \/ Rollback(s)
  PROVE  IInv'
  <1>1. Ends(s) /\ UNCHANGED <<user, misses>>
    BY DEF FinishRefresh, FinishRevoking, Rollback
  <1>2. TokensStand(s)
    BY RotatedStand, RevokedStand, SameTokens DEF FinishRefresh, FinishRevoking, Rollback
  <1>3. user' \in UserRows /\ misses' \in 0 .. MaxFailures /\ EveryMissCounts'
    BY <1>1 DEF IInv, TypeOK, EveryMissCounts
  <1> QED BY <1>1, <1>2, <1>3, EndStep

LEMMA UserWrittenPreserves ==
  ASSUME IInv, NEW s \in Threads,
         \/ \E password \in Passwords : FinishPassword(s, password)
         \/ FinishSuspension(s)
         \/ FinishReinstatement(s)
  PROVE  IInv'
  <1>1. Ends(s) /\ holder[User] \in {s, None}
    BY DEF FinishPassword, FinishSuspension, FinishReinstatement, Open
  <1>2. TokensStand(s)
    BY RevokedStand, SameTokens DEF FinishPassword, FinishSuspension, FinishReinstatement
  <1>3. /\ user \in UserRows /\ Cleared(s) \in UserRows
        /\ misses \in 0 .. MaxFailures /\ 0 \in 0 .. MaxFailures
        /\ misses <= user.failed
    BY ClearedIsTyped, MaxFailuresAssumption DEF IInv, TypeOK, EveryMissCounts
  <1>4. CASE \E password \in Passwords : FinishPassword(s, password)
    <2>1. user' \in UserRows /\ misses' = 0
      BY <1>3, <1>4 DEF FinishPassword, UserRows
    <2>2. EveryMissCounts'
      BY <2>1 DEF EveryMissCounts, UserRows
    <2> QED BY <1>1, <1>2, <1>3, <2>1, <2>2, EndStep
  <1>5. CASE FinishSuspension(s)
    <2>1. user' \in UserRows /\ user'.failed = user.failed /\ misses' = misses
      BY <1>3, <1>5 DEF FinishSuspension, UserRows
    <2>2. EveryMissCounts'
      BY <1>3, <2>1 DEF EveryMissCounts
    <2> QED BY <1>1, <1>2, <1>3, <2>1, <2>2, EndStep
  <1>6. CASE FinishReinstatement(s)
    <2>1. user' \in UserRows /\ misses' = 0
      BY <1>3, <1>6 DEF FinishReinstatement, UserRows
    <2>2. EveryMissCounts'
      BY <2>1 DEF EveryMissCounts, UserRows
    <2> QED BY <1>1, <1>2, <1>3, <2>1, <2>2, EndStep
  <1> QED BY <1>4, <1>5, <1>6

-----------------------------------------------------------------------------
(* The invariant.                                                          *)

(* Whoever found the account open still has it open: it is locked by him.  *)
LEMMA LockoutPassesPreserves ==
  ASSUME IInv, LockoutPasses
  PROVE  IInv'
  <1>1. user \in UserRows /\ user' = [user EXCEPT !.locked = FALSE] /\ user.locked
        /\ UNCHANGED <<tokens, request, holder, misses>>
    BY DEF IInv, TypeOK, LockoutPasses
  <1>2. user' \in UserRows /\ user'.failed = user.failed
    BY <1>1 DEF UserRows
  <1>3. ASSUME NEW s \in Threads PROVE StillSo(s)'
    <2>1. StillSo(s) /\ request[s].op # "login"
      BY <1>1 DEF IInv, StillSo, CanAuthenticate
    <2> QED BY <1>1, <1>2, <2>1 DEF StillSo
  <1>4. TypeOK' /\ EveryMissCounts'
    BY <1>1, <1>2 DEF IInv, TypeOK, EveryMissCounts
  <1>5. Rooted' /\ ChainsEnd'
    BY <1>1 DEF IInv, Rooted, ChainsEnd, HasOneEnd
  <1>6. TokensLeft'
    <2>1. Issuers' = Issuers /\ Unused' = Unused
      BY <1>1 DEF Issuers, Unused
    <2> QED BY <2>1 DEF IInv, TokensLeft
  <1> QED BY <1>3, <1>4, <1>5, <1>6 DEF IInv

LEMMA StutterPreserves ==
  ASSUME IInv, UNCHANGED vars
  PROVE  IInv'
  <1>1. UNCHANGED <<user, tokens, request, holder, misses>>
    BY DEF vars
  <1>2. \A s \in Threads : StillSo(s)'
    BY <1>1 DEF IInv, StillSo, CanAuthenticate
  <1>3. TypeOK' /\ EveryMissCounts' /\ Rooted' /\ ChainsEnd'
    BY <1>1 DEF IInv, TypeOK, EveryMissCounts, Rooted, ChainsEnd, HasOneEnd
  <1>4. TokensLeft'
    <2>1. Issuers' = Issuers /\ Unused' = Unused
      BY <1>1 DEF Issuers, Unused
    <2> QED BY <2>1 DEF IInv, TokensLeft
  <1> QED BY <1>2, <1>3, <1>4 DEF IInv

LEMMA GoesPreserves ==
  ASSUME IInv, NEW s \in Threads, Goes(s) \/ Rollback(s)
  PROVE  IInv'
  <1>1. CASE FinishLogin(s) \/ FinishGoogle(s)
    BY <1>1, SignInPreserves
  <1>2. CASE FinishMiss(s)
    BY <1>2, FinishMissPreserves
  <1>3. CASE FinishRefresh(s) \/ FinishRevoking(s) \/ Rollback(s)
    BY <1>3, UserUntouchedPreserves
  <1>4. CASE \E t \in Tokens : LockRow(s, t)
    BY <1>4, LockRowPreserves
  <1>5. CASE \/ \E password \in Passwords : FinishPassword(s, password)
             \/ FinishSuspension(s)
             \/ FinishReinstatement(s)
    BY <1>5, UserWrittenPreserves
  <1> QED BY <1>1, <1>2, <1>3, <1>4, <1>5 DEF Goes

LEMMA InitIsSound ==
  ASSUME Init
  PROVE  IInv
  <1>1. PICK p \in Passwords :
          user = [password |-> p, failed |-> 0, locked |-> FALSE, suspended |-> FALSE]
    BY DEF Init
  <1>2. 0 \in 0 .. MaxFailures - 1 /\ 0 \in 0 .. MaxFailures
    BY MaxFailuresAssumption
  <1>3. user \in UserRows /\ user.failed = 0
    BY <1>1, <1>2 DEF UserRows
  <1>4. DOMAIN tokens = {}
    BY DEF Init
  <1>5. NoRequest \in Requests /\ NoRequest.op = "none"
    <2>1. AnyToken \in Tokens
      BY FiniteAssumption DEF AnyToken
    <2> DEFINE read == CHOOSE row \in UserRows : TRUE
    <2>2. read \in UserRows
      BY <1>3
    <2> HIDE DEF read
    <2>3. NoRequest = [op |-> "none", token |-> AnyToken, read |-> read,
                       revokes |-> {}, rows |-> {}]
      BY DEF NoRequest, read
    <2> QED BY <2>1, <2>2, <2>3 DEF Requests, Ops
  <1>6. request = [s \in Threads |-> NoRequest] /\ holder = [r \in Rows |-> None]
        /\ misses = 0
    BY DEF Init
  <1>7. TypeOK
    <2>1. request \in [Threads -> Requests]
      BY <1>5, <1>6
    <2>2. holder \in [Rows -> Threads \cup {None}]
      BY <1>6
    <2> QED BY <1>2, <1>3, <1>4, <1>6, <2>1, <2>2 DEF TypeOK
  <1>8. \A s \in Threads : StillSo(s)
    BY <1>5, <1>6 DEF StillSo
  <1>9. Rooted /\ ChainsEnd /\ EveryMissCounts
    BY <1>3, <1>4, <1>6 DEF Rooted, ChainsEnd, EveryMissCounts
  <1>10. TokensLeft
    <2>1. Issuers = {}
      BY <1>5, <1>6 DEF Issuers, Issuing
    <2> QED BY <2>1, Counts, FS_EmptySet DEF TokensLeft
  <1> QED BY <1>7, <1>8, <1>9, <1>10 DEF IInv

LEMMA StepPreserves ==
  ASSUME IInv, [Next]_vars
  PROVE  IInv'
  <1>1. CASE \E s \in Threads : Asks(s)
    BY <1>1, AsksPreserves
  <1>2. CASE \E s \in Threads : Goes(s) \/ Rollback(s)
    BY <1>2, GoesPreserves
  <1>3. CASE LockoutPasses
    BY <1>3, LockoutPassesPreserves
  <1>4. CASE UNCHANGED vars
    BY <1>4, StutterPreserves
  <1> QED BY <1>1, <1>2, <1>3, <1>4 DEF Next

LEMMA Invariance == Spec => []IInv
  <1>1. Init => IInv
    BY InitIsSound
  <1>2. IInv /\ [Next]_vars => IInv'
    BY StepPreserves
  <1> QED BY <1>1, <1>2, PTL DEF Spec

-----------------------------------------------------------------------------
(* What it comes to.                                                       *)

(* Every handler keeps the state typed: the failed attempts of auth/       *)
(* service.py never reach the limit, and a token is issued only where the  *)
(* bound leaves one.                                                       *)
THEOREM SessionsTypeCorrect == Spec => []TypeOK
  <1>1. IInv => TypeOK
    BY DEF IInv
  <1> QED BY <1>1, Invariance, PTL

(* refresh_session(): every family of refresh tokens keeps exactly one     *)
(* token that has not been exchanged, because the token that is exchanged  *)
(* is read under its lock, so no chain ever forks and none loses its end.  *)
THEOREM OneEndEach == Spec => []OneEndPerFamily
  <1>1. ASSUME IInv PROVE OneEndPerFamily
    <2>1. ASSUME NEW t \in DOMAIN tokens
          PROVE  Cardinality({u \in DOMAIN tokens :
                   tokens[u].family = tokens[t].family /\ ~tokens[u].rotated}) = 1
      <3> DEFINE ends == {u \in DOMAIN tokens :
                            tokens[u].family = tokens[t].family /\ ~tokens[u].rotated}
      <3>1. PICK u \in DOMAIN tokens : \A v \in DOMAIN tokens :
              (tokens[v].family = tokens[t].family /\ ~tokens[v].rotated) <=> v = u
        BY <1>1, <2>1 DEF IInv, ChainsEnd, HasOneEnd
      <3>2. ends = {u}
        BY <3>1
      <3> HIDE DEF ends
      <3>3. Cardinality(ends) = 1
        BY <3>2, FS_Singleton
      <3> QED BY <3>3 DEF ends
    <2> QED BY <2>1 DEF OneEndPerFamily
  <1> QED BY <1>1, Invariance, PTL

(* login(): every wrong password answered since the last right one is in   *)
(* the user's count, because it is read and written under the row's lock   *)
(* and every other handler that writes it starts it, and the misses, anew. *)
THEOREM MissesCount == Spec => []EveryMissCounts
  <1>1. IInv => EveryMissCounts
    BY DEF IInv
  <1> QED BY <1>1, Invariance, PTL

(* login(): when a session is issued for a password, the account is still  *)
(* open and the password still the user's, because both were read under    *)
(* the lock that every change of the row waits for.                        *)
THEOREM SignInsChecked == Spec => SignInChecksHold
  <1> DEFINE Holds == \A s \in Threads :
       request[s].op = "login" /\ tokens' # tokens /\ request'[s] # request[s]
         => CanAuthenticate(user) /\ request[s].read.password = user.password
  <1>1. IInv => Holds
    BY DEF IInv, StillSo
  <1> HIDE DEF Holds
  <1>2. IInv /\ [Next]_vars => [Holds]_vars
    BY <1>1
  <1>3. Spec => [][Holds]_vars
    BY <1>2, Invariance, PTL DEF Spec
  <1> QED BY <1>3 DEF SignInChecksHold, Holds
=============================================================================
