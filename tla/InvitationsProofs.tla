-------------------------- MODULE InvitationsProofs --------------------------
(***************************************************************************)
(* Machine-checked safety of a project's invitations, for any number of    *)
(* people, addresses, invitations and handlers at once.                    *)
(*                                                                         *)
(* No row is locked, so the argument is about what cannot be undone: a row *)
(* that has somebody keeps them, because the rows a registration has found *)
(* to claim are addressed to an address that it alone has inserted.        *)
(***************************************************************************)
EXTENDS Invitations, SequenceTheorems, TLAPS

-----------------------------------------------------------------------------
(* The strengthening.                                                      *)

(* A row found for an account is that account's.                           *)
FoundTheirRow(s) ==
  Found(s, "invite") /\ session[s].row # 0
    => session[s].found # None /\ members[session[s].row].user = session[s].found

(* What a registration is about to claim is nobody's, and addressed to it. *)
ClaimsAreOpen(s) ==
  Inserted(s) => \A i \in session[s].claims :
                   /\ members[i].user = None
                   /\ members[i].invited_email = session[s].address

(* Two people who are registering have different addresses.                *)
InsertedApart ==
  \A s, t \in Threads :
    Inserted(s) /\ Inserted(t) /\ session[s].address = session[t].address => s = t

IInv ==
  /\ TypeOK
  /\ \A s \in Threads : FoundTheirRow(s) /\ ClaimsAreOpen(s)
  /\ InsertedApart
  /\ ReceiverWasInvited

(* What a step does to the rows, as InvitationsAreKept says of all of them.*)
Kept ==
  \A i \in DOMAIN members :
    members[i].user # None => i \in DOMAIN members' /\ members'[i].user = members[i].user

-----------------------------------------------------------------------------
(* Operators.                                                              *)

LEMMA WrittenProject ==
  ASSUME NEW old \in ProjectRows, NEW seen, NEW new,
         "status" \in DOMAIN new => new["status"] \in Statuses,
         "receiver" \in DOMAIN new => new["receiver"] \in Users \cup {None},
         "invited" \in DOMAIN new => new["invited"] \in Emails \cup {None},
         "milestones" \in DOMAIN new => new["milestones"] \in {"DRAFT", "PENDING_FUNDING"}
  PROVE  /\ Written(old, seen, new) \in ProjectRows
         /\ Written(old, seen, new).receiver =
              IF "receiver" \in DOMAIN new /\ new["receiver"] # seen["receiver"]
              THEN new["receiver"] ELSE old.receiver
  <1>1. DOMAIN old = {"status", "receiver", "invited", "milestones"}
    BY DEF ProjectRows
  <1> QED BY <1>1 DEF Written, ProjectRows

(* Only the status of an invitation is written in place.                   *)
LEMMA WrittenMember ==
  ASSUME NEW old \in MemberRows, NEW was, NEW x \in MemberStatuses
  PROVE  LET new == Written(old, [status |-> was], [status |-> x])
         IN  new \in MemberRows /\ new.user = old.user /\ new.invited_email = old.invited_email
  <1>1. DOMAIN old = {"user", "invited_email", "status"}
    BY DEF MemberRows
  <1> QED BY <1>1 DEF Written, MemberRows

LEMMA EmailIsTheirs ==
  ASSUME NEW e
  PROVE  GetByEmail(e) \in Users \cup {None}
  BY DEF GetByEmail, Registered

LEMMA MemberIsTheirs ==
  ASSUME NEW u
  PROVE  /\ GetMember(u) \in DOMAIN members \cup {0}
         /\ GetMember(u) # 0 => members[GetMember(u)].user = u
  BY DEF GetMember

LEMMA MembersAreRows ==
  ASSUME TypeOK
  PROVE  /\ \A i \in DOMAIN members : members[i] \in MemberRows
         /\ DOMAIN members = 1 .. Len(members) /\ Len(members) \in Nat
         /\ DOMAIN members \subseteq Nat \ {0}
  <1>1. /\ \A i \in DOMAIN members : members[i] \in MemberRows
        /\ DOMAIN members = 1 .. Len(members) /\ Len(members) \in Nat
    BY LenProperties DEF TypeOK
  <1> QED BY <1>1

(* Changing rows in place.                                                 *)
LEMMA SameRows ==
  ASSUME TypeOK, NEW g, g = [i \in DOMAIN members |-> g[i]],
         \A i \in DOMAIN members : g[i] \in MemberRows
  PROVE  g \in Seq(MemberRows) /\ DOMAIN g = DOMAIN members
  <1>1. DOMAIN members = 1 .. Len(members) /\ Len(members) \in Nat
    BY MembersAreRows
  <1>2. g \in [1 .. Len(members) -> MemberRows]
    BY <1>1
  <1> QED BY <1>1, <1>2, SeqDef

LEMMA IdleIsTyped == Idle \in Sessions /\ NoProject \in ProjectRows
  BY ClientAssumption
  DEF Idle, NoProject, Sessions, ProjectRows, Ops, Answers, Statuses, MemberStatuses

-----------------------------------------------------------------------------
(* Steps that write no row.                                                *)

LEMMA QuietStep ==
  ASSUME IInv, NEW s \in Threads, NEW x \in Sessions, session' = [session EXCEPT ![s] = x],
         UNCHANGED <<email, project, members>>,
         x.claims \subseteq DOMAIN members, x.row \in DOMAIN members \cup {0},
         FoundTheirRow(s)', ClaimsAreOpen(s)',
         (x.op = "register" /\ x.at = "found")
           => \A t \in Threads \ {s} : Inserted(t) => session[t].address # x.address
  PROVE  IInv'
  <1>1. session'[s] = x /\ \A t \in Threads \ {s} : session'[t] = session[t]
    BY DEF IInv, TypeOK
  <1>2. TypeOK'
    BY <1>1 DEF IInv, TypeOK
  <1>3. \A t \in Threads : FoundTheirRow(t)' /\ ClaimsAreOpen(t)'
    BY <1>1 DEF IInv, FoundTheirRow, ClaimsAreOpen, Found, Inserted
  <1>4. InsertedApart'
    BY <1>1 DEF IInv, InsertedApart, Inserted
  <1>5. ReceiverWasInvited'
    BY DEF IInv, ReceiverWasInvited
  <1> QED BY <1>2, <1>3, <1>4, <1>5 DEF IInv

LEMMA BeginsPreserves ==
  ASSUME IInv, NEW s \in Threads, NEW op \in Ops, NEW u \in Users,
         NEW e \in Emails \cup {None}, Begins(s, op, u, e)
  PROVE  IInv'
  <1> DEFINE x == [Idle EXCEPT !.op = op, !.by = u, !.address = e, !.seen = project]
  <1>1. x \in Sessions
    BY IdleIsTyped DEF Sessions, IInv, TypeOK
  <1>2. x.claims = {} /\ x.row = 0 /\ x.at = "read"
    BY DEF Idle
  <1>3. session' = [session EXCEPT ![s] = x] /\ session'[s] = x
    BY DEF Begins, IInv, TypeOK
  <1> HIDE DEF x
  <1>4. FoundTheirRow(s)' /\ ClaimsAreOpen(s)'
    BY <1>2, <1>3 DEF FoundTheirRow, ClaimsAreOpen, Found, Inserted
  <1> QED BY <1>1, <1>2, <1>3, <1>4, QuietStep DEF Begins

LEMMA AsksPreserves ==
  ASSUME IInv, NEW s \in Threads, Asks(s)
  PROVE  IInv'
  <1>1. CASE \E e \in Emails \cup {None} : AskCreate(s, e)
    BY <1>1, BeginsPreserves, ClientAssumption DEF AskCreate, Ops
  <1>2. CASE \E e \in Emails : AskInvite(s, e)
    BY <1>2, BeginsPreserves, ClientAssumption DEF AskInvite, Ops
  <1>3. CASE \E answer \in Answers : AskRespond(s, answer)
    <2>1. project.receiver \in Users
      BY <1>3 DEF AskRespond, IInv, TypeOK, ProjectRows
    <2> QED BY <1>3, <2>1, BeginsPreserves DEF AskRespond, Ops
  <1>4. CASE \E u \in Users, e \in Emails : AskRegister(s, u, e) \/ AskChangeEmail(s, u, e)
    BY <1>4, BeginsPreserves DEF AskRegister, AskChangeEmail, Ops
  <1> QED BY <1>1, <1>2, <1>3, <1>4 DEF Asks

LEMMA FindInviteePreserves ==
  ASSUME IInv, NEW s \in Threads, FindInvitee(s)
  PROVE  IInv'
  <1> DEFINE found == GetByEmail(session[s].address)
  <1> DEFINE row == IF found = None \/ session[s].op = "create" THEN 0 ELSE GetMember(found)
  <1> DEFINE was == IF row = 0 THEN session[s].was ELSE members[row].status
  <1> DEFINE x == [session[s] EXCEPT !.at = "found", !.found = found, !.row = row, !.was = was]
  <1>1. TypeOK /\ session[s] \in Sessions /\ session[s].op \in {"create", "invite"}
    BY DEF IInv, TypeOK, FindInvitee, Reads
  <1>2. found \in Users \cup {None}
    BY EmailIsTheirs
  <1>3. row \in DOMAIN members \cup {0}
        /\ (row # 0 => members[row].user = found /\ found # None)
    BY MemberIsTheirs
  <1>4. session' = [session EXCEPT ![s] = x] /\ session'[s] = x
    BY <1>1 DEF FindInvitee, TypeOK
  <1> HIDE DEF found, row
  <1>5. row \in Nat /\ was \in MemberStatuses
    BY <1>1, <1>3, MembersAreRows DEF MemberRows, Sessions
  <1> HIDE DEF was
  <1>6. x \in Sessions /\ x.op = session[s].op /\ x.row = row /\ x.claims = session[s].claims
        /\ x.found = found
    BY <1>1, <1>2, <1>5 DEF Sessions
  <1> HIDE DEF x
  <1>7. FoundTheirRow(s)' /\ ClaimsAreOpen(s)'
    BY <1>1, <1>3, <1>4, <1>6 DEF FoundTheirRow, ClaimsAreOpen, Found, Inserted, FindInvitee
  <1>8. x.claims \subseteq DOMAIN members /\ x.op # "register"
    BY <1>1, <1>6 DEF TypeOK
  <1> QED BY <1>3, <1>4, <1>6, <1>7, <1>8, QuietStep DEF FindInvitee

LEMMA FindMemberPreserves ==
  ASSUME IInv, NEW s \in Threads, FindMember(s)
  PROVE  IInv'
  <1> DEFINE row == GetMember(session[s].by)
  <1> DEFINE was == IF row = 0 THEN session[s].was ELSE members[row].status
  <1> DEFINE x == [session[s] EXCEPT !.at = "found", !.row = row, !.was = was]
  <1>1. TypeOK /\ session[s] \in Sessions /\ session[s].op \in Answers
    BY DEF IInv, TypeOK, FindMember, Reads
  <1>2. row \in DOMAIN members \cup {0}
    BY MemberIsTheirs
  <1>3. session' = [session EXCEPT ![s] = x] /\ session'[s] = x
    BY <1>1 DEF FindMember, TypeOK
  <1> HIDE DEF row
  <1>4. row \in Nat /\ was \in MemberStatuses
    BY <1>1, <1>2, MembersAreRows DEF MemberRows, Sessions
  <1> HIDE DEF was
  <1>5. x \in Sessions /\ x.op = session[s].op /\ x.row = row /\ x.claims = session[s].claims
    BY <1>1, <1>4 DEF Sessions
  <1> HIDE DEF x
  <1>6. FoundTheirRow(s)' /\ ClaimsAreOpen(s)'
    BY <1>1, <1>3, <1>5 DEF FoundTheirRow, ClaimsAreOpen, Found, Inserted, Answers
  <1>7. x.claims \subseteq DOMAIN members /\ x.op # "register"
    BY <1>1, <1>5 DEF TypeOK, Answers
  <1> QED BY <1>2, <1>3, <1>5, <1>6, <1>7, QuietStep DEF FindMember

(* The unique index on addresses is what keeps two claims apart.           *)
LEMMA InsertUserPreserves ==
  ASSUME IInv, NEW s \in Threads, InsertUser(s)
  PROVE  IInv'
  <1> DEFINE claims == Addressed(session[s].address)
  <1> DEFINE x == [session[s] EXCEPT !.at = "found", !.seen = project, !.claims = claims]
  <1>1. TypeOK /\ session[s] \in Sessions /\ project \in ProjectRows
    BY DEF IInv, TypeOK
  <1>2. claims \subseteq DOMAIN members /\ DOMAIN members \subseteq Nat
    BY <1>1, MembersAreRows DEF Addressed
  <1>3. \A i \in claims : members[i].user = None
                            /\ members[i].invited_email = session[s].address
    BY DEF Addressed
  <1>4. session' = [session EXCEPT ![s] = x] /\ session'[s] = x
    BY <1>1 DEF InsertUser, TypeOK
  <1> HIDE DEF claims
  <1>5. x \in Sessions /\ x.op = session[s].op /\ x.row = session[s].row /\ x.claims = claims
        /\ x.address = session[s].address
    BY <1>1, <1>2 DEF Sessions
  <1> HIDE DEF x
  <1>6. FoundTheirRow(s)' /\ ClaimsAreOpen(s)'
    BY <1>3, <1>4, <1>5 DEF FoundTheirRow, ClaimsAreOpen, Found, Inserted, InsertUser, Reads
  <1>7. \A t \in Threads \ {s} : Inserted(t) => session[t].address # x.address
    BY <1>5 DEF InsertUser, AddressFree, Contended
  <1> QED BY <1>1, <1>2, <1>4, <1>5, <1>6, <1>7, QuietStep DEF InsertUser, TypeOK

-----------------------------------------------------------------------------
(* Steps that commit.                                                      *)

(* A row that was nobody's still is, unless this session has claimed it.   *)
LeavesOpen(s) ==
  \A i \in DOMAIN members : members[i].user = None =>
    \/ members'[i].user = None /\ members'[i].invited_email = members[i].invited_email
    \/ Inserted(s) /\ i \in session[s].claims

LEMMA EndStep ==
  ASSUME IInv, NEW s \in Threads, Ends(s),
         email' \in [Users -> Emails \cup {None}], project' \in ProjectRows,
         members' \in Seq(MemberRows), DOMAIN members \subseteq DOMAIN members',
         Kept, LeavesOpen(s), ReceiverWasInvited'
  PROVE  IInv'
  <1>1. session'[s] = Idle /\ \A t \in Threads \ {s} : session'[t] = session[t]
    BY DEF IInv, TypeOK, Ends
  <1>2. TypeOK'
    <2>1. session' \in [Threads -> Sessions]
      BY IdleIsTyped DEF IInv, TypeOK, Ends
    <2>2. Idle.claims = {} /\ Idle.row = 0
      BY DEF Idle
    <2>3. \A t \in Threads : session'[t].claims \subseteq DOMAIN members'
                             /\ session'[t].row \in DOMAIN members' \cup {0}
      BY <1>1, <2>2 DEF IInv, TypeOK
    <2> QED BY <2>1, <2>3 DEF TypeOK
  <1>3. FoundTheirRow(s)' /\ ClaimsAreOpen(s)'
    BY <1>1 DEF Idle, FoundTheirRow, ClaimsAreOpen, Found, Inserted
  <1>4. ASSUME NEW t \in Threads \ {s} PROVE FoundTheirRow(t)' /\ ClaimsAreOpen(t)'
    <2>1. FoundTheirRow(t)'
      BY <1>1, <1>4 DEF IInv, TypeOK, FoundTheirRow, Found, Kept
    <2>2. ASSUME Inserted(t), NEW i \in session[t].claims
          PROVE  members'[i].user = None /\ members'[i].invited_email = session[t].address
      <3>1. i \in DOMAIN members /\ members[i].user = None
            /\ members[i].invited_email = session[t].address
        BY <2>2, <1>4 DEF IInv, TypeOK, ClaimsAreOpen
      <3>2. ~(Inserted(s) /\ i \in session[s].claims)
        BY <2>2, <1>4, <3>1 DEF IInv, ClaimsAreOpen, InsertedApart
      <3> QED BY <3>1, <3>2 DEF LeavesOpen
    <2>3. ClaimsAreOpen(t)'
      BY <1>1, <1>4, <2>2 DEF ClaimsAreOpen, Inserted
    <2> QED BY <2>1, <2>3
  <1>5. InsertedApart'
    BY <1>1 DEF IInv, InsertedApart, Inserted, Idle
  <1> QED BY <1>2, <1>3, <1>4, <1>5 DEF IInv

LEMMA SameMembers ==
  ASSUME TypeOK, members' = members, NEW s
  PROVE  /\ members' \in Seq(MemberRows) /\ DOMAIN members \subseteq DOMAIN members'
         /\ Kept /\ LeavesOpen(s)
  BY DEF TypeOK, Kept, LeavesOpen

LEMMA AddedMember ==
  ASSUME TypeOK, NEW s \in Threads, AddsMember(s)
  PROVE  /\ members' \in Seq(MemberRows) /\ DOMAIN members \subseteq DOMAIN members'
         /\ Kept /\ LeavesOpen(s)
         /\ \E i \in DOMAIN members' : members'[i].user = session[s].found
  <1> DEFINE row == Invitation(s)
  <1>1. row \in MemberRows /\ row.user = session[s].found
    BY DEF TypeOK, Sessions, Invitation, MemberRows, MemberStatuses
  <1>2. members' = Append(members, row)
    BY DEF AddsMember
  <1> HIDE DEF row
  <1>3. DOMAIN members = 1 .. Len(members) /\ Len(members) \in Nat
    BY MembersAreRows
  <1>4. members' \in Seq(MemberRows) /\ Len(members') = Len(members) + 1
    BY <1>1, <1>2 DEF TypeOK
  <1>5. DOMAIN members' = 1 .. Len(members) + 1
    BY <1>4, LenProperties
  <1>6. members'[Len(members) + 1] = row /\ \A i \in DOMAIN members : members'[i] = members[i]
    BY <1>1, <1>2, <1>3 DEF TypeOK
  <1>7. DOMAIN members \subseteq DOMAIN members' /\ Len(members) + 1 \in DOMAIN members'
    BY <1>3, <1>5
  <1> QED BY <1>1, <1>4, <1>6, <1>7 DEF Kept, LeavesOpen

(* An invitation is answered or made again: whose it is stays.             *)
LEMMA RestatedMember ==
  ASSUME TypeOK, NEW s \in Threads, NEW row \in DOMAIN members, NEW was,
         NEW x \in MemberStatuses,
         members' = [members EXCEPT ![row] = Written(@, [status |-> was], [status |-> x])]
  PROVE  /\ members' \in Seq(MemberRows) /\ DOMAIN members' = DOMAIN members
         /\ \A i \in DOMAIN members :
              members'[i].user = members[i].user
              /\ members'[i].invited_email = members[i].invited_email
         /\ Kept /\ LeavesOpen(s)
  <1> DEFINE new == Written(members[row], [status |-> was], [status |-> x])
  <1>1. \A i \in DOMAIN members : members[i] \in MemberRows
    BY MembersAreRows
  <1>2. /\ new \in MemberRows /\ new.user = members[row].user
        /\ new.invited_email = members[row].invited_email
    BY <1>1, WrittenMember
  <1>3. members' = [members EXCEPT ![row] = new]
    OBVIOUS
  <1> HIDE DEF new
  <1>4. members'[row] = new /\ \A i \in DOMAIN members \ {row} : members'[i] = members[i]
    BY <1>3
  <1>5. members' = [i \in DOMAIN members |-> members'[i]]
    BY <1>3
  <1>6. members' \in Seq(MemberRows) /\ DOMAIN members' = DOMAIN members
    BY <1>1, <1>2, <1>4, <1>5, SameRows
  <1>7. \A i \in DOMAIN members : members'[i].user = members[i].user
          /\ members'[i].invited_email = members[i].invited_email
    BY <1>2, <1>4
  <1> QED BY <1>6, <1>7 DEF Kept, LeavesOpen

LEMMA InvitesAreTyped ==
  ASSUME TypeOK, NEW s \in Threads
  PROVE  LET new == Invites(s)
         IN  /\ DOMAIN new = {"receiver", "invited", "status"}
             /\ new["receiver"] = session[s].found /\ session[s].found \in Users \cup {None}
             /\ new["invited"] \in Emails \cup {None} /\ new["status"] \in Statuses
  BY DEF TypeOK, Sessions, Invites, Invitation, Statuses

LEMMA CommitCreatePreserves ==
  ASSUME IInv, NEW s \in Threads, CommitCreate(s)
  PROVE  IInv' /\ Kept
  <1>1. TypeOK /\ Ends(s) /\ email' = email
    BY DEF IInv, CommitCreate
  <1>2. CASE session[s].address = None
    <2>1. project' \in ProjectRows /\ project'.receiver = None
      BY <1>2, IdleIsTyped DEF CommitCreate, NoProject, ProjectRows, Statuses
    <2>2. members' = members
      BY <1>2 DEF CommitCreate
    <2> QED BY <1>1, <2>1, <2>2, SameMembers, EndStep DEF ReceiverWasInvited, TypeOK
  <1>3. CASE session[s].address # None
    <2>1. AddsMember(s) /\ project' = Written(NoProject, NoProject, Invites(s))
      BY <1>3 DEF CommitCreate
    <2>2. project' \in ProjectRows /\ project'.receiver \in {session[s].found, None}
      <3>1. NoProject.receiver = None
        BY DEF NoProject
      <3> QED BY <1>1, <2>1, <3>1, IdleIsTyped, InvitesAreTyped, WrittenProject
    <2>3. ReceiverWasInvited'
      BY <1>1, <2>1, <2>2, AddedMember DEF ReceiverWasInvited
    <2> QED BY <1>1, <2>1, <2>2, <2>3, AddedMember, EndStep DEF TypeOK
  <1> QED BY <1>2, <1>3

LEMMA CommitInvitePreserves ==
  ASSUME IInv, NEW s \in Threads, CommitInvite(s)
  PROVE  IInv' /\ Kept
  <1>1. TypeOK /\ Ends(s) /\ email' = email /\ Found(s, "invite")
    BY DEF IInv, CommitInvite
  <1>2. project' \in ProjectRows /\ project'.receiver \in {session[s].found, project.receiver}
    <2>1. project' = Written(project, session[s].seen, Invites(s)) /\ project \in ProjectRows
      BY <1>1 DEF CommitInvite, TypeOK
    <2> QED BY <1>1, <2>1, InvitesAreTyped, WrittenProject
  <1>3. CASE session[s].row = 0
    <2>1. AddsMember(s)
      BY <1>3 DEF CommitInvite
    <2>2. ReceiverWasInvited'
      BY <1>1, <1>2, <2>1, AddedMember DEF IInv, ReceiverWasInvited, Kept
    <2> QED BY <1>1, <1>2, <2>1, <2>2, AddedMember, EndStep DEF TypeOK
  <1>4. CASE session[s].row # 0
    <2>1. session[s].row \in DOMAIN members /\ members[session[s].row].user = session[s].found
      BY <1>1, <1>4 DEF IInv, TypeOK, FoundTheirRow
    <2>2. members' = [members EXCEPT ![session[s].row] =
                        Written(@, [status |-> session[s].was], [status |-> "PENDING"])]
      BY <1>4 DEF CommitInvite
    <2>3. /\ members' \in Seq(MemberRows) /\ DOMAIN members' = DOMAIN members
          /\ \A i \in DOMAIN members : members'[i].user = members[i].user
          /\ Kept /\ LeavesOpen(s)
      <3>1. "PENDING" \in MemberStatuses
        BY DEF MemberStatuses
      <3> QED BY <1>1, <2>1, <2>2, <3>1, RestatedMember
    <2>4. ReceiverWasInvited'
      BY <1>2, <2>1, <2>3 DEF IInv, ReceiverWasInvited
    <2> QED BY <1>1, <1>2, <2>3, <2>4, EndStep DEF TypeOK
  <1> QED BY <1>3, <1>4

LEMMA CommitAnswerPreserves ==
  ASSUME IInv, NEW s \in Threads, NEW answer \in Answers, CommitAnswer(s, answer)
  PROVE  IInv' /\ Kept
  <1> DEFINE x == IF answer = "accept" THEN "ACCEPTED" ELSE "DECLINED"
  <1>1. TypeOK /\ Ends(s) /\ email' = email
    BY DEF IInv, CommitAnswer
  <1>2. project' \in ProjectRows /\ project'.receiver = project.receiver
    <2>1. project' = Written(project, session[s].seen, Decided(answer)) /\ project \in ProjectRows
      BY <1>1 DEF CommitAnswer, TypeOK
    <2>2. LET new == Decided(answer)
          IN  /\ "receiver" \notin DOMAIN new /\ "invited" \notin DOMAIN new
              /\ "status" \in DOMAIN new => new["status"] \in Statuses
              /\ "milestones" \in DOMAIN new => new["milestones"] \in {"DRAFT", "PENDING_FUNDING"}
      BY DEF Decided, Statuses
    <2> QED BY <2>1, <2>2, WrittenProject
  <1>3. /\ members' \in Seq(MemberRows) /\ DOMAIN members' = DOMAIN members
        /\ \A i \in DOMAIN members : members'[i].user = members[i].user
        /\ Kept /\ LeavesOpen(s)
    <2>1. CASE session[s].row = 0
      BY <1>1, <2>1, SameMembers DEF CommitAnswer
    <2>2. CASE session[s].row # 0
      <3>1. session[s].row \in DOMAIN members /\ x \in MemberStatuses
        BY <1>1, <2>2 DEF TypeOK, MemberStatuses
      <3>2. members' = [members EXCEPT ![session[s].row] =
                          Written(@, [status |-> session[s].was], [status |-> x])]
        BY <2>2 DEF CommitAnswer
      <3> HIDE DEF x
      <3> QED BY <1>1, <3>1, <3>2, RestatedMember
    <2> QED BY <2>1, <2>2
  <1>4. ReceiverWasInvited'
    BY <1>2, <1>3 DEF IInv, ReceiverWasInvited
  <1> QED BY <1>1, <1>2, <1>3, <1>4, EndStep DEF TypeOK

(* Each row that is claimed becomes the new user's, so a receiver who      *)
(* comes of it has one; and none of them was anybody's.                    *)
LEMMA CommitRegisterPreserves ==
  ASSUME IInv, NEW s \in Threads, CommitRegister(s)
  PROVE  IInv' /\ Kept
  <1> DEFINE u == session[s].by
  <1>1. TypeOK /\ Ends(s) /\ Inserted(s) /\ session[s] \in Sessions
    BY DEF IInv, CommitRegister, Found, Inserted, TypeOK
  <1>2. u \in Users /\ u # None /\ session[s].address \in Emails \cup {None}
        /\ session[s].claims \subseteq DOMAIN members
    BY <1>1, NoneAssumption DEF Sessions, TypeOK
  <1>3. email' \in [Users -> Emails \cup {None}]
    BY <1>1, <1>2 DEF CommitRegister, TypeOK
  <1>4. \A i \in DOMAIN members : members[i] \in MemberRows
    BY <1>1, MembersAreRows
  <1>5. /\ members' = [i \in DOMAIN members |-> members'[i]]
        /\ \A i \in DOMAIN members : members'[i] =
             IF i \in session[s].claims
             THEN [members[i] EXCEPT !.user = u, !.invited_email = None]
             ELSE members[i]
    BY DEF CommitRegister, Claims
  <1>6. \A i \in DOMAIN members :
          /\ members'[i] \in MemberRows
          /\ i \in session[s].claims => members'[i].user = u
    BY <1>2, <1>4, <1>5 DEF MemberRows
  <1>7. members' \in Seq(MemberRows) /\ DOMAIN members' = DOMAIN members
    BY <1>1, <1>5, <1>6, SameRows
  <1>8. Kept /\ LeavesOpen(s)
    <2>1. \A i \in session[s].claims : members[i].user = None
      BY <1>1 DEF IInv, ClaimsAreOpen
    <2> QED BY <1>1, <1>5, <1>7, <2>1 DEF Kept, LeavesOpen
  <1>9. project' \in ProjectRows
        /\ (project'.receiver = project.receiver
              \/ (session[s].claims # {} /\ project'.receiver = u))
    <2>1. CASE session[s].claims # {} /\ session[s].seen.receiver = None
      <3>1. project' = Written(project, session[s].seen, [receiver |-> u, invited |-> None])
            /\ project \in ProjectRows
        BY <1>1, <2>1 DEF CommitRegister, TypeOK
      <3>2. LET new == [receiver |-> u, invited |-> None]
            IN  DOMAIN new = {"receiver", "invited"} /\ new["receiver"] = u
                /\ new["invited"] = None
        OBVIOUS
      <3> QED BY <1>2, <2>1, <3>1, <3>2, WrittenProject
    <2>2. CASE ~(session[s].claims # {} /\ session[s].seen.receiver = None)
      BY <1>1, <2>2 DEF CommitRegister, TypeOK
    <2> QED BY <2>1, <2>2
  <1>10. ReceiverWasInvited'
    BY <1>2, <1>6, <1>7, <1>8, <1>9 DEF IInv, ReceiverWasInvited, Kept
  <1> QED BY <1>1, <1>3, <1>7, <1>8, <1>9, <1>10, EndStep

LEMMA CommitEmailPreserves ==
  ASSUME IInv, NEW s \in Threads, CommitEmail(s)
  PROVE  IInv' /\ Kept
  <1>1. TypeOK /\ Ends(s) /\ project' = project /\ members' = members
    BY DEF IInv, CommitEmail
  <1>2. email' \in [Users -> Emails \cup {None}]
    BY DEF CommitEmail, IInv, TypeOK, Sessions
  <1>3. ReceiverWasInvited'
    BY <1>1 DEF IInv, ReceiverWasInvited
  <1> QED BY <1>1, <1>2, <1>3, SameMembers, EndStep DEF TypeOK

LEMMA RollbackPreserves ==
  ASSUME IInv, NEW s \in Threads, Rollback(s)
  PROVE  IInv' /\ Kept
  <1>1. TypeOK /\ Ends(s) /\ email' = email /\ project' = project /\ members' = members
    BY DEF IInv, Rollback
  <1>2. ReceiverWasInvited'
    BY <1>1 DEF IInv, ReceiverWasInvited
  <1> QED BY <1>1, <1>2, SameMembers, EndStep DEF TypeOK

-----------------------------------------------------------------------------
LEMMA InitIsSound == Init => IInv
  <1> SUFFICES ASSUME Init PROVE IInv
    OBVIOUS
  <1>1. members \in Seq(MemberRows) /\ DOMAIN members = {} /\ project \in ProjectRows
    BY IdleIsTyped DEF Init
  <1>2. \A s \in Threads : session[s].claims = {} /\ session[s].row = 0
          /\ session[s].op = "idle"
    BY DEF Init, Idle
  <1>3. TypeOK
    BY <1>1, <1>2, IdleIsTyped DEF Init, TypeOK
  <1>4. project.receiver = None
    BY DEF Init, NoProject
  <1> QED BY <1>2, <1>3, <1>4
          DEF IInv, FoundTheirRow, ClaimsAreOpen, InsertedApart, Inserted, Found,
              ReceiverWasInvited

LEMMA StepPreserves ==
  ASSUME IInv, [Next]_vars
  PROVE  IInv' /\ Kept
  <1>1. ASSUME NEW s \in Threads, Asks(s) PROVE IInv' /\ Kept
    <2>1. members' = members
      BY <1>1 DEF Asks, AskCreate, AskInvite, AskRespond, AskRegister, AskChangeEmail, Begins
    <2> QED BY <1>1, <2>1, AsksPreserves DEF Kept
  <1>2. ASSUME NEW s \in Threads, Runs(s) PROVE IInv' /\ Kept
    <2>1. CASE FindInvitee(s)
      BY <2>1, FindInviteePreserves DEF FindInvitee, Kept
    <2>2. CASE FindMember(s)
      BY <2>2, FindMemberPreserves DEF FindMember, Kept
    <2>3. CASE InsertUser(s)
      BY <2>3, InsertUserPreserves DEF InsertUser, Kept
    <2>4. CASE CommitCreate(s)
      BY <2>4, CommitCreatePreserves
    <2>5. CASE CommitInvite(s)
      BY <2>5, CommitInvitePreserves
    <2>6. CASE CommitRegister(s)
      BY <2>6, CommitRegisterPreserves
    <2>7. CASE CommitEmail(s)
      BY <2>7, CommitEmailPreserves
    <2>8. CASE \E answer \in Answers : CommitAnswer(s, answer)
      BY <2>8, CommitAnswerPreserves
    <2> QED BY <1>2, <2>1, <2>2, <2>3, <2>4, <2>5, <2>6, <2>7, <2>8 DEF Runs
  <1>3. ASSUME NEW s \in Threads, Rollback(s) PROVE IInv' /\ Kept
    BY <1>3, RollbackPreserves
  <1>4. CASE UNCHANGED vars
    <2>1. IInv'
      BY <1>4 DEF vars, IInv, TypeOK, FoundTheirRow, ClaimsAreOpen, InsertedApart, Inserted,
                  Found, ReceiverWasInvited
    <2> QED BY <2>1, <1>4 DEF vars, Kept
  <1> QED BY <1>1, <1>2, <1>3, <1>4 DEF Next

(* The strengthening always holds.                                         *)
THEOREM Invariance == Spec => []IInv
  <1>1. IInv /\ [Next]_vars => IInv'
    BY StepPreserves
  <1> QED BY InitIsSound, <1>1, PTL DEF Spec

(* Every row and session holds what its columns allow, and refers to rows  *)
(* there are.                                                              *)
THEOREM InvitationsTypeCorrect == Spec => []TypeOK
  <1>1. IInv => TypeOK
    BY DEF IInv
  <1> QED BY <1>1, Invariance, PTL

(* Whoever becomes the receiver of the project, by being invited or by     *)
(* registering with an invited address, has an invitation of their own.    *)
THEOREM ReceiverInvited == Spec => []ReceiverWasInvited
  <1>1. IInv => ReceiverWasInvited
    BY DEF IInv
  <1> QED BY <1>1, Invariance, PTL

(* claim_pending_invitations() takes no invitation that is somebody's.     *)
THEOREM InvitationsKept == Spec => InvitationsAreKept
  <1>1. IInv /\ [Next]_vars => [Kept]_vars
    BY StepPreserves
  <1>2. [Kept]_vars <=>
          [\A i \in DOMAIN members : members[i].user # None
              => i \in DOMAIN members' /\ members'[i].user = members[i].user]_vars
    BY DEF Kept
  <1> QED BY <1>1, <1>2, Invariance, PTL DEF Spec, InvitationsAreKept

=============================================================================
