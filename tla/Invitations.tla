----------------------------- MODULE Invitations -----------------------------
(***************************************************************************)
(* How one project finds its receiver: its client creates it, invites an   *)
(* address, and invites another; people register and change addresses; the *)
(* receiver accepts or declines.  An address nobody has registered with is *)
(* kept on the invitation, and registering with it claims the invitation.  *)
(*                                                                         *)
(* None of the handlers locks a row.  Each reads, decides, and writes when *)
(* it commits, only what differs from what it has read; what stands        *)
(* between two of them is the unique indexes on addresses and members.     *)
(***************************************************************************)
EXTENDS Naturals, Sequences

CONSTANTS
  Threads,     \* the server's threads
  Users,       \* the people who have, or may open, an account
  Client,      \* the one who creates the project
  Emails,
  MaxMembers,  \* bound on the invitations of the project
  None         \* a NULL column

ASSUME ClientAssumption == Client \in Users
ASSUME NoneAssumption == None \notin Users \cup Emails

VARIABLES
  email,     \* the address of each user, None for who has not registered
  project,   \* the project's row, and the status its milestones share
  members,   \* the rows of project_members in the role RECEIVER
  session    \* what each thread is in the middle of

vars == <<email, project, members, session>>

-----------------------------------------------------------------------------
(* State.                                                                  *)

Statuses == {"none", "DRAFT", "AWAITING_ACCEPTANCE", "ACTIVE", "DECLINED"}
EditableStatuses == {"DRAFT", "AWAITING_ACCEPTANCE"}

ProjectRows ==
  [status : Statuses, receiver : Users \cup {None}, invited : Emails \cup {None},
   milestones : {"DRAFT", "PENDING_FUNDING"}]

MemberStatuses == {"PENDING", "ACCEPTED", "DECLINED"}

MemberRows ==
  [user : Users \cup {None}, invited_email : Emails \cup {None}, status : MemberStatuses]

Answers == {"accept", "decline"}
Ops == {"create", "invite", "register", "change_email", "idle"} \cup Answers

(* seen: the project as it was loaded.  found: who has the address.        *)
(* row, was: the member row a SELECT found, 0 if none, and its status.     *)
(* claims: the rows claim_pending_invitations() found.                     *)
Sessions ==
  [op : Ops, at : {"read", "found"}, by : Users, address : Emails \cup {None},
   seen : ProjectRows, found : Users \cup {None}, row : Nat, was : MemberStatuses,
   claims : SUBSET Nat]

TypeOK ==
  /\ email \in [Users -> Emails \cup {None}]
  /\ project \in ProjectRows
  /\ members \in Seq(MemberRows)
  /\ session \in [Threads -> Sessions]
  /\ \A s \in Threads :
       /\ session[s].claims \subseteq DOMAIN members
       /\ session[s].row \in DOMAIN members \cup {0}

NoProject ==
  [status |-> "none", receiver |-> None, invited |-> None, milestones |-> "DRAFT"]

Idle ==
  [op |-> "idle", at |-> "read", by |-> Client, address |-> None, seen |-> NoProject,
   found |-> None, row |-> 0, was |-> "PENDING", claims |-> {}]

(* The client and whoever else has registered already.                     *)
Init ==
  /\ email \in [Users -> Emails \cup {None}]
  /\ email[Client] # None
  /\ \A u, v \in Users : email[u] = email[v] => u = v \/ email[u] = None
  /\ project = NoProject
  /\ members = << >>
  /\ session = [s \in Threads |-> Idle]

-----------------------------------------------------------------------------
(* What SELECTs return and what the unique indexes refuse.                 *)

Registered(e) == {u \in Users : email[u] = e}

(* users_repo.get_by_email()                                               *)
GetByEmail(e) ==
  IF e = None \/ Registered(e) = {} THEN None ELSE CHOOSE u \in Users : email[u] = e

(* projects_repo.get_member()                                              *)
GetMember(u) ==
  IF \E i \in DOMAIN members : members[i].user = u
  THEN CHOOSE i \in DOMAIN members : members[i].user = u
  ELSE 0

(* An address somebody has inserted and not committed yet makes others     *)
(* that want it wait.                                                      *)
Inserted(t) == session[t].op = "register" /\ session[t].at = "found"
Contended(s, e) == \E t \in Threads \ {s} : Inserted(t) /\ session[t].address = e

(* Bug: addresses are not unique.                                          *)
BugAddressFree(s, e) == TRUE

AddressFree(s, e) == Registered(e) = {} /\ ~Contended(s, e)

(* An attribute is written only if it differs from what was loaded.        *)
Written(old, seen, new) ==
  [c \in DOMAIN old |-> IF c \in DOMAIN new /\ new[c] # seen[c] THEN new[c] ELSE old[c]]

Begins(s, op, u, e) ==
  /\ session[s].op = "idle"
  /\ session' = [session EXCEPT ![s] =
       [Idle EXCEPT !.op = op, !.by = u, !.address = e, !.seen = project]]
  /\ UNCHANGED <<email, project, members>>

Ends(s) == session' = [session EXCEPT ![s] = Idle]

-----------------------------------------------------------------------------
(* What a handler checks on the rows it reads first.                       *)

(* A project may be created without a receiver.                            *)
AskCreate(s, e) ==
  /\ project.status = "none"
  /\ \A t \in Threads : session[t].op # "create"
  /\ e # email[Client]
  /\ Begins(s, "create", Client, e)

AskInvite(s, e) ==
  /\ project.status \in EditableStatuses
  /\ e # email[Client]
  /\ Begins(s, "invite", Client, e)

AskRespond(s, answer) ==
  /\ project.receiver # None
  /\ project.status = "AWAITING_ACCEPTANCE"
  /\ Begins(s, answer, project.receiver, None)

(* With a password, or with a Google identity that matches no account.     *)
AskRegister(s, u, e) ==
  /\ email[u] = None /\ Registered(e) = {}
  /\ \A t \in Threads : session[t].op = "register" => session[t].by # u
  /\ Begins(s, "register", u, e)

AskChangeEmail(s, u, e) ==
  /\ email[u] # None /\ Registered(e) = {}
  /\ Begins(s, "change_email", u, e)

-----------------------------------------------------------------------------
(* What it reads next.                                                     *)

Reads(s, op) == session[s].op = op /\ session[s].at = "read"

(* Who has the address, and whether they were invited before.              *)
FindInvitee(s) ==
  LET found == GetByEmail(session[s].address)
      row == IF found = None \/ session[s].op = "create" THEN 0 ELSE GetMember(found)
  IN /\ Reads(s, "create") \/ Reads(s, "invite")
     /\ found # Client
     /\ session' = [session EXCEPT ![s] =
          [@ EXCEPT !.at = "found", !.found = found, !.row = row,
                    !.was = IF row = 0 THEN session[s].was ELSE members[row].status]]
     /\ UNCHANGED <<email, project, members>>

FindMember(s) ==
  LET row == GetMember(session[s].by)
  IN /\ \E answer \in Answers : Reads(s, answer)
     /\ session' = [session EXCEPT ![s] =
          [@ EXCEPT !.at = "found", !.row = row,
                    !.was = IF row = 0 THEN session[s].was ELSE members[row].status]]
     /\ UNCHANGED <<email, project, members>>

Addressed(e) ==
  {i \in DOMAIN members : members[i].invited_email = e /\ members[i].user = None
                            /\ members[i].status = "PENDING"}

(* The user is inserted, and then the invitations to its address are read. *)
InsertUser(s) ==
  /\ Reads(s, "register")
  /\ AddressFree(s, session[s].address)
  /\ session' = [session EXCEPT ![s] =
       [@ EXCEPT !.at = "found", !.seen = project, !.claims = Addressed(session[s].address)]]
  /\ UNCHANGED <<email, project, members>>

-----------------------------------------------------------------------------
(* What it commits.                                                        *)

Found(s, op) == session[s].op = op /\ session[s].at = "found"

Invitation(s) ==
  [user |-> session[s].found,
   invited_email |-> IF session[s].found = None THEN session[s].address ELSE None,
   status |-> "PENDING"]

Invites(s) ==
  [receiver |-> session[s].found, invited |-> Invitation(s).invited_email,
   status |-> "AWAITING_ACCEPTANCE"]

(* uq_project_members_project_id_user_id, ..._project_id_invited_email     *)
Unique(row) ==
  \A i \in DOMAIN members :
    /\ members[i].user # row.user \/ row.user = None
    /\ members[i].invited_email # row.invited_email \/ row.invited_email = None

AddsMember(s) ==
  /\ Unique(Invitation(s))
  /\ Len(members) < MaxMembers
  /\ members' = Append(members, Invitation(s))

CommitCreate(s) ==
  /\ Found(s, "create")
  /\ IF session[s].address = None
     THEN project' = [NoProject EXCEPT !.status = "DRAFT"] /\ UNCHANGED members
     ELSE project' = Written(NoProject, NoProject, Invites(s)) /\ AddsMember(s)
  /\ Ends(s)
  /\ UNCHANGED email

CommitInvite(s) ==
  /\ Found(s, "invite")
  /\ project' = Written(project, session[s].seen, Invites(s))
  /\ IF session[s].row = 0
     THEN AddsMember(s)
     ELSE members' = [members EXCEPT ![session[s].row] =
            Written(@, [status |-> session[s].was], [status |-> "PENDING"])]
  /\ Ends(s)
  /\ UNCHANGED email

Decided(answer) ==
  IF answer = "accept"
  THEN [status |-> "ACTIVE", milestones |-> "PENDING_FUNDING"]
  ELSE [status |-> "DECLINED"]

CommitAnswer(s, answer) ==
  /\ Found(s, answer)
  /\ project' = Written(project, session[s].seen, Decided(answer))
  /\ members' =
       IF session[s].row = 0 THEN members
       ELSE [members EXCEPT ![session[s].row] =
              Written(@, [status |-> session[s].was],
                      [status |-> IF answer = "accept" THEN "ACCEPTED" ELSE "DECLINED"])]
  /\ Ends(s)
  /\ UNCHANGED email

(* Bug: the rows are claimed for good only when they make a receiver.      *)
BugClaims(s) == IF session[s].seen.receiver = None THEN {} ELSE session[s].claims

Claims(s) == session[s].claims

(* Every invitation to the address becomes the new user's; the first that  *)
(* meets a project without a receiver fills that column.                   *)
CommitRegister(s) ==
  /\ Found(s, "register")
  /\ email' = [email EXCEPT ![session[s].by] = session[s].address]
  /\ members' = [i \in DOMAIN members |->
       IF i \in Claims(s)
       THEN [members[i] EXCEPT !.user = session[s].by, !.invited_email = None]
       ELSE members[i]]
  /\ project' =
       IF session[s].claims # {} /\ session[s].seen.receiver = None
       THEN Written(project, session[s].seen, [receiver |-> session[s].by, invited |-> None])
       ELSE project
  /\ Ends(s)

CommitEmail(s) ==
  /\ Reads(s, "change_email")
  /\ AddressFree(s, session[s].address)
  /\ email' = [email EXCEPT ![session[s].by] = session[s].address]
  /\ Ends(s)
  /\ UNCHANGED <<project, members>>

(* A constraint refuses a row, the invitee turns out to be the client, or  *)
(* the process dies: nothing is written.                                   *)
Rollback(s) ==
  /\ session[s].op # "idle"
  /\ Ends(s)
  /\ UNCHANGED <<email, project, members>>

-----------------------------------------------------------------------------
Asks(s) ==
  \/ \E e \in Emails \cup {None} : AskCreate(s, e)
  \/ \E e \in Emails : AskInvite(s, e)
  \/ \E answer \in Answers : AskRespond(s, answer)
  \/ \E u \in Users, e \in Emails : AskRegister(s, u, e) \/ AskChangeEmail(s, u, e)

Runs(s) ==
  \/ FindInvitee(s) \/ FindMember(s) \/ InsertUser(s)
  \/ CommitCreate(s) \/ CommitInvite(s) \/ CommitRegister(s) \/ CommitEmail(s)
  \/ \E answer \in Answers : CommitAnswer(s, answer)

Next == \E s \in Threads : Asks(s) \/ Runs(s) \/ Rollback(s)

Spec == Init /\ [][Next]_vars

-----------------------------------------------------------------------------
(* Whoever is shown as the receiver, and so may read the project, accept   *)
(* it and be paid, has an invitation of their own on record.               *)
ReceiverWasInvited ==
  project.receiver # None => \E i \in DOMAIN members : members[i].user = project.receiver

(* An invitation has one addressee: once somebody has it, by account or by *)
(* claiming the address, nobody who registers later takes it over.         *)
InvitationsAreKept ==
  [][\A i \in DOMAIN members :
       members[i].user # None => i \in DOMAIN members' /\ members'[i].user = members[i].user]_vars

(* projects/model.py on invited_receiver_email: "Who was invited, when     *)
(* they do not have an account yet. [...] The email is claimed and         *)
(* `receiver_id` is filled in the moment that person registers."  So who   *)
(* becomes the receiver by registering is who the project was addressed to.*)
ReceiverIsTheInvited ==
  [][\A s \in Threads : \A u \in Users :
       CommitRegister(s) /\ project.receiver = None /\ project'.receiver = u
         => project.invited = email'[u]]_vars
=============================================================================
