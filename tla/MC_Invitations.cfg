\* A client who invites twice, two people who may have registered or not.
SPECIFICATION Spec
CONSTANTS
  client = client
  home = home
  guest1 = guest1
  guest2 = guest2
  e1 = e1
  e2 = e2
  Threads = {s1, s2}
  Users = {client, guest1, guest2}
  Client = client
  Emails = {home, e1, e2}
  MaxMembers = 2
  None = None
SYMMETRY MCSymmetry
CHECK_DEADLOCK FALSE
INVARIANTS ReceiverWasInvited
PROPERTIES InvitationsAreKept
