--------------------------- MODULE MC_Invitations ---------------------------
(* Invitations for two people besides the client.                          *)
EXTENDS Invitations, TLC

CONSTANTS client, guest1, guest2, home, e1, e2

MCSymmetry == Permutations(Threads) \cup Permutations({guest1, guest2})
=============================================================================
