-------------------------- MODULE MC_AccountOpening --------------------------
(* AccountOpening for one user who registers, tops up and withdraws.       *)
EXTENDS AccountOpening

CONSTANT user

MCAccounts ==
  {Available(user), Protected(user), <<"USER_PENDING_SETTLEMENT", user>>, External}

MCWants == {OpenUserAccounts(user), ForTopUp(user), ForWithdrawal(user)}
=============================================================================
