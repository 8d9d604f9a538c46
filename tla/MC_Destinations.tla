-------------------------- MODULE MC_Destinations --------------------------
(* Destinations for a user whose profile name may change, in one process.  *)
EXTENDS Destinations

CONSTANTS t1, t2, first, second, upi, loop, mr, priya, priyanka, sharma

MCLoopOf == [t \in {t1, t2} |-> loop]
MCKindOf == (first :> "bank") @@ (second :> "bank") @@ (upi :> "upi")
MCAbbreviates == {<<priya, priyanka>>}
MCNames == {<<priya, sharma>>, <<mr, priyanka>>}
\* The user part of the UPI id is the user's first name.
MCUsername == (first :> <<>>) @@ (second :> <<>>) @@ (upi :> <<priya>>)
MCHolders == {<<priya, sharma>>}
MCRegistered ==
  (first :> <<sharma, priya>>) @@ (second :> <<>>) @@ (upi :> <<>>)
MCSymmetry == Permutations({t1, t2})
=============================================================================
