----------------------------- MODULE MC_Assistance -----------------------------
(* Requests at once in a process that has just started.                    *)
EXTENDS Assistance
=============================================================================
