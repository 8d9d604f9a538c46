----------------------------- MODULE MC_Sessions -----------------------------
(* One user's sessions.                                                    *)
EXTENDS Sessions
=============================================================================
