--------------------------- MODULE MCGoogleActions ---------------------------
(* Instances of GoogleActions for TLC: requests and processes are model       *)
(* values.                                                                    *)
EXTENDS GoogleActions, TLC

=============================================================================
