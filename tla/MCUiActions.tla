---------------------------- MODULE MCUiActions ----------------------------
(* Instances of UiActions for TLC: requests, pages and processes are model    *)
(* values.                                                                    *)
EXTENDS UiActions, TLC

=============================================================================
