----------------------------- MODULE MCSqlApproval -----------------------------
(* Instances of SqlApproval for TLC: requests are model values, and             *)
(* interchangeable.                                                             *)
EXTENDS SqlApproval, TLC

RequestSymmetry == Permutations(Requests)

=============================================================================
