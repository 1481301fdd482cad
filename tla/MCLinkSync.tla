----------------------------- MODULE MCLinkSync -----------------------------
(* Instances of LinkSync for TLC: links, parts, knowledge bases and processes *)
(* are model values.                                                          *)
EXTENDS LinkSync, TLC

=============================================================================
