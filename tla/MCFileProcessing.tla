-------------------------- MODULE MCFileProcessing --------------------------
(* Instances of FileProcessing for TLC: calls are model values.               *)
EXTENDS FileProcessing, TLC

=============================================================================
