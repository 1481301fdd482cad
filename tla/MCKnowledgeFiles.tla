-------------------------- MODULE MCKnowledgeFiles --------------------------
(* The instance of KnowledgeFiles for TLC: files and processes are model     *)
(* values.  It checks a liveness property, so without symmetry.              *)
EXTENDS KnowledgeFiles, TLC

=============================================================================
