---------------------------- MODULE MCExtractJob ----------------------------
(* Instances of ExtractJob for TLC: chunks are model values.               *)
EXTENDS ExtractJobInv, TLC

\* Chunks are interchangeable: used by the runs that check safety only.
ChunkSymmetry == Permutations(Chunks)

=============================================================================
