-------------------------- MODULE MCGenerationQueue --------------------------
(***************************************************************************)
(* Model values for checking GenerationQueue.                              *)
(***************************************************************************)
EXTENDS GenerationQueue, TLC

\* Worker processes are interchangeable: no action orders them.
Interchangeable == Permutations(Workers)

==============================================================================
