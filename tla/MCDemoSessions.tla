--------------------------- MODULE MCDemoSessions ---------------------------
(* Instances of DemoSessions for TLC. *)
EXTENDS DemoSessions, TLC

\* Sessions, runs and cleaners are interchangeable.
Symmetric == Permutations(Sessions) \cup Permutations(Runs)

=============================================================================
