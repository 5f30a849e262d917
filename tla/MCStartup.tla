----------------------------- MODULE MCStartup -------------------------------
(* Symmetry for the constants of Startup.                                  *)
EXTENDS Startup, TLC

Symmetry == Permutations(Daemon)
==============================================================================
