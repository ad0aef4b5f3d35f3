-------------------------- MODULE ManagedLauncherMC --------------------------
(* ManagedLauncher with launchers and process numbers that are interchangeable. *)
EXTENDS ManagedLauncher, TLC
MCSymmetry == Permutations(Launchers) \cup Permutations(Pids)
=============================================================================
