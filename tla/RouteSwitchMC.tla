---------------------------- MODULE RouteSwitchMC ----------------------------
(* Names for the constants of RouteSwitch and its symmetries. *)
EXTENDS RouteSwitch, TLC

Symmetry == Permutations(Procs) \cup Permutations(Profiles)
===============================================================================
