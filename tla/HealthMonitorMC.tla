--------------------------- MODULE HealthMonitorMC ---------------------------
(* HealthMonitor for TLC: services, and handlers, are interchangeable.     *)
EXTENDS HealthMonitor, TLC

HealthSymmetry == Permutations(Services) \union Permutations(Handlers)
=============================================================================
