---------------------------- MODULE MigrationMC -----------------------------
EXTENDS Migration

\* What validate lets through and an owner refuses: a registry that names a
\* database twice for validate_runtime, a record without a time for the history.
RefusedBy == [n \in All |-> CASE n = "databases" -> {"oddnames"}
                             [] n = "history"   -> {"badtimes"}
                             [] OTHER           -> {}]
=============================================================================
