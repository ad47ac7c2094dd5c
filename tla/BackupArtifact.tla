--------------------------- MODULE BackupArtifact ---------------------------
(***************************************************************************)
(* What one run of a pipeline promises: the dump is packaged into a number *)
(* of parts, Telegram comes to hold parts of it, the backup is offered for *)
(* restoring only when every part is held, and the run is called a success *)
(* exactly when the backup is offered.                                     *)
(***************************************************************************)
EXTENDS Naturals

CONSTANT MaxParts  \* the most parts a dump is packaged into

VARIABLES
  size,     \* how many parts the dump is packaged into so far
  held,     \* the parts Telegram holds
  offered,  \* the backup can be chosen for a restore
  verdict   \* how the run ended

Init ==
  /\ size = 0
  /\ held = {}
  /\ offered = FALSE
  /\ verdict = "none"

Package(n) ==
  /\ n > size
  /\ held = {}
  /\ size' = n
  /\ UNCHANGED <<held, offered, verdict>>

Deliver(k) ==
  /\ k \in 1 .. size
  /\ held' = held \union {k}
  /\ UNCHANGED <<size, offered, verdict>>

Offer ==
  /\ size > 0
  /\ held = 1 .. size
  /\ verdict = "none"
  /\ offered' = TRUE
  /\ UNCHANGED <<size, held, verdict>>

Judge(v) ==
  /\ verdict = "none"
  /\ v = "success" <=> offered
  /\ verdict' = v
  /\ UNCHANGED <<size, held, offered>>

Next ==
  \/ \E n \in 1 .. MaxParts : Package(n)
  \/ \E k \in 1 .. MaxParts : Deliver(k)
  \/ Offer
  \/ \E v \in {"success", "failure", "cancelled"} : Judge(v)

Spec == Init /\ [][Next]_<<size, held, offered, verdict>>
=============================================================================
