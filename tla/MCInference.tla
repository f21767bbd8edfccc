----------------------------- MODULE MCInference -----------------------------
(***************************************************************************)
(* Small instances of Inference.  All models have one size: at 10 units no *)
(* two of them fit together and every admission of one competes with the   *)
(* others; at 5 two fit, and what they compete for is a slot.              *)
(***************************************************************************)
EXTENDS Inference, TLC

CONSTANTS
  ModelRam,     \* size of every model
  MaxEvents     \* bound on backends started, faults and limits set, together

Jobs == {[name |-> n, ram |-> ModelRam, vram |-> 0, niceness |-> 0] : n \in ModelNames}

Events == Cardinality({p \in Pids : backends[p].status # "none"})
            + exits + kills + evicts + hangs + reinits
            + IF ram_limit = 0 THEN 0 ELSE 1

BoundedSpec == IInit /\ [][INext /\ Events' <= MaxEvents]_vars
BoundedFairSpec ==
  BoundedSpec /\ \A c \in Callers : WF_vars(Step(c) /\ Remember /\ Events' <= MaxEvents)

\* Nothing here reads the queue: states that differ only in it are one.
WithoutQueue == <<models, limits, now, signalled, cvars, bvars, hvars>>

\* Pids are interchangeable, and so are callers and models.
Symmetry == Permutations(Pids) \cup Permutations(Callers) \cup Permutations(ModelNames)
=============================================================================
