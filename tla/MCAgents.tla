------------------------------ MODULE MCAgents -------------------------------
(***************************************************************************)
(* Small instances of Agents and ControlViews.                             *)
(***************************************************************************)
EXTENDS ControlViews, TLC

CONSTANTS
  MaxRootless,     \* bound on the runs without a root directory, which share nothing
  MaxViewedRuns    \* bound on the runs when there is a view

Started == {r \in Runs : run[r].pc # "off"}

\* All the runs and no view; or fewer runs, of one root directory, which die only
\* of an operator, and one view, which ends the behaviour.
MCInit ==
  /\ AInit
  /\ steady = Standing
  /\ \E pc \in {"idle", "absent"} :
       viewer = [pc |-> pc, left |-> [i \in AgentSlots |-> Empty], shown |-> [s \in Shown |-> 0]]

MCNext ==
  \/ /\ viewer.pc = "absent"
     /\ ANext
     /\ Cardinality({r \in Started' : ~run'[r].rooted}) <= MaxRootless
     /\ UNCHANGED <<viewer, steady>>
  \/ /\ viewer.pc \notin {"absent", "shown"}
     /\ VNext
     /\ Cardinality(Started') <= MaxViewedRuns
     /\ \A r \in Started' : run'[r].rooted
     /\ UNCHANGED operator => UNCHANGED lost

MCSpec == MCInit /\ [][MCNext]_vvars

\* Runs are interchangeable, and so are operators.
Symmetry == Permutations(Runs) \cup Permutations(Operators)
=============================================================================
