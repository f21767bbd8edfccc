-------------------------- MODULE MCAccessManifest ---------------------------
(***************************************************************************)
(* Instances of AccessManifest for TLC: an HTTP host below a wildcard, two *)
(* requests to it that differ in the method, and rules of every            *)
(* specificity.                                                            *)
(***************************************************************************)
EXTENDS ManifestHistory, TLC

CONSTANTS t1, t2, t3, p1, p2

MCKinds == {"http"}
MCSubjects == {"api.x"}
MCMethods == {"GET", "CONNECT"}
MCPaths == {"/"}
MCCovers == "*.x" :> {"api.x"}

Get == [kind |-> "http", subject |-> "api.x", method |-> "GET", path |-> "/"]
Tunnel == [Get EXCEPT !.method = "CONNECT"]
MCAsked == {Get, Tunnel}

Wild == [kind |-> "http", subject |-> "*.x", method |-> "", path |-> "*"]
OfMethod == [kind |-> "http", subject |-> "*.x", method |-> "GET", path |-> ""]
MCRules == {Wild, OfMethod, Get, HostScope(Get)}

OwnProcesses == (t1 :> p1) @@ (t2 :> p2)

-----------------------------------------------------------------------------
(* One writer with every rule; or two, of one process or of two, that      *)
(* decide about one host and one request to it.                            *)

TwoProcesses == (t1 :> p1) @@ (t2 :> p1) @@ (t3 :> p2)

VARIABLE working   \* the threads that use the manifest

TwoDecide(op) ==
  /\ op.kind = "apply" =>
       /\ op.policy = "always"
       /\ op.rule = IF op.for = Get THEN HostScope(Get) ELSE Get
  /\ op.for \in {Get, NoRequest}

MCInit == HInit /\ working \in {{t1}, {t1, t2}, {t1, t3}}

MCNext ==
  /\ HNext
  /\ UNCHANGED working
  /\ \A t \in Threads \ working : UNCHANGED thread[t]
  /\ working # {t1} => \A t \in working : TwoDecide(thread'[t])

MCSpec == MCInit /\ [][MCNext]_<<hvars, working>>

\* All threads at once, with every rule.
AllWork ==
  /\ HInit /\ working = Threads
  /\ [][HNext /\ UNCHANGED working]_<<hvars, working>>

\* What the invariants and the steps can tell apart: not what an operation
\* returned, nor the marks on a file that nobody has, nor the decisions that were
\* saved before a race.
Visible ==
  <<path, tmp, file, [t \in Threads |-> [thread[t] EXCEPT !.result = "none"]],
    shared \cap Live, working, raced>>
  \o IF raced THEN << >> ELSE <<saved, resolved, stale>>
=============================================================================
