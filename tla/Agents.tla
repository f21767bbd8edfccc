------------------------------- MODULE Agents --------------------------------
(***************************************************************************)
(* Agents from `bubble run` to their removal: the agent table of the       *)
(* scheduler (libbubble/scheduler.c), the steps of run_agent               *)
(* (bubblehub/cli/run.py), and stop_agent and delete_agent                 *)
(* (bubblehub/app/agents.py), which bubble ps --kill and the control API   *)
(* call.                                                                   *)
(*                                                                         *)
(* The runs share one --root-dir or have none.  A run that finds no        *)
(* persistent agent makes up a fresh id (a uuid); here that is the name of *)
(* the run itself, which also stands for its pid: a run happens once, and  *)
(* pids are not used again.                                                *)
(***************************************************************************)
EXTENDS Integers, FiniteSets

CONSTANTS
  Runs,        \* invocations of bubble run; also their pids and fresh agent ids
  Rooted,      \* the values of "the run has a --root-dir"
  Operators,   \* users of bubble ps --kill and of the control API
  MaxAgents,   \* BUBBLEHUB_MAX_AGENTS
  MaxLosses,   \* bound on runs that are killed, or fail before their try block
  Empty, Nobody

ASSUME AgentsAssumption ==
  /\ MaxAgents \in Nat \ {0}
  /\ MaxLosses \in Nat
  /\ Rooted \subseteq BOOLEAN
  /\ Nobody \notin Runs
  /\ Empty \notin [id : Runs, pid : Runs]

VARIABLES
  agents,     \* the table of registered agents
  marker,     \* .bubblehub/current-agent of the root directory
  homes,      \* agents that have a home under it
  manifests,  \* agents that have an access manifest directory
  metadata,   \* agent -> its metadata file: none, or whether it names the root
  run,        \* where every run is, and its agent
  sandboxes,  \* runs whose sandbox is up
  operator,   \* what every operator is doing
  lost        \* history: runs that ended without their finally block

avars == <<agents, marker, homes, manifests, metadata, run, sandboxes, operator, lost>>
files == <<marker, homes, manifests, metadata>>

AgentSlots == 1..MaxAgents

\* Where a run is between its registration and its deregistration.
Registered == {"record", "prepare", "launch", "running", "cleanup"}

NoOperation == [pc |-> "idle", id |-> Nobody, pid |-> Nobody, deleting |-> FALSE]

AInit ==
  /\ agents = [i \in AgentSlots |-> Empty]
  /\ marker = Nobody
  /\ homes = {}
  /\ manifests = {}
  /\ metadata = [a \in Runs |-> "none"]
  /\ run = [r \in Runs |-> [pc |-> "off", id |-> Nobody, rooted |-> FALSE]]
  /\ sandboxes = {}
  /\ operator = [o \in Operators |-> NoOperation]
  /\ lost = {}

-----------------------------------------------------------------------------
(* The agent table.                                                        *)

SlotsOf(a) == {i \in AgentSlots : agents[i] # Empty /\ agents[i].id = a}
FreeAgentSlots == {i \in AgentSlots : agents[i] = Empty}

\* The slot of the agent, else the first free one.
SlotFor(i, a) ==
  LET S == IF SlotsOf(a) # {} THEN SlotsOf(a) ELSE FreeAgentSlots
  IN  i \in S /\ \A j \in S : i <= j

Registering(a, pid) ==
  \E i \in AgentSlots :
    /\ SlotFor(i, a)
    /\ agents' = [agents EXCEPT ![i] = [id |-> a, pid |-> pid]]

\* Whoever registered it.
Deregistering(a) ==
  agents' = [i \in AgentSlots |-> IF i \in SlotsOf(a) THEN Empty ELSE agents[i]]

-----------------------------------------------------------------------------
(* run_agent.                                                              *)

Goto(r, to) == run' = [run EXCEPT ![r].pc = to]

\* _find_persistent_agent_id: the marker if its home exists, else the newest.
Persistent == IF marker \in homes THEN {marker} ELSE homes

\* _select_persistent_sandbox.
Select(r) ==
  /\ run[r].pc = "off"
  /\ \E rooted \in Rooted :
       LET starts(a) == run' = [run EXCEPT ![r] =
                          [pc |-> "register", id |-> a, rooted |-> rooted]]
       IN  \/ /\ ~rooted \/ Persistent = {}
              /\ starts(r)
              /\ UNCHANGED files
           \/ /\ rooted
              /\ \E a \in Persistent : starts(a)
              /\ UNCHANGED files
           \/ /\ rooted   \* --force-new-sandbox
              /\ \E a \in Persistent :
                   /\ homes' = homes \ {a}
                   /\ manifests' = manifests \ {a}
              /\ starts(r)
              /\ UNCHANGED <<marker, metadata>>
  /\ UNCHANGED <<agents, sandboxes, operator, lost>>

Register(r) ==
  /\ run[r].pc = "register"
  /\ Registering(run[r].id, r)
  /\ Goto(r, "record")
  /\ UNCHANGED <<files, sandboxes, operator, lost>>

\* The table is full: register_agent raises and the run ends.
RegisterFails(r) ==
  /\ run[r].pc = "register"
  /\ SlotsOf(run[r].id) = {}
  /\ FreeAgentSlots = {}
  /\ Goto(r, "done")
  /\ UNCHANGED <<agents, files, sandboxes, operator, lost>>

\* _record_persistent_sandbox and write_agent_metadata.
Record(r) ==
  /\ run[r].pc = "record"
  /\ marker' = IF run[r].rooted THEN run[r].id ELSE marker
  /\ metadata' = [metadata EXCEPT ![run[r].id] = IF run[r].rooted THEN "rooted" ELSE "rootless"]
  /\ Goto(r, "prepare")
  /\ UNCHANGED <<agents, homes, manifests, sandboxes, operator, lost>>

\* Staging, overlay directories, the directory of the manifest, the endpoint.
Prepare(r) ==
  /\ run[r].pc = "prepare"
  /\ manifests' = manifests \cup {run[r].id}
  /\ Goto(r, "launch")
  /\ UNCHANGED <<agents, marker, homes, metadata, sandboxes, operator, lost>>

\* The sandbox comes up; it makes the home of the agent.
Launch(r) ==
  /\ run[r].pc = "launch"
  /\ sandboxes' = sandboxes \cup {r}
  /\ homes' = IF run[r].rooted THEN homes \cup {run[r].id} ELSE homes
  /\ Goto(r, "running")
  /\ UNCHANGED <<agents, marker, manifests, metadata, operator, lost>>

\* A bug: a sandbox that cannot be started ends the run at once.
LaunchFails_NoFinally(r) ==
  /\ run[r].pc = "launch"
  /\ Goto(r, "done")
  /\ UNCHANGED <<agents, files, sandboxes, operator, lost>>

\* The helper fails to set the sandbox up, or an exception is raised.
LaunchFails(r) ==
  /\ run[r].pc = "launch"
  /\ Goto(r, "cleanup")
  /\ UNCHANGED <<agents, files, sandboxes, operator, lost>>

\* The agent exits; bubble run, if it is still there, sees it.
SandboxEnds(r) ==
  /\ r \in sandboxes
  /\ sandboxes' = sandboxes \ {r}
  /\ Goto(r, IF run[r].pc = "running" THEN "cleanup" ELSE run[r].pc)
  /\ UNCHANGED <<agents, files, operator, lost>>

\* The finally block.
Deregister(r) ==
  /\ run[r].pc = "cleanup"
  /\ Deregistering(run[r].id)
  /\ Goto(r, "done")
  /\ UNCHANGED <<files, sandboxes, operator, lost>>

\* An exception after the registration and before the try block.
FailsEarly(r) ==
  /\ Cardinality(lost) < MaxLosses
  /\ run[r].pc \in {"record", "prepare"}
  /\ lost' = lost \cup {r}
  /\ Goto(r, "done")
  /\ UNCHANGED <<agents, files, sandboxes, operator>>

\* bubble run dies of a signal; its sandbox is another process and stays.
Dies(r) ==
  /\ lost' = IF run[r].pc \in Registered THEN lost \cup {r} ELSE lost
  /\ run' = IF run[r].pc = "off" THEN run ELSE [run EXCEPT ![r].pc = "done"]

Killed(r) ==
  /\ Cardinality(lost) < MaxLosses
  /\ run[r].pc \in Registered
  /\ Dies(r)
  /\ UNCHANGED <<agents, files, sandboxes, operator>>

-----------------------------------------------------------------------------
(* stop_agent and delete_agent.                                            *)

\* delete_agent: an agent with an entry is stopped first, by stop_agent, which
\* takes a snapshot of its own.
Delete(o, a) ==
  /\ operator[o].pc = "idle"
  /\ operator' = [operator EXCEPT ![o] =
       [pc |-> IF SlotsOf(a) = {} THEN "remove" ELSE "stop",
        id |-> a, pid |-> Nobody, deleting |-> TRUE]]
  /\ UNCHANGED <<agents, files, run, sandboxes, lost>>

\* stop_agent, asked for or called by delete_agent, reads the pid of the entry.
Stop(o, a) ==
  /\ operator[o].pc = "idle" \/ (operator[o].pc = "stop" /\ operator[o].id = a)
  /\ \E i \in SlotsOf(a) :
       operator' = [operator EXCEPT ![o] = [pc |-> "kill", id |-> a,
                      pid |-> agents[i].pid, deleting |-> operator[o].pc = "stop"]]
  /\ UNCHANGED <<agents, files, run, sandboxes, lost>>

\* The entry went away in between: stop_agent raises, and nothing is deleted.
StopFindsNone(o) ==
  /\ operator[o].pc = "stop"
  /\ SlotsOf(operator[o].id) = {}
  /\ operator' = [operator EXCEPT ![o] = NoOperation]
  /\ UNCHANGED <<agents, files, run, sandboxes, lost>>

\* SIGTERM to the registered pid, that of bubble run.
Kill(o) ==
  /\ operator[o].pc = "kill"
  /\ Dies(operator[o].pid)
  /\ operator' = [operator EXCEPT ![o].pc = "deregister"]
  /\ UNCHANGED <<agents, files, sandboxes>>

StopDeregisters(o) ==
  /\ operator[o].pc = "deregister"
  /\ Deregistering(operator[o].id)
  /\ operator' = [operator EXCEPT ![o] =
       IF @.deleting THEN [@ EXCEPT !.pc = "remove", !.pid = Nobody] ELSE NoOperation]
  /\ UNCHANGED <<files, run, sandboxes, lost>>

\* The rest of delete_agent: the home that the metadata leads to, the manifest,
\* the marker if it names the agent, and the metadata.
Remove(o) ==
  /\ operator[o].pc = "remove"
  /\ LET a == operator[o].id
         rooted == metadata[a] = "rooted"
     IN  /\ homes' = IF rooted THEN homes \ {a} ELSE homes
         /\ manifests' = manifests \ {a}
         /\ marker' = IF rooted /\ marker = a THEN Nobody ELSE marker
         /\ metadata' = [metadata EXCEPT ![a] = "none"]
  /\ operator' = [operator EXCEPT ![o] = NoOperation]
  /\ UNCHANGED <<agents, run, sandboxes, lost>>

ANext ==
  \/ \E r \in Runs :
       \/ Select(r) \/ Register(r) \/ RegisterFails(r) \/ Record(r) \/ Prepare(r)
       \/ Launch(r) \/ LaunchFails(r) \/ SandboxEnds(r) \/ Deregister(r)
       \/ FailsEarly(r) \/ Killed(r)
  \/ \E o \in Operators :
       \/ \E a \in Runs : Delete(o, a) \/ Stop(o, a)
       \/ StopFindsNone(o) \/ Kill(o) \/ StopDeregisters(o) \/ Remove(o)

ASpec == AInit /\ [][ANext]_avars

-----------------------------------------------------------------------------
(* Properties.                                                             *)

(***************************************************************************)
(* An entry of the table is that of a run that is still there, unless that *)
(* run was killed or failed before its try block: whatever runs of one     *)
(* agent and operators do, no run that ends in order leaves an entry.      *)
(***************************************************************************)
NoStaleEntry ==
  \A i \in AgentSlots : agents[i] # Empty =>
    run[agents[i].pid].pc \in Registered \/ agents[i].pid \in lost

(***************************************************************************)
(* bubble ps shows the running agents: an agent whose sandbox is up is in  *)
(* the table, where it can be seen and stopped.                            *)
(***************************************************************************)
RunningIsListed == \A r \in sandboxes : SlotsOf(run[r].id) # {}
=============================================================================
