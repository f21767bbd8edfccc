---------------------------- MODULE ControlViews -----------------------------
(***************************************************************************)
(* The list of agents that the control API serves to the desktop app and   *)
(* the web page: control_snapshot in bubblehub/app/telemetry.py and        *)
(* known_agent_records in bubblehub/app/agents.py.  It is put together     *)
(* from four sources that are read one after the other, while runs and     *)
(* operators go on: the agent table, /proc, the metadata files and the     *)
(* manifest directories.                                                   *)
(***************************************************************************)
EXTENDS Agents

VARIABLES
  viewer,   \* the view so far: the entries still to be looked up, what is shown
  steady    \* history: what has stayed as it is since the snapshot

vvars == <<avars, viewer, steady>>

Shown == [id : Runs, status : {"running", "stopped"}]

\* bubble run has a directory in /proc.
Alive(r) == run[r].pc \notin {"off", "done"}

\* The entries of live runs, and the agents that have metadata, or a manifest.
Standing ==
  [entries |-> {agents[i] : i \in {j \in AgentSlots :
                  agents[j] # Empty /\ Alive(agents[j].pid)}},
   metadata |-> {a \in Runs : metadata[a] # "none"},
   manifests |-> manifests]

VInit ==
  /\ AInit
  /\ viewer = [pc |-> "idle", left |-> [i \in AgentSlots |-> Empty], shown |-> [s \in Shown |-> 0]]
  /\ steady = Standing

\* How often the agent is shown.
Times(a) ==
  viewer.shown[[id |-> a, status |-> "running"]] + viewer.shown[[id |-> a, status |-> "stopped"]]

\* What is shown once agents, which have no entry, are added as stopped ones.
WithStopped(added) ==
  [s \in Shown |-> IF s.id \in added /\ s.status = "stopped" THEN viewer.shown[s] + 1
                   ELSE viewer.shown[s]]

\* telemetry_snapshot: a copy of the table.
TakeSnapshot ==
  /\ viewer.pc = "idle"
  /\ viewer' = [viewer EXCEPT !.pc = "agents", !.left = agents]
  /\ steady' = Standing

\* The entries of the copy that are not looked up yet.
Left == {i \in AgentSlots : viewer.left[i] # Empty}

\* _agent_view, in the order of the table: running while /proc has the pid of the
\* entry.
ViewAgent(i) ==
  /\ viewer.pc = "agents"
  /\ i \in Left /\ \A j \in Left : i <= j
  /\ LET e == viewer.left[i]
         status == IF Alive(e.pid) THEN "running" ELSE "stopped"
     IN  viewer' = [viewer EXCEPT !.left[i] = Empty,
                      !.shown[[id |-> e.id, status |-> status]] = @ + 1]
  /\ UNCHANGED steady

\* A bug: the running agents are read from the table again.
KnownMetadata_Fresh ==
  /\ viewer.pc = "agents"
  /\ Left = {}
  /\ viewer' = [viewer EXCEPT !.pc = "manifests",
       !.shown = WithStopped({a \in Runs : metadata[a] # "none" /\ SlotsOf(a) = {}})]
  /\ UNCHANGED steady

\* known_agent_records: the agents with metadata that the snapshot did not list,
KnownMetadata ==
  /\ viewer.pc = "agents"
  /\ Left = {}
  /\ viewer' = [viewer EXCEPT !.pc = "manifests",
       !.shown = WithStopped({a \in Runs : metadata[a] # "none" /\ Times(a) = 0})]
  /\ UNCHANGED steady

\* then those with a manifest and no record so far.
KnownManifests ==
  /\ viewer.pc = "manifests"
  /\ viewer' = [viewer EXCEPT !.pc = "shown",
       !.shown = WithStopped({a \in manifests : Times(a) = 0})]
  /\ UNCHANGED steady

ViewStep ==
  /\ TakeSnapshot \/ (\E i \in AgentSlots : ViewAgent(i)) \/ KnownMetadata \/ KnownManifests
  /\ UNCHANGED avars

\* What changes while a view is put together is steady no longer.
AgentStep ==
  /\ ANext
  /\ steady' = IF viewer.pc = "idle" THEN Standing'
               ELSE [entries |-> steady.entries \cap Standing'.entries,
                     metadata |-> steady.metadata \cap Standing'.metadata,
                     manifests |-> steady.manifests \cap Standing'.manifests]
  /\ UNCHANGED viewer

VNext == AgentStep \/ ViewStep

VSpec == VInit /\ [][VNext]_vvars

(***************************************************************************)
(* A view shows no agent twice; it shows as running every agent whose      *)
(* entry and process were there all along; and it shows every agent whose  *)
(* metadata or whose manifest was there all along, whatever was            *)
(* registered, deregistered or deleted between its four reads.             *)
(***************************************************************************)
ViewIsComplete ==
  viewer.pc = "shown" =>
    /\ \A a \in Runs : Times(a) <= 1
    /\ \A e \in steady.entries : viewer.shown[[id |-> e.id, status |-> "running"]] = 1
    /\ \A a \in steady.metadata \cup steady.manifests : Times(a) = 1
=============================================================================
