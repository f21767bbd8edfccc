---------------------------- MODULE AgentsProofs -----------------------------
(***************************************************************************)
(* Proofs about Agents and ControlViews, for any number of runs, operators *)
(* and slots of the table.                                                 *)
(***************************************************************************)
EXTENDS ControlViews, TLAPS

Entry == [id : Runs, pid : Runs]

RunState == [pc : {"off", "register", "done"} \cup Registered,
             id : Runs \cup {Nobody}, rooted : BOOLEAN]

OperatorState == [pc : {"idle", "stop", "kill", "deregister", "remove"},
                  id : Runs \cup {Nobody}, pid : Runs \cup {Nobody}, deleting : BOOLEAN]

\* The types of the table, the runs and the operators: a run that has begun has
\* an agent, and an operator who is about to send a signal has a pid.
AgentsTyped ==
  /\ agents \in [AgentSlots -> Entry \cup {Empty}]
  /\ homes \subseteq Runs
  /\ marker \in Runs \cup {Nobody}
  /\ run \in [Runs -> RunState]
  /\ \A r \in Runs : run[r].pc # "off" => run[r].id \in Runs
  /\ operator \in [Operators -> OperatorState]
  /\ \A o \in Operators : operator[o].pc = "kill" => operator[o].pid \in Runs
  /\ lost \subseteq Runs

\* An entry is that of the agent its run has selected, so that the run, when it
\* deregisters its agent, takes away its own entries, whoever else shares it.
EntriesOwned ==
  \A i \in AgentSlots : agents[i] # Empty => agents[i].id = run[agents[i].pid].id

\* A run that was lost is over, so that none begins or ends again.
LostAreDone == \A r \in lost : run[r].pc = "done"

\* The inductive invariant of NoStaleEntry.
AgentsInv == AgentsTyped /\ EntriesOwned /\ LostAreDone /\ NoStaleEntry

-----------------------------------------------------------------------------
LEMMA AgentsInitially == AInit => AgentsInv
BY AgentsAssumption
DEF AInit, AgentsInv, AgentsTyped, EntriesOwned, LostAreDone, NoStaleEntry, RunState,
    OperatorState, NoOperation, Registered

\* A step of a run that leaves the table alone and keeps its agent.
LEMMA RunMoves ==
  ASSUME AgentsInv, NEW r \in Runs, NEW to \in {"register", "done"} \cup Registered,
         run[r].pc # "off", Goto(r, to), UNCHANGED <<agents, lost, operator>>,
         to \in Registered \/ (run[r].pc \notin Registered /\ to = "done"),
         run[r].pc # "done" \/ to = "done",
         homes' \subseteq Runs, marker' \in Runs \cup {Nobody}
  PROVE  AgentsInv'
<1>1. run' \in [Runs -> RunState] /\ run'[r].pc = to
  BY DEF AgentsInv, AgentsTyped, RunState, Goto, Registered
<1>2. /\ \A s \in Runs : s # r => run'[s] = run[s]
      /\ run'[r].id = run[r].id
  BY DEF AgentsInv, AgentsTyped, RunState, Goto
<1>3. AgentsTyped'
  BY <1>1, <1>2 DEF AgentsInv, AgentsTyped
<1>4. EntriesOwned'
  BY <1>2 DEF AgentsInv, AgentsTyped, Entry, EntriesOwned
<1>5. LostAreDone'
  BY <1>1, <1>2 DEF AgentsInv, AgentsTyped, LostAreDone
<1>6. NoStaleEntry'
  BY <1>1, <1>2 DEF AgentsInv, AgentsTyped, Entry, NoStaleEntry
<1>. QED
  BY <1>3, <1>4, <1>5, <1>6 DEF AgentsInv

\* A run begins with an agent and no entry.
LEMMA SelectKeeps ==
  ASSUME AgentsInv, NEW r \in Runs, Select(r)
  PROVE  AgentsInv'
<1>1. PICK a \in Runs, rooted \in BOOLEAN :
        run' = [run EXCEPT ![r] = [pc |-> "register", id |-> a, rooted |-> rooted]]
  <2>1. Persistent \subseteq Runs
    BY DEF AgentsInv, AgentsTyped, Persistent
  <2>. QED
    BY <2>1, AgentsAssumption DEF Select
<1>2. run[r].pc = "off" /\ UNCHANGED <<agents, operator, lost>>
  BY DEF Select
<1>3. homes' \subseteq Runs /\ marker' \in Runs \cup {Nobody}
  BY DEF Select, files, AgentsInv, AgentsTyped
<1>4. run' \in [Runs -> RunState] /\ run'[r].id = a
  BY <1>1 DEF AgentsInv, AgentsTyped, RunState
<1>5. \A s \in Runs : s # r => run'[s] = run[s]
  BY <1>1 DEF AgentsInv, AgentsTyped
<1>6. r \notin lost
  BY <1>2 DEF AgentsInv, LostAreDone
<1>7. \A i \in AgentSlots : agents[i] # Empty => agents[i].pid \in Runs \ {r}
  BY <1>2, <1>6 DEF AgentsInv, AgentsTyped, Entry, NoStaleEntry, Registered
<1>. QED
  BY <1>2, <1>3, <1>4, <1>5, <1>6, <1>7
  DEF AgentsInv, AgentsTyped, EntriesOwned, LostAreDone, NoStaleEntry

LEMMA RegisterKeeps ==
  ASSUME AgentsInv, NEW r \in Runs, Register(r)
  PROVE  AgentsInv'
<1>1. PICK i \in AgentSlots : agents' = [agents EXCEPT ![i] = [id |-> run[r].id, pid |-> r]]
  BY DEF Register, Registering
<1>2. run[r].pc = "register" /\ UNCHANGED <<homes, marker, operator, lost>>
  BY DEF Register, files
<1>3. /\ run' \in [Runs -> RunState] /\ run'[r].pc = "record"
      /\ \A s \in Runs : s # r => run'[s] = run[s]
      /\ run'[r].id = run[r].id
  BY DEF Register, Goto, AgentsInv, AgentsTyped, RunState, Registered
<1>4. run[r].id \in Runs
  BY <1>2 DEF AgentsInv, AgentsTyped
<1>5. agents' \in [AgentSlots -> Entry \cup {Empty}]
  BY <1>1, <1>4 DEF AgentsInv, AgentsTyped, Entry
<1>6. r \notin lost
  BY <1>2 DEF AgentsInv, LostAreDone
<1>7. \A j \in AgentSlots : agents'[j] # Empty =>
        \/ agents'[j].pid = r /\ agents'[j].id = run[r].id
        \/ agents'[j] = agents[j] /\ agents[j].pid \in Runs
  BY <1>1, <1>4 DEF AgentsInv, AgentsTyped, Entry
<1>8. AgentsTyped'
  BY <1>2, <1>3, <1>4, <1>5 DEF AgentsInv, AgentsTyped
<1>9. EntriesOwned' /\ NoStaleEntry'
  BY <1>2, <1>3, <1>7 DEF AgentsInv, EntriesOwned, NoStaleEntry, Registered
<1>10. LostAreDone'
  BY <1>2, <1>3, <1>6 DEF AgentsInv, AgentsTyped, LostAreDone
<1>. QED
  BY <1>8, <1>9, <1>10 DEF AgentsInv

\* The entries that are left when an agent is deregistered.
LEMMA DeregisteringLeaves ==
  ASSUME AgentsTyped, NEW a, Deregistering(a)
  PROVE  /\ agents' \in [AgentSlots -> Entry \cup {Empty}]
         /\ \A i \in AgentSlots : agents'[i] # Empty =>
              /\ agents'[i] = agents[i] /\ agents[i] \in Entry
              /\ agents[i].id # a
BY DEF AgentsTyped, Deregistering, SlotsOf

\* The finally block: the entries of the run are among those of its agent.
LEMMA DeregisterKeeps ==
  ASSUME AgentsInv, NEW r \in Runs, Deregister(r)
  PROVE  AgentsInv'
<1>1. run[r].pc = "cleanup" /\ UNCHANGED <<homes, marker, operator, lost>>
  BY DEF Deregister, files
<1>2. /\ run' \in [Runs -> RunState] /\ run'[r].pc = "done"
      /\ \A s \in Runs : s # r => run'[s] = run[s]
      /\ run'[r].id = run[r].id
  BY DEF Deregister, Goto, AgentsInv, AgentsTyped, RunState, Registered
<1>3. /\ agents' \in [AgentSlots -> Entry \cup {Empty}]
      /\ \A i \in AgentSlots : agents'[i] # Empty =>
           agents'[i] = agents[i] /\ agents[i] \in Entry /\ agents[i].id # run[r].id
  BY DeregisteringLeaves DEF Deregister, AgentsInv
<1>4. AgentsTyped'
  BY <1>1, <1>2, <1>3 DEF AgentsInv, AgentsTyped
<1>5. EntriesOwned' /\ NoStaleEntry'
  BY <1>1, <1>2, <1>3 DEF AgentsInv, EntriesOwned, NoStaleEntry, Entry
<1>6. LostAreDone'
  BY <1>1, <1>2 DEF AgentsInv, AgentsTyped, LostAreDone
<1>. QED
  BY <1>4, <1>5, <1>6 DEF AgentsInv

\* A run that ends without deregistering its agent is lost.
LEMMA LossKeeps ==
  ASSUME AgentsInv, NEW r \in Runs, UNCHANGED <<agents, homes, marker>>,
         lost' = IF run[r].pc \in Registered THEN lost \cup {r} ELSE lost,
         run' = IF run[r].pc = "off" THEN run ELSE [run EXCEPT ![r].pc = "done"],
         operator' \in [Operators -> OperatorState],
         \A o \in Operators : operator'[o].pc = "kill" => operator'[o].pid \in Runs
  PROVE  AgentsInv'
<1>1. /\ run' \in [Runs -> RunState]
      /\ \A s \in Runs : run'[s].id = run[s].id /\ (s # r => run'[s] = run[s])
      /\ run[r].pc # "off" => run'[r].pc = "done"
      /\ run[r].pc = "off" => run' = run
  BY DEF AgentsInv, AgentsTyped, RunState
<1>2. AgentsTyped'
  BY <1>1 DEF AgentsInv, AgentsTyped
<1>3. EntriesOwned'
  BY <1>1 DEF AgentsInv, AgentsTyped, Entry, EntriesOwned
<1>4. LostAreDone'
  BY <1>1 DEF AgentsInv, AgentsTyped, LostAreDone, Registered
<1>5. NoStaleEntry'
  BY <1>1 DEF AgentsInv, AgentsTyped, Entry, NoStaleEntry
<1>. QED
  BY <1>2, <1>3, <1>4, <1>5 DEF AgentsInv

\* A step of an operator that leaves the runs alone and takes entries at most.
LEMMA OperatorKeeps ==
  ASSUME AgentsInv, UNCHANGED <<run, lost>>,
         homes' \subseteq Runs, marker' \in Runs \cup {Nobody},
         agents' \in [AgentSlots -> Entry \cup {Empty}],
         \A i \in AgentSlots : agents'[i] # Empty => agents'[i] = agents[i],
         operator' \in [Operators -> OperatorState],
         \A o \in Operators : operator'[o].pc = "kill" => operator'[o].pid \in Runs
  PROVE  AgentsInv'
BY DEF AgentsInv, AgentsTyped, EntriesOwned, LostAreDone, NoStaleEntry

LEMMA RunStepKeeps ==
  ASSUME AgentsInv, NEW r \in Runs,
         \/ RegisterFails(r) \/ Record(r) \/ Prepare(r) \/ Launch(r)
         \/ LaunchFails(r) \/ SandboxEnds(r)
  PROVE  AgentsInv'
<1>0. homes \subseteq Runs /\ marker \in Runs \cup {Nobody}
  BY DEF AgentsInv, AgentsTyped
<1>1. CASE RegisterFails(r)
  BY <1>0, <1>1, RunMoves DEF RegisterFails, files, Registered
<1>2. CASE Record(r) \/ Prepare(r) \/ Launch(r) \/ LaunchFails(r)
  <2>1. run[r].pc \in {"record", "prepare", "launch"} /\ run[r].id \in Runs
    BY <1>2 DEF Record, Prepare, Launch, LaunchFails, AgentsInv, AgentsTyped
  <2>2. PICK to \in Registered : Goto(r, to)
    BY <1>2 DEF Record, Prepare, Launch, LaunchFails, Registered
  <2>3. /\ UNCHANGED <<agents, lost, operator>>
        /\ homes' \subseteq Runs /\ marker' \in Runs \cup {Nobody}
    BY <1>0, <1>2, <2>1 DEF Record, Prepare, Launch, LaunchFails, files
  <2>. QED
    BY <2>1, <2>2, <2>3, RunMoves DEF Registered
<1>3. CASE SandboxEnds(r)
  <2>1. /\ UNCHANGED <<agents, lost, operator>>
        /\ homes' \subseteq Runs /\ marker' \in Runs \cup {Nobody}
    BY <1>0, <1>3 DEF SandboxEnds, files
  <2>2. CASE run[r].pc = "running"
    BY <1>3, <2>1, <2>2, RunMoves DEF SandboxEnds, Registered
  <2>3. CASE run[r].pc # "running"
    <3>1. run' = run
      BY <1>3, <2>3 DEF SandboxEnds, Goto, AgentsInv, AgentsTyped, RunState
    <3>. QED
      BY <2>1, <3>1, OperatorKeeps DEF AgentsInv, AgentsTyped
  <2>. QED
    BY <2>2, <2>3
<1>. QED
  BY <1>1, <1>2, <1>3

LEMMA OperatorStepKeeps ==
  ASSUME AgentsInv, NEW o \in Operators,
         \/ \E a \in Runs : Delete(o, a) \/ Stop(o, a)
         \/ StopFindsNone(o) \/ Kill(o) \/ StopDeregisters(o) \/ Remove(o)
  PROVE  AgentsInv'
<1>t. AgentsTyped
  BY DEF AgentsInv
<1>1. CASE \E a \in Runs : Delete(o, a) \/ Stop(o, a)
  <2>1. PICK a \in Runs : Delete(o, a) \/ Stop(o, a)
    BY <1>1
  <2>2. /\ operator' \in [Operators -> OperatorState]
        /\ \A q \in Operators : operator'[q].pc = "kill" => operator'[q].pid \in Runs
    <3>1. CASE Delete(o, a)
      BY <1>t, <3>1 DEF Delete, AgentsTyped, OperatorState
    <3>2. CASE Stop(o, a)
      <4>1. PICK i \in SlotsOf(a) :
              operator' = [operator EXCEPT ![o] = [pc |-> "kill", id |-> a,
                             pid |-> agents[i].pid, deleting |-> operator[o].pc = "stop"]]
        BY <3>2 DEF Stop
      <4>2. agents[i].pid \in Runs
        BY <1>t DEF SlotsOf, AgentsTyped, Entry
      <4>. QED
        BY <1>t, <4>1, <4>2 DEF AgentsTyped, OperatorState
    <3>. QED
      BY <2>1, <3>1, <3>2
  <2>3. UNCHANGED <<agents, homes, marker, run, lost>>
    BY <2>1 DEF Delete, Stop, files
  <2>. QED
    BY <1>t, <2>2, <2>3, OperatorKeeps DEF AgentsTyped
<1>2. CASE StopFindsNone(o) \/ Remove(o)
  <2>1. /\ operator' \in [Operators -> OperatorState]
        /\ \A q \in Operators : operator'[q].pc = "kill" => operator'[q].pid \in Runs
    <3>1. operator' = [operator EXCEPT ![o] = NoOperation]
      BY <1>2 DEF StopFindsNone, Remove
    <3>2. NoOperation \in OperatorState /\ NoOperation.pc # "kill"
      BY DEF NoOperation, OperatorState
    <3>. QED
      BY <1>t, <3>1, <3>2 DEF AgentsTyped
  <2>2. /\ UNCHANGED <<agents, run, lost>>
        /\ homes' \subseteq Runs /\ marker' \in Runs \cup {Nobody}
    BY <1>t, <1>2 DEF StopFindsNone, Remove, files, AgentsTyped
  <2>. QED
    BY <1>t, <2>1, <2>2, OperatorKeeps DEF AgentsTyped
<1>3. CASE Kill(o)
  <2>1. operator[o].pid \in Runs
    BY <1>t, <1>3 DEF Kill, AgentsTyped
  <2>2. /\ operator' \in [Operators -> OperatorState]
        /\ \A q \in Operators : operator'[q].pc = "kill" => operator'[q].pid \in Runs
    BY <1>t, <1>3 DEF Kill, AgentsTyped, OperatorState
  <2>. QED
    BY <1>3, <2>1, <2>2, LossKeeps DEF Kill, Dies, files
<1>4. CASE StopDeregisters(o)
  <2>1. /\ operator' \in [Operators -> OperatorState]
        /\ \A q \in Operators : operator'[q].pc = "kill" => operator'[q].pid \in Runs
    <3>1. operator[o] \in OperatorState
      BY <1>t DEF AgentsTyped
    <3>2. operator'[o] \in OperatorState /\ operator'[o].pc # "kill"
      BY <1>t, <1>4, <3>1 DEF StopDeregisters, NoOperation, AgentsTyped, OperatorState
    <3>. QED
      BY <1>t, <1>4, <3>2 DEF StopDeregisters, AgentsTyped
  <2>2. /\ agents' \in [AgentSlots -> Entry \cup {Empty}]
        /\ \A i \in AgentSlots : agents'[i] # Empty => agents'[i] = agents[i]
    BY <1>t, <1>4, DeregisteringLeaves DEF StopDeregisters
  <2>. QED
    BY <1>t, <1>4, <2>1, <2>2, OperatorKeeps DEF StopDeregisters, files, AgentsTyped
<1>. QED
  BY <1>1, <1>2, <1>3, <1>4

LEMMA AgentsStep == AgentsInv /\ [ANext]_avars => AgentsInv'
<1>. SUFFICES ASSUME AgentsInv, [ANext]_avars
              PROVE  AgentsInv'
  OBVIOUS
<1>1. CASE UNCHANGED avars
  BY <1>1 DEF avars, AgentsInv, AgentsTyped, EntriesOwned, LostAreDone, NoStaleEntry
<1>2. ASSUME NEW r \in Runs, FailsEarly(r) \/ Killed(r)
      PROVE  AgentsInv'
  BY <1>2, LossKeeps DEF FailsEarly, Killed, Dies, Goto, files, Registered, AgentsInv, AgentsTyped
<1>. QED
  BY <1>1, <1>2, SelectKeeps, RegisterKeeps, DeregisterKeeps, RunStepKeeps, OperatorStepKeeps
  DEF ANext

(***************************************************************************)
(* No run that ends in order leaves an entry in the agent table, whatever  *)
(* other runs of its agent, operators and signals do (run.py 118, 218;     *)
(* agents.py 121).                                                         *)
(***************************************************************************)
THEOREM EntriesAreOfRuns == ASpec => []NoStaleEntry
<1>1. AgentsInv => NoStaleEntry
  BY DEF AgentsInv
<1>. QED
  BY <1>1, AgentsInitially, AgentsStep, PTL DEF ASpec

-----------------------------------------------------------------------------
(* Views.                                                                  *)

\* An agent has one entry at most, and files exist for agents only.
TableKept ==
  /\ \A i, j \in AgentSlots :
       agents[i] # Empty /\ agents[j] # Empty /\ agents[i].id = agents[j].id => i = j
  /\ manifests \subseteq Runs

LEMMA TableStep == AgentsInv /\ TableKept /\ [ANext]_avars => TableKept'
<1>. SUFFICES ASSUME AgentsInv, TableKept, [ANext]_avars
              PROVE  TableKept'
  OBVIOUS
<1>t. AgentsTyped
  BY DEF AgentsInv
<1>1. ASSUME NEW r \in Runs, Register(r)
      PROVE  TableKept'
  <2>1. PICK i \in AgentSlots : /\ SlotFor(i, run[r].id)
                               /\ agents' = [agents EXCEPT ![i] = [id |-> run[r].id, pid |-> r]]
    BY <1>1 DEF Register, Registering
  <2>2. \A j \in AgentSlots : j # i /\ agents[j] # Empty => agents[j].id # run[r].id
    BY <2>1, <1>t DEF SlotFor, SlotsOf, FreeAgentSlots, TableKept
  <2>3. \A j \in AgentSlots : j # i => agents'[j] = agents[j]
    BY <2>1, <1>t DEF AgentsTyped
  <2>4. agents'[i].id = run[r].id
    BY <2>1, <1>t DEF AgentsTyped
  <2>. QED
    BY <1>1, <2>2, <2>3, <2>4 DEF TableKept, Register, files
<1>2. ASSUME UNCHANGED agents, manifests' \subseteq Runs
      PROVE  TableKept'
  BY <1>2 DEF TableKept
<1>3. ASSUME NEW a, Deregistering(a), UNCHANGED manifests
      PROVE  TableKept'
  BY <1>t, <1>3, DeregisteringLeaves DEF TableKept
<1>4. ASSUME NEW r \in Runs,
             \/ Select(r) \/ RegisterFails(r) \/ Record(r) \/ Prepare(r) \/ Launch(r)
             \/ LaunchFails(r) \/ SandboxEnds(r) \/ FailsEarly(r) \/ Killed(r)
      PROVE  TableKept'
  <2>1. UNCHANGED agents
    BY <1>4 DEF Select, RegisterFails, Record, Prepare, Launch, LaunchFails, SandboxEnds,
                FailsEarly, Killed
  <2>2. manifests' \subseteq Runs
    BY <1>4, <1>t DEF Select, RegisterFails, Record, Prepare, Launch, LaunchFails, SandboxEnds,
                FailsEarly, Killed, files, TableKept, AgentsTyped
  <2>. QED
    BY <1>2, <2>1, <2>2
<1>5. ASSUME NEW o \in Operators,
             \/ \E a \in Runs : Delete(o, a) \/ Stop(o, a)
             \/ StopFindsNone(o) \/ Kill(o) \/ Remove(o)
      PROVE  TableKept'
  <2>1. UNCHANGED agents
    BY <1>5 DEF Delete, Stop, StopFindsNone, Kill, Remove
  <2>2. manifests' \subseteq Runs
    BY <1>5 DEF Delete, Stop, StopFindsNone, Kill, Remove, files, TableKept
  <2>. QED
    BY <1>2, <2>1, <2>2
<1>6. ASSUME NEW o \in Operators, StopDeregisters(o)
      PROVE  TableKept'
  BY <1>3, <1>6 DEF StopDeregisters, files
<1>7. ASSUME NEW r \in Runs, Deregister(r)
      PROVE  TableKept'
  BY <1>3, <1>7 DEF Deregister, files
<1>8. CASE UNCHANGED avars
  BY <1>2, <1>8 DEF avars, TableKept
<1>. QED
  BY <1>1, <1>4, <1>5, <1>6, <1>7, <1>8 DEF ANext

Count(a, status) == viewer.shown[[id |-> a, status |-> status]]

Viewer == [pc : {"idle", "agents", "manifests", "shown"},
           left : [AgentSlots -> Entry \cup {Empty}], shown : [Shown -> Nat]]

\* What is held to be steady is there now.
SteadyStands ==
  /\ steady \in [entries : SUBSET Entry, metadata : SUBSET Runs, manifests : SUBSET Runs]
  /\ steady.entries \subseteq Standing.entries
  /\ steady.metadata \subseteq Standing.metadata
  /\ steady.manifests \subseteq Standing.manifests

\* While the copy is gone through, a steady entry is shown or still in it, and
\* nothing that is still in it is shown.
AgentsSeen ==
  /\ \A i, j \in Left : viewer.left[i].id = viewer.left[j].id => i = j
  /\ \A i \in Left : Times(viewer.left[i].id) = 0
  /\ \A e \in steady.entries : Count(e.id, "running") = 1 \/ \E i \in Left : viewer.left[i] = e

ViewInv ==
  /\ viewer \in Viewer
  /\ SteadyStands
  /\ viewer.pc = "idle" => \A a \in Runs : Times(a) = 0
  /\ \A a \in Runs : Times(a) <= 1
  /\ viewer.pc = "agents" => AgentsSeen
  /\ viewer.pc \in {"manifests", "shown"} =>
       /\ \A e \in steady.entries : Count(e.id, "running") = 1
       /\ \A a \in steady.metadata : Times(a) = 1
  /\ viewer.pc = "shown" => \A a \in steady.manifests : Times(a) = 1

LEMMA StandingTyped ==
  ASSUME AgentsTyped, TableKept
  PROVE  /\ Standing.entries \subseteq Entry
         /\ Standing.metadata \subseteq Runs
         /\ Standing.manifests \subseteq Runs
         /\ Standing \in [entries : SUBSET Entry, metadata : SUBSET Runs, manifests : SUBSET Runs]
         /\ \A e \in Standing.entries :
              Alive(e.pid) /\ \E i \in AgentSlots : agents[i] = e /\ e # Empty
BY DEF AgentsTyped, TableKept, Standing

LEMMA CountsTyped ==
  ASSUME viewer \in Viewer, NEW a \in Runs
  PROVE  /\ Count(a, "running") \in Nat /\ Count(a, "stopped") \in Nat
         /\ Times(a) = Count(a, "running") + Count(a, "stopped")
BY DEF Viewer, Shown, Count, Times

LEMMA ViewInitially == VInit => TableKept /\ ViewInv
<1>. SUFFICES ASSUME VInit
              PROVE  TableKept /\ ViewInv
  OBVIOUS
<1>1. AgentsTyped /\ TableKept
  BY AgentsInitially DEF VInit, AInit, AgentsInv, TableKept
<1>2. viewer \in Viewer
  BY DEF VInit, Viewer
<1>3. \A a \in Runs : Times(a) = 0
  BY DEF VInit, Times, Shown
<1>4. SteadyStands
  BY <1>1, StandingTyped DEF VInit, SteadyStands
<1>5. viewer.pc = "idle"
  BY DEF VInit
<1>. QED
  BY <1>1, <1>2, <1>3, <1>4, <1>5 DEF ViewInv

\* The agents go on: what is steady shrinks, what is shown stays.
LEMMA AgentStepKeepsView ==
  ASSUME AgentsTyped', TableKept', ViewInv, AgentStep
  PROVE  ViewInv'
<1>1. UNCHANGED viewer
  BY DEF AgentStep
<1>2. /\ Standing'.entries \subseteq Entry
      /\ Standing'.metadata \subseteq Runs
      /\ Standing'.manifests \subseteq Runs
      /\ Standing' \in [entries : SUBSET Entry, metadata : SUBSET Runs, manifests : SUBSET Runs]
  BY DEF AgentsTyped, TableKept, Standing
<1>3. SteadyStands'
  BY <1>2 DEF ViewInv, SteadyStands, AgentStep
<1>4. viewer.pc # "idle" =>
        /\ steady'.entries \subseteq steady.entries
        /\ steady'.metadata \subseteq steady.metadata
        /\ steady'.manifests \subseteq steady.manifests
  BY DEF AgentStep
<1>5. /\ \A a \in Runs : Times(a)' = Times(a) /\ Count(a, "running")' = Count(a, "running")
      /\ Left' = Left
  BY <1>1 DEF Times, Count, Left
<1>6. \A i \in Left : viewer.left[i].id \in Runs
  BY DEF ViewInv, Viewer, Left, Entry
<1>7. \A e \in steady.entries \cup steady'.entries : e.id \in Runs
  BY <1>3 DEF ViewInv, SteadyStands, Entry
<1>8. ASSUME viewer.pc = "agents" PROVE AgentsSeen'
  <2>1. AgentsSeen
    BY <1>8 DEF ViewInv
  <2>2. \A i \in Left : Times(viewer.left[i].id)' = 0
    BY <2>1, <1>1, <1>5, <1>6 DEF AgentsSeen
  <2>3. \A e \in steady'.entries : Count(e.id, "running")' = 1 \/ \E i \in Left : viewer.left[i] = e
    BY <1>4, <1>5, <1>7, <1>8, <2>1 DEF AgentsSeen
  <2>. QED
    BY <1>1, <1>5, <2>1, <2>2, <2>3 DEF AgentsSeen
<1>9. ASSUME viewer.pc \in {"manifests", "shown"}
      PROVE  /\ \A e \in steady'.entries : Count(e.id, "running")' = 1
             /\ \A a \in steady'.metadata : Times(a)' = 1
  <2>1. /\ \A e \in steady'.entries : e.id \in Runs /\ Count(e.id, "running") = 1
        /\ \A a \in steady'.metadata : a \in Runs /\ Times(a) = 1
    BY <1>4, <1>7, <1>9 DEF ViewInv, SteadyStands
  <2>. QED
    BY <1>5, <2>1
<1>10. ASSUME viewer.pc = "shown"
       PROVE  \A a \in steady'.manifests : Times(a)' = 1
  <2>1. \A a \in steady'.manifests : a \in Runs /\ Times(a) = 1
    BY <1>4, <1>10 DEF ViewInv, SteadyStands
  <2>. QED
    BY <1>5, <2>1
<1>. QED
  BY <1>1, <1>3, <1>5, <1>8, <1>9, <1>10 DEF ViewInv

\* The reader stays, so what is steady still stands.
LEMMA SteadyKept ==
  ASSUME SteadyStands, UNCHANGED <<avars, steady>>
  PROVE  SteadyStands'
<1>1. Standing' = Standing
  BY DEF avars, Standing, Alive
<1>. QED
  BY <1>1 DEF SteadyStands

LEMMA SnapshotKeeps ==
  ASSUME AgentsTyped, TableKept, ViewInv, TakeSnapshot, UNCHANGED avars
  PROVE  ViewInv'
<1>1. Standing' = Standing
  BY DEF avars, Standing, Alive
<1>2. SteadyStands'
  BY <1>1, StandingTyped DEF TakeSnapshot, SteadyStands
<1>3. /\ viewer' \in Viewer /\ viewer'.pc = "agents" /\ viewer'.left = agents
      /\ viewer'.shown = viewer.shown /\ agents' = agents
  BY DEF ViewInv, TakeSnapshot, Viewer, AgentsTyped, avars
<1>4. \A a \in Runs : Times(a)' = 0
  BY <1>3 DEF ViewInv, TakeSnapshot, Times
<1>5. Left' = {i \in AgentSlots : agents[i] # Empty}
  BY <1>3 DEF Left
<1>6. \A i \in Left' : agents[i].id \in Runs
  BY <1>5 DEF AgentsTyped, Entry
<1>7. \A e \in steady'.entries : \E i \in Left' : agents[i] = e
  BY <1>5, StandingTyped DEF TakeSnapshot
<1>8. AgentsSeen'
  <2>1. \A i, j \in Left' : agents[i].id = agents[j].id => i = j
    BY <1>5 DEF TableKept
  <2>2. \A i \in Left' : Times(agents[i].id)' = 0
    BY <1>3, <1>4, <1>6
  <2>. QED
    BY <1>3, <1>5, <1>7, <2>1, <2>2 DEF AgentsSeen
<1>. QED
  BY <1>2, <1>3, <1>4, <1>8 DEF ViewInv

LEMMA ViewAgentKeeps ==
  ASSUME AgentsTyped, TableKept, ViewInv, NEW i \in AgentSlots, ViewAgent(i), UNCHANGED avars
  PROVE  ViewInv'
<1>. DEFINE e == viewer.left[i]
            b == IF Alive(e.pid) THEN "running" ELSE "stopped"
<1>1. e \in Entry /\ e.id \in Runs /\ b \in {"running", "stopped"} /\ [id |-> e.id, status |-> b] \in Shown
  BY DEF ViewAgent, ViewInv, Viewer, Left, Entry, Alive, Shown
<1>2. viewer' = [viewer EXCEPT !.left[i] = Empty,
                   !.shown[[id |-> e.id, status |-> b]] = @ + 1]
  BY DEF ViewAgent
<1>3. AgentsSeen /\ viewer.pc = "agents" /\ i \in Left /\ UNCHANGED steady
  BY DEF ViewAgent, ViewInv
<1>. HIDE DEF e, b
<1>4. /\ viewer'.pc = "agents"
      /\ viewer'.left = [viewer.left EXCEPT ![i] = Empty]
      /\ viewer'.shown = [viewer.shown EXCEPT ![[id |-> e.id, status |-> b]] = @ + 1]
  BY <1>2, <1>3 DEF ViewInv, Viewer
<1>5. viewer' \in Viewer
  <2>1. /\ [viewer.left EXCEPT ![i] = Empty] \in [AgentSlots -> Entry \cup {Empty}]
        /\ [viewer.shown EXCEPT ![[id |-> e.id, status |-> b]] = @ + 1] \in [Shown -> Nat]
    BY <1>1 DEF ViewInv, Viewer
  <2>2. viewer' = [pc |-> viewer'.pc, left |-> viewer'.left, shown |-> viewer'.shown]
    BY <1>2 DEF ViewInv, Viewer
  <2>. QED
    BY <1>4, <2>1, <2>2 DEF Viewer
<1>6. \A a \in Runs, c \in {"running", "stopped"} :
        Count(a, c)' = IF a = e.id /\ c = b THEN Count(a, c) + 1 ELSE Count(a, c)
  BY <1>1, <1>4 DEF ViewInv, Viewer, Count, Shown
<1>7. \A a \in Runs : Times(a)' = IF a = e.id THEN Times(a) + 1 ELSE Times(a)
  <2>. TAKE a \in Runs
  <2>1. Times(a) = Count(a, "running") + Count(a, "stopped") /\ Times(a)' = Count(a, "running")' + Count(a, "stopped")'
    BY DEF Times, Count
  <2>2. Count(a, "running") \in Nat /\ Count(a, "stopped") \in Nat
    BY CountsTyped DEF ViewInv
  <2>. QED
    BY <1>1, <1>6, <2>1, <2>2
<1>8. Times(e.id) = 0
  BY <1>3 DEF AgentsSeen, e
<1>9. \A a \in Runs : Times(a)' <= 1
  BY <1>7, <1>8 DEF ViewInv
<1>10. Left' = Left \ {i} /\ \A j \in Left' : viewer'.left[j] = viewer.left[j]
  BY <1>4 DEF Left, ViewInv, Viewer
<1>11. \A j \in Left : viewer.left[j].id \in Runs
  BY DEF ViewInv, Viewer, Left, Entry
<1>12. \A j \in Left' : Times(viewer.left[j].id)' = 0
  <2>. TAKE j \in Left'
  <2>1. viewer.left[j].id \in Runs /\ viewer.left[j].id # e.id
    BY <1>3, <1>10, <1>11 DEF AgentsSeen, e
  <2>. QED
    BY <1>3, <1>7, <1>10, <2>1 DEF AgentsSeen
<1>13. ASSUME NEW f \in steady.entries
       PROVE  Count(f.id, "running")' = 1 \/ \E j \in Left' : viewer'.left[j] = f
  <2>1. f \in Standing.entries /\ f.id \in Runs /\ Alive(f.pid)
    BY <1>13, StandingTyped DEF ViewInv, SteadyStands, Entry
  <2>2. CASE f = e
    <3>1. b = "running"
      BY <2>1, <2>2, <1>1 DEF b
    <3>2. Count(f.id, "running") = 0
      BY <1>1, <1>8, <2>2, CountsTyped DEF ViewInv
    <3>. QED
      BY <1>1, <1>6, <2>2, <3>1, <3>2
  <2>3. CASE f # e /\ Count(f.id, "running") = 1
    <3>1. Times(f.id) # 0
      BY <2>1, <2>3, CountsTyped DEF ViewInv
    <3>2. f.id # e.id
      BY <3>1, <1>8
    <3>. QED
      BY <1>6, <2>1, <2>3, <3>2
  <2>4. CASE f # e /\ Count(f.id, "running") # 1
    <3>1. PICK j \in Left : viewer.left[j] = f
      BY <1>3, <1>13, <2>4 DEF AgentsSeen
    <3>. QED
      BY <1>10, <2>4, <3>1 DEF e
  <2>. QED
    BY <2>2, <2>3, <2>4
<1>14. AgentsSeen'
  BY <1>3, <1>10, <1>12, <1>13 DEF AgentsSeen
<1>15. SteadyStands'
  BY <1>3, SteadyKept DEF ViewInv
<1>. QED
  BY <1>4, <1>5, <1>9, <1>14, <1>15 DEF ViewInv

LEMMA WithStoppedTyped ==
  ASSUME viewer \in Viewer, NEW added
  PROVE  WithStopped(added) \in [Shown -> Nat]
<1>1. \A s \in Shown : viewer.shown[s] \in Nat
  BY DEF Viewer
<1>2. \A s \in Shown : viewer.shown[s] + 1 \in Nat
  BY <1>1
<1>. QED
  BY <1>1, <1>2, Zenon DEF WithStopped

\* Agents that are not shown yet are added.
LEMMA StoppedAdded ==
  ASSUME ViewInv, NEW added \in SUBSET Runs, \A a \in added : Times(a) = 0,
         NEW pc \in {"manifests", "shown"},
         viewer' = [viewer EXCEPT !.pc = pc, !.shown = WithStopped(added)]
  PROVE  /\ viewer' \in Viewer /\ viewer'.pc = pc
         /\ \A a \in Runs : Count(a, "running")' = Count(a, "running")
         /\ \A a \in Runs : Times(a)' = IF a \in added THEN 1 ELSE Times(a)
<1>1. WithStopped(added) \in [Shown -> Nat]
  BY WithStoppedTyped DEF ViewInv
<1>2. viewer' \in Viewer /\ viewer'.pc = pc /\ viewer'.shown = WithStopped(added)
  BY <1>1 DEF ViewInv, Viewer
<1>3. \A a \in Runs :
        /\ Count(a, "running")' = Count(a, "running")
        /\ Count(a, "stopped")' = IF a \in added THEN Count(a, "stopped") + 1 ELSE Count(a, "stopped")
  BY <1>2 DEF Count, WithStopped, Shown
<1>4. \A a \in Runs :
        /\ Times(a) = Count(a, "running") + Count(a, "stopped")
        /\ Times(a)' = Count(a, "running")' + Count(a, "stopped")'
        /\ Count(a, "running") \in Nat /\ Count(a, "stopped") \in Nat
  BY CountsTyped DEF ViewInv, Times, Count
<1>5. \A a \in Runs : Times(a)' = IF a \in added THEN 1 ELSE Times(a)
  <2>. TAKE a \in Runs
  <2>1. CASE a \in added
    <3>1. Count(a, "running") = 0 /\ Count(a, "stopped") = 0
      <4>1. Times(a) = 0
        BY <2>1
      <4>. QED
        BY <1>4, <4>1
    <3>2. Count(a, "running")' = 0 /\ Count(a, "stopped")' = 1
      BY <1>3, <2>1, <3>1
    <3>3. Times(a)' = 1
      BY <1>4, <3>2
    <3>. QED
      BY <2>1, <3>3
  <2>2. CASE a \notin added
    BY <1>3, <1>4, <2>2
  <2>. QED
    BY <2>1, <2>2
<1>. QED
  BY <1>2, <1>3, <1>5

LEMMA KnownMetadataKeeps ==
  ASSUME ViewInv, KnownMetadata, UNCHANGED avars
  PROVE  ViewInv'
<1>. DEFINE added == {a \in Runs : metadata[a] # "none" /\ Times(a) = 0}
<1>1. /\ viewer' = [viewer EXCEPT !.pc = "manifests", !.shown = WithStopped(added)]
      /\ Left = {} /\ AgentsSeen /\ UNCHANGED steady
  BY DEF KnownMetadata, ViewInv
<1>2. /\ viewer' \in Viewer /\ viewer'.pc = "manifests"
      /\ \A a \in Runs : Count(a, "running")' = Count(a, "running")
      /\ \A a \in Runs : Times(a)' = IF a \in added THEN 1 ELSE Times(a)
  BY <1>1, StoppedAdded
<1>3. \A e \in steady.entries : e.id \in Runs /\ Count(e.id, "running") = 1
  BY <1>1 DEF AgentsSeen, ViewInv, SteadyStands, Entry
<1>4. \A a \in steady.metadata : a \in Runs /\ metadata[a] # "none"
  BY DEF ViewInv, SteadyStands, Standing
<1>5. \A a \in Runs : Times(a) \in Nat /\ Times(a) <= 1
  BY CountsTyped DEF ViewInv
<1>6. \A a \in steady.metadata : Times(a)' = 1
  BY <1>2, <1>4, <1>5
<1>7. \A a \in Runs : Times(a)' <= 1
  BY <1>2, <1>5
<1>8. \A e \in steady'.entries : Count(e.id, "running")' = 1
  BY <1>1, <1>2, <1>3
<1>9. SteadyStands'
  BY <1>1, SteadyKept DEF ViewInv
<1>. QED
  BY <1>1, <1>2, <1>6, <1>7, <1>8, <1>9 DEF ViewInv

LEMMA KnownManifestsKeeps ==
  ASSUME ViewInv, TableKept, KnownManifests, UNCHANGED avars
  PROVE  ViewInv'
<1>. DEFINE added == {a \in manifests : Times(a) = 0}
<1>1. /\ viewer' = [viewer EXCEPT !.pc = "shown", !.shown = WithStopped(added)]
      /\ viewer.pc = "manifests" /\ UNCHANGED steady
  BY DEF KnownManifests
<1>2. /\ viewer' \in Viewer /\ viewer'.pc = "shown"
      /\ \A a \in Runs : Count(a, "running")' = Count(a, "running")
      /\ \A a \in Runs : Times(a)' = IF a \in added THEN 1 ELSE Times(a)
  BY <1>1, StoppedAdded DEF TableKept
<1>3. \A e \in steady.entries : e.id \in Runs /\ Count(e.id, "running") = 1
  BY <1>1 DEF ViewInv, SteadyStands, Entry
<1>4. /\ \A a \in steady.manifests : a \in Runs /\ a \in manifests
      /\ \A a \in steady.metadata : a \in Runs /\ Times(a) = 1
  BY <1>1 DEF ViewInv, SteadyStands, Standing
<1>5. \A a \in Runs : Times(a) \in Nat /\ Times(a) <= 1
  BY CountsTyped DEF ViewInv
<1>6. /\ \A a \in steady.metadata : Times(a)' = 1
      /\ \A a \in steady.manifests : Times(a)' = 1
  BY <1>2, <1>4, <1>5
<1>7. \A a \in Runs : Times(a)' <= 1
  BY <1>2, <1>5
<1>8. \A e \in steady'.entries : Count(e.id, "running")' = 1
  BY <1>1, <1>2, <1>3
<1>9. SteadyStands'
  BY <1>1, SteadyKept DEF ViewInv
<1>. QED
  BY <1>1, <1>2, <1>6, <1>7, <1>8, <1>9 DEF ViewInv

LEMMA ViewStepKeeps ==
  AgentsInv /\ TableKept /\ ViewInv /\ [VNext]_vvars => AgentsInv' /\ TableKept' /\ ViewInv'
<1>. SUFFICES ASSUME AgentsInv, TableKept, ViewInv, [VNext]_vvars
              PROVE  AgentsInv' /\ TableKept' /\ ViewInv'
  OBVIOUS
<1>1. [ANext]_avars
  BY DEF VNext, AgentStep, ViewStep, vvars
<1>2. AgentsInv' /\ TableKept'
  BY <1>1, AgentsStep, TableStep
<1>3. CASE AgentStep
  BY <1>2, <1>3, AgentStepKeepsView DEF AgentsInv
<1>4. CASE ViewStep
  <2>1. AgentsTyped /\ UNCHANGED avars
    BY <1>4 DEF ViewStep, AgentsInv
  <2>2. TakeSnapshot \/ (\E i \in AgentSlots : ViewAgent(i)) \/ KnownMetadata \/ KnownManifests
    BY <1>4 DEF ViewStep
  <2>. QED
    BY <1>2, <2>1, <2>2, SnapshotKeeps, ViewAgentKeeps, KnownMetadataKeeps, KnownManifestsKeeps
<1>5. CASE UNCHANGED vvars
  <2>1. UNCHANGED <<viewer, steady>> /\ UNCHANGED avars
    BY <1>5 DEF vvars
  <2>2. SteadyStands'
    BY <2>1, SteadyKept DEF ViewInv
  <2>. QED
    BY <1>2, <2>1, <2>2 DEF ViewInv, AgentsSeen, Times, Count, Left
<1>. QED
  BY <1>2, <1>3, <1>4, <1>5 DEF VNext

(***************************************************************************)
(* A view of the agents, put together from reads between which runs begin  *)
(* and end and operators stop and delete, shows everything that stood      *)
(* still, as running where it ran, and nothing twice (telemetry.py 24,     *)
(* agents.py 48-94).                                                       *)
(***************************************************************************)
THEOREM ViewsAreComplete == VSpec => []ViewIsComplete
<1>1. VInit => AgentsInv
  BY AgentsInitially DEF VInit
<1>2. ViewInv => ViewIsComplete
  <2>. SUFFICES ASSUME ViewInv, viewer.pc = "shown"
                PROVE  ViewIsComplete
    BY DEF ViewIsComplete
  <2>. QED
    BY DEF ViewInv, ViewIsComplete, Count
<1>. QED
  BY <1>1, <1>2, ViewInitially, ViewStepKeeps, PTL DEF VSpec
=============================================================================
