# A TLA+ model of BubbleHub

BubbleHub runs agents in Linux sandboxes, gives them local language models and
lets the user decide which hosts they may reach.  Its core is `libbubble` (C);
a Python package holds the command line, the control API and the dashboard.
There is no central server: every command is a process of its own, and what they
share is files, pipes and signals.  That is where the hard behaviour is, and
what these modules are about.

## 1. Inventory

| Component | State | Operations | Interacts through |
|---|---|---|---|
| model scheduler, `libbubble/scheduler.c` | model table, queue, limits in one locked file | configure, admit, mark loaded/unloaded, evict, queue | `flock` on the state file; SIGTERM to backends |
| native inference, `scheduler.c` 784-1433 | none beyond the call | admit, look up, probe, attach or replace, start, wait, register, chat, release | the scheduler, one critical section per step; backends over HTTP |
| access policy, `libbubble/access_policy.c` | one manifest file per agent: rules and pending requests | evaluate, apply policy, needs prompt, list pending | load, edit, write `tmp.<pid>`, rename; no lock |
| HTTP access proxy, `libbubble/http_proxy.c`, `native.py`, `cli/run.py` | connections, the broker's socket | accept, decide, ask the broker, forward | descriptors passed from the sandbox; manifest; user |
| sandbox helper, `libbubble/sandbox.c` | helper, child, four proxies, pipes, temporary root | set up the layers, run, reap, clean up | pipes, socket pairs, SIGTERM, PDEATHSIG |
| overlay root, Landlock, seccomp | kernel | one setup step each | called by the sandbox child |
| agent lifecycle, `cli/run.py`, `app/agents.py` | agent table, persistent homes, marker, metadata, manifests | run, stop, delete | the scheduler's state file, the file system, SIGTERM |
| control API, dashboard, `bubble manifest` | none | evict, decide, stop, delete, choose a model, view | the same files, threads of one process |
| models configuration, `app/models.py`, `engine/registry.py` | `models.yaml` of the user | merge, pin a model | read, truncate, dump; no lock |
| inference daemon, `inference.py`, `cli/inference_daemon.py`, `cli/serve.py` | daemon processes and one port | probe, start, bind, wait | `bind`, HTTP |
| inference HTTP API, `http_api.py`, `engine/session.py` | threads of the daemon, limits in the scheduler's file | convert messages, resolve, configure, fetch, chat | HTTP, `models.yaml`, native inference |
| engine, `engine/selector.py`, `engine/registry.py` | none | tier, candidates, placement, choice | called by sessions and choosers |
| hardware detection and GPU setup, `native.py`, `hw_detect.c`, `gpu_setup.py` | none | probe, choose and install a profile | tools of the vendors |
| sandbox paths, `cli/run.py` | none | accept and translate root, working directory, binary | arguments of the helper |
| desktop app, log, limits, integrations, small commands | none of their own | | |

What makes each part hard, and the property that says it is right:

- **Scheduler.** Admission reserves nothing; eviction, niceness and watermarks
  meet at boundaries; the tables are bounded.  It must evict only idle models,
  oldest first, no more than needed; urgency must never hurt; a model has one
  record; a refused job is queued.
- **Inference.** Ten steps per call, each atomic, none of them together, while
  others evict, set the limits, die or find the state file unreadable, and
  backends exit or hang.  Counts must be those of the calls, a call must reach its
  own model, a started backend must be owned by somebody, a call must return, and
  how far the table exceeds the limit must be bounded.
- **Access policy.** Writers race and die, without a lock.  A pending request must
  be undecided; the file must not be torn and a decision once saved must apply,
  except where two writers meet.
- **Proxy.** The answer must belong to the connection, consent must precede
  forwarding, everyone must be answered.
- **Sandbox.** Any step may fail, any process may die.  The agent runs fully
  confined, as far as the build can, or not at all, the helper cleans up, no handshake blocks, no proxy
  stays.
- **Agents.** Runs of one root directory share an agent.  The table lists each
  running agent once and keeps no entry of a run that ended; a view put together
  from four reads misses and doubles nothing that stood still.
- **Models configuration.** The file is rewritten in place.  Choices made one
  after the other must all stand, with what else the user wrote.
- **Daemon and HTTP API.** Several commands start a daemon at once; a request
  reads the configuration three times, and every client of the scheduler sets the
  limits for all.  An endpoint must come up, a client must
  get an answer or an error, from a model of what it named, within the limits.
- **Pure parts.** Many cases meet: messages in any order, machines of any kind,
  registries with pins, paths of any shape.

`PROJECT.json` lists the hazards at their lines with the properties that cover
them.

## 2. Modules

| Module | Models | Role |
|---|---|---|
| `Scheduler` | the state file and the operations on it | component |
| `ModelCache` | what the model table promises | abstract specification |
| `Inference` | concurrent `bubblehub_inference_chat_json` | extends `Scheduler` with callers and backends |
| `AccessPolicy` | rules, matching, pending requests | operators |
| `AccessManifest` | threads and processes that read and write one manifest | extends `AccessPolicy` |
| `ManifestHistory` | which writers raced, which files two threads shared | history over `AccessManifest`, restricts nothing |
| `HttpProxy` | connections, host proxy, broker | extends `AccessManifest` |
| `Agents` | `bubble run`, `stop`, `delete` | component |
| `ControlViews` | the list of agents the control API serves | extends `Agents` with a viewer |
| `SandboxRun` | the processes of one sandbox | component |
| `ChatMessages` | messages of the HTTP API and of the Anthropic shim | operators |
| `GpuProfile` | GPU probes, install profile | operators |
| `ModelSelection` | from a specialty to a model | operators, extends `GpuProfile` |
| `SandboxPaths` | `--root-dir`, `--workdir`, `--binary` | operators |
| `Algorithms` | the four modules of operators above, each on any input | composes `ChatMessages`, `ModelSelection` (with `GpuProfile`) and `SandboxPaths` |
| `ModelsConfig` | `models.yaml`, its readers and its writers | component, extends `ModelSelection` |
| `InferenceDaemon` | finding, starting and binding the daemon | component |
| `HttpApi` | a request to the daemon | composes `ModelsConfig` and `InferenceDaemon` |
| `SchedulerProofs`, `InferenceProofs` | the scheduler, its refinement of `ModelCache`, inference | theorems |
| `AccessProofs`, `HttpProxyProofs` | the manifest; the proxy, on top of `AccessProofs` | theorems |
| `AgentsProofs`, `SandboxRunProofs` | `Agents` and `ControlViews`; `SandboxRun` | theorems |
| `ServingProofs` | `ModelsConfig` and `HttpApi` | theorems |
| `AlgorithmsProofs` | `Algorithms` | theorems |
| `MC*` | | instances for TLC |

**Scheduler.** `models` and `queue` are the two arrays, by slot; `ram_limit`,
`vram_limit` the limits; `now` the clock in seconds (`Tick`), so that uses in
one second tie; `signalled` the pids that have been sent SIGTERM.  Every call
takes the file lock, so each is one action.  Memory is in whole units.
`EvictIdleUntilFits` says which slots the loop of `evict_idle_until_fits`
clears, without the loop; `EvictLoop` is the loop as written, a recursive
function, and `EvictionMatchesLoop` says that the two agree.  `ReinitState` is the file being found unreadable by `lock_state`.
`ImplementsCache` maps the table to `ModelCache`, a function from names to a pid
and a count: slots, sizes, time and niceness are details of an implementation
which may only take, give back, shed idle entries and drop one.

**Inference.** `pc`, `req` and `target` are a call's place, request and backend;
`backends` the processes.  One action per lock section, probe or system call of
`ensure_native_model_loaded` and of its caller, so that everything that another
process can do in between happens.  Backends come up, exit when they like
(`MaxExits`) or after a signal, or hang (`MaxHangs`): a hung backend accepts
connections and answers nobody, and the reads of `Probe`, `WaitHealthy` and `Chat`
have no timeout.  Callers are killed (`MaxKills`), users evict (`MaxEvicts`), any
process that constructs a `SchedulerClient` sets the limits (`LimitsAreSet`), and
whoever locks the state file next may find it unreadable and initialise it
(`StateIsLost`, `MaxReinits`).  `leaked` counts the references of killed callers.
Three history variables say where the code gives up what it promises:
`contested` holds the backends started while another call was loading the same model,
`forgotten` those whose pid went with a killed starter, a full table or a lost
file, `stripped` the models whose record went away under a call that uses them.

**AccessPolicy, AccessManifest.** A manifest is a sequence of rules with
policies and a set of pending requests, on whose order nothing depends.
`FindPolicy` describes the rule that decides, `FindPolicyLoop` is the loop that
looks for it.  A write is three actions (open and
truncate, write, rename) on inodes, because the temporary file is named after
the process and is shared by its threads.  JSON is abstracted to whether the
text fits (`FitsInFile`); failed writes and kills may come anywhere.  `saved` and
`resolved` remember what callers were told.  `ManifestHistory` adds which threads work
on a copy that has been replaced since (`stale`), which inodes two threads of one
process have shared (`shared`), and whether a stale copy has replaced the
manifest or threads have met (`raced`).

**HttpProxy.** `client` is a connection, `control` the socket on which
descriptors arrive, `asked` and `answers` the two directions of the broker's
socket.  With a broker one handler serves connections in turn; without one a
process is forked for each.  The manifest is read in two places (`NeedsPrompt`,
`Evaluate`) and may be edited in between.  A write to a closed peer kills its
process (`Dies`): SIGPIPE is not ignored.

**SandboxRun.** `pc` per process; `held` says which processes hold which end of
each pipe and socket, so that end-of-file is derived (`EOF`) and not assumed.
Each layer of the setup (`Layer`) succeeds or fails.  `Killed` ends any process
at any point, `MaxKills` times.  A configuration says what was asked for and what
the helper finds: `libseccomp` is whether the build has it, without which
`apply_seccomp` returns 0 and installs nothing, and `initAdopts` whether orphans go
to pid 1 or to a subreaper.

**Agents.** A run moves from selecting its agent through registration, metadata
and launch to deregistration, with a failure or a signal at every point; an
operator stops or deletes with the snapshots that the code takes.  `lost` holds
the runs that died without reaching their `finally`.

**ControlViews.** `viewer` goes through the agent table as it was, looks up each
process, and adds the agents that only metadata, then only a manifest, know;
everything of `Agents` goes on in between.  `steady` keeps what stood still all
along, which is what a view can be held to.  An entry is shown as running, unless
its process is gone from `/proc`.

**ChatMessages.** An item has a form, a list of parts and, of a list, the set of
those that are blocks with `text`.  A text is the sequence of its pieces, so that joining texts is
concatenation and losing, doubling or reordering one shows.  Each item of a
request adds a message (`Messages`) or a part of the system message
(`SystemParts`), or is `Dropped`; `NormalizeMessageOrder` is the loop that merges
and orders them.  `ConversationKept`
says that what reaches the model is what the client sent: the system texts
first, the turns in order, roles alternating, nothing lost but blank items,
failed turns of the assistant and answers before the first question.
`AnthropicMessages` is what the Anthropic shim makes of a conversation first: it
keeps role and text, of a list only the blocks with `text`, and of an object its
Python text.  What arrives is the same as without the shim if every message is one
that it keeps (`AnthropicReads`).

**GpuProfile, ModelSelection.** A machine is what its probes print (cards, memory,
tools, the `BUBBLEHUB_GPU_*` override); libbubble and Python probe for
themselves and may see different things.  A registry is a list of models, as a set of records with their
`place` in it, and a function from specialties to entries.  Names may repeat: a pin
means the first model of its name.

**SandboxPaths.** A path is the sequence of its names after resolution.  A host is
its directories, files, `PATH`, checkout and other source trees.  `Launch` is what
`run_agent` hands to the helper, or why it refuses; `argv` is what is executed, for
a script a Python with the script as its argument.

**Algorithms.** A behaviour takes one input, of one of the modules above, and stays
with it; the properties say what the operators make of it.  The sets that inputs
come from are constants, so that one statement is checked on the inputs of
`MCAlgorithms` and proved for all.

**ModelsConfig.** `file` is the user's file: limits and entries, `EmptyFile` while
truncated, `Corrupt` when two dumps have run into one another.  A chooser reads,
checks, truncates and writes, one action each; it may be killed in between.
`kept` is the file as it would be if every write were one step, `disturbed`
whether two overlapped or one was cut short.

**InferenceDaemon.** `caller` is a command that needs the endpoint: probe, start,
wait until the deadline.  A daemon process starts, binds the port or exits.  A
probe may fail although somebody listens (it has one second); a daemon may die
(`MaxDeaths`).

**HttpApi.** `request` has two ends.  The client waits, and gives up after 120
seconds; `bubble prompt` asks once more when an answer does not parse.  The thread
reads the file for the specialty, again for the limits, which it puts into the
scheduler's state for everybody, and again for the registry; then it fetches
and chats, each of which may fail or hang.  The chat in detail is `Inference`.
`others` are the other processes and threads that construct a `SchedulerClient`
(`bubble ps`, `bubble run`, the control API, the dashboard): each reads the limits
and then sets them, at any time and from whatever the file is at that moment.
`cut` remembers that the limits in force were read while a chooser had the file
truncated.

Definitions whose names end in `_Something` after a name of the model are that
definition with a plausible mistake; they are used to see that a property can
fail.

## 3. Runs

Bounds are the smallest where the case in question happens; each is named in the
configuration.

| Run | Shows | Bounds |
|---|---|---|
| `scheduler` | unique records, exact LRU eviction of idle models only, niceness is monotone, a refused job is queued and replaces another only when the queue is full, `Scheduler` implements `ModelCache` | two machines. RAM short: models of 4, 6 and 9 units under limits of 10 and 12, two slots, two seconds: pairs that fit and that do not, ties in time, a full table. VRAM short: jobs at, below and above the reserve. Two queue slots; on the first machine one is held by `Stuck`, a job never asked for again |
| `inf_safety` | counts are backed by calls and count them all, calls reach their model, the table exceeds the limit by no more than the callers can | two callers, three models of 10 units of which the machine holds one and a limit of 12 that somebody sets holds one too, three slots, three backends; at most one exit, kill, eviction and lost state file each, and of these, of backends started and of a limit set, four together (`MaxEvents`). Symmetric in pids, callers and models; the queue, which nothing here reads, is left out of the view |
| `inf_fair` | a running backend is owned, every call returns, with the exceptions the properties name | two callers, two models that fit together, one slot, two backends that may hang; events as above, three together |
| `access_crash` | no pending request is decided already, tables within capacity, matching as the loop; the manifest is torn only where threads of one process met, and a decision is lost only to a race | killed anywhere, two places for rules, JSON at its capacity; one writer with four rules of every specificity; or two threads of one process, or two processes, that decide about one host, with one request to it. The view leaves out results, and after a race the decisions that were saved |
| `proxy_prompt` | forwarded only by consent | two connections, a broker that may die, an editor: three processes that write |
| `proxy_fork` | without a broker everybody is answered | two connections, an editor |
| `agents_shared` | no stale entry; a view is complete | three runs, of which `MaxRootless` have no root directory, one operator, table of two; or a view of at most `MaxViewedRuns` runs of one root directory, which die only of an operator |
| `sandbox` | agent confined, clean return, proxy before agent, the setup ends, nothing stays | all 36 configurations that differ: what the command line can ask for, with and without libseccomp and a subreaper; two kills |
| `serving` | served by what was named, within the limits, choices kept, the endpoint comes up, clients return | two halves: two commands and a `bubble serve` start daemons, one dies and nobody chooses; or a daemon is up, one client asks again, and two choosers make two choices, one of them killed.  In both another client of the scheduler sets the limits at any time.  A registered name, one behind `openai/`, and one nobody registered |
| `algorithms` | the pure parts on all inputs of a small set | at most four messages of every role, kind and form; machines with no, one or two cards of NVIDIA or the tools of another vendor, with and without override; the packaged models and a user's list in which a name repeats, with and without a pin and limits; roots in, around and beside protected paths and source trees |

`CHECK_DEADLOCK FALSE` is set where the system may come to rest: a manifest
nobody writes, connections all closed, runs all done, a sandbox that is over,
requests all answered, an algorithm that has its result.

Two further runs are expected to find a violation, because the repository says
more than the code does:

- `access_lost`: two processes load the manifest, both save a decision and are
  told so, and the second rename drops the first decision.
- `agents_stop`: `bubble ps --kill` ends `bubble run` and removes the entry; the
  sandbox helper and the agent run on, unlisted.

### What the code does not promise

Several properties carry an exception, because the code gives up there what one
would like to say.  The exception is part of the property and is as narrow as TLC
lets it be: without it the run finds a counterexample.

- `NoOrphanBackend`: two calls that load one model at once start two backends, and
  one pid is overwritten (`contested`, scheduler.c 1228); a starter that is killed, a full
  table (the result of `mark_model_loaded` is ignored, 1237) and a lost state file
  leave a backend unrecorded (`forgotten`).
- `ActiveCallsCounted`: a release goes by name and takes the count of a later load of
  that model when the record was evicted or lost under the call (`stripped`, 604).
- `CommittedWithinLimit`: admission reserves nothing, so every caller may be given
  the same room (478), and limits are lowered under loaded models (client.py 23).
- `CallsReturn`: a read from a backend that hangs never ends, in the wait for its
  health too, whose deadline is looked at between reads only (958, 1015).
- `NeverTorn`: threads of one process share `<manifest>.tmp.<pid>`, and the control API
  has threads and no lock (access_policy.c 650, 697).
- `DecisionsApply`: load, edit and rename are not locked; whoever loaded before another
  one's rename drops its decision (828).  The run `access_lost` shows it.
- `DashboardDecisionApplies`, a part of it: an exact `ask` rule outranks the host-wide
  `always` of the dashboard, and the request stays pending (762).
- `AgentConfined`: a build without libseccomp runs the agent without the filter,
  also when `BUBBLEHUB_ENABLE_SECCOMP` asks for it (sandbox.c 241).
- `NothingStays`: a namespace proxy whose parent died before it set its death signal
  tests for pid 1 and, under a subreaper such as `systemd --user`, stays (554).
- `ChoicesKept`: overlapping or interrupted writes of `models.yaml` (models.py 237).
- `WithinConfiguredLimit`: whoever reads the truncated file finds no limits and sets the
  scheduler's back to none for every process (client.py 23).  It does not speak of
  writes that overlapped either.
- `RootIsSafe`, in `LaunchIsWhatWasAsked`: `_bubblehub_source_tree_for` looks at the root
  and above it; a root above a source tree other than the running checkout is
  accepted, and the agent may write that tree (run.py 728).

More limits that follow from reading the actions:

- With a broker, as in `proxy_prompt` but under `FairProxySpec`: an open tunnel keeps every later
  connection waiting, an approved one too, so `RequestsAnswered` is stated and
  checked for the proxy that forks (sandbox.c 629).
- With two runs of one root directory, as in `agents_shared`: the first to end deregisters the agent of both
  (`RunningIsListed`, run.py 218).
- A queued job is never removed: its caller has been refused and gone, and the
  record stays until it is overwritten (scheduler.c 391, 491).
- The daemon keeps the default specialty of the command that started it; a later
  command with another default is answered by the first one's (`ServedAsAsked` is
  stated so, inference.py 59).
- Admission is not monotone in size: a smaller job may be refused where a larger
  one, by evicting more, is admitted.

### Fairness

- `FairSpec` (inference): every call takes its next step when it can, because
  it is a running process.  A step that reads from a backend cannot be taken while
  that backend hangs, and nothing is assumed to end that: it may exit, be
  signalled, or hang for ever.  In `inf_fair` weak fairness is of the steps that the
  bound on events leaves.
- `FairProxySpec`: processes run, a client sends its request or leaves, an
  upstream answers or refuses, the user answers prompts.  Nothing is assumed to
  end a tunnel.
- `FairSandboxSpec`: helper, setup and each proxy run; connections end once the
  child is dead.  The agent is not assumed to exit.
- `HFairness` (serving): daemon processes run, and so do commands that start one;
  the deadline of the wait and the client's 120 seconds pass.  Nothing is
  assumed of the threads of a daemon, which may hang in a download or a chat.

## 4. Proofs

Each theorem holds for every value of the constants that the named assumptions
allow: any numbers of slots, models, callers, threads, processes, connections,
runs and operators, and any bounds on exits, hangs, kills, evictions and lost
files.  No theorem assumes that callers or writers come one at a time: where the
code gives something up when they do not, the property says so (section 3).  Two
theorems have a hypothesis, about data: `SizesAgree` and `EntriesAgree`.

**`SchedulerProofs`.**

- `TypeCorrect` and `UniqueRecords`: `TypeOK /\ OneRecordPerModel` is inductive.
  Uniqueness needs types for the search of a name to mean something; types need
  nothing else, since a release has a floor at zero.
- `AdmissionSparesUsed`: an action property, from the definition of
  `EvictIdleUntilFits` (its victims are idle).
- `LoopEvictsAsDescribed`: `EvictLoop`, for any table and any job, clears the set
  that `EvictIdleUntilFits` describes, and there is one such set only, so that the
  theorems about admission hold of the loop.  By induction on the rounds: what
  has been cleared so far is the oldest part of the idle slots, and it was not yet
  enough.
- `AdmissionEvictsOldestFirst`: whatever set of victims is chosen, none is younger
  than an idle model that stays.
- `RefusalsAreQueued`: the slot that a refused job takes is its own, a free one or,
  only if there is none, that of another job.
- `NicenessMonotone`: the three niceness thresholds, taken together, never
  refuse a job for a lower niceness.
- `SchedulerIsACache`: the refinement of `ModelCache`.  The mapping is proved to
  be a function of the table (unique records), and every operation to be a
  stutter, `Take`, `GiveBack`, `Shed`, `Drop` or `Clear`.

**`InferenceProofs`.**

- `CallsTyped`: types, with the ties between a call's place, request and target.
- `RefcountsAreBacked`: inductive together with types and `OneRecordPerModel`
  (with a second record of a name, a release would leave the other count
  behind).  Counts are compared with the cardinality of the set of calls that
  hold the model, which every action leaves alone, extends by one or shrinks
  by one; a killed caller moves from that set to `leaked`.
- `CallsReachTheirModel`: split into a part about records and one about calls;
  each needs the other, since a look-up copies a record's pid to a call and
  attaching copies it back, perhaps after the record has gone.
- `CallsAreCounted`: inductive with `StrippedNoted` (a model with users and no record
  is stripped).  A release takes one from the count and from the users alike; a new
  load starts from a record that is not there, hence of a model that is either
  unused or stripped; `Remember` forgets a stripped model only when its last user
  is gone.
- `BackendsAreOwned`: the invariant `Looked` says what a call knows of the record of
  its model from look-up to registration, whatever the others do: it still has the pid that was looked up,
  or that backend and the one in the record are both excused (given up or not running); and
  a call that found none finds at most an excused one.  Two overlapping starts are
  contested before either of them registers.
- `LoadedModelsFit`, under `SizesAgree` (requests for one model ask for the same RAM,
  which comes from its entry in the registry, session.py 100).  It is not the table
  that is bounded but every table that the loads under way could leave (`Bound`),
  so that a load changes nothing.  An admission adds one model to these, at most one
  for every caller, and one model needs at most the limit in force; when the bound was
  reached with other limits, the highest covers both.  It rests on lemmas
  about the sum over the slots: changing one slot changes it by the difference, and
  a table that holds at most `n` records more than another exceeds it by at most `n`
  limits.

**`AccessProofs`.**

- `ManifestFits`, `PendingRequestsAreOpen`: `ManifestInv` says that not only the
  manifest but every file and every copy in the hands of a thread is well formed
  and has no pending request that it decides (`Proper`).  That makes it
  indifferent which of them is renamed, so no hypothesis on threads is needed.
  At its heart are lemmas on the operators: a rule added by `SetPolicy` changes
  the decision only of requests that it matches, and `RemovePending` drops
  those.  A free inode exists by counting names and open files.
- `LoopFindsPolicy`: after each entry, `FindPolicyLoop` holds the first of the best
  matches among those it passed; after the last, that is `FindPolicy`.
- `ManifestIsWhole`: no two names refer to one inode (`NamesApart`), and a temporary
  file that is empty and could be renamed so is one that two threads have opened
  (`EmptiedIsShared`).
- `DecisionsStay`: `DecisionInv` says of every copy that it has its own decision and no
  rule twice, and, as long as nothing has raced (`Calm`): a thread in `write_manifest`
  has its temporary file to itself, renames its own copy, and the copy of an operation
  that is not stale holds everything that was saved (`FreshCarry`).  Its part about the dashboard
  follows because a host-scoped rule matches its request and `FindPolicy` takes
  the best match.

**`HttpProxyProofs`**, on the same manifest.

- `ForwardingNeedsConsent`: `ProxyInv` ties a connection's place to the decision it
  was given, the question and the answer on the broker's socket to the one
  connection that is being handled, and every `always` in any file or copy to a
  grant.  With a broker at most one handler is at work, hence at most one
  question is open; without one, handlers are distinct processes and ask nobody.

**`AgentsProofs`.**

- `EntriesAreOfRuns`: an entry is tied to a run between registration and the end of
  its `finally`, or to one that was lost; operators act on stale snapshots
  and can only remove.
- `ViewsAreComplete`: what stood still is, at every point of the view, either
  shown once or still to come in the part that is being read.

**`SandboxRunProofs`.** `AgentIsConfined`, `ReturnIsClean` and `AgentFindsProxy` from
one invariant, which numbers the stages of the child (`Stage`) and says for each
which layers it has applied and which ends it has closed, and for the helper
which processes it has yet to reap.

**`ServingProofs`.**

- `ChoicesAreKept`: as long as nothing overlapped, the one chooser that is writing
  has read `kept`, and the file is `kept`, or truncated by that chooser.
- `LimitsHold`: `BoundedInv` says that every request and every other client that read a
  whole file carries the file's limits, and that those in force are the file's
  unless whoever set them read a truncated one (`cut`); so it does not
  matter who sets them between a request's `Configure` and its `Pick`.
- `RequestsServedAsAsked`, under `EntriesAgree` (an entry, packaged or the user's,
  asks for the capability of its specialty and names a model that has it): choosers only pin, so the specialty that
  the first read resolved is the one the third read finds.

**`AlgorithmsProofs`.** A behaviour holds one input of a known shape (`InputShape`);
each theorem is then a lemma about the operators.

- `ConversationsKept`: for lists of messages of any length.  `InTurn` is the invariant
  of the loop: the messages so far are the system message, if any, and then turns
  that alternate from a question on.  Item by item, the pieces of the messages grow
  by exactly the pieces the item adds (`ItemKept`), so that both sides join the same
  sequences (`Joins`).  The shim's part is that a message it keeps arrives with the
  same role, pieces and heading (`ShimReads`).
- `SessionsStart`, `OffersStart`: the filters of the selection, taken together, imply
  that admission and the machine accept the model that comes first; that a first
  one exists is an induction over the ranks, with the place in the list as the last of them.  `OffersStart` adds that a pinned model,
  if no other has its name, is its specialty's only candidate and passes the filters
  again.
- `InstallsFit`: by cases on the mode and on what the probes found; the best card is
  one with the most free memory, for any number of cards.
- `LaunchesAreSafe`: by cases on the guards of `Launch`, from lemmas about prefixes of
  paths: what is relative to a directory is that directory and the rest, and two
  prefixes of one path are prefixes of one another.

Induction is by the least counterexample: the set of numbers at which the claim
fails has, if it is not empty, a least element, and that is neither zero nor the
successor of a number at which the claim holds (`NoneLeast`).  That a recursive
function has the values its definition gives is proved by showing that such a
function exists (`LoopRuns`).

**Assumptions** (`SchedulerAssumption`, `InferenceAssumption`, `AccessAssumption`,
`ManifestAssumption` and those of the other modules; TLC evaluates all of them).
Tables have at least one slot, limits and bounds are natural numbers, requests
and rules are well formed, the values for "none" are distinct from the others,
the sets that are counted (callers, threads, processes, inodes) are finite, there
are more inodes than names and open files, and without a broker each connection
has a handler of its own.  Those of `Algorithms` are about data.  Every item has a
kind and a list of parts.  A list of models may be any: names may repeat, and `ModelSpec`
checks neither placement nor backend, so neither do the assumptions; each entry
has a place of its own.  (Those of `ModelsConfig` are about the packaged file, whose
names differ.)  Memory sizes are natural numbers.  Protected
roots are one name below `/`, system prefixes are not below `/home`, and `/` is
not a file: so it is in run.py and on Linux.

**Left to TLC.**

- Liveness: `CallsReturn`, `RequestsAnswered`, `SetupEnds`, `NothingStays`,
  `EndpointComesUp`, `ClientReturns`.
- The two runs that find a violation: what the code does not do needs an example and
  no proof.

## 5. Not modelled

- Forwarding of inference from inside a sandbox (scheduler.c 1294-1371).
- Parsing, JSON and HTTP syntax, the layout of payloads and streams, structured
  prompts.  Telemetry figures, tables, static files, the desktop app, logs.
- cgroup limits and logging: best effort, nothing reads their state back.
- Which paths the overlay and Landlock expose, and what seccomp refuses: kernel
  state, one setup step each here.
- Downloads: files of `huggingface_hub`; a fetch succeeds, fails or hangs.
- Host and port of the daemon: all commands use one.  `BUBBLEHUB_MODELS_CONFIG` and
  lists of models of the user: further files that are only read.  A corrupt
  `models.yaml` also makes `load_inference_config` raise before a command probes;
  in the model a command has read its default beforehand.
- A user who edits `models.yaml` by hand: the entries change by choosers only, the
  limits not at all.
- What a build or a kernel may lack, other than libseccomp: Landlock is always built,
  and a kernel without it makes that setup step fail.
- Pids are not reused, and the port of a backend is not taken between the probe
  and its `bind`.
- The sandbox has no PID namespace, so background processes of an agent outlive
  it; they are outside `SandboxRun`, whose child stands for the process that is
  waited for.

Met on the way, where the code does other than one might expect, and no run is
about it:

- docs/running_an_agent.md 267 says that the scheduler falls back to the CPU when
  VRAM is fully used; the scheduler refuses the job, and nobody asks again for
  another placement.
- A pinned model hides the others of its specialty; if it is not in the registry,
  the `KeyError` reaches the user (main.py 109).
- libbubble asks `nvidia-smi` only, so on a machine of another vendor its VRAM
  limit is zero; and a card that is full is taken for one whose free memory is
  unknown (telemetry.py).
- The Anthropic shim drops what is in a list but not in a block's `text`: bare strings,
  `input_text` and `output_text`, which the HTTP API itself accepts; and the name of a
  tool (anthropic_shim.py 31).
- A download that was cut short leaves a directory that the next one takes for a
  complete model (downloader.py 24).
- `is_healthy` accepts any server that answers below 500, whoever it belongs to.

## 6. Plan

Every safety property of the passing runs is proved.  What could be strengthened: `RequestsServedAsAsked`
for user files whose entries disagree with the packaged ones, if the code is
changed to check them on reading; and each exception in section 3 is a place where
a lock, a reservation or a timeout in the code would let the property be stated
without it.

To be modelled, if at all: forwarding from the sandbox, and `HttpProxy` over the
descriptors of `SandboxRun`.
