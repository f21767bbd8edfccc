------------------------------ MODULE Inference ------------------------------
(***************************************************************************)
(* Native inference (the second half of libbubble/scheduler.c): callers    *)
(* run bubblehub_inference_chat_json at the same time, each one as a       *)
(* sequence of separately locked operations on the shared scheduler state  *)
(* with a backend process probed, started or used in between.              *)
(*                                                                         *)
(*   admit -> look up -> probe -> attach ----------------> chat -> release *)
(*                 \        \-> replace -\                /                *)
(*                  \---------------------> start -> wait -> register      *)
(*                                                                         *)
(* Around the callers: backends come up, answer, exit by themselves or     *)
(* hang; a user runs `bubble models stop` or the control API evicts a      *)
(* model; a calling process is killed in the middle of a call; other       *)
(* processes set the limits, or find the state file unreadable.            *)
(*                                                                         *)
(* Backend programs (llama-server, vLLM) are external.  SIGTERM is taken   *)
(* to end a backend at once.  No two backends are given the same port.     *)
(***************************************************************************)
EXTENDS Scheduler

CONSTANTS
  MaxExits,     \* bound on backends that exit by themselves
  MaxKills,     \* bound on callers killed in the middle of a call
  MaxEvicts,    \* bound on evictions asked for by a user
  MaxHangs,     \* bound on backends that stop answering without an exit
  MaxReinits,   \* bound on how often the state file is found unreadable
  NoReq,        \* a caller outside a call
  NoPid

ASSUME InferenceAssumption ==
  /\ MaxExits \in Nat
  /\ MaxKills \in Nat
  /\ MaxEvicts \in Nat
  /\ MaxHangs \in Nat
  /\ MaxReinits \in Nat
  /\ NoReq \notin Request
  /\ NoPid \notin Pids
  /\ Empty \notin ModelNames
  /\ IsFiniteSet(Callers)

VARIABLES
  pc,           \* where each caller is
  req,          \* the request of its call
  target,       \* the local variables pid and port of its call
  backends,     \* backend processes: status and the model they serve
  leaked,       \* how many users of a model were killed while they held it
  exits,        \* counters for the bounds
  kills,
  evicts,
  hangs,
  reinits,
  \* What the properties remember of the past; no step depends on it.
  contested,    \* backends started while another call loaded the same model
  forgotten,    \* backends whose pid libbubble gave up while they ran
  stripped      \* models whose record went away under a call that uses them

cvars == <<pc, req, target>>
counters == <<exits, kills, evicts, hangs, reinits>>
bvars == <<backends, leaked, counters, forgotten>>
hvars == <<contested, stripped>>
vars == <<svars, cvars, bvars, hvars>>

Locations == {"idle", "lookup", "probe", "attach", "replace", "start", "wait",
              "register", "chat", "release"}

\* Between mark_model_loaded and mark_model_unloaded.
Holding == {"chat", "release"}

\* Between admission and mark_model_loaded.
Loading == {"lookup", "probe", "attach", "replace", "start", "wait", "register"}

\* From fork to mark_model_loaded: only the call knows the pid.
Starting == {"wait", "register"}

BackendStatus == {"none", "starting", "up", "hung", "exited"}

\* Where the locals pid and port have been given a value.
TargetKnown == {"probe", "attach", "replace", "wait", "register", "chat", "release"}

CallersOK ==
  /\ pc \in [Callers -> Locations]
  /\ req \in [Callers -> Requests \cup {NoReq}]
  /\ target \in [Callers -> Pids \cup {NoPid}]
  /\ \A c \in Callers : /\ (pc[c] = "idle") <=> (req[c] = NoReq)
                        /\ pc[c] \in {"idle", "lookup"} => target[c] = NoPid
                        /\ pc[c] \in TargetKnown => target[c] \in Pids

BackendsOK ==
  /\ backends \in [Pids -> [status : BackendStatus, model : ModelNames \cup {Empty}]]
  /\ \A p \in Pids : (backends[p].status = "none") <=> (backends[p].model = Empty)
  /\ leaked \in [ModelNames -> Nat]
  /\ exits \in Nat /\ kills \in Nat /\ evicts \in Nat /\ hangs \in Nat /\ reinits \in Nat
  /\ forgotten \subseteq Pids

HistoryOK == contested \subseteq Pids /\ stripped \subseteq ModelNames

\* The variables have their types, and a call has the locals it needs.
ITypeOK == TypeOK /\ CallersOK /\ BackendsOK /\ HistoryOK

IInit ==
  /\ Init
  /\ pc = [c \in Callers |-> "idle"]
  /\ req = [c \in Callers |-> NoReq]
  /\ target = [c \in Callers |-> NoPid]
  /\ backends = [p \in Pids |-> [status |-> "none", model |-> Empty]]
  /\ leaked = [n \in ModelNames |-> 0]
  /\ exits = 0 /\ kills = 0 /\ evicts = 0 /\ hangs = 0 /\ reinits = 0
  /\ contested = {} /\ forgotten = {} /\ stripped = {}

Running(p) == backends[p].status \in {"starting", "up", "hung"} /\ p \notin signalled
Healthy(p) == backends[p].status = "up" /\ p \notin signalled

\* It accepts connections and says nothing: read_http_response has no timeout.
Hung(p) == backends[p].status = "hung" /\ p \notin signalled

Goto(c, to) == pc' = [pc EXCEPT ![c] = to]

\* The call ends with an error or an answer and its locals are gone.
Return(c) ==
  /\ Goto(c, "idle")
  /\ req' = [req EXCEPT ![c] = NoReq]
  /\ target' = [target EXCEPT ![c] = NoPid]

-----------------------------------------------------------------------------
(* One call of bubblehub_inference_chat_json.                              *)

\* Parse the request and admit the job; a refused job ends the call.
Admit(c, r) ==
  /\ pc[c] = "idle"
  /\ \/ /\ AdmitModelJob(c, r, TRUE)
        /\ Goto(c, "lookup")
        /\ req' = [req EXCEPT ![c] = r]
        /\ UNCHANGED target
     \/ /\ AdmitModelJob(c, r, FALSE)
        /\ UNCHANGED cvars
  /\ UNCHANGED bvars

\* model_process_record
LookUp(c) ==
  /\ pc[c] = "lookup"
  /\ LET slots == SlotsNamed(models, req[c].name)
     IN  IF slots = {}
         THEN Goto(c, "start") /\ UNCHANGED target
         ELSE \E i \in ModelSlots :
                /\ IsFirst(i, slots)
                /\ Goto(c, "probe")
                /\ target' = [target EXCEPT ![c] = models[i].pid]
  /\ UNCHANGED <<svars, req, bvars>>

\* pid_is_running and http_get_health, without the lock.
Probe(c) ==
  /\ pc[c] = "probe"
  /\ ~Hung(target[c])
  /\ Goto(c, IF Healthy(target[c]) THEN "attach" ELSE "replace")
  /\ UNCHANGED <<svars, req, target, bvars>>

\* Reuse: mark_model_loaded with the pid and port that were looked up.
Attach(c) ==
  /\ pc[c] = "attach"
  /\ Goto(c, "chat")
  /\ MarkModelLoaded(req[c], target[c])
  /\ UNCHANGED <<req, target, bvars>>

\* bubblehub_scheduler_evict_model on the record that looked unhealthy.
Replace(c) ==
  /\ pc[c] = "replace"
  /\ Goto(c, "start")
  /\ EvictModel(req[c].name)
  /\ UNCHANGED <<req, target, bvars>>

\* fork a backend; Pids bounds how many are started.
Start(c) ==
  /\ pc[c] = "start"
  /\ Goto(c, "wait")
  /\ \E p \in Pids :
       /\ backends[p].status = "none"
       /\ backends' = [backends EXCEPT ![p] = [status |-> "starting",
                                               model |-> req[c].name]]
       /\ target' = [target EXCEPT ![c] = p]
  /\ UNCHANGED <<svars, req, leaked, counters, forgotten>>

\* No port, or fork fails, or the backend is not one libbubble can start.
StartFails(c) ==
  /\ pc[c] = "start"
  /\ Return(c)
  /\ UNCHANGED <<svars, bvars>>

\* wait_for_backend_health sees the backend answer.
WaitHealthy(c) ==
  /\ pc[c] = "wait"
  /\ Healthy(target[c])
  /\ Goto(c, "register")
  /\ UNCHANGED <<svars, req, target, bvars>>

\* A bug: a backend that does not come up in time is left alone.
WaitFails_NoSignal(c) ==
  /\ pc[c] = "wait"
  /\ ~Hung(target[c])
  /\ Return(c)
  /\ UNCHANGED <<svars, bvars>>

\* A bug: the deadline is not looked at, only whether the backend exited.
WaitFails_NoDeadline(c) ==
  /\ pc[c] = "wait"
  /\ ~Running(target[c])
  /\ Return(c)
  /\ signalled' = signalled \cup {target[c]}
  /\ UNCHANGED <<tables, limits, now, bvars>>

\* It exited, or the deadline passed: SIGTERM and give up.  The deadline is
\* looked at between two health checks, and a check may never end.
WaitFails(c) ==
  /\ pc[c] = "wait"
  /\ ~Hung(target[c])
  /\ Return(c)
  /\ signalled' = signalled \cup {target[c]}
  /\ UNCHANGED <<tables, limits, now, bvars>>

\* mark_model_loaded for the new backend; its return value is not looked at,
\* so a full table leaves the backend unrecorded.
Register(c) ==
  /\ pc[c] = "register"
  /\ Goto(c, "chat")
  /\ MarkModelLoaded(req[c], target[c])
  /\ forgotten' = IF SlotsNamed(models, req[c].name) = {} /\ FreeSlots(models) = {}
                  THEN forgotten \cup {target[c]}
                  ELSE forgotten
  /\ UNCHANGED <<req, target, backends, leaked, counters>>

\* http_post_chat ends, with an answer or because the backend is gone.
Chat(c) ==
  /\ pc[c] = "chat"
  /\ ~Hung(target[c])
  /\ Goto(c, "release")
  /\ UNCHANGED <<svars, req, target, bvars>>

\* A bug: the call returns on a failed request without releasing the model.
Release_NotOnError(c) ==
  /\ pc[c] = "release"
  /\ Return(c)
  /\ IF Healthy(target[c]) THEN MarkModelUnloaded(req[c].name) ELSE UNCHANGED svars
  /\ UNCHANGED bvars

\* mark_model_unloaded, whatever the outcome of the request.
Release(c) ==
  /\ pc[c] = "release"
  /\ Return(c)
  /\ MarkModelUnloaded(req[c].name)
  /\ UNCHANGED bvars

-----------------------------------------------------------------------------
(* The environment.                                                        *)

BackendUp(p) ==
  /\ backends[p].status = "starting"
  /\ p \notin signalled
  /\ backends' = [backends EXCEPT ![p].status = "up"]
  /\ UNCHANGED <<svars, cvars, leaked, counters, forgotten>>

BackendExits(p) ==
  /\ exits < MaxExits
  /\ Running(p)
  /\ backends' = [backends EXCEPT ![p].status = "exited"]
  /\ exits' = exits + 1
  /\ UNCHANGED <<svars, cvars, leaked, kills, evicts, hangs, reinits, forgotten>>

\* While it starts or later, it listens and answers nobody any more.
BackendHangs(p) ==
  /\ hangs < MaxHangs
  /\ backends[p].status \in {"starting", "up"}
  /\ p \notin signalled
  /\ backends' = [backends EXCEPT ![p].status = "hung"]
  /\ hangs' = hangs + 1
  /\ UNCHANGED <<svars, cvars, leaked, exits, kills, evicts, reinits, forgotten>>

\* `bubble models stop`, POST /api/models/evict.
UserEvicts(n) ==
  /\ evicts < MaxEvicts
  /\ EvictModel(n)
  /\ evicts' = evicts + 1
  /\ UNCHANGED <<cvars, backends, leaked, exits, kills, hangs, reinits, forgotten>>

\* The calling process dies; backends it started stay.
CallerKilled(c) ==
  /\ kills < MaxKills
  /\ pc[c] # "idle"
  /\ Return(c)
  /\ leaked' = IF pc[c] \in Holding
               THEN [leaked EXCEPT ![req[c].name] = @ + 1]
               ELSE leaked
  /\ forgotten' = IF pc[c] \in Starting THEN forgotten \cup {target[c]} ELSE forgotten
  /\ kills' = kills + 1
  /\ UNCHANGED <<svars, backends, exits, evicts, hangs, reinits>>

\* Any process that constructs a SchedulerClient sets the limits.
LimitsAreSet(ram, vram) ==
  /\ ConfigureLimits(ram, vram)
  /\ UNCHANGED <<cvars, bvars>>

\* Whoever locks the state file next finds it unreadable.
StateIsLost ==
  /\ reinits < MaxReinits
  /\ ReinitState
  /\ forgotten' = forgotten \cup {models[i].pid : i \in Loaded(models)}
  /\ reinits' = reinits + 1
  /\ UNCHANGED <<cvars, backends, leaked, exits, kills, evicts, hangs>>

Step(c) ==
  \/ LookUp(c) \/ Probe(c) \/ Attach(c) \/ Replace(c)
  \/ Start(c) \/ StartFails(c) \/ WaitHealthy(c) \/ WaitFails(c)
  \/ Register(c) \/ Chat(c) \/ Release(c)

TickClock == Tick /\ UNCHANGED <<cvars, bvars>>

-----------------------------------------------------------------------------
(* History.                                                                *)

Holders(n) == {c \in Callers : pc[c] \in Holding /\ req[c].name = n}

\* A call has started p while another is about to look for, or to record, a
\* backend of the same model.
BeingContested ==
  {p \in Pids : \E c, d \in Callers :
     /\ c # d
     /\ pc[c] \in Starting /\ target[c] = p
     /\ pc[d] \in Loading /\ req[d].name = req[c].name}

\* A model is stripped from the moment that it has users and no record until
\* the last of these users is gone.
Remember ==
  /\ contested' = contested \cup BeingContested'
  /\ stripped' = {n \in ModelNames :
                    /\ Holders(n)' # {}
                    /\ n \in stripped \/ SlotsNamed(models', n) = {}}

IActions ==
  \/ \E c \in Callers : (\E r \in Requests : Admit(c, r)) \/ Step(c)
  \/ \E c \in Callers : CallerKilled(c)
  \/ \E p \in Pids : BackendUp(p) \/ BackendExits(p) \/ BackendHangs(p)
  \/ \E n \in ModelNames : UserEvicts(n)
  \/ \E ram \in RamLimits, vram \in VramLimits : LimitsAreSet(ram, vram)
  \/ StateIsLost
  \/ TickClock

INext == IActions /\ Remember

ISpec == IInit /\ [][INext]_vars

(***************************************************************************)
(* Callers keep running: the kernel schedules them, flock is held only for *)
(* a read and a write of the file, wait_for_backend_health has a deadline. *)
(* Nothing is assumed of a backend that hangs: the read of its reply ends  *)
(* only when it exits or is signalled.                                     *)
(***************************************************************************)
FairSpec == ISpec /\ \A c \in Callers : WF_vars(Step(c) /\ Remember)

-----------------------------------------------------------------------------
(* Properties.                                                             *)

(***************************************************************************)
(* A reference count never exceeds the calls that hold the model (plus     *)
(* those killed while they held it), whatever callers interleave, evict or *)
(* replace: once every call has returned the model is idle and can be      *)
(* evicted.  Every path from mark_model_loaded to the end of               *)
(* bubblehub_inference_chat_json goes through mark_model_unloaded once.    *)
(***************************************************************************)
RefcountsBacked ==
  \A n \in ModelNames : \A i \in SlotsNamed(models, n) :
    models[i].refcount <= Cardinality(Holders(n)) + leaked[n]

(***************************************************************************)
(* The pid in a record and the pid a caller holds belong to a backend that *)
(* was started for that model, even after the record was evicted, replaced *)
(* or overwritten between look-up and use: no call is answered by the      *)
(* backend of another model.                                               *)
(***************************************************************************)
BackendServesItsModel ==
  /\ \A i \in Loaded(models) : backends[models[i].pid].model = models[i].name
  /\ \A c \in Callers : target[c] # NoPid =>
                          backends[target[c]].model = req[c].name

(***************************************************************************)
(* docs/libbubble.md 98, "Own all backend process lifecycle", as far as    *)
(* the code keeps it: a backend that runs is in the table, where eviction  *)
(* finds it, or in the hands of the call that started it, through every    *)
(* interleaving of calls, failed starts, evictions and exits.  The code    *)
(* gives it up in four cases and in no other: another call was loading     *)
(* the same model meanwhile and overwrites the pid (contested); the        *)
(* starter is killed, the table has no slot, or the file is initialised    *)
(* again (forgotten).                                                      *)
(***************************************************************************)
NoOrphanBackend ==
  \A p \in Pids : Running(p) =>
    \/ \E i \in Loaded(models) : models[i].pid = p
    \/ \E c \in Callers : target[c] = p /\ pc[c] \in Starting
    \/ p \in contested \cup forgotten

(***************************************************************************)
(* A model is counted as used at least as often as calls use it, so that   *)
(* no admission takes it for idle.  Releases go by name: when the record   *)
(* is evicted, lost or never written under a call, the count of a later    *)
(* load is too low (stripped), but no longer than the calls that were      *)
(* under way then; after them it is right again.                           *)
(***************************************************************************)
ActiveCallsCounted ==
  \A n \in ModelNames \ stripped : \A i \in SlotsNamed(models, n) :
    Cardinality(Holders(n)) <= models[i].refcount

\* What EffectiveRamLimit is under a limit that somebody configures.
RamLimitOf(l) == IF l > 0 THEN l ELSE IF HwRam > 1 THEN HwRam ELSE 1

(***************************************************************************)
(* How far the models in the table may exceed the memory that the          *)
(* scheduler hands out: admission reserves nothing, so every caller may be *)
(* given the same room, and limits may be lowered under loaded models; but *)
(* the table never needs more than the highest limit that anybody          *)
(* configures, once for every caller.  With one caller that is the limit.  *)
(***************************************************************************)
CommittedWithinLimit ==
  \E l \in RamLimits \cup {0} :
    CommittedRam(models) <= Cardinality(Callers) * RamLimitOf(l)

\* A call waits for a backend that neither answers nor exits.
Stuck(c) == pc[c] \in {"probe", "wait", "chat"} /\ Hung(target[c])

(***************************************************************************)
(* Every call of bubblehub_inference_chat_json returns, unless it is left  *)
(* reading from a backend that hangs; no other step can keep it, neither   *)
(* the other callers nor a backend that dies or never comes up.            *)
(***************************************************************************)
CallsReturn ==
  \A c \in Callers : pc[c] # "idle" ~> (pc[c] = "idle" \/ Stuck(c))
=============================================================================
