------------------------------ MODULE Scheduler ------------------------------
(***************************************************************************)
(* The shared scheduler state of libbubble (libbubble/scheduler.c): the    *)
(* table of warm models, the queue of refused jobs and the resource        *)
(* limits.  The state lives in one file; every public function takes an    *)
(* exclusive flock, reads the whole struct, changes it, writes it back and *)
(* unlocks, so every operation below is one atomic action.  Its callers    *)
(* (threads of the inference daemon, CLI processes, the control API) are   *)
(* not part of this module: Next lets them call anything in any order.     *)
(* Module Inference composes these actions into the calls the code makes.  *)
(*                                                                         *)
(* Memory is counted in whole units; a percentage test on doubles becomes  *)
(* a test on integers multiplied out.  The pid and the port of a backend   *)
(* go together and are one value; no caller records a model without one.   *)
(***************************************************************************)
EXTENDS Integers, FiniteSets

CONSTANTS
  ModelNames,   \* names of models
  Callers,      \* threads and processes that call the scheduler
  Pids,         \* backend processes
  Requests,     \* model jobs: [name, ram, vram, niceness]
  RamLimits,    \* values passed to configure_limits; 0 is "not configured"
  VramLimits,
  HwRam,        \* what the hardware probe reports
  HwVram,
  MaxModels,    \* BUBBLEHUB_MAX_MODELS
  MaxQueue,     \* BUBBLEHUB_MAX_QUEUE
  MaxTime,      \* bound on the clock
  MaxRefs,      \* bound on a reference count when callers are arbitrary
  Empty         \* a zeroed table slot (active = 0)

Request == [name : ModelNames, ram : Nat, vram : Nat, niceness : Int]

ModelRecord == [name : ModelNames, ram : Nat, vram : Nat, pid : Pids,
                refcount : Nat, last_used : Nat]

Reasons == {"none", "no capacity", "no RAM", "RAM low", "VRAM low"}

QueueRecord == [caller : Callers, name : ModelNames, niceness : Int,
                reason : Reasons]

ASSUME SchedulerAssumption ==
  /\ MaxModels \in Nat \ {0}
  /\ MaxQueue \in Nat \ {0}
  /\ HwRam \in Nat
  /\ HwVram \in Nat
  /\ MaxTime \in Nat
  /\ MaxRefs \in Nat
  /\ RamLimits \subseteq Nat
  /\ VramLimits \subseteq Nat
  /\ \A r \in Requests : r \in Request
  /\ Empty \notin ModelRecord
  /\ Empty \notin QueueRecord

VARIABLES
  models,       \* the table of warm models
  queue,        \* the table of queued jobs
  ram_limit,    \* configured limits, 0 when not configured
  vram_limit,
  now,          \* time(NULL), in seconds
  signalled     \* pids that have been sent SIGTERM

tables == <<models, queue>>
limits == <<ram_limit, vram_limit>>
svars == <<models, queue, ram_limit, vram_limit, now, signalled>>

ModelSlots == 1..MaxModels
QueueSlots == 1..MaxQueue

-----------------------------------------------------------------------------
(* Searching the tables.  Each C loop returns the lowest matching index.   *)

IsFirst(i, S) == i \in S /\ \A j \in S : i <= j

Loaded(m) == {i \in ModelSlots : m[i] # Empty}
FreeSlots(m) == ModelSlots \ Loaded(m)

\* A bug: the search takes the first record, whatever its name.
SlotsNamed_AnyName(m, name) == Loaded(m)

SlotsNamed(m, name) == {i \in Loaded(m) : m[i].name = name}

-----------------------------------------------------------------------------
(* Capacity.                                                               *)

\* The loop over the table that adds up one size of every record.
Total(size) ==
  LET total[i \in 0..MaxModels] == IF i = 0 THEN 0 ELSE total[i - 1] + size[i]
  IN  total[MaxModels]

RamOf(m) == [i \in ModelSlots |-> IF m[i] = Empty THEN 0 ELSE m[i].ram]
VramOf(m) == [i \in ModelSlots |-> IF m[i] = Empty THEN 0 ELSE m[i].vram]

CommittedRam(m) == Total(RamOf(m))
CommittedVram(m) == Total(VramOf(m))

EffectiveRamLimit ==
  IF ram_limit > 0 THEN ram_limit ELSE IF HwRam > 1 THEN HwRam ELSE 1

\* 0 means that no GPU was found, and then VRAM is not limited.
EffectiveVramLimit == IF vram_limit > 0 THEN vram_limit ELSE HwVram

LowWatermarkPercent == 20
NoAdmitWatermarkPercent == 8
GpuReservedPercent == 10

RamState(m, requested) ==
  LET total == EffectiveRamLimit
      remaining == total - CommittedRam(m) - requested
  IN  IF remaining * 100 < NoAdmitWatermarkPercent * total THEN "no_ram"
      ELSE IF remaining * 100 < LowWatermarkPercent * total THEN "low"
      ELSE "available"

\* A bug: the job that asks is not counted.
HasCapacityFor_WithoutJob(m, r) ==
  /\ CommittedRam(m) <= EffectiveRamLimit
  /\ r.ram <= EffectiveRamLimit

HasCapacityFor(m, r) ==
  /\ CommittedRam(m) + r.ram <= EffectiveRamLimit
  /\ (r.vram > 0 /\ EffectiveVramLimit > 0)
       => CommittedVram(m) + r.vram <= EffectiveVramLimit

InVramReserve(m, r) ==
  /\ r.vram > 0
  /\ EffectiveVramLimit > 0
  /\ 100 * (CommittedVram(m) + r.vram)
       + GpuReservedPercent * EffectiveVramLimit > 100 * EffectiveVramLimit

-----------------------------------------------------------------------------
(* Eviction.                                                               *)

EvictSlots(m, S) == [i \in ModelSlots |-> IF i \in S THEN Empty ELSE m[i]]

\* A bug: the reference count is not looked at.
IdleSlots_InUseToo(m, except) == {i \in Loaded(m) : m[i].name # except}

IdleSlots(m, except) ==
  {i \in Loaded(m) : m[i].refcount = 0 /\ m[i].name # except}

\* A bug: the scan keeps the first idle slot, whatever its last use.
UsedBefore_SlotOrder(m, i, j) == i < j

\* find_lru_idle_model prefers i to j: older use, then the lower slot.
UsedBefore(m, i, j) ==
  \/ m[i].last_used < m[j].last_used
  \/ m[i].last_used = m[j].last_used /\ i < j

\* A bug: the loop runs once more after the job fits.
EvictIdleUntilFits_OneMore(m, r, victims) ==
  LET idle == IdleSlots(m, r.name)
      before(i) == {j \in idle : UsedBefore(m, j, i)}
  IN  /\ victims \subseteq idle
      /\ \A i \in victims : before(i) \subseteq victims
      /\ victims # {} => \E i \in victims : /\ before(i) = victims \ {i}
                                            /\ HasCapacityFor(EvictSlots(m, before(i)), r)
      /\ HasCapacityFor(EvictSlots(m, victims), r) \/ victims = idle

(***************************************************************************)
(* The loop of evict_idle_until_fits, as the set of slots it clears: idle  *)
(* models go in LRU order, each one only because the job did not fit       *)
(* before it, until the job fits or no idle model is left.                 *)
(***************************************************************************)
EvictIdleUntilFits(m, r, victims) ==
  LET idle == IdleSlots(m, r.name)
      before(i) == {j \in idle : UsedBefore(m, j, i)}
  IN  /\ victims \subseteq idle
      /\ \A i \in victims : /\ before(i) \subseteq victims
                            /\ ~HasCapacityFor(EvictSlots(m, before(i)), r)
      /\ HasCapacityFor(EvictSlots(m, victims), r) \/ victims = idle

\* The scan of the table, as written; 0 is "none".
FindLruIdleModel(m, except) ==
  LET idle == IdleSlots(m, except)
      index[i \in 0..MaxModels] ==
        IF i = 0 THEN 0
        ELSE LET best == index[i - 1]
                 better == best = 0 \/ m[i].last_used < m[best].last_used
             IN  IF i \in idle /\ better THEN i ELSE best
  IN  index[MaxModels]

\* The loop of evict_idle_until_fits, as written: the table it leaves.  It
\* clears a slot in every round, so it runs at most once for each.
EvictLoop(m, r) ==
  LET table[k \in 0..MaxModels] ==
        IF k = 0 THEN m
        ELSE LET t == table[k - 1]
                 index == FindLruIdleModel(t, r.name)
             IN  IF HasCapacityFor(t, r) \/ index = 0 THEN t
                 ELSE EvictSlots(t, {index})
  IN  table[MaxModels]

\* terminate_model_process, for every slot that is cleared.
Terminate(S) == signalled' = signalled \cup {models[i].pid : i \in S}

-----------------------------------------------------------------------------
(* Operations.                                                             *)

Init ==
  /\ models = [i \in ModelSlots |-> Empty]
  /\ queue = [k \in QueueSlots |-> Empty]
  /\ ram_limit = 0
  /\ vram_limit = 0
  /\ now = 0
  /\ signalled = {}

\* A bug: the queued job always goes to the first slot.
AddQueueItemLocked_FirstSlot(item) == queue' = [queue EXCEPT ![1] = item]

\* The first free slot, or the first slot when the table is full.
AddQueueItemLocked(item) ==
  LET free == {k \in QueueSlots : queue[k] = Empty}
  IN  \E k \in QueueSlots :
        /\ IF free = {} THEN k = 1 ELSE IsFirst(k, free)
        /\ queue' = [queue EXCEPT ![k] = item]

AddQueueItem(item) ==
  /\ AddQueueItemLocked(item)
  /\ UNCHANGED <<models, limits, now, signalled>>

ConfigureLimits(ram, vram) ==
  /\ ram_limit' = ram
  /\ vram_limit' = vram
  /\ UNCHANGED <<tables, now, signalled>>

\* A bug: the reserve of the GPU is kept from urgent jobs.
RefusalReason_UrgentReserve(m, r) ==
  IF ~HasCapacityFor(m, r) THEN "no capacity"
  ELSE IF InVramReserve(m, r) /\ r.niceness <= 0 THEN "VRAM low"
  ELSE "none"

\* Why the job is refused once idle models are gone, "none" if it is admitted.
RefusalReason(m, r) ==
  IF ~HasCapacityFor(m, r) THEN "no capacity"
  ELSE IF RamState(m, r.ram) = "no_ram" /\ r.niceness > 0 THEN "no RAM"
  ELSE IF RamState(m, r.ram) = "low" /\ r.niceness >= 10 THEN "RAM low"
  ELSE IF InVramReserve(m, r) /\ r.niceness > 0 THEN "VRAM low"
  ELSE "none"

\* admit_model_job for a model that is in the table: touch it, reserve nothing.
AdmitLoadedModel(r) ==
  \E i \in ModelSlots :
    /\ IsFirst(i, SlotsNamed(models, r.name))
    /\ models' = [models EXCEPT ![i].last_used = now]
    /\ UNCHANGED <<queue, limits, now, signalled>>

(***************************************************************************)
(* admit_model_job for a model that is not in the table.  The idle models  *)
(* are gone even when the job is refused afterwards; an admitted job       *)
(* leaves no trace in the table until mark_model_loaded.                   *)
(***************************************************************************)
AdmitNewModel(c, r, allowed) ==
  /\ SlotsNamed(models, r.name) = {}
  /\ \E victims \in SUBSET ModelSlots :
       /\ EvictIdleUntilFits(models, r, victims)
       /\ models' = EvictSlots(models, victims)
       /\ Terminate(victims)
       /\ LET reason == RefusalReason(EvictSlots(models, victims), r)
          IN  /\ allowed = (reason = "none")
              /\ IF allowed
                 THEN UNCHANGED queue
                 ELSE AddQueueItemLocked(
                        [caller |-> c, name |-> r.name,
                         niceness |-> r.niceness, reason |-> reason])
  /\ UNCHANGED <<limits, now>>

AdmitModelJob(c, r, allowed) ==
  \/ allowed /\ AdmitLoadedModel(r)
  \/ AdmitNewModel(c, r, allowed)

\* A bug: a model that is reused is not counted again.
Taken_NotCounted(rec, pid) ==
  [name |-> rec.name, ram |-> rec.ram, vram |-> rec.vram, pid |-> pid,
   refcount |-> rec.refcount, last_used |-> now]

\* A record with one more user, and that user's backend.
Taken(rec, pid) ==
  [name |-> rec.name, ram |-> rec.ram, vram |-> rec.vram, pid |-> pid,
   refcount |-> rec.refcount + 1, last_used |-> now]

\* mark_model_loaded finds the model; the size of the request is ignored.
MarkLoadedAgain(r, pid) ==
  \E i \in ModelSlots :
    /\ IsFirst(i, SlotsNamed(models, r.name))
    /\ models' = [models EXCEPT ![i] = Taken(models[i], pid)]

\* mark_model_loaded adds the model in the first free slot.
MarkLoadedNew(r, pid) ==
  /\ SlotsNamed(models, r.name) = {}
  /\ \E i \in ModelSlots :
       /\ IsFirst(i, FreeSlots(models))
       /\ models' = [models EXCEPT ![i] =
                       [name |-> r.name, ram |-> r.ram, vram |-> r.vram,
                        pid |-> pid, refcount |-> 1, last_used |-> now]]

\* mark_model_loaded fails: the table is full.
MarkLoadedNoSlot(r) ==
  /\ SlotsNamed(models, r.name) = {}
  /\ FreeSlots(models) = {}
  /\ UNCHANGED models

\* A bug: a model that is in the table is given another slot.
MarkModelLoaded_NoSearch(r, pid) ==
  /\ \/ \E i \in ModelSlots :
          /\ IsFirst(i, FreeSlots(models))
          /\ models' = [models EXCEPT ![i] =
                          [name |-> r.name, ram |-> r.ram, vram |-> r.vram,
                           pid |-> pid, refcount |-> 1, last_used |-> now]]
     \/ FreeSlots(models) = {} /\ UNCHANGED models
  /\ UNCHANGED <<queue, limits, now, signalled>>

MarkModelLoaded(r, pid) ==
  /\ MarkLoadedAgain(r, pid) \/ MarkLoadedNew(r, pid) \/ MarkLoadedNoSlot(r)
  /\ UNCHANGED <<queue, limits, now, signalled>>

\* A bug: a release too many is counted.
Released_NoFloor(rec) ==
  [name |-> rec.name, ram |-> rec.ram, vram |-> rec.vram, pid |-> rec.pid,
   refcount |-> rec.refcount - 1, last_used |-> now]

\* A record with one user less; a count of zero stays.
Released(rec) ==
  [name |-> rec.name, ram |-> rec.ram, vram |-> rec.vram, pid |-> rec.pid,
   refcount |-> IF rec.refcount > 0 THEN rec.refcount - 1 ELSE 0,
   last_used |-> now]

MarkModelUnloaded(name) ==
  /\ IF SlotsNamed(models, name) = {}
     THEN UNCHANGED models
     ELSE \E i \in ModelSlots :
            /\ IsFirst(i, SlotsNamed(models, name))
            /\ models' = [models EXCEPT ![i] = Released(models[i])]
  /\ UNCHANGED <<queue, limits, now, signalled>>

\* Whatever its reference count, the model goes and its backend is signalled.
EvictModel(name) ==
  /\ \E S \in SUBSET ModelSlots :
       /\ IF SlotsNamed(models, name) = {}
          THEN S = {}
          ELSE \E i \in ModelSlots : IsFirst(i, SlotsNamed(models, name)) /\ S = {i}
       /\ models' = EvictSlots(models, S)
       /\ Terminate(S)
  /\ UNCHANGED <<queue, limits, now>>

\* lock_state finds a file of another size, magic or version and starts afresh.
ReinitState ==
  /\ models' = [i \in ModelSlots |-> Empty]
  /\ queue' = [k \in QueueSlots |-> Empty]
  /\ ram_limit' = 0
  /\ vram_limit' = 0
  /\ UNCHANGED <<now, signalled>>

Tick ==
  /\ now < MaxTime
  /\ now' = now + 1
  /\ UNCHANGED <<tables, limits, signalled>>

\* Callers are arbitrary here; MaxRefs bounds how often a model is taken.
RefsBounded(r) ==
  \A i \in SlotsNamed(models, r.name) : models[i].refcount < MaxRefs

Next ==
  \/ \E ram \in RamLimits, vram \in VramLimits : ConfigureLimits(ram, vram)
  \/ \E c \in Callers, r \in Requests, allowed \in BOOLEAN :
       AdmitModelJob(c, r, allowed)
  \/ \E r \in Requests, pid \in Pids : RefsBounded(r) /\ MarkModelLoaded(r, pid)
  \/ \E name \in ModelNames : MarkModelUnloaded(name)
  \/ \E name \in ModelNames : EvictModel(name)
  \/ \E c \in Callers, r \in Requests :
       AddQueueItem([caller |-> c, name |-> r.name,
                     niceness |-> r.niceness, reason |-> "none"])
  \/ ReinitState
  \/ Tick

Spec == Init /\ [][Next]_svars

-----------------------------------------------------------------------------
(* Properties.                                                             *)

\* The tables hold zeroed slots and well-formed records.
TypeOK ==
  /\ models \in [ModelSlots -> ModelRecord \cup {Empty}]
  /\ queue \in [QueueSlots -> QueueRecord \cup {Empty}]
  /\ ram_limit \in Nat
  /\ vram_limit \in Nat
  /\ now \in Nat
  /\ signalled \subseteq Pids

(***************************************************************************)
(* A model has at most one record, however loads, evictions and admissions *)
(* move records between slots.  find_model stops at the first match: with  *)
(* a second record its users would be counted in one record and its        *)
(* backend kept in the other.                                              *)
(***************************************************************************)
OneRecordPerModel ==
  \A i, j \in Loaded(models) : models[i].name = models[j].name => i = j

(***************************************************************************)
(* Admission evicts idle models only (find_lru_idle_model): a record with  *)
(* users leaves the table only through evict_model or with the whole file. *)
(***************************************************************************)
InUseSurvivesAdmission ==
  [][ \A i \in Loaded(models) :
        (models[i].refcount > 0 /\ models'[i] = Empty)
          => ReinitState \/ EvictModel(models[i].name) ]_svars

(***************************************************************************)
(* Admission evicts the least recently used idle models: no idle model     *)
(* that survives was last used before one that is evicted for another.     *)
(***************************************************************************)
EvictsOldestFirst ==
  [][ \A i, j \in Loaded(models) :
        (/\ models'[i] = Empty
         /\ models'[j] # Empty
         /\ models[j].refcount = 0
         /\ \E c \in Callers, r \in Requests, allowed \in BOOLEAN :
              AdmitModelJob(c, r, allowed))
        => models[i].last_used <= models[j].last_used ]_svars

Admissible(r) ==
  \/ SlotsNamed(models, r.name) # {}
  \/ \E victims \in SUBSET ModelSlots :
       /\ EvictIdleUntilFits(models, r, victims)
       /\ RefusalReason(EvictSlots(models, victims), r) = "none"

(***************************************************************************)
(* Niceness orders jobs: whatever is in the table, a job that is admitted  *)
(* would also be admitted with a lower niceness.  The three niceness       *)
(* thresholds of admit_model_job are tested in different branches.         *)
(***************************************************************************)
LowerNicenessIsNoWorse ==
  \A r, s \in Requests :
    (/\ r.name = s.name /\ r.ram = s.ram /\ r.vram = s.vram
     /\ r.niceness <= s.niceness
     /\ Admissible(s))
    => Admissible(r)

(***************************************************************************)
(* A refused job leaves the caller's record in the queue, and it takes the *)
(* place of another record only when every slot is taken.                  *)
(***************************************************************************)
RefusalIsQueued ==
  [][ \A c \in Callers, r \in Requests :
        AdmitModelJob(c, r, FALSE) =>
          /\ \E k \in QueueSlots :
               queue'[k] # Empty /\ queue'[k].caller = c /\ queue'[k].name = r.name
          /\ (\E k \in QueueSlots : queue[k] # Empty /\ queue'[k] # queue[k])
               => \A k \in QueueSlots : queue[k] # Empty ]_svars

(***************************************************************************)
(* In every reachable table and for every job, evict_idle_until_fits       *)
(* clears exactly the slots that EvictIdleUntilFits describes, and it      *)
(* describes one set of slots: the loop has ended, with the job fitting or *)
(* no idle model left, before it has gone over the table once too often.   *)
(***************************************************************************)
EvictionMatchesLoop ==
  \A r \in Requests :
    /\ \E victims \in SUBSET ModelSlots : EvictIdleUntilFits(models, r, victims)
    /\ \A victims \in SUBSET ModelSlots :
         EvictIdleUntilFits(models, r, victims)
           <=> /\ victims \subseteq Loaded(models)
               /\ EvictSlots(models, victims) = EvictLoop(models, r)

-----------------------------------------------------------------------------
(* Scheduler implements ModelCache: the entry of a name is its record.     *)

CachedNames == {models[i].name : i \in Loaded(models)}
RecordOf(n) == models[CHOOSE i \in Loaded(models) : models[i].name = n]

Cache == INSTANCE ModelCache
  WITH Capacity <- MaxModels,
       cache <- [n \in CachedNames |->
                   [pid |-> RecordOf(n).pid, refcount |-> RecordOf(n).refcount]]

(***************************************************************************)
(* Every operation on the table of slots is one step, or no step, of the   *)
(* cache: admission only sheds idle models, mark_model_loaded takes an     *)
(* entry or fails for lack of room, a release of a model that is not in    *)
(* use changes nothing, evict_model drops one model.                       *)
(***************************************************************************)
ImplementsCache == Cache!CacheSpec
=============================================================================
