--------------------------- MODULE SchedulerProofs ---------------------------
(***************************************************************************)
(* Proofs about Scheduler, for any number of slots, names, callers and     *)
(* backends and any set of requests.                                       *)
(***************************************************************************)
EXTENDS Scheduler, FiniteSetTheorems, WellFoundedInduction, TLAPS

-----------------------------------------------------------------------------
(* What the operations do to the table of models.                          *)

LEMMA EvictSlotsType ==
  ASSUME NEW m \in [ModelSlots -> ModelRecord \cup {Empty}], NEW S
  PROVE  /\ EvictSlots(m, S) \in [ModelSlots -> ModelRecord \cup {Empty}]
         /\ Loaded(EvictSlots(m, S)) = Loaded(m) \ S
         /\ \A i \in Loaded(m) \ S : EvictSlots(m, S)[i] = m[i]
BY SchedulerAssumption DEF EvictSlots, Loaded

LEMMA QueueTyped ==
  ASSUME queue \in [QueueSlots -> QueueRecord \cup {Empty}],
         NEW item \in QueueRecord,
         AddQueueItemLocked(item)
  PROVE  queue' \in [QueueSlots -> QueueRecord \cup {Empty}]
BY DEF AddQueueItemLocked

LEMMA LoadedRecord ==
  ASSUME TypeOK, NEW i \in Loaded(models)
  PROVE  i \in ModelSlots /\ models[i] \in ModelRecord
BY DEF TypeOK, Loaded

LEMMA UpdatedRecords ==
  ASSUME TypeOK, NEW i \in Loaded(models), NEW pid \in Pids
  PROVE  Taken(models[i], pid) \in ModelRecord /\ Released(models[i]) \in ModelRecord
BY LoadedRecord DEF Taken, Released, ModelRecord, TypeOK

-----------------------------------------------------------------------------
(* Type correctness, one step per operation.                               *)

LEMMA AdmitTyped ==
  ASSUME TypeOK, NEW c \in Callers, NEW r \in Requests, NEW allowed \in BOOLEAN,
         AdmitModelJob(c, r, allowed)
  PROVE  TypeOK'
<1>r. r \in Request
  BY SchedulerAssumption
<1>1. CASE AdmitLoadedModel(r)
  <2>1. PICK i \in ModelSlots :
          /\ IsFirst(i, SlotsNamed(models, r.name))
          /\ models' = [models EXCEPT ![i].last_used = now]
    BY <1>1 DEF AdmitLoadedModel
  <2>2. models[i] \in ModelRecord
    BY <2>1, LoadedRecord DEF IsFirst, SlotsNamed
  <2>3. models' \in [ModelSlots -> ModelRecord \cup {Empty}]
    BY <2>1, <2>2 DEF TypeOK, ModelRecord
  <2>. QED
    BY <1>1, <2>3 DEF AdmitLoadedModel, TypeOK, limits
<1>2. CASE AdmitNewModel(c, r, allowed)
  <2>1. PICK victims \in SUBSET ModelSlots :
          /\ EvictIdleUntilFits(models, r, victims)
          /\ models' = EvictSlots(models, victims)
          /\ Terminate(victims)
          /\ LET reason == RefusalReason(EvictSlots(models, victims), r)
             IN  /\ allowed = (reason = "none")
                 /\ IF allowed
                    THEN UNCHANGED queue
                    ELSE AddQueueItemLocked(
                           [caller |-> c, name |-> r.name,
                            niceness |-> r.niceness, reason |-> reason])
    BY <1>2 DEF AdmitNewModel
  <2>2. models' \in [ModelSlots -> ModelRecord \cup {Empty}]
    BY <2>1, EvictSlotsType DEF TypeOK
  <2>3. signalled' \subseteq Pids
    <3>1. \A i \in victims : i \in Loaded(models)
      BY <2>1 DEF EvictIdleUntilFits, IdleSlots
    <3>2. \A i \in victims : models[i].pid \in Pids
      BY <3>1, LoadedRecord DEF ModelRecord
    <3>. QED
      BY <2>1, <3>2 DEF Terminate, TypeOK
  <2>4. queue' \in [QueueSlots -> QueueRecord \cup {Empty}]
    <3>. DEFINE reason == RefusalReason(EvictSlots(models, victims), r)
                item == [caller |-> c, name |-> r.name,
                         niceness |-> r.niceness, reason |-> reason]
    <3>1. reason \in Reasons
      BY DEF RefusalReason, Reasons
    <3>2. item \in QueueRecord
      BY <3>1, <1>r DEF QueueRecord, Request
    <3>. HIDE DEF item
    <3>3. UNCHANGED queue \/ AddQueueItemLocked(item)
      BY <2>1 DEF item
    <3>. QED
      BY <3>2, <3>3, QueueTyped DEF TypeOK
  <2>. QED
    BY <1>2, <2>2, <2>3, <2>4 DEF AdmitNewModel, TypeOK, limits
<1>. QED
  BY <1>1, <1>2 DEF AdmitModelJob

LEMMA MarkLoadedTyped ==
  ASSUME TypeOK, NEW r \in Requests, NEW pid \in Pids, MarkModelLoaded(r, pid)
  PROVE  TypeOK'
<1>r. r \in Request
  BY SchedulerAssumption
<1>1. CASE MarkLoadedAgain(r, pid)
  <2>1. PICK i \in ModelSlots :
          /\ IsFirst(i, SlotsNamed(models, r.name))
          /\ models' = [models EXCEPT ![i] = Taken(models[i], pid)]
    BY <1>1 DEF MarkLoadedAgain
  <2>2. Taken(models[i], pid) \in ModelRecord
    BY <2>1, UpdatedRecords DEF IsFirst, SlotsNamed
  <2>3. models' \in [ModelSlots -> ModelRecord \cup {Empty}]
    BY <2>1, <2>2 DEF TypeOK
  <2>. QED
    BY <2>3 DEF MarkModelLoaded, TypeOK, limits
<1>2. CASE MarkLoadedNew(r, pid)
  <2>1. [name |-> r.name, ram |-> r.ram, vram |-> r.vram, pid |-> pid,
         refcount |-> 1, last_used |-> now] \in ModelRecord
    BY <1>r DEF ModelRecord, Request, TypeOK
  <2>2. models' \in [ModelSlots -> ModelRecord \cup {Empty}]
    BY <1>2, <2>1 DEF MarkLoadedNew, TypeOK
  <2>. QED
    BY <2>2 DEF MarkModelLoaded, TypeOK, limits
<1>3. CASE MarkLoadedNoSlot(r)
  BY <1>3 DEF MarkLoadedNoSlot, MarkModelLoaded, TypeOK, limits
<1>. QED
  BY <1>1, <1>2, <1>3 DEF MarkModelLoaded

LEMMA MarkUnloadedTyped ==
  ASSUME TypeOK, NEW name \in ModelNames, MarkModelUnloaded(name)
  PROVE  TypeOK'
<1>1. CASE SlotsNamed(models, name) = {}
  BY <1>1 DEF MarkModelUnloaded, TypeOK, limits
<1>2. CASE SlotsNamed(models, name) # {}
  <2>1. PICK i \in ModelSlots :
          /\ IsFirst(i, SlotsNamed(models, name))
          /\ models' = [models EXCEPT ![i] = Released(models[i])]
    BY <1>2 DEF MarkModelUnloaded
  <2>2. models[i] \in ModelRecord
    BY <2>1, LoadedRecord DEF IsFirst, SlotsNamed
  <2>3. Released(models[i]) \in ModelRecord
    BY <2>2 DEF TypeOK, ModelRecord, Released
  <2>4. models' \in [ModelSlots -> ModelRecord \cup {Empty}]
    BY <2>1, <2>3 DEF TypeOK
  <2>. QED
    BY <2>4 DEF MarkModelUnloaded, TypeOK, limits
<1>. QED
  BY <1>1, <1>2

LEMMA EvictTyped ==
  ASSUME TypeOK, NEW name \in ModelNames, EvictModel(name)
  PROVE  TypeOK'
<1>1. PICK S \in SUBSET ModelSlots :
        /\ \A i \in S : IsFirst(i, SlotsNamed(models, name))
        /\ models' = EvictSlots(models, S)
        /\ Terminate(S)
  BY DEF EvictModel
<1>2. models' \in [ModelSlots -> ModelRecord \cup {Empty}]
  BY <1>1, EvictSlotsType DEF TypeOK
<1>3. \A i \in S : models[i].pid \in Pids
  BY <1>1, LoadedRecord DEF IsFirst, SlotsNamed, ModelRecord
<1>. QED
  BY <1>1, <1>2, <1>3 DEF EvictModel, Terminate, TypeOK, limits

(***************************************************************************)
(* The operations of Next, in one place: what Inference also uses.         *)
(***************************************************************************)
LEMMA StepTyped == TypeOK /\ [Next]_svars => TypeOK'
<1>. SUFFICES ASSUME TypeOK, [Next]_svars PROVE TypeOK'
  OBVIOUS
<1>1. ASSUME NEW ram \in RamLimits, NEW vram \in VramLimits,
             ConfigureLimits(ram, vram)
      PROVE  TypeOK'
  BY <1>1, SchedulerAssumption DEF ConfigureLimits, TypeOK, tables
<1>2. ASSUME NEW c \in Callers, NEW r \in Requests,
             AddQueueItem([caller |-> c, name |-> r.name,
                           niceness |-> r.niceness, reason |-> "none"])
      PROVE  TypeOK'
  <2>1. [caller |-> c, name |-> r.name, niceness |-> r.niceness,
         reason |-> "none"] \in QueueRecord
    BY SchedulerAssumption DEF QueueRecord, Request, Reasons
  <2>2. queue' \in [QueueSlots -> QueueRecord \cup {Empty}]
    BY <1>2, <2>1, QueueTyped DEF AddQueueItem, TypeOK
  <2>. QED
    BY <1>2, <2>2 DEF AddQueueItem, TypeOK, limits
<1>3. CASE ReinitState
  BY <1>3 DEF ReinitState, TypeOK
<1>4. CASE Tick
  BY <1>4 DEF Tick, TypeOK, tables, limits
<1>5. CASE UNCHANGED svars
  BY <1>5 DEF svars, TypeOK
<1>. QED
  BY <1>1, <1>2, <1>3, <1>4, <1>5,
     AdmitTyped, MarkLoadedTyped, MarkUnloadedTyped, EvictTyped DEF Next

(***************************************************************************)
(* Whatever callers do, the tables hold zeroed slots and well-formed       *)
(* records: no operation of scheduler.c writes a record with a missing     *)
(* name or a negative reference count.                                     *)
(***************************************************************************)
THEOREM TypeCorrect == Spec => []TypeOK
<1>1. Init => TypeOK
  BY DEF Init, TypeOK
<1>. QED
  BY <1>1, StepTyped, PTL DEF Spec

-----------------------------------------------------------------------------
(* One record per model.                                                   *)

\* Every record was there before, under the same name.
NamesKept ==
  \A i \in Loaded(models)' : i \in Loaded(models) /\ models'[i].name = models[i].name

LEMMA NamesKeptUnique ==
  OneRecordPerModel /\ NamesKept => OneRecordPerModel'
BY DEF OneRecordPerModel, NamesKept

LEMMA EvictSlotsKeeps ==
  ASSUME TypeOK, NEW S, models' = EvictSlots(models, S)
  PROVE  NamesKept /\ Loaded(models)' = Loaded(models) \ S
<1>1. models \in [ModelSlots -> ModelRecord \cup {Empty}]
  BY DEF TypeOK
<1>. QED
  BY <1>1, EvictSlotsType DEF NamesKept, Loaded

LEMMA AdmitKeeps ==
  ASSUME TypeOK, NEW c, NEW r, NEW allowed, AdmitModelJob(c, r, allowed)
  PROVE  NamesKept
<1>1. CASE AdmitLoadedModel(r)
  <2>1. PICK i \in ModelSlots :
          /\ IsFirst(i, SlotsNamed(models, r.name))
          /\ models' = [models EXCEPT ![i].last_used = now]
    BY <1>1 DEF AdmitLoadedModel
  <2>2. i \in Loaded(models) /\ models[i] \in ModelRecord
    BY <2>1, LoadedRecord DEF IsFirst, SlotsNamed
  <2>. QED
    BY <2>1, <2>2, SchedulerAssumption DEF TypeOK, NamesKept, Loaded, ModelRecord
<1>2. CASE AdmitNewModel(c, r, allowed)
  BY <1>2, EvictSlotsKeeps DEF AdmitNewModel
<1>. QED
  BY <1>1, <1>2 DEF AdmitModelJob

LEMMA UnloadedKeeps ==
  ASSUME TypeOK, NEW name, MarkModelUnloaded(name)
  PROVE  NamesKept
<1>1. CASE SlotsNamed(models, name) = {}
  BY <1>1 DEF MarkModelUnloaded, NamesKept, Loaded
<1>2. CASE SlotsNamed(models, name) # {}
  <2>1. PICK i \in ModelSlots :
          /\ IsFirst(i, SlotsNamed(models, name))
          /\ models' = [models EXCEPT ![i] = Released(models[i])]
    BY <1>2 DEF MarkModelUnloaded
  <2>2. i \in Loaded(models)
    BY <2>1 DEF IsFirst, SlotsNamed
  <2>3. Released(models[i]).name = models[i].name
    BY DEF Released
  <2>. QED
    BY <2>1, <2>2, <2>3 DEF TypeOK, NamesKept, Loaded
<1>. QED
  BY <1>1, <1>2

LEMMA MarkLoadedUnique ==
  ASSUME TypeOK, OneRecordPerModel, NEW r, NEW pid, MarkModelLoaded(r, pid)
  PROVE  OneRecordPerModel'
<1>1. CASE MarkLoadedAgain(r, pid)
  <2>1. PICK i \in ModelSlots :
          /\ IsFirst(i, SlotsNamed(models, r.name))
          /\ models' = [models EXCEPT ![i] = Taken(models[i], pid)]
    BY <1>1 DEF MarkLoadedAgain
  <2>2. i \in Loaded(models)
    BY <2>1 DEF IsFirst, SlotsNamed
  <2>3. Taken(models[i], pid).name = models[i].name
    BY DEF Taken
  <2>4. NamesKept
    BY <2>1, <2>2, <2>3 DEF TypeOK, NamesKept, Loaded
  <2>. QED
    BY <2>4, NamesKeptUnique
<1>2. CASE MarkLoadedNew(r, pid)
  <2>. DEFINE rec == [name |-> r.name, ram |-> r.ram, vram |-> r.vram,
                      pid |-> pid, refcount |-> 1, last_used |-> now]
  <2>1. PICK i \in ModelSlots : models' = [models EXCEPT ![i] = rec]
    BY <1>2 DEF MarkLoadedNew
  <2>2. rec.name = r.name
    OBVIOUS
  <2>. HIDE DEF rec
  <2>3. \A j \in Loaded(models) : models[j].name # r.name
    BY <1>2 DEF MarkLoadedNew, SlotsNamed
  <2>4. models'[i] = rec /\ \A j \in ModelSlots \ {i} : models'[j] = models[j]
    BY <2>1 DEF TypeOK
  <2>5. \A j \in Loaded(models)' \ {i} : j \in Loaded(models) /\ models'[j] = models[j]
    BY <2>4 DEF Loaded
  <2>. QED
    BY <2>2, <2>3, <2>4, <2>5 DEF OneRecordPerModel
<1>3. CASE MarkLoadedNoSlot(r)
  BY <1>3 DEF MarkLoadedNoSlot, OneRecordPerModel, Loaded
<1>. QED
  BY <1>1, <1>2, <1>3 DEF MarkModelLoaded

LEMMA EvictKeeps ==
  ASSUME TypeOK, NEW name, EvictModel(name)
  PROVE  NamesKept
BY EvictSlotsKeeps DEF EvictModel

(***************************************************************************)
(* A model never has two records, for any number of slots: a second record *)
(* would need mark_model_loaded to miss the first one.                     *)
(***************************************************************************)
THEOREM UniqueRecords == Spec => []OneRecordPerModel
<1>1. Init => OneRecordPerModel
  BY DEF Init, OneRecordPerModel, Loaded
<1>2. TypeOK /\ OneRecordPerModel /\ [Next]_svars => OneRecordPerModel'
  <2>. SUFFICES ASSUME TypeOK, OneRecordPerModel, [Next]_svars
                PROVE  OneRecordPerModel'
    OBVIOUS
  <2>1. CASE UNCHANGED models
    BY <2>1 DEF OneRecordPerModel, Loaded
  <2>2. CASE ReinitState
    BY <2>2 DEF ReinitState, OneRecordPerModel, Loaded
  <2>. QED
    BY <2>1, <2>2, AdmitKeeps, UnloadedKeeps, EvictKeeps, MarkLoadedUnique,
       NamesKeptUnique
    DEF Next, ConfigureLimits, AddQueueItem, Tick, tables, svars
<1>. QED
  BY <1>1, <1>2, TypeCorrect, PTL DEF Spec

-----------------------------------------------------------------------------
(* Models in use.                                                          *)

LEMMA AdmissionKeepsUsed ==
  ASSUME TypeOK, NEW c, NEW r, NEW allowed, AdmitModelJob(c, r, allowed),
         NEW i \in Loaded(models), models[i].refcount > 0
  PROVE  i \in Loaded(models)'
<1>1. CASE AdmitLoadedModel(r)
  <2>1. PICK k \in ModelSlots :
          /\ IsFirst(k, SlotsNamed(models, r.name))
          /\ models' = [models EXCEPT ![k].last_used = now]
    BY <1>1 DEF AdmitLoadedModel
  <2>2. models[k] \in ModelRecord
    BY <2>1, LoadedRecord DEF IsFirst, SlotsNamed
  <2>3. [models[k] EXCEPT !.last_used = now] \in ModelRecord
    BY <2>2 DEF ModelRecord, TypeOK
  <2>. QED
    BY <2>1, <2>3, SchedulerAssumption DEF TypeOK, Loaded
<1>2. CASE AdmitNewModel(c, r, allowed)
  <2>1. PICK victims \in SUBSET ModelSlots :
          /\ EvictIdleUntilFits(models, r, victims)
          /\ models' = EvictSlots(models, victims)
    BY <1>2 DEF AdmitNewModel
  <2>2. i \notin victims
    BY <2>1 DEF EvictIdleUntilFits, IdleSlots
  <2>. QED
    BY <2>1, <2>2, EvictSlotsKeeps
<1>. QED
  BY <1>1, <1>2 DEF AdmitModelJob

LEMMA LoadedGrows ==
  ASSUME TypeOK, NEW r \in Requests, NEW pid \in Pids, MarkModelLoaded(r, pid)
  PROVE  Loaded(models) \subseteq Loaded(models)'
<1>1. CASE MarkLoadedAgain(r, pid)
  <2>1. PICK i \in ModelSlots :
          /\ IsFirst(i, SlotsNamed(models, r.name))
          /\ models' = [models EXCEPT ![i] = Taken(models[i], pid)]
    BY <1>1 DEF MarkLoadedAgain
  <2>2. Taken(models[i], pid) # Empty
    BY <2>1, UpdatedRecords, SchedulerAssumption DEF IsFirst, SlotsNamed
  <2>. QED
    BY <2>1, <2>2 DEF Loaded, TypeOK
<1>2. CASE MarkLoadedNew(r, pid)
  <2>. DEFINE rec == [name |-> r.name, ram |-> r.ram, vram |-> r.vram,
                      pid |-> pid, refcount |-> 1, last_used |-> now]
  <2>1. PICK i \in ModelSlots : /\ i \in FreeSlots(models)
                               /\ models' = [models EXCEPT ![i] = rec]
    BY <1>2 DEF MarkLoadedNew, IsFirst
  <2>. HIDE DEF rec
  <2>. QED
    BY <2>1 DEF Loaded, FreeSlots, TypeOK
<1>3. CASE MarkLoadedNoSlot(r)
  BY <1>3 DEF MarkLoadedNoSlot, Loaded
<1>. QED
  BY <1>1, <1>2, <1>3 DEF MarkModelLoaded

LEMMA UnloadedKeepsAll ==
  ASSUME TypeOK, NEW name, MarkModelUnloaded(name)
  PROVE  Loaded(models) \subseteq Loaded(models)'
<1>1. CASE SlotsNamed(models, name) = {}
  BY <1>1 DEF MarkModelUnloaded, Loaded
<1>2. CASE SlotsNamed(models, name) # {}
  <2>1. PICK i \in ModelSlots :
          /\ IsFirst(i, SlotsNamed(models, name))
          /\ models' = [models EXCEPT ![i] = Released(models[i])]
    BY <1>2 DEF MarkModelUnloaded
  <2>2. models[i].pid \in Pids
    BY <2>1, LoadedRecord DEF IsFirst, SlotsNamed, ModelRecord
  <2>3. Released(models[i]) # Empty
    BY <2>1, <2>2, UpdatedRecords, SchedulerAssumption DEF IsFirst, SlotsNamed
  <2>. QED
    BY <2>1, <2>3 DEF Loaded, TypeOK
<1>. QED
  BY <1>1, <1>2

(***************************************************************************)
(* A record with users survives every step but an explicit evict_model of  *)
(* that model and the loss of the file, for any table and any job: no      *)
(* memory pressure makes admit_model_job take a model from its users.      *)
(***************************************************************************)
THEOREM AdmissionSparesUsed == Spec => InUseSurvivesAdmission
<1>. DEFINE Spares ==
       \A i \in Loaded(models) :
         (models[i].refcount > 0 /\ models'[i] = Empty)
           => ReinitState \/ EvictModel(models[i].name)
<1>1. TypeOK /\ TypeOK' /\ [Next]_svars => [Spares]_svars
  <2>. SUFFICES ASSUME TypeOK, TypeOK', Next,
                       NEW i \in Loaded(models),
                       models[i].refcount > 0, models'[i] = Empty
                PROVE  ReinitState \/ EvictModel(models[i].name)
    OBVIOUS
  <2>0. i \notin Loaded(models)'
    BY DEF Loaded
  <2>1. ~UNCHANGED models
    BY <2>0 DEF Loaded
  <2>2. ASSUME NEW name \in ModelNames, EvictModel(name)
        PROVE  name = models[i].name
    <3>1. PICK S \in SUBSET ModelSlots :
            /\ \A k \in S : k \in SlotsNamed(models, name)
            /\ models' = EvictSlots(models, S)
      BY <2>2 DEF EvictModel, IsFirst
    <3>2. i \in S
      BY <3>1, <2>0, EvictSlotsKeeps
    <3>. QED
      BY <3>1, <3>2 DEF SlotsNamed
  <2>. QED
    BY <2>0, <2>1, <2>2, AdmissionKeepsUsed, LoadedGrows, UnloadedKeepsAll
    DEF Next, ConfigureLimits, AddQueueItem, Tick, tables
<1>. QED
  BY <1>1, TypeCorrect, PTL DEF Spec, InUseSurvivesAdmission

-----------------------------------------------------------------------------
(* Admission.                                                              *)

(***************************************************************************)
(* A job is never turned away for a lower niceness, in any table: the      *)
(* eviction does not look at niceness and each threshold is a lower bound. *)
(***************************************************************************)
THEOREM NicenessMonotone == Spec => []LowerNicenessIsNoWorse
<1>1. LowerNicenessIsNoWorse
  <2>. SUFFICES ASSUME NEW r \in Requests, NEW s \in Requests,
                       r.name = s.name, r.ram = s.ram, r.vram = s.vram,
                       r.niceness <= s.niceness,
                       NEW victims \in SUBSET ModelSlots,
                       EvictIdleUntilFits(models, s, victims),
                       RefusalReason(EvictSlots(models, victims), s) = "none"
                PROVE  /\ EvictIdleUntilFits(models, r, victims)
                       /\ RefusalReason(EvictSlots(models, victims), r) = "none"
    BY DEF LowerNicenessIsNoWorse, Admissible
  <2>1. \A S : HasCapacityFor(EvictSlots(models, S), r)
               <=> HasCapacityFor(EvictSlots(models, S), s)
    BY DEF HasCapacityFor
  <2>2. EvictIdleUntilFits(models, r, victims)
    BY <2>1 DEF EvictIdleUntilFits
  <2>3. r.niceness \in Int /\ s.niceness \in Int
    BY SchedulerAssumption DEF Request
  <2>4. \A m : InVramReserve(m, r) <=> InVramReserve(m, s)
    BY DEF InVramReserve
  <2>5. RefusalReason(EvictSlots(models, victims), r) = "none"
    BY <2>1, <2>3, <2>4 DEF RefusalReason
  <2>. QED
    BY <2>2, <2>5
<1>. QED
  BY <1>1, PTL

-----------------------------------------------------------------------------
(* Admission order and the queue.                                          *)

LEMMA AdmissionEvictsOldest ==
  ASSUME TypeOK, NEW c, NEW r, NEW allowed, AdmitModelJob(c, r, allowed),
         NEW i \in Loaded(models), NEW j \in Loaded(models),
         models'[i] = Empty, models'[j] # Empty, models[j].refcount = 0
  PROVE  models[i].last_used <= models[j].last_used
<1>0. /\ models[i] \in ModelRecord /\ models[j] \in ModelRecord
      /\ i \in ModelSlots /\ j \in ModelSlots
  BY LoadedRecord
<1>1. CASE AdmitLoadedModel(r)
  <2>1. PICK k \in ModelSlots :
          /\ IsFirst(k, SlotsNamed(models, r.name))
          /\ models' = [models EXCEPT ![k].last_used = now]
    BY <1>1 DEF AdmitLoadedModel
  <2>2. models[k] \in ModelRecord
    BY <2>1, LoadedRecord DEF IsFirst, SlotsNamed
  <2>3. [models[k] EXCEPT !.last_used = now] \in ModelRecord
    BY <2>2 DEF ModelRecord, TypeOK
  <2>. QED
    BY <1>0, <2>1, <2>3, SchedulerAssumption DEF TypeOK, Loaded
<1>2. CASE AdmitNewModel(c, r, allowed)
  <2>1. PICK victims \in SUBSET ModelSlots :
          /\ EvictIdleUntilFits(models, r, victims)
          /\ models' = EvictSlots(models, victims)
          /\ SlotsNamed(models, r.name) = {}
    BY <1>2 DEF AdmitNewModel
  <2>2. i \in victims /\ j \notin victims
    BY <2>1, <1>0 DEF EvictSlots, Loaded
  <2>3. j \in IdleSlots(models, r.name)
    BY <2>1 DEF IdleSlots, SlotsNamed
  <2>4. ~UsedBefore(models, j, i)
    BY <2>1, <2>2, <2>3 DEF EvictIdleUntilFits
  <2>. QED
    BY <2>4, <1>0 DEF UsedBefore, ModelRecord
<1>. QED
  BY <1>1, <1>2 DEF AdmitModelJob

(***************************************************************************)
(* Memory pressure takes the least recently used idle models first, in any *)
(* table: what find_lru_idle_model picks, pick after pick, is a prefix of  *)
(* the order of last use.                                                  *)
(***************************************************************************)
THEOREM AdmissionEvictsOldestFirst == Spec => EvictsOldestFirst
<1>. DEFINE OldestFirst ==
       \A i, j \in Loaded(models) :
         (/\ models'[i] = Empty
          /\ models'[j] # Empty
          /\ models[j].refcount = 0
          /\ \E c \in Callers, r \in Requests, allowed \in BOOLEAN :
               AdmitModelJob(c, r, allowed))
         => models[i].last_used <= models[j].last_used
<1>1. TypeOK => OldestFirst
  BY AdmissionEvictsOldest
<1>. QED
  BY <1>1, TypeCorrect, PTL DEF EvictsOldestFirst

LEMMA QueuedInPlace ==
  ASSUME queue \in [QueueSlots -> QueueRecord \cup {Empty}],
         NEW item, AddQueueItemLocked(item)
  PROVE  \E k \in QueueSlots :
           /\ queue'[k] = item
           /\ \A l \in QueueSlots \ {k} : queue'[l] = queue[l]
           /\ queue[k] # Empty => \A l \in QueueSlots : queue[l] # Empty
BY DEF AddQueueItemLocked, IsFirst

LEMMA RefusedIsQueued ==
  ASSUME TypeOK, NEW c \in Callers, NEW r \in Requests, AdmitModelJob(c, r, FALSE)
  PROVE  /\ \E k \in QueueSlots :
              queue'[k] # Empty /\ queue'[k].caller = c /\ queue'[k].name = r.name
         /\ (\E k \in QueueSlots : queue[k] # Empty /\ queue'[k] # queue[k])
              => \A k \in QueueSlots : queue[k] # Empty
<1>1. PICK reason \in Reasons :
        AddQueueItemLocked([caller |-> c, name |-> r.name,
                            niceness |-> r.niceness, reason |-> reason])
  <2>1. AdmitNewModel(c, r, FALSE)
    BY DEF AdmitModelJob
  <2>2. \A m : RefusalReason(m, r) \in Reasons
    BY DEF RefusalReason, Reasons
  <2>. QED
    BY <2>1, <2>2 DEF AdmitNewModel
<1>2. PICK item : item = [caller |-> c, name |-> r.name,
                          niceness |-> r.niceness, reason |-> reason]
  OBVIOUS
<1>3. item # Empty /\ item.caller = c /\ item.name = r.name
  BY <1>2, SchedulerAssumption DEF QueueRecord, Request
<1>4. AddQueueItemLocked(item)
  BY <1>1, <1>2
<1>5. PICK k \in QueueSlots :
        /\ queue'[k] = item
        /\ \A l \in QueueSlots \ {k} : queue'[l] = queue[l]
        /\ queue[k] # Empty => \A l \in QueueSlots : queue[l] # Empty
  BY <1>4, QueuedInPlace DEF TypeOK
<1>. QED
  BY <1>3, <1>5

(***************************************************************************)
(* A refused job is in the queue afterwards, under its caller's name, and  *)
(* another one was overwritten only because no slot was free, for a queue  *)
(* of any length.                                                          *)
(***************************************************************************)
THEOREM RefusalsAreQueued == Spec => RefusalIsQueued
<1>. DEFINE Queued ==
       \A c \in Callers, r \in Requests :
         AdmitModelJob(c, r, FALSE) =>
           /\ \E k \in QueueSlots :
                queue'[k] # Empty /\ queue'[k].caller = c /\ queue'[k].name = r.name
           /\ (\E k \in QueueSlots : queue[k] # Empty /\ queue'[k] # queue[k])
                => \A k \in QueueSlots : queue[k] # Empty
<1>1. TypeOK => Queued
  BY RefusedIsQueued
<1>. QED
  BY <1>1, TypeCorrect, PTL DEF RefusalIsQueued

-----------------------------------------------------------------------------
(* Scheduler implements ModelCache.                                        *)

\* The table as a cache, for any table: the mapping of Scheduler!Cache.
NamesIn(m) == {m[i].name : i \in Loaded(m)}
EntryOf(rec) == [pid |-> rec.pid, refcount |-> rec.refcount]
AsCache(m) ==
  [n \in NamesIn(m) |->
     [pid |-> m[CHOOSE i \in Loaded(m) : m[i].name = n].pid,
      refcount |-> m[CHOOSE i \in Loaded(m) : m[i].name = n].refcount]]

Table(m) ==
  /\ m \in [ModelSlots -> ModelRecord \cup {Empty}]
  /\ \A i, j \in Loaded(m) : m[i].name = m[j].name => i = j

\* With one record per name, the entry of a name is that of its record.
LEMMA AsCacheIs ==
  ASSUME NEW m, Table(m)
  PROVE  /\ DOMAIN AsCache(m) = NamesIn(m)
         /\ \A i \in Loaded(m) : m[i].name \in NamesIn(m) /\ AsCache(m)[m[i].name] = EntryOf(m[i])
<1>1. SUFFICES ASSUME NEW i \in Loaded(m)
               PROVE  AsCache(m)[m[i].name] = EntryOf(m[i])
  BY DEF AsCache, NamesIn
<1>2. (CHOOSE j \in Loaded(m) : m[j].name = m[i].name) = i
  BY DEF Table
<1>. QED
  BY <1>2 DEF AsCache, NamesIn, EntryOf

\* A function is the cache of a table if it has an entry for each record and
\* for nothing else.
LEMMA CacheEquals ==
  ASSUME NEW m, Table(m), NEW f, f = [x \in DOMAIN f |-> f[x]],
         \A n \in DOMAIN f : \E i \in Loaded(m) : m[i].name = n,
         \A i \in Loaded(m) : m[i].name \in DOMAIN f /\ f[m[i].name] = EntryOf(m[i])
  PROVE  AsCache(m) = f
<1>1. DOMAIN f = NamesIn(m)
  BY DEF NamesIn
<1>2. \A n \in NamesIn(m) : AsCache(m)[n] = f[n]
  BY AsCacheIs DEF NamesIn
<1>3. AsCache(m) = [n \in NamesIn(m) |-> AsCache(m)[n]]
  BY DEF AsCache
<1>. QED
  BY <1>1, <1>2, <1>3

LEMMA EntryFields ==
  ASSUME NEW rec
  PROVE  EntryOf(rec).pid = rec.pid /\ EntryOf(rec).refcount = rec.refcount
BY DEF EntryOf

LEMMA FreeSlotMeansRoom ==
  ASSUME NEW m, Table(m), FreeSlots(m) # {}
  PROVE  Cardinality(NamesIn(m)) < MaxModels
<1>. DEFINE f == [i \in Loaded(m) |-> m[i].name]
<1>1. IsFiniteSet(ModelSlots) /\ Cardinality(ModelSlots) = MaxModels
  BY FS_Interval, SchedulerAssumption DEF ModelSlots
<1>2. Loaded(m) \in SUBSET ModelSlots /\ Loaded(m) # ModelSlots
  BY DEF FreeSlots, Loaded
<1>3. /\ IsFiniteSet(Loaded(m)) /\ Cardinality(Loaded(m)) \in Nat
      /\ Cardinality(Loaded(m)) < MaxModels
  BY <1>1, <1>2, FS_Subset, FS_CardinalityType, SchedulerAssumption
<1>4. f \in Surjection(Loaded(m), NamesIn(m))
  BY DEF Surjection, NamesIn
<1>5. IsFiniteSet(NamesIn(m)) /\ Cardinality(NamesIn(m)) <= Cardinality(Loaded(m))
  BY <1>3, <1>4, FS_Surjection
<1>6. Cardinality(NamesIn(m)) \in Nat
  BY <1>5, FS_CardinalityType
<1>. QED
  BY <1>3, <1>5, <1>6, SchedulerAssumption

-----------------------------------------------------------------------------
(* The steps of the cache, on tables.                                      *)

LEMMA UpdateRefines ==
  ASSUME NEW m, NEW mm, Table(m), Table(mm), NEW i \in Loaded(m), NEW rec,
         mm[i] = rec, \A j \in ModelSlots \ {i} : mm[j] = m[j], rec # Empty, rec.name = m[i].name
  PROVE  AsCache(mm) = [AsCache(m) EXCEPT ![m[i].name] = EntryOf(rec)]
<1>1. /\ mm[i] = rec
      /\ \A j \in Loaded(m) \ {i} : mm[j] = m[j]
      /\ Loaded(mm) = Loaded(m)
      /\ \A j \in Loaded(m) : mm[j].name = m[j].name
  BY DEF Table, Loaded
<1>2. PICK f : f = [AsCache(m) EXCEPT ![m[i].name] = EntryOf(rec)]
  OBVIOUS
<1>3. f = [x \in DOMAIN f |-> f[x]] /\ DOMAIN f = NamesIn(m)
  BY <1>2, AsCacheIs
<1>4. \A j \in Loaded(m) : f[m[j].name] = EntryOf(mm[j])
  BY <1>1, <1>2, AsCacheIs DEF Table
<1>5. \A j \in Loaded(mm) : mm[j].name \in DOMAIN f /\ f[mm[j].name] = EntryOf(mm[j])
  BY <1>1, <1>3, <1>4 DEF NamesIn
<1>6. \A n \in DOMAIN f : \E j \in Loaded(mm) : mm[j].name = n
  BY <1>1, <1>3 DEF NamesIn
<1>7. AsCache(mm) = f
  BY <1>3, <1>5, <1>6, CacheEquals
<1>. QED
  BY <1>2, <1>7

LEMMA AddRefines ==
  ASSUME NEW m, NEW mm, Table(m), Table(mm), NEW i \in FreeSlots(m), NEW rec,
         mm[i] = rec, \A j \in ModelSlots \ {i} : mm[j] = m[j],
         rec # Empty, rec.name \notin NamesIn(m)
  PROVE  AsCache(mm) = [n \in NamesIn(m) \cup {rec.name} |->
                          IF n = rec.name THEN EntryOf(rec) ELSE AsCache(m)[n]]
<1>1. /\ mm[i] = rec
      /\ \A j \in Loaded(m) : mm[j] = m[j]
      /\ Loaded(mm) = Loaded(m) \cup {i}
  BY DEF Table, Loaded, FreeSlots
<1>2. PICK f : f = [n \in NamesIn(m) \cup {rec.name} |->
                      IF n = rec.name THEN EntryOf(rec) ELSE AsCache(m)[n]]
  OBVIOUS
<1>3. f = [x \in DOMAIN f |-> f[x]] /\ DOMAIN f = NamesIn(m) \cup {rec.name}
  BY <1>2
<1>4. f[rec.name] = EntryOf(rec) /\ \A j \in Loaded(m) : f[m[j].name] = EntryOf(m[j])
  BY <1>1, <1>2, AsCacheIs
<1>5. \A j \in Loaded(mm) : mm[j].name \in DOMAIN f /\ f[mm[j].name] = EntryOf(mm[j])
  BY <1>1, <1>3, <1>4 DEF NamesIn
<1>6. ASSUME NEW n \in DOMAIN f PROVE \E j \in Loaded(mm) : mm[j].name = n
  <2>1. CASE n = rec.name
    BY <2>1, <1>1
  <2>2. CASE n # rec.name
    <3>1. PICK j \in Loaded(m) : m[j].name = n
      BY <2>2, <1>3 DEF NamesIn
    <3>. QED
      BY <3>1, <1>1
  <2>. QED
    BY <2>1, <2>2
<1>7. AsCache(mm) = f
  BY <1>3, <1>5, <1>6, CacheEquals
<1>. QED
  BY <1>2, <1>7

LEMMA EvictRefines ==
  ASSUME NEW m, Table(m), NEW S, S \subseteq Loaded(m)
  PROVE  AsCache(EvictSlots(m, S)) =
           [n \in NamesIn(m) \ {m[i].name : i \in S} |-> AsCache(m)[n]]
<1>. DEFINE gone == {m[i].name : i \in S}
<1>1. PICK mm : mm = EvictSlots(m, S)
  OBVIOUS
<1>2. /\ mm \in [ModelSlots -> ModelRecord \cup {Empty}]
      /\ Loaded(mm) = Loaded(m) \ S
      /\ \A i \in Loaded(mm) : mm[i] = m[i]
  BY <1>1, EvictSlotsType DEF Table
<1>3. Table(mm)
  BY <1>2 DEF Table
<1>4. \A i \in Loaded(m) : m[i].name \in gone <=> i \in S
  BY DEF Table
<1>5. PICK f : f = [n \in NamesIn(m) \ gone |-> AsCache(m)[n]]
  OBVIOUS
<1>6. f = [x \in DOMAIN f |-> f[x]] /\ DOMAIN f = NamesIn(m) \ gone
  BY <1>5
<1>7. \A j \in Loaded(mm) : mm[j].name \in DOMAIN f
  BY <1>2, <1>4, <1>6 DEF NamesIn
<1>8. \A j \in Loaded(mm) : f[mm[j].name] = EntryOf(mm[j])
  BY <1>2, <1>5, <1>6, <1>7, AsCacheIs
<1>9. \A n \in DOMAIN f : \E j \in Loaded(mm) : mm[j].name = n
  BY <1>2, <1>4, <1>6 DEF NamesIn
<1>. QED
  BY <1>1, <1>3, <1>5, <1>6, <1>7, <1>8, <1>9, CacheEquals

\* A step that keeps every pid and count is no step of the cache.
LEMMA SameRefines ==
  ASSUME NEW m, NEW mm, Table(m), Table(mm), Loaded(mm) = Loaded(m),
         \A i \in Loaded(m) : /\ mm[i].name = m[i].name /\ mm[i].pid = m[i].pid
                              /\ mm[i].refcount = m[i].refcount
  PROVE  AsCache(mm) = AsCache(m)
<1>1. PICK f : f = AsCache(m)
  OBVIOUS
<1>2. f = [x \in DOMAIN f |-> f[x]] /\ DOMAIN f = NamesIn(m)
  BY <1>1, AsCacheIs DEF AsCache
<1>e. \A j \in Loaded(m) : EntryOf(mm[j]) = EntryOf(m[j])
  BY DEF EntryOf
<1>3. \A j \in Loaded(mm) : mm[j].name \in DOMAIN f /\ f[mm[j].name] = EntryOf(mm[j])
  BY <1>1, <1>2, <1>e, AsCacheIs
<1>4. \A n \in DOMAIN f : \E j \in Loaded(mm) : mm[j].name = n
  BY <1>2 DEF NamesIn
<1>. QED
  BY <1>1, <1>2, <1>3, <1>4, CacheEquals

LEMMA EmptyCache ==
  ASSUME NEW m, m = [i \in ModelSlots |-> Empty]
  PROVE  AsCache(m) = << >>
<1>1. Loaded(m) = {}
  BY DEF Loaded
<1>2. NamesIn(m) = {}
  BY <1>1 DEF NamesIn
<1>. QED
  BY <1>2 DEF AsCache

-----------------------------------------------------------------------------
(* The actions of Scheduler.                                               *)

\* The state of ModelCache that the mapping gives, and the one after a step.
LEMMA Mapped ==
  /\ [n \in CachedNames |-> [pid |-> RecordOf(n).pid, refcount |-> RecordOf(n).refcount]]
       = AsCache(models)
  /\ [n \in CachedNames |-> [pid |-> RecordOf(n).pid, refcount |-> RecordOf(n).refcount]]'
       = AsCache(models')
BY DEF AsCache, NamesIn, CachedNames, RecordOf

LEMMA TakeAgainStep ==
  ASSUME NEW n \in ModelNames, NEW pid \in Pids, n \in DOMAIN AsCache(models),
         AsCache(models') = [AsCache(models) EXCEPT ![n] =
                               [pid |-> pid, refcount |-> AsCache(models)[n].refcount + 1]]
  PROVE  Cache!CacheNext
<1>1. Cache!Take(n, pid)
  BY Mapped DEF Cache!Take, Cache!Cached
<1>. QED
  BY <1>1 DEF Cache!CacheNext

LEMMA SameCardinality == \A S : Cache!Cardinality(S) = Cardinality(S)
BY Zenon DEF Cache!Cardinality, Cardinality

LEMMA TakeNewStep ==
  ASSUME NEW n \in ModelNames, NEW pid \in Pids, n \notin DOMAIN AsCache(models),
         Cardinality(DOMAIN AsCache(models)) < MaxModels,
         AsCache(models') = [x \in DOMAIN AsCache(models) \cup {n} |->
                               IF x = n THEN [pid |-> pid, refcount |-> 1]
                               ELSE AsCache(models)[x]]
  PROVE  Cache!CacheNext
<1>1. Cache!Take(n, pid)
  BY Mapped, SameCardinality DEF Cache!Take, Cache!Cached
<1>. QED
  BY <1>1 DEF Cache!CacheNext

LEMMA GiveBackStep ==
  ASSUME NEW n \in ModelNames, n \in DOMAIN AsCache(models),
         AsCache(models)[n].refcount > 0,
         AsCache(models') = [AsCache(models) EXCEPT ![n].refcount = @ - 1]
  PROVE  Cache!CacheNext
<1>1. Cache!GiveBack(n)
  BY Mapped DEF Cache!GiveBack, Cache!Cached
<1>. QED
  BY <1>1 DEF Cache!CacheNext

LEMMA ShedStep ==
  ASSUME NEW S \in SUBSET ModelNames, S \subseteq DOMAIN AsCache(models),
         \A n \in S : AsCache(models)[n].refcount = 0,
         AsCache(models') = [x \in DOMAIN AsCache(models) \ S |-> AsCache(models)[x]]
  PROVE  Cache!CacheNext
<1>1. Cache!Shed(S)
  BY Mapped DEF Cache!Shed, Cache!Cached, Cache!Without
<1>. QED
  BY <1>1 DEF Cache!CacheNext

LEMMA DropStep ==
  ASSUME NEW n \in ModelNames, n \in DOMAIN AsCache(models),
         AsCache(models') = [x \in DOMAIN AsCache(models) \ {n} |-> AsCache(models)[x]]
  PROVE  Cache!CacheNext
<1>1. Cache!Drop(n)
  BY Mapped DEF Cache!Drop, Cache!Cached, Cache!Without
<1>. QED
  BY <1>1 DEF Cache!CacheNext

LEMMA ClearStep ==
  ASSUME AsCache(models') = << >>
  PROVE  Cache!CacheNext
<1>1. Cache!Clear
  BY Mapped DEF Cache!Clear
<1>. QED
  BY <1>1 DEF Cache!CacheNext

-----------------------------------------------------------------------------
(* The operations of Scheduler, each a step of the cache or no step.       *)

SameCache == AsCache(models') = AsCache(models)

LEMMA AdmitRefines ==
  ASSUME TypeOK, Table(models), Table(models'), NEW c, NEW r, NEW allowed,
         AdmitModelJob(c, r, allowed)
  PROVE  Cache!CacheNext \/ SameCache
<1>1. CASE AdmitLoadedModel(r)
  <2>1. PICK i \in ModelSlots :
          /\ IsFirst(i, SlotsNamed(models, r.name))
          /\ models' = [models EXCEPT ![i].last_used = now]
    BY <1>1 DEF AdmitLoadedModel
  <2>2. i \in Loaded(models) /\ models[i] \in ModelRecord
    BY <2>1, LoadedRecord DEF IsFirst, SlotsNamed
  <2>3. PICK rec : rec = [models[i] EXCEPT !.last_used = now]
    OBVIOUS
  <2>4. /\ rec \in ModelRecord
        /\ rec.name = models[i].name /\ rec.pid = models[i].pid
        /\ rec.refcount = models[i].refcount
    BY <2>2, <2>3 DEF ModelRecord, TypeOK
  <2>5. models'[i] = rec /\ \A j \in ModelSlots \ {i} : models'[j] = models[j]
    BY <2>1, <2>3 DEF TypeOK
  <2>6. /\ Loaded(models') = Loaded(models)
        /\ \A j \in Loaded(models) :
             /\ models'[j].name = models[j].name /\ models'[j].pid = models[j].pid
             /\ models'[j].refcount = models[j].refcount
    BY <2>2, <2>4, <2>5, SchedulerAssumption DEF Loaded
  <2>. QED
    BY <2>6, SameRefines DEF SameCache
<1>2. CASE AdmitNewModel(c, r, allowed)
  <2>1. PICK victims \in SUBSET ModelSlots :
          /\ EvictIdleUntilFits(models, r, victims)
          /\ models' = EvictSlots(models, victims)
    BY <1>2 DEF AdmitNewModel
  <2>2. victims \subseteq Loaded(models) /\ \A i \in victims : models[i].refcount = 0
    BY <2>1 DEF EvictIdleUntilFits, IdleSlots
  <2>. DEFINE gone == {models[i].name : i \in victims}
  <2>d. DOMAIN AsCache(models) = NamesIn(models)
    BY AsCacheIs
  <2>3. AsCache(EvictSlots(models, victims)) = [n \in NamesIn(models) \ gone |-> AsCache(models)[n]]
    BY <2>2, EvictRefines
  <2>4. gone \subseteq DOMAIN AsCache(models) /\ gone \in SUBSET ModelNames
    <3>1. \A i \in victims : models[i].name \in NamesIn(models)
      BY <2>2 DEF NamesIn
    <3>2. \A i \in victims : models[i].name \in ModelNames
      BY <2>2, LoadedRecord DEF ModelRecord
    <3>. QED
      BY <3>1, <3>2, <2>d
  <2>5. \A n \in gone : AsCache(models)[n].refcount = 0
    BY <2>2, AsCacheIs, EntryFields
  <2>. HIDE DEF gone
  <2>. QED
    BY <2>1, <2>d, <2>3, <2>4, <2>5, ShedStep
<1>. QED
  BY <1>1, <1>2 DEF AdmitModelJob

LEMMA LoadRefines ==
  ASSUME TypeOK, Table(models), Table(models'), NEW r \in Requests, NEW pid \in Pids,
         MarkModelLoaded(r, pid)
  PROVE  Cache!CacheNext \/ SameCache
<1>r. r.name \in ModelNames
  BY SchedulerAssumption DEF Request
<1>1. CASE MarkLoadedAgain(r, pid)
  <2>1. PICK i \in ModelSlots :
          /\ IsFirst(i, SlotsNamed(models, r.name))
          /\ models' = [models EXCEPT ![i] = Taken(models[i], pid)]
    BY <1>1 DEF MarkLoadedAgain
  <2>2. i \in Loaded(models) /\ models[i].name = r.name
    BY <2>1 DEF IsFirst, SlotsNamed
  <2>3. PICK rec : rec = Taken(models[i], pid)
    OBVIOUS
  <2>4. rec # Empty
    BY <2>2, <2>3, UpdatedRecords, SchedulerAssumption
  <2>5. rec.name = models[i].name /\ rec.pid = pid /\ rec.refcount = models[i].refcount + 1
    BY <2>3 DEF Taken
  <2>6. models'[i] = rec /\ \A j \in ModelSlots \ {i} : models'[j] = models[j]
    BY <2>1, <2>3 DEF TypeOK
  <2>7. AsCache(models') = [AsCache(models) EXCEPT ![models[i].name] = EntryOf(rec)]
    BY <2>2, <2>4, <2>5, <2>6, UpdateRefines
  <2>8. /\ r.name \in DOMAIN AsCache(models)
        /\ AsCache(models)[r.name].refcount = models[i].refcount
    BY <2>2, AsCacheIs, EntryFields
  <2>9. EntryOf(rec) = [pid |-> pid, refcount |-> AsCache(models)[r.name].refcount + 1]
    BY <2>5, <2>8 DEF EntryOf
  <2>. QED
    BY <1>r, <2>2, <2>7, <2>8, <2>9, TakeAgainStep
<1>2. CASE MarkLoadedNew(r, pid)
  <2>1. PICK rec : rec = [name |-> r.name, ram |-> r.ram, vram |-> r.vram,
                          pid |-> pid, refcount |-> 1, last_used |-> now]
    OBVIOUS
  <2>2. PICK i \in FreeSlots(models) : models' = [models EXCEPT ![i] = rec]
    BY <1>2, <2>1 DEF MarkLoadedNew, IsFirst
  <2>3. rec \in ModelRecord /\ rec.name = r.name /\ rec.pid = pid /\ rec.refcount = 1
    BY <2>1, SchedulerAssumption DEF ModelRecord, Request, TypeOK
  <2>4. r.name \notin NamesIn(models)
    BY <1>2 DEF MarkLoadedNew, SlotsNamed, NamesIn
  <2>5. models'[i] = rec /\ \A j \in ModelSlots \ {i} : models'[j] = models[j]
    BY <2>2 DEF TypeOK, FreeSlots
  <2>6. rec # Empty
    BY <2>3, SchedulerAssumption
  <2>7. AsCache(models') = [n \in NamesIn(models) \cup {rec.name} |->
                              IF n = rec.name THEN EntryOf(rec) ELSE AsCache(models)[n]]
    BY <2>3, <2>4, <2>5, <2>6, AddRefines
  <2>8. EntryOf(rec) = [pid |-> pid, refcount |-> 1]
    BY <2>3 DEF EntryOf
  <2>9. DOMAIN AsCache(models) = NamesIn(models)
    BY AsCacheIs
  <2>10. Cardinality(NamesIn(models)) < MaxModels
    BY <2>2, FreeSlotMeansRoom
  <2>. QED
    BY <1>r, <2>3, <2>4, <2>7, <2>8, <2>9, <2>10, TakeNewStep
<1>3. CASE MarkLoadedNoSlot(r)
  BY <1>3 DEF MarkLoadedNoSlot, SameCache
<1>. QED
  BY <1>1, <1>2, <1>3 DEF MarkModelLoaded

LEMMA UnloadRefines ==
  ASSUME TypeOK, Table(models), Table(models'), NEW name \in ModelNames,
         MarkModelUnloaded(name)
  PROVE  Cache!CacheNext \/ SameCache
<1>1. CASE SlotsNamed(models, name) = {}
  BY <1>1 DEF MarkModelUnloaded, SameCache
<1>2. CASE SlotsNamed(models, name) # {}
  <2>1. PICK i \in ModelSlots :
          /\ IsFirst(i, SlotsNamed(models, name))
          /\ models' = [models EXCEPT ![i] = Released(models[i])]
    BY <1>2 DEF MarkModelUnloaded
  <2>2. i \in Loaded(models) /\ models[i].name = name /\ models[i] \in ModelRecord
    BY <2>1, LoadedRecord DEF IsFirst, SlotsNamed
  <2>3. PICK rec : rec = Released(models[i])
    OBVIOUS
  <2>4. /\ rec # Empty /\ rec.name = models[i].name /\ rec.pid = models[i].pid
        /\ rec.refcount = IF models[i].refcount > 0 THEN models[i].refcount - 1 ELSE 0
    <3>1. rec \in ModelRecord
      BY <2>2, <2>3 DEF Released, ModelRecord, TypeOK
    <3>. QED
      BY <3>1, <2>3, SchedulerAssumption DEF Released
  <2>5. models'[i] = rec /\ \A j \in ModelSlots \ {i} : models'[j] = models[j]
    BY <2>1, <2>3 DEF TypeOK
  <2>6. models[i].refcount \in Nat
    BY <2>2 DEF ModelRecord
  <2>7. CASE models[i].refcount = 0
    <3>1. rec.refcount = models[i].refcount
      BY <2>4, <2>7
    <3>2. /\ Loaded(models') = Loaded(models)
          /\ \A j \in Loaded(models) :
               /\ models'[j].name = models[j].name /\ models'[j].pid = models[j].pid
               /\ models'[j].refcount = models[j].refcount
      BY <2>2, <2>4, <2>5, <3>1 DEF Loaded
    <3>. QED
      BY <3>2, SameRefines DEF SameCache
  <2>8. CASE models[i].refcount > 0
    <3>1. AsCache(models') = [AsCache(models) EXCEPT ![models[i].name] = EntryOf(rec)]
      BY <2>2, <2>4, <2>5, UpdateRefines
    <3>2. /\ name \in DOMAIN AsCache(models)
          /\ AsCache(models)[name] = [pid |-> models[i].pid, refcount |-> models[i].refcount]
      BY <2>2, AsCacheIs DEF EntryOf
    <3>3. EntryOf(rec) = [AsCache(models)[name] EXCEPT !.refcount = @ - 1]
      BY <2>4, <2>8, <3>2 DEF EntryOf
    <3>4. AsCache(models') = [AsCache(models) EXCEPT ![name].refcount = @ - 1]
      BY <2>2, <3>1, <3>2, <3>3
    <3>5. AsCache(models)[name].refcount > 0
      BY <2>8, <3>2
    <3>. QED
      BY <3>2, <3>4, <3>5, GiveBackStep
  <2>. QED
    BY <2>6, <2>7, <2>8
<1>. QED
  BY <1>1, <1>2

LEMMA EvictModelRefines ==
  ASSUME TypeOK, Table(models), NEW name \in ModelNames, EvictModel(name)
  PROVE  Cache!CacheNext \/ SameCache
<1>1. PICK S \in SUBSET ModelSlots :
        /\ IF SlotsNamed(models, name) = {}
           THEN S = {}
           ELSE \E i \in ModelSlots : IsFirst(i, SlotsNamed(models, name)) /\ S = {i}
        /\ models' = EvictSlots(models, S)
  BY DEF EvictModel
<1>2. S \subseteq Loaded(models)
  BY <1>1 DEF IsFirst, SlotsNamed
<1>. DEFINE gone == {models[i].name : i \in S}
<1>d. DOMAIN AsCache(models) = NamesIn(models)
  BY AsCacheIs
<1>e. AsCache(EvictSlots(models, S)) = [n \in NamesIn(models) \ gone |-> AsCache(models)[n]]
  BY <1>2, EvictRefines
<1>3. AsCache(models') = [n \in DOMAIN AsCache(models) \ gone |-> AsCache(models)[n]]
  BY <1>1, <1>d, <1>e
<1>4. CASE SlotsNamed(models, name) = {}
  <2>1. gone = {}
    BY <1>1, <1>4
  <2>. HIDE DEF gone
  <2>2. AsCache(models) = [n \in DOMAIN AsCache(models) |-> AsCache(models)[n]]
    BY DEF AsCache
  <2>. QED
    BY <1>3, <2>1, <2>2 DEF SameCache
<1>5. CASE SlotsNamed(models, name) # {}
  <2>1. PICK i \in SlotsNamed(models, name) : S = {i}
    BY <1>1, <1>5 DEF IsFirst
  <2>2. gone = {name}
    BY <2>1 DEF SlotsNamed
  <2>3. name \in DOMAIN AsCache(models)
    BY <2>1, AsCacheIs DEF SlotsNamed
  <2>. HIDE DEF gone
  <2>. QED
    BY <1>3, <2>2, <2>3, DropStep
<1>. QED
  BY <1>4, <1>5

(***************************************************************************)
(* The scheduler's table, for any number of slots, is the cache that       *)
(* ModelCache specifies: the file begins as an empty cache, and every call *)
(* of scheduler.c is one step of the cache or leaves it as it is.          *)
(***************************************************************************)
THEOREM SchedulerIsACache == Spec => ImplementsCache
<1>1. Init => Cache!CacheInit
  BY EmptyCache, Mapped DEF Init, Cache!CacheInit
<1>2. /\ TypeOK /\ TypeOK' /\ OneRecordPerModel /\ OneRecordPerModel' /\ [Next]_svars
      => [Cache!CacheNext]_[n \in CachedNames |->
            [pid |-> RecordOf(n).pid, refcount |-> RecordOf(n).refcount]]
  <2>. SUFFICES ASSUME TypeOK, TypeOK', OneRecordPerModel, OneRecordPerModel',
                       [Next]_svars
                PROVE  Cache!CacheNext \/ SameCache
    BY Mapped DEF SameCache
  <2>1. Table(models) /\ Table(models')
    BY DEF Table, TypeOK, OneRecordPerModel
  <2>2. CASE UNCHANGED models
    BY <2>2 DEF SameCache
  <2>3. CASE ReinitState
    BY <2>3, EmptyCache, ClearStep DEF ReinitState
  <2>. QED
    BY <2>1, <2>2, <2>3, AdmitRefines, LoadRefines, UnloadRefines, EvictModelRefines
    DEF Next, ConfigureLimits, AddQueueItem, Tick, tables, svars
<1>. QED
  BY <1>1, <1>2, TypeCorrect, UniqueRecords, PTL DEF Spec, ImplementsCache, Cache!CacheSpec

-----------------------------------------------------------------------------
(* Induction, as the absence of a least counterexample, and loops.         *)

LEMMA LeastOf ==
  ASSUME NEW S \in SUBSET Nat, S # {}
  PROVE  \E x \in S : \A y \in S : x <= y
<1>1. PICK x \in S : \A y \in S : ~(<<y, x>> \in OpToRel(<, Nat))
  BY NatLessThanWellFounded, WFMin, Zenon
<1>2. \A y \in S : ~(y < x)
  BY <1>1 DEF OpToRel
<1>. QED
  BY <1>2

LEMMA NoneLeast ==
  ASSUME NEW T \in SUBSET Nat, \A n \in T : n # 0 /\ n - 1 \in T
  PROVE  T = {}
<1>. SUFFICES ASSUME T # {} PROVE FALSE
  OBVIOUS
<1>1. PICK n \in T : \A k \in T : n <= k
  BY LeastOf
<1>. QED
  BY <1>1

\* g is what a loop goes through: a before it, then step after step.
Iterates(n, S, a, step, g) ==
  /\ g \in [0..n -> S]
  /\ g[0] = a
  /\ \A i \in 1..n : g[i] = step[i][g[i - 1]]

LEMMA IteratesStart ==
  ASSUME NEW S, NEW a \in S, NEW step
  PROVE  \E g : Iterates(0, S, a, step, g)
<1>. DEFINE g == [i \in 0..0 |-> a]
<1>1. g \in [0..0 -> S] /\ g[0] = a
  OBVIOUS
<1>2. \A i \in 1..0 : FALSE
  OBVIOUS
<1>. HIDE DEF g
<1>. QED
  BY <1>1, <1>2 DEF Iterates

LEMMA IteratesOn ==
  ASSUME NEW N \in Nat, NEW S, NEW a \in S, NEW step \in [1..N -> [S -> S]],
         NEW n \in 1..N, NEW g, Iterates(n - 1, S, a, step, g)
  PROVE  \E h : Iterates(n, S, a, step, h)
<1>0. n \in Nat /\ n # 0 /\ n - 1 \in 0..(n - 1) /\ step[n] \in [S -> S]
  OBVIOUS
<1>1. /\ g \in [0..(n - 1) -> S] /\ g[0] = a
      /\ \A i \in 1..(n - 1) : g[i] = step[i][g[i - 1]]
  BY DEF Iterates
<1>2. PICK x \in S : x = step[n][g[n - 1]]
  BY <1>0, <1>1
<1>. DEFINE h == [i \in 0..n |-> IF i = n THEN x ELSE g[i]]
<1>3. h \in [0..n -> S]
  BY <1>0, <1>1
<1>4. h[n] = x /\ \A i \in 0..(n - 1) : h[i] = g[i]
  BY <1>0
<1>. HIDE DEF h
<1>5. h[0] = a
  BY <1>0, <1>1, <1>4
<1>6. ASSUME NEW i \in 1..n PROVE h[i] = step[i][h[i - 1]]
  <2>1. CASE i = n
    <3>1. h[n - 1] = g[n - 1]
      BY <1>0, <1>4
    <3>. QED
      BY <1>2, <1>4, <2>1, <3>1
  <2>2. CASE i # n
    <3>1. i \in 1..(n - 1) /\ i \in 0..(n - 1) /\ i - 1 \in 0..(n - 1)
      BY <1>0, <2>2
    <3>2. h[i] = g[i] /\ h[i - 1] = g[i - 1]
      BY <3>1, <1>4
    <3>. QED
      BY <1>1, <3>1, <3>2
  <2>. QED
    BY <2>1, <2>2
<1>. QED
  BY <1>3, <1>5, <1>6 DEF Iterates

LEMMA LoopRuns ==
  ASSUME NEW N \in Nat, NEW S, NEW a \in S, NEW step \in [1..N -> [S -> S]]
  PROVE  \E g : Iterates(N, S, a, step, g)
<1>. DEFINE T == {n \in 0..N : ~\E g : Iterates(n, S, a, step, g)}
<1>1. \A n \in T : n # 0 /\ n - 1 \in T
  <2>. TAKE n \in T
  <2>1. n # 0
    BY IteratesStart
  <2>2. n \in 1..N /\ n - 1 \in 0..N
    BY <2>1
  <2>. QED
    BY <2>1, <2>2, IteratesOn
<1>2. T \in SUBSET Nat
  OBVIOUS
<1>. HIDE DEF T
<1>3. T = {}
  BY <1>1, <1>2, NoneLeast
<1>4. N \in 0..N /\ N \notin T
  BY <1>3
<1>. QED
  BY <1>4 DEF T

-----------------------------------------------------------------------------
(* The sum over the table.                                                 *)

Sums(size, total) ==
  /\ total \in [0..MaxModels -> Nat]
  /\ total[0] = 0
  /\ \A i \in ModelSlots : total[i] = total[i - 1] + size[i]

LEMMA SlotNumbers ==
  /\ MaxModels \in Nat \ {0}
  /\ \A i \in ModelSlots : i \in Nat /\ i # 0 /\ i \in 0..MaxModels /\ i - 1 \in 0..MaxModels
  /\ \A i \in 0..MaxModels : i # 0 => i \in ModelSlots /\ i - 1 \in 0..MaxModels
BY SchedulerAssumption DEF ModelSlots

LEMMA SumsExist ==
  ASSUME NEW size \in [ModelSlots -> Nat]
  PROVE  \E total : Sums(size, total)
<1>. DEFINE step == [i \in ModelSlots |-> [s \in Nat |-> s + size[i]]]
<1>1. step \in [1..MaxModels -> [Nat -> Nat]]
  BY DEF ModelSlots
<1>2. \A i \in ModelSlots, s \in Nat : step[i][s] = s + size[i]
  OBVIOUS
<1>. HIDE DEF step
<1>3. PICK g : Iterates(MaxModels, Nat, 0, step, g)
  BY <1>1, LoopRuns, SlotNumbers
<1>4. /\ g \in [0..MaxModels -> Nat] /\ g[0] = 0
      /\ \A i \in ModelSlots : g[i] = step[i][g[i - 1]]
  BY <1>3 DEF Iterates, ModelSlots
<1>5. ASSUME NEW i \in ModelSlots PROVE g[i] = g[i - 1] + size[i]
  <2>1. g[i - 1] \in Nat
    BY <1>4, SlotNumbers
  <2>. QED
    BY <1>2, <1>4, <2>1
<1>. QED
  BY <1>4, <1>5 DEF Sums

LEMMA TotalIs ==
  ASSUME NEW size \in [ModelSlots -> Nat]
  PROVE  \E total : Sums(size, total) /\ Total(size) = total[MaxModels]
<1>. DEFINE F(total) == [i \in 0..MaxModels |-> IF i = 0 THEN 0 ELSE total[i - 1] + size[i]]
            g == CHOOSE total : total = F(total)
<1>1. PICK total : Sums(size, total)
  BY SumsExist
<1>2. total = F(total)
  <2>1. /\ total \in [0..MaxModels -> Nat] /\ total[0] = 0
        /\ \A i \in ModelSlots : total[i] = total[i - 1] + size[i]
    BY <1>1 DEF Sums
  <2>2. \A i \in 0..MaxModels : total[i] = F(total)[i]
    BY <2>1, SlotNumbers
  <2>3. total = [i \in 0..MaxModels |-> total[i]]
    BY <2>1
  <2>. QED
    BY <2>2, <2>3
<1>3. g = F(g)
  BY <1>2
<1>4. Total(size) = g[MaxModels]
  BY DEF Total
<1>. HIDE DEF g
<1>5. /\ g[0] = 0 /\ g = [i \in 0..MaxModels |-> g[i]]
      /\ \A i \in ModelSlots : g[i] = g[i - 1] + size[i]
  <2>1. \A i \in 0..MaxModels : g[i] = IF i = 0 THEN 0 ELSE g[i - 1] + size[i]
    BY <1>3
  <2>2. g = [i \in 0..MaxModels |-> g[i]]
    BY <1>3
  <2>3. 0 \in 0..MaxModels
    BY SlotNumbers
  <2>. QED
    BY <2>1, <2>2, <2>3, SlotNumbers
<1>. DEFINE T == {i \in 0..MaxModels : g[i] \notin Nat}
<1>6. \A n \in T : n # 0 /\ n - 1 \in T
  <2>. TAKE n \in T
  <2>1. n # 0
    BY <1>5
  <2>2. n \in ModelSlots /\ n - 1 \in 0..MaxModels
    BY <2>1, SlotNumbers
  <2>3. g[n] = g[n - 1] + size[n] /\ size[n] \in Nat
    BY <1>5, <2>2
  <2>. QED
    BY <2>1, <2>2, <2>3
<1>7. T \in SUBSET Nat
  BY SlotNumbers
<1>. HIDE DEF T
<1>8. T = {}
  BY <1>6, <1>7, NoneLeast
<1>9. g \in [0..MaxModels -> Nat]
  BY <1>5, <1>8 DEF T
<1>. QED
  BY <1>4, <1>5, <1>9 DEF Sums

\* A larger size in one slot, the same in the others.
LEMMA TotalMonotone ==
  ASSUME NEW f \in [ModelSlots -> Nat], NEW h \in [ModelSlots -> Nat],
         \A i \in ModelSlots : f[i] <= h[i]
  PROVE  Total(f) \in Nat /\ Total(h) \in Nat /\ Total(f) <= Total(h)
<1>1. PICK a : Sums(f, a) /\ Total(f) = a[MaxModels]
  BY TotalIs
<1>2. PICK b : Sums(h, b) /\ Total(h) = b[MaxModels]
  BY TotalIs
<1>3. /\ a \in [0..MaxModels -> Nat] /\ a[0] = 0
      /\ \A i \in ModelSlots : a[i] = a[i - 1] + f[i]
  BY <1>1 DEF Sums
<1>4. /\ b \in [0..MaxModels -> Nat] /\ b[0] = 0
      /\ \A i \in ModelSlots : b[i] = b[i - 1] + h[i]
  BY <1>2 DEF Sums
<1>. DEFINE T == {i \in 0..MaxModels : ~(a[i] <= b[i])}
<1>5. \A n \in T : n # 0 /\ n - 1 \in T
  <2>. TAKE n \in T
  <2>1. n # 0
    BY <1>3, <1>4
  <2>2. n \in ModelSlots /\ n - 1 \in 0..MaxModels
    BY <2>1, SlotNumbers
  <2>3. /\ a[n - 1] \in Nat /\ b[n - 1] \in Nat /\ f[n] \in Nat /\ h[n] \in Nat
        /\ a[n] = a[n - 1] + f[n] /\ b[n] = b[n - 1] + h[n] /\ f[n] <= h[n]
    BY <1>3, <1>4, <2>2
  <2>. QED
    BY <2>1, <2>2, <2>3
<1>6. T \in SUBSET Nat
  BY SlotNumbers
<1>. HIDE DEF T
<1>7. T = {}
  BY <1>5, <1>6, NoneLeast
<1>8. MaxModels \in 0..MaxModels
  BY SlotNumbers
<1>9. a[MaxModels] <= b[MaxModels]
  BY <1>7, <1>8 DEF T
<1>. QED
  BY <1>1, <1>2, <1>3, <1>4, <1>8, <1>9

\* One slot changes: the sum changes by as much.
LEMMA TotalUpdate ==
  ASSUME NEW f \in [ModelSlots -> Nat], NEW h \in [ModelSlots -> Nat],
         NEW k \in ModelSlots, \A i \in ModelSlots \ {k} : f[i] = h[i]
  PROVE  Total(f) \in Nat /\ Total(h) \in Nat /\ Total(f) + h[k] = Total(h) + f[k]
<1>1. PICK a : Sums(f, a) /\ Total(f) = a[MaxModels]
  BY TotalIs
<1>2. PICK b : Sums(h, b) /\ Total(h) = b[MaxModels]
  BY TotalIs
<1>3. /\ a \in [0..MaxModels -> Nat] /\ a[0] = 0
      /\ \A i \in ModelSlots : a[i] = a[i - 1] + f[i]
  BY <1>1 DEF Sums
<1>4. /\ b \in [0..MaxModels -> Nat] /\ b[0] = 0
      /\ \A i \in ModelSlots : b[i] = b[i - 1] + h[i]
  BY <1>2 DEF Sums
<1>k. k \in Nat /\ f[k] \in Nat /\ h[k] \in Nat
  BY SlotNumbers
<1>. DEFINE Ok(i) == IF i < k THEN a[i] = b[i] ELSE a[i] + h[k] = b[i] + f[k]
            T == {i \in 0..MaxModels : ~Ok(i)}
<1>5. \A n \in T : n # 0 /\ n - 1 \in T
  <2>. TAKE n \in T
  <2>1. n # 0
    BY <1>3, <1>4, <1>k, SlotNumbers
  <2>2. n \in ModelSlots /\ n \in Nat /\ n - 1 \in 0..MaxModels
    BY <2>1, SlotNumbers
  <2>3. /\ a[n - 1] \in Nat /\ b[n - 1] \in Nat /\ f[n] \in Nat /\ h[n] \in Nat
        /\ a[n] = a[n - 1] + f[n] /\ b[n] = b[n - 1] + h[n]
        /\ n # k => f[n] = h[n]
    BY <1>3, <1>4, <2>2
  <2>4. ~Ok(n - 1)
    <3>1. CASE n < k
      BY <1>k, <2>2, <2>3, <3>1
    <3>2. CASE n = k
      BY <1>k, <2>2, <2>3, <3>2
    <3>3. CASE n > k
      BY <1>k, <2>2, <2>3, <3>3
    <3>. QED
      BY <1>k, <2>2, <3>1, <3>2, <3>3
  <2>. QED
    BY <2>1, <2>2, <2>4
<1>6. T \in SUBSET Nat
  BY SlotNumbers
<1>. HIDE DEF T
<1>7. T = {}
  BY <1>5, <1>6, NoneLeast
<1>8. MaxModels \in 0..MaxModels /\ ~(MaxModels < k) /\ Ok(MaxModels)
  BY <1>7, SlotNumbers DEF T, ModelSlots
<1>. QED
  BY <1>1, <1>2, <1>3, <1>4, <1>8

-----------------------------------------------------------------------------
(* The scan of find_lru_idle_model.                                        *)

ModelTables == [ModelSlots -> ModelRecord \cup {Empty}]

LEMMA IdleRecord ==
  ASSUME NEW m \in ModelTables, NEW name, NEW i \in IdleSlots(m, name)
  PROVE  i \in ModelSlots /\ i \in Nat /\ m[i] \in ModelRecord /\ m[i].last_used \in Nat
BY SlotNumbers DEF ModelTables, IdleSlots, Loaded, ModelRecord

\* UsedBefore orders the idle models.
LEMMA UsedBeforeOrders ==
  ASSUME NEW m \in ModelTables, NEW name,
         NEW i \in IdleSlots(m, name), NEW j \in IdleSlots(m, name),
         NEW k \in IdleSlots(m, name)
  PROVE  /\ ~UsedBefore(m, i, i)
         /\ ~(UsedBefore(m, i, j) /\ UsedBefore(m, j, i))
         /\ i # j => UsedBefore(m, i, j) \/ UsedBefore(m, j, i)
         /\ UsedBefore(m, i, j) /\ UsedBefore(m, j, k) => UsedBefore(m, i, k)
<1>1. /\ i \in Nat /\ m[i].last_used \in Nat
      /\ j \in Nat /\ m[j].last_used \in Nat
      /\ k \in Nat /\ m[k].last_used \in Nat
  BY IdleRecord
<1>. QED
  BY <1>1 DEF UsedBefore

\* What the scan knows after i slots.
Oldest(m, name, i, b) ==
  LET seen == {j \in IdleSlots(m, name) : j <= i}
  IN  IF seen = {} THEN b = 0
      ELSE b \in seen /\ \A j \in seen \ {b} : UsedBefore(m, b, j)

Better(m, i, b) == b = 0 \/ m[i].last_used < m[b].last_used

Scans(m, name, index) ==
  /\ index \in [0..MaxModels -> 0..MaxModels]
  /\ index[0] = 0
  /\ \A i \in ModelSlots :
       index[i] = IF i \in IdleSlots(m, name) /\ Better(m, i, index[i - 1])
                  THEN i ELSE index[i - 1]

LEMMA ScansExist ==
  ASSUME NEW m, NEW name
  PROVE  \E index : Scans(m, name, index)
<1>. DEFINE step == [i \in ModelSlots |-> [b \in 0..MaxModels |->
                       IF i \in IdleSlots(m, name) /\ Better(m, i, b) THEN i ELSE b]]
<1>1. step \in [1..MaxModels -> [0..MaxModels -> 0..MaxModels]]
  BY SlotNumbers DEF ModelSlots
<1>2. \A i \in ModelSlots, b \in 0..MaxModels :
        step[i][b] = IF i \in IdleSlots(m, name) /\ Better(m, i, b) THEN i ELSE b
  OBVIOUS
<1>. HIDE DEF step
<1>0. 0 \in 0..MaxModels
  BY SlotNumbers
<1>3. PICK g : Iterates(MaxModels, 0..MaxModels, 0, step, g)
  BY <1>0, <1>1, LoopRuns, SlotNumbers
<1>4. /\ g \in [0..MaxModels -> 0..MaxModels] /\ g[0] = 0
      /\ \A i \in ModelSlots : g[i] = step[i][g[i - 1]]
  BY <1>3 DEF Iterates, ModelSlots
<1>5. ASSUME NEW i \in ModelSlots
      PROVE  g[i] = IF i \in IdleSlots(m, name) /\ Better(m, i, g[i - 1])
                    THEN i ELSE g[i - 1]
  <2>1. g[i - 1] \in 0..MaxModels
    BY <1>4, SlotNumbers
  <2>. QED
    BY <1>2, <1>4, <2>1
<1>. QED
  BY <1>4, <1>5 DEF Scans

LEMMA ScanIs ==
  ASSUME NEW m, NEW name
  PROVE  \E index : /\ index[0] = 0
                    /\ \A i \in ModelSlots :
                         index[i] = IF i \in IdleSlots(m, name) /\ Better(m, i, index[i - 1])
                                    THEN i ELSE index[i - 1]
                    /\ FindLruIdleModel(m, name) = index[MaxModels]
<1>. DEFINE F(index) == [i \in 0..MaxModels |->
              IF i = 0 THEN 0
              ELSE IF i \in IdleSlots(m, name) /\ Better(m, i, index[i - 1])
                   THEN i ELSE index[i - 1]]
            g == CHOOSE index : index = F(index)
<1>1. PICK index : Scans(m, name, index)
  BY ScansExist
<1>2. index = F(index)
  <2>1. /\ index \in [0..MaxModels -> 0..MaxModels] /\ index[0] = 0
        /\ \A i \in ModelSlots :
             index[i] = IF i \in IdleSlots(m, name) /\ Better(m, i, index[i - 1])
                        THEN i ELSE index[i - 1]
    BY <1>1 DEF Scans
  <2>2. \A i \in 0..MaxModels : index[i] = F(index)[i]
    BY <2>1, SlotNumbers
  <2>3. index = [i \in 0..MaxModels |-> index[i]]
    BY <2>1
  <2>. QED
    BY <2>2, <2>3
<1>3. g = F(g)
  BY <1>2
<1>4. FindLruIdleModel(m, name) = g[MaxModels]
  BY DEF FindLruIdleModel, Better
<1>. HIDE DEF g
<1>5. \A i \in 0..MaxModels :
        g[i] = IF i = 0 THEN 0
               ELSE IF i \in IdleSlots(m, name) /\ Better(m, i, g[i - 1])
                    THEN i ELSE g[i - 1]
  BY <1>3
<1>6. 0 \in 0..MaxModels
  BY SlotNumbers
<1>. QED
  BY <1>4, <1>5, <1>6, SlotNumbers

LEMMA ScanStep ==
  ASSUME NEW m \in ModelTables, NEW name, NEW i \in ModelSlots, NEW b, NEW c,
         Oldest(m, name, i - 1, b),
         c = IF i \in IdleSlots(m, name) /\ Better(m, i, b) THEN i ELSE b
  PROVE  Oldest(m, name, i, c)
<1>. DEFINE idle == IdleSlots(m, name)
            seen == {j \in idle : j <= i - 1}
            now_seen == {j \in idle : j <= i}
<1>0. \A j \in idle : j \in Nat /\ m[j].last_used \in Nat
  BY IdleRecord
<1>1. i \in Nat /\ i # 0
  BY SlotNumbers
<1>2. now_seen = IF i \in idle THEN seen \cup {i} ELSE seen
  BY <1>0, <1>1
<1>3. IF seen = {} THEN b = 0 ELSE b \in seen /\ \A j \in seen \ {b} : UsedBefore(m, b, j)
  BY DEF Oldest
<1>4. CASE i \notin idle
  BY <1>2, <1>3, <1>4 DEF Oldest
<1>5. CASE i \in idle /\ seen = {}
  BY <1>2, <1>3, <1>5 DEF Oldest, Better
<1>6. CASE i \in idle /\ seen # {}
  <2>1. b \in seen /\ b \in idle /\ b # 0 /\ b < i
    <3>1. b \in seen /\ b \in idle
      BY <1>3, <1>6
    <3>2. b \in ModelSlots /\ b <= i - 1
      BY <3>1, IdleRecord
    <3>. QED
      BY <1>1, <3>1, <3>2, SlotNumbers
  <2>2. CASE m[i].last_used < m[b].last_used
    <3>1. c = i /\ UsedBefore(m, i, b)
      BY <1>6, <2>2 DEF Better, UsedBefore
    <3>2. \A j \in seen : UsedBefore(m, i, j)
      <4>. TAKE j \in seen
      <4>1. CASE j = b
        BY <3>1, <4>1
      <4>2. CASE j # b
        <5>1. UsedBefore(m, b, j) /\ j \in idle
          BY <1>3, <1>6, <4>2
        <5>. QED
          BY <1>6, <2>1, <3>1, <5>1, UsedBeforeOrders
      <4>. QED
        BY <4>1, <4>2
    <3>. QED
      BY <1>2, <1>6, <3>1, <3>2 DEF Oldest
  <2>3. CASE ~(m[i].last_used < m[b].last_used)
    <3>1. c = b
      BY <2>1, <2>3 DEF Better
    <3>2. UsedBefore(m, b, i)
      BY <1>0, <1>6, <2>1, <2>3 DEF UsedBefore
    <3>. QED
      BY <1>2, <1>3, <1>6, <2>1, <3>1, <3>2 DEF Oldest
  <2>. QED
    BY <2>2, <2>3
<1>. QED
  BY <1>4, <1>5, <1>6

\* find_lru_idle_model returns the idle model that was used before all others.
LEMMA LruIs ==
  ASSUME NEW m \in ModelTables, NEW name
  PROVE  LET x == FindLruIdleModel(m, name)
         IN  IF IdleSlots(m, name) = {} THEN x = 0
             ELSE /\ x \in IdleSlots(m, name) /\ x # 0
                  /\ \A j \in IdleSlots(m, name) \ {x} : UsedBefore(m, x, j)
<1>1. PICK index :
        /\ index[0] = 0
        /\ \A i \in ModelSlots :
             index[i] = IF i \in IdleSlots(m, name) /\ Better(m, i, index[i - 1])
                        THEN i ELSE index[i - 1]
        /\ FindLruIdleModel(m, name) = index[MaxModels]
  BY ScanIs
<1>. DEFINE T == {i \in 0..MaxModels : ~Oldest(m, name, i, index[i])}
<1>0. \A j \in IdleSlots(m, name) : j \in Nat /\ j # 0 /\ j <= MaxModels
  BY IdleRecord, SlotNumbers DEF ModelSlots
<1>2. \A n \in T : n # 0 /\ n - 1 \in T
  <2>. TAKE n \in T
  <2>1. n # 0
    <3>1. {j \in IdleSlots(m, name) : j <= 0} = {}
      BY <1>0
    <3>. QED
      BY <1>1, <3>1 DEF Oldest
  <2>2. n \in ModelSlots /\ n - 1 \in 0..MaxModels
    BY <2>1, SlotNumbers
  <2>3. index[n] = IF n \in IdleSlots(m, name) /\ Better(m, n, index[n - 1])
                   THEN n ELSE index[n - 1]
    BY <1>1, <2>2
  <2>4. ~Oldest(m, name, n, index[n])
    OBVIOUS
  <2>5. ~Oldest(m, name, n - 1, index[n - 1])
    BY <2>2, <2>3, <2>4, ScanStep
  <2>. QED
    BY <2>1, <2>2, <2>5
<1>3. T \in SUBSET Nat
  BY SlotNumbers
<1>. HIDE DEF T
<1>4. T = {}
  BY <1>2, <1>3, NoneLeast
<1>5. MaxModels \in 0..MaxModels
  BY SlotNumbers
<1>6. Oldest(m, name, MaxModels, index[MaxModels])
  BY <1>4, <1>5 DEF T
<1>7. {j \in IdleSlots(m, name) : j <= MaxModels} = IdleSlots(m, name)
  BY <1>0
<1>. QED
  BY <1>0, <1>1, <1>6, <1>7 DEF Oldest

-----------------------------------------------------------------------------
(* The loop of evict_idle_until_fits.                                      *)

LEMMA EvictIsTable ==
  ASSUME NEW m \in ModelTables, NEW S
  PROVE  EvictSlots(m, S) \in ModelTables
BY DEF EvictSlots, ModelTables

LEMMA EvictTwice ==
  ASSUME NEW m \in ModelTables, NEW S, NEW x \in ModelSlots
  PROVE  EvictSlots(EvictSlots(m, S), {x}) = EvictSlots(m, S \cup {x})
BY DEF EvictSlots

LEMMA EvictNone ==
  ASSUME NEW m \in ModelTables
  PROVE  EvictSlots(m, {}) = m
BY DEF EvictSlots, ModelTables

\* Models that are left keep their place in the order.
LEMMA IdleLeft ==
  ASSUME NEW m \in ModelTables, NEW name, NEW S
  PROVE  /\ IdleSlots(EvictSlots(m, S), name) = IdleSlots(m, name) \ S
         /\ \A i, j \in IdleSlots(m, name) \ S :
              UsedBefore(EvictSlots(m, S), i, j) <=> UsedBefore(m, i, j)
<1>1. \A i \in ModelSlots : EvictSlots(m, S)[i] = IF i \in S THEN Empty ELSE m[i]
  BY DEF EvictSlots
<1>2. IdleSlots(EvictSlots(m, S), name) = IdleSlots(m, name) \ S
  BY <1>1 DEF IdleSlots, Loaded
<1>3. \A i \in IdleSlots(m, name) \ S : EvictSlots(m, S)[i] = m[i]
  BY <1>1 DEF IdleSlots, Loaded
<1>. QED
  BY <1>2, <1>3 DEF UsedBefore

Before(m, r, i) == {j \in IdleSlots(m, r.name) : UsedBefore(m, j, i)}

\* Slots that the loop may have cleared so far.
Cleared(m, r, V) ==
  /\ V \subseteq IdleSlots(m, r.name)
  /\ \A i \in V : /\ Before(m, r, i) \subseteq V
                  /\ ~HasCapacityFor(EvictSlots(m, Before(m, r, i)), r)

LEMMA VictimsAre ==
  ASSUME NEW m, NEW r, NEW V
  PROVE  EvictIdleUntilFits(m, r, V)
           <=> /\ Cleared(m, r, V)
               /\ HasCapacityFor(EvictSlots(m, V), r) \/ V = IdleSlots(m, r.name)
BY DEF EvictIdleUntilFits, Cleared, Before

\* The next one to go is the oldest of those left.
LEMMA NextVictim ==
  ASSUME NEW m \in ModelTables, NEW r, NEW V, Cleared(m, r, V),
         IdleSlots(m, r.name) \ V # {}
  PROVE  LET x == FindLruIdleModel(EvictSlots(m, V), r.name)
         IN  /\ x \in IdleSlots(m, r.name) \ V
             /\ x # 0
             /\ Before(m, r, x) = V
             /\ \A j \in (IdleSlots(m, r.name) \ V) \ {x} : UsedBefore(m, x, j)
<1>. DEFINE t == EvictSlots(m, V)
            idle == IdleSlots(m, r.name)
<1>1. PICK x : x = FindLruIdleModel(t, r.name)
  OBVIOUS
<1>2. t \in ModelTables /\ IdleSlots(t, r.name) = idle \ V
      /\ \A i, j \in idle \ V : UsedBefore(t, i, j) <=> UsedBefore(m, i, j)
  BY EvictIsTable, IdleLeft
<1>. HIDE DEF t
<1>3. /\ x \in idle \ V /\ x # 0
      /\ \A j \in (idle \ V) \ {x} : UsedBefore(t, x, j)
  BY <1>1, <1>2, LruIs
<1>4. \A j \in (idle \ V) \ {x} : UsedBefore(m, x, j)
  BY <1>2, <1>3
<1>5. Before(m, r, x) \subseteq V
  <2>. SUFFICES ASSUME NEW j \in idle, UsedBefore(m, j, x), j \notin V PROVE FALSE
    BY DEF Before
  <2>1. j # x
    BY <1>3, UsedBeforeOrders
  <2>2. UsedBefore(m, x, j)
    BY <1>4, <2>1
  <2>. QED
    BY <1>3, <2>2, UsedBeforeOrders
<1>6. V \subseteq Before(m, r, x)
  <2>. SUFFICES ASSUME NEW v \in V PROVE v \in idle /\ UsedBefore(m, v, x)
    BY DEF Before
  <2>1. v \in idle /\ v # x /\ Before(m, r, v) \subseteq V
    BY <1>3 DEF Cleared
  <2>2. ~UsedBefore(m, x, v)
    BY <1>3, <2>1 DEF Before
  <2>. QED
    BY <1>3, <2>1, <2>2, UsedBeforeOrders
<1>. QED
  BY <1>1, <1>3, <1>4, <1>5, <1>6 DEF t

\* Two sets of victims are the same.
LEMMA VictimsWithin ==
  ASSUME NEW m \in ModelTables, NEW r, NEW V, NEW W,
         EvictIdleUntilFits(m, r, V), EvictIdleUntilFits(m, r, W)
  PROVE  W \subseteq V
<1>. SUFFICES ASSUME NEW w \in W, w \notin V PROVE FALSE
  OBVIOUS
<1>1. /\ Cleared(m, r, V) /\ Cleared(m, r, W)
      /\ HasCapacityFor(EvictSlots(m, V), r) \/ V = IdleSlots(m, r.name)
  BY VictimsAre
<1>2. w \in IdleSlots(m, r.name) \ V
  BY <1>1 DEF Cleared
<1>3. PICK x : /\ x \in IdleSlots(m, r.name) \ V
               /\ Before(m, r, x) = V
               /\ \A j \in (IdleSlots(m, r.name) \ V) \ {x} : UsedBefore(m, x, j)
  BY <1>1, <1>2, NextVictim
<1>4. x \in W
  <2>1. CASE x = w
    BY <2>1
  <2>2. CASE x # w
    <3>1. UsedBefore(m, x, w)
      BY <1>2, <1>3, <2>2
    <3>2. x \in Before(m, r, w)
      BY <1>3, <3>1 DEF Before
    <3>. QED
      BY <1>1, <3>2 DEF Cleared
  <2>. QED
    BY <2>1, <2>2
<1>5. ~HasCapacityFor(EvictSlots(m, V), r)
  BY <1>1, <1>3, <1>4 DEF Cleared
<1>. QED
  BY <1>1, <1>2, <1>5

LoopStep(t, r) ==
  IF HasCapacityFor(t, r) \/ FindLruIdleModel(t, r.name) = 0 THEN t
  ELSE EvictSlots(t, {FindLruIdleModel(t, r.name)})

LEMMA LoopIs ==
  ASSUME NEW m \in ModelTables, NEW r
  PROVE  \E table : /\ table[0] = m
                    /\ \A k \in ModelSlots : table[k] = LoopStep(table[k - 1], r)
                    /\ EvictLoop(m, r) = table[MaxModels]
<1>. DEFINE F(table) == [k \in 0..MaxModels |->
                           IF k = 0 THEN m ELSE LoopStep(table[k - 1], r)]
            g == CHOOSE table : table = F(table)
            step == [k \in ModelSlots |-> [t \in ModelTables |-> LoopStep(t, r)]]
<1>1. step \in [1..MaxModels -> [ModelTables -> ModelTables]]
  <2>1. \A t \in ModelTables : LoopStep(t, r) \in ModelTables
    BY EvictIsTable DEF LoopStep
  <2>. QED
    BY <2>1 DEF ModelSlots
<1>2. \A k \in ModelSlots, t \in ModelTables : step[k][t] = LoopStep(t, r)
  OBVIOUS
<1>. HIDE DEF step
<1>3. PICK table : Iterates(MaxModels, ModelTables, m, step, table)
  BY <1>1, LoopRuns, SlotNumbers
<1>4. /\ table \in [0..MaxModels -> ModelTables] /\ table[0] = m
      /\ \A k \in ModelSlots : table[k] = step[k][table[k - 1]]
  BY <1>3 DEF Iterates, ModelSlots
<1>5. table = F(table)
  <2>1. \A k \in ModelSlots : table[k] = LoopStep(table[k - 1], r)
    <3>. TAKE k \in ModelSlots
    <3>1. table[k - 1] \in ModelTables
      BY <1>4, SlotNumbers
    <3>. QED
      BY <1>2, <1>4, <3>1
  <2>2. \A k \in 0..MaxModels : table[k] = F(table)[k]
    BY <1>4, <2>1, SlotNumbers
  <2>3. table = [k \in 0..MaxModels |-> table[k]]
    BY <1>4
  <2>. QED
    BY <2>2, <2>3
<1>6. g = F(g)
  BY <1>5
<1>7. EvictLoop(m, r) = g[MaxModels]
  BY DEF EvictLoop, LoopStep
<1>. HIDE DEF g
<1>8. \A k \in 0..MaxModels : g[k] = IF k = 0 THEN m ELSE LoopStep(g[k - 1], r)
  BY <1>6
<1>9. 0 \in 0..MaxModels
  BY SlotNumbers
<1>. QED
  BY <1>7, <1>8, <1>9, SlotNumbers

\* The job fits, or no idle model is left.
Stopped(m, r, V) ==
  HasCapacityFor(EvictSlots(m, V), r) \/ V = IdleSlots(m, r.name)

\* After k rounds the loop has stopped or cleared k slots.
LEMMA LoopRound ==
  ASSUME NEW m \in ModelTables, NEW r, NEW V, NEW k \in Nat,
         Cleared(m, r, V), IsFiniteSet(V), Stopped(m, r, V) \/ Cardinality(V) = k - 1
  PROVE  \E W : /\ LoopStep(EvictSlots(m, V), r) = EvictSlots(m, W)
                /\ Cleared(m, r, W) /\ IsFiniteSet(W)
                /\ Stopped(m, r, W) \/ Cardinality(W) = k
<1>. DEFINE t == EvictSlots(m, V)
            x == FindLruIdleModel(t, r.name)
<1>t. t \in ModelTables
  BY EvictIsTable
<1>1. CASE HasCapacityFor(t, r)
  BY <1>1 DEF LoopStep, Stopped
<1>2. CASE IdleSlots(m, r.name) \ V = {}
  <2>1. V = IdleSlots(m, r.name)
    BY <1>2 DEF Cleared
  <2>2. IdleSlots(t, r.name) = {}
    BY <1>2, IdleLeft
  <2>3. x = 0
    BY <1>t, <2>2, LruIs
  <2>. QED
    BY <2>1, <2>3 DEF LoopStep, Stopped
<1>3. CASE ~HasCapacityFor(t, r) /\ IdleSlots(m, r.name) \ V # {}
  <2>1. /\ x \in IdleSlots(m, r.name) \ V /\ x # 0 /\ Before(m, r, x) = V
    BY <1>3, NextVictim
  <2>2. x \in ModelSlots
    BY <2>1, IdleRecord
  <2>. DEFINE W == V \cup {x}
  <2>. HIDE DEF x
  <2>3. LoopStep(t, r) = EvictSlots(t, {x})
    BY <1>3, <2>1 DEF LoopStep, x
  <2>4. EvictSlots(t, {x}) = EvictSlots(m, W)
    BY <2>2, EvictTwice
  <2>5. Cleared(m, r, W)
    BY <1>3, <2>1 DEF Cleared
  <2>6. IsFiniteSet(W) /\ Cardinality(W) = Cardinality(V) + 1
    BY <2>1, FS_AddElement
  <2>7. ~Stopped(m, r, V)
    BY <1>3 DEF Stopped
  <2>8. Cardinality(V) = k - 1 /\ Cardinality(W) = k
    BY <2>6, <2>7
  <2>. QED
    BY <2>3, <2>4, <2>5, <2>6, <2>8
<1>. QED
  BY <1>1, <1>2, <1>3

\* What the loop leaves is the table without one set of victims.
LEMMA LoopClears ==
  ASSUME NEW m \in ModelTables, NEW r
  PROVE  \E V \in SUBSET ModelSlots :
           EvictIdleUntilFits(m, r, V) /\ EvictLoop(m, r) = EvictSlots(m, V)
<1>1. PICK table : /\ table[0] = m
                   /\ \A k \in ModelSlots : table[k] = LoopStep(table[k - 1], r)
                   /\ EvictLoop(m, r) = table[MaxModels]
  BY LoopIs
<1>. DEFINE Done(k, V) == /\ table[k] = EvictSlots(m, V)
                          /\ Cleared(m, r, V) /\ IsFiniteSet(V)
                          /\ Stopped(m, r, V) \/ Cardinality(V) = k
            T == {k \in 0..MaxModels : ~\E V : Done(k, V)}
<1>2. \A k \in T : k # 0 /\ k - 1 \in T
  <2>. TAKE k \in T
  <2>1. k # 0
    <3>1. IsFiniteSet({}) /\ Cardinality({}) = 0
      BY FS_EmptySet
    <3>2. Done(0, {})
      BY <1>1, <3>1, EvictNone DEF Cleared
    <3>. QED
      BY <3>2
  <2>2. k \in ModelSlots /\ k \in Nat /\ k - 1 \in 0..MaxModels
    BY <2>1, SlotNumbers
  <2>3. table[k] = LoopStep(table[k - 1], r)
    BY <1>1, <2>2
  <2>4. ASSUME NEW V, Done(k - 1, V) PROVE FALSE
    <3>1. \E W : /\ LoopStep(EvictSlots(m, V), r) = EvictSlots(m, W)
                 /\ Cleared(m, r, W) /\ IsFiniteSet(W)
                 /\ Stopped(m, r, W) \/ Cardinality(W) = k
      BY <2>2, <2>4, LoopRound
    <3>. QED
      BY <2>3, <2>4, <3>1
  <2>. QED
    BY <2>1, <2>2, <2>4
<1>3. T \in SUBSET Nat
  BY SlotNumbers
<1>. HIDE DEF T
<1>4. T = {}
  BY <1>2, <1>3, NoneLeast
<1>5. MaxModels \in 0..MaxModels /\ MaxModels \notin T
  BY <1>4, SlotNumbers
<1>6. PICK V : Done(MaxModels, V)
  BY <1>5 DEF T
<1>7. V \subseteq IdleSlots(m, r.name) /\ IdleSlots(m, r.name) \subseteq ModelSlots
  BY <1>6 DEF Cleared, IdleSlots, Loaded
<1>8. Stopped(m, r, V)
  <2>. SUFFICES ASSUME Cardinality(V) = MaxModels PROVE V = IdleSlots(m, r.name)
    BY <1>6 DEF Stopped
  <2>1. IsFiniteSet(ModelSlots) /\ Cardinality(ModelSlots) = MaxModels
    BY FS_Interval, SlotNumbers DEF ModelSlots
  <2>2. V \subseteq ModelSlots /\ (Cardinality(V) = Cardinality(ModelSlots) => V = ModelSlots)
    BY <1>7, <2>1, FS_Subset
  <2>. QED
    BY <1>7, <2>1, <2>2
<1>. QED
  BY <1>1, <1>6, <1>7, <1>8, VictimsAre DEF Stopped

(***************************************************************************)
(* The eviction loop of scheduler.c, written out as it is, clears for any  *)
(* table and any job exactly the slots that the declarative form           *)
(* describes, and it describes one set of slots only: what is proved of    *)
(* admission from the declarative form holds of the loop.  Round by round, *)
(* the slots cleared so far are the oldest idle ones, and the loop has     *)
(* ended when it has gone round once for every slot.                       *)
(***************************************************************************)
THEOREM LoopEvictsAsDescribed == Spec => []EvictionMatchesLoop
<1>1. TypeOK => EvictionMatchesLoop
  <2>. SUFFICES ASSUME TypeOK, NEW r \in Requests
                PROVE  /\ \E victims \in SUBSET ModelSlots : EvictIdleUntilFits(models, r, victims)
                       /\ \A victims \in SUBSET ModelSlots :
                            EvictIdleUntilFits(models, r, victims)
                              <=> /\ victims \subseteq Loaded(models)
                                  /\ EvictSlots(models, victims) = EvictLoop(models, r)
    BY DEF EvictionMatchesLoop
  <2>1. models \in ModelTables
    BY DEF TypeOK, ModelTables
  <2>2. PICK V \in SUBSET ModelSlots :
          EvictIdleUntilFits(models, r, V) /\ EvictLoop(models, r) = EvictSlots(models, V)
    BY <2>1, LoopClears
  <2>3. \A W : EvictIdleUntilFits(models, r, W) => W \subseteq Loaded(models)
    BY DEF EvictIdleUntilFits, IdleSlots
  <2>4. ASSUME NEW W \in SUBSET ModelSlots, EvictIdleUntilFits(models, r, W) PROVE W = V
    BY <2>1, <2>2, <2>4, VictimsWithin
  <2>5. ASSUME NEW W \in SUBSET ModelSlots, W \subseteq Loaded(models),
               EvictSlots(models, W) = EvictSlots(models, V)
        PROVE  W = V
    <3>1. \A i \in ModelSlots : /\ i \in W => EvictSlots(models, W)[i] = Empty
                                /\ i \notin W => EvictSlots(models, W)[i] = models[i]
                                /\ i \in V => EvictSlots(models, V)[i] = Empty
                                /\ i \notin V => EvictSlots(models, V)[i] = models[i]
      BY DEF EvictSlots
    <3>2. \A i \in Loaded(models) : i \in W <=> i \in V
      BY <2>5, <3>1 DEF Loaded
    <3>. QED
      BY <2>2, <2>3, <2>5, <3>2
  <2>. QED
    BY <2>2, <2>3, <2>4, <2>5
<1>. QED
  BY <1>1, TypeCorrect, PTL
=============================================================================
