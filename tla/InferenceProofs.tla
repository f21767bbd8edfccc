--------------------------- MODULE InferenceProofs ---------------------------
(***************************************************************************)
(* Proofs about Inference, for any number of callers, backends and models. *)
(***************************************************************************)
EXTENDS Inference, SchedulerProofs, FiniteSetTheorems

-----------------------------------------------------------------------------
(* Type correctness.                                                       *)

LEMMA RequestOfCall ==
  ASSUME ITypeOK, NEW c \in Callers, pc[c] # "idle"
  PROVE  req[c] \in Requests /\ req[c] # NoReq /\ req[c].name \in ModelNames
BY SchedulerAssumption DEF ITypeOK, CallersOK, Request

\* Every step of a caller or of its environment is one operation on the
\* scheduler, or SIGTERM to a backend, or none.
LEMMA SchedulerPart ==
  ASSUME ITypeOK, [INext]_vars
  PROVE  TypeOK'
<1>t. TypeOK
  BY DEF ITypeOK
<1>1. ASSUME NEW c \in Callers, NEW r \in Requests, Admit(c, r)
      PROVE  TypeOK'
  BY <1>1, <1>t, AdmitTyped DEF Admit
<1>2. ASSUME NEW c \in Callers, Step(c)
      PROVE  TypeOK'
  <2>1. CASE Attach(c) \/ Register(c)
    <3>1. req[c] \in Requests /\ target[c] \in Pids /\ MarkModelLoaded(req[c], target[c])
      BY <2>1, RequestOfCall
      DEF Attach, Register, ITypeOK, CallersOK, TargetKnown
    <3>. QED
      BY <3>1, <1>t, MarkLoadedTyped
  <2>2. CASE Replace(c)
    BY <2>2, <1>t, RequestOfCall, EvictTyped DEF Replace
  <2>3. CASE Release(c)
    BY <2>3, <1>t, RequestOfCall, MarkUnloadedTyped DEF Release
  <2>4. CASE WaitFails(c)
    <3>1. target[c] \in Pids
      BY <2>4 DEF WaitFails, ITypeOK, CallersOK, TargetKnown
    <3>. QED
      BY <2>4, <3>1, <1>t DEF WaitFails, TypeOK, tables, limits
  <2>5. CASE UNCHANGED svars
    BY <2>5, <1>t DEF svars, TypeOK
  <2>. QED
    BY <1>2, <2>1, <2>2, <2>3, <2>4, <2>5
    DEF Step, LookUp, Probe, Start, StartFails, WaitHealthy, Chat
<1>3. ASSUME NEW n \in ModelNames, UserEvicts(n)
      PROVE  TypeOK'
  BY <1>3, <1>t, EvictTyped DEF UserEvicts
<1>4. CASE TickClock
  BY <1>4, <1>t DEF TickClock, Tick, TypeOK, tables, limits
<1>5. ASSUME NEW ram \in RamLimits, NEW vram \in VramLimits, LimitsAreSet(ram, vram)
      PROVE  TypeOK'
  BY <1>5, <1>t, SchedulerAssumption DEF LimitsAreSet, ConfigureLimits, TypeOK, tables
<1>6. CASE StateIsLost
  BY <1>6, <1>t DEF StateIsLost, ReinitState, TypeOK
<1>7. CASE UNCHANGED svars
  BY <1>7, <1>t DEF svars, TypeOK
<1>. QED
  BY <1>1, <1>2, <1>3, <1>4, <1>5, <1>6, <1>7
  DEF INext, IActions, CallerKilled, BackendUp, BackendExits, BackendHangs, vars

LEMMA ReturnTyped ==
  ASSUME CallersOK, NEW c \in Callers, Return(c)
  PROVE  CallersOK'
BY DEF CallersOK, Return, Goto, Locations, TargetKnown

LEMMA GotoTyped ==
  ASSUME CallersOK, NEW c \in Callers, pc[c] # "idle",
         NEW to \in Locations \ {"idle", "lookup"}, Goto(c, to),
         NEW p \in Pids \cup {NoPid}, target' = [target EXCEPT ![c] = p],
         to \in TargetKnown => p \in Pids,
         UNCHANGED req
  PROVE  CallersOK'
BY DEF CallersOK, Goto, Locations, TargetKnown

LEMMA CallersPart ==
  ASSUME ITypeOK, [INext]_vars
  PROVE  CallersOK'
<1>t. TypeOK /\ CallersOK
  BY DEF ITypeOK
<1>1. ASSUME NEW c \in Callers, NEW r \in Requests, Admit(c, r)
      PROVE  CallersOK'
  <2>1. r # NoReq
    BY SchedulerAssumption, InferenceAssumption
  <2>2. CASE Goto(c, "lookup") /\ req' = [req EXCEPT ![c] = r] /\ UNCHANGED target
    BY <1>1, <2>1, <2>2, <1>t DEF Admit, CallersOK, Goto, Locations, TargetKnown
  <2>3. CASE UNCHANGED cvars
    BY <2>3, <1>t DEF cvars, CallersOK
  <2>. QED
    BY <1>1, <2>2, <2>3 DEF Admit
<1>2. ASSUME NEW c \in Callers, Step(c)
      PROVE  CallersOK'
  <2>1. CASE LookUp(c)
    <3>1. CASE Goto(c, "start") /\ UNCHANGED target
      BY <2>1, <3>1, <1>t DEF LookUp, Goto, CallersOK, Locations, TargetKnown
    <3>2. ASSUME NEW i \in SlotsNamed(models, req[c].name),
                 Goto(c, "probe"), target' = [target EXCEPT ![c] = models[i].pid]
          PROVE  CallersOK'
      <4>1. models[i].pid \in Pids
        BY <3>2, <1>t, LoadedRecord DEF SlotsNamed, ModelRecord
      <4>. QED
        BY <2>1, <3>2, <4>1, <1>t, GotoTyped DEF LookUp, Locations
    <3>. QED
      BY <2>1, <3>1, <3>2 DEF LookUp, IsFirst
  <2>2. CASE Start(c)
    <3>1. PICK p \in Pids : target' = [target EXCEPT ![c] = p]
      BY <2>2 DEF Start
    <3>. QED
      BY <2>2, <3>1, <1>t, GotoTyped DEF Start, Locations
  <2>3. CASE StartFails(c) \/ WaitFails(c) \/ Release(c)
    BY <2>3, <1>t, ReturnTyped DEF StartFails, WaitFails, Release
  <2>4. CASE Probe(c) \/ Attach(c) \/ Replace(c) \/ WaitHealthy(c) \/ Register(c) \/ Chat(c)
    <3>1. PICK to \in {"attach", "replace", "chat", "start", "register", "release"} :
            Goto(c, to)
      BY <2>4 DEF Probe, Attach, Replace, WaitHealthy, Register, Chat
    <3>2. pc[c] # "idle" /\ UNCHANGED <<req, target>>
      BY <2>4 DEF Probe, Attach, Replace, WaitHealthy, Register, Chat
    <3>3. target[c] \in Pids
      BY <2>4, <1>t
      DEF Probe, Attach, Replace, WaitHealthy, Register, Chat, CallersOK, TargetKnown
    <3>4. target' = [target EXCEPT ![c] = target[c]]
      BY <3>2, <1>t DEF CallersOK
    <3>. QED
      BY <3>1, <3>2, <3>3, <3>4, <1>t, GotoTyped DEF Locations
  <2>. QED
    BY <1>2, <2>1, <2>2, <2>3, <2>4 DEF Step
<1>3. ASSUME NEW c \in Callers, CallerKilled(c)
      PROVE  CallersOK'
  BY <1>3, <1>t, ReturnTyped DEF CallerKilled
<1>4. CASE UNCHANGED cvars
  BY <1>4, <1>t DEF cvars, CallersOK
<1>. QED
  BY <1>1, <1>2, <1>3, <1>4
  DEF INext, IActions, BackendUp, BackendExits, BackendHangs, UserEvicts, LimitsAreSet,
      StateIsLost, TickClock, vars

LEMMA BackendsPart ==
  ASSUME ITypeOK, [INext]_vars
  PROVE  BackendsOK'
<1>t. BackendsOK
  BY DEF ITypeOK
<1>1. ASSUME NEW c \in Callers, Start(c)
      PROVE  BackendsOK'
  <2>1. req[c].name \in ModelNames /\ req[c].name # Empty
    BY <1>1, RequestOfCall, InferenceAssumption DEF Start
  <2>. QED
    BY <1>1, <1>t, <2>1 DEF Start, BackendsOK, BackendStatus, counters
<1>2. ASSUME NEW c \in Callers, CallerKilled(c)
      PROVE  BackendsOK'
  <2>1. forgotten' \subseteq Pids
    BY <1>2, <1>t DEF CallerKilled, BackendsOK, ITypeOK, CallersOK, Starting, TargetKnown
  <2>. QED
    BY <1>2, <1>t, <2>1, RequestOfCall DEF CallerKilled, BackendsOK
<1>3. ASSUME NEW p \in Pids, BackendUp(p) \/ BackendExits(p) \/ BackendHangs(p)
      PROVE  BackendsOK'
  BY <1>3, <1>t DEF BackendUp, BackendExits, BackendHangs, Running, BackendsOK,
                    BackendStatus, counters
<1>4. ASSUME NEW n \in ModelNames, UserEvicts(n)
      PROVE  BackendsOK'
  BY <1>4, <1>t DEF UserEvicts, BackendsOK
<1>5. ASSUME NEW c \in Callers, Register(c)
      PROVE  BackendsOK'
  <2>1. forgotten' \subseteq Pids
    BY <1>5, <1>t DEF Register, BackendsOK, ITypeOK, CallersOK, TargetKnown
  <2>. QED
    BY <1>5, <1>t, <2>1 DEF Register, BackendsOK, counters
<1>6. CASE StateIsLost
  <2>1. \A i \in Loaded(models) : models[i].pid \in Pids
    BY LoadedRecord DEF ModelRecord, ITypeOK
  <2>2. forgotten' \subseteq Pids
    BY <1>6, <1>t, <2>1 DEF StateIsLost, BackendsOK
  <2>. QED
    BY <1>6, <1>t, <2>2 DEF StateIsLost, BackendsOK
<1>7. CASE UNCHANGED bvars
  BY <1>7, <1>t DEF bvars, counters, BackendsOK
<1>. QED
  BY <1>1, <1>2, <1>3, <1>4, <1>5, <1>6, <1>7
  DEF INext, IActions, Step, Admit, LookUp, Probe, Attach, Replace, StartFails,
      WaitHealthy, WaitFails, Chat, Release, LimitsAreSet, TickClock, vars

(***************************************************************************)
(* At every point of a call its locals are what the next step needs: the   *)
(* pid that is probed, attached or signalled was read from a record or     *)
(* returned by fork, and the request outlives every step that uses it.     *)
(***************************************************************************)
THEOREM CallsTyped == ISpec => []ITypeOK
<1>1. IInit => ITypeOK
  BY DEF IInit, Init, ITypeOK, TypeOK, CallersOK, BackendsOK, HistoryOK, Locations,
         TargetKnown, BackendStatus
<1>2. ITypeOK /\ [INext]_vars => ITypeOK'
  <2>1. HistoryOK /\ [INext]_vars => HistoryOK'
    BY DEF HistoryOK, INext, Remember, BeingContested, vars, hvars
  <2>. QED
    BY <2>1, SchedulerPart, CallersPart, BackendsPart DEF ITypeOK
<1>. QED
  BY <1>1, <1>2, PTL DEF ISpec

-----------------------------------------------------------------------------
(* One record per model, whatever the callers do.                          *)

LEMMA UniqueStep ==
  ASSUME ITypeOK, OneRecordPerModel, [INext]_vars
  PROVE  OneRecordPerModel'
<1>t. TypeOK
  BY DEF ITypeOK
<1>1. ASSUME NEW c \in Callers, NEW r \in Requests, Admit(c, r)
      PROVE  OneRecordPerModel'
  BY <1>1, <1>t, AdmitKeeps, NamesKeptUnique DEF Admit
<1>2. ASSUME NEW c \in Callers, Attach(c) \/ Register(c)
      PROVE  OneRecordPerModel'
  BY <1>2, <1>t, MarkLoadedUnique DEF Attach, Register
<1>3. ASSUME NEW c \in Callers, Replace(c)
      PROVE  OneRecordPerModel'
  BY <1>3, <1>t, EvictKeeps, NamesKeptUnique DEF Replace
<1>4. ASSUME NEW c \in Callers, Release(c)
      PROVE  OneRecordPerModel'
  BY <1>4, <1>t, UnloadedKeeps, NamesKeptUnique DEF Release
<1>5. ASSUME NEW n \in ModelNames, UserEvicts(n)
      PROVE  OneRecordPerModel'
  BY <1>5, <1>t, EvictKeeps, NamesKeptUnique DEF UserEvicts
<1>6. CASE StateIsLost
  BY <1>6 DEF StateIsLost, ReinitState, OneRecordPerModel, Loaded
<1>7. CASE UNCHANGED models
  BY <1>7 DEF OneRecordPerModel, Loaded
<1>. QED
  BY <1>1, <1>2, <1>3, <1>4, <1>5, <1>6, <1>7
  DEF INext, IActions, Step, LookUp, Probe, Start, StartFails, WaitHealthy, WaitFails, Chat,
      CallerKilled, BackendUp, BackendExits, BackendHangs, LimitsAreSet, ConfigureLimits,
      TickClock, Tick, tables, svars, vars

-----------------------------------------------------------------------------
(* Reference counts.                                                       *)

LEMMA HoldersFinite ==
  ASSUME NEW n
  PROVE  IsFiniteSet(Holders(n)) /\ Cardinality(Holders(n)) \in Nat
<1>1. Holders(n) \subseteq Callers
  BY DEF Holders
<1>2. IsFiniteSet(Holders(n))
  BY <1>1, InferenceAssumption, FS_Subset
<1>. QED
  BY <1>2, FS_CardinalityType

\* Every record was there before, with the same users and backend.
RecordsKept ==
  \A i \in Loaded(models)' : /\ i \in Loaded(models)
                             /\ models'[i].name = models[i].name
                             /\ models'[i].refcount = models[i].refcount
                             /\ models'[i].pid = models[i].pid

\* No caller takes or leaves a model, and no reference count changes.
Quiet ==
  /\ \A n \in ModelNames : Holders(n)' = Holders(n)
  /\ RecordsKept
  /\ UNCHANGED leaked

LEMMA QuietBacked ==
  ASSUME ITypeOK, RefcountsBacked, Quiet
  PROVE  RefcountsBacked'
<1>. SUFFICES ASSUME NEW n \in ModelNames, NEW i \in SlotsNamed(models, n)'
              PROVE  models'[i].refcount <= Cardinality(Holders(n)') + leaked'[n]
  BY DEF RefcountsBacked
<1>1. i \in SlotsNamed(models, n) /\ models'[i].refcount = models[i].refcount
  BY DEF Quiet, RecordsKept, SlotsNamed
<1>. QED
  BY <1>1 DEF Quiet, RefcountsBacked

\* A caller that is neither before nor after the step in Holding.
LEMMA HoldersKept ==
  ASSUME ITypeOK, NEW c \in Callers, pc[c] \notin Holding,
         NEW to \in Locations \ Holding, Goto(c, to),
         \A d \in Callers \ {c} : req'[d] = req[d]
  PROVE  \A n : Holders(n)' = Holders(n)
BY DEF ITypeOK, CallersOK, Goto, Holders

LEMMA EvictQuiet ==
  ASSUME TypeOK, NEW S, models' = EvictSlots(models, S)
  PROVE  RecordsKept
BY EvictSlotsType DEF TypeOK, Loaded, RecordsKept

LEMMA AdmitQuiet ==
  ASSUME TypeOK, NEW c, NEW r, NEW allowed, AdmitModelJob(c, r, allowed)
  PROVE  RecordsKept
<1>1. CASE AdmitLoadedModel(r)
  <2>1. PICK i \in ModelSlots :
          /\ IsFirst(i, SlotsNamed(models, r.name))
          /\ models' = [models EXCEPT ![i].last_used = now]
    BY <1>1 DEF AdmitLoadedModel
  <2>2. i \in Loaded(models) /\ models[i] \in ModelRecord
    BY <2>1, LoadedRecord DEF IsFirst, SlotsNamed
  <2>. QED
    BY <2>1, <2>2 DEF TypeOK, Loaded, ModelRecord, RecordsKept
<1>2. CASE AdmitNewModel(c, r, allowed)
  BY <1>2, EvictQuiet DEF AdmitNewModel
<1>. QED
  BY <1>1, <1>2 DEF AdmitModelJob

LEMMA LostQuiet ==
  ASSUME ReinitState
  PROVE  RecordsKept
BY DEF ReinitState, RecordsKept, Loaded

\* A caller takes the model and mark_model_loaded counts it.
LEMMA TakeBacked ==
  ASSUME ITypeOK, RefcountsBacked, NEW c \in Callers,
         pc[c] \notin Holding \cup {"idle"}, Goto(c, "chat"),
         NEW pid, MarkModelLoaded(req[c], pid), UNCHANGED <<req, leaked>>
  PROVE  RefcountsBacked'
<1>. SUFFICES ASSUME NEW n \in ModelNames, NEW i \in SlotsNamed(models, n)'
              PROVE  models'[i].refcount <= Cardinality(Holders(n)') + leaked'[n]
  BY DEF RefcountsBacked
<1>t. TypeOK /\ leaked[n] \in Nat /\ Cardinality(Holders(n)) \in Nat
  BY HoldersFinite DEF ITypeOK, BackendsOK
<1>1. CASE n # req[c].name
  <2>1. Holders(n)' = Holders(n)
    BY <1>1 DEF Holders, Goto, ITypeOK, CallersOK
  <2>2. i \in SlotsNamed(models, n) /\ models'[i].refcount = models[i].refcount
    <3>1. CASE MarkLoadedAgain(req[c], pid)
      BY <1>1, <1>t, <3>1
      DEF MarkLoadedAgain, Taken, IsFirst, SlotsNamed, Loaded, TypeOK
    <3>2. CASE MarkLoadedNew(req[c], pid)
      BY <1>1, <1>t, <3>2
      DEF MarkLoadedNew, IsFirst, FreeSlots, SlotsNamed, Loaded, TypeOK
    <3>3. CASE MarkLoadedNoSlot(req[c])
      BY <3>3 DEF MarkLoadedNoSlot, SlotsNamed, Loaded
    <3>. QED
      BY <3>1, <3>2, <3>3 DEF MarkModelLoaded
  <2>. QED
    BY <2>1, <2>2 DEF RefcountsBacked
<1>2. CASE n = req[c].name
  <2>1. c \notin Holders(n)
    BY DEF Holders
  <2>2. Holders(n)' = Holders(n) \cup {c}
    BY <1>2 DEF Holders, Holding, Goto, ITypeOK, CallersOK
  <2>3. Cardinality(Holders(n)') = Cardinality(Holders(n)) + 1
    BY <2>1, <2>2, HoldersFinite, FS_AddElement
  <2>4. CASE MarkLoadedAgain(req[c], pid)
    <3>1. PICK k \in ModelSlots :
            /\ k \in SlotsNamed(models, n)
            /\ models' = [models EXCEPT ![k] = Taken(models[k], pid)]
      BY <1>2, <2>4 DEF MarkLoadedAgain, IsFirst
    <3>2. models[k].refcount \in Nat
      BY <3>1, <1>t, LoadedRecord DEF SlotsNamed, ModelRecord
    <3>3. CASE i = k
      <4>1. models'[i].refcount = models[k].refcount + 1
        BY <3>1, <3>3, <1>t DEF Taken, TypeOK
      <4>2. models[k].refcount <= Cardinality(Holders(n)) + leaked[n]
        BY <3>1 DEF RefcountsBacked
      <4>. QED
        BY <4>1, <4>2, <3>2, <2>3, <1>t
    <3>4. CASE i # k
      <4>1. i \in SlotsNamed(models, n) /\ models'[i] = models[i]
        BY <3>1, <3>4, <1>t DEF SlotsNamed, Loaded, TypeOK
      <4>2. models[i].refcount \in Nat
        BY <4>1, <1>t, LoadedRecord DEF SlotsNamed, ModelRecord
      <4>3. models[i].refcount <= Cardinality(Holders(n)) + leaked[n]
        BY <4>1 DEF RefcountsBacked
      <4>. QED
        BY <4>1, <4>2, <4>3, <2>3, <1>t
    <3>. QED
      BY <3>3, <3>4
  <2>5. CASE MarkLoadedNew(req[c], pid)
    <3>1. models'[i].refcount = 1
      BY <1>2, <1>t, <2>5
      DEF MarkLoadedNew, IsFirst, FreeSlots, SlotsNamed, Loaded, TypeOK
    <3>. QED
      BY <3>1, <2>3, <1>t
  <2>6. CASE MarkLoadedNoSlot(req[c])
    BY <1>2, <2>6 DEF MarkLoadedNoSlot, SlotsNamed, Loaded
  <2>. QED
    BY <2>4, <2>5, <2>6 DEF MarkModelLoaded
<1>. QED
  BY <1>1, <1>2

\* A caller leaves the model.
LEMMA HoldersLeft ==
  ASSUME ITypeOK, NEW c \in Callers, pc[c] \in Holding, Return(c),
         NEW n \in ModelNames
  PROVE  /\ n # req[c].name => Holders(n)' = Holders(n)
         /\ n = req[c].name =>
              Cardinality(Holders(n)') = Cardinality(Holders(n)) - 1
<1>1. Holders(n)' = Holders(n) \ {c}
  BY DEF Holders, Holding, Return, Goto, ITypeOK, CallersOK
<1>2. n # req[c].name => c \notin Holders(n)
  BY DEF Holders
<1>3. n = req[c].name => c \in Holders(n)
  BY DEF Holders
<1>4. n # req[c].name => Holders(n)' = Holders(n)
  BY <1>1, <1>2
<1>5. n = req[c].name => Cardinality(Holders(n) \ {c}) = Cardinality(Holders(n)) - 1
  BY <1>3, HoldersFinite, FS_RemoveElement
<1>. QED
  BY <1>1, <1>4, <1>5

LEMMA ReleaseBacked ==
  ASSUME ITypeOK, OneRecordPerModel, RefcountsBacked, NEW c \in Callers, Release(c)
  PROVE  RefcountsBacked'
<1>. SUFFICES ASSUME NEW n \in ModelNames, NEW i \in SlotsNamed(models, n)'
              PROVE  models'[i].refcount <= Cardinality(Holders(n)') + leaked'[n]
  BY DEF RefcountsBacked
<1>0. pc[c] \in Holding /\ Return(c) /\ MarkModelUnloaded(req[c].name) /\ UNCHANGED leaked
  BY DEF Release, Holding, bvars
<1>t. /\ TypeOK /\ leaked[n] \in Nat /\ Cardinality(Holders(n)) \in Nat
      /\ Cardinality(Holders(n)') \in Nat
  <2>1. IsFiniteSet(Holders(n)')
    <3>1. Holders(n)' \subseteq Callers
      BY DEF Holders
    <3>. QED
      BY <3>1, InferenceAssumption, FS_Subset
  <2>. QED
    BY <2>1, HoldersFinite, FS_CardinalityType DEF ITypeOK, BackendsOK
<1>1. CASE SlotsNamed(models, req[c].name) = {}
  <2>1. i \in SlotsNamed(models, n) /\ models'[i] = models[i] /\ n # req[c].name
    BY <1>0, <1>1 DEF MarkModelUnloaded, SlotsNamed, Loaded
  <2>. QED
    BY <2>1, <1>0, HoldersLeft DEF RefcountsBacked
<1>2. CASE SlotsNamed(models, req[c].name) # {}
  <2>1. PICK k \in ModelSlots :
          /\ k \in SlotsNamed(models, req[c].name)
          /\ models' = [models EXCEPT ![k] = Released(models[k])]
    BY <1>0, <1>2 DEF MarkModelUnloaded, IsFirst
  <2>2. CASE i = k
    <3>1. n = req[c].name /\ models'[i] = Released(models[k])
      BY <2>1, <2>2, <1>t DEF SlotsNamed, Loaded, TypeOK, Released
    <3>2. models[k].refcount \in Nat
      BY <2>1, <1>t, LoadedRecord DEF SlotsNamed, ModelRecord
    <3>3. models[k].refcount <= Cardinality(Holders(n)) + leaked[n]
      BY <2>1, <3>1 DEF RefcountsBacked
    <3>4. Cardinality(Holders(n)') = Cardinality(Holders(n)) - 1
      BY <3>1, <1>0, HoldersLeft
    <3>. QED
      BY <3>1, <3>2, <3>3, <3>4, <1>0, <1>t DEF Released
  <2>3. CASE i # k
    <3>1. i \in SlotsNamed(models, n) /\ models'[i] = models[i]
      BY <2>1, <2>3, <1>t DEF SlotsNamed, Loaded, TypeOK
    <3>2. n # req[c].name
      BY <2>1, <2>3, <3>1 DEF OneRecordPerModel, SlotsNamed
    <3>. QED
      BY <3>1, <3>2, <1>0, HoldersLeft DEF RefcountsBacked
  <2>. QED
    BY <2>2, <2>3
<1>. QED
  BY <1>1, <1>2

\* A caller that is killed while it holds the model is counted as leaked.
LEMMA KillBacked ==
  ASSUME ITypeOK, RefcountsBacked, NEW c \in Callers, CallerKilled(c)
  PROVE  RefcountsBacked'
<1>0. Return(c) /\ UNCHANGED models
  BY DEF CallerKilled, svars
<1>1. CASE pc[c] \notin Holding
  <2>1. \A n : Holders(n)' = Holders(n)
    BY <1>0, <1>1, HoldersKept
    DEF Return, Locations, Holding, ITypeOK, CallersOK
  <2>. QED
    BY <1>0, <1>1, <2>1, QuietBacked DEF CallerKilled, Quiet, RecordsKept, Loaded
<1>2. CASE pc[c] \in Holding
  <2>. SUFFICES ASSUME NEW n \in ModelNames, NEW i \in SlotsNamed(models, n)
                PROVE  models[i].refcount <= Cardinality(Holders(n)') + leaked'[n]
    BY <1>0 DEF RefcountsBacked, SlotsNamed, Loaded
  <2>1. models[i].refcount <= Cardinality(Holders(n)) + leaked[n]
    BY DEF RefcountsBacked
  <2>2. leaked[n] \in Nat /\ Cardinality(Holders(n)) \in Nat
    BY HoldersFinite DEF ITypeOK, BackendsOK
  <2>3. CASE n # req[c].name
    <3>1. leaked'[n] = leaked[n]
      BY <1>2, <2>3 DEF CallerKilled, ITypeOK, BackendsOK
    <3>. QED
      BY <1>0, <1>2, <2>1, <2>3, <3>1, HoldersLeft
  <2>4. CASE n = req[c].name
    <3>1. leaked'[n] = leaked[n] + 1
      BY <1>2, <2>4 DEF CallerKilled, ITypeOK, BackendsOK
    <3>2. Cardinality(Holders(n)') = Cardinality(Holders(n)) - 1
      BY <1>0, <1>2, <2>4, HoldersLeft
    <3>. QED
      BY <2>1, <2>2, <3>1, <3>2
  <2>. QED
    BY <2>3, <2>4
<1>. QED
  BY <1>1, <1>2

\* Every step but four leaves users and counts alone.
LEMMA OthersQuiet ==
  ASSUME ITypeOK, IActions
  PROVE  \/ Quiet
         \/ \E c \in Callers : Attach(c) \/ Register(c) \/ Release(c) \/ CallerKilled(c)
<1>t. TypeOK /\ CallersOK
  BY DEF ITypeOK
<1>s. UNCHANGED models => RecordsKept
  BY DEF RecordsKept, Loaded
<1>h. UNCHANGED cvars => \A n : Holders(n)' = Holders(n)
  BY DEF cvars, Holders
<1>1. ASSUME NEW c \in Callers, NEW r \in Requests, Admit(c, r)
      PROVE  Quiet
  <2>1. \A n : Holders(n)' = Holders(n)
    <3>1. CASE Goto(c, "lookup") /\ req' = [req EXCEPT ![c] = r]
      BY <1>1, <3>1, <1>t, HoldersKept DEF Admit, CallersOK, Locations, Holding
    <3>. QED
      BY <1>1, <3>1, <1>h DEF Admit
  <2>. QED
    BY <1>1, <1>t, <2>1, AdmitQuiet DEF Admit, Quiet, bvars
<1>2. ASSUME NEW c \in Callers,
             \/ LookUp(c) \/ Probe(c) \/ Start(c) \/ StartFails(c)
             \/ WaitHealthy(c) \/ WaitFails(c) \/ Replace(c)
      PROVE  Quiet
  <2>1. pc[c] \notin Holding
    BY <1>2 DEF LookUp, Probe, Start, StartFails, WaitHealthy, WaitFails,
                Replace, Holding
  <2>2. PICK to \in Locations \ Holding : Goto(c, to)
    BY <1>2 DEF LookUp, Probe, Start, StartFails, WaitHealthy, WaitFails,
                Replace, Return, Locations, Holding
  <2>3. \A d \in Callers \ {c} : req'[d] = req[d]
    BY <1>2, <1>t DEF LookUp, Probe, Start, StartFails, WaitHealthy, WaitFails,
                      Replace, Return, CallersOK
  <2>4. UNCHANGED leaked
    BY <1>2 DEF LookUp, Probe, Start, StartFails, WaitHealthy, WaitFails,
                Replace, bvars
  <2>5. UNCHANGED models \/ \E S : models' = EvictSlots(models, S)
    BY <1>2 DEF LookUp, Probe, Start, StartFails, WaitHealthy, WaitFails,
                Replace, EvictModel, svars, tables
  <2>. QED
    BY <2>1, <2>2, <2>3, <2>4, <2>5, <1>t, <1>s, HoldersKept, EvictQuiet
    DEF Quiet
<1>3. ASSUME NEW c \in Callers, Chat(c)
      PROVE  Quiet
  <2>1. \A n : Holders(n)' = Holders(n)
    BY <1>3, <1>t DEF Chat, Goto, Holders, Holding, CallersOK
  <2>. QED
    BY <1>3, <2>1, <1>s DEF Chat, Quiet, bvars, svars
<1>4. ASSUME NEW n \in ModelNames, UserEvicts(n)
      PROVE  Quiet
  BY <1>4, <1>t, <1>h, EvictQuiet DEF UserEvicts, EvictModel, Quiet
<1>5. CASE StateIsLost
  BY <1>5, <1>h, LostQuiet DEF StateIsLost, Quiet
<1>6. CASE UNCHANGED <<models, cvars, leaked>>
  BY <1>6, <1>s, <1>h DEF Quiet
<1>. QED
  BY <1>1, <1>2, <1>3, <1>4, <1>5, <1>6
  DEF IActions, Step, BackendUp, BackendExits, BackendHangs, LimitsAreSet,
      ConfigureLimits, TickClock, Tick, tables, svars, bvars

LEMMA BackedStep ==
  ASSUME ITypeOK, OneRecordPerModel, RefcountsBacked, [INext]_vars
  PROVE  RefcountsBacked'
<1>1. CASE UNCHANGED vars
  BY <1>1 DEF vars, svars, cvars, bvars, RefcountsBacked, Holders, SlotsNamed, Loaded
<1>2. ASSUME NEW c \in Callers, Attach(c) \/ Register(c)
      PROVE  RefcountsBacked'
  BY <1>2, TakeBacked DEF Attach, Register, Holding, bvars
<1>. QED
  BY <1>1, <1>2, OthersQuiet, QuietBacked, ReleaseBacked, KillBacked DEF INext

(***************************************************************************)
(* No reference count exceeds the calls that hold the model, for any       *)
(* number of callers, models and backends and any interleaving of their    *)
(* steps with evictions: a model cannot stay pinned in memory after its    *)
(* callers have returned.  The counts alone are not inductive: a release   *)
(* decrements the first record of its model, so there must be only one.    *)
(***************************************************************************)
THEOREM RefcountsAreBacked == ISpec => []RefcountsBacked
<1>1. IInit => ITypeOK /\ OneRecordPerModel /\ RefcountsBacked
  <2>1. IInit => Loaded(models) = {}
    BY DEF IInit, Init, Loaded
  <2>2. IInit => ITypeOK
    BY DEF IInit, Init, ITypeOK, TypeOK, CallersOK, BackendsOK, HistoryOK, Locations,
           TargetKnown, BackendStatus
  <2>. QED
    BY <2>1, <2>2 DEF OneRecordPerModel, RefcountsBacked, SlotsNamed
<1>2. ITypeOK /\ OneRecordPerModel /\ RefcountsBacked /\ [INext]_vars
        => (OneRecordPerModel /\ RefcountsBacked)'
  BY UniqueStep, BackedStep
<1>. QED
  BY <1>1, <1>2, CallsTyped, PTL DEF ISpec

-----------------------------------------------------------------------------
(* Backends and the models they serve.                                     *)

RecordsServed ==
  \A n \in ModelNames : \A i \in SlotsNamed(models, n) :
    backends[models[i].pid].model = n

CallsServed ==
  \A c \in Callers : target[c] # NoPid => backends[target[c]].model = req[c].name

LEMMA ServedParts ==
  ASSUME TypeOK
  PROVE  BackendServesItsModel <=> RecordsServed /\ CallsServed
<1>1. \A i \in Loaded(models) : models[i].name \in ModelNames
  BY LoadedRecord DEF ModelRecord
<1>. QED
  BY <1>1 DEF BackendServesItsModel, RecordsServed, CallsServed, SlotsNamed

\* A backend that is recorded or held has been started.
LEMMA InUseStarted ==
  ASSUME ITypeOK, RecordsServed, CallsServed
  PROVE  /\ \A i \in Loaded(models) : backends[models[i].pid].status # "none"
         /\ \A c \in Callers : target[c] # NoPid =>
                                 backends[target[c]].status # "none"
<1>1. ASSUME NEW i \in Loaded(models)
      PROVE  backends[models[i].pid].status # "none"
  <2>1. models[i].name \in ModelNames /\ models[i].pid \in Pids
    BY <1>1, LoadedRecord DEF ModelRecord, ITypeOK
  <2>2. backends[models[i].pid].model # Empty
    BY <1>1, <2>1, InferenceAssumption DEF RecordsServed, SlotsNamed
  <2>. QED
    BY <2>1, <2>2 DEF ITypeOK, BackendsOK
<1>2. ASSUME NEW c \in Callers, target[c] # NoPid
      PROVE  backends[target[c]].status # "none"
  <2>1. pc[c] # "idle" /\ target[c] \in Pids
    BY <1>2 DEF ITypeOK, CallersOK
  <2>2. backends[target[c]].model # Empty
    BY <1>2, <2>1, RequestOfCall, InferenceAssumption DEF CallsServed
  <2>. QED
    BY <2>1, <2>2 DEF ITypeOK, BackendsOK
<1>. QED
  BY <1>1, <1>2

\* A step after which every record has the backend it had, or the backend of
\* a call for the same model, and no backend changes its model.
LEMMA RecordsServedKept ==
  ASSUME ITypeOK, RecordsServed,
         \A p \in Pids : backends[p].status # "none" => backends'[p].model = backends[p].model,
         \A i \in Loaded(models) : backends[models[i].pid].status # "none",
         \A i \in Loaded(models)' : /\ i \in Loaded(models)
                                    /\ models'[i].name = models[i].name
                                    /\ models'[i].pid = models[i].pid
  PROVE  RecordsServed'
<1>1. \A i \in Loaded(models) : models[i].pid \in Pids
  BY LoadedRecord DEF ModelRecord, ITypeOK
<1>. QED
  BY <1>1 DEF RecordsServed, SlotsNamed

LEMMA UnloadedPids ==
  ASSUME TypeOK, NEW name, MarkModelUnloaded(name)
  PROVE  \A i \in Loaded(models)' : /\ i \in Loaded(models)
                                    /\ models'[i].name = models[i].name
                                    /\ models'[i].pid = models[i].pid
<1>1. CASE SlotsNamed(models, name) = {}
  BY <1>1 DEF MarkModelUnloaded, Loaded
<1>2. CASE SlotsNamed(models, name) # {}
  <2>1. PICK k \in ModelSlots :
          /\ k \in Loaded(models)
          /\ models' = [models EXCEPT ![k] = Released(models[k])]
    BY <1>2 DEF MarkModelUnloaded, IsFirst, SlotsNamed
  <2>2. Released(models[k]).name = models[k].name /\ Released(models[k]).pid = models[k].pid
    BY DEF Released
  <2>. QED
    BY <2>1, <2>2 DEF TypeOK, Loaded
<1>. QED
  BY <1>1, <1>2

\* The record that mark_model_loaded writes has the caller's backend.
LEMMA LoadedServed ==
  ASSUME TypeOK, RecordsServed, NEW r, NEW pid, MarkModelLoaded(r, pid),
         backends[pid].model = r.name, UNCHANGED backends
  PROVE  RecordsServed'
<1>. SUFFICES ASSUME NEW n \in ModelNames, NEW i \in SlotsNamed(models, n)'
              PROVE  backends[models'[i].pid].model = n
  BY DEF RecordsServed
<1>1. CASE MarkLoadedAgain(r, pid)
  <2>1. PICK k \in ModelSlots :
          /\ k \in SlotsNamed(models, r.name)
          /\ models' = [models EXCEPT ![k] = Taken(models[k], pid)]
    BY <1>1 DEF MarkLoadedAgain, IsFirst
  <2>2. Taken(models[k], pid).name = r.name /\ Taken(models[k], pid).pid = pid
    BY <2>1 DEF Taken, SlotsNamed
  <2>. QED
    BY <2>1, <2>2 DEF RecordsServed, SlotsNamed, Loaded, TypeOK
<1>2. CASE MarkLoadedNew(r, pid)
  <2>. DEFINE rec == [name |-> r.name, ram |-> r.ram, vram |-> r.vram,
                      pid |-> pid, refcount |-> 1, last_used |-> now]
  <2>1. PICK k \in ModelSlots : models' = [models EXCEPT ![k] = rec]
    BY <1>2 DEF MarkLoadedNew
  <2>2. rec.name = r.name /\ rec.pid = pid
    OBVIOUS
  <2>. HIDE DEF rec
  <2>. QED
    BY <2>1, <2>2 DEF RecordsServed, SlotsNamed, Loaded, TypeOK
<1>3. CASE MarkLoadedNoSlot(r)
  BY <1>3 DEF MarkLoadedNoSlot, RecordsServed, SlotsNamed, Loaded
<1>. QED
  BY <1>1, <1>2, <1>3 DEF MarkModelLoaded

LEMMA RecordsServedStep ==
  ASSUME ITypeOK, RecordsServed, CallsServed, [INext]_vars
  PROVE  RecordsServed'
<1>t. TypeOK /\ \A i \in Loaded(models) : backends[models[i].pid].status # "none"
  BY InUseStarted DEF ITypeOK
<1>k. RecordsKept /\ UNCHANGED backends => RecordsServed'
  BY <1>t, RecordsServedKept DEF RecordsKept
<1>s. UNCHANGED models => RecordsKept
  BY DEF RecordsKept, Loaded
<1>1. ASSUME NEW c \in Callers, NEW r \in Requests, Admit(c, r)
      PROVE  RecordsServed'
  BY <1>1, <1>t, <1>k, AdmitQuiet DEF Admit, bvars
<1>2. ASSUME NEW c \in Callers, Attach(c) \/ Register(c)
      PROVE  RecordsServed'
  <2>1. target[c] # NoPid
    BY <1>2, InferenceAssumption
    DEF Attach, Register, ITypeOK, CallersOK, TargetKnown
  <2>. QED
    BY <1>2, <1>t, <2>1, LoadedServed DEF Attach, Register, CallsServed, bvars
<1>3. ASSUME NEW c \in Callers, Start(c)
      PROVE  RecordsServed'
  <2>1. \A p \in Pids : backends[p].status # "none" => backends'[p] = backends[p]
    BY <1>3 DEF Start, ITypeOK, BackendsOK
  <2>2. RecordsKept
    BY <1>3, <1>s DEF Start, svars
  <2>. QED
    BY <2>1, <2>2, <1>t, RecordsServedKept DEF RecordsKept
<1>4. ASSUME NEW c \in Callers, Replace(c)
      PROVE  RecordsServed'
  BY <1>4, <1>t, <1>k, EvictQuiet DEF Replace, EvictModel, bvars
<1>5. ASSUME NEW c \in Callers, Release(c)
      PROVE  RecordsServed'
  BY <1>5, <1>t, UnloadedPids, RecordsServedKept DEF Release, bvars
<1>6. ASSUME NEW p \in Pids, BackendUp(p) \/ BackendExits(p) \/ BackendHangs(p)
      PROVE  RecordsServed'
  <2>1. \A q \in Pids : backends'[q].model = backends[q].model
    BY <1>6 DEF BackendUp, BackendExits, BackendHangs, ITypeOK, BackendsOK
  <2>2. RecordsKept
    BY <1>6, <1>s DEF BackendUp, BackendExits, BackendHangs, svars
  <2>. QED
    BY <2>1, <2>2, <1>t, RecordsServedKept DEF RecordsKept
<1>7. ASSUME NEW n \in ModelNames, UserEvicts(n)
      PROVE  RecordsServed'
  BY <1>7, <1>t, <1>k, EvictQuiet DEF UserEvicts, EvictModel
<1>8. CASE StateIsLost
  BY <1>8, <1>k, LostQuiet DEF StateIsLost
<1>9. CASE UNCHANGED <<models, backends>>
  BY <1>9, <1>k, <1>s
<1>. QED
  BY <1>1, <1>2, <1>3, <1>4, <1>5, <1>6, <1>7, <1>8, <1>9
  DEF INext, IActions, Step, LookUp, Probe, StartFails, WaitHealthy, WaitFails, Chat,
      CallerKilled, LimitsAreSet, ConfigureLimits, TickClock, Tick, tables, svars, bvars, vars

LEMMA CallsServedStep ==
  ASSUME ITypeOK, RecordsServed, CallsServed, [INext]_vars
  PROVE  CallsServed'
<1>t. TypeOK /\ CallersOK /\ BackendsOK
  BY DEF ITypeOK
<1>1. ASSUME NEW c \in Callers, NEW r \in Requests, Admit(c, r)
      PROVE  CallsServed'
  <2>1. target[c] = NoPid
    BY <1>1, <1>t DEF Admit, CallersOK
  <2>2. UNCHANGED <<target, backends>> /\ \A d \in Callers \ {c} : req'[d] = req[d]
    BY <1>1, <1>t DEF Admit, CallersOK, cvars, bvars
  <2>. QED
    BY <2>1, <2>2 DEF CallsServed
<1>2. ASSUME NEW c \in Callers, LookUp(c)
      PROVE  CallsServed'
  <2>1. req[c].name \in ModelNames
    BY <1>2, RequestOfCall DEF LookUp
  <2>2. \/ UNCHANGED target
        \/ \E i \in SlotsNamed(models, req[c].name) :
              target' = [target EXCEPT ![c] = models[i].pid]
    BY <1>2 DEF LookUp, IsFirst
  <2>. QED
    BY <1>2, <2>1, <2>2, <1>t DEF LookUp, CallsServed, RecordsServed, CallersOK, bvars
<1>3. ASSUME NEW c \in Callers, Start(c)
      PROVE  CallsServed'
  <2>1. PICK p \in Pids :
          /\ backends[p].status = "none"
          /\ backends' = [backends EXCEPT ![p] = [status |-> "starting",
                                                  model |-> req[c].name]]
          /\ target' = [target EXCEPT ![c] = p]
    BY <1>3 DEF Start
  <2>2. \A d \in Callers : target[d] # NoPid => target[d] # p /\ target[d] \in Pids
    BY <2>1, <1>t, InUseStarted DEF CallersOK
  <2>3. UNCHANGED req
    BY <1>3 DEF Start
  <2>. QED
    BY <2>1, <2>2, <2>3, <1>t DEF CallsServed, CallersOK, BackendsOK
<1>4. ASSUME NEW c \in Callers, Return(c), UNCHANGED backends
      PROVE  CallsServed'
  BY <1>4, <1>t DEF Return, CallsServed, CallersOK
<1>5. ASSUME NEW p \in Pids, BackendUp(p) \/ BackendExits(p) \/ BackendHangs(p)
      PROVE  CallsServed'
  <2>1. \A q \in Pids : backends'[q].model = backends[q].model
    BY <1>5, <1>t DEF BackendUp, BackendExits, BackendHangs, BackendsOK
  <2>2. UNCHANGED <<req, target>>
    BY <1>5 DEF BackendUp, BackendExits, BackendHangs, cvars
  <2>3. \A c \in Callers : target[c] # NoPid => target[c] \in Pids
    BY <1>t DEF CallersOK
  <2>. QED
    BY <2>1, <2>2, <2>3 DEF CallsServed
<1>6. CASE UNCHANGED <<req, target, backends>>
  BY <1>6 DEF CallsServed
<1>. QED
  BY <1>1, <1>2, <1>3, <1>4, <1>5, <1>6
  DEF INext, IActions, Step, Probe, Attach, Replace, StartFails, WaitHealthy, WaitFails,
      Register, Chat, Release, CallerKilled, UserEvicts, LimitsAreSet, StateIsLost,
      TickClock, bvars, cvars, vars

(***************************************************************************)
(* No call is answered by the backend of another model, for any number of  *)
(* callers, models and backends: a pid read from a record stays the pid of *)
(* a backend of that model although the record can be evicted, replaced or *)
(* overwritten before the pid is used.                                     *)
(***************************************************************************)
THEOREM CallsReachTheirModel == ISpec => []BackendServesItsModel
<1>1. IInit => RecordsServed /\ CallsServed
  BY DEF IInit, Init, RecordsServed, CallsServed, SlotsNamed, Loaded
<1>2. ITypeOK /\ RecordsServed /\ CallsServed /\ [INext]_vars
        => (RecordsServed /\ CallsServed)'
  BY RecordsServedStep, CallsServedStep
<1>3. ITypeOK /\ RecordsServed /\ CallsServed => BackendServesItsModel
  BY ServedParts DEF ITypeOK
<1>. QED
  BY <1>1, <1>2, <1>3, CallsTyped, PTL DEF ISpec

-----------------------------------------------------------------------------
(* Calls are counted.                                                      *)

\* A model with users and no record is stripped.
StrippedNoted ==
  \A n \in ModelNames : Holders(n) # {} /\ SlotsNamed(models, n) = {} => n \in stripped

\* What the last step of the history says of a model that is not stripped.
LEMMA NotStripped ==
  ASSUME Remember, NEW n \in ModelNames, n \notin stripped', Holders(n)' # {}
  PROVE  n \notin stripped /\ SlotsNamed(models, n)' # {}
BY DEF Remember, SlotsNamed, Loaded

LEMMA StrippedNotedStep ==
  ASSUME Remember
  PROVE  StrippedNoted'
BY NotStripped DEF StrippedNoted

\* The count of a model that is not stripped covers its users.
Counted(n) ==
  \A i \in SlotsNamed(models, n) : Cardinality(Holders(n)) <= models[i].refcount

LEMMA QuietCounted ==
  ASSUME Quiet, NEW n \in ModelNames, Counted(n)
  PROVE  Counted(n)'
<1>1. \A i \in SlotsNamed(models, n)' : /\ i \in SlotsNamed(models, n)
                                         /\ models'[i].refcount = models[i].refcount
  BY DEF Quiet, RecordsKept, SlotsNamed
<1>. QED
  BY <1>1 DEF Quiet, Counted

\* mark_model_loaded counts the caller, in the old record or in a new one.
LEMMA TakeCounted ==
  ASSUME ITypeOK, OneRecordPerModel, NEW c \in Callers,
         pc[c] \notin Holding \cup {"idle"}, Goto(c, "chat"),
         NEW pid, MarkModelLoaded(req[c], pid), UNCHANGED req,
         NEW n \in ModelNames, Counted(n),
         Holders(n) # {} => SlotsNamed(models, n) # {}
  PROVE  Counted(n)'
<1>. SUFFICES ASSUME NEW i \in SlotsNamed(models, n)'
              PROVE  Cardinality(Holders(n)') <= models'[i].refcount
  BY DEF Counted
<1>t. TypeOK /\ Cardinality(Holders(n)) \in Nat
  BY HoldersFinite DEF ITypeOK
<1>1. CASE n # req[c].name
  <2>1. Holders(n)' = Holders(n)
    BY <1>1 DEF Holders, Goto, ITypeOK, CallersOK
  <2>2. i \in SlotsNamed(models, n) /\ models'[i].refcount = models[i].refcount
    <3>1. CASE MarkLoadedAgain(req[c], pid)
      BY <1>1, <1>t, <3>1
      DEF MarkLoadedAgain, Taken, IsFirst, SlotsNamed, Loaded, TypeOK
    <3>2. CASE MarkLoadedNew(req[c], pid)
      BY <1>1, <1>t, <3>2
      DEF MarkLoadedNew, IsFirst, FreeSlots, SlotsNamed, Loaded, TypeOK
    <3>3. CASE MarkLoadedNoSlot(req[c])
      BY <3>3 DEF MarkLoadedNoSlot, SlotsNamed, Loaded
    <3>. QED
      BY <3>1, <3>2, <3>3 DEF MarkModelLoaded
  <2>. QED
    BY <2>1, <2>2 DEF Counted
<1>2. CASE n = req[c].name
  <2>1. c \notin Holders(n)
    BY DEF Holders
  <2>2. Holders(n)' = Holders(n) \cup {c}
    BY <1>2 DEF Holders, Holding, Goto, ITypeOK, CallersOK
  <2>3. Cardinality(Holders(n)') = Cardinality(Holders(n)) + 1
    BY <2>1, <2>2, HoldersFinite, FS_AddElement
  <2>4. CASE MarkLoadedAgain(req[c], pid)
    <3>1. PICK k \in ModelSlots :
            /\ k \in SlotsNamed(models, n)
            /\ models' = [models EXCEPT ![k] = Taken(models[k], pid)]
      BY <1>2, <2>4 DEF MarkLoadedAgain, IsFirst
    <3>2. models[k].refcount \in Nat
      BY <3>1, <1>t, LoadedRecord DEF SlotsNamed, ModelRecord
    <3>3. i = k
      BY <3>1, <1>t DEF SlotsNamed, Loaded, TypeOK, OneRecordPerModel
    <3>4. models'[i].refcount = models[k].refcount + 1
      BY <3>1, <3>3, <1>t DEF Taken, TypeOK
    <3>5. Cardinality(Holders(n)) <= models[k].refcount
      BY <3>1 DEF Counted
    <3>. QED
      BY <3>2, <3>4, <3>5, <2>3, <1>t
  <2>5. CASE MarkLoadedNew(req[c], pid)
    <3>1. models'[i].refcount = 1
      BY <1>2, <1>t, <2>5
      DEF MarkLoadedNew, IsFirst, FreeSlots, SlotsNamed, Loaded, TypeOK
    <3>2. Holders(n) = {}
      BY <1>2, <2>5 DEF MarkLoadedNew
    <3>3. Cardinality(Holders(n)) = 0
      BY <3>2, FS_EmptySet
    <3>. QED
      BY <3>1, <3>3, <2>3
  <2>6. CASE MarkLoadedNoSlot(req[c])
    BY <1>2, <2>6 DEF MarkLoadedNoSlot, SlotsNamed, Loaded
  <2>. QED
    BY <2>4, <2>5, <2>6 DEF MarkModelLoaded
<1>. QED
  BY <1>1, <1>2

LEMMA ReleaseCounted ==
  ASSUME ITypeOK, OneRecordPerModel, NEW c \in Callers, Release(c),
         NEW n \in ModelNames, Counted(n)
  PROVE  Counted(n)'
<1>. SUFFICES ASSUME NEW i \in SlotsNamed(models, n)'
              PROVE  Cardinality(Holders(n)') <= models'[i].refcount
  BY DEF Counted
<1>0. pc[c] \in Holding /\ Return(c) /\ MarkModelUnloaded(req[c].name)
  BY DEF Release, Holding
<1>t. TypeOK /\ Cardinality(Holders(n)) \in Nat
  BY HoldersFinite DEF ITypeOK
<1>1. CASE SlotsNamed(models, req[c].name) = {}
  <2>1. i \in SlotsNamed(models, n) /\ models'[i] = models[i] /\ n # req[c].name
    BY <1>0, <1>1 DEF MarkModelUnloaded, SlotsNamed, Loaded
  <2>. QED
    BY <2>1, <1>0, HoldersLeft DEF Counted
<1>2. CASE SlotsNamed(models, req[c].name) # {}
  <2>1. PICK k \in ModelSlots :
          /\ k \in SlotsNamed(models, req[c].name)
          /\ models' = [models EXCEPT ![k] = Released(models[k])]
    BY <1>0, <1>2 DEF MarkModelUnloaded, IsFirst
  <2>2. CASE i = k
    <3>1. n = req[c].name /\ models'[i] = Released(models[k])
      BY <2>1, <2>2, <1>t DEF SlotsNamed, Loaded, TypeOK, Released
    <3>2. models[k].refcount \in Nat
      BY <2>1, <1>t, LoadedRecord DEF SlotsNamed, ModelRecord
    <3>3. Cardinality(Holders(n)) <= models[k].refcount
      BY <2>1, <3>1 DEF Counted
    <3>4. Cardinality(Holders(n)') = Cardinality(Holders(n)) - 1
      BY <3>1, <1>0, HoldersLeft
    <3>5. Released(models[k]).refcount =
            IF models[k].refcount > 0 THEN models[k].refcount - 1 ELSE 0
      BY DEF Released
    <3>. QED
      BY <3>1, <3>2, <3>3, <3>4, <3>5, <1>t
  <2>3. CASE i # k
    <3>1. i \in SlotsNamed(models, n) /\ models'[i] = models[i]
      BY <2>1, <2>3, <1>t DEF SlotsNamed, Loaded, TypeOK
    <3>2. n # req[c].name
      BY <2>1, <2>3, <3>1 DEF OneRecordPerModel, SlotsNamed
    <3>. QED
      BY <3>1, <3>2, <1>0, HoldersLeft DEF Counted
  <2>. QED
    BY <2>2, <2>3
<1>. QED
  BY <1>1, <1>2

LEMMA KillCounted ==
  ASSUME ITypeOK, NEW c \in Callers, CallerKilled(c),
         NEW n \in ModelNames, Counted(n)
  PROVE  Counted(n)'
<1>0. Return(c) /\ UNCHANGED models
  BY DEF CallerKilled, svars
<1>. SUFFICES ASSUME NEW i \in SlotsNamed(models, n)
              PROVE  Cardinality(Holders(n)') <= models[i].refcount
  BY <1>0 DEF Counted, SlotsNamed, Loaded
<1>1. models[i].refcount \in Nat /\ Cardinality(Holders(n)) \in Nat
  BY LoadedRecord, HoldersFinite DEF SlotsNamed, ModelRecord, ITypeOK
<1>2. Cardinality(Holders(n)) <= models[i].refcount
  BY DEF Counted
<1>3. CASE pc[c] \in Holding
  BY <1>0, <1>1, <1>2, <1>3, HoldersLeft
<1>4. CASE pc[c] \notin Holding
  <2>1. Holders(n)' = Holders(n)
    BY <1>0, <1>4, HoldersKept DEF Return, Locations, Holding, ITypeOK, CallersOK
  <2>. QED
    BY <1>2, <2>1
<1>. QED
  BY <1>3, <1>4

LEMMA CountedStep ==
  ASSUME ITypeOK, ITypeOK', OneRecordPerModel, StrippedNoted, ActiveCallsCounted, INext
  PROVE  ActiveCallsCounted'
<1>0. IActions /\ Remember
  BY DEF INext
<1>. SUFFICES ASSUME NEW n \in ModelNames, n \notin stripped'
              PROVE  Counted(n)'
  BY DEF ActiveCallsCounted, Counted
<1>1. CASE Holders(n)' = {}
  <2>1. Cardinality(Holders(n)') = 0
    BY <1>1, FS_EmptySet
  <2>2. \A i \in SlotsNamed(models, n)' : models'[i].refcount \in Nat
    BY DEF SlotsNamed, Loaded, ITypeOK, TypeOK, ModelRecord
  <2>. QED
    BY <2>1, <2>2 DEF Counted
<1>2. CASE Holders(n)' # {}
  <2>1. n \notin stripped
    BY <1>0, <1>2, NotStripped
  <2>2. Counted(n) /\ (Holders(n) # {} => SlotsNamed(models, n) # {})
    BY <2>1 DEF ActiveCallsCounted, Counted, StrippedNoted
  <2>3. CASE Quiet
    BY <2>2, <2>3, QuietCounted
  <2>4. ASSUME NEW c \in Callers, Attach(c) \/ Register(c)
        PROVE  Counted(n)'
    <3>1. /\ pc[c] \notin Holding \cup {"idle"} /\ Goto(c, "chat") /\ UNCHANGED req
          /\ MarkModelLoaded(req[c], target[c])
      BY <2>4 DEF Attach, Register, Holding
    <3>. QED
      BY <2>2, <3>1, TakeCounted
  <2>. QED
    BY <1>0, <2>2, <2>3, <2>4, OthersQuiet, ReleaseCounted, KillCounted
<1>. QED
  BY <1>1, <1>2

(***************************************************************************)
(* A model that has not been stripped is counted at least as often as it   *)
(* is used, for any number of callers and whatever they interleave with    *)
(* evictions, kills and a lost state file: admission takes no model for    *)
(* idle that a call uses.  Releases go by name and reach whatever record   *)
(* the model has by then; the theorem bounds the damage to the calls that  *)
(* were under way when the record went.                                    *)
(***************************************************************************)
THEOREM CallsAreCounted == ISpec => []ActiveCallsCounted
<1>1. IInit => OneRecordPerModel /\ StrippedNoted /\ ActiveCallsCounted
  BY DEF IInit, Init, OneRecordPerModel, StrippedNoted, ActiveCallsCounted,
         Holders, Holding, SlotsNamed, Loaded
<1>2. ITypeOK /\ OneRecordPerModel /\ [INext]_vars => OneRecordPerModel'
  BY UniqueStep
<1>3. /\ ITypeOK /\ ITypeOK' /\ OneRecordPerModel /\ StrippedNoted /\ ActiveCallsCounted
      /\ [INext]_vars
      => (StrippedNoted /\ ActiveCallsCounted)'
  <2>1. CASE INext
    BY <2>1, StrippedNotedStep, CountedStep DEF INext
  <2>2. CASE UNCHANGED vars
    BY <2>2 DEF vars, hvars, svars, cvars, StrippedNoted, ActiveCallsCounted,
                Holders, SlotsNamed, Loaded
  <2>. QED
    BY <2>1, <2>2
<1>. QED
  BY <1>1, <1>2, <1>3, CallsTyped, PTL DEF ISpec

-----------------------------------------------------------------------------
(* Backends are owned.                                                     *)

Excused(p) == p \in contested \cup forgotten \/ ~Running(p)

\* The same of the next state.
ExcusedAfter(p) ==
  \/ p \in contested' \cup forgotten' \cup signalled'
  \/ backends'[p].status \notin {"starting", "up", "hung"}

LEMMA ExcusedThen == \A p : Excused(p)' <=> ExcusedAfter(p)
BY DEF Excused, ExcusedAfter, Running

\* Calls that have looked up a backend, and calls that found none or gave it up.
LookedUp == {"probe", "attach", "replace"}
Without == {"start", "wait", "register"}

\* The record of the model still is p, or both backends are excused.
Same(n, p) ==
  /\ SlotsNamed(models, n) = {} => Excused(p)
  /\ \A i \in SlotsNamed(models, n) :
       models[i].pid = p \/ (Excused(models[i].pid) /\ Excused(p))

\* No record of the model, but for the backend of an overlapping call.
NoneLeft(n) == \A i \in SlotsNamed(models, n) : Excused(models[i].pid)

\* What a call knows about the record of its model, and what the history
\* knows about calls that overlap.
Looked ==
  /\ BeingContested \subseteq contested
  /\ \A c \in Callers : /\ pc[c] \in LookedUp => Same(req[c].name, target[c])
                        /\ pc[c] \in Without => NoneLeft(req[c].name)

LEMMA HistoryGrows ==
  ASSUME ITypeOK, INext
  PROVE  /\ signalled \subseteq signalled'
         /\ contested \cup forgotten \subseteq (contested \cup forgotten)'
         /\ (BeingContested \subseteq contested)'
<1>t. TypeOK
  BY DEF ITypeOK
<1>1. (BeingContested \subseteq contested)' /\ contested \subseteq contested'
  BY DEF INext, Remember
<1>2. forgotten \subseteq forgotten'
  BY DEF INext, IActions, Step, Admit, LookUp, Probe, Attach, Replace, Start, StartFails,
         WaitHealthy, WaitFails, Register, Chat, Release, BackendUp, BackendExits,
         BackendHangs, UserEvicts, CallerKilled, LimitsAreSet, StateIsLost, TickClock, bvars
<1>3. ASSUME NEW c, NEW r, NEW allowed, AdmitModelJob(c, r, allowed)
      PROVE  signalled \subseteq signalled'
  BY <1>3 DEF AdmitModelJob, AdmitLoadedModel, AdmitNewModel, Terminate
<1>4. signalled \subseteq signalled'
  BY <1>3
  DEF INext, IActions, Step, Admit, LookUp, Probe, Attach, Replace, Start, StartFails,
      WaitHealthy, WaitFails, Register, Chat, Release, BackendUp, BackendExits,
      BackendHangs, UserEvicts, CallerKilled, LimitsAreSet, StateIsLost, TickClock, svars,
      EvictModel, Terminate, MarkModelLoaded, MarkModelUnloaded, ConfigureLimits, ReinitState,
      Tick
<1>. QED
  BY <1>1, <1>2, <1>4

\* Only fork makes a process run.
LEMMA RunningBefore ==
  ASSUME ITypeOK, INext, NEW p \in Pids, Running(p)'
  PROVE  Running(p) \/ \E c \in Callers : Start(c) /\ target'[c] = p
<1>s. signalled \subseteq signalled'
  BY HistoryGrows
<1>t. CallersOK /\ BackendsOK
  BY DEF ITypeOK
<1>1. CASE UNCHANGED backends
  BY <1>s, <1>1 DEF Running
<1>2. ASSUME NEW q \in Pids, BackendUp(q) \/ BackendExits(q) \/ BackendHangs(q)
      PROVE  Running(p)
  BY <1>2, <1>s, <1>t DEF BackendUp, BackendExits, BackendHangs, Running, BackendsOK
<1>3. ASSUME NEW c \in Callers, Start(c)
      PROVE  Running(p) \/ target'[c] = p
  <2>1. PICK q \in Pids :
          /\ backends' = [backends EXCEPT ![q] = [status |-> "starting", model |-> req[c].name]]
          /\ target' = [target EXCEPT ![c] = q]
    BY <1>3 DEF Start
  <2>2. target'[c] = q /\ \A x \in Pids \ {q} : backends'[x] = backends[x]
    BY <2>1, <1>t DEF CallersOK, BackendsOK
  <2>. QED
    BY <1>s, <2>2 DEF Running
<1>. QED
  BY <1>1, <1>2, <1>3
  DEF INext, IActions, Step, Admit, LookUp, Probe, Attach, Replace, StartFails,
      WaitHealthy, WaitFails, Register, Chat, Release, UserEvicts, CallerKilled,
      LimitsAreSet, StateIsLost, TickClock, bvars

LEMMA StartIsFresh ==
  ASSUME ITypeOK, NEW c \in Callers, Start(c)
  PROVE  target'[c] \in Pids /\ backends[target'[c]].status = "none"
BY DEF Start, ITypeOK, CallersOK

LEMMA ExcusedStays ==
  ASSUME ITypeOK, INext, NEW p \in Pids, backends[p].status # "none", Excused(p)
  PROVE  ExcusedAfter(p)
BY HistoryGrows, RunningBefore, StartIsFresh, ExcusedThen DEF Excused

\* The steps that write no pid into the table: what they drop is signalled or
\* forgotten.
Lossless ==
  /\ \A i \in Loaded(models)' : /\ i \in Loaded(models)
                                /\ models'[i].name = models[i].name
                                /\ models'[i].pid = models[i].pid
  /\ \A i \in Loaded(models) : i \in Loaded(models)' \/ ExcusedAfter(models[i].pid)

LEMMA EvictLossless ==
  ASSUME TypeOK, NEW S, models' = EvictSlots(models, S), Terminate(S)
  PROVE  Lossless
<1>1. \A i \in Loaded(models) \ S : i \in Loaded(models)'
  BY DEF EvictSlots, Loaded
<1>2. \A i \in Loaded(models) : i \in S => ExcusedAfter(models[i].pid)
  BY DEF Terminate, ExcusedAfter
<1>3. RecordsKept
  BY EvictQuiet
<1>. QED
  BY <1>1, <1>2, <1>3 DEF Lossless, RecordsKept

LEMMA AdmitLossless ==
  ASSUME TypeOK, NEW c, NEW r, NEW allowed, AdmitModelJob(c, r, allowed)
  PROVE  Lossless
<1>1. CASE AdmitLoadedModel(r)
  <2>1. PICK k \in ModelSlots :
          k \in Loaded(models) /\ models' = [models EXCEPT ![k].last_used = now]
    BY <1>1 DEF AdmitLoadedModel, IsFirst, SlotsNamed
  <2>2. PICK rec : rec = [models[k] EXCEPT !.last_used = now]
    OBVIOUS
  <2>3. rec \in ModelRecord /\ rec # Empty
    BY <2>1, <2>2, LoadedRecord, SchedulerAssumption DEF ModelRecord, TypeOK
  <2>4. models'[k] = rec /\ \A j \in ModelSlots \ {k} : models'[j] = models[j]
    BY <2>1, <2>2 DEF TypeOK
  <2>5. Loaded(models) \subseteq Loaded(models)'
    BY <2>3, <2>4 DEF Loaded
  <2>6. RecordsKept
    BY AdmitQuiet
  <2>. QED
    BY <2>5, <2>6 DEF Lossless, RecordsKept
<1>2. CASE AdmitNewModel(c, r, allowed)
  BY <1>2, EvictLossless DEF AdmitNewModel
<1>. QED
  BY <1>1, <1>2 DEF AdmitModelJob

LEMMA OthersLossless ==
  ASSUME ITypeOK, INext
  PROVE  Lossless \/ \E c \in Callers : Attach(c) \/ Register(c)
<1>t. TypeOK
  BY DEF ITypeOK
<1>1. ASSUME NEW c \in Callers, NEW r \in Requests, Admit(c, r) PROVE Lossless
  BY <1>1, <1>t, AdmitLossless DEF Admit
<1>2. ASSUME NEW n, EvictModel(n) PROVE Lossless
  BY <1>2, <1>t, EvictLossless DEF EvictModel
<1>3. ASSUME NEW c \in Callers, Release(c) PROVE Lossless
  BY <1>3, <1>t, UnloadedPids, UnloadedKeepsAll DEF Release, Lossless
<1>4. CASE StateIsLost
  <2>1. \A i \in Loaded(models) : ExcusedAfter(models[i].pid)
    BY <1>4 DEF StateIsLost, ExcusedAfter
  <2>. QED
    BY <1>4, <2>1 DEF StateIsLost, ReinitState, Lossless, Loaded
<1>5. CASE UNCHANGED models
  BY <1>5 DEF Lossless, Loaded
<1>. QED
  BY <1>1, <1>2, <1>3, <1>4, <1>5
  DEF INext, IActions, Step, LookUp, Probe, Replace, Start, StartFails, WaitHealthy, WaitFails,
      Chat, UserEvicts, CallerKilled, BackendUp, BackendExits, BackendHangs, LimitsAreSet,
      ConfigureLimits, TickClock, Tick, tables, svars

LEMMA RecordStarted ==
  ASSUME ITypeOK, RecordsServed, CallsServed, NEW n, NEW i \in SlotsNamed(models, n)
  PROVE  models[i].pid \in Pids /\ backends[models[i].pid].status # "none"
<1>1. i \in Loaded(models)
  BY DEF SlotsNamed
<1>. QED
  BY <1>1, InUseStarted, LoadedRecord DEF ModelRecord, ITypeOK

LEMMA SameKept ==
  ASSUME ITypeOK, RecordsServed, CallsServed, INext, Lossless, NEW n,
         NEW p \in Pids, backends[p].status # "none", Same(n, p)
  PROVE  Same(n, p)'
<1>1. Excused(p) => ExcusedAfter(p)
  BY ExcusedStays
<1>2. \A i \in SlotsNamed(models, n) : Excused(models[i].pid) => ExcusedAfter(models[i].pid)
  BY RecordStarted, ExcusedStays
<1>3. \A i \in SlotsNamed(models, n)' :
        i \in SlotsNamed(models, n) /\ models'[i].pid = models[i].pid
  BY DEF Lossless, SlotsNamed
<1>4. ASSUME SlotsNamed(models, n)' = {} PROVE ExcusedAfter(p)
  <2>1. CASE SlotsNamed(models, n) = {}
    BY <1>1, <2>1 DEF Same
  <2>2. ASSUME NEW i \in SlotsNamed(models, n) PROVE ExcusedAfter(p)
    <3>1. ExcusedAfter(models[i].pid)
      BY <1>4, <2>2 DEF SlotsNamed, Lossless
    <3>. QED
      BY <1>1, <2>2, <3>1 DEF Same
  <2>. QED
    BY <2>1, <2>2
<1>5. ASSUME NEW i \in SlotsNamed(models, n)'
      PROVE  models'[i].pid = p \/ (ExcusedAfter(models'[i].pid) /\ ExcusedAfter(p))
  BY <1>1, <1>2, <1>3, <1>5 DEF Same
<1>. QED
  BY <1>4, <1>5, ExcusedThen DEF Same

LEMMA NoneLeftKept ==
  ASSUME ITypeOK, RecordsServed, CallsServed, INext, Lossless, NEW n, NoneLeft(n)
  PROVE  NoneLeft(n)'
<1>1. \A i \in SlotsNamed(models, n) : ExcusedAfter(models[i].pid)
  BY RecordStarted, ExcusedStays DEF NoneLeft
<1>2. \A i \in SlotsNamed(models, n)' :
        i \in SlotsNamed(models, n) /\ models'[i].pid = models[i].pid
  BY DEF Lossless, SlotsNamed
<1>. QED
  BY <1>1, <1>2, ExcusedThen DEF NoneLeft

\* mark_model_loaded gives the record of its model the caller's backend and
\* touches no other.
LEMMA LoadEffect ==
  ASSUME TypeOK, OneRecordPerModel, NEW r \in Requests, NEW q \in Pids, MarkModelLoaded(r, q)
  PROVE  /\ \A i \in Loaded(models)' :
              \/ models'[i].name = r.name /\ models'[i].pid = q
              \/ models'[i].name # r.name /\ i \in Loaded(models) /\ models'[i] = models[i]
         /\ \A i \in Loaded(models) : i \in Loaded(models)' /\ models'[i].name = models[i].name
         /\ \/ MarkLoadedNoSlot(r)
            \/ \E i \in Loaded(models)' : models'[i].name = r.name /\ models'[i].pid = q
<1>0. Loaded(models) \subseteq Loaded(models)'
  BY LoadedGrows
<1>1. CASE MarkLoadedAgain(r, q)
  <2>1. PICK k \in ModelSlots :
          /\ k \in SlotsNamed(models, r.name)
          /\ models' = [models EXCEPT ![k] = Taken(models[k], q)]
    BY <1>1 DEF MarkLoadedAgain, IsFirst
  <2>2. /\ Taken(models[k], q).pid = q /\ Taken(models[k], q).name = models[k].name
        /\ models[k].name = r.name /\ k \in Loaded(models)
    BY <2>1 DEF Taken, SlotsNamed
  <2>3. models'[k] = Taken(models[k], q) /\ \A j \in ModelSlots \ {k} : models'[j] = models[j]
    BY <2>1 DEF TypeOK
  <2>. QED
    BY <1>0, <2>2, <2>3 DEF Loaded, OneRecordPerModel
<1>2. CASE MarkLoadedNew(r, q)
  <2>. DEFINE rec == [name |-> r.name, ram |-> r.ram, vram |-> r.vram,
                      pid |-> q, refcount |-> 1, last_used |-> now]
  <2>1. PICK k \in ModelSlots : k \in FreeSlots(models) /\ models' = [models EXCEPT ![k] = rec]
    BY <1>2 DEF MarkLoadedNew, IsFirst
  <2>2. rec.pid = q /\ rec.name = r.name /\ rec \in ModelRecord
    BY SchedulerAssumption DEF ModelRecord, Request, TypeOK
  <2>. HIDE DEF rec
  <2>3. rec # Empty
    BY <2>2, SchedulerAssumption
  <2>4. models'[k] = rec /\ \A j \in ModelSlots \ {k} : models'[j] = models[j]
    BY <2>1 DEF TypeOK
  <2>5. \A i \in Loaded(models) : models[i].name # r.name /\ i # k
    BY <1>2, <2>1 DEF MarkLoadedNew, SlotsNamed, FreeSlots
  <2>6. k \in Loaded(models)' /\ \A i \in Loaded(models)' : i = k \/ i \in Loaded(models)
    BY <2>3, <2>4 DEF Loaded
  <2>. QED
    BY <1>0, <2>2, <2>4, <2>5, <2>6 DEF Loaded
<1>3. CASE MarkLoadedNoSlot(r)
  BY <1>0, <1>3 DEF MarkLoadedNoSlot, SlotsNamed, Loaded
<1>. QED
  BY <1>1, <1>2, <1>3 DEF MarkModelLoaded

\* The caller writes the pid it looked up, or that of a backend it started
\* while nobody else loads the model.
LEMMA MarkLooked ==
  ASSUME ITypeOK, RecordsServed, CallsServed, OneRecordPerModel, INext,
         NEW r \in Requests, NEW q \in Pids, MarkModelLoaded(r, q),
         backends[q].status # "none", NEW n,
         r.name = n => Same(n, q) \/ (NoneLeft(n) /\ ExcusedAfter(q))
  PROVE  /\ \A p \in Pids : backends[p].status # "none" /\ Same(n, p) => Same(n, p)'
         /\ NoneLeft(n) => NoneLeft(n)'
<1>t. TypeOK
  BY DEF ITypeOK
<1>x. \A i \in SlotsNamed(models, n) : Excused(models[i].pid) => ExcusedAfter(models[i].pid)
  BY RecordStarted, ExcusedStays
<1>q. Excused(q) => ExcusedAfter(q)
  BY ExcusedStays
<1>1. CASE n # r.name
  <2>1. /\ \A i \in SlotsNamed(models, n)' : i \in SlotsNamed(models, n) /\ models'[i] = models[i]
        /\ \A i \in SlotsNamed(models, n) : i \in SlotsNamed(models, n)'
    BY <1>1, <1>t, LoadEffect DEF SlotsNamed
  <2>2. ASSUME NEW p \in Pids, backends[p].status # "none", Same(n, p) PROVE Same(n, p)'
    <3>1. Excused(p) => ExcusedAfter(p)
      BY <2>2, ExcusedStays
    <3>. QED
      BY <1>x, <2>1, <2>2, <3>1, ExcusedThen DEF Same
  <2>3. NoneLeft(n) => NoneLeft(n)'
    BY <1>x, <2>1, ExcusedThen DEF NoneLeft
  <2>. QED
    BY <2>2, <2>3
<1>2. CASE n = r.name
  <2>1. \A i \in SlotsNamed(models, n)' : models'[i].pid = q
    BY <1>2, <1>t, LoadEffect DEF SlotsNamed
  <2>2. SlotsNamed(models, n)' = {} => SlotsNamed(models, n) = {}
    BY <1>2, <1>t, LoadEffect DEF SlotsNamed
  <2>3. ASSUME NEW p \in Pids, backends[p].status # "none", Same(n, p) PROVE Same(n, p)'
    <3>1. Excused(p) => ExcusedAfter(p)
      BY <2>3, ExcusedStays
    <3>2. p = q \/ (ExcusedAfter(p) /\ ExcusedAfter(q))
      <4>1. CASE Same(n, q)
        <5>1. p = q \/ (Excused(p) /\ Excused(q))
          BY <2>3, <4>1 DEF Same
        <5>. QED
          BY <1>q, <3>1, <5>1
      <4>2. CASE NoneLeft(n) /\ ExcusedAfter(q)
        <5>1. Excused(p)
          BY <2>3, <4>2 DEF Same, NoneLeft
        <5>. QED
          BY <3>1, <4>2, <5>1
      <4>. QED
        BY <1>2, <4>1, <4>2
    <3>3. SlotsNamed(models, n) = {} => ExcusedAfter(p)
      BY <2>3, <3>1 DEF Same
    <3>. QED
      BY <2>1, <2>2, <3>2, <3>3, ExcusedThen DEF Same
  <2>4. ASSUME NoneLeft(n) PROVE NoneLeft(n)'
    <3>1. ExcusedAfter(q)
      <4>1. CASE Same(n, q)
        BY <2>4, <4>1, <1>q DEF Same, NoneLeft
      <4>. QED
        BY <1>2, <4>1
    <3>. QED
      BY <2>1, <3>1, ExcusedThen DEF NoneLeft
  <2>. QED
    BY <2>3, <2>4
<1>. QED
  BY <1>1, <1>2

\* A call that learns nothing new about the record of its model.
Keeps(d) ==
  /\ pc'[d] \in LookedUp =>
       pc[d] \in LookedUp /\ req'[d] = req[d] /\ target'[d] = target[d]
  /\ pc'[d] \in Without => pc[d] \in Without /\ req'[d] = req[d]

LEMMA CallsKeep ==
  ASSUME ITypeOK, INext, NEW d \in Callers
  PROVE  Keeps(d) \/ LookUp(d) \/ Replace(d)
<1>t. CallersOK
  BY DEF ITypeOK
<1>1. CASE UNCHANGED cvars
  BY <1>1 DEF cvars, Keeps
<1>2. ASSUME NEW c \in Callers, NEW r \in Requests, Admit(c, r)
      PROVE  Keeps(d)
  <2>1. CASE Goto(c, "lookup") /\ req' = [req EXCEPT ![c] = r] /\ UNCHANGED target
    BY <1>t, <2>1 DEF Goto, Keeps, CallersOK, LookedUp, Without
  <2>. QED
    BY <1>2, <2>1 DEF Admit, cvars, Keeps
<1>3. ASSUME NEW c \in Callers, Step(c) \/ CallerKilled(c), d # c
      PROVE  Keeps(d)
  <2>1. pc'[d] = pc[d] /\ req'[d] = req[d] /\ target'[d] = target[d]
    BY <1>3, <1>t DEF Step, LookUp, Probe, Attach, Replace, Start, StartFails, WaitHealthy,
       WaitFails, Register, Chat, Release, CallerKilled, Return, Goto, CallersOK
  <2>. QED
    BY <2>1 DEF Keeps
<1>4. CASE Step(d) \/ CallerKilled(d)
  <2>1. CASE Probe(d)
    BY <2>1, <1>t DEF Probe, Goto, CallersOK, Keeps, LookedUp, Without
  <2>2. CASE Start(d) \/ WaitHealthy(d)
    BY <2>2, <1>t DEF Start, WaitHealthy, Goto, CallersOK, Keeps, LookedUp, Without
  <2>3. CASE Attach(d) \/ Register(d) \/ Chat(d)
    BY <2>3, <1>t DEF Attach, Register, Chat, Goto, CallersOK, Keeps, LookedUp, Without
  <2>4. CASE StartFails(d) \/ WaitFails(d) \/ Release(d) \/ CallerKilled(d)
    <3>1. pc'[d] = "idle"
      BY <2>4, <1>t DEF StartFails, WaitFails, Release, CallerKilled, Return, Goto, CallersOK
    <3>. QED
      BY <3>1 DEF Keeps, LookedUp, Without
  <2>. QED
    BY <1>4, <2>1, <2>2, <2>3, <2>4 DEF Step
<1>. QED
  BY <1>1, <1>2, <1>3, <1>4
  DEF INext, IActions, BackendUp, BackendExits, BackendHangs, UserEvicts, LimitsAreSet,
      StateIsLost, TickClock

\* What a call knows, in the next state.
KnowsAfter(d) ==
  /\ pc'[d] \in LookedUp => Same(req[d].name, target[d])'
  /\ pc'[d] \in Without => NoneLeft(req[d].name)'

LEMMA KeepsKnows ==
  ASSUME ITypeOK, RecordsServed, CallsServed, NEW d \in Callers, Keeps(d),
         pc[d] \in LookedUp => Same(req[d].name, target[d]),
         pc[d] \in Without => NoneLeft(req[d].name),
         \A n \in ModelNames : \A p \in Pids :
            pc[d] \in LookedUp /\ req[d].name = n /\ backends[p].status # "none" /\ Same(n, p)
            => Same(n, p)',
         \A n \in ModelNames : pc[d] \in Without /\ req[d].name = n /\ NoneLeft(n)
            => NoneLeft(n)'
  PROVE  KnowsAfter(d)
<1>1. ASSUME pc'[d] \in LookedUp PROVE Same(req[d].name, target[d])'
  <2>1. pc[d] \in LookedUp /\ req'[d] = req[d] /\ target'[d] = target[d]
    BY <1>1 DEF Keeps
  <2>2. target[d] \in Pids /\ req[d].name \in ModelNames
    BY <2>1, RequestOfCall DEF LookedUp, ITypeOK, CallersOK, TargetKnown
  <2>3. backends[target[d]].status # "none"
    BY <2>2, InUseStarted, InferenceAssumption
  <2>4. PICK n \in ModelNames, p \in Pids : n = req[d].name /\ p = target[d]
    BY <2>2
  <2>5. Same(n, p)'
    BY <2>1, <2>3, <2>4
  <2>. QED
    BY <2>1, <2>4, <2>5
<1>2. ASSUME pc'[d] \in Without PROVE NoneLeft(req[d].name)'
  <2>1. pc[d] \in Without /\ req'[d] = req[d]
    BY <1>2 DEF Keeps
  <2>2. PICK n \in ModelNames : n = req[d].name
    BY <2>1, RequestOfCall DEF Without
  <2>3. NoneLeft(n)'
    BY <2>1, <2>2
  <2>. QED
    BY <2>1, <2>2, <2>3
<1>. QED
  BY <1>1, <1>2 DEF KnowsAfter

LEMMA EvictEmpties ==
  ASSUME TypeOK, OneRecordPerModel, NEW n, EvictModel(n)
  PROVE  SlotsNamed(models, n)' = {}
<1>1. PICK S \in SUBSET ModelSlots :
        /\ IF SlotsNamed(models, n) = {}
           THEN S = {}
           ELSE \E i \in ModelSlots : IsFirst(i, SlotsNamed(models, n)) /\ S = {i}
        /\ models' = EvictSlots(models, S)
  BY DEF EvictModel
<1>2. NamesKept /\ Loaded(models)' = Loaded(models) \ S
  BY <1>1, EvictSlotsKeeps
<1>3. SlotsNamed(models, n) \subseteq S
  BY <1>1 DEF IsFirst, SlotsNamed, OneRecordPerModel
<1>. QED
  BY <1>2, <1>3 DEF SlotsNamed, NamesKept

LEMMA LookedStep ==
  ASSUME ITypeOK, RecordsServed, CallsServed, OneRecordPerModel, Looked, INext
  PROVE  Looked'
<1>t. TypeOK /\ CallersOK
  BY DEF ITypeOK
<1>. SUFFICES ASSUME NEW d \in Callers PROVE KnowsAfter(d)
  BY HistoryGrows DEF Looked, KnowsAfter
<1>d. /\ pc[d] \in LookedUp => Same(req[d].name, target[d])
      /\ pc[d] \in Without => NoneLeft(req[d].name)
  BY DEF Looked
<1>1. CASE LookUp(d)
  <2>1. UNCHANGED <<models, req>>
    BY <1>1 DEF LookUp, svars
  <2>2. CASE SlotsNamed(models, req[d].name) = {}
    <3>1. pc'[d] = "start"
      BY <1>1, <1>t, <2>2 DEF LookUp, Goto, CallersOK
    <3>. QED
      BY <2>1, <2>2, <3>1 DEF KnowsAfter, LookedUp, NoneLeft, SlotsNamed, Loaded
  <2>3. CASE SlotsNamed(models, req[d].name) # {}
    <3>1. PICK i \in SlotsNamed(models, req[d].name) :
            Goto(d, "probe") /\ target' = [target EXCEPT ![d] = models[i].pid]
      BY <1>1, <2>3 DEF LookUp, IsFirst
    <3>2. pc'[d] = "probe" /\ target'[d] = models[i].pid
      BY <3>1, <1>t DEF Goto, CallersOK
    <3>3. \A j \in SlotsNamed(models, req[d].name) : j = i
      BY <3>1 DEF SlotsNamed, OneRecordPerModel
    <3>4. SlotsNamed(models, req[d].name)' = SlotsNamed(models, req[d].name)
      BY <2>1 DEF SlotsNamed, Loaded
    <3>. QED
      BY <2>1, <3>1, <3>2, <3>3, <3>4 DEF KnowsAfter, Without, Same
  <2>. QED
    BY <2>2, <2>3
<1>2. CASE Replace(d)
  <2>1. pc'[d] = "start" /\ UNCHANGED req /\ EvictModel(req[d].name)
    BY <1>2, <1>t DEF Replace, Goto, CallersOK
  <2>2. SlotsNamed(models', req[d].name) = {}
    BY <2>1, <1>t, EvictEmpties DEF SlotsNamed, Loaded
  <2>. QED
    BY <2>1, <2>2 DEF KnowsAfter, LookedUp, NoneLeft, SlotsNamed, Loaded
<1>3. CASE Keeps(d) /\ Lossless
  BY <1>3, <1>d, KeepsKnows, SameKept, NoneLeftKept
<1>4. ASSUME NEW c \in Callers, Attach(c) \/ Register(c), Keeps(d)
      PROVE  KnowsAfter(d)
  <2>1. pc'[c] = "chat"
    BY <1>4, <1>t DEF Attach, Register, Goto, CallersOK
  <2>2. CASE d = c
    BY <2>1, <2>2 DEF KnowsAfter, LookedUp, Without
  <2>3. CASE d # c
    <3>1. req[c] \in Requests /\ target[c] \in Pids /\ MarkModelLoaded(req[c], target[c])
      BY <1>4, RequestOfCall DEF Attach, Register, ITypeOK, CallersOK, TargetKnown
    <3>2. backends[target[c]].status # "none"
      BY <3>1, InUseStarted, InferenceAssumption
    <3>3. ASSUME pc[d] \in LookedUp \cup Without, req[d].name = req[c].name
          PROVE  \/ Same(req[c].name, target[c])
                 \/ NoneLeft(req[c].name) /\ ExcusedAfter(target[c])
      <4>1. CASE Attach(c)
        BY <4>1 DEF Attach, Looked, LookedUp
      <4>2. CASE Register(c)
        <5>1. NoneLeft(req[c].name)
          BY <4>2 DEF Register, Looked, Without
        <5>2. target[c] \in BeingContested
          BY <2>3, <3>1, <3>3, <4>2
          DEF BeingContested, Register, Starting, Loading, LookedUp, Without
        <5>3. target[c] \in contested
          BY <5>2 DEF Looked
        <5>. QED
          BY <5>1, <5>3, HistoryGrows DEF ExcusedAfter
      <4>. QED
        BY <1>4, <4>1, <4>2
    <3>4. ASSUME NEW n \in ModelNames, pc[d] \in LookedUp \cup Without, req[d].name = n
          PROVE  /\ \A p \in Pids : backends[p].status # "none" /\ Same(n, p) => Same(n, p)'
                 /\ NoneLeft(n) => NoneLeft(n)'
      <4>1. req[c].name = n => Same(n, target[c]) \/ (NoneLeft(n) /\ ExcusedAfter(target[c]))
        BY <3>3, <3>4
      <4>. QED
        BY <3>1, <3>2, <4>1, MarkLooked
    <3>. QED
      BY <1>4, <1>d, <3>4, KeepsKnows
  <2>. QED
    BY <2>2, <2>3
<1>. QED
  BY <1>1, <1>2, <1>3, <1>4, CallsKeep, OthersLossless

\* A call that has started a backend lets go of it by signal, by record or by
\* history.
LEMMA HandsKept ==
  ASSUME ITypeOK, OneRecordPerModel, INext, NEW c \in Callers, pc[c] \in Starting
  PROVE  \/ pc'[c] \in Starting /\ target'[c] = target[c]
         \/ target[c] \in signalled' \cup forgotten'
         \/ \E i \in Loaded(models)' : models'[i].pid = target[c]
<1>t. TypeOK /\ CallersOK
  BY DEF ITypeOK
<1>0. pc[c] \in {"wait", "register"}
  BY DEF Starting
<1>1. CASE UNCHANGED <<pc, target>>
  BY <1>1
<1>2. ASSUME NEW d \in Callers, NEW r \in Requests, Admit(d, r)
      PROVE  pc'[c] = pc[c] /\ target'[c] = target[c]
  BY <1>2, <1>0, <1>t DEF Admit, Goto, CallersOK, cvars
<1>3. ASSUME NEW d \in Callers, Step(d) \/ CallerKilled(d), d # c
      PROVE  pc'[c] = pc[c] /\ target'[c] = target[c]
  BY <1>3, <1>t DEF Step, LookUp, Probe, Attach, Replace, Start, StartFails, WaitHealthy,
       WaitFails, Register, Chat, Release, CallerKilled, Return, Goto, CallersOK
<1>4. CASE Step(c)
  <2>1. CASE WaitHealthy(c)
    BY <2>1, <1>t DEF WaitHealthy, Goto, CallersOK, Starting
  <2>2. CASE WaitFails(c)
    BY <2>2 DEF WaitFails
  <2>3. CASE Register(c)
    <3>1. req[c] \in Requests /\ target[c] \in Pids /\ MarkModelLoaded(req[c], target[c])
      BY <2>3, RequestOfCall DEF Register, ITypeOK, CallersOK, TargetKnown
    <3>2. MarkLoadedNoSlot(req[c]) => target[c] \in forgotten'
      BY <2>3 DEF Register, MarkLoadedNoSlot
    <3>. QED
      BY <1>t, <3>1, <3>2, LoadEffect
  <2>. QED
    BY <1>0, <1>4, <2>1, <2>2, <2>3
    DEF Step, LookUp, Probe, Attach, Replace, Start, StartFails, Chat, Release
<1>5. CASE CallerKilled(c)
  BY <1>5 DEF CallerKilled
<1>. QED
  BY <1>1, <1>2, <1>3, <1>4, <1>5
  DEF INext, IActions, BackendUp, BackendExits, BackendHangs, UserEvicts, LimitsAreSet,
      StateIsLost, TickClock, cvars

LEMMA OrphanStep ==
  ASSUME ITypeOK, RecordsServed, CallsServed, OneRecordPerModel, Looked, NoOrphanBackend, INext
  PROVE  NoOrphanBackend'
<1>. SUFFICES ASSUME NEW p \in Pids, Running(p)'
              PROVE  \/ \E i \in Loaded(models)' : models'[i].pid = p
                     \/ \E c \in Callers : target'[c] = p /\ pc'[c] \in Starting
                     \/ p \in (contested \cup forgotten)'
  BY DEF NoOrphanBackend
<1>t. TypeOK /\ CallersOK
  BY DEF ITypeOK
<1>0. p \notin signalled'
  BY DEF Running
<1>x. ExcusedAfter(p) => p \in (contested \cup forgotten)'
  BY DEF ExcusedAfter, Running
<1>1. ASSUME NEW c \in Callers, Start(c), target'[c] = p
      PROVE  pc'[c] \in Starting
  BY <1>1, <1>t DEF Start, Goto, CallersOK, Starting
<1>2. CASE Running(p)
  <2>1. CASE p \in contested \cup forgotten
    BY <2>1, HistoryGrows
  <2>2. ASSUME NEW c \in Callers, target[c] = p, pc[c] \in Starting
        PROVE  \/ \E i \in Loaded(models)' : models'[i].pid = p
               \/ target'[c] = p /\ pc'[c] \in Starting
               \/ p \in (contested \cup forgotten)'
    BY <1>0, <2>2, HandsKept
  <2>3. ASSUME NEW i \in Loaded(models), models[i].pid = p
        PROVE  \/ \E j \in Loaded(models)' : models'[j].pid = p
               \/ p \in (contested \cup forgotten)'
    <3>1. CASE Lossless
      BY <1>x, <2>3, <3>1 DEF Lossless
    <3>2. ASSUME NEW c \in Callers, Attach(c) \/ Register(c)
          PROVE  \/ \E j \in Loaded(models)' : models'[j].pid = p
                 \/ p \in (contested \cup forgotten)'
      <4>1. req[c] \in Requests /\ target[c] \in Pids /\ MarkModelLoaded(req[c], target[c])
        BY <3>2, RequestOfCall DEF Attach, Register, ITypeOK, CallersOK, TargetKnown
      <4>2. i \in Loaded(models)' /\ models'[i].name = models[i].name
        BY <1>t, <2>3, <4>1, LoadEffect
      <4>3. CASE models[i].name # req[c].name
        BY <1>t, <2>3, <4>1, <4>2, <4>3, LoadEffect
      <4>4. CASE models[i].name = req[c].name
        <5>1. models'[i].pid = target[c]
          BY <1>t, <4>1, <4>2, <4>4, LoadEffect
        <5>2. i \in SlotsNamed(models, req[c].name)
          BY <2>3, <4>4 DEF SlotsNamed
        <5>3. p = target[c] \/ Excused(p)
          BY <2>3, <3>2, <5>2 DEF Attach, Register, Looked, LookedUp, Without, Same, NoneLeft
        <5>4. Excused(p) => p \in (contested \cup forgotten)'
          BY <1>2, HistoryGrows DEF Excused
        <5>. QED
          BY <4>2, <5>1, <5>3, <5>4
      <4>. QED
        BY <4>3, <4>4
    <3>. QED
      BY <3>1, <3>2, OthersLossless
  <2>. QED
    BY <1>2, <2>1, <2>2, <2>3 DEF NoOrphanBackend
<1>. QED
  BY <1>1, <1>2, RunningBefore

(***************************************************************************)
(* libbubble owns every backend that runs, for any number of callers,      *)
(* models, backends and slots and whatever exits, hangs, is evicted or     *)
(* killed: it is in the table, or in the hands of the call that started    *)
(* it, or one of the four cases in which the code gives it up.  The        *)
(* invariant says what a call knows about the record of its model between  *)
(* its separately locked steps: it still is the backend that was looked    *)
(* up, or both have been given up already.                                 *)
(***************************************************************************)
THEOREM BackendsAreOwned == ISpec => []NoOrphanBackend
<1>. DEFINE Inv == RecordsServed /\ CallsServed /\ OneRecordPerModel /\ Looked /\ NoOrphanBackend
<1>1. IInit => Inv
  <2>. SUFFICES ASSUME IInit PROVE Inv
    OBVIOUS
  <2>1. Loaded(models) = {} /\ \A c \in Callers : pc[c] = "idle"
    BY DEF IInit, Init, Loaded
  <2>2. \A p \in Pids : ~Running(p)
    BY DEF IInit, Running
  <2>3. RecordsServed /\ CallsServed /\ OneRecordPerModel
    BY <2>1 DEF IInit, RecordsServed, CallsServed, OneRecordPerModel, SlotsNamed
  <2>4. Looked
    BY <2>1 DEF Looked, BeingContested, Starting, LookedUp, Without
  <2>. QED
    BY <2>2, <2>3, <2>4 DEF NoOrphanBackend
<1>2. ITypeOK /\ Inv /\ [INext]_vars => Inv'
  <2>1. CASE INext
    BY <2>1, RecordsServedStep, CallsServedStep, UniqueStep, LookedStep, OrphanStep
  <2>2. CASE UNCHANGED vars
    <3>1. UNCHANGED <<models, pc, req, target, backends, signalled, contested, forgotten>>
      BY <2>2 DEF vars, svars, cvars, bvars, hvars
    <3>2. Looked => Looked'
      BY <3>1 DEF Looked, BeingContested, Same, NoneLeft, Excused, Running, SlotsNamed, Loaded
    <3>3. NoOrphanBackend => NoOrphanBackend'
      BY <3>1 DEF NoOrphanBackend, Running, Loaded
    <3>. QED
      BY <2>2, <3>2, <3>3, RecordsServedStep, CallsServedStep, UniqueStep
  <2>. QED
    BY <2>1, <2>2
<1>3. Inv => NoOrphanBackend
  OBVIOUS
<1>. HIDE DEF Inv
<1>. QED
  BY <1>1, <1>2, <1>3, CallsTyped, PTL DEF ISpec

-----------------------------------------------------------------------------
(* Memory.  The size of a model is that of the request that loaded it.     *)

LEMMA RamOfTyped ==
  ASSUME NEW m \in ModelTables
  PROVE  /\ RamOf(m) \in [ModelSlots -> Nat]
         /\ \A i \in ModelSlots : RamOf(m)[i] = IF i \in Loaded(m) THEN m[i].ram ELSE 0
         /\ \A i \in Loaded(m) : i \in ModelSlots /\ m[i].ram \in Nat
BY DEF RamOf, ModelTables, Loaded, ModelRecord

\* Every record was there before, with the same name and size.
SizesKept(m, mm) ==
  \A i \in Loaded(mm) : /\ i \in Loaded(m)
                        /\ mm[i].name = m[i].name
                        /\ mm[i].ram = m[i].ram

LEMMA CommittedShrinks ==
  ASSUME NEW m \in ModelTables, NEW mm \in ModelTables, SizesKept(m, mm)
  PROVE  /\ CommittedRam(m) \in Nat /\ CommittedRam(mm) \in Nat
         /\ CommittedRam(mm) <= CommittedRam(m)
<1>1. \A i \in ModelSlots : RamOf(mm)[i] <= RamOf(m)[i]
  BY RamOfTyped DEF SizesKept
<1>. QED
  BY <1>1, RamOfTyped, TotalMonotone DEF CommittedRam

\* A new record takes its memory.
LEMMA CommittedTaken ==
  ASSUME NEW m \in ModelTables, NEW mm \in ModelTables, NEW k \in ModelSlots,
         m[k] = Empty, mm[k] # Empty, \A i \in ModelSlots \ {k} : mm[i] = m[i]
  PROVE  /\ CommittedRam(m) \in Nat
         /\ CommittedRam(mm) = CommittedRam(m) + mm[k].ram
<1>. DEFINE f == RamOf(m)
            h == RamOf(mm)
<1>1. f \in [ModelSlots -> Nat] /\ h \in [ModelSlots -> Nat]
  BY RamOfTyped
<1>2. f[k] = 0 /\ h[k] = mm[k].ram
  BY DEF RamOf
<1>3. \A i \in ModelSlots \ {k} : f[i] = h[i]
  BY DEF RamOf
<1>. HIDE DEF f, h
<1>4. Total(f) \in Nat /\ Total(h) \in Nat /\ Total(f) + h[k] = Total(h) + f[k]
  BY <1>1, <1>3, TotalUpdate
<1>. QED
  BY <1>1, <1>2, <1>4 DEF CommittedRam, f, h

\* A model needs the same memory whoever asks for it.
SizesAgree == \A r, s \in Requests : r.name = s.name => r.ram = s.ram

\* What is in the table or about to be.
InTable(m) == {m[i].name : i \in Loaded(m)}
BeingLoaded == {req[c].name : c \in {d \in Callers : pc[d] \in Loading}}
Spoken == InTable(models) \cup BeingLoaded

\* A table that loads could leave: one record per model, with its size.
Sized(m) ==
  /\ \A i \in Loaded(m) : \E r \in Requests : r.name = m[i].name /\ r.ram = m[i].ram
  /\ \A i, j \in Loaded(m) : m[i].name = m[j].name => i = j

LEMMA EmptyCommitted ==
  ASSUME NEW m \in ModelTables, Loaded(m) = {}
  PROVE  CommittedRam(m) = 0
<1>1. RamOf(m) \in [ModelSlots -> Nat] /\ \A i \in ModelSlots : RamOf(m)[i] = 0
  BY RamOfTyped
<1>2. PICK total : Sums(RamOf(m), total) /\ Total(RamOf(m)) = total[MaxModels]
  BY <1>1, TotalIs
<1>3. /\ total \in [0..MaxModels -> Nat] /\ total[0] = 0
      /\ \A i \in ModelSlots : total[i] = total[i - 1]
  <2>1. /\ total \in [0..MaxModels -> Nat] /\ total[0] = 0
        /\ \A i \in ModelSlots : total[i] = total[i - 1] + RamOf(m)[i]
    BY <1>2 DEF Sums
  <2>2. \A i \in ModelSlots : total[i - 1] \in Nat
    BY <2>1, SlotNumbers
  <2>. QED
    BY <1>1, <2>1, <2>2
<1>. DEFINE T == {i \in 0..MaxModels : total[i] # 0}
<1>4. \A n \in T : n # 0 /\ n - 1 \in T
  BY <1>3, SlotNumbers
<1>5. T \in SUBSET Nat
  BY SlotNumbers
<1>. HIDE DEF T
<1>6. T = {}
  BY <1>4, <1>5, NoneLeast
<1>7. MaxModels \in 0..MaxModels
  BY SlotNumbers
<1>. QED
  BY <1>2, <1>6, <1>7 DEF T, CommittedRam

LEMMA TableFinite ==
  ASSUME NEW m
  PROVE  IsFiniteSet(Loaded(m)) /\ Cardinality(Loaded(m)) \in Nat
<1>1. IsFiniteSet(ModelSlots)
  BY FS_Interval, SchedulerAssumption DEF ModelSlots
<1>2. IsFiniteSet(Loaded(m))
  BY <1>1, FS_Subset DEF Loaded
<1>. QED
  BY <1>2, FS_CardinalityType

\* The table without the record in slot i.
LEMMA WithoutSlot ==
  ASSUME NEW m \in ModelTables, NEW i \in Loaded(m)
  PROVE  LET mm == EvictSlots(m, {i})
         IN  /\ mm \in ModelTables
             /\ Loaded(mm) = Loaded(m) \ {i}
             /\ \A j \in Loaded(mm) : mm[j] = m[j]
             /\ CommittedRam(mm) \in Nat
             /\ m[i].ram \in Nat
             /\ CommittedRam(m) = CommittedRam(mm) + m[i].ram
<1>. DEFINE mm == EvictSlots(m, {i})
<1>1. /\ mm \in ModelTables /\ mm[i] = Empty /\ \A j \in ModelSlots \ {i} : mm[j] = m[j]
      /\ i \in ModelSlots /\ m[i] # Empty
  BY DEF EvictSlots, ModelTables, Loaded
<1>. HIDE DEF mm
<1>2. Loaded(mm) = Loaded(m) \ {i} /\ \A j \in Loaded(mm) : mm[j] = m[j]
  BY <1>1 DEF Loaded
<1>3. CommittedRam(mm) \in Nat /\ CommittedRam(m) = CommittedRam(mm) + m[i].ram
  BY <1>1, CommittedTaken
<1>4. m[i].ram \in Nat
  BY RamOfTyped
<1>. QED
  BY <1>1, <1>2, <1>3, <1>4 DEF mm

\* Of m, n records; each is in t or one of the models of Y, and needs at most H.
Covered(n, m, t, Y, H) ==
  /\ m \in ModelTables /\ t \in ModelTables
  /\ Sized(m) /\ Sized(t)
  /\ IsFiniteSet(Y)
  /\ InTable(m) \subseteq InTable(t) \cup Y
  /\ \A i \in Loaded(m) : m[i].ram <= H
  /\ Cardinality(Loaded(m)) = n

Excess(m, t, Y, H) == CommittedRam(m) > CommittedRam(t) + Cardinality(Y) * H

LEMMA SizedPart ==
  ASSUME NEW m, NEW mm, Sized(m), Loaded(mm) \subseteq Loaded(m),
         \A j \in Loaded(mm) : mm[j] = m[j]
  PROVE  Sized(mm)
BY DEF Sized

LEMMA ExcessShrinks ==
  ASSUME SizesAgree, NEW H \in Nat, NEW n \in Nat, NEW m, NEW t, NEW Y,
         Covered(n, m, t, Y, H), Excess(m, t, Y, H)
  PROVE  n # 0 /\ \E mm, tt, YY : Covered(n - 1, mm, tt, YY, H) /\ Excess(mm, tt, YY, H)
<1>0. /\ m \in ModelTables /\ t \in ModelTables /\ Sized(m) /\ Sized(t)
      /\ IsFiniteSet(Y) /\ InTable(m) \subseteq InTable(t) \cup Y
      /\ \A i \in Loaded(m) : m[i].ram <= H
      /\ Cardinality(Loaded(m)) = n
  BY DEF Covered
<1>k. /\ CommittedRam(t) \in Nat /\ CommittedRam(m) \in Nat /\ Cardinality(Y) \in Nat
      /\ Cardinality(Y) * H \in Nat
  <2>1. CommittedRam(t) \in Nat /\ CommittedRam(m) \in Nat
    BY <1>0, CommittedShrinks DEF SizesKept
  <2>2. Cardinality(Y) \in Nat
    BY <1>0, FS_CardinalityType
  <2>. QED
    BY <2>1, <2>2
<1>x. CommittedRam(m) > CommittedRam(t) + Cardinality(Y) * H
  BY DEF Excess
<1>1. Loaded(m) # {}
  <2>. SUFFICES ASSUME Loaded(m) = {} PROVE FALSE
    OBVIOUS
  <2>1. CommittedRam(m) = 0
    BY <1>0, EmptyCommitted
  <2>. QED
    BY <1>k, <1>x, <2>1
<1>2. PICK i : i \in Loaded(m)
  BY <1>1
<1>. DEFINE mm == EvictSlots(m, {i})
<1>3. /\ mm \in ModelTables /\ Loaded(mm) = Loaded(m) \ {i} /\ \A j \in Loaded(mm) : mm[j] = m[j]
      /\ CommittedRam(mm) \in Nat /\ m[i].ram \in Nat
      /\ CommittedRam(m) = CommittedRam(mm) + m[i].ram
  BY <1>0, <1>2, WithoutSlot
<1>. HIDE DEF mm
<1>4. /\ Cardinality(Loaded(mm)) = n - 1 /\ n # 0
  <2>1. Cardinality(Loaded(m) \ {i}) = Cardinality(Loaded(m)) - 1
    BY <1>2, TableFinite, FS_RemoveElement
  <2>2. Cardinality(Loaded(mm)) \in Nat
    BY TableFinite
  <2>. QED
    BY <1>0, <1>3, <2>1, <2>2
<1>5. Sized(mm) /\ \A j \in Loaded(mm) : mm[j].ram <= H
  BY <1>0, <1>3, SizedPart
<1>6. \A j \in Loaded(mm) : mm[j].name \in InTable(t) \cup Y /\ mm[j].name # m[i].name
  BY <1>0, <1>2, <1>3 DEF Sized, InTable
<1>7. CASE m[i].name \in InTable(t)
  <2>1. PICK k \in Loaded(t) : t[k].name = m[i].name
    BY <1>7 DEF InTable
  <2>2. t[k].ram = m[i].ram
    BY <1>0, <1>2, <2>1 DEF Sized, SizesAgree
  <2>. DEFINE tt == EvictSlots(t, {k})
  <2>3. /\ tt \in ModelTables /\ Loaded(tt) = Loaded(t) \ {k} /\ \A j \in Loaded(tt) : tt[j] = t[j]
        /\ CommittedRam(tt) \in Nat /\ CommittedRam(t) = CommittedRam(tt) + t[k].ram
    BY <1>0, <2>1, WithoutSlot
  <2>. HIDE DEF tt
  <2>4. Sized(tt)
    BY <1>0, <2>3, SizedPart
  <2>5. InTable(mm) \subseteq InTable(tt) \cup Y
    BY <1>6, <2>1, <2>3 DEF InTable
  <2>6. Covered(n - 1, mm, tt, Y, H)
    BY <1>0, <1>3, <1>4, <1>5, <2>3, <2>4, <2>5 DEF Covered
  <2>7. Excess(mm, tt, Y, H)
    BY <1>3, <1>k, <1>x, <2>2, <2>3 DEF Excess
  <2>. QED
    BY <1>4, <2>6, <2>7
<1>8. CASE m[i].name \notin InTable(t)
  <2>. DEFINE YY == Y \ {m[i].name}
  <2>1. m[i].name \in Y
    BY <1>0, <1>2, <1>8 DEF InTable
  <2>2. IsFiniteSet(YY) /\ Cardinality(YY) = Cardinality(Y) - 1
    BY <1>0, <2>1, FS_RemoveElement
  <2>3. InTable(mm) \subseteq InTable(t) \cup YY
    BY <1>6 DEF InTable
  <2>. HIDE DEF YY
  <2>4. Covered(n - 1, mm, t, YY, H)
    BY <1>0, <1>3, <1>4, <1>5, <2>2, <2>3 DEF Covered
  <2>5. Cardinality(YY) * H + H = Cardinality(Y) * H
    BY <1>k, <2>2
  <2>6. m[i].ram <= H
    BY <1>0, <1>2
  <2>7. Cardinality(YY) \in Nat /\ Cardinality(YY) * H \in Nat
    <3>1. Cardinality(YY) \in Nat
      BY <2>2, FS_CardinalityType
    <3>. QED
      BY <3>1
  <2>8. Excess(mm, t, YY, H)
    BY <1>3, <1>k, <1>x, <2>5, <2>6, <2>7 DEF Excess
  <2>. QED
    BY <1>4, <2>4, <2>8
<1>. QED
  BY <1>7, <1>8

\* A table never needs more than another one and H for each further model.
LEMMA NoExcess ==
  ASSUME SizesAgree, NEW H \in Nat, NEW m, NEW t, NEW Y,
         Covered(Cardinality(Loaded(m)), m, t, Y, H)
  PROVE  CommittedRam(m) <= CommittedRam(t) + Cardinality(Y) * H
<1>. DEFINE T == {n \in Nat : \E mm, tt, YY : Covered(n, mm, tt, YY, H) /\ Excess(mm, tt, YY, H)}
<1>1. ASSUME NEW n \in T PROVE n # 0 /\ n - 1 \in T
  <2>1. PICK mm, tt, YY : Covered(n, mm, tt, YY, H) /\ Excess(mm, tt, YY, H)
    BY <1>1
  <2>2. n \in Nat
    BY <1>1
  <2>3. n # 0 /\ \E mmm, ttt, YYY : Covered(n - 1, mmm, ttt, YYY, H) /\ Excess(mmm, ttt, YYY, H)
    BY <2>1, <2>2, ExcessShrinks
  <2>. QED
    BY <2>2, <2>3
<1>2. T \in SUBSET Nat
  OBVIOUS
<1>3. Cardinality(Loaded(m)) \in Nat
  BY TableFinite
<1>4. Cardinality(Loaded(m)) \notin T => ~Excess(m, t, Y, H)
  BY <1>3
<1>. HIDE DEF T
<1>5. T = {}
  BY <1>1, <1>2, NoneLeast
<1>6. CommittedRam(m) \in Nat /\ CommittedRam(t) \in Nat /\ Cardinality(Y) * H \in Nat
  <2>1. m \in ModelTables /\ t \in ModelTables /\ IsFiniteSet(Y)
    BY DEF Covered
  <2>2. CommittedRam(t) \in Nat /\ CommittedRam(m) \in Nat
    BY <2>1, CommittedShrinks DEF SizesKept
  <2>3. Cardinality(Y) \in Nat
    BY <2>1, FS_CardinalityType
  <2>. QED
    BY <2>2, <2>3
<1>. QED
  BY <1>4, <1>5, <1>6 DEF Excess

\* Limit l, once for every caller, covers every table that loads could leave.
Bound(l) ==
  /\ \A m \in ModelTables : Sized(m) /\ InTable(m) \subseteq Spoken =>
       CommittedRam(m) <= Cardinality(Callers) * RamLimitOf(l)
  /\ \A r \in Requests : r.name \in Spoken => r.ram <= RamLimitOf(l)

MemoryInv ==
  /\ Sized(models)
  /\ ram_limit \in RamLimits \cup {0}
  /\ \E l \in RamLimits \cup {0} : Bound(l)

LEMMA LimitNatural ==
  ASSUME NEW l \in RamLimits \cup {0}
  PROVE  RamLimitOf(l) \in Nat
BY SchedulerAssumption DEF RamLimitOf

LEMMA MemoryFits ==
  ASSUME ITypeOK, MemoryInv
  PROVE  CommittedWithinLimit
<1>1. models \in ModelTables /\ InTable(models) \subseteq Spoken
  BY DEF ITypeOK, TypeOK, ModelTables, Spoken
<1>. QED
  BY <1>1 DEF MemoryInv, Bound, CommittedWithinLimit

\* A step that speaks of no further model.
LEMMA SpokenFewer ==
  ASSUME MemoryInv, Sized(models'), Spoken' \subseteq Spoken,
         ram_limit' \in RamLimits \cup {0}
  PROVE  MemoryInv'
<1>1. PICK l \in RamLimits \cup {0} : Bound(l)
  BY DEF MemoryInv
<1>2. Bound(l)'
  BY <1>1 DEF Bound
<1>. QED
  BY <1>2 DEF MemoryInv, Sized, Loaded

LEMMA KeptSized ==
  ASSUME Sized(models), SizesKept(models, models')
  PROVE  Sized(models') /\ InTable(models') \subseteq InTable(models)
BY DEF Sized, SizesKept, InTable

LEMMA EvictKeepsSizes ==
  ASSUME TypeOK, NEW S, models' = EvictSlots(models, S)
  PROVE  SizesKept(models, models')
<1>1. models \in [ModelSlots -> ModelRecord \cup {Empty}]
  BY DEF TypeOK
<1>. QED
  BY <1>1, EvictSlotsType DEF SizesKept

LEMMA UpdateKeepsSizes ==
  ASSUME TypeOK, NEW i \in ModelSlots, i \in Loaded(models), NEW rec,
         models' = [models EXCEPT ![i] = rec],
         rec.name = models[i].name, rec.ram = models[i].ram
  PROVE  SizesKept(models, models')
<1>1. models'[i] = rec /\ \A j \in ModelSlots \ {i} : models'[j] = models[j]
  BY DEF TypeOK
<1>. QED
  BY <1>1 DEF SizesKept, Loaded

LEMMA ReleaseKeepsSizes ==
  ASSUME TypeOK, NEW name, MarkModelUnloaded(name)
  PROVE  SizesKept(models, models')
<1>1. CASE SlotsNamed(models, name) = {}
  BY <1>1 DEF MarkModelUnloaded, SizesKept
<1>2. CASE SlotsNamed(models, name) # {}
  <2>1. PICK i \in ModelSlots :
          /\ IsFirst(i, SlotsNamed(models, name))
          /\ models' = [models EXCEPT ![i] = Released(models[i])]
    BY <1>2 DEF MarkModelUnloaded
  <2>2. i \in Loaded(models)
    BY <2>1 DEF IsFirst, SlotsNamed
  <2>3. /\ Released(models[i]).name = models[i].name
        /\ Released(models[i]).ram = models[i].ram
    BY DEF Released
  <2>. QED
    BY <2>1, <2>2, <2>3, UpdateKeepsSizes
<1>. QED
  BY <1>1, <1>2

LEMMA AdmitKeepsSizes ==
  ASSUME TypeOK, NEW c, NEW r, NEW allowed, AdmitModelJob(c, r, allowed)
  PROVE  /\ SizesKept(models, models') /\ UNCHANGED ram_limit
         /\ allowed => \/ r.name \in InTable(models)
                       \/ CommittedRam(models') + r.ram <= EffectiveRamLimit
<1>1. CASE AdmitLoadedModel(r)
  <2>1. PICK i \in ModelSlots :
          /\ IsFirst(i, SlotsNamed(models, r.name))
          /\ models' = [models EXCEPT ![i].last_used = now]
    BY <1>1 DEF AdmitLoadedModel
  <2>2. i \in Loaded(models) /\ models[i] \in ModelRecord /\ models[i].name = r.name
    BY <2>1, LoadedRecord DEF IsFirst, SlotsNamed
  <2>3. PICK rec : rec = [models[i] EXCEPT !.last_used = now]
    OBVIOUS
  <2>4. rec.name = models[i].name /\ rec.ram = models[i].ram
    BY <2>2, <2>3 DEF ModelRecord, TypeOK
  <2>5. models' = [models EXCEPT ![i] = rec]
    BY <2>1, <2>3
  <2>6. SizesKept(models, models')
    BY <2>2, <2>4, <2>5, UpdateKeepsSizes
  <2>7. r.name \in InTable(models)
    BY <2>2 DEF InTable
  <2>. QED
    BY <1>1, <2>6, <2>7 DEF AdmitLoadedModel, limits
<1>2. CASE AdmitNewModel(c, r, allowed)
  <2>1. SizesKept(models, models') /\ UNCHANGED ram_limit
    BY <1>2, EvictKeepsSizes DEF AdmitNewModel, limits
  <2>2. allowed => RefusalReason(models', r) = "none"
    BY <1>2 DEF AdmitNewModel
  <2>3. allowed => HasCapacityFor(models', r)
    BY <2>2 DEF RefusalReason
  <2>. QED
    BY <2>1, <2>3 DEF HasCapacityFor
<1>. QED
  BY <1>1, <1>2 DEF AdmitModelJob

LEMMA LostKeepsSizes ==
  ASSUME ReinitState
  PROVE  SizesKept(models, models')
BY DEF ReinitState, SizesKept, Loaded

LEMMA LoadKeepsSized ==
  ASSUME TypeOK, OneRecordPerModel', Sized(models), NEW r \in Requests, NEW pid \in Pids,
         MarkModelLoaded(r, pid)
  PROVE  Sized(models') /\ InTable(models') \subseteq InTable(models) \cup {r.name}
<1>1. CASE MarkLoadedAgain(r, pid)
  <2>1. PICK i \in ModelSlots :
          /\ IsFirst(i, SlotsNamed(models, r.name))
          /\ models' = [models EXCEPT ![i] = Taken(models[i], pid)]
    BY <1>1 DEF MarkLoadedAgain
  <2>2. i \in Loaded(models)
    BY <2>1 DEF IsFirst, SlotsNamed
  <2>3. /\ Taken(models[i], pid).name = models[i].name
        /\ Taken(models[i], pid).ram = models[i].ram
    BY DEF Taken
  <2>4. SizesKept(models, models')
    BY <2>1, <2>2, <2>3, UpdateKeepsSizes
  <2>. QED
    BY <2>4, KeptSized
<1>2. CASE MarkLoadedNew(r, pid)
  <2>. DEFINE rec == [name |-> r.name, ram |-> r.ram, vram |-> r.vram,
                      pid |-> pid, refcount |-> 1, last_used |-> now]
  <2>1. PICK k \in ModelSlots : models' = [models EXCEPT ![k] = rec]
    BY <1>2 DEF MarkLoadedNew
  <2>2. rec.name = r.name /\ rec.ram = r.ram
    OBVIOUS
  <2>. HIDE DEF rec
  <2>3. models'[k] = rec /\ \A j \in ModelSlots \ {k} : models'[j] = models[j]
    BY <2>1 DEF TypeOK
  <2>4. \A i \in Loaded(models') : i = k \/ (i \in Loaded(models) /\ models'[i] = models[i])
    BY <2>3 DEF Loaded
  <2>5. \A i, j \in Loaded(models') : models'[i].name = models'[j].name => i = j
    BY DEF OneRecordPerModel, Loaded
  <2>6. InTable(models') \subseteq InTable(models) \cup {r.name}
    BY <2>2, <2>3, <2>4 DEF InTable
  <2>. QED
    BY <2>2, <2>3, <2>4, <2>5, <2>6 DEF Sized
<1>3. CASE MarkLoadedNoSlot(r)
  BY <1>3 DEF MarkLoadedNoSlot
<1>. QED
  BY <1>1, <1>2, <1>3 DEF MarkModelLoaded

\* Apart from admission no call begins to load a model.
LEMMA LoadsFewer ==
  ASSUME ITypeOK, INext, \A c \in Callers, r \in Requests : ~Admit(c, r)
  PROVE  BeingLoaded' \subseteq BeingLoaded
<1>t. CallersOK
  BY DEF ITypeOK
<1>1. ASSUME NEW d \in Callers, pc'[d] \in Loading
      PROVE  pc[d] \in Loading /\ req'[d] = req[d]
  <2>1. CASE UNCHANGED cvars
    BY <1>1, <2>1 DEF cvars
  <2>2. ASSUME NEW c \in Callers, Step(c) \/ CallerKilled(c), d # c
        PROVE  pc'[d] = pc[d] /\ req'[d] = req[d]
    BY <2>2, <1>t DEF Step, LookUp, Probe, Attach, Replace, Start, StartFails, WaitHealthy,
       WaitFails, Register, Chat, Release, CallerKilled, Return, Goto, CallersOK
  <2>3. CASE LookUp(d) \/ Probe(d) \/ Replace(d) \/ Start(d) \/ WaitHealthy(d)
    <3>1. pc[d] \in {"lookup", "probe", "replace", "start", "wait"} /\ UNCHANGED req
      BY <2>3 DEF LookUp, Probe, Replace, Start, WaitHealthy
    <3>. QED
      BY <3>1 DEF Loading
  <2>4. CASE \/ Attach(d) \/ Register(d) \/ Chat(d)
             \/ StartFails(d) \/ WaitFails(d) \/ Release(d) \/ CallerKilled(d)
    <3>1. pc'[d] \in {"chat", "release", "idle"}
      BY <2>4, <1>t DEF Attach, Register, Chat, StartFails, WaitFails, Release, CallerKilled,
         Return, Goto, CallersOK
    <3>. QED
      BY <1>1, <3>1 DEF Loading
  <2>5. ASSUME NEW c \in Callers, Step(c) \/ CallerKilled(c)
        PROVE  pc[d] \in Loading /\ req'[d] = req[d]
    <3>1. CASE d # c
      BY <1>1, <2>2, <2>5, <3>1
    <3>2. CASE d = c
      BY <2>3, <2>4, <2>5, <3>2 DEF Step
    <3>. QED
      BY <3>1, <3>2
  <2>. QED
    BY <2>1, <2>5
    DEF INext, IActions, BackendUp, BackendExits, BackendHangs, UserEvicts, LimitsAreSet,
        StateIsLost, TickClock
<1>. QED
  BY <1>1 DEF BeingLoaded

\* A further model is admitted beside what is left in the table; each of the
\* other callers may load one more.
LEMMA AdmitFits ==
  ASSUME SizesAgree, ITypeOK, ITypeOK', MemoryInv, NEW c \in Callers, NEW r \in Requests,
         pc[c] = "idle", pc' = [pc EXCEPT ![c] = "lookup"], req' = [req EXCEPT ![c] = r],
         SizesKept(models, models'), UNCHANGED ram_limit,
         CommittedRam(models') + r.ram <= EffectiveRamLimit
  PROVE  MemoryInv'
<1>t. models \in ModelTables /\ models' \in ModelTables /\ CallersOK
  BY DEF ITypeOK, TypeOK, ModelTables
<1>1. Sized(models') /\ InTable(models') \subseteq InTable(models)
  BY KeptSized DEF MemoryInv
<1>2. EffectiveRamLimit = RamLimitOf(ram_limit) /\ ram_limit \in RamLimits \cup {0}
  BY DEF EffectiveRamLimit, RamLimitOf, MemoryInv
<1>3. PICK l \in RamLimits \cup {0} : Bound(l)
  BY DEF MemoryInv
<1>4. PICK h \in RamLimits \cup {0} :
        RamLimitOf(l) <= RamLimitOf(h) /\ EffectiveRamLimit <= RamLimitOf(h)
  <2>1. RamLimitOf(l) \in Nat /\ RamLimitOf(ram_limit) \in Nat
    BY <1>2, LimitNatural
  <2>2. CASE RamLimitOf(l) <= RamLimitOf(ram_limit)
    BY <1>2, <2>1, <2>2
  <2>3. CASE RamLimitOf(ram_limit) <= RamLimitOf(l)
    BY <1>2, <2>1, <2>3
  <2>. QED
    BY <2>1, <2>2, <2>3
<1>. DEFINE H == RamLimitOf(h)
            D == {d \in Callers : pc[d] \in Loading}
            Y == {req[d].name : d \in D}
<1>h. H \in Nat /\ RamLimitOf(l) \in Nat /\ r.ram \in Nat /\ EffectiveRamLimit \in Nat
  BY <1>2, LimitNatural, SchedulerAssumption DEF Request
<1>5. Spoken' \subseteq InTable(models') \cup Y \cup {r.name}
  <2>1. \A d \in Callers : pc'[d] \in Loading =>
          d = c \/ (d \in D /\ req'[d] = req[d])
    BY <1>t DEF CallersOK
  <2>2. req'[c] = r
    BY <1>t DEF CallersOK
  <2>. QED
    BY <2>1, <2>2 DEF Spoken, BeingLoaded, InTable, Loaded
<1>6. Y \subseteq Spoken
  BY DEF Spoken, BeingLoaded
<1>7. IsFiniteSet(Y) /\ Cardinality(Y) \in Nat /\ Cardinality(Callers) \in Nat
      /\ Cardinality(Y) + 1 <= Cardinality(Callers)
  <2>1. IsFiniteSet(Callers \ {c}) /\ Cardinality(Callers \ {c}) = Cardinality(Callers) - 1
    BY InferenceAssumption, FS_RemoveElement
  <2>2. D \in SUBSET (Callers \ {c})
    BY DEF Loading
  <2>. DEFINE f == [d \in D |-> req[d].name]
  <2>3. IsFiniteSet(D) /\ Cardinality(D) <= Cardinality(Callers \ {c})
    BY <2>1, <2>2, FS_Subset
  <2>4. f \in Surjection(D, Y)
    BY DEF Surjection
  <2>5. IsFiniteSet(Y) /\ Cardinality(Y) <= Cardinality(D)
    BY <2>3, <2>4, FS_Surjection
  <2>6. Cardinality(Y) \in Nat /\ Cardinality(D) \in Nat /\ Cardinality(Callers) \in Nat
    BY <2>3, <2>5, InferenceAssumption, FS_CardinalityType
  <2>. HIDE DEF D, Y
  <2>. QED
    BY <2>1, <2>3, <2>5, <2>6
<1>8. \A q \in Requests : q.name \in Spoken' => q.ram <= H
  <2>. SUFFICES ASSUME NEW q \in Requests, q.name \in Spoken' PROVE q.ram <= H
    OBVIOUS
  <2>0. q.ram \in Nat
    BY SchedulerAssumption DEF Request
  <2>1. CASE q.name = r.name
    <3>1. q.ram = r.ram /\ CommittedRam(models') \in Nat
      BY <1>t, <2>1, CommittedShrinks DEF SizesAgree
    <3>. QED
      BY <1>4, <1>h, <3>1
  <2>2. CASE q.name # r.name
    <3>1. q.name \in Spoken
      BY <1>1, <1>5, <1>6, <2>2 DEF Spoken
    <3>2. q.ram <= RamLimitOf(l)
      BY <1>3, <3>1 DEF Bound
    <3>. QED
      BY <1>4, <1>h, <2>0, <3>2
  <2>. QED
    BY <2>1, <2>2
<1>. HIDE DEF H, D, Y
<1>9. ASSUME NEW m \in ModelTables, Sized(m), InTable(m) \subseteq Spoken'
      PROVE  CommittedRam(m) <= Cardinality(Callers) * H
  <2>0. /\ EffectiveRamLimit <= H /\ Cardinality(Callers) * H \in Nat
        /\ CommittedRam(models') + r.ram <= EffectiveRamLimit
    BY <1>4, <1>7, <1>h DEF H
  <2>1. \A i \in Loaded(m) : m[i].ram <= H
    BY <1>8, <1>9 DEF Sized, InTable
  <2>2. CommittedRam(m) \in Nat /\ CommittedRam(models') \in Nat
    BY <1>t, <1>9, CommittedShrinks DEF SizesKept
  <2>3. Cardinality(Y) * H + H <= Cardinality(Callers) * H /\ Cardinality(Y) * H \in Nat
    <3>1. Cardinality(Y) * H + H = (Cardinality(Y) + 1) * H
      BY <1>7, <1>h
    <3>. DEFINE k == Cardinality(Callers) - (Cardinality(Y) + 1)
    <3>2. k \in Nat /\ Cardinality(Callers) = Cardinality(Y) + 1 + k
      BY <1>7
    <3>. HIDE DEF k
    <3>3. Cardinality(Callers) * H = (Cardinality(Y) + 1) * H + k * H
      BY <1>7, <1>h, <3>2
    <3>4. k * H \in Nat /\ Cardinality(Y) * H \in Nat
      BY <1>7, <1>h, <3>2
    <3>. QED
      BY <1>h, <3>1, <3>3, <3>4
  <2>4. CASE r.name \in InTable(m)
    <3>1. PICK i \in Loaded(m) : m[i].name = r.name
      BY <2>4 DEF InTable
    <3>2. m[i].ram = r.ram
      BY <1>9, <3>1 DEF Sized, SizesAgree
    <3>. DEFINE mm == EvictSlots(m, {i})
    <3>3. /\ mm \in ModelTables /\ Loaded(mm) = Loaded(m) \ {i}
          /\ \A j \in Loaded(mm) : mm[j] = m[j]
          /\ CommittedRam(mm) \in Nat /\ CommittedRam(m) = CommittedRam(mm) + m[i].ram
      BY <3>1, WithoutSlot
    <3>. HIDE DEF mm
    <3>4. Sized(mm)
      BY <1>9, <3>3, SizedPart
    <3>5. InTable(mm) \subseteq InTable(models') \cup Y
      <4>1. \A j \in Loaded(mm) : mm[j].name \in Spoken' /\ mm[j].name # r.name
        BY <1>9, <3>1, <3>3 DEF InTable, Sized
      <4>. QED
        BY <1>5, <4>1 DEF InTable
    <3>6. Covered(Cardinality(Loaded(mm)), mm, models', Y, H)
      BY <1>1, <1>7, <1>t, <2>1, <3>3, <3>4, <3>5 DEF Covered
    <3>7. CommittedRam(mm) <= CommittedRam(models') + Cardinality(Y) * H
      BY <1>h, <3>6, NoExcess
    <3>. QED
      BY <1>h, <2>0, <2>2, <2>3, <3>2, <3>3, <3>7
  <2>5. CASE r.name \notin InTable(m)
    <3>1. InTable(m) \subseteq InTable(models') \cup Y
      BY <1>5, <1>9, <2>5
    <3>2. Covered(Cardinality(Loaded(m)), m, models', Y, H)
      BY <1>1, <1>7, <1>9, <1>t, <2>1, <3>1 DEF Covered
    <3>3. CommittedRam(m) <= CommittedRam(models') + Cardinality(Y) * H
      BY <1>h, <3>2, NoExcess
    <3>. QED
      BY <1>h, <2>0, <2>2, <2>3, <3>3
  <2>. QED
    BY <2>4, <2>5
<1>10. Bound(h)'
  BY <1>8, <1>9 DEF Bound, H
<1>. QED
  BY <1>1, <1>2, <1>10 DEF MemoryInv, Sized, Loaded

LEMMA MemoryStep ==
  ASSUME SizesAgree, ITypeOK, ITypeOK', OneRecordPerModel', MemoryInv, INext
  PROVE  MemoryInv'
<1>t. TypeOK /\ CallersOK /\ Sized(models) /\ ram_limit \in RamLimits \cup {0}
  BY DEF ITypeOK, MemoryInv
<1>1. ASSUME NEW c \in Callers, NEW r \in Requests, Admit(c, r)
      PROVE  MemoryInv'
  <2>1. CASE /\ AdmitModelJob(c, r, TRUE)
             /\ Goto(c, "lookup")
             /\ req' = [req EXCEPT ![c] = r]
    <3>1. /\ SizesKept(models, models') /\ UNCHANGED ram_limit
          /\ \/ r.name \in InTable(models)
             \/ CommittedRam(models') + r.ram <= EffectiveRamLimit
      BY <1>t, <2>1, AdmitKeepsSizes
    <3>2. CASE CommittedRam(models') + r.ram <= EffectiveRamLimit
      BY <1>1, <2>1, <3>1, <3>2, AdmitFits DEF Admit, Goto
    <3>3. CASE r.name \in InTable(models)
      <4>1. Sized(models') /\ InTable(models') \subseteq InTable(models)
        BY <1>t, <3>1, KeptSized
      <4>2. \A d \in Callers : pc'[d] \in Loading =>
              (d = c /\ req'[d] = r) \/ (pc[d] \in Loading /\ req'[d] = req[d])
        BY <1>t, <2>1 DEF Goto, CallersOK
      <4>3. Spoken' \subseteq Spoken
        BY <3>3, <4>1, <4>2 DEF Spoken, BeingLoaded, InTable, Loaded
      <4>. QED
        BY <1>t, <3>1, <4>1, <4>3, SpokenFewer
    <3>. QED
      BY <3>1, <3>2, <3>3
  <2>2. CASE AdmitModelJob(c, r, FALSE) /\ UNCHANGED cvars
    <3>1. SizesKept(models, models') /\ UNCHANGED ram_limit
      BY <1>t, <2>2, AdmitKeepsSizes
    <3>2. Sized(models') /\ InTable(models') \subseteq InTable(models)
      BY <1>t, <3>1, KeptSized
    <3>3. Spoken' \subseteq Spoken
      BY <2>2, <3>2 DEF Spoken, BeingLoaded, cvars, InTable, Loaded
    <3>. QED
      BY <1>t, <3>1, <3>2, <3>3, SpokenFewer
  <2>. QED
    BY <1>1, <2>1, <2>2 DEF Admit
<1>2. CASE \A c \in Callers, r \in Requests : ~Admit(c, r)
  <2>1. BeingLoaded' \subseteq BeingLoaded
    BY <1>2, LoadsFewer
  <2>2. ASSUME SizesKept(models, models'), ram_limit' \in RamLimits \cup {0}
        PROVE  MemoryInv'
    <3>1. Sized(models') /\ InTable(models') \subseteq InTable(models)
      BY <1>t, <2>2, KeptSized
    <3>2. Spoken' \subseteq Spoken
      BY <2>1, <3>1 DEF Spoken, InTable, Loaded
    <3>. QED
      BY <2>2, <3>1, <3>2, SpokenFewer
  <2>3. ASSUME NEW c \in Callers, Attach(c) \/ Register(c)
        PROVE  MemoryInv'
    <3>1. req[c] \in Requests /\ target[c] \in Pids /\ MarkModelLoaded(req[c], target[c])
      BY <2>3, RequestOfCall DEF Attach, Register, ITypeOK, CallersOK, TargetKnown
    <3>2. Sized(models') /\ InTable(models') \subseteq InTable(models) \cup {req[c].name}
      BY <1>t, <3>1, LoadKeepsSized
    <3>3. req[c].name \in BeingLoaded
      BY <2>3 DEF Attach, Register, BeingLoaded, Loading
    <3>4. Spoken' \subseteq Spoken
      BY <2>1, <3>2, <3>3 DEF Spoken, InTable, Loaded
    <3>5. UNCHANGED ram_limit
      BY <3>1 DEF MarkModelLoaded, limits
    <3>. QED
      BY <1>t, <3>2, <3>4, <3>5, SpokenFewer
  <2>4. ASSUME NEW n, EvictModel(n) PROVE MemoryInv'
    BY <1>t, <2>2, <2>4, EvictKeepsSizes DEF EvictModel, limits
  <2>5. ASSUME NEW c \in Callers, Release(c) PROVE MemoryInv'
    BY <1>t, <2>2, <2>5, ReleaseKeepsSizes DEF Release, MarkModelUnloaded, limits
  <2>6. CASE StateIsLost
    <3>1. ram_limit' = 0 /\ SizesKept(models, models')
      BY <2>6, LostKeepsSizes DEF StateIsLost, ReinitState
    <3>. QED
      BY <2>2, <3>1
  <2>7. ASSUME NEW ram \in RamLimits, NEW vram \in VramLimits, LimitsAreSet(ram, vram)
        PROVE  MemoryInv'
    BY <2>2, <2>7 DEF LimitsAreSet, ConfigureLimits, tables, SizesKept
  <2>8. CASE UNCHANGED <<models, ram_limit>>
    BY <1>t, <2>2, <2>8 DEF SizesKept
  <2>. QED
    BY <1>2, <2>3, <2>4, <2>5, <2>6, <2>7, <2>8
    DEF INext, IActions, Step, LookUp, Probe, Replace, Start, StartFails, WaitHealthy, WaitFails,
        Chat, UserEvicts, CallerKilled, BackendUp, BackendExits, BackendHangs,
        TickClock, Tick, tables, limits, svars
<1>. QED
  BY <1>1, <1>2

(***************************************************************************)
(* The models in the table never need more RAM than the highest limit that *)
(* anybody configures, once for every caller, for any number of callers,   *)
(* any table and any sizes, while limits change, records are evicted or    *)
(* lost and callers are killed.  Admission reserves nothing, so the bound  *)
(* cannot be lower than one limit for every caller; the invariant is about *)
(* every table that the loads under way could leave, not only about the    *)
(* present one.  The hypothesis holds in the code: the size comes from the *)
(* model's entry in the registry (session.py 100).                         *)
(***************************************************************************)
THEOREM LoadedModelsFit ==
  ASSUME SizesAgree
  PROVE  ISpec => []CommittedWithinLimit
<1>1. IInit => OneRecordPerModel /\ MemoryInv
  <2>. SUFFICES ASSUME IInit PROVE OneRecordPerModel /\ MemoryInv
    OBVIOUS
  <2>1. Loaded(models) = {} /\ ram_limit = 0 /\ \A c \in Callers : pc[c] = "idle"
    BY DEF IInit, Init, Loaded
  <2>2. Spoken = {}
    BY <2>1 DEF Spoken, InTable, BeingLoaded, Loading
  <2>3. Cardinality(Callers) * RamLimitOf(0) \in Nat
    BY InferenceAssumption, FS_CardinalityType, LimitNatural
  <2>4. ASSUME NEW m \in ModelTables, InTable(m) \subseteq Spoken
        PROVE  CommittedRam(m) <= Cardinality(Callers) * RamLimitOf(0)
    <3>1. Loaded(m) = {}
      BY <2>2, <2>4 DEF InTable
    <3>. QED
      BY <2>3, <3>1, EmptyCommitted
  <2>5. Bound(0)
    BY <2>2, <2>4 DEF Bound
  <2>. QED
    BY <2>1, <2>5 DEF OneRecordPerModel, MemoryInv, Sized
<1>2. ITypeOK /\ OneRecordPerModel /\ [INext]_vars => OneRecordPerModel'
  BY UniqueStep
<1>3. ITypeOK /\ ITypeOK' /\ OneRecordPerModel' /\ MemoryInv /\ [INext]_vars => MemoryInv'
  <2>1. CASE INext
    BY <2>1, MemoryStep
  <2>2. CASE UNCHANGED vars
    <3>1. UNCHANGED <<models, ram_limit, pc, req>>
      BY <2>2 DEF vars, svars, cvars
    <3>2. Spoken' = Spoken
      BY <3>1 DEF Spoken, InTable, BeingLoaded, Loaded
    <3>3. MemoryInv => Sized(models') /\ ram_limit' \in RamLimits \cup {0}
      BY <3>1 DEF MemoryInv
    <3>. QED
      BY <3>2, <3>3, SpokenFewer
  <2>. QED
    BY <2>1, <2>2
<1>4. ITypeOK /\ MemoryInv => CommittedWithinLimit
  BY MemoryFits
<1>. QED
  BY <1>1, <1>2, <1>3, <1>4, CallsTyped, PTL DEF ISpec
=============================================================================
