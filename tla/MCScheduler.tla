----------------------------- MODULE MCScheduler -----------------------------
(***************************************************************************)
(* Small instances of Scheduler.                                           *)
(***************************************************************************)
EXTENDS Scheduler

RamJob(name, ram, niceness) ==
  [name |-> name, ram |-> ram, vram |-> 0, niceness |-> niceness]
GpuJob(name, vram, niceness) ==
  [name |-> name, ram |-> 1, vram |-> vram, niceness |-> niceness]

\* With a limit of 10: any model fits alone, "a" and "b" fit together and
\* fill the memory, "c" with either does not; "a" alone leaves it low.
Names == {"a", "b", "c"}
Jobs ==
  {RamJob("a", 4, 10), RamJob("b", 6, 0), RamJob("b", 6, 5),
   RamJob("c", 9, 0), RamJob("c", 9, 10)}

\* With 10 units of VRAM: "g" and "h" fill it; either one fits the reserve.
GpuNames == {"g", "h"}
GpuJobs ==
  {GpuJob("g", 5, 0), GpuJob("h", 5, 0), GpuJob("h", 5, 1), GpuJob("g", 11, 0)}

AllNames == Names \cup GpuNames
AllJobs == Jobs \cup GpuJobs

-----------------------------------------------------------------------------
(* Two machines in one run.  On the first, VRAM is short; on the second,   *)
(* RAM is, time passes, and one slot of the queue is taken for good by a   *)
(* job of a model that is not asked for again.                             *)

Stuck == [caller |-> CHOOSE c \in Callers : TRUE, name |-> "g",
          niceness |-> 0, reason |-> "none"]

HoldsOnly(names, slots) ==
  /\ \A i \in ModelSlots : models[i] # Empty => models[i].name \in names
  /\ \A k \in slots : queue[k] # Empty => queue[k].name \in names

VramShort == HoldsOnly(GpuNames, QueueSlots) /\ ram_limit = 0 /\ now = 0
RamShort ==
  /\ HoldsOnly(Names, QueueSlots \ {MaxQueue})
  /\ queue[MaxQueue] = Stuck
  /\ vram_limit = 0

MCInit ==
  /\ models = [i \in ModelSlots |-> Empty]
  /\ \E last \in {Empty, Stuck} :
       queue = [k \in QueueSlots |-> IF k = MaxQueue THEN last ELSE Empty]
  /\ ram_limit = 0
  /\ vram_limit = 0
  /\ now = 0
  /\ signalled = {}

MCSpec == MCInit /\ [][Next /\ (RamShort \/ VramShort)']_svars

=============================================================================
