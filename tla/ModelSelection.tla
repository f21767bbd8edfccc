--------------------------- MODULE ModelSelection ----------------------------
(***************************************************************************)
(* From a specialty to the model that serves it: the registry              *)
(* (bubblehub/engine/registry.py), the tier of the machine                 *)
(* (engine/selector.py), the choice a session makes (engine/session.py)    *)
(* and the ones the setup prompt and the model overview show               *)
(* (bubblehub/app/models.py).                                              *)
(*                                                                         *)
(* A registry is [models, specialties]: the entries of the list of models, *)
(* each with its place in the list, and a function from the registered     *)
(* specialties to their entries.  Names are numbers ordered like the       *)
(* names; nothing keeps two entries from having the same one.  Memory is   *)
(* in GB.                                                                  *)
(***************************************************************************)
EXTENDS GpuProfile, FiniteSets

CONSTANTS
  AnyValue,   \* a field that is not set (None)
  NoModel     \* no model: the code raises KeyError or RuntimeError

-----------------------------------------------------------------------------
(* ModelSpec.                                                              *)

\* __post_init__: what a model says of its placement, filled in.
Placement(m) ==
  IF m.placement = "auto" THEN (IF m.vram > 0 THEN "gpu" ELSE "cpu") ELSE m.placement

ModelGpuBackends(m) ==
  IF Placement(m) # "gpu" \/ m.gpu_backends # {} THEN m.gpu_backends
  ELSE CASE m.backend = "vllm"  -> {"vllm"}
         [] m.backend = "llama" -> {LlamaBackends[i] : i \in DOMAIN LlamaBackends}
         [] OTHER -> {}

OnGpu(m) == Placement(m) = "gpu" /\ m.vram > 0

\* A bug: any GPU will do.
ModelBackendSupported_AnyGpu(m, supported) == OnGpu(m) => supported # {}

ModelBackendSupported(m, supported) == OnGpu(m) => supported \cap ModelGpuBackends(m) # {}

PlacementRank(m) == IF ~OnGpu(m) THEN 2 ELSE IF m.backend = "vllm" THEN 0 ELSE 1

-----------------------------------------------------------------------------
(* The registry.                                                           *)

SelectTier(hw) ==
  CASE hw.ram < 8 -> <<"tiny">>
    [] hw.ram >= 8 /\ (hw.vram >= 16 \/ hw.ram >= 32) -> <<"large", "medium", "small", "tiny">>
    [] hw.ram >= 16 /\ hw.ram < 32 /\ hw.vram < 16 -> <<"medium", "small", "tiny">>
    [] OTHER -> <<"small", "tiny">>

\* A tier that is not in the order of the machine comes after those that are.
TierRank(m, order) ==
  Min({i \in DOMAIN order : order[i] = m.tier} \cup {1000})

\* The sort of the candidates: placement, tier, name; equals keep their order.
SortsBefore(a, b, order) ==
  LET key(m) == <<PlacementRank(m), TierRank(m, order), m.name, m.place>>
  IN  \E k \in 1..4 :
        /\ key(a)[k] < key(b)[k]
        /\ \A j \in 1..(k - 1) : key(a)[j] = key(b)[j]

Fits(m, ram, vram, supported) ==
  m.ram <= ram /\ m.vram <= vram /\ ModelBackendSupported(m, supported)

\* _resolve_model_name: the first model of the name.
IsModelName(registry, m, name) ==
  m.name = name /\ \A n \in registry.models : n.name = name => m.place <= n.place

\* resolve_candidates.  An entry that names a model yields that model or, if it
\* is not there or does not fit, an error; limits and backends apply to both.
ResolveCandidates(registry, s, ram, vram, supported) ==
  LET entry == registry.specialties[s]
  IN  IF s \notin DOMAIN registry.specialties THEN {}
      ELSE {m \in registry.models :
              /\ IF entry.model # AnyValue THEN IsModelName(registry, m, entry.model)
                 ELSE /\ m.capability = entry.capability
                      /\ entry.flavor \in {AnyValue, m.flavor}
                      /\ entry.min_context = AnyValue \/ m.context >= entry.min_context
              /\ Fits(m, ram, vram, supported)}

\* candidates[0], if there is one.
FirstOf(S, order) ==
  IF S = {} THEN NoModel
  ELSE CHOOSE m \in S : \A n \in S \ {m} : SortsBefore(m, n, order)

-----------------------------------------------------------------------------
(* Three callers.                                                          *)

\* The limits in a scheduler snapshot: those that are configured, else what
\* libbubble sees of the hardware (scheduler.c).
ReportedLimits(machine, limits) ==
  [ram  |-> IF limits.ram > 0 THEN limits.ram ELSE Max({machine.ram, 1}),
   vram |-> IF limits.vram > 0 THEN limits.vram ELSE NativeVram(machine)]

\* A bug: the configured limit does not count.
LimitGb_Hardware(limit, hardware) == hardware

LimitGb(limit, hardware) == IF limit > 0 THEN limit ELSE hardware

\* EngineSession.__enter__ outside a sandbox.
SessionModel(registry, s, machine, limits) ==
  LET hw == DetectHardware(machine)
      reported == ReportedLimits(machine, limits)
  IN  FirstOf(ResolveCandidates(registry, s, LimitGb(reported.ram, hw.ram),
                                LimitGb(reported.vram, hw.vram), hw.backends),
              SelectTier(hw))

\* resolve_setup_candidates: what the setup prompt offers.
SetupCandidates(registry, s, machine) ==
  LET hw == DetectHardware(machine)
  IN  ResolveCandidates(registry, s, hw.ram, hw.vram, hw.backends)

\* selected_model_name: what the overview marks and the prompt recommends.
SelectedModel(registry, s, machine) ==
  FirstOf(SetupCandidates(registry, s, machine), SelectTier(DetectHardware(machine)))

\* A bug: the choice is remembered by its flavor.
WithChoice_Flavor(registry, s, m) ==
  [registry EXCEPT !.specialties = [t \in DOMAIN registry.specialties \cup {s} |->
     IF t = s THEN [capability |-> m.capability, flavor |-> m.flavor,
                    min_context |-> AnyValue, model |-> AnyValue]
     ELSE registry.specialties[t]]]

\* The registry once a model is chosen for a specialty: the entry keeps its
\* name, capability and model, and loses what else it asked for.
WithChoice(registry, s, m) ==
  [registry EXCEPT !.specialties = [t \in DOMAIN registry.specialties \cup {s} |->
     IF t = s THEN [capability |-> m.capability, flavor |-> AnyValue,
                    min_context |-> AnyValue, model |-> m.name]
     ELSE registry.specialties[t]]]

-----------------------------------------------------------------------------
(* Properties of one case: a registry, a specialty, a machine and limits.  *)

\* Where no limit is configured and libbubble and Python see the same memory,
\* the model shown as selected is the model that a session starts.
ShownIsUsed(registry, s, machine, limits) ==
  (/\ limits.ram = 0 /\ limits.vram = 0
   /\ machine.ram > 0 /\ DetectHardware(machine).vram = NativeVram(machine))
  => SelectedModel(registry, s, machine) = SessionModel(registry, s, machine, limits)

\* A model for the GPU of a kind the code knows has one of the backends its entry
\* lists, or without a list one of its kind.
BackendIsThere(m, backends) ==
  (m.vram > 0 /\ m.placement \in {"auto", "gpu"} /\ m.backend \in {"vllm", "llama"}) =>
    \E b \in backends :
      IF m.gpu_backends # {} THEN b \in m.gpu_backends
      ELSE IF m.backend = "vllm" THEN b = "vllm" ELSE \E i \in DOMAIN LlamaBackends : b = LlamaBackends[i]

\* libbubble would not refuse the model of a session for its size, were it
\* alone: has_capacity_for against an empty table.
Admissible(m, machine, limits) ==
  LET reported == ReportedLimits(machine, limits)
  IN  /\ m.ram <= reported.ram
      /\ m.vram > 0 /\ reported.vram > 0 => m.vram <= reported.vram
=============================================================================
