---------------------------- MODULE ModelsConfig -----------------------------
(***************************************************************************)
(* ~/.config/bubblehub/models.yaml: the readers that merge it over the     *)
(* packaged file, and the commands that pin a model in it (bubble models,  *)
(* bubble models setup, POST /api/models/select).  All of them may run at  *)
(* once; the file has no lock and is rewritten in place.                   *)
(*                                                                         *)
(* A user file is [limits, specialties].  Lists of models of its own and   *)
(* BUBBLEHUB_MODELS_CONFIG, a third file that is only read, are left out.  *)
(***************************************************************************)
EXTENDS ModelSelection

CONSTANTS
  Packaged,     \* the registry in bubblehub/config/models.yaml
  UserFile,     \* the user file at first
  Machine,      \* the machine, as GpuProfile describes one
  Choosers,     \* commands and API threads that pin a model
  MaxChoices,   \* bound on the choices made
  MaxKills,     \* bound on the choosers killed while they write
  Corrupt       \* a file that YAML refuses

ASSUME ModelsConfigAssumption ==
  /\ Corrupt # UserFile
  /\ MaxChoices \in Nat /\ MaxKills \in Nat
  /\ DOMAIN Packaged = {"models", "specialties"} /\ NoModel \notin Packaged.models
  /\ \A m \in Packaged.models : m.name \in Nat /\ m.ram \in Nat /\ m.vram \in Nat
  /\ \A m \in Packaged.models : m.place \in Nat
  /\ \A m, n \in Packaged.models : m.name = n.name \/ m.place = n.place => m = n
  /\ DOMAIN UserFile = {"limits", "specialties"} /\ UserFile.limits \in [ram : Nat, vram : Nat]

VARIABLES
  file,       \* the content of the user file
  chooser,    \* where every chooser is
  choices, kills,
  disturbed,  \* history: two writes overlapped, or one was cut short
  kept        \* history: the file, had every write been one step

cvars == <<file, chooser, choices, kills, disturbed, kept>>

\* An empty file, and one that is not there.
EmptyFile == [limits |-> [ram |-> 0, vram |-> 0], specialties |-> << >>]

Idle == [pc |-> "idle", way |-> "", specialty |-> "", model |-> NoModel, data |-> EmptyFile]

\* ModelRegistry.load_default: an entry of the user replaces the packaged one.
RegistryOf(f) ==
  [Packaged EXCEPT !.specialties =
     [s \in DOMAIN Packaged.specialties \cup DOMAIN f.specialties |->
        IF s \in DOMAIN f.specialties THEN f.specialties[s] ELSE Packaged.specialties[s]]]

\* _configured_limits.  The packaged file configures none.
ConfiguredLimits(f) == f.limits

\* user_chose_base_model.
UserChose(f, s) == s \in DOMAIN f.specialties /\ f.specialties[s].model # AnyValue

\* A file that was opened for writing and not written yet.
Truncated == file = EmptyFile /\ \E k \in Choosers : chooser[k].pc = "dump"

CInit ==
  /\ file = UserFile /\ kept = UserFile
  /\ chooser = [k \in Choosers |-> Idle]
  /\ choices = 0 /\ kills = 0 /\ disturbed = FALSE

Becomes(k, state) == chooser' = [chooser EXCEPT ![k] = state]

-----------------------------------------------------------------------------
(* Choosing.  A reader of a corrupt file raises: the command fails.        *)

\* bubble models and the API ask at once; setup only where no model is pinned.
Begin(k, way, s) ==
  /\ chooser[k].pc = "idle" /\ choices < MaxChoices
  /\ way = "setup" => file # Corrupt /\ ~UserChose(file, s)
  /\ choices' = choices + 1
  /\ Becomes(k, [Idle EXCEPT !.pc = "choose", !.way = way, !.specialty = s])
  /\ UNCHANGED <<file, kills, disturbed, kept>>

\* select_model_for_speciality: the API, and setup with BUBBLEHUB_BASE_MODEL.
Selectable(s, m) ==
  LET registry == RegistryOf(file)
  IN  /\ s \in DOMAIN registry.specialties
      /\ m \in registry.models
      /\ m.capability = registry.specialties[s].capability

\* prompt_base_model_setup: any of the candidates.
Promptable(s, m) == m \in SetupCandidates(RegistryOf(file), s, Machine)

Choose(k, m) ==
  /\ chooser[k].pc = "choose" /\ file # Corrupt
  /\ \/ chooser[k].way \in {"api", "setup"} /\ Selectable(chooser[k].specialty, m)
     \/ chooser[k].way \in {"models", "setup"} /\ Promptable(chooser[k].specialty, m)
  /\ Becomes(k, [chooser[k] EXCEPT !.pc = "read", !.way = "", !.model = m])
  /\ UNCHANGED <<file, choices, kills, disturbed, kept>>

\* Nothing to choose, an unknown specialty, the wrong capability, a bad file.
ChooseFails(k) ==
  /\ chooser[k].pc = "choose"
  /\ Becomes(k, Idle)
  /\ UNCHANGED <<file, choices, kills, disturbed, kept>>

-----------------------------------------------------------------------------
(* write_speciality_model_override: read, open for writing, dump.          *)

Writing(k) == chooser[k].pc \in {"truncate", "dump"}

ReadConfig(k) ==
  /\ chooser[k].pc = "read"
  /\ IF file = Corrupt THEN Becomes(k, Idle)
     ELSE Becomes(k, [chooser[k] EXCEPT !.pc = "truncate", !.data = file])
  /\ disturbed' = (disturbed \/ \E j \in Choosers \ {k} : Writing(j))
  /\ kept' = IF disturbed' THEN EmptyFile ELSE kept
  /\ UNCHANGED <<file, choices, kills>>

Truncate(k) ==
  /\ chooser[k].pc = "truncate"
  /\ file' = EmptyFile
  /\ Becomes(k, [chooser[k] EXCEPT !.pc = "dump"])
  /\ UNCHANGED <<choices, kills, disturbed, kept>>

\* A bug: the entry written is the only one.
Dump_OnlyOwn(k) ==
  /\ chooser[k].pc = "dump"
  /\ LET c == chooser[k]
     IN  /\ file' = WithChoice(EmptyFile, c.specialty, c.model)
         /\ kept' = IF disturbed THEN EmptyFile ELSE WithChoice(kept, c.specialty, c.model)
  /\ Becomes(k, Idle)
  /\ UNCHANGED <<choices, kills, disturbed>>

\* Over what another chooser wrote since this one truncated the file, a
\* shorter text leaves a tail.
Dump(k) ==
  /\ chooser[k].pc = "dump"
  /\ LET c == chooser[k]
         new == WithChoice(c.data, c.specialty, c.model)
     IN  /\ file' \in IF file = EmptyFile THEN {new} ELSE {new, Corrupt}
         /\ kept' = IF disturbed THEN EmptyFile ELSE WithChoice(kept, c.specialty, c.model)
  /\ Becomes(k, Idle)
  /\ UNCHANGED <<choices, kills, disturbed>>

\* Killed before the write (no trace), or between opening and dumping.
ChooserKilled(k) ==
  /\ Writing(k) /\ kills < MaxKills
  /\ kills' = kills + 1
  /\ disturbed' = (disturbed \/ chooser[k].pc = "dump")
  /\ kept' = IF disturbed' THEN EmptyFile ELSE kept
  /\ Becomes(k, Idle)
  /\ UNCHANGED <<file, choices>>

CNext ==
  \E k \in Choosers :
    \/ \E s \in DOMAIN RegistryOf(UserFile).specialties, way \in {"api", "models", "setup"} :
         Begin(k, way, s)
    \/ \E m \in Packaged.models : Choose(k, m)
    \/ ChooseFails(k) \/ ReadConfig(k) \/ Truncate(k) \/ Dump(k) \/ ChooserKilled(k)

-----------------------------------------------------------------------------
(* Properties.                                                             *)

(***************************************************************************)
(* Choices made one after the other all stand: the file holds every one of *)
(* them, the limits and what else the user wrote.  Only a write that reads *)
(* while another is under way, or one cut short, can lose any of it; and   *)
(* only overlapping writes can leave a file that YAML refuses.             *)
(***************************************************************************)
ChoicesKept == ~disturbed => file = kept \/ Truncated
=============================================================================
