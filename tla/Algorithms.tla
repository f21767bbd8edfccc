----------------------------- MODULE Algorithms ------------------------------
(***************************************************************************)
(* The modules without state, on any inputs: every behaviour takes one     *)
(* input of one of them.                                                   *)
(***************************************************************************)
EXTENDS ChatMessages, ModelSelection, SandboxPaths

CONSTANTS
  Items,       \* what a client may put in the list of messages
  MaxItems,    \* bound on the messages of a request
  Registries,  \* the models and specialties of a models.yaml
  Machines,    \* what the probes of a machine print
  Limits,      \* the limits a user may configure
  Hosts,       \* file systems
  Names,       \* what a file may be called
  Roots, Workdirs, Binaries   \* the options of bubble run

VARIABLE input

Nothing == [of |-> "nothing"]

Path == Seq(Names)
Cards == [total : Nat, free : Nat, major : Nat]
Pieces == UNION {{item.heading} \cup {item.parts[i] : i \in DOMAIN item.parts} : item \in Items}
RootfsEnvs == [disabled : BOOLEAN, configured : BOOLEAN, image : {"missing", "file", "directory"}]

ASSUME ItemsAssumption ==
  /\ MaxItems \in Nat
  /\ \A item \in Items : item.kind \in {"string", "message", "other"} /\ item.parts \in Seq(Pieces)

\* An entry has sizes and a place of its own in the list; ModelSpec checks nothing
\* else.
ASSUME RegistryAssumption ==
  /\ AnyValue \notin Nat
  /\ \A registry \in Registries :
       /\ {"models", "specialties"} \subseteq DOMAIN registry
       /\ NoModel \notin registry.models
       /\ \A m \in registry.models :
            /\ m.name \in Nat /\ m.ram \in Nat /\ m.vram \in Nat /\ m.place \in Nat
            /\ \A n \in registry.models : m.place = n.place => m = n

ASSUME MachineAssumption ==
  /\ LlamaBackends \in Seq(STRING)
  /\ \A machine \in Machines :
       /\ machine.ram \in Nat
       /\ machine.nvidia \in Seq(Cards)
       /\ machine.env # NoProfile => machine.env.vram \in Nat
  /\ \A limits \in Limits : limits.ram \in Nat /\ limits.vram \in Nat

\* The system paths are those of run.py: one name below "/", and the system
\* prefixes are not under /home.  Files are not "/".
ASSUME PathAssumption ==
  /\ \A p \in ProtectedRoots : p \in Path /\ Len(p) = 1
  /\ \A p \in SystemPrefixes : p \in Path /\ p # <<>> /\ p[1] # "home"
  /\ {"home", "workspace", "examples", "node_modules", ".bin", Agent} \subseteq Names
  /\ NoPath \notin Path
  /\ Cwd \in Path /\ Staging \in Path
  /\ \A host \in Hosts :
       /\ \A d \in host.dirs \cup host.trees : d \in Path
       /\ \A f \in host.files : f \in Path /\ f # <<>> /\ f \notin host.dirs
       /\ host.checkout # NoPath => host.checkout \in Path
       /\ host.path \in Seq(Path)
       /\ host.python \in Path /\ host.executable \in Path
  /\ \A root \in Roots : root # NoPath => root \in Path
  /\ \A workdir \in Workdirs : workdir # NoPath => workdir \in Path
  /\ \A binary \in Binaries :
       binary.kind \in {"absolute", "relative", "bare"} /\ binary.path \in Path

-----------------------------------------------------------------------------
(* Inputs.                                                                 *)

TakeMessages ==
  /\ input = Nothing
  /\ \E items \in BoundedSeq(Items, MaxItems) : input' = [of |-> "messages", items |-> items]

TakeMachine ==
  /\ input = Nothing
  /\ \E registry \in Registries, machine \in Machines, limits \in Limits :
       \E s \in DOMAIN registry.specialties :
         input' = [of |-> "machine", registry |-> registry, machine |-> machine,
                   specialty |-> s, limits |-> limits]

\* BUBBLEHUB_GPU and what pip does.
TakeInstall ==
  /\ input = Nothing
  /\ \E machine \in Machines, mode \in GpuModes \cup {"cuda"},
        may_install, wheel \in BOOLEAN, pip \in {0, 1} :
       input' = [of |-> "install", machine |-> machine, mode |-> mode,
                 may_install |-> may_install, wheel |-> wheel, pip |-> pip]

TakePaths ==
  /\ input = Nothing
  /\ \E host \in Hosts, env \in RootfsEnvs,
        root \in Roots, workdir \in Workdirs, binary \in Binaries :
       input' = [of |-> "paths", host |-> host, env |-> env,
                 request |-> [root |-> root, workdir |-> workdir, binary |-> binary]]

Init == input = Nothing
Next == TakeMessages \/ TakeMachine \/ TakeInstall \/ TakePaths
AlgorithmsSpec == Init /\ [][Next]_input

-----------------------------------------------------------------------------
(* Properties.                                                             *)

(***************************************************************************)
(* Whatever a client sends, normalize_chat_messages hands a model one      *)
(* system message, first, then questions and answers in turn that begin    *)
(* with a question; and it keeps every usable piece, in order, but for the *)
(* answers before the first question.  A conversation that comes through   *)
(* the Anthropic shim in a sandbox becomes the same if its contents are    *)
(* strings or blocks with "text" and its tools have no names; of other     *)
(* contents the shim drops bare strings, input_text and output_text.       *)
(***************************************************************************)
ConversationKept ==
  input.of = "messages" =>
    LET out == NormalizeChatMessages(input.items)
    IN  /\ WellFormed(out)
        /\ PiecesOf(out, {"system"}) = SystemPieces(input.items)
        /\ PiecesOf(out, {"user", "assistant"}) = TalkPieces(input.items)
        /\ (\A i \in DOMAIN input.items : AnthropicReads(input.items[i])) =>
             NormalizeChatMessages(Posted(AnthropicMessages(<<"p">>, input.items)))
               = NormalizeChatMessages(<<PlainItem("system", <<"p">>)>> \o input.items)

(***************************************************************************)
(* The model that a session starts is never one that admission refuses for *)
(* its size on an idle machine, or whose backends the machine lacks all;   *)
(* and, where libbubble and Python see the same memory and no limit is     *)
(* set, it is the model the overview shows as selected.                    *)
(***************************************************************************)
SessionModelStarts ==
  input.of = "machine" =>
    LET m == SessionModel(input.registry, input.specialty, input.machine, input.limits)
    IN  /\ m # NoModel =>
             /\ Admissible(m, input.machine, input.limits)
             /\ BackendIsThere(m, DetectHardware(input.machine).backends)
        /\ ShownIsUsed(input.registry, input.specialty, input.machine, input.limits)

(***************************************************************************)
(* A model that the setup prompt offers, once chosen, is the one the next  *)
(* session starts: the choice overrides tier, flavor and context.  The     *)
(* choice is kept by name, so the name must be the model's own.  Limits    *)
(* the user configures, or a GPU described by hand as larger than libbubble *)
(* finds it, may refuse it later.                                          *)
(***************************************************************************)
OfferedModelStarts ==
  (/\ input.of = "machine" /\ input.limits = [ram |-> 0, vram |-> 0]
   /\ NativeVram(input.machine) # 0 => DetectHardware(input.machine).vram <= NativeVram(input.machine))
  => \A m \in SetupCandidates(input.registry, input.specialty, input.machine) :
       (\A n \in input.registry.models : n.name = m.name => n = m) =>
         SessionModel(WithChoice(input.registry, input.specialty, m), input.specialty,
                      input.machine, input.limits) = m

(***************************************************************************)
(* The installer ends in success only with a runtime the machine supports, *)
(* a forced mode it cannot honour fails, and pip runs only for a machine   *)
(* that can use vLLM.  The backends are those of one card, the one with    *)
(* the most free memory.                                                   *)
(***************************************************************************)
InstallFitsMachine ==
  input.of = "install" =>
    LET hw == DetectHardware(input.machine)
        profile == ChooseInstallProfile(hw, input.mode)
        cards == input.machine.nvidia
        status == GpuSetupStatus(hw, input.mode, input.may_install, input.wheel, input.pip)
    IN  /\ status = 0 => profile.backend \in hw.backends \cup {"cpu"}
        /\ profile.install_vllm /\ profile.supported => "vllm" \in hw.backends
        /\ input.mode \in GpuModes \ {"auto", "cpu"} =>
             (status = 0 => profile.backend = input.mode)
        /\ (input.machine.env = NoProfile /\ "vllm" \in hw.backends) =>
             \E i \in DOMAIN cards :
               /\ cards[i].major >= 8 /\ cards[i].total = hw.vram
               /\ \A j \in DOMAIN cards : cards[j].free <= cards[i].free

(***************************************************************************)
(* What bubble run hands to the helper: a root below which is no system    *)
(* path, and nothing but the examples of the running checkout and of the   *)
(* source tree around the root; and the binary and working directory the   *)
(* agent gets are the ones the user named, seen from inside, a script      *)
(* behind a Python.  A source tree below the root that is not the running  *)
(* checkout is not protected.                                              *)
(***************************************************************************)
LaunchIsWhatWasAsked ==
  input.of = "paths" =>
    LET launch == Launch(input.host, input.env, input.request)
    IN  "refused" \notin DOMAIN launch =>
          /\ RootIsSafe(input.host, launch)
          /\ SeesWhatWasNamed(input.host, input.request, launch)
=============================================================================
