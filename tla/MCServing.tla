----------------------------- MODULE MCServing -------------------------------
(***************************************************************************)
(* The daemon, its clients and the choosers on a machine without a GPU.    *)
(* The user file sets a limit and registers a specialty of its own; the    *)
(* packaged models are the ones of bubblehub/config/models.yaml that       *)
(* matter here.                                                            *)
(***************************************************************************)
EXTENDS HttpApi

MCLlamaBackends == <<"cuda-llama", "rocm-llama", "vulkan-llama", "sycl-llama">>

Model(name, capability, tier, ram) ==
  [name |-> name, flavor |-> "qwen", capability |-> capability, tier |-> tier, backend |-> "llama",
   place |-> name, ram |-> ram, vram |-> 0, context |-> 32768, placement |-> "cpu", gpu_backends |-> {}]

Entry(capability) ==
  [capability |-> capability, flavor |-> AnyValue, min_context |-> AnyValue, model |-> AnyValue]

MCPackaged ==
  [models |-> {Model(1, "instruct", "small", 9), Model(2, "instruct", "tiny", 5),
               Model(3, "vision", "small", 7)},
   specialties |-> [s \in {"default-instruct"} |-> Entry("instruct")]]

MCUserFile ==
  [limits |-> [ram |-> 8, vram |-> 0], specialties |-> [s \in {"doc-ocr"} |-> Entry("vision")]]

MCMachine == [ram |-> 16, nvidia |-> <<>>, answers |-> TRUE, tools |-> {}, env |-> NoProfile]

MCUnprefixed == [s \in {"openai/doc-ocr"} |-> "doc-ocr"]

CONSTANTS c1, c2

\* The second command has BUBBLEHUB_SPECIALITY in its environment.
MCDefaultSpecialty == [c \in Callers |-> IF c = c1 THEN "default-instruct" ELSE "doc-ocr"]

\* An answer that c1 got before any chooser came, and its structure was wrong.
Answered == {[NoRequest EXCEPT !.client = "answered", !.kind = "chat", !.specialty = s] : s \in Asked}

\* The two halves of the system that are explored: daemons that come and go
\* while nobody chooses, where c1 asks; and choosers while a daemon of c2 is up,
\* where c1 asks again.  The other clients of the scheduler are in both.
MCInit ==
  /\ file = UserFile /\ kept = UserFile /\ kills = 0 /\ disturbed = FALSE
  /\ chooser = [k \in Choosers |-> Idle]
  /\ others = [p \in Others |-> Away]
  /\ torn = FALSE /\ cut = FALSE
  /\ \E first \in {NoRequest} \cup Answered :
       /\ request = [c \in Callers |->
            IF c = c1 THEN first ELSE [NoRequest EXCEPT !.client = "failed"]]
       /\ \/ DInit /\ choices = MaxChoices /\ limits = EmptyFile.limits /\ first = NoRequest
          \/ /\ choices = 0 /\ deaths = MaxDeaths /\ limits = UserFile.limits /\ first # NoRequest
             /\ caller = [c \in Callers |-> IF c = c1 THEN "ready" ELSE "failed"]
             /\ daemon = [d \in Daemons |->
                  [pc |-> IF d = c2 THEN "listening" ELSE "gone",
                   default |-> IF d = c2 THEN DefaultSpecialty[c2] ELSE ""]]

MCSpec == MCInit /\ [][HNext]_hvars /\ HFairness
=============================================================================
