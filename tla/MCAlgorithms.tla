---------------------------- MODULE MCAlgorithms -----------------------------
(***************************************************************************)
(* Inputs of every kind for Algorithms.  The models are those of           *)
(* bubblehub/config/models.yaml, numbered in the order of their names.     *)
(***************************************************************************)
EXTENDS Algorithms, TLC

-----------------------------------------------------------------------------
(* Requests with messages of every role and kind.                          *)

Item(kind, role, parts) ==
  [kind |-> kind, role |-> role, form |-> "string", parts |-> parts, blocks |-> {}, heading |-> UnnamedTool]

List(role, parts, blocks) ==
  [Item("message", role, parts) EXCEPT !.form = "list", !.blocks = blocks]

MCItems ==
  {List("user", <<"u", Blank>>, {1, 2}), Item("message", "user", <<Blank>>),
   List("user", <<"v", "w">>, {2}),
   Item("message", "assistant", <<"a">>), Item("message", "assistant", <<Failed>>),
   Item("message", "system", <<"s">>), Item("message", "developer", <<"d">>),
   Item("message", "tool", <<"t">>),
   [Item("message", "tool", <<"t">>) EXCEPT !.heading = "named", !.form = "object"],
   Item("string", "user", <<"x">>), Item("other", "user", <<"o">>)}

-----------------------------------------------------------------------------
(* Machines and limits for the choice of a model.                          *)

MCLlamaBackends == <<"cuda-llama", "rocm-llama", "vulkan-llama", "sycl-llama">>

Spec(place, name, flavor, capability, tier, backend, ram, vram, context, backends) ==
  [place |-> place, name |-> name, flavor |-> flavor, capability |-> capability, tier |-> tier,
   backend |-> backend, ram |-> ram, vram |-> vram, context |-> context,
   placement |-> IF backends = {} THEN "auto" ELSE "gpu", gpu_backends |-> backends]

MCModels ==
  {Spec(1, 6, "qwen", "instruct", "tiny", "llama", 5, 0, 32768, {}),
   Spec(2, 2, "mistral", "instruct", "small", "llama", 9, 0, 32768, {}),
   Spec(3, 4, "qwen", "instruct", "small", "llama", 10, 8, 32768, {MCLlamaBackends[i] : i \in 1..4}),
   Spec(4, 3, "nemotron", "instruct", "medium", "llama", 12, 0, 4096, {}),
   Spec(5, 7, "qwen", "vision", "small", "vllm", 10, 8, 32768, {"vllm"}),
   Spec(6, 5, "qwen", "instruct", "large", "vllm", 24, 16, 32768, {"vllm"})}

\* A list of a user: one name twice, in the same tier; a vLLM model without VRAM.
UserModels ==
  {Spec(1, 1, "qwen", "instruct", "small", "llama", 12, 8, 32768, {}),
   Spec(2, 1, "qwen", "instruct", "small", "llama", 6, 4, 32768, {"vulkan-llama"}),
   Spec(3, 2, "nemotron", "instruct", "tiny", "vllm", 6, 0, 32768, {}),
   Spec(4, 3, "qwen", "vision", "tiny", "vllm", 6, 6, 32768, {})}

Entry(capability, flavor, context) ==
  [capability |-> capability, flavor |-> flavor, min_context |-> context, model |-> AnyValue]

Registry(models, pinned) ==
  [models |-> models,
   specialties |-> [s \in {"default-instruct", "doc-ocr", "nemotron-instruct"} |->
     CASE s = "default-instruct"  -> [Entry("instruct", AnyValue, 8192) EXCEPT !.model = pinned]
       [] s = "doc-ocr"           -> Entry("vision", AnyValue, AnyValue)
       [] s = "nemotron-instruct" -> Entry("instruct", "nemotron", AnyValue)]]

MCRegistries ==
  {Registry(MCModels, AnyValue), Registry(UserModels, AnyValue), Registry(UserModels, 1)}

Card(total, free, major) == [total |-> total, free |-> free, major |-> major]

MCMachines ==
  [ram     : {0, 7, 10, 16, 32},
   nvidia  : {<<>>, <<Card(8, 8, 7)>>, <<Card(24, 20, 8)>>, <<Card(24, 4, 8), Card(8, 8, 7)>>},
   answers : BOOLEAN,
   tools   : {{}, {"rocm-smi"}, {"sycl-ls", "vulkaninfo"}},
   env     : {NoProfile, [vram |-> 16, free |-> 0, backends |-> {"vllm"}],
              [vram |-> 0, free |-> 0, backends |-> {}]}]

MCLimits == [ram : {0, 9}, vram : {0, 8}]

-----------------------------------------------------------------------------
(* Paths around a checkout at /home/u/bubble and a clone of it in          *)
(* /home/u/bubble/examples/fork.                                           *)

Home == <<"home", "u">>
Checkout == Home \o <<"bubble">>
Fork == Checkout \o <<"examples", "fork">>

MCNames == STRING
MCProtectedRoots == {<<"usr">>, <<"opt">>, <<"etc">>}
MCSystemPrefixes == {<<"usr">>, <<"opt", "bubblehub">>}
MCCwd == Home \o <<"work">>
MCStaging == <<"tmp", "bubblehub-workspace-1">>

MCDirs ==
  {<<>>, <<"usr">>, <<"usr", "local">>, <<"opt">>, <<"etc">>, <<"home">>, Home, MCCwd, MCCwd \o <<"sub">>, Checkout,
   Checkout \o <<"docs">>, Checkout \o <<"examples">>, Checkout \o <<"examples", "one">>,
   Fork, Fork \o <<"docs">>, Fork \o <<"examples">>}

MCHosts ==
  {[dirs |-> MCDirs, checkout |-> c, trees |-> t, path |-> <<<<"usr", "bin">>, Home \o <<"bin">>>>,
    python |-> p, executable |-> Home \o <<"bin", "python">>,
    files |-> {<<"usr", "bin", "bash">>, <<"opt", "bubblehub", "bin", "python">>, Home \o <<"bin", "tool">>,
               <<"usr", "bin", "job.py">>, Home \o <<"bin", "python">>,
               MCCwd \o <<"agent">>, MCCwd \o <<"sub", "agent">>, MCCwd \o <<"sub", "job.py">>,
               MCCwd \o <<"node_modules", ".bin", "tool">>,
               Checkout \o <<"examples", "one", "agent">>}] :
     c \in {NoPath, Checkout}, t \in {{}, {Checkout}, {Checkout, Fork}},
     p \in {<<"opt", "bubblehub", "bin", "python">>, <<"nowhere">>}}

MCPyNames == {"job.py"}

MCRoots == {NoPath} \cup MCDirs \cup {<<"nowhere">>}
MCWorkdirs == {NoPath, MCCwd, MCCwd \o <<"sub">>, Checkout \o <<"examples", "one">>}

MCBinaries ==
  {[kind |-> "absolute", path |-> <<"usr", "bin", "bash">>],
   [kind |-> "absolute", path |-> MCCwd \o <<"agent">>],
   [kind |-> "absolute", path |-> Checkout \o <<"examples", "one", "agent">>],
   [kind |-> "relative", path |-> <<"agent">>], [kind |-> "relative", path |-> <<"sub", "agent">>],
   [kind |-> "relative", path |-> <<"sub", "job.py">>], [kind |-> "absolute", path |-> <<"usr", "bin", "job.py">>],
   [kind |-> "bare", path |-> <<"tool">>], [kind |-> "bare", path |-> <<"bash">>],
   [kind |-> "bare", path |-> <<"none">>]}
=============================================================================
