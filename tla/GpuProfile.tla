----------------------------- MODULE GpuProfile ------------------------------
(***************************************************************************)
(* What BubbleHub believes about the GPU (bubblehub/native.py,             *)
(* libbubble/hw_detect.c) and what its installer makes of it               *)
(* (bubblehub/gpu_setup.py).  A machine is described by what its probes    *)
(* print; memory is in GB.                                                 *)
(***************************************************************************)
EXTENDS Integers, Sequences, FiniteSetsExt

CONSTANTS LlamaBackends  \* <<"cuda-llama", "rocm-llama", "vulkan-llama", "sycl-llama">>

Profile(vendor, vram, free, backends) ==
  [vendor |-> vendor, vram |-> vram, free |-> free, backends |-> backends]

NoProfile == [vendor |-> "not found"]

\* libbubble asks nvidia-smi only, and takes the largest card.
NativeVram(machine) ==
  IF machine.nvidia = <<>> THEN 0 ELSE Max({machine.nvidia[i].total : i \in DOMAIN machine.nvidia})
NativeFreeVram(machine) ==
  IF machine.nvidia = <<>> THEN 0 ELSE Max({machine.nvidia[i].free : i \in DOMAIN machine.nvidia})

SupportsVllmCompute(major) == major >= 8

\* BUBBLEHUB_GPU_*: any of them replaces what the probes find.
GpuProfileFromEnv(env) ==
  IF env = NoProfile THEN NoProfile
  ELSE Profile(IF env.backends = {} THEN "none" ELSE "generic", env.vram,
               IF env.free > 0 THEN env.free ELSE env.vram, env.backends)

\* The card with the most free memory, the first of them on a tie.
BestCard(cards) ==
  CHOOSE i \in DOMAIN cards :
    /\ \A j \in DOMAIN cards : cards[j].free <= cards[i].free
    /\ \A j \in 1..(i - 1) : cards[j].free < cards[i].free

\* The probe of Python may time out where that of libbubble got an answer.
DetectNvidiaGpu(machine) ==
  IF machine.nvidia = <<>> \/ ~machine.answers THEN NoProfile
  ELSE LET card == machine.nvidia[BestCard(machine.nvidia)]
       IN  Profile("nvidia", card.total, card.free,
                   {"cuda-llama"} \cup IF SupportsVllmCompute(card.major) THEN {"vllm"} ELSE {})

\* The other vendors: their tool names the backend, the memory is libbubble's.
DetectOtherGpu(machine, tool, vendor, backend) ==
  IF tool \notin machine.tools THEN NoProfile
  ELSE Profile(vendor, NativeVram(machine),
               IF NativeFreeVram(machine) > 0 THEN NativeFreeVram(machine) ELSE NativeVram(machine),
               {backend})

DetectAmdGpu(machine) == DetectOtherGpu(machine, "rocm-smi", "amd", "rocm-llama")
DetectIntelGpu(machine) == DetectOtherGpu(machine, "sycl-ls", "intel", "sycl-llama")
DetectVulkanGpu(machine) == DetectOtherGpu(machine, "vulkaninfo", "vulkan", "vulkan-llama")

\* _detect_gpu_profile: the first probe that finds something.
DetectGpuProfile(machine) ==
  LET probes == <<GpuProfileFromEnv(machine.env), DetectNvidiaGpu(machine),
                  DetectAmdGpu(machine), DetectIntelGpu(machine), DetectVulkanGpu(machine)>>
      found == {i \in DOMAIN probes : probes[i] # NoProfile}
  IN  IF found # {} THEN probes[Min(found)]
      ELSE Profile("none", NativeVram(machine), NativeFreeVram(machine), {})

\* detect_hardware.
DetectHardware(machine) ==
  LET gpu == DetectGpuProfile(machine)
  IN  [ram |-> machine.ram, vram |-> gpu.vram, free |-> gpu.free, backends |-> gpu.backends]

-----------------------------------------------------------------------------
(* The installer.                                                          *)

GpuModes == {"auto", "cpu", "vllm"} \cup {LlamaBackends[i] : i \in DOMAIN LlamaBackends}

InstallProfile(backend, install_vllm, supported) ==
  [backend |-> backend, install_vllm |-> install_vllm, supported |-> supported]

\* A bug: a forced backend is taken at its word.
ChooseInstallProfile_Forced(hardware, mode) ==
  IF mode \in {"auto", "cpu"} THEN InstallProfile("cpu", FALSE, TRUE)
  ELSE InstallProfile(mode, mode = "vllm", TRUE)

ChooseInstallProfile(hardware, mode) ==
  LET known == <<"vllm">> \o LlamaBackends
      usable == {i \in DOMAIN known : known[i] \in hardware.backends}
      best == known[Min(usable)]
  IN  CASE mode \notin GpuModes -> InstallProfile("cpu", FALSE, FALSE)
        [] mode = "cpu" -> InstallProfile("cpu", FALSE, TRUE)
        [] mode \in GpuModes \ {"auto", "cpu"} ->
             InstallProfile(mode, mode = "vllm", mode \in hardware.backends)
        [] mode = "auto" /\ usable # {} -> InstallProfile(best, best = "vllm", TRUE)
        [] OTHER -> InstallProfile("cpu", FALSE, TRUE)

\* main: the exit status, given whether it may install, has a wheel, and what
\* pip returns.  An automatic choice never fails the installation, but for a
\* missing wheel.
GpuSetupStatus(hardware, mode, may_install, wheel, pip) ==
  LET profile == ChooseInstallProfile(hardware, mode)
  IN  CASE ~profile.supported -> IF mode = "auto" THEN 0 ELSE 1
        [] profile.supported /\ profile.install_vllm /\ may_install ->
             IF ~wheel THEN 1 ELSE IF mode = "auto" THEN 0 ELSE pip
        [] OTHER -> 0
=============================================================================
