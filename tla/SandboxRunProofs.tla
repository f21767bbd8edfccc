-------------------------- MODULE SandboxRunProofs ---------------------------
(***************************************************************************)
(* Proofs about SandboxRun, for every set of configurations and any number *)
(* of processes killed.                                                    *)
(***************************************************************************)
EXTENDS SandboxRun, TLAPS

\* Where the helper may be: before the child is forked, while it is there, and
\* when it is gone.
Forking == {"start", "inference", "http", "fork"}
Waiting == {"ready", "map", "continue", "abort", "wait", "abortWait"}
Stopping == {"stopInference", "reapInference", "stopHttp", "reapHttp", "cleanup", "returned"}

\* The steps of the child, numbered.  A layer has the number of its step.
Stage(step) ==
  CASE step = "userns" -> 1
    [] step = "ready" -> 2
    [] step = "continue" -> 3
    [] step = "identity" -> 4
    [] step = "namespaces" -> 5
    [] step = "sockets" -> 6
    [] step = "loopback" -> 7
    [] step = "inferenceProxy" -> 8
    [] step = "httpProxy" -> 9
    [] step = "httpReady" -> 10
    [] step = "mounts" -> 11
    [] step = "runtime" -> 12
    [] step = "landlock" -> 13
    [] step = "root" -> 14
    [] step = "noNewPrivs" -> 15
    [] step = "closeFds" -> 16
    [] step = "seccomp" -> 17
    [] step = "exec" -> 18
    [] step = "agent" -> 19
    [] OTHER -> 0

ChildSteps ==
  {"userns", "ready", "continue", "identity", "namespaces", "sockets", "loopback",
   "inferenceProxy", "httpProxy", "httpReady", "mounts", "runtime", "landlock", "root",
   "noNewPrivs", "closeFds", "seccomp", "exec", "agent"}

PlacesOf(p) ==
  CASE p = "helper" -> Forking \cup Waiting \cup Stopping \cup {"dead"}
    [] p = "child" -> ChildSteps \cup {"none", "dead"}
    [] p = "inference" -> {"none", "serving", "dead"}
    [] p = "http" -> {"none", "dropping", "serving", "busy", "dead"}
    [] p \in NsProxies -> {"none", "arming", "opening", "serving", "dead"}
    [] p = "handler" -> {"none", "busy", "dead"}

SandboxTyped ==
  /\ config \in Configs
  /\ pc \in [Procs -> UNION {PlacesOf(p) : p \in Procs}]
  /\ \A p \in Procs : pc[p] \in PlacesOf(p)
  /\ held \in [Ends -> SUBSET Procs]

\* Nothing is there before the helper has started it.
StartedByHelper ==
  /\ pc["helper"] \in Forking => pc["child"] = "none"
  /\ pc["helper"] \in {"start", "inference"} => pc["inference"] = "none"
  /\ pc["helper"] \in {"start", "inference", "http"} => pc["http"] = "none"

\* What the helper has waited for is gone.
Reaped ==
  /\ pc["helper"] \in Stopping => pc["child"] \in {"none", "dead"}
  /\ pc["helper"] \in {"stopHttp", "reapHttp", "cleanup", "returned"} =>
       pc["inference"] \in {"none", "dead"}
  /\ pc["helper"] \in {"cleanup", "returned"} => pc["http"] \in {"none", "dead"}
  /\ pc["helper"] = "returned" => root # "made"

HelperInv == StartedByHelper /\ Reaped

\* The configuration does not ask for this layer, or the build does not have it.
NotAsked(l) ==
  \/ l = "loopback" /\ ~config.isolate
  \/ l = "seccomp" /\ ~(config.seccomp /\ config.libseccomp)

\* A child that is past a layer has it, one past its identity is mapped, and one
\* that has closed its descriptors holds no end.
ChildInv ==
  /\ \A l \in Layers : Stage(l) < Stage(pc["child"]) => l \in layers \/ NotAsked(l)
  /\ Stage(pc["child"]) > 4 => mapped
  /\ Stage(pc["child"]) > 16 => \A e \in Ends : "child" \notin held[e]

\* The proxy of the namespace comes after the child, and its byte after its
\* socket; a child past the byte has read it.
ListenInv ==
  /\ pc["child"] = "none" => pc["nsHttp"] = "none"
  /\ Stage(pc["child"]) \in 1..9 => pc["nsHttp"] = "none"
  /\ "listening" \in sent => pc["nsHttp"] \in {"serving", "dead"}
  /\ config.http /\ Stage(pc["child"]) > 10 => pc["nsHttp"] \in {"serving", "dead"}

SandboxInv == SandboxTyped /\ HelperInv /\ ChildInv /\ ListenInv

-----------------------------------------------------------------------------
(* What a step leaves alone.                                               *)

LEMMA ProcsAre ==
  /\ {"helper", "child", "handler", "inference", "http", "nsInference", "nsHttp"} = Procs
  /\ "helper" \in Procs /\ "child" \in Procs /\ "inference" \in Procs /\ "http" \in Procs
  /\ "nsInference" \in Procs /\ "nsHttp" \in Procs /\ "handler" \in Procs
BY DEF Procs, HostProxies, NsProxies

LEMMA PlacesAre ==
  /\ PlacesOf("helper") = Forking \cup Waiting \cup Stopping \cup {"dead"}
  /\ PlacesOf("child") = ChildSteps \cup {"none", "dead"}
  /\ PlacesOf("inference") = {"none", "serving", "dead"}
  /\ PlacesOf("http") = {"none", "dropping", "serving", "busy", "dead"}
  /\ PlacesOf("nsInference") = {"none", "arming", "opening", "serving", "dead"}
  /\ PlacesOf("nsHttp") = {"none", "arming", "opening", "serving", "dead"}
  /\ PlacesOf("handler") = {"none", "busy", "dead"}
BY DEF PlacesOf, NsProxies

\* A process moves to a place of its own, and the others stay.
LEMMA ProcessMoves ==
  ASSUME SandboxTyped, NEW p \in Procs, NEW to \in PlacesOf(p), Goes(p, to),
         UNCHANGED config, held' \in [Ends -> SUBSET Procs]
  PROVE  /\ SandboxTyped'
         /\ pc'[p] = to
         /\ \A q \in Procs : q # p => pc'[q] = pc[q]
<1>1. pc' \in [Procs -> UNION {PlacesOf(q) : q \in Procs}] /\ pc'[p] = to
      /\ \A q \in Procs : q # p => pc'[q] = pc[q]
  BY DEF SandboxTyped, Goes
<1>. QED
  BY <1>1 DEF SandboxTyped

\* Two processes move.
LEMMA TwoMove ==
  ASSUME SandboxTyped, NEW p \in Procs, NEW r \in Procs,
         pc' = [q \in Procs |-> pc'[q]],
         pc'[p] \in PlacesOf(p), pc'[r] \in PlacesOf(r),
         \A q \in Procs : q # p /\ q # r => pc'[q] = pc[q],
         UNCHANGED config, held' \in [Ends -> SUBSET Procs]
  PROVE  SandboxTyped'
<1>1. \A q \in Procs : pc'[q] \in PlacesOf(q)
  BY DEF SandboxTyped
<1>2. pc' \in [Procs -> UNION {PlacesOf(q) : q \in Procs}]
  BY <1>1
<1>. QED
  BY <1>1, <1>2 DEF SandboxTyped

\* Closing takes ends away, and keeps the types.
LEMMA ClosesTyped ==
  ASSUME held \in [Ends -> SUBSET Procs], NEW p, NEW S
  PROVE  /\ Closes(p, S) \in [Ends -> SUBSET Procs]
         /\ \A e \in Ends : Closes(p, S)[e] \subseteq held[e]
BY DEF Closes

LEMMA InheritsTyped ==
  ASSUME held \in [Ends -> SUBSET Procs], NEW p, NEW q \in Procs
  PROVE  /\ Inherits(p, q) \in [Ends -> SUBSET Procs]
         /\ \A e \in Ends : Inherits(p, q)[e] \subseteq held[e] \cup {q}
BY DEF Inherits

\* What a child has reached it keeps while others step.
LEMMA ChildKeeps ==
  ASSUME ChildInv, pc'["child"] = pc["child"], UNCHANGED <<config, layers>>, mapped => mapped',
         \A e \in Ends : "child" \in held'[e] => "child" \in held[e]
  PROVE  ChildInv'
BY DEF ChildInv, NotAsked

LEMMA ListenKeeps ==
  ASSUME ListenInv, pc'["child"] = pc["child"], pc'["nsHttp"] = pc["nsHttp"],
         UNCHANGED config, "listening" \in sent' => "listening" \in sent
  PROVE  ListenInv'
BY DEF ListenInv

\* The end of a process.
LEMMA DeathKeeps ==
  ASSUME SandboxInv, NEW p \in Procs, ~Ended(p), Dies(p)
  PROVE  SandboxInv'
<1>1. /\ Goes(p, "dead") /\ UNCHANGED <<config, root, sent, layers, mapped>>
      /\ held' = Closes(p, Ends)
  BY DEF Dies
<1>2. held' \in [Ends -> SUBSET Procs] /\ \A e \in Ends : held'[e] \subseteq held[e]
  BY <1>1, ClosesTyped DEF SandboxInv, SandboxTyped
<1>3. /\ SandboxTyped' /\ pc'[p] = "dead"
      /\ \A q \in Procs : q # p => pc'[q] = pc[q]
  <2>1. "dead" \in PlacesOf(p)
    BY DEF PlacesOf, Procs, HostProxies, NsProxies
  <2>. QED
    BY <1>1, <1>2, <2>1, ProcessMoves DEF SandboxInv
<1>4. pc[p] \notin {"none", "dead", "returned"}
  BY DEF Ended
<1>5. HelperInv'
  BY <1>1, <1>3, <1>4 DEF SandboxInv, HelperInv, StartedByHelper, Reaped,
     Procs, HostProxies, NsProxies, Forking, Stopping
<1>6. ChildInv' /\ ListenInv'
  <2>1. CASE p = "child"
    <3>1. Stage(pc'["child"]) = 0
      BY <1>3, <2>1 DEF Stage
    <3>2. pc'["nsHttp"] = pc["nsHttp"] /\ pc'["child"] # "none"
      BY <1>3, <2>1 DEF Procs, NsProxies
    <3>3. \A l \in Layers : ~(Stage(l) < 0)
      BY DEF Layers, Stage
    <3>4. ChildInv'
      BY <3>1, <3>3 DEF ChildInv
    <3>. QED
      BY <1>1, <3>1, <3>2, <3>4 DEF SandboxInv, ListenInv
  <2>2. CASE p # "child"
    <3>1. pc'["child"] = pc["child"]
      BY <1>3, <2>2 DEF Procs
    <3>2. ChildInv'
      BY <1>1, <1>2, <3>1, ChildKeeps DEF SandboxInv
    <3>3. pc'["nsHttp"] = pc["nsHttp"] \/ (pc["nsHttp"] # "none" /\ pc'["nsHttp"] = "dead")
      <4>1. CASE p = "nsHttp"
        BY <1>3, <1>4, <4>1
      <4>2. CASE p # "nsHttp"
        BY <1>3, <4>2, ProcsAre
      <4>. QED
        BY <4>1, <4>2
    <3>. QED
      BY <1>1, <3>1, <3>2, <3>3 DEF SandboxInv, ListenInv
  <2>. QED
    BY <2>1, <2>2
<1>. QED
  BY <1>3, <1>5, <1>6 DEF SandboxInv

\* A step of the helper alone.
LEMMA HelperMoves ==
  ASSUME SandboxInv, NEW to \in PlacesOf("helper"), Goes("helper", to),
         UNCHANGED <<config, layers>>, mapped => mapped',
         "listening" \in sent' => "listening" \in sent,
         held' \in [Ends -> SUBSET Procs], \A e \in Ends : held'[e] \subseteq held[e]
  PROVE  /\ SandboxTyped' /\ ChildInv' /\ ListenInv'
         /\ pc'["helper"] = to
         /\ \A q \in Procs : q # "helper" => pc'[q] = pc[q]
<1>1. /\ SandboxTyped' /\ pc'["helper"] = to
      /\ \A q \in Procs : q # "helper" => pc'[q] = pc[q]
  BY ProcessMoves, ProcsAre DEF SandboxInv
<1>2. pc'["child"] = pc["child"] /\ pc'["nsHttp"] = pc["nsHttp"]
  BY <1>1, ProcsAre
<1>3. ChildInv'
  BY <1>2, ChildKeeps DEF SandboxInv
<1>4. ListenInv'
  BY <1>2, ListenKeeps DEF SandboxInv
<1>. QED
  BY <1>1, <1>3, <1>4

\* A step of the child alone, to a later place.
LEMMA ChildMoves ==
  ASSUME SandboxInv, NEW to \in ChildSteps, Goes("child", to), pc["child"] \in ChildSteps,
         UNCHANGED <<config, root, mapped>>, layers \subseteq layers',
         "listening" \in sent' => "listening" \in sent,
         held' \in [Ends -> SUBSET Procs], \A e \in Ends : held'[e] \subseteq held[e],
         \A k \in Layers : Stage(k) < Stage(to) =>
           Stage(k) < Stage(pc["child"]) \/ k \in layers' \/ NotAsked(k),
         Stage(to) > 4 => Stage(pc["child"]) > 4 \/ mapped,
         Stage(to) > 16 => Stage(pc["child"]) > 16 \/ \A e \in Ends : "child" \notin held'[e],
         Stage(to) \in 1..9 => Stage(pc["child"]) \in 1..9,
         config.http /\ Stage(to) > 10 =>
           Stage(pc["child"]) > 10 \/ pc["nsHttp"] \in {"serving", "dead"}
  PROVE  SandboxInv'
<1>1. /\ SandboxTyped' /\ pc'["child"] = to
      /\ \A q \in Procs : q # "child" => pc'[q] = pc[q]
  <2>1. to \in PlacesOf("child")
    BY PlacesAre
  <2>. QED
    BY <2>1, ProcessMoves, ProcsAre DEF SandboxInv
<1>2. /\ pc'["helper"] = pc["helper"] /\ pc'["inference"] = pc["inference"]
      /\ pc'["http"] = pc["http"] /\ pc'["nsHttp"] = pc["nsHttp"]
  BY <1>1, ProcsAre
<1>3. HelperInv'
  BY <1>1, <1>2 DEF SandboxInv, HelperInv, StartedByHelper, Reaped, ChildSteps
<1>4. ChildInv'
  BY <1>1 DEF SandboxInv, ChildInv, NotAsked
<1>5. ListenInv'
  <2>1. to # "none"
    BY DEF ChildSteps
  <2>. QED
    BY <1>1, <1>2, <2>1 DEF SandboxInv, ListenInv
<1>. QED
  BY <1>1, <1>3, <1>4, <1>5 DEF SandboxInv

\* A layer that only moves the child on, or ends it.
LEMMA LayerKeeps ==
  ASSUME SandboxInv, NEW l \in Layers, NEW to \in ChildSteps, Layer(l, to),
         \A k \in Layers : Stage(k) < Stage(to) =>
           Stage(k) < Stage(l) \/ k = l \/ NotAsked(k),
         Stage(to) > 4 => Stage(l) > 4,
         Stage(to) > 16 => Stage(l) > 16,
         Stage(to) \in 1..9 => Stage(l) \in 1..9,
         config.http /\ Stage(to) > 10 => Stage(l) > 10
  PROVE  SandboxInv'
<1>1. pc["child"] = l /\ l \in ChildSteps
  BY DEF Layer, ChildAt, Layers, ChildSteps
<1>2. CASE Exits("child")
  <2>1. ~Ended("child") /\ Dies("child")
    BY <1>1, <1>2 DEF Ended, Exits, ChildSteps
  <2>. QED
    BY <2>1, DeathKeeps, ProcsAre
<1>3. CASE /\ layers' = layers \cup {l}
           /\ Goes("child", to)
           /\ UNCHANGED <<config, held, sent, mapped, root, signalled, kills>>
  <2>1. held' \in [Ends -> SUBSET Procs] /\ \A e \in Ends : held'[e] \subseteq held[e]
    BY <1>3 DEF SandboxInv, SandboxTyped
  <2>. QED
    BY <1>1, <1>3, <2>1, ChildMoves
<1>. QED
  BY <1>2, <1>3 DEF Layer

-----------------------------------------------------------------------------
(* The steps of the child.                                                 *)

LEMMA LayersKeep ==
  ASSUME SandboxInv,
         \/ UnshareUser \/ UnshareOthers \/ HideHostRuntimeSockets \/ SetupLoopback
         \/ SetupMounts \/ SetupRuntimeEnv \/ ApplyLandlock \/ EnterSandboxRoot
         \/ ApplyNoNewPrivs \/ ApplySeccomp
  PROVE  SandboxInv'
<1>1. CASE UnshareUser
  <2>1. Layer("userns", "ready")
    BY <1>1 DEF UnshareUser
  <2>. QED
    BY <2>1, LayerKeeps DEF Layers, ChildSteps, Stage
<1>2. CASE UnshareOthers
  <2>1. Layer("namespaces", "sockets")
    BY <1>2 DEF UnshareOthers
  <2>. QED
    BY <2>1, LayerKeeps DEF Layers, ChildSteps, Stage
<1>3. CASE HideHostRuntimeSockets
  <2>1. CASE config.isolate
    <3>1. Layer("sockets", "loopback")
      BY <1>3, <2>1 DEF HideHostRuntimeSockets
    <3>. QED
      BY <3>1, LayerKeeps DEF Layers, ChildSteps, Stage
  <2>2. CASE ~config.isolate
    <3>1. Layer("sockets", "mounts")
      BY <1>3, <2>2 DEF HideHostRuntimeSockets
    <3>2. ~config.http
      BY <2>2, SandboxAssumption DEF SandboxInv, SandboxTyped
    <3>3. \A k \in Layers : Stage(k) < Stage("mounts") =>
            Stage(k) < Stage("sockets") \/ k = "sockets" \/ NotAsked(k)
      BY <2>2 DEF Layers, Stage, NotAsked
    <3>. QED
      BY <3>1, <3>2, <3>3, LayerKeeps DEF Layers, ChildSteps, Stage
  <2>. QED
    BY <2>1, <2>2
<1>4. CASE SetupLoopback
  <2>1. Layer("loopback", "inferenceProxy")
    BY <1>4 DEF SetupLoopback
  <2>. QED
    BY <2>1, LayerKeeps DEF Layers, ChildSteps, Stage
<1>5. CASE SetupMounts
  <2>1. Layer("mounts", "runtime")
    BY <1>5 DEF SetupMounts
  <2>. QED
    BY <2>1, LayerKeeps DEF Layers, ChildSteps, Stage
<1>6. CASE SetupRuntimeEnv
  <2>1. Layer("runtime", "landlock")
    BY <1>6 DEF SetupRuntimeEnv
  <2>. QED
    BY <2>1, LayerKeeps DEF Layers, ChildSteps, Stage
<1>7. CASE ApplyLandlock
  <2>1. Layer("landlock", "root")
    BY <1>7 DEF ApplyLandlock
  <2>. QED
    BY <2>1, LayerKeeps DEF Layers, ChildSteps, Stage
<1>8. CASE EnterSandboxRoot
  <2>1. Layer("root", "noNewPrivs")
    BY <1>8 DEF EnterSandboxRoot
  <2>. QED
    BY <2>1, LayerKeeps DEF Layers, ChildSteps, Stage
<1>9. CASE ApplyNoNewPrivs
  <2>1. Layer("noNewPrivs", "closeFds")
    BY <1>9 DEF ApplyNoNewPrivs
  <2>. QED
    BY <2>1, LayerKeeps DEF Layers, ChildSteps, Stage
<1>10. CASE ApplySeccomp
  <2>1. CASE config.libseccomp
    <3>1. Layer("seccomp", "exec")
      BY <1>10, <2>1 DEF ApplySeccomp
    <3>. QED
      BY <3>1, LayerKeeps DEF Layers, ChildSteps, Stage
  <2>2. CASE ~config.libseccomp
    <3>1. /\ pc["child"] = "seccomp" /\ Goes("child", "exec")
          /\ UNCHANGED <<config, held, sent, layers, mapped, root, signalled, kills>>
      BY <1>10, <2>2 DEF ApplySeccomp, ChildAt
    <3>2. \A k \in Layers : Stage(k) < Stage("exec") =>
            Stage(k) < Stage("seccomp") \/ NotAsked(k)
      BY <2>2 DEF Layers, Stage, NotAsked
    <3>3. held \in [Ends -> SUBSET Procs]
      BY DEF SandboxInv, SandboxTyped
    <3>. QED
      BY <3>1, <3>2, <3>3, ChildMoves DEF ChildSteps, Stage
  <2>. QED
    BY <2>1, <2>2
<1>. QED
  BY <1>1, <1>2, <1>3, <1>4, <1>5, <1>6, <1>7, <1>8, <1>9, <1>10

\* A child that is running may end.
LEMMA ChildExits ==
  ASSUME SandboxInv, pc["child"] \in ChildSteps, Exits("child")
  PROVE  SandboxInv'
<1>1. ~Ended("child") /\ Dies("child")
  BY DEF Ended, Exits, ChildSteps
<1>. QED
  BY <1>1, DeathKeeps, ProcsAre

LEMMA HandshakeKeeps ==
  ASSUME SandboxInv, WriteReady \/ ReadContinue \/ SwitchIdentity
  PROVE  SandboxInv'
<1>. USE DEF ChildAt
<1>1. held \in [Ends -> SUBSET Procs]
  BY DEF SandboxInv, SandboxTyped
<1>2. CASE WriteReady
  <2>1. CASE pc["helper"] = "dead"
    BY <1>2, <2>1, ChildExits DEF WriteReady, ChildSteps
  <2>2. CASE pc["helper"] # "dead"
    <3>1. /\ Goes("child", "continue") /\ pc["child"] = "ready" /\ sent' = sent \cup {"ready"}
          /\ UNCHANGED <<config, held, layers, mapped, root>>
      BY <1>2, <2>2 DEF WriteReady
    <3>2. \A k \in Layers : Stage(k) < Stage("continue") => Stage(k) < Stage("ready")
      BY DEF Layers, Stage
    <3>. QED
      BY <1>1, <3>1, <3>2, ChildMoves DEF ChildSteps, Stage
  <2>. QED
    BY <2>1, <2>2
<1>3. CASE ReadContinue
  <2>1. CASE Exits("child")
    BY <1>3, <2>1, ChildExits DEF ReadContinue, ChildSteps
  <2>2. CASE /\ Goes("child", "identity")
             /\ UNCHANGED <<config, held, sent, layers, mapped, root, signalled, kills>>
    <3>1. pc["child"] = "continue"
      BY <1>3 DEF ReadContinue
    <3>2. \A k \in Layers : Stage(k) < Stage("identity") => Stage(k) < Stage("continue")
      BY DEF Layers, Stage
    <3>. QED
      BY <1>1, <2>2, <3>1, <3>2, ChildMoves DEF ChildSteps, Stage
  <2>. QED
    BY <1>3, <2>1, <2>2 DEF ReadContinue
<1>4. CASE SwitchIdentity
  <2>1. CASE Exits("child")
    BY <1>4, <2>1, ChildExits DEF SwitchIdentity, ChildSteps
  <2>2. CASE /\ mapped
             /\ layers' = layers \cup {"identity"}
             /\ held' = Closes("child", {"ready"})
             /\ Goes("child", "namespaces")
             /\ UNCHANGED <<config, sent, mapped, root, signalled, kills>>
    <3>1. pc["child"] = "identity"
      BY <1>4 DEF SwitchIdentity
    <3>2. \A k \in Layers : Stage(k) < Stage("namespaces") =>
            Stage(k) < Stage("identity") \/ k \in layers'
      BY <2>2 DEF Layers, Stage
    <3>3. held' \in [Ends -> SUBSET Procs] /\ \A e \in Ends : held'[e] \subseteq held[e]
      BY <1>1, <2>2, ClosesTyped
    <3>4. /\ Stage("identity") = 4 /\ Stage("namespaces") = 5
          /\ "identity" \in ChildSteps /\ "namespaces" \in ChildSteps
      BY DEF Stage, ChildSteps
    <3>5. layers \subseteq layers'
      BY <2>2
    <3>. QED
      BY <2>2, <3>1, <3>2, <3>3, <3>4, <3>5, ChildMoves
  <2>. QED
    BY <1>4, <2>1, <2>2 DEF SwitchIdentity
<1>. QED
  BY <1>2, <1>3, <1>4

LEMMA ChildEndsKeep ==
  ASSUME SandboxInv, StartNsFails \/ CloseExtraFds \/ Exec \/ AgentExits
  PROVE  SandboxInv'
<1>. USE DEF ChildAt
<1>1. held \in [Ends -> SUBSET Procs]
  BY DEF SandboxInv, SandboxTyped
<1>2. CASE StartNsFails
  BY <1>2, ChildExits DEF StartNsFails, ChildSteps
<1>3. CASE AgentExits
  BY <1>3, ChildExits DEF AgentExits, ChildSteps
<1>4. CASE CloseExtraFds
  <2>1. pc["child"] = "closeFds" /\ held' = Closes("child", Ends)
        /\ UNCHANGED <<config, sent, layers, mapped, root>>
    BY <1>4 DEF CloseExtraFds
  <2>2. /\ held' \in [Ends -> SUBSET Procs]
        /\ \A e \in Ends : held'[e] \subseteq held[e]
    BY <1>1, <2>1, ClosesTyped
  <2>3. \A e \in Ends : "child" \notin held'[e]
    BY <2>1 DEF Closes
  <2>4. CASE config.seccomp
    <3>1. Goes("child", "seccomp")
      BY <1>4, <2>4 DEF CloseExtraFds
    <3>2. \A k \in Layers : Stage(k) < Stage("seccomp") => Stage(k) < Stage("closeFds")
      BY DEF Layers, Stage
    <3>. QED
      BY <2>1, <2>2, <2>3, <3>1, <3>2, ChildMoves DEF ChildSteps, Stage
  <2>5. CASE ~config.seccomp
    <3>1. Goes("child", "exec")
      BY <1>4, <2>5 DEF CloseExtraFds
    <3>2. \A k \in Layers : Stage(k) < Stage("exec") => Stage(k) < Stage("closeFds") \/ NotAsked(k)
      BY <2>5 DEF Layers, Stage, NotAsked
    <3>. QED
      BY <2>1, <2>2, <2>3, <3>1, <3>2, ChildMoves DEF ChildSteps, Stage
  <2>. QED
    BY <2>4, <2>5
<1>5. CASE Exec
  <2>1. CASE Exits("child")
    BY <1>5, <2>1, ChildExits DEF Exec, ChildSteps
  <2>2. CASE /\ Goes("child", "agent")
             /\ UNCHANGED <<config, held, sent, layers, mapped, root, signalled, kills>>
    <3>1. pc["child"] = "exec"
      BY <1>5 DEF Exec
    <3>2. \A k \in Layers : Stage(k) < Stage("agent") => Stage(k) < Stage("exec")
      BY DEF Layers, Stage
    <3>. QED
      BY <1>1, <2>2, <3>1, <3>2, ChildMoves DEF ChildSteps, Stage
  <2>. QED
    BY <1>5, <2>1, <2>2 DEF Exec
<1>. QED
  BY <1>2, <1>3, <1>4, <1>5

\* The child starts the proxies of its namespace.
LEMMA NsProxiesKeep ==
  ASSUME SandboxInv, StartNsInference \/ StartNsHttp \/ ReadListening
  PROVE  SandboxInv'
<1>. USE DEF ChildAt
<1>1. held \in [Ends -> SUBSET Procs]
  BY DEF SandboxInv, SandboxTyped
<1>2. CASE StartNsInference
  <2>0. pc["child"] = "inferenceProxy" /\ UNCHANGED <<config, sent, layers, mapped, root>>
    BY <1>2 DEF StartNsInference
  <2>1. CASE ~config.inference
    <3>1. Goes("child", "httpProxy") /\ UNCHANGED held
      BY <1>2, <2>1 DEF StartNsInference
    <3>2. \A k \in Layers : Stage(k) < Stage("httpProxy") => Stage(k) < Stage("inferenceProxy")
      BY DEF Layers, Stage
    <3>. QED
      BY <1>1, <2>0, <3>1, <3>2, ChildMoves DEF ChildSteps, Stage
  <2>2. CASE config.inference
    <3>1. /\ pc' = [pc EXCEPT !["child"] = "httpProxy", !["nsInference"] = "arming"]
          /\ held' = [Inherits("child", "nsInference") EXCEPT
                        !["inferenceControl"] = (@ \ {"child"}) \cup {"nsInference"}]
      BY <1>2, <2>2 DEF StartNsInference
    <3>2. held' \in [Ends -> SUBSET Procs]
      BY <1>1, <3>1, InheritsTyped, ProcsAre DEF Ends
    <3>3. /\ SandboxTyped' /\ pc'["child"] = "httpProxy"
          /\ \A q \in Procs : q # "child" /\ q # "nsInference" => pc'[q] = pc[q]
      <4>1. "httpProxy" \in PlacesOf("child") /\ "arming" \in PlacesOf("nsInference")
        BY PlacesAre DEF ChildSteps
      <4>2. "child" \in Procs /\ "nsInference" \in Procs /\ "child" # "nsInference"
        BY ProcsAre
      <4>3. /\ pc' = [q \in Procs |-> pc'[q]] /\ pc'["child"] = "httpProxy" /\ pc'["nsInference"] = "arming"
            /\ \A q \in Procs : q # "child" /\ q # "nsInference" => pc'[q] = pc[q]
        BY <3>1, <4>2 DEF SandboxInv, SandboxTyped
      <4>. QED
        BY <2>0, <3>2, <4>1, <4>2, <4>3, TwoMove DEF SandboxInv
    <3>4. /\ pc'["helper"] = pc["helper"] /\ pc'["inference"] = pc["inference"]
          /\ pc'["http"] = pc["http"] /\ pc'["nsHttp"] = pc["nsHttp"]
      BY <3>3, ProcsAre
    <3>5. HelperInv'
      BY <2>0, <3>3, <3>4 DEF SandboxInv, HelperInv, StartedByHelper, Reaped
    <3>6. \A k \in Layers : Stage(k) < Stage("httpProxy") => Stage(k) < Stage("inferenceProxy")
      BY DEF Layers, Stage
    <3>7. Stage("inferenceProxy") = 8 /\ Stage("httpProxy") = 9
      BY DEF Stage
    <3>8. ChildInv'
      BY <2>0, <3>3, <3>6, <3>7 DEF SandboxInv, ChildInv, NotAsked
    <3>9. ListenInv'
      BY <2>0, <3>3, <3>4, <3>7 DEF SandboxInv, ListenInv
    <3>. QED
      BY <3>3, <3>5, <3>8, <3>9 DEF SandboxInv
  <2>. QED
    BY <2>1, <2>2
<1>3. CASE StartNsHttp
  <2>0. pc["child"] = "httpProxy" /\ UNCHANGED <<config, sent, layers, mapped, root>>
    BY <1>3 DEF StartNsHttp
  <2>1. CASE ~config.http
    <3>1. Goes("child", "mounts") /\ UNCHANGED held
      BY <1>3, <2>1 DEF StartNsHttp
    <3>2. \A k \in Layers : Stage(k) < Stage("mounts") => Stage(k) < Stage("httpProxy")
      BY DEF Layers, Stage
    <3>. QED
      BY <1>1, <2>0, <2>1, <3>1, <3>2, ChildMoves DEF ChildSteps, Stage
  <2>2. CASE config.http
    <3>1. /\ pc' = [pc EXCEPT !["child"] = "httpReady", !["nsHttp"] = "arming"]
          /\ held' = [Inherits("child", "nsHttp") EXCEPT !["listening"] = {"nsHttp"}]
      BY <1>3, <2>2 DEF StartNsHttp
    <3>2. held' \in [Ends -> SUBSET Procs]
      BY <1>1, <3>1, InheritsTyped, ProcsAre DEF Ends
    <3>3. /\ SandboxTyped' /\ pc'["child"] = "httpReady" /\ pc'["nsHttp"] = "arming"
          /\ \A q \in Procs : q # "child" /\ q # "nsHttp" => pc'[q] = pc[q]
      <4>1. "httpReady" \in PlacesOf("child") /\ "arming" \in PlacesOf("nsHttp")
        BY PlacesAre DEF ChildSteps
      <4>2. "child" \in Procs /\ "nsHttp" \in Procs /\ "child" # "nsHttp"
        BY ProcsAre
      <4>3. /\ pc' = [q \in Procs |-> pc'[q]] /\ pc'["child"] = "httpReady" /\ pc'["nsHttp"] = "arming"
            /\ \A q \in Procs : q # "child" /\ q # "nsHttp" => pc'[q] = pc[q]
        BY <3>1, <4>2 DEF SandboxInv, SandboxTyped
      <4>. QED
        BY <2>0, <3>2, <4>1, <4>2, <4>3, TwoMove DEF SandboxInv
    <3>4. /\ pc'["helper"] = pc["helper"] /\ pc'["inference"] = pc["inference"]
          /\ pc'["http"] = pc["http"]
      BY <3>3, ProcsAre
    <3>5. HelperInv'
      BY <2>0, <3>3, <3>4 DEF SandboxInv, HelperInv, StartedByHelper, Reaped
    <3>6. \A k \in Layers : Stage(k) < Stage("httpReady") => Stage(k) < Stage("httpProxy")
      BY DEF Layers, Stage
    <3>7. Stage("httpProxy") = 9 /\ Stage("httpReady") = 10
      BY DEF Stage
    <3>8. ChildInv'
      BY <2>0, <3>3, <3>6, <3>7 DEF SandboxInv, ChildInv, NotAsked
    <3>9. ListenInv'
      BY <2>0, <3>3, <3>7 DEF SandboxInv, ListenInv
    <3>. QED
      BY <3>3, <3>5, <3>8, <3>9 DEF SandboxInv
  <2>. QED
    BY <2>1, <2>2
<1>4. CASE ReadListening
  <2>1. CASE Exits("child")
    BY <1>4, <2>1, ChildExits DEF ReadListening, ChildSteps
  <2>2. CASE /\ "listening" \in sent
             /\ held' = Closes("child", {"httpControl"})
             /\ Goes("child", "mounts")
             /\ UNCHANGED <<config, sent, layers, mapped, root, signalled, kills>>
    <3>1. pc["child"] = "httpReady"
      BY <1>4 DEF ReadListening
    <3>2. \A k \in Layers : Stage(k) < Stage("mounts") => Stage(k) < Stage("httpReady")
      BY DEF Layers, Stage
    <3>3. held' \in [Ends -> SUBSET Procs] /\ \A e \in Ends : held'[e] \subseteq held[e]
      BY <1>1, <2>2, ClosesTyped
    <3>4. pc["nsHttp"] \in {"serving", "dead"}
      BY <2>2 DEF SandboxInv, ListenInv
    <3>. QED
      BY <2>2, <3>1, <3>2, <3>3, <3>4, ChildMoves DEF ChildSteps, Stage
  <2>. QED
    BY <1>4, <2>1, <2>2 DEF ReadListening
<1>. QED
  BY <1>2, <1>3, <1>4

-----------------------------------------------------------------------------
(* The steps of the helper.                                                *)

LEMMA HelperStartsKeep ==
  ASSUME SandboxInv, MakeRoot \/ StartInference \/ StartHttp \/ ForkChild \/ SetupFails
  PROVE  SandboxInv'
<1>. USE DEF HelperAt
<1>1. held \in [Ends -> SUBSET Procs]
  BY DEF SandboxInv, SandboxTyped
<1>2. CASE MakeRoot
  <2>1. PICK to \in {"inference", "returned"} :
          Goes("helper", to) /\ root' = IF to = "inference" THEN "made" ELSE "none"
    BY <1>2 DEF MakeRoot
  <2>2. to \in PlacesOf("helper")
    BY PlacesAre DEF Forking, Stopping
  <2>3. UNCHANGED <<config, held, sent, layers, mapped>> /\ pc["helper"] = "start"
    BY <1>2 DEF MakeRoot
  <2>4. /\ SandboxTyped' /\ ChildInv' /\ ListenInv' /\ pc'["helper"] = to
        /\ \A q \in Procs : q # "helper" => pc'[q] = pc[q]
    BY <1>1, <2>1, <2>2, <2>3, HelperMoves
  <2>5. HelperInv'
    BY <2>1, <2>3, <2>4, ProcsAre
       DEF SandboxInv, HelperInv, StartedByHelper, Reaped, Forking, Stopping
  <2>. QED
    BY <2>4, <2>5 DEF SandboxInv
<1>3. CASE StartInference
  <2>0. pc["helper"] = "inference" /\ UNCHANGED <<config, sent, layers, mapped, root>>
    BY <1>3 DEF StartInference
  <2>1. CASE ~config.inference
    <3>1. Goes("helper", "http") /\ UNCHANGED held
      BY <1>3, <2>1 DEF StartInference
    <3>2. "http" \in PlacesOf("helper")
      BY PlacesAre DEF Forking
    <3>3. /\ SandboxTyped' /\ ChildInv' /\ ListenInv' /\ pc'["helper"] = "http"
          /\ \A q \in Procs : q # "helper" => pc'[q] = pc[q]
      BY <1>1, <2>0, <3>1, <3>2, HelperMoves
    <3>4. HelperInv'
      BY <2>0, <3>3, ProcsAre
         DEF SandboxInv, HelperInv, StartedByHelper, Reaped, Forking, Stopping
    <3>. QED
      BY <3>3, <3>4 DEF SandboxInv
  <2>2. CASE config.inference
    <3>1. /\ pc' = [pc EXCEPT !["helper"] = "http", !["inference"] = "serving"]
          /\ held' = [held EXCEPT !["inferenceControl"] = {"helper"}]
      BY <1>3, <2>2 DEF StartInference
    <3>2. held' \in [Ends -> SUBSET Procs] /\ \A e \in Ends : "child" \in held'[e] => "child" \in held[e]
      BY <1>1, <3>1, ProcsAre DEF Ends
    <3>3. /\ pc' = [q \in Procs |-> pc'[q]] /\ pc'["helper"] = "http" /\ pc'["inference"] = "serving"
          /\ \A q \in Procs : q # "helper" /\ q # "inference" => pc'[q] = pc[q]
      BY <3>1, ProcsAre DEF SandboxInv, SandboxTyped
    <3>4. "http" \in PlacesOf("helper") /\ "serving" \in PlacesOf("inference")
      BY PlacesAre DEF Forking
    <3>5. SandboxTyped'
      BY <2>0, <3>2, <3>3, <3>4, TwoMove, ProcsAre DEF SandboxInv
    <3>6. /\ pc'["child"] = pc["child"] /\ pc'["http"] = pc["http"] /\ pc'["nsHttp"] = pc["nsHttp"]
      BY <3>3, ProcsAre
    <3>7. HelperInv'
      BY <2>0, <3>3, <3>6
         DEF SandboxInv, HelperInv, StartedByHelper, Reaped, Forking, Stopping
    <3>8. ChildInv' /\ ListenInv'
      BY <2>0, <3>2, <3>6, ChildKeeps, ListenKeeps DEF SandboxInv
    <3>. QED
      BY <3>5, <3>7, <3>8 DEF SandboxInv
  <2>. QED
    BY <2>1, <2>2
<1>4. CASE StartHttp
  <2>0. pc["helper"] = "http" /\ UNCHANGED <<config, sent, layers, mapped, root>>
    BY <1>4 DEF StartHttp
  <2>1. CASE ~config.http
    <3>1. Goes("helper", "fork") /\ UNCHANGED held
      BY <1>4, <2>1 DEF StartHttp
    <3>2. "fork" \in PlacesOf("helper")
      BY PlacesAre DEF Forking
    <3>3. /\ SandboxTyped' /\ ChildInv' /\ ListenInv' /\ pc'["helper"] = "fork"
          /\ \A q \in Procs : q # "helper" => pc'[q] = pc[q]
      BY <1>1, <2>0, <3>1, <3>2, HelperMoves
    <3>4. HelperInv'
      BY <2>0, <3>3, ProcsAre
         DEF SandboxInv, HelperInv, StartedByHelper, Reaped, Forking, Stopping
    <3>. QED
      BY <3>3, <3>4 DEF SandboxInv
  <2>2. CASE config.http
    <3>1. /\ pc' = [pc EXCEPT !["helper"] = "fork", !["http"] = "dropping"]
          /\ held' = [Inherits("helper", "http") EXCEPT !["httpControl"] = {"helper"}]
      BY <1>4, <2>2 DEF StartHttp
    <3>2. /\ held' \in [Ends -> SUBSET Procs]
          /\ \A e \in Ends : "child" \in held'[e] => "child" \in held[e]
      <4>1. /\ Inherits("helper", "http") \in [Ends -> SUBSET Procs]
            /\ \A e \in Ends : Inherits("helper", "http")[e] \subseteq held[e] \cup {"http"}
        BY <1>1, InheritsTyped, ProcsAre
      <4>. QED
        BY <1>1, <3>1, <4>1, ProcsAre DEF Ends
    <3>3. /\ pc' = [q \in Procs |-> pc'[q]] /\ pc'["helper"] = "fork" /\ pc'["http"] = "dropping"
          /\ \A q \in Procs : q # "helper" /\ q # "http" => pc'[q] = pc[q]
      BY <3>1, ProcsAre DEF SandboxInv, SandboxTyped
    <3>4. "fork" \in PlacesOf("helper") /\ "dropping" \in PlacesOf("http")
      BY PlacesAre DEF Forking
    <3>5. SandboxTyped'
      BY <2>0, <3>2, <3>3, <3>4, TwoMove, ProcsAre DEF SandboxInv
    <3>6. /\ pc'["child"] = pc["child"] /\ pc'["nsHttp"] = pc["nsHttp"]
      BY <3>3, ProcsAre
    <3>7. HelperInv'
      BY <2>0, <3>3, <3>6
         DEF SandboxInv, HelperInv, StartedByHelper, Reaped, Forking, Stopping
    <3>8. ChildInv' /\ ListenInv'
      BY <2>0, <3>2, <3>6, ChildKeeps, ListenKeeps DEF SandboxInv
    <3>. QED
      BY <3>5, <3>7, <3>8 DEF SandboxInv
  <2>. QED
    BY <2>1, <2>2
<1>5. CASE ForkChild
  <2>1. /\ pc["helper"] = "fork" /\ UNCHANGED <<config, sent, layers, mapped, root>>
        /\ pc' = [pc EXCEPT !["helper"] = "ready", !["child"] = "userns"]
        /\ held' = [Inherits("helper", "child") EXCEPT
                      !["ready"] = {"child"}, !["continue"] = {"helper"}]
    BY <1>5 DEF ForkChild
  <2>2. held' \in [Ends -> SUBSET Procs]
    <3>1. Inherits("helper", "child") \in [Ends -> SUBSET Procs]
      BY <1>1, InheritsTyped, ProcsAre
    <3>. QED
      BY <2>1, <3>1, ProcsAre DEF Ends
  <2>3. /\ pc' = [q \in Procs |-> pc'[q]] /\ pc'["helper"] = "ready" /\ pc'["child"] = "userns"
        /\ \A q \in Procs : q # "helper" /\ q # "child" => pc'[q] = pc[q]
    BY <2>1, ProcsAre DEF SandboxInv, SandboxTyped
  <2>4. "ready" \in PlacesOf("helper") /\ "userns" \in PlacesOf("child")
    BY PlacesAre DEF Waiting, ChildSteps
  <2>5. SandboxTyped'
    <3>1. UNCHANGED config
      BY <2>1
    <3>. QED
      BY <2>2, <2>3, <2>4, <3>1, TwoMove, ProcsAre DEF SandboxInv
  <2>6. HelperInv'
    BY <2>3 DEF HelperInv, StartedByHelper, Reaped, Forking, Stopping
  <2>7. Stage("userns") = 1 /\ \A k \in Layers : ~(Stage(k) < 1)
    BY DEF Stage, Layers
  <2>8. ChildInv'
    BY <2>3, <2>7 DEF ChildInv
  <2>9. pc["child"] = "none"
    BY <2>1 DEF SandboxInv, HelperInv, StartedByHelper, Forking
  <2>10. pc'["nsHttp"] = pc["nsHttp"] /\ pc'["nsHttp"] = "none"
    BY <2>3, <2>9, ProcsAre DEF SandboxInv, ListenInv
  <2>11. ListenInv'
    BY <2>1, <2>3, <2>7, <2>10 DEF SandboxInv, ListenInv
  <2>. QED
    BY <2>5, <2>6, <2>8, <2>11 DEF SandboxInv
<1>6. CASE SetupFails
  <2>1. /\ Goes("helper", "stopInference") /\ held' = Closes("helper", Ends)
        /\ pc["helper"] \in Forking /\ UNCHANGED <<config, sent, layers, mapped, root>>
    BY <1>6 DEF SetupFails, Forking
  <2>2. "stopInference" \in PlacesOf("helper")
    BY PlacesAre DEF Stopping
  <2>3. held' \in [Ends -> SUBSET Procs] /\ \A e \in Ends : held'[e] \subseteq held[e]
    BY <1>1, <2>1, ClosesTyped
  <2>4. /\ SandboxTyped' /\ ChildInv' /\ ListenInv' /\ pc'["helper"] = "stopInference"
        /\ \A q \in Procs : q # "helper" => pc'[q] = pc[q]
    BY <2>1, <2>2, <2>3, HelperMoves
  <2>5. HelperInv'
    BY <2>1, <2>4, ProcsAre
       DEF SandboxInv, HelperInv, StartedByHelper, Reaped, Forking, Stopping
  <2>. QED
    BY <2>4, <2>5 DEF SandboxInv
<1>. QED
  BY <1>2, <1>3, <1>4, <1>5, <1>6

\* The helper goes on without starting or reaping anybody.
LEMMA HelperGoesOn ==
  ASSUME SandboxInv, pc["helper"] \in Waiting, NEW to \in Waiting, Goes("helper", to),
         UNCHANGED <<config, layers, root>>, mapped => mapped',
         "listening" \in sent' => "listening" \in sent,
         held' \in [Ends -> SUBSET Procs], \A e \in Ends : held'[e] \subseteq held[e]
  PROVE  SandboxInv'
<1>1. to \in PlacesOf("helper")
  BY PlacesAre
<1>2. /\ SandboxTyped' /\ ChildInv' /\ ListenInv' /\ pc'["helper"] = to
  BY <1>1, HelperMoves
<1>3. HelperInv'
  BY <1>2 DEF HelperInv, StartedByHelper, Reaped, Forking, Stopping, Waiting
<1>. QED
  BY <1>2, <1>3 DEF SandboxInv

LEMMA HelperWaitsKeep ==
  ASSUME SandboxInv,
         ReadReady \/ MapIds \/ WriteContinue \/ ContinueKillsHelper \/ AbortChild
  PROVE  SandboxInv'
<1>. USE DEF HelperAt
<1>1. held \in [Ends -> SUBSET Procs]
  BY DEF SandboxInv, SandboxTyped
<1>2. CASE ReadReady
  <2>1. PICK to \in {"map", "abort"} : Goes("helper", to)
    BY <1>2 DEF ReadReady
  <2>2. pc["helper"] = "ready" /\ UNCHANGED <<config, held, sent, layers, mapped, root>>
    BY <1>2 DEF ReadReady
  <2>. QED
    BY <1>1, <2>1, <2>2, HelperGoesOn DEF Waiting
<1>3. CASE MapIds
  <2>1. PICK to \in {"continue", "abort"} : Goes("helper", to)
    BY <1>3 DEF MapIds
  <2>2. pc["helper"] = "map" /\ UNCHANGED <<config, held, sent, layers, root>>
    BY <1>3 DEF MapIds
  <2>3. mapped => mapped'
    BY <1>3 DEF MapIds
  <2>. QED
    BY <1>1, <2>1, <2>2, <2>3, HelperGoesOn DEF Waiting
<1>4. CASE WriteContinue
  <2>1. /\ pc["helper"] = "continue" /\ Goes("helper", "wait") /\ sent' = sent \cup {"continue"}
        /\ held' = Closes("helper", Ends) /\ UNCHANGED <<config, layers, mapped, root>>
    BY <1>4 DEF WriteContinue
  <2>2. held' \in [Ends -> SUBSET Procs] /\ \A e \in Ends : held'[e] \subseteq held[e]
    BY <1>1, <2>1, ClosesTyped
  <2>. QED
    BY <2>1, <2>2, HelperGoesOn DEF Waiting
<1>5. CASE ContinueKillsHelper
  <2>1. ~Ended("helper") /\ Dies("helper")
    BY <1>5 DEF ContinueKillsHelper, Ended, Exits
  <2>. QED
    BY <2>1, DeathKeeps, ProcsAre
<1>6. CASE AbortChild
  <2>1. /\ pc["helper"] = "abort" /\ Goes("helper", "abortWait")
        /\ held' = Closes("helper", {"ready", "continue"})
        /\ UNCHANGED <<config, sent, layers, mapped, root>>
    BY <1>6 DEF AbortChild
  <2>2. held' \in [Ends -> SUBSET Procs] /\ \A e \in Ends : held'[e] \subseteq held[e]
    BY <1>1, <2>1, ClosesTyped
  <2>. QED
    BY <2>1, <2>2, HelperGoesOn DEF Waiting
<1>. QED
  BY <1>2, <1>3, <1>4, <1>5, <1>6

LEMMA HelperReapsKeep ==
  ASSUME SandboxInv, ReapChild \/ StopProxies \/ Cleanup
  PROVE  SandboxInv'
<1>. USE DEF HelperAt
<1>1. held \in [Ends -> SUBSET Procs]
  BY DEF SandboxInv, SandboxTyped
<1>2. CASE ReapChild
  <2>1. /\ Goes("helper", "stopInference") /\ held' = Closes("helper", Ends)
        /\ pc["child"] = "dead" /\ UNCHANGED <<config, sent, layers, mapped, root>>
    BY <1>2 DEF ReapChild
  <2>2. "stopInference" \in PlacesOf("helper")
    BY PlacesAre DEF Stopping
  <2>3. held' \in [Ends -> SUBSET Procs] /\ \A e \in Ends : held'[e] \subseteq held[e]
    BY <1>1, <2>1, ClosesTyped
  <2>4. /\ SandboxTyped' /\ ChildInv' /\ ListenInv' /\ pc'["helper"] = "stopInference"
        /\ \A q \in Procs : q # "helper" => pc'[q] = pc[q]
    BY <2>1, <2>2, <2>3, HelperMoves
  <2>5. HelperInv'
    BY <2>1, <2>4, ProcsAre DEF HelperInv, StartedByHelper, Reaped, Forking, Stopping
  <2>. QED
    BY <2>4, <2>5 DEF SandboxInv
<1>3. CASE StopProxies
  <2>1. UNCHANGED <<config, held, sent, layers, mapped, root>>
    BY <1>3 DEF StopProxies, StopProxy
  <2>2. PICK to \in {"reapInference", "stopHttp", "reapHttp", "cleanup"} :
          /\ Goes("helper", to)
          /\ pc["helper"] \in Stopping
          /\ to \in {"stopHttp", "reapHttp", "cleanup"} =>
               \/ pc["inference"] \in {"none", "dead"}
               \/ pc["helper"] \in {"stopHttp", "reapHttp"}
          /\ to = "cleanup" => pc["http"] \in {"none", "dead"}
    BY <1>3 DEF StopProxies, StopProxy, Stopping
  <2>3. to \in PlacesOf("helper")
    BY PlacesAre DEF Stopping
  <2>4. /\ SandboxTyped' /\ ChildInv' /\ ListenInv' /\ pc'["helper"] = to
        /\ \A q \in Procs : q # "helper" => pc'[q] = pc[q]
    BY <1>1, <2>1, <2>2, <2>3, HelperMoves
  <2>5. HelperInv'
    BY <2>1, <2>2, <2>4, ProcsAre
       DEF SandboxInv, HelperInv, StartedByHelper, Reaped, Forking, Stopping
  <2>. QED
    BY <2>4, <2>5 DEF SandboxInv
<1>4. CASE Cleanup
  <2>1. /\ Goes("helper", "returned") /\ pc["helper"] = "cleanup" /\ root' = "removed"
        /\ UNCHANGED <<config, held, sent, layers, mapped>>
    BY <1>4 DEF Cleanup
  <2>2. "returned" \in PlacesOf("helper")
    BY PlacesAre DEF Stopping
  <2>3. /\ SandboxTyped' /\ ChildInv' /\ ListenInv' /\ pc'["helper"] = "returned"
        /\ \A q \in Procs : q # "helper" => pc'[q] = pc[q]
    BY <1>1, <2>1, <2>2, HelperMoves
  <2>4. HelperInv'
    BY <2>1, <2>3, ProcsAre
       DEF SandboxInv, HelperInv, StartedByHelper, Reaped, Forking, Stopping
  <2>. QED
    BY <2>3, <2>4 DEF SandboxInv
<1>. QED
  BY <1>2, <1>3, <1>4

-----------------------------------------------------------------------------
(* The steps of the proxies.                                               *)

\* A proxy that is there goes on being there.
LEMMA ProxyMoves ==
  ASSUME SandboxInv, NEW p \in Procs \ {"helper", "child"},
         NEW to \in PlacesOf(p), Goes(p, to),
         p \in HostProxies => pc[p] \notin {"none", "dead"},
         p = "nsHttp" => /\ pc[p] # "none"
                         /\ pc[p] \in {"serving", "dead"} => to \in {"serving", "dead"}
                         /\ "listening" \in sent' => to \in {"serving", "dead"},
         UNCHANGED <<config, root, layers, mapped>>,
         "listening" \in sent' => "listening" \in sent \/ p = "nsHttp",
         held' \in [Ends -> SUBSET Procs],
         \A e \in Ends : "child" \in held'[e] => "child" \in held[e]
  PROVE  SandboxInv'
<1>1. /\ SandboxTyped' /\ pc'[p] = to
      /\ \A q \in Procs : q # p => pc'[q] = pc[q]
  BY ProcessMoves DEF SandboxInv
<1>2. pc'["helper"] = pc["helper"] /\ pc'["child"] = pc["child"]
  BY <1>1, ProcsAre
<1>3. \A q \in HostProxies : pc'[q] = pc[q] \/ pc[q] \notin {"none", "dead"}
  BY <1>1 DEF Procs
<1>4. HelperInv'
  BY <1>2, <1>3
     DEF SandboxInv, HelperInv, StartedByHelper, Reaped, HostProxies
<1>5. ChildInv'
  BY <1>2, ChildKeeps DEF SandboxInv
<1>6. CASE p = "nsHttp"
  <2>1. ListenInv'
    BY <1>1, <1>2, <1>6 DEF SandboxInv, ListenInv
  <2>. QED
    BY <1>1, <1>4, <1>5, <2>1 DEF SandboxInv
<1>7. CASE p # "nsHttp"
  <2>1. pc'["nsHttp"] = pc["nsHttp"]
    BY <1>1, <1>7, ProcsAre
  <2>2. ListenInv'
    BY <1>2, <1>7, <2>1, ListenKeeps DEF SandboxInv
  <2>. QED
    BY <1>1, <1>4, <1>5, <2>2 DEF SandboxInv
<1>. QED
  BY <1>6, <1>7

LEMMA ProxyDies ==
  ASSUME SandboxInv, NEW p \in Procs, pc[p] \notin {"none", "dead", "returned"}, Exits(p)
  PROVE  SandboxInv'
BY DeathKeeps DEF Ended, Exits

LEMMA NsProxyKeeps ==
  ASSUME SandboxInv, NEW p \in NsProxies, Arm(p) \/ Listen(p) \/ ListenFails(p)
  PROVE  SandboxInv'
<1>1. held \in [Ends -> SUBSET Procs] /\ p \in Procs \ {"helper", "child"} /\ p \notin HostProxies
  BY DEF SandboxInv, SandboxTyped, Procs, NsProxies, HostProxies
<1>2. "opening" \in PlacesOf(p) /\ "serving" \in PlacesOf(p)
  BY PlacesAre DEF NsProxies
<1>3. CASE Exits(p)
  <2>1. pc[p] \in {"arming", "opening"}
    BY DEF Arm, Listen, ListenFails
  <2>. QED
    BY <1>1, <1>3, <2>1, ProxyDies
<1>4. CASE Arm(p) /\ ~Exits(p)
  <2>1. /\ Goes(p, "opening") /\ pc[p] = "arming"
        /\ UNCHANGED <<config, held, sent, layers, mapped, root>>
    BY <1>4 DEF Arm
  <2>2. p = "nsHttp" => "listening" \notin sent
    BY <2>1 DEF SandboxInv, ListenInv
  <2>. QED
    BY <1>1, <1>2, <2>1, <2>2, ProxyMoves
<1>5. CASE Listen(p) /\ ~Exits(p)
  <2>1. /\ Goes(p, "serving") /\ pc[p] = "opening" /\ held' = Closes(p, {"listening"})
        /\ sent' = IF p = "nsHttp" THEN sent \cup {"listening"} ELSE sent
        /\ UNCHANGED <<config, layers, mapped, root>>
    BY <1>5 DEF Listen
  <2>2. held' \in [Ends -> SUBSET Procs] /\ \A e \in Ends : held'[e] \subseteq held[e]
    BY <1>1, <2>1, ClosesTyped
  <2>3. \A e \in Ends : "child" \in held'[e] => "child" \in held[e]
    BY <2>2
  <2>4. "listening" \in sent' => "listening" \in sent \/ p = "nsHttp"
    BY <2>1
  <2>. QED
    BY <1>1, <1>2, <2>1, <2>2, <2>3, <2>4, ProxyMoves
<1>. QED
  BY <1>3, <1>4, <1>5 DEF ListenFails

LEMMA HostProxyKeeps ==
  ASSUME SandboxInv,
         \/ Drop \/ HostProxyEnds("http", "httpControl")
         \/ HostProxyEnds("inference", "inferenceControl")
         \/ ForwardFails("nsInference", "inference") \/ ForwardFails("nsHttp", "http")
         \/ Accept \/ ConnectionEnds
  PROVE  SandboxInv'
<1>1. held \in [Ends -> SUBSET Procs]
  BY DEF SandboxInv, SandboxTyped
<1>2. /\ "serving" \in PlacesOf("http") /\ "busy" \in PlacesOf("http")
      /\ "busy" \in PlacesOf("handler") /\ "http" \in Procs \ {"helper", "child"}
      /\ "handler" \in Procs \ {"helper", "child"} /\ "handler" \notin HostProxies
  BY PlacesAre, ProcsAre DEF HostProxies
<1>3. CASE Drop
  <2>1. CASE Exits("http")
    BY <1>3, <2>1, ProxyDies, ProcsAre DEF Drop
  <2>2. CASE /\ Goes("http", "serving")
             /\ UNCHANGED <<config, held, sent, layers, mapped, root, signalled, kills>>
    <3>1. pc["http"] = "dropping"
      BY <1>3 DEF Drop
    <3>. QED
      BY <1>1, <1>2, <2>2, <3>1, ProxyMoves
  <2>. QED
    BY <1>3, <2>1, <2>2 DEF Drop
<1>4. CASE HostProxyEnds("http", "httpControl") \/ HostProxyEnds("inference", "inferenceControl")
  BY <1>4, ProxyDies, ProcsAre DEF HostProxyEnds
<1>5. CASE ForwardFails("nsInference", "inference") \/ ForwardFails("nsHttp", "http")
  BY <1>5, ProxyDies, ProcsAre DEF ForwardFails
<1>6. CASE Accept
  <2>0. pc["http"] = "serving" /\ UNCHANGED <<config, sent, layers, mapped, root>>
    BY <1>6 DEF Accept
  <2>1. CASE config.broker
    <3>1. Goes("http", "busy") /\ UNCHANGED held
      BY <1>6, <2>1 DEF Accept
    <3>. QED
      BY <1>1, <1>2, <2>0, <3>1, ProxyMoves
  <2>2. CASE ~config.broker
    <3>1. Goes("handler", "busy") /\ held' = Inherits("http", "handler")
      BY <1>6, <2>2 DEF Accept
    <3>2. /\ held' \in [Ends -> SUBSET Procs]
          /\ \A e \in Ends : "child" \in held'[e] => "child" \in held[e]
      BY <1>1, <3>1, InheritsTyped, ProcsAre
    <3>. QED
      BY <1>2, <2>0, <3>1, <3>2, ProxyMoves
  <2>. QED
    BY <2>1, <2>2
<1>7. CASE ConnectionEnds
  <2>1. CASE pc["handler"] = "busy" /\ Exits("handler")
    BY <2>1, ProxyDies, ProcsAre
  <2>2. CASE /\ pc["http"] = "busy"
             /\ Goes("http", "serving")
             /\ UNCHANGED <<config, held, sent, layers, mapped, root, signalled, kills>>
    BY <1>1, <1>2, <2>2, ProxyMoves
  <2>. QED
    BY <1>7, <2>1, <2>2 DEF ConnectionEnds
<1>. QED
  BY <1>3, <1>4, <1>5, <1>6, <1>7

-----------------------------------------------------------------------------
LEMMA SandboxInitially == SInit => SandboxInv
<1>. SUFFICES ASSUME SInit PROVE SandboxInv
  OBVIOUS
<1>1. pc["helper"] = "start" /\ \A p \in Procs : p # "helper" => pc[p] = "none"
  BY ProcsAre DEF SInit
<1>2. \A p \in Procs : pc[p] \in PlacesOf(p)
  BY <1>1, ProcsAre, PlacesAre DEF Forking
<1>3. SandboxTyped
  BY <1>2 DEF SInit, SandboxTyped
<1>4. HelperInv
  BY <1>1, ProcsAre DEF HelperInv, StartedByHelper, Reaped, Stopping
<1>5. pc["child"] = "none" /\ pc["nsHttp"] = "none" /\ Stage("none") = 0 /\ sent = {}
  BY <1>1, ProcsAre DEF SInit, Stage
<1>6. \A l \in Layers : ~(Stage(l) < 0)
  BY DEF Layers, Stage
<1>7. ChildInv
  BY <1>5, <1>6 DEF ChildInv
<1>8. ListenInv
  BY <1>5 DEF ListenInv
<1>. QED
  BY <1>3, <1>4, <1>7, <1>8 DEF SandboxInv

LEMMA SandboxStep ==
  ASSUME SandboxInv, [SNext]_svars
  PROVE  SandboxInv'
<1>1. CASE HelperStep
  BY <1>1, HelperStartsKeep, HelperWaitsKeep, HelperReapsKeep DEF HelperStep
<1>2. CASE SetupStep \/ AgentExits
  BY <1>2, LayersKeep, HandshakeKeeps, ChildEndsKeep, NsProxiesKeep DEF SetupStep
<1>3. CASE \E p \in Procs : ProxyStep(p) \/ Killed(p)
  <2>1. PICK p \in Procs : ProxyStep(p) \/ Killed(p)
    BY <1>3
  <2>2. CASE Killed(p) \/ Delivered(p)
    BY <2>2, DeathKeeps DEF Killed, Delivered, Exits
  <2>3. CASE p \in NsProxies /\ (Arm(p) \/ Listen(p) \/ ListenFails(p))
    BY <2>3, NsProxyKeeps
  <2>4. CASE p = "http" /\ (Drop \/ HostProxyEnds(p, "httpControl"))
    BY <2>4, HostProxyKeeps
  <2>5. CASE p = "inference" /\ HostProxyEnds(p, "inferenceControl")
    BY <2>5, HostProxyKeeps
  <2>. QED
    BY <2>1, <2>2, <2>3, <2>4, <2>5 DEF ProxyStep
<1>4. CASE \/ ForwardFails("nsInference", "inference") \/ ForwardFails("nsHttp", "http")
           \/ Accept \/ ConnectionEnds
  BY <1>4, HostProxyKeeps
<1>5. CASE UNCHANGED svars
  BY <1>5 DEF svars, SandboxInv, SandboxTyped, HelperInv, StartedByHelper, Reaped, ChildInv,
     NotAsked, ListenInv
<1>. QED
  BY <1>1, <1>2, <1>3, <1>4, <1>5 DEF SNext

LEMMA SandboxInvariant == SSpec => []SandboxInv
BY SandboxInitially, SandboxStep, PTL DEF SSpec

(***************************************************************************)
(* For every configuration, and whatever fails or is killed, an agent runs *)
(* under every layer that it was to have and that the build has, mapped,   *)
(* and with no end open: the child's steps are in an order that leaves no  *)
(* way around a layer.                                                     *)
(***************************************************************************)
THEOREM AgentIsConfined == SSpec => []AgentConfined
<1>1. SandboxInv => AgentConfined
  <2>. SUFFICES ASSUME SandboxInv, pc["child"] = "agent" PROVE AgentConfined
    BY DEF AgentConfined, ChildAt
  <2>1. Stage("agent") = 19 /\ \A l \in Layers : Stage(l) < 19
    BY DEF Stage, Layers
  <2>. QED
    BY <2>1 DEF SandboxInv, ChildInv, NotAsked, AgentConfined
<1>. QED
  BY <1>1, SandboxInvariant, PTL

(***************************************************************************)
(* A helper that returns has reaped the child and the proxies of the host  *)
(* and removed the root, on every path of the setup and of its failures.   *)
(***************************************************************************)
THEOREM ReturnIsClean == SSpec => []CleanReturn
<1>1. SandboxInv => CleanReturn
  <2>. SUFFICES ASSUME SandboxInv, pc["helper"] = "returned" PROVE CleanReturn
    BY DEF CleanReturn
  <2>. QED
    BY DEF SandboxInv, HelperInv, Reaped, Stopping, CleanReturn, HostProxies, Ended
<1>. QED
  BY <1>1, SandboxInvariant, PTL

(***************************************************************************)
(* An agent that may use the http proxy never runs before that proxy       *)
(* listens in its namespace.                                               *)
(***************************************************************************)
THEOREM AgentFindsProxy == SSpec => []ProxyBeforeAgent
<1>1. SandboxInv => ProxyBeforeAgent
  <2>1. Stage("agent") = 19
    BY DEF Stage
  <2>. QED
    BY <2>1 DEF SandboxInv, ListenInv, ProxyBeforeAgent, ChildAt
<1>. QED
  BY <1>1, SandboxInvariant, PTL
=============================================================================
