----------------------------- MODULE SandboxRun ------------------------------
(***************************************************************************)
(* One sandbox: the processes of bubblehub_sandbox_run                     *)
(* (libbubble/sandbox.c).  The setuid helper forks the proxies of the host *)
(* and the child; the child waits for the helper to map its identity,      *)
(* forks the proxies of its namespace, confines itself and becomes the     *)
(* agent; the helper waits for it and cleans up.                           *)
(*                                                                         *)
(* Processes learn that another one is gone from the end of file of a pipe *)
(* or socket, that is once nobody holds its other end: held keeps who      *)
(* does, copies inherited through fork included.  SIGPIPE has its default  *)
(* action everywhere.                                                      *)
(***************************************************************************)
EXTENDS Integers

CONSTANTS
  Configs,     \* what a sandbox is asked for, and what it finds
  MaxKills     \* bound on processes killed from outside

HostProxies == {"inference", "http"}
NsProxies == {"nsInference", "nsHttp"}
\* The handler is a connection that the http proxy of the host forked for.
Procs == HostProxies \cup NsProxies \cup {"helper", "child", "handler"}

\* The ends whose last close is an end of file: the write ends of the pipes
\* userns_ready and userns_continue, inference_control[1], http_control[1], and
\* the end that the proxy of the namespace reports on.
Ends == {"ready", "continue", "inferenceControl", "httpControl", "listening"}

\* Asked for: an isolated network, the proxies, a broker of prompts, and seccomp
\* (BUBBLEHUB_ENABLE_SECCOMP).  Found: libseccomp, which is optional in the build,
\* and whether orphans get pid 1 as their parent, or a subreaper.
ASSUME SandboxAssumption ==
  /\ \A c \in Configs :
       /\ c \in [isolate : BOOLEAN, inference : BOOLEAN, http : BOOLEAN,
                 broker : BOOLEAN, seccomp : BOOLEAN,
                 libseccomp : BOOLEAN, initAdopts : BOOLEAN]
       /\ c.inference \/ c.http => c.isolate
  /\ MaxKills \in Nat

VARIABLES
  config,
  pc,         \* where every process is
  held,       \* end -> the processes that hold it
  sent,       \* the ends through which the byte was sent
  layers,     \* what the child has confined itself with
  mapped,     \* its user namespace has its uid and gid maps
  root,       \* the directory /tmp/bubblehub-root-XXXXXX
  signalled,  \* processes with a SIGTERM on its way
  kills

svars == <<config, pc, held, sent, layers, mapped, root, signalled, kills>>

SInit ==
  /\ config \in Configs
  /\ pc = [p \in Procs |-> IF p = "helper" THEN "start" ELSE "none"]
  /\ held = [e \in Ends |-> {}]
  /\ sent = {}
  /\ layers = {}
  /\ mapped = FALSE
  /\ root = "none"
  /\ signalled = {}
  /\ kills = 0

Ended(p) == pc[p] \in {"none", "dead", "returned"}
Goes(p, to) == pc' = [pc EXCEPT ![p] = to]
Closes(p, S) == [e \in Ends |-> IF e \in S THEN held[e] \ {p} ELSE held[e]]
\* A fork: q has what p has.
Inherits(p, q) == [e \in Ends |-> IF p \in held[e] THEN held[e] \cup {q} ELSE held[e]]
EOF(e) == held[e] = {} /\ e \notin sent

\* The process ends.  The end of the child sends SIGTERM to those of its
\* proxies that asked for it with PR_SET_PDEATHSIG.
Dies(p) ==
  /\ Goes(p, "dead")
  /\ held' = Closes(p, Ends)
  /\ signalled' = IF p = "child"
                  THEN signalled \cup {q \in NsProxies : pc[q] \in {"opening", "serving"}}
                  ELSE signalled
  /\ UNCHANGED <<config, sent, layers, mapped, root>>

Exits(p) == Dies(p) /\ UNCHANGED kills

-----------------------------------------------------------------------------
(* The helper.                                                             *)

HelperAt(step) == pc["helper"] = step

MakeRoot ==
  /\ HelperAt("start")
  /\ \/ Goes("helper", "inference") /\ root' = "made"
     \/ Goes("helper", "returned") /\ root' = "none"   \* mkdtemp or chown fails
  /\ UNCHANGED <<config, held, sent, layers, mapped, signalled, kills>>

\* Forks the inference proxy, which closes the end that the helper keeps.
StartInference ==
  /\ HelperAt("inference")
  /\ IF config.inference
     THEN /\ pc' = [pc EXCEPT !["helper"] = "http", !["inference"] = "serving"]
          /\ held' = [held EXCEPT !["inferenceControl"] = {"helper"}]
     ELSE Goes("helper", "http") /\ UNCHANGED held
  /\ UNCHANGED <<config, sent, layers, mapped, root, signalled, kills>>

\* Forks the http proxy, which inherits the helper's inference_control[1].
StartHttp ==
  /\ HelperAt("http")
  /\ IF config.http
     THEN /\ pc' = [pc EXCEPT !["helper"] = "fork", !["http"] = "dropping"]
          /\ held' = [Inherits("helper", "http") EXCEPT !["httpControl"] = {"helper"}]
     ELSE Goes("helper", "fork") /\ UNCHANGED held
  /\ UNCHANGED <<config, sent, layers, mapped, root, signalled, kills>>

\* A bug: the helper does not close its copy of the end the child reports on.
ForkChild_KeepsReady ==
  /\ HelperAt("fork")
  /\ pc' = [pc EXCEPT !["helper"] = "ready", !["child"] = "userns"]
  /\ held' = [Inherits("helper", "child") EXCEPT
                !["ready"] = {"helper", "child"}, !["continue"] = {"helper"}]
  /\ UNCHANGED <<config, sent, layers, mapped, root, signalled, kills>>

\* Makes the two pipes and forks; each side closes the ends it does not use.
ForkChild ==
  /\ HelperAt("fork")
  /\ pc' = [pc EXCEPT !["helper"] = "ready", !["child"] = "userns"]
  /\ held' = [Inherits("helper", "child") EXCEPT
                !["ready"] = {"child"}, !["continue"] = {"helper"}]
  /\ UNCHANGED <<config, sent, layers, mapped, root, signalled, kills>>

\* A socketpair, pipe or fork fails: the helper stops what it has started.
SetupFails ==
  /\ \/ HelperAt("inference") /\ config.inference
     \/ HelperAt("http") /\ config.http
     \/ HelperAt("fork")
  /\ held' = Closes("helper", Ends)
  /\ Goes("helper", "stopInference")
  /\ UNCHANGED <<config, sent, layers, mapped, root, signalled, kills>>

ReadReady ==
  /\ HelperAt("ready")
  /\ \/ "ready" \in sent /\ Goes("helper", "map")
     \/ EOF("ready") /\ Goes("helper", "abort")
  /\ UNCHANGED <<config, held, sent, layers, mapped, root, signalled, kills>>

\* map_child_user_namespace.
MapIds ==
  /\ HelperAt("map")
  /\ \/ Goes("helper", "continue") /\ mapped' = TRUE
     \/ Goes("helper", "abort") /\ UNCHANGED mapped
  /\ UNCHANGED <<config, held, sent, layers, root, signalled, kills>>

\* After it the helper closes its ends and waits.
WriteContinue ==
  /\ HelperAt("continue")
  /\ pc["child"] # "dead"
  /\ sent' = sent \cup {"continue"}
  /\ held' = Closes("helper", Ends)
  /\ Goes("helper", "wait")
  /\ UNCHANGED <<config, layers, mapped, root, signalled, kills>>

\* Nobody reads what it writes: SIGPIPE.
ContinueKillsHelper ==
  /\ HelperAt("continue")
  /\ pc["child"] = "dead"
  /\ Exits("helper")

\* The handshake failed.
AbortChild ==
  /\ HelperAt("abort")
  /\ held' = Closes("helper", {"ready", "continue"})
  /\ signalled' = signalled \cup {"child"}
  /\ Goes("helper", "abortWait")
  /\ UNCHANGED <<config, sent, layers, mapped, root, kills>>

ReapChild ==
  /\ HelperAt("wait") \/ HelperAt("abortWait")
  /\ pc["child"] = "dead"
  /\ held' = Closes("helper", Ends)
  /\ Goes("helper", "stopInference")
  /\ UNCHANGED <<config, sent, layers, mapped, root, signalled, kills>>

\* kill(SIGTERM) and waitpid, for each proxy of the host that was started.
StopProxy(p, stop, reap, next) ==
  \/ /\ HelperAt(stop)
     /\ IF pc[p] = "none"
        THEN Goes("helper", next) /\ UNCHANGED signalled
        ELSE Goes("helper", reap) /\ signalled' = signalled \cup {p}
     /\ UNCHANGED <<config, held, sent, layers, mapped, root, kills>>
  \/ /\ HelperAt(reap)
     /\ pc[p] = "dead"
     /\ Goes("helper", next)
     /\ UNCHANGED <<config, held, sent, layers, mapped, root, signalled, kills>>

\* A bug: the http proxy is left to notice by itself.
StopProxies_InferenceOnly == StopProxy("inference", "stopInference", "reapInference", "cleanup")

StopProxies ==
  \/ StopProxy("inference", "stopInference", "reapInference", "stopHttp")
  \/ StopProxy("http", "stopHttp", "reapHttp", "cleanup")

\* cleanup_sandbox_root, and the return.
Cleanup ==
  /\ HelperAt("cleanup")
  /\ root' = "removed"
  /\ Goes("helper", "returned")
  /\ UNCHANGED <<config, held, sent, layers, mapped, signalled, kills>>

-----------------------------------------------------------------------------
(* The child.                                                              *)

ChildAt(step) == pc["child"] = step

\* What the child confines itself with.
Layers == {"userns", "identity", "namespaces", "sockets", "loopback", "mounts",
           "runtime", "landlock", "root", "noNewPrivs", "seccomp"}

\* A layer is applied and the child goes on, or it fails and the child ends with
\* status 126.
Layer(l, next) ==
  /\ ChildAt(l)
  /\ \/ /\ layers' = layers \cup {l}
        /\ Goes("child", next)
        /\ UNCHANGED <<config, held, sent, mapped, root, signalled, kills>>
     \/ Exits("child")

\* unshare(CLONE_NEWUSER); the environment and the cgroup before it cannot fail.
UnshareUser == Layer("userns", "ready")

\* setresgid, setresuid, CAP_NET_RAW; then the pipes are closed.
SwitchIdentity ==
  /\ ChildAt("identity")
  /\ \/ /\ mapped
        /\ layers' = layers \cup {"identity"}
        /\ held' = Closes("child", {"ready"})
        /\ Goes("child", "namespaces")
        /\ UNCHANGED <<config, sent, mapped, root, signalled, kills>>
     \/ Exits("child")

\* Mount, IPC, UTS, and network if it is isolated.
UnshareOthers == Layer("namespaces", "sockets")

HideHostRuntimeSockets == Layer("sockets", IF config.isolate THEN "loopback" ELSE "mounts")

SetupLoopback == Layer("loopback", "inferenceProxy")

SetupMounts == Layer("mounts", "runtime")

\* The home, identity files and environment of the agent.
SetupRuntimeEnv == Layer("runtime", "landlock")

\* A bug: a kernel without Landlock is only worth a warning.
ApplyLandlock_Warns ==
  \/ Layer("landlock", "root")
  \/ /\ ChildAt("landlock")
     /\ Goes("child", "root")
     /\ UNCHANGED <<config, held, sent, layers, mapped, root, signalled, kills>>

ApplyLandlock == Layer("landlock", "root")

EnterSandboxRoot == Layer("root", "noNewPrivs")

ApplyNoNewPrivs == Layer("noNewPrivs", "closeFds")

\* A build without libseccomp has nothing to apply, and says that it succeeded.
ApplySeccomp ==
  IF config.libseccomp THEN Layer("seccomp", "exec")
  ELSE /\ ChildAt("seccomp")
       /\ Goes("child", "exec")
       /\ UNCHANGED <<config, held, sent, layers, mapped, root, signalled, kills>>

WriteReady ==
  /\ ChildAt("ready")
  /\ IF pc["helper"] = "dead"
     THEN Exits("child")   \* SIGPIPE
     ELSE /\ sent' = sent \cup {"ready"}
          /\ Goes("child", "continue")
          /\ UNCHANGED <<config, held, layers, mapped, root, signalled, kills>>

ReadContinue ==
  /\ ChildAt("continue")
  /\ \/ /\ "continue" \in sent
        /\ Goes("child", "identity")
        /\ UNCHANGED <<config, held, sent, layers, mapped, root, signalled, kills>>
     \/ EOF("continue") /\ Exits("child")

\* The proxy inherits both control ends; the child closes the one of inference.
StartNsInference ==
  /\ ChildAt("inferenceProxy")
  /\ IF config.inference
     THEN /\ pc' = [pc EXCEPT !["child"] = "httpProxy", !["nsInference"] = "arming"]
          /\ held' = [Inherits("child", "nsInference") EXCEPT
                        !["inferenceControl"] = (@ \ {"child"}) \cup {"nsInference"}]
     ELSE Goes("child", "httpProxy") /\ UNCHANGED held
  /\ UNCHANGED <<config, sent, layers, mapped, root, signalled, kills>>

\* Then the child waits until the proxy listens.
StartNsHttp ==
  /\ ChildAt("httpProxy")
  /\ IF config.http
     THEN /\ pc' = [pc EXCEPT !["child"] = "httpReady", !["nsHttp"] = "arming"]
          /\ held' = [Inherits("child", "nsHttp") EXCEPT !["listening"] = {"nsHttp"}]
     ELSE Goes("child", "mounts") /\ UNCHANGED held
  /\ UNCHANGED <<config, sent, layers, mapped, root, signalled, kills>>

\* A bug: the child does not wait for the proxy.
ReadListening_NoWait ==
  /\ ChildAt("httpReady")
  /\ held' = Closes("child", {"httpControl"})
  /\ Goes("child", "mounts")
  /\ UNCHANGED <<config, sent, layers, mapped, root, signalled, kills>>

ReadListening ==
  /\ ChildAt("httpReady")
  /\ \/ /\ "listening" \in sent
        /\ held' = Closes("child", {"httpControl"})
        /\ Goes("child", "mounts")
        /\ UNCHANGED <<config, sent, layers, mapped, root, signalled, kills>>
     \/ EOF("listening") /\ Exits("child")

\* A proxy of the namespace cannot be forked.
StartNsFails ==
  /\ \/ ChildAt("inferenceProxy") /\ config.inference
     \/ ChildAt("httpProxy") /\ config.http
  /\ Exits("child")

CloseExtraFds ==
  /\ ChildAt("closeFds")
  /\ held' = Closes("child", Ends)
  /\ Goes("child", IF config.seccomp THEN "seccomp" ELSE "exec")
  /\ UNCHANGED <<config, sent, layers, mapped, root, signalled, kills>>

\* execv, or status 127.
Exec ==
  /\ ChildAt("exec")
  /\ \/ /\ Goes("child", "agent")
        /\ UNCHANGED <<config, held, sent, layers, mapped, root, signalled, kills>>
     \/ Exits("child")

AgentExits == ChildAt("agent") /\ Exits("child")

-----------------------------------------------------------------------------
(* The proxies.                                                            *)

\* A bug: a parent that was gone before PR_SET_PDEATHSIG is not noticed.
Arm_NoParentCheck(p) ==
  /\ pc[p] = "arming"
  /\ Goes(p, "opening")
  /\ UNCHANGED <<config, held, sent, layers, mapped, root, signalled, kills>>

\* PR_SET_PDEATHSIG, and getppid() == 1.
Arm(p) ==
  /\ pc[p] = "arming"
  /\ IF pc["child"] = "dead" /\ config.initAdopts
     THEN Exits(p)
     ELSE /\ Goes(p, "opening")
          /\ UNCHANGED <<config, held, sent, layers, mapped, root, signalled, kills>>

\* create_loopback_listener; the http proxy reports it, to nobody if the child
\* is gone (SIGPIPE).
Listen(p) ==
  /\ pc[p] = "opening"
  /\ IF p = "nsHttp" /\ pc["child"] = "dead"
     THEN Exits(p)
     ELSE /\ sent' = IF p = "nsHttp" THEN sent \cup {"listening"} ELSE sent
          /\ held' = Closes(p, {"listening"})
          /\ Goes(p, "serving")
          /\ UNCHANGED <<config, layers, mapped, root, signalled, kills>>

ListenFails(p) == pc[p] = "opening" /\ Exits(p)

\* The agent connects, and the proxy cannot pass the connection to the host.
ForwardFails(p, host) ==
  /\ pc[p] = "serving"
  /\ ChildAt("agent")
  /\ pc[host] = "dead"
  /\ Exits(p)

\* drop_to_host_identity.
Drop ==
  /\ pc["http"] = "dropping"
  /\ \/ /\ Goes("http", "serving")
        /\ UNCHANGED <<config, held, sent, layers, mapped, root, signalled, kills>>
     \/ Exits("http")

\* recv_fd on the control socket fails once nobody holds its other end.
HostProxyEnds(p, control) == pc[p] = "serving" /\ EOF(control) /\ Exits(p)

\* The http proxy gets a connection: with a broker it handles it itself, else
\* it forks a handler, which inherits its copy of inference_control[1].
Accept ==
  /\ ChildAt("agent")
  /\ pc["handler"] # "busy"
  /\ pc["http"] = "serving"
  /\ pc["nsHttp"] = "serving"
  /\ IF config.broker
     THEN Goes("http", "busy") /\ UNCHANGED held
     ELSE Goes("handler", "busy") /\ held' = Inherits("http", "handler")
  /\ UNCHANGED <<config, sent, layers, mapped, root, signalled, kills>>

\* At the latest when the agent is gone and its side of the connection closed.
ConnectionEnds ==
  \/ pc["handler"] = "busy" /\ Exits("handler")
  \/ /\ pc["http"] = "busy"
     /\ Goes("http", "serving")
     /\ UNCHANGED <<config, held, sent, layers, mapped, root, signalled, kills>>

-----------------------------------------------------------------------------
Delivered(p) == p \in signalled /\ ~Ended(p) /\ Exits(p)

\* From outside: Ctrl-C, the OOM killer, an administrator.
Killed(p) ==
  /\ kills < MaxKills
  /\ ~Ended(p)
  /\ Dies(p)
  /\ kills' = kills + 1

HelperStep ==
  \/ MakeRoot \/ StartInference \/ StartHttp \/ ForkChild \/ SetupFails
  \/ ReadReady \/ MapIds \/ WriteContinue \/ ContinueKillsHelper
  \/ AbortChild \/ ReapChild \/ StopProxies \/ Cleanup

SetupStep ==
  \/ UnshareUser \/ WriteReady \/ ReadContinue \/ SwitchIdentity
  \/ UnshareOthers \/ HideHostRuntimeSockets \/ SetupLoopback
  \/ StartNsInference \/ StartNsHttp \/ ReadListening \/ StartNsFails
  \/ SetupMounts \/ SetupRuntimeEnv \/ ApplyLandlock \/ EnterSandboxRoot
  \/ ApplyNoNewPrivs \/ CloseExtraFds \/ ApplySeccomp \/ Exec

\* Not the step of a proxy that depends on the agent.
ProxyStep(p) ==
  \/ p \in NsProxies /\ (Arm(p) \/ Listen(p) \/ ListenFails(p))
  \/ p = "http" /\ (Drop \/ HostProxyEnds(p, "httpControl"))
  \/ p = "inference" /\ HostProxyEnds(p, "inferenceControl")
  \/ Delivered(p)

SNext ==
  \/ HelperStep \/ SetupStep \/ AgentExits
  \/ \E p \in Procs : ProxyStep(p) \/ Killed(p)
  \/ ForwardFails("nsInference", "inference") \/ ForwardFails("nsHttp", "http")
  \/ Accept \/ ConnectionEnds

SSpec == SInit /\ [][SNext]_svars

\* Every process runs.  Nothing makes the agent exit, and a connection ends for
\* certain only when its side of the agent is closed.
FairSandboxSpec ==
  /\ SSpec
  /\ WF_svars(HelperStep)
  /\ WF_svars(SetupStep)
  /\ \A p \in Procs : WF_svars(ProxyStep(p))
  /\ WF_svars(pc["child"] = "dead" /\ ConnectionEnds)

-----------------------------------------------------------------------------
(* Properties.                                                             *)

(***************************************************************************)
(* Whatever fails or is killed during the setup, a binary that runs as the *)
(* agent runs under every layer that its configuration asks for and that   *)
(* the build has, with the identity that the helper mapped, and holds no   *)
(* end of the helper or of the proxies.  A build without libseccomp runs   *)
(* it without the filter, also when BUBBLEHUB_ENABLE_SECCOMP asks for one. *)
(***************************************************************************)
AgentConfined ==
  ChildAt("agent") =>
    /\ \A l \in Layers :
         \/ l \in layers
         \/ l = "loopback" /\ ~config.isolate
         \/ l = "seccomp" /\ ~(config.seccomp /\ config.libseccomp)
    /\ mapped
    /\ \A e \in Ends : "child" \notin held[e]

(***************************************************************************)
(* A helper that returns, after success or after any failure of the setup, *)
(* leaves neither child nor proxies of the host, nor the temporary root.   *)
(***************************************************************************)
CleanReturn ==
  pc["helper"] = "returned" =>
    /\ root # "made"
    /\ \A p \in HostProxies \cup {"child"} : Ended(p)

(***************************************************************************)
(* The agent starts only after the http proxy of its namespace listens:    *)
(* its first request cannot be too early.                                  *)
(***************************************************************************)
ProxyBeforeAgent ==
  ChildAt("agent") /\ config.http => pc["nsHttp"] \in {"serving", "dead"}

(***************************************************************************)
(* The handshakes of the setup cannot block: once the helper has started,  *)
(* it returns, it is killed, or the agent comes to run; and a child always *)
(* gets to its agent or ends, even when the helper dies under it.          *)
(***************************************************************************)
SetupEnds ==
  /\ <>(Ended("helper") \/ ChildAt("agent"))
  /\ [](pc["child"] # "none" => <>(ChildAt("agent") \/ ChildAt("dead")))

\* A proxy that armed its death signal when its parent was already dead, and did
\* not see it because a subreaper had adopted it.
Missed(p) ==
  /\ ~config.initAdopts
  /\ pc["child"] = "dead"
  /\ pc[p] \in {"opening", "serving"}
  /\ p \notin signalled

\* It holds the control sockets that it inherited, and with them the host proxies
\* that only an end of file would end.
KeptBy(q, p) ==
  \/ p = q
  \/ p = "inference" /\ q \in held["inferenceControl"]
  \/ p = "http" /\ q \in held["httpControl"]

(***************************************************************************)
(* Nothing of a sandbox is left running: once the helper has returned or   *)
(* was killed, and the child is gone, all proxies end, the ones nobody     *)
(* signals by the end of file of their control socket.  The one exception  *)
(* is a proxy of the namespace that was still to arm PR_SET_PDEATHSIG when *)
(* its parent died, where a subreaper hides that from getppid() == 1; it   *)
(* stays, and keeps the host proxies whose sockets it holds.               *)
(***************************************************************************)
NothingStays ==
  (Ended("helper") /\ Ended("child")) ~>
    (\A p \in Procs : Ended(p) \/ \E q \in NsProxies : Missed(q) /\ KeptBy(q, p))
=============================================================================
