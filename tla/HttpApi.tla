------------------------------- MODULE HttpApi -------------------------------
(***************************************************************************)
(* Requests to the inference daemon (bubblehub/http_api.py) by clients in  *)
(* sandboxes (engine/session.py, cli/prompt.py): a thread of the daemon    *)
(* resolves the specialty, configures the limits, resolves the model,      *)
(* fetches it and chats, reading models.yaml three times on the way while  *)
(* choosers rewrite it, and other commands configure the same limits.  The *)
(* chat itself is the subject of Inference: here it answers, fails or      *)
(* hangs.  What is said is the subject of ChatMessages.                    *)
(***************************************************************************)
EXTENDS ModelsConfig, InferenceDaemon

CONSTANTS
  Asked,      \* the specialties that clients name
  Unprefixed, \* what follows "openai/" in the names that begin with it
  Others,     \* bubble run, ps, queue, the dashboard, threads of the control API
  NoDaemon

VARIABLES
  limits,     \* the limits in the scheduler state, which all processes share
  request,    \* the request of every client: its two ends
  others,     \* where every other client of the scheduler is
  torn,       \* history: a request read the file while it was truncated
  cut         \* history: whoever set the limits read the file while it was truncated

hvars == <<cvars, dvars, limits, request, others, torn, cut>>

NoRequest ==
  [client |-> "off", again |-> FALSE, thread |-> "none", server |-> NoDaemon, kind |-> "",
   specialty |-> "", resolved |-> "", limits |-> EmptyFile.limits, data |-> EmptyFile, model |-> NoModel,
   pin |-> AnyValue, cut |-> FALSE]  \* cut: history, of the limits it read, then of those it picked by

Away == [pc |-> "off", limits |-> EmptyFile.limits, cut |-> FALSE]

HInit ==
  /\ CInit /\ DInit
  /\ limits = EmptyFile.limits
  /\ request = [c \in Callers |-> NoRequest]
  /\ others = [p \in Others |-> Away]
  /\ torn = FALSE /\ cut = FALSE

Sets(c, r) == request' = [request EXCEPT ![c] = r]

\* What the client gets, if it still waits, and the end of the thread.
Ended(r, outcome) ==
  [r EXCEPT !.thread = "none", !.model = NoModel, !.data = EmptyFile,
            !.resolved = "", !.limits = EmptyFile.limits, !.server = NoDaemon, !.cut = FALSE,
            !.client = IF @ = "waiting" THEN outcome ELSE @]

\* A step of the thread that reads models.yaml.
Reads(c, from) ==
  /\ request[c].thread = from /\ file # Corrupt
  /\ torn' = (torn \/ Truncated)
  /\ UNCHANGED <<cvars, dvars, limits, others, cut>>

-----------------------------------------------------------------------------
(* The client: _sandbox_chat and _sandbox_embeddings.                      *)

\* The specialty a name stands for: itself, without the prefix, or the default.
Meaning(s, registered, default) ==
  IF s \in registered THEN s
  ELSE IF s \in DOMAIN Unprefixed /\ Unprefixed[s] \in registered THEN Unprefixed[s]
  ELSE default

\* Where a model is pinned for the specialty and nobody is writing.
PinOf(s) ==
  LET meant == Meaning(s, DOMAIN RegistryOf(file).specialties, s)
  IN  IF file # Corrupt /\ ~Truncated /\ meant \in DOMAIN file.specialties
      THEN file.specialties[meant].model ELSE AnyValue

\* do_POST: a body that is not JSON or holds no messages gets 400, another path
\* 404, before the registry is read.  Nobody listening refuses the connection.
Posts(c, s, kind, again) ==
  LET r == [NoRequest EXCEPT !.client = "waiting", !.again = again, !.kind = kind, !.specialty = s]
  IN  \/ ~SomeListener /\ Sets(c, [r EXCEPT !.client = "failed"])
      \/ kind = "refused" /\ SomeListener /\ Sets(c, [r EXCEPT !.client = "failed"])
      \/ /\ kind # "refused"
         /\ \E d \in Daemons :
              Listening(d) /\ Sets(c, [r EXCEPT !.thread = "alias", !.server = d, !.pin = PinOf(s)])

Ask(c, s, kind) ==
  /\ caller[c] = "ready" /\ request[c].client = "off"
  /\ Posts(c, s, kind, FALSE)
  /\ UNCHANGED <<cvars, dvars, limits, others, torn, cut>>

\* bubble prompt --structure: an answer that is not JSON is sent back, once.
AskAgain(c) ==
  /\ request[c].client = "answered" /\ ~request[c].again
  /\ Posts(c, request[c].specialty, "chat", TRUE)
  /\ UNCHANGED <<cvars, dvars, limits, others, torn, cut>>

\* A bug: the time limit is on the connection only.
TimesOut_ConnectOnly(c) ==
  /\ request[c].client = "waiting" /\ request[c].thread \in {"none", "alias"}
  /\ Sets(c, [request[c] EXCEPT !.client = "failed"])
  /\ UNCHANGED <<cvars, dvars, limits, others, torn, cut>>

\* SANDBOX_INFERENCE_TIMEOUT_SECONDS: the client raises and does not ask again.
\* The thread does not notice before it answers.
TimesOut(c) ==
  /\ request[c].client = "waiting"
  /\ Sets(c, [request[c] EXCEPT !.client = "failed"])
  /\ UNCHANGED <<cvars, dvars, limits, others, torn, cut>>

-----------------------------------------------------------------------------
(* The thread.                                                             *)

\* A bug: only packaged specialties have a name.
Resolved_Packaged(r) ==
  Meaning(r.specialty, DOMAIN Packaged.specialties, daemon[r.server].default)

\* _specialty_from_body, by the registry that is read for it.
Resolved(r) ==
  Meaning(r.specialty, DOMAIN RegistryOf(file).specialties, daemon[r.server].default)

Alias(c) ==
  /\ Reads(c, "alias")
  /\ Sets(c, [request[c] EXCEPT !.thread = "limits", !.resolved = Resolved(request[c])])

\* The YAML error is answered with 502.
ReadFails(c) ==
  /\ request[c].thread \in {"alias", "limits", "registry"} /\ file = Corrupt
  /\ Sets(c, Ended(request[c], "failed"))
  /\ UNCHANGED <<cvars, dvars, limits, others, torn, cut>>

\* EngineSession.__enter__, SchedulerClient.local, _configured_limits.
ReadLimits(c) ==
  /\ Reads(c, "limits")
  /\ Sets(c, [request[c] EXCEPT !.thread = "configure", !.limits = ConfiguredLimits(file),
                                    !.cut = Truncated])

\* configure_limits: the scheduler state takes them, for every process.
Configure(c) ==
  /\ request[c].thread = "configure"
  /\ limits' = request[c].limits /\ cut' = request[c].cut
  /\ Sets(c, [request[c] EXCEPT !.thread = "registry", !.limits = EmptyFile.limits, !.cut = FALSE])
  /\ UNCHANGED <<cvars, dvars, others, torn>>

ReadRegistry(c) ==
  /\ Reads(c, "registry")
  /\ Sets(c, [request[c] EXCEPT !.thread = "pick", !.data = file])

\* The snapshot of the limits, and the first candidate; none is an error.
Pick(c) ==
  /\ request[c].thread = "pick"
  /\ LET m == SessionModel(RegistryOf(request[c].data), request[c].resolved, Machine, limits)
     IN  Sets(c, IF m = NoModel THEN Ended(request[c], "failed")
                 ELSE [request[c] EXCEPT !.thread = "fetch", !.model = m, !.data = EmptyFile, !.cut = cut])
  /\ UNCHANGED <<cvars, dvars, limits, others, torn, cut>>

\* HfDownloader.ensure_model; embeddings end here, as they are not implemented.
Fetch(c) ==
  /\ request[c].thread = "fetch"
  /\ \/ Sets(c, Ended(request[c], "failed"))
     \/ /\ request[c].kind = "chat"
        /\ Sets(c, [request[c] EXCEPT !.thread = "chat"])
  /\ UNCHANGED <<cvars, dvars, limits, others, torn, cut>>

\* inference_chat, then 200 or 502.
ChatEnds(c) ==
  /\ request[c].thread = "chat"
  /\ \E outcome \in {"answered", "failed"} : Sets(c, Ended(request[c], outcome))
  /\ UNCHANGED <<cvars, dvars, limits, others, torn, cut>>

-----------------------------------------------------------------------------
(* SchedulerClient, in every other process and thread that constructs one: *)
(* it reads the limits, then sets them.  A bad file raises before that.    *)

\* A bug: a client that only looks has no limits to set.
OtherReads_None(p) ==
  /\ others[p].pc = "off"
  /\ others' = [others EXCEPT ![p] = [Away EXCEPT !.pc = "configure"]]
  /\ UNCHANGED <<cvars, dvars, limits, request, torn, cut>>

OtherReads(p) ==
  /\ others[p].pc = "off" /\ file # Corrupt
  /\ others' = [others EXCEPT ![p] =
                  [pc |-> "configure", limits |-> ConfiguredLimits(file), cut |-> Truncated]]
  /\ UNCHANGED <<cvars, dvars, limits, request, torn, cut>>

OtherConfigures(p) ==
  /\ others[p].pc = "configure"
  /\ limits' = others[p].limits /\ cut' = others[p].cut
  /\ others' = [others EXCEPT ![p] = Away]
  /\ UNCHANGED <<cvars, dvars, request, torn>>

-----------------------------------------------------------------------------
(* The composition.                                                        *)

ThreadStep(c) ==
  \/ Alias(c) \/ ReadLimits(c) \/ Configure(c) \/ ReadRegistry(c) \/ ReadFails(c)
  \/ Pick(c) \/ Fetch(c) \/ ChatEnds(c)

\* A daemon that dies takes its threads along; their clients see it.
DaemonDies(d) ==
  /\ Dies(d)
  /\ request' = [c \in Callers |->
       IF request[c].server = d THEN Ended(request[c], "failed") ELSE request[c]]
  /\ UNCHANGED <<cvars, limits, others, torn, cut>>

\* A step of a chooser; a new file makes what was pinned before void.
ChooserStep ==
  /\ CNext
  /\ request' = IF file' = file THEN request
                ELSE [c \in Callers |-> [request[c] EXCEPT !.pin = AnyValue]]
  /\ UNCHANGED <<dvars, limits, others, torn, cut>>

HNext ==
  \/ ChooserStep
  \/ DaemonStep /\ UNCHANGED <<cvars, limits, request, others, torn, cut>>
  \/ \E d \in Daemons : DaemonDies(d)
  \/ \E c \in Callers :
       \/ \E s \in Asked, kind \in {"chat", "embeddings", "refused"} : Ask(c, s, kind)
       \/ AskAgain(c) \/ TimesOut(c) \/ ThreadStep(c)
  \/ \E p \in Others : OtherReads(p) \/ OtherConfigures(p)

\* The 120 seconds of a client pass.  Nothing is assumed of the threads: a
\* download or a chat may hang.
HFairness == DaemonFairness /\ \A c \in Callers : WF_hvars(TimesOut(c))

HSpec == HInit /\ [][HNext]_hvars /\ HFairness

-----------------------------------------------------------------------------
(* Properties.                                                             *)

UndisturbedReads == ~torn /\ ~disturbed

\* The requests that have a model.
Serving == {c \in Callers : request[c].model # NoModel}

(***************************************************************************)
(* A request is served by a model of the specialty it names, whatever      *)
(* choosers change while it is on its way; by the model that is pinned, if *)
(* the pin was there when it was asked and nobody wrote since; and, if the *)
(* name is not registered, by one for the default of the daemon, which is  *)
(* that of the command that started it.                                    *)
(***************************************************************************)
ServedAsAsked ==
  UndisturbedReads =>
    \A c \in Serving :
      LET r == request[c]
          registered == RegistryOf(UserFile).specialties
          meant == Meaning(r.specialty, DOMAIN registered, daemon[r.server].default)
      IN  /\ r.model.capability = registered[meant].capability
          /\ r.pin # AnyValue => r.model.name = r.pin

(***************************************************************************)
(* The limits in the file hold for every model that is picked, although    *)
(* they reach the scheduler only through its clients, any of which may set *)
(* them between the moment a request does and the moment it picks, and the *)
(* prompt offers models beyond them.  The exception: the client that set   *)
(* them last had read the file while a chooser was rewriting it.           *)
(***************************************************************************)
WithinConfiguredLimit ==
  ~disturbed =>
    \A c \in Serving :
      ~request[c].cut =>
        /\ UserFile.limits.ram > 0 => request[c].model.ram <= UserFile.limits.ram
        /\ UserFile.limits.vram > 0 => request[c].model.vram <= UserFile.limits.vram

(***************************************************************************)
(* A client gets an answer or an error, also when the chat hangs, the      *)
(* daemon dies, or the endpoint does not come up.                          *)
(***************************************************************************)
ClientReturns ==
  \A c \in Callers :
    /\ request[c].client = "waiting" ~> request[c].client \in {"answered", "failed"}
    /\ caller[c] \in {"spawn", "wait"} ~> caller[c] \in {"ready", "failed"}
=============================================================================
