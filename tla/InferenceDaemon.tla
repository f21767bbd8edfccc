--------------------------- MODULE InferenceDaemon ---------------------------
(***************************************************************************)
(* The shared inference daemon: how commands find or start it              *)
(* (bubblehub/inference.py), how it comes up (cli/inference_daemon.py) and *)
(* bubble serve, which binds the same port in the foreground.  Nothing but *)
(* the port keeps two of them apart.                                       *)
(***************************************************************************)
EXTENDS Naturals

CONSTANTS
  Callers,            \* commands that need the endpoint
  DefaultSpecialty,   \* what the environment of each makes its default
  Servers,            \* invocations of bubble serve
  MaxDeaths           \* bound on the daemons that die

ASSUME InferenceDaemonAssumption == MaxDeaths \in Nat

\* A caller starts one daemon at most, which bears its name.
Daemons == Callers \cup Servers

VARIABLES
  caller,   \* where every caller is
  daemon,   \* every daemon process and its default specialty
  deaths

dvars == <<caller, daemon, deaths>>

DInit ==
  /\ caller = [c \in Callers |-> "off"]
  /\ daemon = [d \in Daemons |-> [pc |-> "none", default |-> ""]]
  /\ deaths = 0

Listening(d) == daemon[d].pc = "listening"
SomeListener == \E d \in Daemons : Listening(d)

CallerAt(c, to) == caller' = [caller EXCEPT ![c] = to]
DaemonAt(d, to) == daemon' = [daemon EXCEPT ![d].pc = to]

\* load_inference_config, then the first probe.  A probe has one second: it may
\* fail although somebody listens.
Ensure(c) ==
  /\ caller[c] = "off"
  /\ \E healthy \in {FALSE, SomeListener} : CallerAt(c, IF healthy THEN "ready" ELSE "spawn")
  /\ UNCHANGED <<daemon, deaths>>

Starts(d, specialty) ==
  /\ daemon[d].pc = "none"
  /\ daemon' = [daemon EXCEPT ![d] = [pc |-> "starting", default |-> specialty]]

\* _start_inference_daemon: the daemon gets the default of its starter.
Spawn(c) ==
  /\ caller[c] = "spawn"
  /\ Starts(c, DefaultSpecialty[c])
  /\ CallerAt(c, "wait")
  /\ UNCHANGED deaths

\* bubble serve, with a specialty or the configured one.
Serve(d, specialty) == Starts(d, specialty) /\ UNCHANGED <<caller, deaths>>

\* run_http_api: whoever binds second gets an OSError and exits.
Bind(d) ==
  /\ daemon[d].pc = "starting"
  /\ DaemonAt(d, IF SomeListener THEN "gone" ELSE "listening")
  /\ UNCHANGED <<caller, deaths>>

\* wait_until_healthy.
WaitFindsHealthy(c) ==
  /\ caller[c] = "wait" /\ SomeListener
  /\ CallerAt(c, "ready")
  /\ UNCHANGED <<daemon, deaths>>

\* A bug: giving up takes along the daemons that are not up yet.
WaitTimesOut_Kills(c) ==
  /\ caller[c] = "wait"
  /\ CallerAt(c, "failed")
  /\ daemon' = [d \in Daemons |->
       IF daemon[d].pc = "starting" THEN [daemon[d] EXCEPT !.pc = "gone"] ELSE daemon[d]]
  /\ UNCHANGED deaths

\* The daemon is not stopped: it may still come up for the next command.
WaitTimesOut(c) ==
  /\ caller[c] = "wait"
  /\ CallerAt(c, "failed")
  /\ UNCHANGED <<daemon, deaths>>

Dies(d) ==
  /\ daemon[d].pc \in {"starting", "listening"} /\ deaths < MaxDeaths
  /\ deaths' = deaths + 1
  /\ DaemonAt(d, "gone")
  /\ UNCHANGED caller

\* The steps that only this module knows; Dies also ends the requests.
DaemonStep ==
  \/ \E c \in Callers : Ensure(c) \/ Spawn(c) \/ WaitFindsHealthy(c) \/ WaitTimesOut(c)
  \/ \E d \in Daemons : Bind(d)
  \/ \E d \in Servers, c \in Callers : Serve(d, DefaultSpecialty[c])

\* Processes run, and the deadline of wait_until_healthy passes.
DaemonFairness ==
  /\ \A d \in Daemons : WF_dvars(Bind(d))
  /\ \A c \in Callers : WF_dvars(Spawn(c)) /\ WF_dvars(WaitFindsHealthy(c)) /\ WF_dvars(WaitTimesOut(c))

-----------------------------------------------------------------------------
(* Properties.                                                             *)

(***************************************************************************)
(* However many commands find nobody and start a daemon each, one of them  *)
(* ends up serving: the losers of the port exit and the winner stays, also *)
(* when the command that started it has given up.                          *)
(***************************************************************************)
EndpointComesUp ==
  (\E d \in Daemons : daemon[d].pc = "starting") ~> (SomeListener \/ deaths > 0)
=============================================================================
