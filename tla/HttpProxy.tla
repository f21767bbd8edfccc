------------------------------ MODULE HttpProxy ------------------------------
(***************************************************************************)
(* The host side of a sandbox's HTTP proxy: host_http_proxy of             *)
(* libbubble/sandbox.c, the handler of a connection in                     *)
(* libbubble/http_proxy.c, and the prompt of the interactive bubble run    *)
(* (_run_with_access_broker in bubblehub/native.py and the broker of       *)
(* cli/run.py).  The manifest is the one of AccessManifest, with all the   *)
(* steps that a read and a replacement of it take.                         *)
(*                                                                         *)
(* The namespace side accepts the connections of the sandbox and passes    *)
(* their descriptors over the control socket, in order.  Without a prompt  *)
(* the host forks a handler for every connection.  With one it handles     *)
(* them one after the other, because they share the socket of the broker,  *)
(* and a handler returns when its tunnel has ended.                        *)
(***************************************************************************)
EXTENDS AccessManifest

CONSTANTS
  Clients,      \* connections from inside the sandbox, one request each
  Prompting,    \* whether there is a broker: access_broker_fd >= 0
  HandlerOf,    \* client -> the thread that evaluates for it
  Cli,          \* the thread of bubble run that applies what the user chooses
  Editors       \* threads that edit the manifest meanwhile

ASSUME ProxyAssumption ==
  /\ Prompting \in BOOLEAN
  /\ HandlerOf \in [Clients -> Threads]
  /\ Cli \in Threads
  /\ Editors \subseteq Threads
  /\ Cli \notin Editors \cup {HandlerOf[c] : c \in Clients}
  /\ \A c \in Clients : HandlerOf[c] \notin Editors
  \* With a broker every handler runs in the one host proxy process.
  /\ Prompting => \A c, d \in Clients : HandlerOf[c] = HandlerOf[d]
  \* Without one, a process is forked for each connection.
  /\ ~Prompting => \A c, d \in Clients : HandlerOf[c] = HandlerOf[d] => c = d

VARIABLES
  client,    \* client -> where its connection is
  control,   \* the descriptors in the control socket
  proxyUp,   \* the host proxy process lives
  broker,    \* what the broker does, and for which client
  asked,     \* the broker's socket: requests to it, by client
  answers,   \* the broker's socket: replies
  given,     \* history: client -> what the user chose when asked about it
  granted    \* history: the rules that were ever given "always"

pvars == <<client, control, proxyUp, broker, asked, answers, given, granted>>
allvars == <<mvars, pvars>>

Phases == {"away", "queued", "recv", "deciding", "evaluating", "asking",
           "connecting", "tunnel", "closed"}

\* The phases in which a handler is at work for the client.
Handled == Phases \ {"away", "queued", "closed"}

NoClient == [phase |-> "away", req |-> NoRequest, by |-> "none"]

PInit ==
  /\ Init
  /\ client = [c \in Clients |-> NoClient]
  /\ control = << >>
  /\ proxyUp = TRUE
  /\ broker = [pc |-> "reading", client |-> NoRequest, policy |-> "none"]
  /\ asked = << >>
  /\ answers = << >>
  /\ given = [c \in Clients |-> "none"]
  /\ granted = {}

Goto(c, phase) == client' = [client EXCEPT ![c].phase = phase]

\* A process dies of SIGPIPE: with a broker it is the host proxy itself, and
\* whatever it was handling ends with it.
Dies(c) ==
  /\ proxyUp' = (proxyUp /\ ~Prompting)
  /\ client' = [d \in Clients |->
       IF d = c \/ (Prompting /\ client[d].phase \in Handled)
       THEN [client[d] EXCEPT !.phase = "closed"] ELSE client[d]]

-----------------------------------------------------------------------------
(* The control socket.                                                     *)

\* A program of the sandbox connects; namespace_http_proxy passes it on.
Connect(c) ==
  /\ client[c].phase = "away"
  /\ \E r \in Asked : client' = [client EXCEPT ![c].phase = "queued", ![c].req = r]
  /\ control' = Append(control, c)
  /\ UNCHANGED <<mvars, proxyUp, broker, asked, answers, given, granted>>

\* A bug: the next connection is taken when the handler's child is reaped.
Accept_WaitsForChild ==
  /\ proxyUp
  /\ control # << >>
  /\ \A c \in Clients : client[c].phase \notin Handled
  /\ Goto(Head(control), "recv")
  /\ control' = Tail(control)
  /\ UNCHANGED <<mvars, proxyUp, broker, asked, answers, given, granted>>

Accept ==
  /\ proxyUp
  /\ control # << >>
  /\ Prompting => \A c \in Clients : client[c].phase \notin Handled
  /\ Goto(Head(control), "recv")
  /\ control' = Tail(control)
  /\ UNCHANGED <<mvars, proxyUp, broker, asked, answers, given, granted>>

-----------------------------------------------------------------------------
(* bubblehub_http_proxy_handle_client_for_agent_broker.                    *)

NeedsPrompt(r) == FindPolicy(Load, r) \notin {"always", "never"}

\* The request arrives whole; the manifest is read to see whether to ask.
Receive(c) ==
  /\ client[c].phase = "recv"
  /\ IF Prompting /\ NeedsPrompt(client[c].req)
     THEN IF broker.pc = "gone"
          THEN Dies(c) /\ UNCHANGED asked
          ELSE /\ Goto(c, "asking")
               /\ asked' = Append(asked, c)
               /\ UNCHANGED proxyUp
     ELSE Goto(c, "deciding") /\ UNCHANGED <<asked, proxyUp>>
  /\ UNCHANGED <<mvars, control, broker, answers, given, granted>>

\* The client goes without a request, or sends one that does not parse.
ReceiveNothing(c) ==
  /\ client[c].phase = "recv"
  /\ Goto(c, "closed")
  /\ UNCHANGED <<mvars, control, proxyUp, broker, asked, answers, given, granted>>

\* The manifest is read again for the decision.
Decide(c) ==
  /\ client[c].phase = "deciding"
  /\ Evaluate(HandlerOf[c], client[c].req)
  /\ Goto(c, "evaluating")
  /\ UNCHANGED <<control, proxyUp, broker, asked, answers, given, granted>>

Evaluated(c) ==
  /\ client[c].phase = "evaluating"
  /\ Idle(HandlerOf[c])
  /\ IF thread[HandlerOf[c]].result = "approve"
     THEN client' = [client EXCEPT ![c].phase = "connecting", ![c].by = "manifest"]
     ELSE Goto(c, "closed")
  /\ UNCHANGED <<mvars, control, proxyUp, broker, asked, answers, given, granted>>

\* The words of the broker's replies, and those that the proxy takes for consent.
Wire == [always |-> "approve", never |-> "deny", ask |-> "ask"]

Consents == {"always", "approve", "ask"}

\* A bug: a broker that is gone is taken for consent.
ReadAnswer_FailOpen(c) ==
  /\ client[c].phase = "asking"
  /\ answers # << >> \/ broker.pc = "gone"
  /\ IF answers = << >> \/ Head(answers) \in Consents
     THEN client' = [client EXCEPT ![c].phase = "connecting", ![c].by = "prompt"]
     ELSE Goto(c, "closed")
  /\ answers' = IF answers = << >> THEN answers ELSE Tail(answers)
  /\ UNCHANGED <<mvars, control, proxyUp, broker, asked, given, granted>>

\* request_broker_decision reads one line; the end of the socket is a denial.
ReadAnswer(c) ==
  /\ client[c].phase = "asking"
  /\ answers # << >> \/ broker.pc = "gone"
  /\ IF answers # << >> /\ Head(answers) \in Consents
     THEN client' = [client EXCEPT ![c].phase = "connecting", ![c].by = "prompt"]
     ELSE Goto(c, "closed")
  /\ answers' = IF answers = << >> THEN answers ELSE Tail(answers)
  /\ UNCHANGED <<mvars, control, proxyUp, broker, asked, given, granted>>

ConnectUpstream(c) ==
  /\ client[c].phase = "connecting"
  /\ Goto(c, "tunnel")
  /\ UNCHANGED <<mvars, control, proxyUp, broker, asked, answers, given, granted>>

UpstreamFails(c) ==
  /\ client[c].phase = "connecting"
  /\ Goto(c, "closed")
  /\ UNCHANGED <<mvars, control, proxyUp, broker, asked, answers, given, granted>>

\* proxy_loop returns when one side is closed.
TunnelEnds(c) ==
  /\ client[c].phase = "tunnel"
  /\ Goto(c, "closed")
  /\ UNCHANGED <<mvars, control, proxyUp, broker, asked, answers, given, granted>>

\* proxy_loop writes to a side that is closed, and SIGPIPE is not ignored.
TunnelBreaks(c) ==
  /\ client[c].phase = "tunnel"
  /\ Dies(c)
  /\ UNCHANGED <<mvars, control, broker, asked, answers, given, granted>>

-----------------------------------------------------------------------------
(* The broker in bubble run.                                               *)

BrokerReads ==
  /\ broker.pc = "reading"
  /\ asked # << >>
  /\ broker' = [pc |-> "prompting", client |-> Head(asked), policy |-> "none"]
  /\ asked' = Tail(asked)
  /\ UNCHANGED <<mvars, client, control, proxyUp, answers, given, granted>>

\* The user chooses, and the choice is applied to the exact request.
BrokerChooses ==
  /\ broker.pc = "prompting"
  /\ \E policy \in Choices :
       /\ ApplyPolicy(Cli, client[broker.client].req, policy, NoRequest)
       /\ broker' = [broker EXCEPT !.pc = "saving", !.policy = policy]
       /\ given' = [given EXCEPT ![broker.client] = policy]
       /\ granted' = IF policy = "always"
                     THEN granted \cup {client[broker.client].req} ELSE granted
  /\ UNCHANGED <<client, control, proxyUp, asked, answers>>

\* The prompt raises an exception, which is answered as never.
PromptFails ==
  /\ broker.pc = "prompting"
  /\ broker' = [broker EXCEPT !.pc = "saving", !.policy = "never"]
  /\ given' = [given EXCEPT ![broker.client] = "never"]
  /\ UNCHANGED <<mvars, client, control, proxyUp, asked, answers, granted>>

\* The reply is the choice, whether or not it could be saved.
BrokerReplies ==
  /\ broker.pc = "saving"
  /\ Idle(Cli)
  /\ answers' = Append(answers, Wire[broker.policy])
  /\ broker' = [pc |-> "reading", client |-> NoRequest, policy |-> "none"]
  /\ UNCHANGED <<mvars, client, control, proxyUp, asked, given, granted>>

\* bubble run is killed; the sandbox and its proxies live on.
BrokerDies ==
  /\ broker.pc # "gone"
  /\ Prompting
  /\ Killed(ProcessOf[Cli])
  /\ broker' = [pc |-> "gone", client |-> NoRequest, policy |-> "none"]
  /\ asked' = << >>
  /\ UNCHANGED <<client, control, proxyUp, answers, given, granted>>

-----------------------------------------------------------------------------
\* The steps of write_manifest, in any thread.
WriteStep(t) ==
  /\ OpenTmp(t) \/ WriteTmp(t) \/ WriteFails(t) \/ Rename(t)
  /\ UNCHANGED pvars

EditMeanwhile(t) ==
  /\ \E rule \in Rules, policy \in Choices :
       /\ ApplyPolicy(t, rule, policy, NoRequest)
       /\ granted' = IF policy = "always" THEN granted \cup {rule} ELSE granted
  /\ UNCHANGED <<client, control, proxyUp, broker, asked, answers, given>>

HandlerStep(c) ==
  \/ Receive(c) \/ Decide(c) \/ Evaluated(c) \/ ReadAnswer(c)
  \/ ConnectUpstream(c) \/ UpstreamFails(c)

BrokerStep == BrokerReads \/ BrokerChooses \/ PromptFails \/ BrokerReplies

PNext ==
  \/ \E c \in Clients :
       \/ Connect(c) \/ ReceiveNothing(c) \/ HandlerStep(c)
       \/ TunnelEnds(c) \/ TunnelBreaks(c)
  \/ Accept
  \/ BrokerStep \/ BrokerDies
  \/ \E t \in Threads : WriteStep(t)
  \/ \E t \in Editors : EditMeanwhile(t)

PSpec == PInit /\ [][PNext]_allvars

\* The processes run, a client sends its request or goes, the upstream answers or
\* refuses, and the user answers the prompts.  Nothing ends a tunnel.
FairProxySpec ==
  /\ PSpec
  /\ WF_allvars(Accept)
  /\ \A c \in Clients :
       /\ WF_allvars(Receive(c) \/ ReceiveNothing(c))
       /\ WF_allvars(Decide(c) \/ Evaluated(c) \/ ReadAnswer(c))
       /\ WF_allvars(ConnectUpstream(c) \/ UpstreamFails(c))
  /\ WF_allvars(BrokerStep)
  /\ \A t \in Threads : WF_allvars(WriteStep(t))

-----------------------------------------------------------------------------
(* Properties.                                                             *)

\* Nothing leaves the sandbox without consent: a connection is forwarded because
\* the user, asked about this very connection, approved it, or because a rule
\* that the user once set to always covers its request.
ForwardedByConsent ==
  \A c \in Clients : client[c].phase \in {"connecting", "tunnel"} =>
    \/ client[c].by = "prompt" /\ given[c] \in {"always", "ask"}
    \/ /\ client[c].by = "manifest"
       /\ \E rule \in granted : Matches(rule, client[c].req)

\* While the host proxy lives, every connection is answered or forwarded, whatever
\* the other connections do.
RequestsAnswered ==
  []proxyUp => \A c \in Clients :
    client[c].phase = "queued" ~> client[c].phase \in {"tunnel", "closed"}
=============================================================================
