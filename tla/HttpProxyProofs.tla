-------------------------- MODULE HttpProxyProofs ----------------------------
(***************************************************************************)
(* Proofs about HttpProxy, for any number of connections, handlers and     *)
(* editors, with and without a broker.                                     *)
(***************************************************************************)
EXTENDS HttpProxy, AccessProofs

-----------------------------------------------------------------------------
(* The manifest: every "always" in it was given by somebody.               *)

Consented(m) ==
  \A i \in DOMAIN m.policies : m.policies[i].policy = "always" => m.policies[i].rule \in granted

GrantInv ==
  /\ \A i \in Inodes : file[i] # Truncated => Consented(file[i])
  /\ \A t \in Threads : Consented(thread[t].copy)

LEMMA EmptyConsented == Consented(EmptyManifest)
BY DEF Consented, EmptyManifest

LEMMA LoadConsented ==
  ASSUME ManifestInv, GrantInv
  PROVE  Consented(Load)
<1>1. CASE path = NoInode \/ file[path] = Truncated
  BY <1>1, EmptyConsented DEF Load
<1>2. CASE path # NoInode /\ file[path] # Truncated
  BY <1>2 DEF Load, GrantInv, ManifestInv, NamesOK, Inode
<1>. QED
  BY <1>1, <1>2

\* What a step of write_manifest, or a kill, does to contents, copies and results.
Settles ==
  /\ \A i \in Inodes : file'[i] # Truncated =>
       \/ file[i] # Truncated /\ file'[i] = file[i]
       \/ \E t \in Threads : file'[i] = thread[t].copy
  /\ \A t \in Threads : thread'[t].copy = thread[t].copy \/ thread'[t].copy = EmptyManifest
  /\ \A t \in Threads :
       thread'[t].pc = "idle" /\ thread'[t].result = "approve" => thread'[t] = thread[t]

LEMMA KeepSettles ==
  ASSUME Keep(file), NEW i \in Inodes, file'[i] # Truncated
  PROVE  file[i] # Truncated /\ file'[i] = file[i]
BY DEF Keep

LEMMA FinishSettles ==
  ASSUME ManifestInv, NEW t \in Threads, NEW result \in {"none", "deny", "saved", "failed"},
         Finish(t, result)
  PROVE  /\ \A u \in Threads : thread'[u].copy = thread[u].copy \/ thread'[u].copy = EmptyManifest
         /\ \A u \in Threads :
              thread'[u].pc = "idle" /\ thread'[u].result = "approve" => thread'[u] = thread[u]
<1>1. PICK op : op = [NoOperation EXCEPT !.result = result]
  OBVIOUS
<1>2. op.copy = EmptyManifest /\ op.result = result
  BY <1>1, NoOperationIs DEF Operation
<1>3. thread' = [thread EXCEPT ![t] = op]
  BY <1>1 DEF Finish
<1>4. thread'[t] = op /\ \A u \in Threads \ {t} : thread'[u] = thread[u]
  BY <1>3 DEF ManifestInv, ThreadsOK
<1>. QED
  BY <1>2, <1>4

LEMMA WriterSettles ==
  ASSUME ManifestInv, NEW t \in Threads,
         OpenTmp(t) \/ WriteTmp(t) \/ WriteFails(t) \/ Rename(t)
  PROVE  Settles
<1>1. CASE OpenTmp(t)
  <2>1. PICK i \in Inodes : /\ file' = [file EXCEPT ![i] = Truncated]
                            /\ thread' = [thread EXCEPT ![t].pc = "write", ![t].fd = i]
    BY <1>1, OpenIs
  <2>2. /\ thread'[t].pc = "write" /\ thread'[t].copy = thread[t].copy
        /\ \A u \in Threads \ {t} : thread'[u] = thread[u]
    BY <2>1 DEF ManifestInv, ThreadsOK, Operation
  <2>3. \A j \in Inodes : file'[j] # Truncated => file'[j] = file[j]
    BY <2>1 DEF ManifestInv, FilesOK
  <2>. QED
    BY <2>2, <2>3 DEF Settles
<1>2. CASE WriteTmp(t)
  <2>1. /\ thread'[t].pc = "rename" /\ thread'[t].copy = thread[t].copy
        /\ \A u \in Threads \ {t} : thread'[u] = thread[u]
    BY <1>2 DEF WriteTmp, ManifestInv, ThreadsOK, Operation
  <2>2. PICK content : content = [file EXCEPT ![thread[t].fd] = thread[t].copy]
    OBVIOUS
  <2>3. \A j \in Inodes : content[j] = file[j] \/ content[j] = thread[t].copy
    BY <2>2 DEF ManifestInv, FilesOK
  <2>4. \A j \in Inodes : file'[j] # Truncated => file'[j] = content[j]
    BY <1>2, <2>2 DEF WriteTmp, Keep
  <2>. QED
    BY <2>1, <2>3, <2>4 DEF Settles
<1>3. CASE WriteFails(t)
  <2>1. Finish(t, FailedResult(t)) /\ FailedResult(t) \in {"deny", "failed"} /\ Keep(file)
    BY <1>3 DEF WriteFails, FailedResult
  <2>. QED
    BY <2>1, FinishSettles, KeepSettles DEF Settles
<1>4. CASE Rename(t)
  <2>1. PICK result \in {"deny", "saved", "failed"} : Finish(t, result)
    BY <1>4 DEF Rename, FailedResult
  <2>2. Keep(file)
    BY <1>4 DEF Rename
  <2>. QED
    BY <2>1, <2>2, FinishSettles, KeepSettles DEF Settles
<1>. QED
  BY <1>1, <1>2, <1>3, <1>4

LEMMA KillSettles ==
  ASSUME ManifestInv, NEW p, Killed(p)
  PROVE  Settles
<1>1. \A u \in Threads : thread'[u] = thread[u] \/ thread'[u] = NoOperation
  BY DEF Killed
<1>2. Keep(file)
  BY DEF Killed
<1>. QED
  BY <1>1, <1>2, NoOperationIs, KeepSettles DEF Settles

LEMMA SettlesKeepsGrants ==
  ASSUME GrantInv, Settles, granted' = granted
  PROVE  GrantInv'
BY EmptyConsented DEF GrantInv, Settles, Consented

\* A decision is applied: the new rule is among the ones granted.
LEMMA ApplyKeepsGrants ==
  ASSUME ManifestInv, GrantInv, NEW t \in Threads, NEW rule \in Rule, NEW policy \in Policies,
         NEW for, ApplyPolicy(t, rule, policy, for),
         granted' = IF policy = "always" THEN granted \cup {rule} ELSE granted
  PROVE  /\ GrantInv'
         /\ \A u \in Threads : thread'[u].pc = "idle" /\ thread'[u].result = "approve"
              => thread'[u] = thread[u] /\ u # t
<1>0. /\ file' = file /\ granted \subseteq granted'
      /\ \A m : Consented(m) => Consented(m)'
  BY DEF ApplyPolicy, Consented
<1>1. PICK n : n = RemovePending(SetPolicy(Load, rule, policy), rule)
  OBVIOUS
<1>2. CASE PoliciesAreFull(Load, rule) \/ ~FitsInFile(n)
  <2>1. Finish(t, "failed")
    BY <1>1, <1>2 DEF ApplyPolicy
  <2>2. PICK op : op = [NoOperation EXCEPT !.result = "failed"]
    OBVIOUS
  <2>3. op.copy = EmptyManifest /\ op.result = "failed"
    BY <2>2, NoOperationIs DEF Operation
  <2>4. thread'[t] = op /\ \A u \in Threads \ {t} : thread'[u] = thread[u]
    BY <2>1, <2>2 DEF Finish, ManifestInv, ThreadsOK
  <2>. QED
    BY <1>0, <2>3, <2>4, EmptyConsented DEF GrantInv
<1>3. CASE ~(PoliciesAreFull(Load, rule) \/ ~FitsInFile(n))
  <2>1. PICK op : op = [NoOperation EXCEPT !.pc = "open", !.kind = "apply",
                          !.rule = rule, !.policy = policy, !.for = for, !.copy = n]
    OBVIOUS
  <2>2. op.pc = "open" /\ op.copy = n
    BY <2>1, NoOperationIs DEF Operation
  <2>3. thread' = [thread EXCEPT ![t] = op]
    BY <1>1, <1>3, <2>1 DEF ApplyPolicy
  <2>4. thread'[t] = op /\ \A u \in Threads \ {t} : thread'[u] = thread[u]
    BY <2>3 DEF ManifestInv, ThreadsOK
  <2>5. Consented(n)'
    <3>1. PICK s : s = SetPolicy(Load, rule, policy)
      OBVIOUS
    <3>2. PICK new : new = [rule |-> rule, policy |-> policy]
      OBVIOUS
    <3>3. new.rule = rule /\ new.policy = policy
      BY <3>2
    <3>4. Load \in Manifest
      BY LoadIsProper DEF Proper, Stored
    <3>5. /\ s \in Manifest
          /\ \A i \in DOMAIN s.policies :
               \/ i \in DOMAIN Load.policies /\ s.policies[i] = Load.policies[i]
               \/ s.policies[i] = new
      BY <3>1, <3>2, <3>4, SetPolicyIs
    <3>6. n.policies = s.policies
      BY <1>1, <3>1, <3>5, RemovePendingIs
    <3>7. \A i \in DOMAIN n.policies :
            n.policies[i].policy = "always" => n.policies[i].rule \in granted'
      BY <3>3, <3>5, <3>6, LoadConsented DEF Consented
    <3>. QED
      BY <3>7 DEF Consented
  <2>. QED
    BY <1>0, <2>2, <2>4, <2>5 DEF GrantInv
<1>. QED
  BY <1>2, <1>3

\* An evaluation that approves has found a rule that was granted.
LEMMA EvaluateKeepsGrants ==
  ASSUME ManifestInv, GrantInv, NEW t \in Threads, NEW r \in AccessRequest, Evaluate(t, r),
         granted' = granted
  PROVE  /\ GrantInv'
         /\ \A u \in Threads \ {t} : thread'[u] = thread[u]
         /\ thread'[t].pc = "idle" /\ thread'[t].result = "approve"
              => \E rule \in granted : Matches(rule, r)
<1>0. /\ file' = file
      /\ \A m : Consented(m) => Consented(m)'
  BY DEF Evaluate, Consented
<1>1. PICK n : n = AddPending(Load, r)
  OBVIOUS
<1>p. Load \in Manifest
  BY LoadIsProper DEF Proper, Stored
<1>2. CASE Decided(Load, r) \/ PendingIsFull(Load, r) \/ ~FitsInFile(n)
  <2>1. PICK result \in {"approve", "deny"} :
          Finish(t, result) /\ (result = "approve" => FindPolicy(Load, r) = "always")
    BY <1>1, <1>2 DEF Evaluate, Decided
  <2>2. PICK op : op = [NoOperation EXCEPT !.result = result]
    OBVIOUS
  <2>3. op.copy = EmptyManifest /\ op.result = result
    BY <2>2, NoOperationIs DEF Operation
  <2>4. thread'[t] = op /\ \A u \in Threads \ {t} : thread'[u] = thread[u]
    BY <2>1, <2>2 DEF Finish, ManifestInv, ThreadsOK
  <2>5. GrantInv'
    BY <1>0, <2>3, <2>4, EmptyConsented DEF GrantInv
  <2>6. ASSUME FindPolicy(Load, r) = "always"
        PROVE  \E rule \in granted : Matches(rule, r)
    <3>1. DOMAIN Load.policies \subseteq Nat
      BY <1>p, ManifestFields
    <3>2. PICK i \in Matching(Load, r) : Load.policies[i].policy = "always"
      BY <2>6, <3>1, DecisionHasRule
    <3>. QED
      BY <3>2, LoadConsented DEF Consented, Matching
  <2>. QED
    BY <2>1, <2>3, <2>4, <2>5, <2>6
<1>3. CASE ~(Decided(Load, r) \/ PendingIsFull(Load, r) \/ ~FitsInFile(n))
  <2>1. PICK op : op = [NoOperation EXCEPT !.pc = "open", !.kind = "evaluate",
                          !.for = r, !.copy = n]
    OBVIOUS
  <2>2. op.pc = "open" /\ op.copy = n
    BY <2>1, NoOperationIs DEF Operation
  <2>3. thread' = [thread EXCEPT ![t] = op]
    BY <1>1, <1>3, <2>1 DEF Evaluate, Decided
  <2>4. thread'[t] = op /\ \A u \in Threads \ {t} : thread'[u] = thread[u]
    BY <2>3 DEF ManifestInv, ThreadsOK
  <2>5. n.policies = Load.policies
    BY <1>1, <1>p, AddPendingIs
  <2>6. Consented(n)'
    BY <2>5, LoadConsented DEF Consented, Evaluate
  <2>. QED
    BY <1>0, <2>2, <2>4, <2>6 DEF GrantInv
<1>. QED
  BY <1>2, <1>3

-----------------------------------------------------------------------------
(* The connections.                                                        *)

ClientsTyped ==
  /\ client \in [Clients -> [phase : Phases, req : Asked \cup {NoRequest},
                             by : {"none", "manifest", "prompt"}]]
  /\ \A c \in Clients : client[c].phase # "away" => client[c].req \in Asked

\* With a broker, one connection is handled at a time.
OneHandled ==
  Prompting => \A c, d \in Clients :
    client[c].phase \in Handled /\ client[d].phase \in Handled => c = d

\* A handler's approval is about the request of its own connection.
ApprovalInv ==
  \A c \in Clients :
    (/\ client[c].phase = "evaluating"
     /\ thread[HandlerOf[c]].pc = "idle"
     /\ thread[HandlerOf[c]].result = "approve")
    => \E rule \in granted : Matches(rule, client[c].req)

\* What is on its way between the handler and the broker when nobody asks.
Quiet ==
  /\ asked = << >> /\ answers = << >>
  /\ broker.pc \in {"reading", "gone"}

\* The question of c is in the socket, with the user, answered, or lost.
Exchange(c) ==
  \/ asked = <<c>> /\ answers = << >> /\ broker.pc = "reading"
  \/ asked = << >> /\ answers = << >> /\ broker.pc = "prompting" /\ broker.client = c
  \/ /\ asked = << >> /\ answers = << >> /\ broker.pc = "saving" /\ broker.client = c
     /\ broker.policy = given[c] /\ given[c] \in Policies
  \/ /\ asked = << >> /\ broker.pc \in {"reading", "gone"}
     /\ answers = <<Wire[given[c]]>> /\ given[c] \in Policies
  \/ asked = << >> /\ answers = << >> /\ broker.pc = "gone"

ExchangeInv ==
  /\ (\A c \in Clients : client[c].phase # "asking") => Quiet
  /\ \A c \in Clients : client[c].phase = "asking" => Prompting /\ Exchange(c)

BrokerTyped ==
  /\ DOMAIN broker = {"pc", "client", "policy"}
  /\ DOMAIN given = Clients

\* The descriptors on their way are those of clients that have connected.
ControlTyped ==
  /\ control \in Seq(Clients)
  /\ \A i \in 1..Len(control) : client[control[i]].phase # "away"

ProxyInv ==
  /\ ManifestInv /\ GrantInv
  /\ ClientsTyped /\ ControlTyped /\ OneHandled /\ ApprovalInv /\ BrokerTyped /\ ExchangeInv
  /\ ForwardedByConsent

LEMMA OneElement ==
  ASSUME NEW x
  PROVE  /\ Append(<< >>, x) = <<x>> /\ Head(<<x>>) = x /\ Tail(<<x>>) = << >>
         /\ <<x>> # << >>
OBVIOUS

LEMMA WireIs ==
  ASSUME NEW policy \in Policies, Wire[policy] \in Consents
  PROVE  policy \in {"always", "ask"}
BY DEF Policies, Wire, Consents

LEMMA GotoIs ==
  ASSUME ClientsTyped, NEW c \in Clients, NEW phase \in Phases \ {"away"},
         client[c].phase # "away", Goto(c, phase)
  PROVE  /\ ClientsTyped'
         /\ client'[c].phase = phase /\ client'[c].req = client[c].req
         /\ client'[c].by = client[c].by
         /\ \A d \in Clients \ {c} : client'[d] = client[d]
<1>1. PICK rec : rec = [client[c] EXCEPT !.phase = phase]
  OBVIOUS
<1>2. /\ rec \in [phase : Phases, req : Asked \cup {NoRequest},
                  by : {"none", "manifest", "prompt"}]
      /\ rec.phase = phase /\ rec.req = client[c].req /\ rec.by = client[c].by
  BY <1>1 DEF ClientsTyped
<1>3. client' = [client EXCEPT ![c] = rec]
  BY <1>1 DEF Goto, ClientsTyped
<1>4. client'[c] = rec /\ \A d \in Clients \ {c} : client'[d] = client[d]
  BY <1>3 DEF ClientsTyped
<1>5. client' \in [Clients -> [phase : Phases, req : Asked \cup {NoRequest},
                               by : {"none", "manifest", "prompt"}]]
  BY <1>2, <1>3 DEF ClientsTyped
<1>. QED
  BY <1>2, <1>4, <1>5 DEF ClientsTyped

LEMMA DiesIs ==
  ASSUME ClientsTyped, NEW c \in Clients, client[c].phase # "away", Dies(c)
  PROVE  /\ ClientsTyped'
         /\ \A d \in Clients :
              \/ client'[d] = client[d] /\ d # c
              \/ /\ client'[d].phase = "closed" /\ client'[d].req = client[d].req
                 /\ d = c \/ (Prompting /\ client[d].phase \in Handled)
<1>1. \A d \in Clients :
        \/ client'[d] = client[d] /\ d # c
        \/ /\ client'[d] = [client[d] EXCEPT !.phase = "closed"]
           /\ d = c \/ (Prompting /\ client[d].phase \in Handled)
  BY DEF Dies
<1>2. \A d \in Clients : client[d].phase \in Handled => client[d].phase # "away"
  BY DEF Handled
<1>3. ASSUME NEW d \in Clients, NEW rec, rec = [client[d] EXCEPT !.phase = "closed"]
      PROVE  /\ rec \in [phase : Phases, req : Asked \cup {NoRequest},
                         by : {"none", "manifest", "prompt"}]
             /\ rec.phase = "closed" /\ rec.req = client[d].req
  BY <1>3 DEF ClientsTyped, Phases
<1>4. DOMAIN client' = Clients /\ client' = [d \in Clients |-> client'[d]]
  BY DEF Dies
<1>5. client' \in [Clients -> [phase : Phases, req : Asked \cup {NoRequest},
                               by : {"none", "manifest", "prompt"}]]
  BY <1>1, <1>3, <1>4 DEF ClientsTyped
<1>. QED
  BY <1>1, <1>2, <1>3, <1>5 DEF ClientsTyped

-----------------------------------------------------------------------------
(* One lemma per step, and one for the steps that only move a connection.  *)

LEMMA ManifestSame ==
  ASSUME UNCHANGED mvars, granted' = granted
  PROVE  (ManifestInv => ManifestInv') /\ (GrantInv => GrantInv')
BY DEF mvars, ManifestInv, NamesOK, FilesOK, ThreadsOK, HistoryOK, GrantInv, Consented

LEMMA GotoKeeps ==
  ASSUME ProxyInv, NEW c \in Clients,
         NEW phase \in {"recv", "deciding", "connecting", "tunnel", "closed"},
         client[c].phase \notin {"away", "asking"}, Goto(c, phase),
         \/ phase = "closed"
         \/ client[c].phase \in Handled
         \/ Prompting => \A d \in Clients : client[d].phase \notin Handled,
         phase \in {"connecting", "tunnel"} => client[c].phase \in {"connecting", "tunnel"},
         UNCHANGED <<mvars, broker, asked, answers, given, granted>>,
         control' = control \/ (control # << >> /\ control' = Tail(control))
  PROVE  ProxyInv'
<1>1. ManifestInv' /\ GrantInv'
  BY ManifestSame DEF ProxyInv
<1>2. /\ ClientsTyped'
      /\ client'[c].phase = phase /\ client'[c].req = client[c].req
      /\ client'[c].by = client[c].by
      /\ \A d \in Clients \ {c} : client'[d] = client[d]
  BY GotoIs DEF ProxyInv, Phases
<1>3. ControlTyped'
  <2>1. \A d \in Clients : client[d].phase # "away" => client'[d].phase # "away"
    BY <1>2
  <2>. QED
    BY <2>1 DEF ProxyInv, ControlTyped
<1>4. OneHandled'
  BY <1>2 DEF ProxyInv, OneHandled, Handled
<1>5. ApprovalInv'
  BY <1>2 DEF ProxyInv, ApprovalInv, mvars
<1>6. BrokerTyped' /\ ExchangeInv'
  BY <1>2 DEF ProxyInv, BrokerTyped, ExchangeInv, Exchange, Quiet
<1>7. ForwardedByConsent'
  BY <1>2 DEF ProxyInv, ForwardedByConsent
<1>. QED
  BY <1>1, <1>2, <1>3, <1>4, <1>5, <1>6, <1>7 DEF ProxyInv

LEMMA ConnectKeeps ==
  ASSUME ProxyInv, NEW c \in Clients, Connect(c)
  PROVE  ProxyInv'
<1>1. ManifestInv' /\ GrantInv'
  BY ManifestSame DEF ProxyInv, Connect
<1>2. PICK r \in Asked : client' = [client EXCEPT ![c].phase = "queued", ![c].req = r]
  BY DEF Connect
<1>3. PICK rec : rec = [client[c] EXCEPT !.phase = "queued", !.req = r]
  OBVIOUS
<1>4. /\ rec \in [phase : Phases, req : Asked \cup {NoRequest},
                  by : {"none", "manifest", "prompt"}]
      /\ rec.phase = "queued" /\ rec.req = r
  BY <1>3 DEF ProxyInv, ClientsTyped, Phases
<1>5. client' = [client EXCEPT ![c] = rec]
  BY <1>2, <1>3 DEF ProxyInv, ClientsTyped
<1>6. client'[c] = rec /\ \A d \in Clients \ {c} : client'[d] = client[d]
  BY <1>5 DEF ProxyInv, ClientsTyped
<1>7. ClientsTyped'
  BY <1>4, <1>5, <1>6 DEF ProxyInv, ClientsTyped
<1>8. ControlTyped'
  <2>1. \A d \in Clients : client[d].phase # "away" => client'[d].phase # "away"
    BY <1>4, <1>6
  <2>2. /\ control \in Seq(Clients) /\ control' = Append(control, c)
        /\ \A i \in 1..Len(control) : client[control[i]].phase # "away"
    BY DEF ProxyInv, ControlTyped, Connect
  <2>3. /\ control' \in Seq(Clients) /\ Len(control') = Len(control) + 1
        /\ control'[Len(control) + 1] = c
        /\ \A i \in 1..Len(control) : control'[i] = control[i] /\ control[i] \in Clients
    BY <2>2
  <2>4. client'[c].phase # "away" /\ Len(control) \in Nat
    BY <1>4, <1>6, <2>2
  <2>5. \A i \in 1..Len(control') : i \in 1..Len(control) \/ i = Len(control) + 1
    BY <2>3, <2>4
  <2>. QED
    BY <2>1, <2>2, <2>3, <2>4, <2>5 DEF ControlTyped
<1>9. OneHandled'
  BY <1>4, <1>6 DEF ProxyInv, OneHandled, Handled
<1>10. ApprovalInv'
  BY <1>4, <1>6 DEF ProxyInv, ApprovalInv, mvars, Connect
<1>11. BrokerTyped' /\ ExchangeInv'
  BY <1>4, <1>6 DEF ProxyInv, BrokerTyped, ExchangeInv, Exchange, Quiet, Connect
<1>12. ForwardedByConsent'
  BY <1>4, <1>6 DEF ProxyInv, ForwardedByConsent, Connect
<1>. QED
  BY <1>1, <1>7, <1>8, <1>9, <1>10, <1>11, <1>12 DEF ProxyInv

LEMMA AcceptKeeps ==
  ASSUME ProxyInv, Accept
  PROVE  ProxyInv'
<1>1. control \in Seq(Clients) /\ control # << >>
  BY DEF ProxyInv, ControlTyped, Accept
<1>2. Head(control) = control[1] /\ 1 \in 1..Len(control)
  BY <1>1
<1>3. PICK c \in Clients : c = Head(control) /\ client[c].phase # "away"
  BY <1>1, <1>2 DEF ProxyInv, ControlTyped
<1>4. /\ Goto(c, "recv") /\ control' = Tail(control)
      /\ Prompting => \A d \in Clients : client[d].phase \notin Handled
      /\ UNCHANGED <<mvars, broker, asked, answers, given, granted>>
  BY <1>3 DEF Accept
<1>5. client[c].phase # "asking"
  BY <1>4 DEF ProxyInv, ExchangeInv, Handled, Phases
<1>. QED
  BY <1>1, <1>3, <1>4, <1>5, GotoKeeps

\* A handler dies of SIGPIPE, before it has asked or after it was answered.
LEMMA DiesKeeps ==
  ASSUME ProxyInv, NEW c \in Clients, client[c].phase \in Handled \ {"asking"}, Dies(c),
         UNCHANGED <<mvars, control, broker, asked, answers, given, granted>>
  PROVE  ProxyInv'
<1>1. ManifestInv' /\ GrantInv'
  BY ManifestSame DEF ProxyInv
<1>2. client[c].phase # "away" /\ "closed" \notin Handled
  BY DEF Handled
<1>3. /\ ClientsTyped'
      /\ \A d \in Clients :
           \/ client'[d] = client[d] /\ d # c
           \/ /\ client'[d].phase = "closed" /\ client'[d].req = client[d].req
              /\ d = c \/ (Prompting /\ client[d].phase \in Handled)
  BY <1>2, DiesIs DEF ProxyInv
<1>4. \A d \in Clients :
        client'[d] = client[d] \/ (d = c /\ client'[d].phase = "closed")
  BY <1>3 DEF ProxyInv, OneHandled
<1>5. ControlTyped'
  BY <1>4 DEF ProxyInv, ControlTyped
<1>6. OneHandled'
  BY <1>2, <1>4 DEF ProxyInv, OneHandled
<1>7. ApprovalInv'
  BY <1>4 DEF ProxyInv, ApprovalInv, mvars
<1>8. BrokerTyped' /\ ExchangeInv'
  BY <1>4 DEF ProxyInv, BrokerTyped, ExchangeInv, Exchange, Quiet
<1>9. ForwardedByConsent'
  BY <1>4 DEF ProxyInv, ForwardedByConsent
<1>. QED
  BY <1>1, <1>3, <1>5, <1>6, <1>7, <1>8, <1>9 DEF ProxyInv

LEMMA ReceiveKeeps ==
  ASSUME ProxyInv, NEW c \in Clients, Receive(c)
  PROVE  ProxyInv'
<1>0. /\ client[c].phase = "recv" /\ client[c].phase \in Handled
      /\ UNCHANGED <<mvars, control, broker, answers, given, granted>>
  BY DEF Receive, Handled, Phases
<1>1. CASE Dies(c) /\ UNCHANGED asked
  BY <1>0, <1>1, DiesKeeps
<1>2. CASE Goto(c, "deciding") /\ UNCHANGED asked
  BY <1>0, <1>2, GotoKeeps
<1>3. CASE /\ Prompting /\ broker.pc # "gone"
           /\ Goto(c, "asking") /\ asked' = Append(asked, c)
  <2>1. ManifestInv' /\ GrantInv'
    BY <1>0, ManifestSame DEF ProxyInv
  <2>2. /\ ClientsTyped'
        /\ client'[c].phase = "asking"
        /\ \A d \in Clients \ {c} : client'[d] = client[d]
    BY <1>0, <1>3, GotoIs DEF ProxyInv, Phases
  <2>3. \A d \in Clients \ {c} : client[d].phase \notin Handled
    BY <1>0, <1>3 DEF ProxyInv, OneHandled
  <2>4. "asking" \in Handled
    BY DEF Handled, Phases
  <2>5. Quiet
    BY <1>0, <2>3, <2>4 DEF ProxyInv, ExchangeInv
  <2>6. asked' = <<c>> /\ answers' = << >> /\ broker'.pc = "reading"
    BY <1>0, <1>3, <2>5, OneElement DEF Quiet
  <2>7. ExchangeInv'
    <3>1. Exchange(c)'
      BY <2>6 DEF Exchange
    <3>2. \A d \in Clients : client'[d].phase = "asking" => d = c
      BY <2>2, <2>3, <2>4
    <3>. QED
      BY <1>3, <2>2, <3>1, <3>2 DEF ExchangeInv
  <2>8. ControlTyped'
    BY <1>0, <2>2 DEF ProxyInv, ControlTyped
  <2>9. OneHandled'
    BY <2>2, <2>3 DEF OneHandled
  <2>10. ApprovalInv'
    BY <1>0, <2>2 DEF ProxyInv, ApprovalInv, mvars
  <2>11. ForwardedByConsent'
    BY <1>0, <2>2 DEF ProxyInv, ForwardedByConsent
  <2>12. BrokerTyped'
    BY <1>0 DEF ProxyInv, BrokerTyped
  <2>. QED
    BY <2>1, <2>2, <2>7, <2>8, <2>9, <2>10, <2>11, <2>12 DEF ProxyInv
<1>. QED
  BY <1>1, <1>2, <1>3 DEF Receive

LEMMA DecideKeeps ==
  ASSUME ProxyInv, NEW c \in Clients, Decide(c)
  PROVE  ProxyInv'
<1>. DEFINE r == client[c].req
<1>0. /\ client[c].phase = "deciding" /\ client[c].phase \in Handled
      /\ UNCHANGED <<control, broker, asked, answers, given, granted>>
  BY DEF Decide, Handled, Phases
<1>1. HandlerOf[c] \in Threads /\ r \in AccessRequest /\ Evaluate(HandlerOf[c], r)
  BY <1>0, ProxyAssumption, ManifestAssumption DEF Decide, ProxyInv, ClientsTyped
<1>. HIDE DEF r
<1>2. ManifestInv'
  BY <1>1, EvaluateKeeps DEF ProxyInv
<1>3. /\ GrantInv'
      /\ \A u \in Threads \ {HandlerOf[c]} : thread'[u] = thread[u]
      /\ thread'[HandlerOf[c]].pc = "idle" /\ thread'[HandlerOf[c]].result = "approve"
           => \E rule \in granted : Matches(rule, r)
  BY <1>0, <1>1, EvaluateKeepsGrants DEF ProxyInv
<1>4. /\ ClientsTyped'
      /\ client'[c].phase = "evaluating" /\ client'[c].req = r
      /\ \A d \in Clients \ {c} : client'[d] = client[d]
  BY <1>0, GotoIs DEF ProxyInv, Phases, Decide, r
<1>5. ASSUME NEW d \in Clients \ {c}, client[d].phase = "evaluating"
      PROVE  HandlerOf[d] \in Threads \ {HandlerOf[c]}
  <2>1. "evaluating" \in Handled
    BY DEF Handled, Phases
  <2>. QED
    BY <1>0, <1>5, <2>1, ProxyAssumption DEF ProxyInv, OneHandled
<1>6. ApprovalInv'
  <2>1. ASSUME NEW d \in Clients, client'[d].phase = "evaluating",
               thread'[HandlerOf[d]].pc = "idle", thread'[HandlerOf[d]].result = "approve"
        PROVE  \E rule \in granted' : Matches(rule, client'[d].req)
    <3>1. CASE d = c
      BY <1>0, <1>3, <1>4, <2>1, <3>1
    <3>2. CASE d # c
      BY <1>0, <1>3, <1>4, <1>5, <2>1, <3>2 DEF ProxyInv, ApprovalInv
    <3>. QED
      BY <3>1, <3>2
  <2>. QED
    BY <2>1 DEF ApprovalInv
<1>7. ControlTyped'
  BY <1>0, <1>4 DEF ProxyInv, ControlTyped
<1>8. OneHandled'
  BY <1>0, <1>4 DEF ProxyInv, OneHandled
<1>9. BrokerTyped' /\ ExchangeInv'
  BY <1>0, <1>4 DEF ProxyInv, BrokerTyped, ExchangeInv, Exchange, Quiet
<1>10. ForwardedByConsent'
  BY <1>0, <1>4 DEF ProxyInv, ForwardedByConsent
<1>. QED
  BY <1>2, <1>3, <1>4, <1>6, <1>7, <1>8, <1>9, <1>10 DEF ProxyInv

\* The connection of c is forwarded, and it may be.
LEMMA ForwardKeeps ==
  ASSUME ProxyInv, NEW c \in Clients, NEW by \in {"manifest", "prompt"},
         client[c].phase \in Handled,
         client' = [client EXCEPT ![c].phase = "connecting", ![c].by = by],
         \/ by = "prompt" /\ given[c] \in {"always", "ask"}
         \/ by = "manifest" /\ \E rule \in granted : Matches(rule, client[c].req),
         UNCHANGED <<mvars, control, given, granted>>,
         BrokerTyped', ExchangeInv'
  PROVE  ProxyInv'
<1>1. ManifestInv' /\ GrantInv'
  BY ManifestSame DEF ProxyInv
<1>2. PICK rec : rec = [client[c] EXCEPT !.phase = "connecting", !.by = by]
  OBVIOUS
<1>3. /\ rec \in [phase : Phases, req : Asked \cup {NoRequest},
                  by : {"none", "manifest", "prompt"}]
      /\ rec.phase = "connecting" /\ rec.req = client[c].req /\ rec.by = by
  BY <1>2 DEF ProxyInv, ClientsTyped, Phases
<1>4. client' = [client EXCEPT ![c] = rec]
  BY <1>2 DEF ProxyInv, ClientsTyped
<1>5. client'[c] = rec /\ \A d \in Clients \ {c} : client'[d] = client[d]
  BY <1>4 DEF ProxyInv, ClientsTyped
<1>6. client[c].phase # "away"
  BY DEF Handled
<1>7. ClientsTyped'
  BY <1>3, <1>4, <1>5, <1>6 DEF ProxyInv, ClientsTyped
<1>8. ControlTyped'
  <2>1. \A d \in Clients : client[d].phase # "away" => client'[d].phase # "away"
    BY <1>3, <1>5
  <2>2. /\ control \in Seq(Clients) /\ control' = control
        /\ \A i \in 1..Len(control) : control[i] \in Clients /\ client[control[i]].phase # "away"
    BY DEF ProxyInv, ControlTyped
  <2>3. \A i \in 1..Len(control) : client'[control[i]].phase # "away"
    BY <2>1, <2>2
  <2>. QED
    BY <2>2, <2>3 DEF ControlTyped
<1>9. OneHandled'
  BY <1>3, <1>5 DEF ProxyInv, OneHandled
<1>10. ApprovalInv'
  BY <1>3, <1>5 DEF ProxyInv, ApprovalInv, mvars
<1>11. ForwardedByConsent'
  BY <1>3, <1>5 DEF ProxyInv, ForwardedByConsent
<1>. QED
  BY <1>1, <1>7, <1>8, <1>9, <1>10, <1>11 DEF ProxyInv

LEMMA EvaluatedKeeps ==
  ASSUME ProxyInv, NEW c \in Clients, Evaluated(c)
  PROVE  ProxyInv'
<1>0. /\ client[c].phase = "evaluating" /\ client[c].phase \in Handled
      /\ UNCHANGED <<mvars, control, broker, asked, answers, given, granted>>
  BY DEF Evaluated, Handled, Phases
<1>1. CASE thread[HandlerOf[c]].result = "approve"
  <2>1. client' = [client EXCEPT ![c].phase = "connecting", ![c].by = "manifest"]
    BY <1>1 DEF Evaluated
  <2>2. \E rule \in granted : Matches(rule, client[c].req)
    BY <1>0, <1>1 DEF Evaluated, Idle, ProxyInv, ApprovalInv
  <2>3. \A d \in Clients : client'[d].phase = client[d].phase
                          \/ (d = c /\ client'[d].phase = "connecting")
    BY <2>1 DEF ProxyInv, ClientsTyped
  <2>4. BrokerTyped' /\ ExchangeInv'
    BY <1>0, <2>3 DEF ProxyInv, BrokerTyped, ExchangeInv, Exchange, Quiet
  <2>. QED
    BY <1>0, <2>1, <2>2, <2>4, ForwardKeeps
<1>2. CASE thread[HandlerOf[c]].result # "approve"
  BY <1>0, <1>2, GotoKeeps DEF Evaluated
<1>. QED
  BY <1>1, <1>2

\* request_broker_decision: the answer that c reads is the one given about c.
LEMMA AnswerIs ==
  ASSUME ProxyInv, NEW c \in Clients, ReadAnswer(c)
  PROVE  /\ Prompting
         /\ \A d \in Clients : client[d].phase \in Handled => d = c
         /\ asked = << >> /\ broker.pc \in {"reading", "gone"} /\ answers' = << >>
         /\ answers # << >> /\ Head(answers) \in Consents => given[c] \in {"always", "ask"}
<1>0. client[c].phase = "asking" /\ client[c].phase \in Handled
  BY DEF ReadAnswer, Handled, Phases
<1>1. Prompting /\ Exchange(c)
  BY <1>0 DEF ProxyInv, ExchangeInv
<1>2. \A d \in Clients : client[d].phase \in Handled => d = c
  BY <1>0, <1>1 DEF ProxyInv, OneHandled
<1>3. CASE answers = << >>
  BY <1>1, <1>2, <1>3, OneElement DEF ReadAnswer, Exchange
<1>4. CASE answers # << >>
  <2>1. /\ asked = << >> /\ broker.pc \in {"reading", "gone"}
        /\ answers = <<Wire[given[c]]>> /\ given[c] \in Policies
    BY <1>1, <1>4 DEF Exchange
  <2>2. answers' = Tail(answers)
    BY <1>4 DEF ReadAnswer
  <2>3. Head(answers) = Wire[given[c]] /\ answers' = << >>
    BY <2>1, <2>2, OneElement
  <2>. QED
    BY <1>1, <1>2, <2>1, <2>3, WireIs
<1>. QED
  BY <1>3, <1>4

LEMMA ReadAnswerKeeps ==
  ASSUME ProxyInv, NEW c \in Clients, ReadAnswer(c)
  PROVE  ProxyInv'
<1>0. /\ client[c].phase = "asking" /\ client[c].phase \in Handled
      /\ "asking" \in Handled /\ client[c].phase # "away"
      /\ UNCHANGED <<mvars, control, broker, asked, given, granted>>
  BY DEF ReadAnswer, Handled, Phases
<1>1. /\ \A d \in Clients \ {c} : client[d].phase # "asking"
      /\ Quiet'
      /\ answers # << >> /\ Head(answers) \in Consents => given[c] \in {"always", "ask"}
  BY <1>0, AnswerIs DEF Quiet
<1>2. BrokerTyped'
  BY <1>0 DEF ProxyInv, BrokerTyped
<1>3. CASE answers # << >> /\ Head(answers) \in Consents
  <2>1. client' = [client EXCEPT ![c].phase = "connecting", ![c].by = "prompt"]
    BY <1>3 DEF ReadAnswer
  <2>2. \A d \in Clients : client'[d].phase # "asking"
    BY <1>1, <2>1 DEF ProxyInv, ClientsTyped
  <2>3. ExchangeInv'
    BY <1>1, <2>2 DEF ExchangeInv
  <2>. QED
    BY <1>0, <1>1, <1>2, <1>3, <2>1, <2>3, ForwardKeeps
<1>4. CASE ~(answers # << >> /\ Head(answers) \in Consents)
  <2>0. Goto(c, "closed")
    BY <1>4 DEF ReadAnswer
  <2>1. ManifestInv' /\ GrantInv'
    BY <1>0, ManifestSame DEF ProxyInv
  <2>2. /\ ClientsTyped'
        /\ client'[c].phase = "closed" /\ client'[c].req = client[c].req
        /\ \A d \in Clients \ {c} : client'[d] = client[d]
    BY <1>0, <2>0, GotoIs DEF ProxyInv, Phases
  <2>3. ControlTyped'
    <3>1. \A d \in Clients : client[d].phase # "away" => client'[d].phase # "away"
      BY <2>2
    <3>. QED
      BY <1>0, <3>1 DEF ProxyInv, ControlTyped
  <2>4. OneHandled'
    BY <1>0, <2>2 DEF ProxyInv, OneHandled
  <2>5. ApprovalInv'
    BY <1>0, <2>2 DEF ProxyInv, ApprovalInv, mvars
  <2>6. ExchangeInv'
    BY <1>1, <2>2 DEF ExchangeInv
  <2>7. ForwardedByConsent'
    BY <1>0, <2>2 DEF ProxyInv, ForwardedByConsent
  <2>. QED
    BY <1>2, <2>1, <2>2, <2>3, <2>4, <2>5, <2>6, <2>7 DEF ProxyInv
<1>. QED
  BY <1>3, <1>4

\* The steps that move no connection.
LEMMA ElsewhereKeeps ==
  ASSUME ProxyInv, UNCHANGED <<client, control>>, granted \subseteq granted',
         \A d \in Clients : given'[d] = given[d] \/ client[d].phase = "asking",
         ManifestInv', GrantInv', ApprovalInv', BrokerTyped', ExchangeInv'
  PROVE  ProxyInv'
<1>1. ClientsTyped' /\ ControlTyped' /\ OneHandled'
  BY DEF ProxyInv, ClientsTyped, ControlTyped, OneHandled
<1>2. ForwardedByConsent'
  BY DEF ProxyInv, ForwardedByConsent
<1>. QED
  BY <1>1, <1>2 DEF ProxyInv

LEMMA SettlesKeepsApproval ==
  ASSUME ProxyInv, Settles, UNCHANGED <<client, granted>>
  PROVE  ApprovalInv'
<1>1. \A c \in Clients : HandlerOf[c] \in Threads
  BY ProxyAssumption
<1>. QED
  BY <1>1 DEF ProxyInv, ApprovalInv, Settles

\* While the broker is at work there is one client that asks.
LEMMA BrokerServes ==
  ASSUME ProxyInv, broker.pc \notin {"reading", "gone"} \/ asked # << >>
  PROVE  \E c \in Clients : /\ client[c].phase = "asking" /\ Prompting /\ Exchange(c)
                           /\ \A d \in Clients : client[d].phase = "asking" => d = c
<1>1. PICK c \in Clients : client[c].phase = "asking"
  BY DEF ProxyInv, ExchangeInv, Quiet
<1>2. Prompting /\ Exchange(c)
  BY <1>1 DEF ProxyInv, ExchangeInv
<1>3. "asking" \in Handled
  BY DEF Handled, Phases
<1>. QED
  BY <1>1, <1>2, <1>3 DEF ProxyInv, OneHandled

LEMMA BrokerReadsKeeps ==
  ASSUME ProxyInv, BrokerReads
  PROVE  ProxyInv'
<1>1. PICK c \in Clients : /\ client[c].phase = "asking" /\ Prompting /\ Exchange(c)
                          /\ \A d \in Clients : client[d].phase = "asking" => d = c
  BY BrokerServes DEF BrokerReads
<1>2. asked = <<c>> /\ answers = << >>
  BY <1>1 DEF BrokerReads, Exchange
<1>3. PICK b : b = [pc |-> "prompting", client |-> Head(asked), policy |-> "none"]
  OBVIOUS
<1>4. broker' = b /\ b.pc = "prompting" /\ b.client = c /\ asked' = << >> /\ answers' = << >>
      /\ DOMAIN b = {"pc", "client", "policy"}
  BY <1>2, <1>3, OneElement DEF BrokerReads
<1>5. Exchange(c)'
  BY <1>4 DEF Exchange
<1>6. ExchangeInv' /\ BrokerTyped'
  BY <1>1, <1>4, <1>5 DEF ExchangeInv, BrokerReads, BrokerTyped, ProxyInv
<1>7. ManifestInv' /\ GrantInv' /\ ApprovalInv'
  BY ManifestSame DEF BrokerReads, ProxyInv, ApprovalInv, mvars
<1>. QED
  BY <1>6, <1>7, ElsewhereKeeps DEF BrokerReads

\* The user has answered, or the prompt has failed.
LEMMA AnsweredKeeps ==
  ASSUME ProxyInv, broker.pc = "prompting", NEW policy \in Policies,
         broker' = [broker EXCEPT !.pc = "saving", !.policy = policy],
         given' = [given EXCEPT ![broker.client] = policy],
         UNCHANGED <<client, control, asked, answers>>, granted \subseteq granted',
         ManifestInv', GrantInv', ApprovalInv'
  PROVE  ProxyInv'
<1>1. PICK c \in Clients : /\ client[c].phase = "asking" /\ Prompting /\ Exchange(c)
                          /\ \A d \in Clients : client[d].phase = "asking" => d = c
  BY BrokerServes
<1>2. asked = << >> /\ answers = << >> /\ broker.client = c
  BY <1>1 DEF Exchange
<1>3. /\ broker'.pc = "saving" /\ broker'.client = c /\ broker'.policy = policy
      /\ DOMAIN broker' = {"pc", "client", "policy"}
  BY <1>2 DEF ProxyInv, BrokerTyped
<1>4. DOMAIN given' = Clients /\ given'[c] = policy /\ \A d \in Clients \ {c} : given'[d] = given[d]
  BY <1>2 DEF ProxyInv, BrokerTyped
<1>5. Exchange(c)'
  BY <1>2, <1>3, <1>4 DEF Exchange
<1>6. ExchangeInv' /\ BrokerTyped'
  BY <1>1, <1>3, <1>4, <1>5 DEF ExchangeInv, BrokerTyped
<1>. QED
  BY <1>1, <1>4, <1>6, ElsewhereKeeps

LEMMA BrokerChoosesKeeps ==
  ASSUME ProxyInv, BrokerChooses
  PROVE  ProxyInv'
<1>1. PICK c \in Clients : /\ client[c].phase = "asking" /\ Prompting /\ Exchange(c)
                          /\ \A d \in Clients : client[d].phase = "asking" => d = c
  BY BrokerServes DEF BrokerChooses
<1>2. broker.client = c
  BY <1>1 DEF Exchange, BrokerChooses
<1>3. PICK policy \in Choices :
        /\ ApplyPolicy(Cli, client[c].req, policy, NoRequest)
        /\ broker' = [broker EXCEPT !.pc = "saving", !.policy = policy]
        /\ given' = [given EXCEPT ![broker.client] = policy]
        /\ granted' = IF policy = "always" THEN granted \cup {client[c].req} ELSE granted
  BY <1>2 DEF BrokerChooses
<1>4. policy \in Policies /\ client[c].req \in Rule /\ Cli \in Threads
  BY <1>1, ProxyAssumption, ManifestAssumption, AskedAreRules DEF ProxyInv, ClientsTyped
<1>5. ManifestInv'
  BY <1>3, <1>4, ApplyKeeps DEF ProxyInv
<1>6. /\ GrantInv'
      /\ \A u \in Threads : thread'[u].pc = "idle" /\ thread'[u].result = "approve"
           => thread'[u] = thread[u] /\ u # Cli
  BY <1>3, <1>4, ApplyKeepsGrants DEF ProxyInv
<1>7. granted \subseteq granted'
  BY <1>3
<1>8. ApprovalInv'
  <2>1. \A d \in Clients : HandlerOf[d] \in Threads
    BY ProxyAssumption
  <2>. QED
    BY <1>6, <1>7, <2>1 DEF ProxyInv, ApprovalInv, BrokerChooses
<1>. QED
  BY <1>3, <1>4, <1>5, <1>6, <1>7, <1>8, AnsweredKeeps DEF BrokerChooses

LEMMA PromptFailsKeeps ==
  ASSUME ProxyInv, PromptFails
  PROVE  ProxyInv'
<1>1. ManifestInv' /\ GrantInv' /\ ApprovalInv'
  BY ManifestSame DEF PromptFails, ProxyInv, ApprovalInv, mvars
<1>2. "never" \in Policies
  BY DEF Policies
<1>. QED
  BY <1>1, <1>2, AnsweredKeeps DEF PromptFails

LEMMA BrokerRepliesKeeps ==
  ASSUME ProxyInv, BrokerReplies
  PROVE  ProxyInv'
<1>1. PICK c \in Clients : /\ client[c].phase = "asking" /\ Prompting /\ Exchange(c)
                          /\ \A d \in Clients : client[d].phase = "asking" => d = c
  BY BrokerServes DEF BrokerReplies
<1>2. /\ asked = << >> /\ answers = << >> /\ broker.policy = given[c] /\ given[c] \in Policies
  BY <1>1 DEF BrokerReplies, Exchange
<1>3. answers' = <<Wire[given[c]]>> /\ asked' = << >> /\ given' = given
  BY <1>2, OneElement DEF BrokerReplies
<1>4. PICK b : b = [pc |-> "reading", client |-> NoRequest, policy |-> "none"]
  OBVIOUS
<1>5. broker' = b /\ b.pc = "reading" /\ DOMAIN b = {"pc", "client", "policy"}
  BY <1>4 DEF BrokerReplies
<1>6. Exchange(c)'
  BY <1>2, <1>3, <1>5 DEF Exchange
<1>7. ExchangeInv' /\ BrokerTyped'
  BY <1>1, <1>3, <1>5, <1>6 DEF ExchangeInv, BrokerReplies, BrokerTyped, ProxyInv
<1>8. ManifestInv' /\ GrantInv' /\ ApprovalInv'
  BY ManifestSame DEF BrokerReplies, ProxyInv, ApprovalInv, mvars
<1>. QED
  BY <1>7, <1>8, ElsewhereKeeps DEF BrokerReplies

LEMMA BrokerDiesKeeps ==
  ASSUME ProxyInv, BrokerDies
  PROVE  ProxyInv'
<1>1. Killed(ProcessOf[Cli]) /\ ProcessOf[Cli] \in Processes
  BY ProxyAssumption, ManifestAssumption DEF BrokerDies
<1>2. ManifestInv' /\ Settles
  BY <1>1, KillKeeps, KillSettles DEF ProxyInv
<1>3. GrantInv' /\ ApprovalInv'
  BY <1>2, SettlesKeepsGrants, SettlesKeepsApproval DEF BrokerDies, ProxyInv
<1>4. PICK b : b = [pc |-> "gone", client |-> NoRequest, policy |-> "none"]
  OBVIOUS
<1>5. /\ broker' = b /\ b.pc = "gone" /\ DOMAIN b = {"pc", "client", "policy"}
      /\ asked' = << >>
  BY <1>4 DEF BrokerDies
<1>6. Quiet => Quiet'
  BY <1>5 DEF Quiet, BrokerDies
<1>7. ASSUME NEW c \in Clients, Exchange(c)
      PROVE  Exchange(c)'
  BY <1>5, <1>7 DEF Exchange, BrokerDies
<1>8. ExchangeInv' /\ BrokerTyped'
  BY <1>5, <1>6, <1>7 DEF ExchangeInv, BrokerDies, BrokerTyped, ProxyInv
<1>. QED
  BY <1>2, <1>3, <1>8, ElsewhereKeeps DEF BrokerDies

LEMMA WriteStepKeeps ==
  ASSUME ProxyInv, NEW t \in Threads, WriteStep(t)
  PROVE  ProxyInv'
<1>1. OpenTmp(t) \/ WriteTmp(t) \/ WriteFails(t) \/ Rename(t)
  BY DEF WriteStep
<1>2. ManifestInv' /\ Settles
  BY <1>1, WriterKeeps, WriterSettles DEF ProxyInv
<1>3. GrantInv' /\ ApprovalInv'
  BY <1>2, SettlesKeepsGrants, SettlesKeepsApproval DEF WriteStep, pvars, ProxyInv
<1>4. ExchangeInv' /\ BrokerTyped'
  BY DEF WriteStep, pvars, ProxyInv, ExchangeInv, Exchange, Quiet, BrokerTyped
<1>. QED
  BY <1>2, <1>3, <1>4, ElsewhereKeeps DEF WriteStep, pvars

LEMMA EditKeeps ==
  ASSUME ProxyInv, NEW t \in Editors, EditMeanwhile(t)
  PROVE  ProxyInv'
<1>1. PICK rule \in Rules, policy \in Choices :
        /\ ApplyPolicy(t, rule, policy, NoRequest)
        /\ granted' = IF policy = "always" THEN granted \cup {rule} ELSE granted
  BY DEF EditMeanwhile
<1>2. policy \in Policies /\ rule \in Rule /\ t \in Threads
  BY ProxyAssumption, ManifestAssumption
<1>3. ManifestInv'
  BY <1>1, <1>2, ApplyKeeps DEF ProxyInv
<1>4. /\ GrantInv'
      /\ \A u \in Threads : thread'[u].pc = "idle" /\ thread'[u].result = "approve"
           => thread'[u] = thread[u] /\ u # t
  BY <1>1, <1>2, ApplyKeepsGrants DEF ProxyInv
<1>5. granted \subseteq granted'
  BY <1>1
<1>6. ApprovalInv'
  <2>1. \A d \in Clients : HandlerOf[d] \in Threads
    BY ProxyAssumption
  <2>. QED
    BY <1>4, <1>5, <2>1 DEF ProxyInv, ApprovalInv, EditMeanwhile
<1>7. ExchangeInv' /\ BrokerTyped'
  BY DEF EditMeanwhile, ProxyInv, ExchangeInv, Exchange, Quiet, BrokerTyped
<1>. QED
  BY <1>3, <1>4, <1>5, <1>6, <1>7, ElsewhereKeeps DEF EditMeanwhile

LEMMA ProxyInit == PInit => ProxyInv
<1>. SUFFICES ASSUME PInit PROVE ProxyInv
  OBVIOUS
<1>1. ManifestInv
  BY InvInit DEF PInit
<1>2. GrantInv
  <2>1. /\ \A i \in Inodes : file[i] = Truncated
        /\ \A t \in Threads : thread[t] = NoOperation
    BY DEF PInit, Init
  <2>. QED
    BY <2>1, NoOperationIs, EmptyConsented DEF GrantInv
<1>3. \A c \in Clients : client[c] = NoClient
  BY DEF PInit
<1>4. NoClient \in [phase : Phases, req : Asked \cup {NoRequest},
                   by : {"none", "manifest", "prompt"}]
      /\ NoClient.phase = "away"
  BY DEF NoClient, Phases
<1>5. ClientsTyped
  BY <1>3, <1>4 DEF PInit, ClientsTyped
<1>6. ControlTyped /\ BrokerTyped
  BY DEF PInit, ControlTyped, BrokerTyped
<1>7. OneHandled /\ ApprovalInv /\ ForwardedByConsent
  BY <1>3, <1>4 DEF OneHandled, ApprovalInv, ForwardedByConsent, Handled
<1>8. ExchangeInv
  <2>1. Quiet
    BY DEF PInit, Quiet
  <2>. QED
    BY <1>3, <1>4, <2>1 DEF ExchangeInv
<1>. QED
  BY <1>1, <1>2, <1>5, <1>6, <1>7, <1>8 DEF ProxyInv

LEMMA ProxyNext == ProxyInv /\ [PNext]_allvars => ProxyInv'
<1>. SUFFICES ASSUME ProxyInv, [PNext]_allvars PROVE ProxyInv'
  OBVIOUS
<1>1. ASSUME NEW c \in Clients, ReceiveNothing(c) PROVE ProxyInv'
  BY <1>1, GotoKeeps DEF ReceiveNothing
<1>2. ASSUME NEW c \in Clients, ConnectUpstream(c) PROVE ProxyInv'
  BY <1>2, GotoKeeps DEF ConnectUpstream, Handled, Phases
<1>3. ASSUME NEW c \in Clients, UpstreamFails(c) PROVE ProxyInv'
  BY <1>3, GotoKeeps DEF UpstreamFails
<1>4. ASSUME NEW c \in Clients, TunnelEnds(c) PROVE ProxyInv'
  BY <1>4, GotoKeeps DEF TunnelEnds
<1>5. ASSUME NEW c \in Clients, TunnelBreaks(c) PROVE ProxyInv'
  BY <1>5, DiesKeeps DEF TunnelBreaks, Handled, Phases
<1>6. ASSUME NEW c \in Clients, HandlerStep(c) PROVE ProxyInv'
  BY <1>2, <1>3, <1>6, ReceiveKeeps, DecideKeeps, EvaluatedKeeps, ReadAnswerKeeps
  DEF HandlerStep
<1>7. CASE BrokerStep
  BY <1>7, BrokerReadsKeeps, BrokerChoosesKeeps, PromptFailsKeeps, BrokerRepliesKeeps
  DEF BrokerStep
<1>8. CASE UNCHANGED allvars
  <2>1. UNCHANGED mvars /\ UNCHANGED pvars
    BY <1>8 DEF allvars
  <2>2. ManifestInv' /\ GrantInv'
    BY <2>1, ManifestSame DEF ProxyInv, pvars
  <2>3. ApprovalInv' /\ BrokerTyped' /\ ExchangeInv'
    BY <2>1 DEF ProxyInv, mvars, pvars, ApprovalInv, BrokerTyped, ExchangeInv, Exchange, Quiet
  <2>. QED
    BY <2>1, <2>2, <2>3, ElsewhereKeeps DEF pvars
<1>. QED
  BY <1>1, <1>4, <1>5, <1>6, <1>7, <1>8, ConnectKeeps, AcceptKeeps, BrokerDiesKeeps,
     WriteStepKeeps, EditKeeps
  DEF PNext

(***************************************************************************)
(* Nothing leaves the sandbox without consent, for any number of           *)
(* connections, handlers and editors, with or without a broker, whoever is *)
(* killed when: a connection is forwarded because the user approved this   *)
(* very connection, or because a rule that was once given always covers    *)
(* its request (handle_client, request_broker_decision and                 *)
(* bubblehub_access_evaluate).                                             *)
(***************************************************************************)
THEOREM ForwardingNeedsConsent == PSpec => []ForwardedByConsent
<1>1. ProxyInv => ForwardedByConsent
  BY DEF ProxyInv
<1>. QED
  BY <1>1, ProxyInit, ProxyNext, PTL DEF PSpec

=============================================================================
