--------------------------- MODULE AccessManifest ----------------------------
(***************************************************************************)
(* The manifest file of one sandbox and the threads that read and replace  *)
(* it (libbubble/access_policy.c): the HTTP proxies evaluate requests, the *)
(* prompt of bubble run, bubble manifest, bubble dashboard and the control *)
(* API apply policies, --force-new-sandbox and the deletion of an agent    *)
(* remove the file.                                                        *)
(*                                                                         *)
(* No lock is held over an operation.  It loads the file, changes its own  *)
(* copy, writes the copy to <manifest>.tmp.<pid>, a name that the threads  *)
(* of a process share, and renames that.  The file system is modelled down *)
(* to inodes, because a thread that still has the temporary file open may  *)
(* write to what another one has already renamed.                          *)
(***************************************************************************)
EXTENDS AccessPolicy

CONSTANTS
  Threads, Processes, ProcessOf,  \* the threads and their processes
  Rules,        \* the rules that are given policies by hand
  Asked,        \* the requests that are evaluated
  Choices,      \* the policies that are chosen
  Inodes, NoInode,
  NoRequest, Truncated

ASSUME ManifestAssumption ==
  /\ ProcessOf \in [Threads -> Processes]
  /\ Asked \subseteq AccessRequest
  /\ Rules \subseteq Rule
  /\ Choices \subseteq Policies
  /\ NoInode \notin Inodes
  /\ NoRequest \notin AccessRequest
  /\ Truncated \notin Manifest
  \* There is always an inode to allocate.
  /\ IsFiniteSet(Inodes) /\ IsFiniteSet(Processes) /\ IsFiniteSet(Threads)
  /\ Cardinality(Inodes) > 1 + Cardinality(Processes) + Cardinality(Threads)

VARIABLES
  path,      \* the inode of access-manifest.json
  tmp,       \* process -> the inode of its temporary file
  file,      \* inode -> its content
  thread,    \* what every thread is doing
  saved,     \* history: rule -> the policy last reported as saved for it
  resolved   \* history: request -> what the dashboard last decided for it

mvars == <<path, tmp, file, thread, saved, resolved>>

Inode == Inodes \cup {NoInode}

Operation == [pc : {"idle", "open", "write", "rename"},
              kind : {"none", "apply", "evaluate"},
              rule : Rule,
              policy : Policies \cup {"none"},
              for : AccessRequest \cup {NoRequest},
              copy : Manifest,
              fd : Inode,
              result : {"none", "approve", "deny", "saved", "failed"}]

\* The four fields of a host-scoped decision (_manifest_scope_for_pending).
HostScope(r) ==
  IF r.kind = "http" THEN [r EXCEPT !.method = "*", !.path = "*"] ELSE r

AllRules == Rules \cup Asked \cup {HostScope(r) : r \in Asked}

NoOperation == [pc |-> "idle", kind |-> "none", rule |-> CHOOSE r \in Rule : TRUE,
                policy |-> "none", for |-> NoRequest, copy |-> EmptyManifest,
                fd |-> NoInode, result |-> "none"]

\* load_manifest: a missing or an unreadable file is an empty manifest.
Load == IF path = NoInode \/ file[path] = Truncated THEN EmptyManifest ELSE file[path]

Init ==
  /\ path = NoInode
  /\ tmp = [p \in Processes |-> NoInode]
  /\ file = [i \in Inodes |-> Truncated]
  /\ thread = [t \in Threads |-> NoOperation]
  /\ saved = [r \in AllRules |-> "none"]
  /\ resolved = [r \in Asked |-> "none"]

Idle(t) == thread[t].pc = "idle"

Finish(t, result) ==
  thread' = [thread EXCEPT ![t] = [NoOperation EXCEPT !.result = result]]

-----------------------------------------------------------------------------
(* bubblehub_access_apply_policy.                                          *)

ApplyPolicy(t, rule, policy, for) ==
  /\ Idle(t)
  /\ LET changed == RemovePending(SetPolicy(Load, rule, policy), rule)
     IN  IF PoliciesAreFull(Load, rule) \/ ~FitsInFile(changed)
         THEN Finish(t, "failed")
         ELSE thread' = [thread EXCEPT ![t] =
                [NoOperation EXCEPT !.pc = "open", !.kind = "apply", !.rule = rule,
                   !.policy = policy, !.for = for, !.copy = changed]]
  /\ UNCHANGED <<path, tmp, file, saved, resolved>>

\* bubble manifest, or the policies endpoint of the control API.
Edit(t) == \E rule \in Rules, policy \in Choices : ApplyPolicy(t, rule, policy, NoRequest)

\* bubble dashboard decides about a pending request, for its whole host.
Resolve(t) ==
  \E r \in Asked, policy \in Choices :
    IsPending(Load, r) /\ ApplyPolicy(t, HostScope(r), policy, r)

(* bubblehub_access_evaluate, which reports a write that fails as an error *)
(* that the proxy turns into a denial.                                     *)

Evaluate(t, r) ==
  /\ Idle(t)
  /\ LET found == FindPolicy(Load, r)
         changed == AddPending(Load, r)
     IN  IF found = "always" THEN Finish(t, "approve")
         ELSE IF found = "never" THEN Finish(t, "deny")
         ELSE IF PendingIsFull(Load, r) \/ ~FitsInFile(changed) THEN Finish(t, "deny")
         ELSE thread' = [thread EXCEPT ![t] =
                [NoOperation EXCEPT !.pc = "open", !.kind = "evaluate", !.for = r,
                   !.copy = changed]]
  /\ UNCHANGED <<path, tmp, file, saved, resolved>>

EvaluateSome(t) == \E r \in Asked : Evaluate(t, r)

-----------------------------------------------------------------------------
(* write_manifest.                                                         *)

\* The inodes that a name or an open file refers to; the others are free.
Live == {path} \cup {tmp[p] : p \in Processes} \cup {thread[t].fd : t \in Threads}

Unused == Inodes \ Live

\* The files after a step: content, without what the step has freed.
Keep(content) == file' = [i \in Inodes |-> IF i \in Live' THEN content[i] ELSE Truncated]

\* A bug: the temporary file is the manifest.
OpenTmp_InPlace(t) ==
  /\ thread[t].pc = "open"
  /\ LET i == IF path = NoInode THEN CHOOSE x \in Unused : TRUE ELSE path
     IN  /\ path' = i
         /\ tmp' = [tmp EXCEPT ![ProcessOf[t]] = i]
         /\ file' = [file EXCEPT ![i] = Truncated]
         /\ thread' = [thread EXCEPT ![t].pc = "write", ![t].fd = i]
  /\ UNCHANGED <<saved, resolved>>

\* open(O_CREAT | O_TRUNC): a file of that name is emptied, whoever opened it.
OpenTmp(t) ==
  /\ thread[t].pc = "open"
  /\ LET p == ProcessOf[t]
         i == IF tmp[p] = NoInode THEN CHOOSE x \in Unused : TRUE ELSE tmp[p]
     IN  /\ tmp' = [tmp EXCEPT ![p] = i]
         /\ file' = [file EXCEPT ![i] = Truncated]
         /\ thread' = [thread EXCEPT ![t].pc = "write", ![t].fd = i]
  /\ UNCHANGED <<path, saved, resolved>>

WriteTmp(t) ==
  /\ thread[t].pc = "write"
  /\ thread' = [thread EXCEPT ![t].pc = "rename", ![t].fd = NoInode]
  /\ UNCHANGED <<path, tmp, saved, resolved>>
  /\ Keep([file EXCEPT ![thread[t].fd] = thread[t].copy])

\* How an operation that did not reach the file ends.
FailedResult(t) == IF thread[t].kind = "evaluate" THEN "deny" ELSE "failed"

\* write, fsync or close fails: the name of the temporary file is removed.
WriteFails(t) ==
  /\ thread[t].pc = "write"
  /\ tmp' = [tmp EXCEPT ![ProcessOf[t]] = NoInode]
  /\ Finish(t, FailedResult(t))
  /\ UNCHANGED <<path, saved, resolved>>
  /\ Keep(file)

\* What the callers have been told: an apply that succeeds is a decision about
\* its rule, and it settles every request that the rule matches.
Remember(op) ==
  IF op.kind # "apply" THEN UNCHANGED <<saved, resolved>>
  ELSE /\ saved' = [saved EXCEPT ![op.rule] = op.policy]
       /\ resolved' = [r \in Asked |->
            IF r = op.for THEN op.policy
            ELSE IF Matches(op.rule, r) THEN "none" ELSE resolved[r]]

\* The rename of a name that is gone fails.
Rename(t) ==
  /\ thread[t].pc = "rename"
  /\ LET p == ProcessOf[t]
     IN  IF tmp[p] = NoInode
         THEN Finish(t, FailedResult(t)) /\ UNCHANGED <<path, tmp, saved, resolved>>
         ELSE /\ path' = tmp[p]
              /\ tmp' = [tmp EXCEPT ![p] = NoInode]
              /\ Finish(t, IF thread[t].kind = "apply" THEN "saved" ELSE "deny")
              /\ Remember(thread[t])
  /\ Keep(file)

-----------------------------------------------------------------------------
\* A process dies and leaves its temporary file, for a later one of its pid.
Killed(p) ==
  /\ thread' = [t \in Threads |-> IF ProcessOf[t] = p THEN NoOperation ELSE thread[t]]
  /\ UNCHANGED <<path, tmp, saved, resolved>>
  /\ Keep(file)

\* bubble run --force-new-sandbox, or the deletion of the agent, removes the directory.
RemoveManifest ==
  /\ path # NoInode
  /\ path' = NoInode
  /\ tmp' = [p \in Processes |-> NoInode]
  /\ saved' = [r \in AllRules |-> "none"]
  /\ resolved' = [r \in Asked |-> "none"]
  /\ UNCHANGED thread
  /\ Keep(file)

Next ==
  \/ \E t \in Threads :
       \/ Edit(t) \/ Resolve(t) \/ EvaluateSome(t)
       \/ OpenTmp(t) \/ WriteTmp(t) \/ WriteFails(t) \/ Rename(t)
  \/ \E p \in Processes : Killed(p)
  \/ RemoveManifest

Spec == Init /\ [][Next]_mvars

-----------------------------------------------------------------------------
(* Properties.                                                             *)

\* The state stays well typed, and no list outgrows its array: what is loaded
\* always fits the manifest that load_manifest fills.
MTypeOK ==
  /\ path \in Inode
  /\ tmp \in [Processes -> Inode]
  /\ \A i \in Inodes : file[i] # Truncated =>
       /\ file[i] \in Manifest
       /\ Len(file[i].policies) <= MaxPolicies
       /\ Cardinality(file[i].pending) <= MaxPending
       /\ FitsInFile(file[i])
  /\ thread \in [Threads -> Operation]
  /\ saved \in [AllRules -> Policies \cup {"none"}]
  /\ resolved \in [Asked -> Policies \cup {"none"}]

\* A request that the dashboard shows as pending is one that the policies of the
\* same manifest leave open: no order of evaluations and decisions asks the user
\* about what is already decided (remove_pending removes all that a rule covers,
\* add_pending is reached only without a decision).
PendingIsUndecided ==
  \A r \in Load.pending : ~Decided(Load, r)

\* find_policy's loop finds the most specific of the matching rules, the oldest
\* on a tie, on every manifest that is reached.
FindPolicyMatchesLoop ==
  \A r \in Asked : FindPolicy(Load, r) = FindPolicyLoop(Load, r)

\* A decision that was reported as saved is in the manifest until it is replaced
\* or the manifest removed.
SavedDecisionApplies ==
  \A rule \in AllRules : saved[rule] # "none" =>
    \E i \in RuleSlots(Load, rule) : Load.policies[i].policy = saved[rule]

\* What the dashboard decided for a pending request is what the next evaluation
\* of that request finds, until another decision covers the request, unless the
\* manifest holds another rule for it that is at least as specific.
DashboardDecisionApplies ==
  \A r \in Asked : resolved[r] # "none" =>
    \/ FindPolicy(Load, r) = resolved[r]
    \/ \E i \in DOMAIN Load.policies :
         LET rule == Load.policies[i].rule
         IN  /\ rule # HostScope(r)
             /\ Matches(rule, r)
             /\ Score(rule, r) >= Score(HostScope(r), r)
=============================================================================
