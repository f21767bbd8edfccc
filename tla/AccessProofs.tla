---------------------------- MODULE AccessProofs -----------------------------
(***************************************************************************)
(* Proofs about AccessPolicy and AccessManifest, for any number of threads *)
(* and processes, any requests and rules, and tables of any size.          *)
(***************************************************************************)
EXTENDS ManifestHistory, FiniteSetTheorems, WellFoundedInduction, TLAPS

-----------------------------------------------------------------------------
(* Matching: the CHOOSE of FindPolicy has exactly one candidate.           *)

LEMMA LeastOf ==
  ASSUME NEW S \in SUBSET Nat, S # {}
  PROVE  \E x \in S : \A y \in S : x <= y
<1>1. PICK x \in S : \A y \in S : ~(<<y, x>> \in OpToRel(<, Nat))
  BY NatLessThanWellFounded, WFMin, Zenon
<1>2. \A y \in S : ~(y < x)
  BY <1>1 DEF OpToRel
<1>. QED
  BY <1>2

Matching(m, r) == {i \in DOMAIN m.policies : Matches(m.policies[i].rule, r)}

Best(m, r, i) ==
  /\ i \in Matching(m, r)
  /\ \A j \in Matching(m, r) :
       LET si == Score(m.policies[i].rule, r)
           sj == Score(m.policies[j].rule, r)
       IN  si > sj \/ (si = sj /\ i <= j)

LEMMA ScoreIsNat ==
  ASSUME NEW rule, NEW r
  PROVE  Score(rule, r) \in 0..7
BY DEF Score

LEMMA BestExists ==
  ASSUME NEW m, DOMAIN m.policies \subseteq Nat, NEW r, Matching(m, r) # {}
  PROVE  \E i : Best(m, r, i)
<1>. DEFINE score(i) == Score(m.policies[i].rule, r)
            gaps == {7 - score(i) : i \in Matching(m, r)}
<1>0. \A i : score(i) \in 0..7
  BY ScoreIsNat
<1>. HIDE DEF score
<1>1. gaps \in SUBSET Nat /\ gaps # {}
  BY <1>0
<1>2. PICK a \in Matching(m, r) : \A j \in Matching(m, r) : score(a) >= score(j)
  <2>. HIDE DEF gaps
  <2>1. PICK x \in gaps : \A y \in gaps : x <= y
    BY <1>1, LeastOf
  <2>. QED
    BY <2>1, <1>0 DEF gaps
<1>. DEFINE top == {j \in Matching(m, r) : score(j) = score(a)}
<1>3. top \in SUBSET Nat /\ top # {}
  BY DEF Matching
<1>4. PICK i \in top : \A j \in top : i <= j
  <2>. HIDE DEF top
  <2>. QED
    BY <1>3, LeastOf
<1>5. \A j \in Matching(m, r) : score(i) > score(j) \/ (score(i) = score(j) /\ i <= j)
  BY <1>0, <1>2, <1>4
<1>. QED
  BY <1>4, <1>5 DEF Best, score

LEMMA FindPolicyIs ==
  ASSUME NEW m, DOMAIN m.policies \subseteq Nat, NEW r, NEW i, Best(m, r, i)
  PROVE  FindPolicy(m, r) = m.policies[i].policy
<1>. DEFINE score(k) == Score(m.policies[k].rule, r)
<1>0. \A k : score(k) \in 0..7
  BY ScoreIsNat
<1>. HIDE DEF score
<1>1. \A j : Best(m, r, j) => j = i
  <2>. SUFFICES ASSUME NEW j, Best(m, r, j) PROVE j = i
    OBVIOUS
  <2>1. i \in Matching(m, r) /\ j \in Matching(m, r) /\ i \in Nat /\ j \in Nat
    BY DEF Best, Matching
  <2>2. /\ score(i) > score(j) \/ (score(i) = score(j) /\ i <= j)
        /\ score(j) > score(i) \/ (score(i) = score(j) /\ j <= i)
    BY <2>1 DEF Best, score
  <2>. QED
    BY <2>1, <2>2, <1>0
<1>2. (CHOOSE j \in Matching(m, r) : Best(m, r, j)) = i
  BY <1>1 DEF Best
<1>3. FindPolicy(m, r) = m.policies[CHOOSE j \in Matching(m, r) : Best(m, r, j)].policy
  BY DEF FindPolicy, Best, Matching
<1>. QED
  BY <1>2, <1>3

\* A decision rests on a rule that matches.
LEMMA DecisionHasRule ==
  ASSUME NEW m, DOMAIN m.policies \subseteq Nat, NEW r, FindPolicy(m, r) # "none"
  PROVE  \E i \in Matching(m, r) : m.policies[i].policy = FindPolicy(m, r)
<1>1. Matching(m, r) # {}
  BY DEF FindPolicy, Matching
<1>2. PICK i : Best(m, r, i)
  BY <1>1, BestExists
<1>. QED
  BY <1>2, FindPolicyIs DEF Best

\* What is decided about a request depends only on the rules that match it.
LEMMA SameDecision ==
  ASSUME NEW m, DOMAIN m.policies \subseteq Nat,
         NEW n, DOMAIN n.policies \subseteq Nat, NEW r,
         Matching(n, r) = Matching(m, r),
         \A i \in Matching(m, r) : n.policies[i] = m.policies[i]
  PROVE  FindPolicy(n, r) = FindPolicy(m, r)
<1>1. CASE Matching(m, r) = {}
  BY <1>1 DEF FindPolicy, Matching
<1>2. CASE Matching(m, r) # {}
  <2>1. PICK i : Best(m, r, i)
    BY <1>2, BestExists
  <2>2. Best(n, r, i)
    BY <2>1 DEF Best
  <2>. QED
    BY <2>1, <2>2, FindPolicyIs DEF Best
<1>. QED
  BY <1>1, <1>2

-----------------------------------------------------------------------------
(* Changing a manifest.                                                    *)

LEMMA ManifestFields ==
  ASSUME NEW m \in Manifest
  PROVE  /\ m.policies \in Seq(PolicyEntry) /\ m.pending \subseteq AccessRequest
         /\ Len(m.policies) \in Nat /\ DOMAIN m.policies = 1..Len(m.policies)
         /\ DOMAIN m.policies \subseteq Nat
         /\ m = [policies |-> m.policies, pending |-> m.pending]
BY DEF Manifest

\* The entry of the rule is replaced, or added at the end.
LEMMA SetPolicyForm ==
  ASSUME NEW m \in Manifest, NEW rule \in Rule, NEW policy \in Policies,
         NEW n, n = SetPolicy(m, rule, policy),
         NEW entry, entry = [rule |-> rule, policy |-> policy]
  PROVE  /\ n = [policies |-> n.policies, pending |-> m.pending]
         /\ \/ RuleSlots(m, rule) = {} /\ n.policies = Append(m.policies, entry)
            \/ \E k \in RuleSlots(m, rule) : n.policies = [m.policies EXCEPT ![k] = entry]
<1>1. CASE RuleSlots(m, rule) = {}
  <2>1. n = [m EXCEPT !.policies = Append(@, entry)]
    BY <1>1 DEF SetPolicy
  <2>2. n.policies = Append(m.policies, entry) /\ n.pending = m.pending
    BY <2>1 DEF Manifest
  <2>3. n = [policies |-> n.policies, pending |-> n.pending]
    BY <2>1 DEF Manifest
  <2>. QED
    BY <1>1, <2>2, <2>3
<1>2. CASE RuleSlots(m, rule) # {}
  <2>. DEFINE slots == RuleSlots(m, rule)
              first == CHOOSE i \in slots : \A j \in slots : i <= j
  <2>1. n = [m EXCEPT !.policies[first].policy = policy]
    BY <1>2 DEF SetPolicy
  <2>2. slots \in SUBSET Nat
    BY ManifestFields DEF RuleSlots
  <2>3. first \in slots
    <3>. HIDE DEF slots
    <3>1. PICK x \in slots : \A y \in slots : x <= y
      BY <1>2, <2>2, LeastOf DEF slots
    <3>. QED
      BY <3>1
  <2>. HIDE DEF first
  <2>4. first \in DOMAIN m.policies /\ m.policies[first].rule = rule
    BY <2>3 DEF RuleSlots
  <2>5. m.policies[first] \in PolicyEntry
    BY <2>4, ManifestFields
  <2>6. /\ n.policies = [m.policies EXCEPT ![first].policy = policy]
        /\ n = [policies |-> n.policies, pending |-> m.pending]
    BY <2>1, <2>4 DEF Manifest
  <2>7. [m.policies[first] EXCEPT !.policy = policy] = entry
    BY <2>4, <2>5 DEF PolicyEntry
  <2>8. n.policies = [m.policies EXCEPT ![first] = entry]
    BY <2>6, <2>7, <2>4
  <2>. QED
    BY <2>3, <2>6, <2>8
<1>. QED
  BY <1>1, <1>2

\* What was in the list stays there, but for the entry of the rule.
LEMMA SetPolicyIs ==
  ASSUME NEW m \in Manifest, NEW rule \in Rule, NEW policy \in Policies,
         NEW n, n = SetPolicy(m, rule, policy)
  PROVE  /\ n \in Manifest
         /\ n.pending = m.pending
         /\ ~PoliciesAreFull(m, rule) /\ Len(m.policies) <= MaxPolicies
              => Len(n.policies) <= MaxPolicies
         /\ DOMAIN m.policies \subseteq DOMAIN n.policies
         /\ \A i \in DOMAIN m.policies :
              n.policies[i] = m.policies[i] \/ m.policies[i].rule = rule
         /\ \A i \in DOMAIN n.policies :
              \/ i \in DOMAIN m.policies /\ n.policies[i] = m.policies[i]
              \/ n.policies[i] = [rule |-> rule, policy |-> policy]
<1>. DEFINE entry == [rule |-> rule, policy |-> policy]
<1>0. entry \in PolicyEntry
  BY DEF PolicyEntry
<1>1. /\ n = [policies |-> n.policies, pending |-> m.pending]
      /\ \/ RuleSlots(m, rule) = {} /\ n.policies = Append(m.policies, entry)
         \/ \E k \in RuleSlots(m, rule) : n.policies = [m.policies EXCEPT ![k] = entry]
  <2>. HIDE DEF entry
  <2>. QED
    BY SetPolicyForm DEF entry
<1>. HIDE DEF entry
<1>2. n.pending = m.pending /\ (n.policies \in Seq(PolicyEntry) => n \in Manifest)
  BY <1>1, ManifestFields DEF Manifest
<1>3. CASE RuleSlots(m, rule) = {} /\ n.policies = Append(m.policies, entry)
  <2>1. /\ n.policies \in Seq(PolicyEntry)
        /\ Len(n.policies) = Len(m.policies) + 1
        /\ \A i \in DOMAIN m.policies : n.policies[i] = m.policies[i]
        /\ n.policies[Len(m.policies) + 1] = entry
        /\ DOMAIN n.policies = 1..(Len(m.policies) + 1)
    BY <1>0, <1>3, ManifestFields
  <2>2. DOMAIN n.policies = DOMAIN m.policies \cup {Len(m.policies) + 1}
    BY <2>1, ManifestFields
  <2>3. ~PoliciesAreFull(m, rule) => Len(n.policies) <= MaxPolicies
    BY <1>3, <2>1, ManifestFields, AccessAssumption DEF PoliciesAreFull
  <2>. QED
    BY <1>2, <2>1, <2>2, <2>3 DEF entry
<1>4. ASSUME NEW k \in RuleSlots(m, rule), n.policies = [m.policies EXCEPT ![k] = entry]
      PROVE  /\ n.policies \in Seq(PolicyEntry) /\ Len(n.policies) = Len(m.policies)
             /\ DOMAIN n.policies = DOMAIN m.policies
             /\ \A i \in DOMAIN m.policies :
                  /\ n.policies[i] = m.policies[i] \/ m.policies[i].rule = rule
                  /\ n.policies[i] = m.policies[i] \/ n.policies[i] = entry
  <2>1. k \in DOMAIN m.policies /\ m.policies[k].rule = rule
    BY <1>4 DEF RuleSlots
  <2>. QED
    BY <1>0, <1>4, <2>1, ManifestFields
<1>. QED
  BY <1>1, <1>2, <1>3, <1>4 DEF entry

LEMMA RemovePendingIs ==
  ASSUME NEW m \in Manifest, NEW rule, NEW n, n = RemovePending(m, rule)
  PROVE  /\ n \in Manifest
         /\ n.policies = m.policies
         /\ n.pending = {p \in m.pending : p # rule /\ ~Matches(rule, p)}
<1>1. n = [m EXCEPT !.pending = {p \in m.pending : p # rule /\ ~Matches(rule, p)}]
  BY DEF RemovePending
<1>2. /\ n.policies = m.policies
      /\ n.pending = {p \in m.pending : p # rule /\ ~Matches(rule, p)}
      /\ n = [policies |-> n.policies, pending |-> n.pending]
  BY <1>1 DEF Manifest
<1>3. n.pending \subseteq AccessRequest /\ n.policies \in Seq(PolicyEntry)
  BY <1>2, ManifestFields
<1>. QED
  BY <1>2, <1>3 DEF Manifest

LEMMA AddPendingIs ==
  ASSUME NEW m \in Manifest, NEW r \in AccessRequest, NEW n, n = AddPending(m, r)
  PROVE  /\ n \in Manifest
         /\ n.policies = m.policies
         /\ n.pending = m.pending \cup {r}
BY DEF AddPending, Manifest

\* A manifest that its file and the arrays of the code can hold, in which no
\* request waits that is decided.
Stored(m) ==
  /\ m \in Manifest
  /\ IsFiniteSet(m.pending)
  /\ Len(m.policies) <= MaxPolicies
  /\ Cardinality(m.pending) <= MaxPending
  /\ FitsInFile(m)

Undecided(m) == \A r \in m.pending : ~Decided(m, r)

LEMMA EmptyIsStored ==
  Stored(EmptyManifest) /\ Undecided(EmptyManifest)
<1>1. EmptyManifest.policies = << >> /\ EmptyManifest.pending = {} /\ EmptyManifest \in Manifest
  BY DEF EmptyManifest, Manifest
<1>2. IsFiniteSet({}) /\ Cardinality({}) = 0
  BY FS_EmptySet
<1>3. Len(<< >>) = 0
  OBVIOUS
<1>. QED
  BY <1>1, <1>2, <1>3, AccessAssumption DEF Stored, Undecided, FitsInFile

\* The copy of apply_policy.
LEMMA AppliedIsStored ==
  ASSUME NEW m, Stored(m), Undecided(m), NEW rule \in Rule, NEW policy \in Policies,
         ~PoliciesAreFull(m, rule),
         NEW n, n = RemovePending(SetPolicy(m, rule, policy), rule), FitsInFile(n)
  PROVE  Stored(n) /\ Undecided(n)
<1>1. PICK s : s = SetPolicy(m, rule, policy)
  OBVIOUS
<1>2. /\ s \in Manifest /\ s.pending = m.pending /\ Len(s.policies) <= MaxPolicies
      /\ DOMAIN m.policies \subseteq DOMAIN s.policies
      /\ \A i \in DOMAIN m.policies :
           s.policies[i] = m.policies[i] \/ m.policies[i].rule = rule
      /\ \A i \in DOMAIN s.policies :
           \/ i \in DOMAIN m.policies /\ s.policies[i] = m.policies[i]
           \/ s.policies[i].rule = rule
  <2>1. PICK new : new = [rule |-> rule, policy |-> policy]
    OBVIOUS
  <2>2. new.rule = rule
    BY <2>1
  <2>3. m \in Manifest /\ Len(m.policies) <= MaxPolicies
    BY DEF Stored
  <2>4. /\ s \in Manifest /\ s.pending = m.pending /\ Len(s.policies) <= MaxPolicies
        /\ DOMAIN m.policies \subseteq DOMAIN s.policies
        /\ \A i \in DOMAIN m.policies :
             s.policies[i] = m.policies[i] \/ m.policies[i].rule = rule
        /\ \A i \in DOMAIN s.policies :
             \/ i \in DOMAIN m.policies /\ s.policies[i] = m.policies[i]
             \/ s.policies[i] = new
    BY <1>1, <2>1, <2>3, SetPolicyIs
  <2>. QED
    BY <2>2, <2>4
<1>3. /\ n \in Manifest /\ n.policies = s.policies
      /\ n.pending = {p \in m.pending : p # rule /\ ~Matches(rule, p)}
  BY <1>1, <1>2, RemovePendingIs
<1>4. IsFiniteSet(n.pending) /\ Cardinality(n.pending) <= Cardinality(m.pending)
  BY <1>3, FS_Subset DEF Stored
<1>5. Cardinality(n.pending) \in Nat /\ Cardinality(m.pending) \in Nat
  BY <1>4, FS_CardinalityType DEF Stored
<1>6. Stored(n)
  BY <1>2, <1>3, <1>4, <1>5, AccessAssumption DEF Stored
<1>7. ASSUME NEW r \in n.pending PROVE ~Decided(n, r)
  <2>1. ~Matches(rule, r) /\ r \in m.pending
    BY <1>3
  <2>2. Matching(n, r) = Matching(m, r)
    BY <1>2, <1>3, <2>1 DEF Matching
  <2>3. \A i \in Matching(m, r) : n.policies[i] = m.policies[i]
    BY <1>2, <1>3, <2>1 DEF Matching
  <2>4. DOMAIN n.policies \subseteq Nat /\ DOMAIN m.policies \subseteq Nat
    BY <1>3, ManifestFields DEF Stored
  <2>5. FindPolicy(n, r) = FindPolicy(m, r)
    BY <2>2, <2>3, <2>4, SameDecision
  <2>. QED
    BY <2>1, <2>5 DEF Undecided, Decided
<1>. QED
  BY <1>6, <1>7 DEF Undecided

\* The copy of an evaluation that finds no decision.
LEMMA AskedIsStored ==
  ASSUME NEW m, Stored(m), Undecided(m), NEW r \in AccessRequest,
         ~Decided(m, r), ~PendingIsFull(m, r),
         NEW n, n = AddPending(m, r), FitsInFile(n)
  PROVE  Stored(n) /\ Undecided(n)
<1>1. n \in Manifest /\ n.policies = m.policies /\ n.pending = m.pending \cup {r}
  BY AddPendingIs DEF Stored
<1>2. /\ IsFiniteSet(n.pending)
      /\ Cardinality(n.pending) = IF r \in m.pending THEN Cardinality(m.pending)
                                  ELSE Cardinality(m.pending) + 1
  <2>1. IsFiniteSet(m.pending)
    BY DEF Stored
  <2>2. /\ IsFiniteSet(m.pending \cup {r})
        /\ Cardinality(m.pending \cup {r}) = IF r \in m.pending THEN Cardinality(m.pending)
                                             ELSE Cardinality(m.pending) + 1
    BY <2>1, FS_AddElement
  <2>. QED
    BY <1>1, <2>2
<1>3. Cardinality(m.pending) \in Nat
  BY FS_CardinalityType DEF Stored
<1>4. Cardinality(n.pending) <= MaxPending
  BY <1>2, <1>3, AccessAssumption DEF PendingIsFull, IsPending, Stored
<1>5. Stored(n)
  BY <1>1, <1>2, <1>4 DEF Stored
<1>6. \A q : FindPolicy(n, q) = FindPolicy(m, q)
  BY <1>1 DEF FindPolicy
<1>. QED
  BY <1>1, <1>5, <1>6 DEF Undecided, Decided

-----------------------------------------------------------------------------
(* The inductive invariant: whatever is in a file or in the copy of a      *)
(* thread is a manifest that fits and that has no decided request pending. *)

Proper(m) == Stored(m) /\ Undecided(m)

NamesOK == path \in Inode /\ tmp \in [Processes -> Inode]

FilesOK ==
  /\ file \in [Inodes -> Manifest \cup {Truncated}]
  /\ \A i \in Inodes : file[i] # Truncated => Proper(file[i])

ThreadsOK ==
  /\ thread \in [Threads -> Operation]
  /\ \A t \in Threads : Proper(thread[t].copy)

HistoryOK ==
  /\ saved \in [AllRules -> Policies \cup {"none"}]
  /\ resolved \in [Asked -> Policies \cup {"none"}]

ManifestInv == NamesOK /\ FilesOK /\ ThreadsOK /\ HistoryOK

LEMMA LoadIsProper ==
  ASSUME ManifestInv
  PROVE  Proper(Load)
<1>1. CASE path = NoInode \/ file[path] = Truncated
  BY <1>1, EmptyIsStored DEF Load, Proper
<1>2. CASE path # NoInode /\ file[path] # Truncated
  BY <1>2 DEF Load, ManifestInv, NamesOK, FilesOK, Inode
<1>. QED
  BY <1>1, <1>2

\* What the invariant says about the manifest and the lists of the code.
LEMMA InvImplies == ManifestInv => MTypeOK /\ PendingIsUndecided
<1>. SUFFICES ASSUME ManifestInv PROVE MTypeOK /\ PendingIsUndecided
  OBVIOUS
<1>1. MTypeOK
  BY DEF ManifestInv, NamesOK, FilesOK, ThreadsOK, HistoryOK, MTypeOK, Proper, Stored
<1>2. PendingIsUndecided
  BY LoadIsProper DEF PendingIsUndecided, Proper, Undecided
<1>. QED
  BY <1>1, <1>2

LEMMA SomeRule == (CHOOSE r \in Rule : TRUE) \in Rule
<1>1. PICK k : k \in Kinds
  BY AccessAssumption
<1>2. [kind |-> k, subject |-> "*", method |-> "", path |-> ""] \in Rule
  BY <1>1 DEF Rule
<1>. QED
  BY <1>2

LEMMA NoOperationIs ==
  /\ NoOperation \in Operation
  /\ NoOperation.copy = EmptyManifest /\ NoOperation.pc = "idle"
  /\ NoOperation.fd = NoInode /\ NoOperation.result = "none"
<1>1. EmptyManifest \in Manifest
  BY EmptyIsStored DEF Stored
<1>. QED
  BY <1>1, SomeRule DEF NoOperation, Operation, Inode

LEMMA IdleIs ==
  ASSUME NEW result \in {"none", "approve", "deny", "saved", "failed"},
         NEW op, op = [NoOperation EXCEPT !.result = result]
  PROVE  /\ op \in Operation /\ Proper(op.copy)
         /\ op.pc = "idle" /\ op.fd = NoInode /\ op.result = result
<1>1. /\ op \in Operation /\ op.copy = EmptyManifest
      /\ op.pc = "idle" /\ op.fd = NoInode /\ op.result = result
  BY NoOperationIs DEF Operation
<1>. QED
  BY <1>1, EmptyIsStored DEF Proper

LEMMA FinishKeeps ==
  ASSUME ThreadsOK, NEW t \in Threads,
         NEW result \in {"none", "approve", "deny", "saved", "failed"},
         Finish(t, result)
  PROVE  ThreadsOK'
<1>1. PICK op : op = [NoOperation EXCEPT !.result = result]
  OBVIOUS
<1>2. op \in Operation /\ Proper(op.copy)
  BY <1>1, IdleIs
<1>3. thread' = [thread EXCEPT ![t] = op]
  BY <1>1 DEF Finish
<1>. QED
  BY <1>2, <1>3 DEF ThreadsOK

LEMMA ApplyKeeps ==
  ASSUME ManifestInv, NEW t \in Threads, NEW rule \in Rule, NEW policy \in Policies,
         NEW for \in AccessRequest \cup {NoRequest}, ApplyPolicy(t, rule, policy, for)
  PROVE  ManifestInv'
<1>1. ThreadsOK'
  <2>1. PICK n : n = RemovePending(SetPolicy(Load, rule, policy), rule)
    OBVIOUS
  <2>2. CASE PoliciesAreFull(Load, rule) \/ ~FitsInFile(n)
    BY <2>1, <2>2, FinishKeeps DEF ApplyPolicy, ManifestInv
  <2>3. CASE ~PoliciesAreFull(Load, rule) /\ FitsInFile(n)
    <3>1. Proper(n)
      BY <2>1, <2>3, LoadIsProper, AppliedIsStored DEF Proper
    <3>2. PICK op : op = [NoOperation EXCEPT !.pc = "open", !.kind = "apply",
                            !.rule = rule, !.policy = policy, !.for = for, !.copy = n]
      OBVIOUS
    <3>3. op \in Operation /\ op.copy = n
      BY <3>1, <3>2, NoOperationIs DEF Operation, Proper, Stored
    <3>4. thread' = [thread EXCEPT ![t] = op]
      BY <2>1, <2>3, <3>2 DEF ApplyPolicy
    <3>. QED
      BY <3>1, <3>3, <3>4 DEF ManifestInv, ThreadsOK
  <2>. QED
    BY <2>2, <2>3
<1>. QED
  BY <1>1 DEF ApplyPolicy, ManifestInv, NamesOK, FilesOK, HistoryOK

LEMMA EvaluateKeeps ==
  ASSUME ManifestInv, NEW t \in Threads, NEW r \in AccessRequest, Evaluate(t, r)
  PROVE  ManifestInv'
<1>1. ThreadsOK'
  <2>1. PICK n : n = AddPending(Load, r)
    OBVIOUS
  <2>2. CASE Decided(Load, r) \/ PendingIsFull(Load, r) \/ ~FitsInFile(n)
    BY <2>1, <2>2, FinishKeeps DEF Evaluate, ManifestInv, Decided
  <2>3. CASE ~(Decided(Load, r) \/ PendingIsFull(Load, r) \/ ~FitsInFile(n))
    <3>1. Proper(n)
      BY <2>1, <2>3, LoadIsProper, AskedIsStored DEF Proper
    <3>2. PICK op : op = [NoOperation EXCEPT !.pc = "open", !.kind = "evaluate",
                            !.for = r, !.copy = n]
      OBVIOUS
    <3>3. op \in Operation /\ op.copy = n
      BY <3>1, <3>2, NoOperationIs DEF Operation, Proper, Stored
    <3>4. thread' = [thread EXCEPT ![t] = op]
      BY <2>1, <2>3, <3>2 DEF Evaluate, Decided
    <3>. QED
      BY <3>1, <3>3, <3>4 DEF ManifestInv, ThreadsOK
  <2>. QED
    BY <2>2, <2>3
<1>. QED
  BY <1>1 DEF Evaluate, ManifestInv, NamesOK, FilesOK, HistoryOK

-----------------------------------------------------------------------------
(* There is always an inode to allocate.                                   *)

LEMMA RangeIsSmall ==
  ASSUME NEW D, IsFiniteSet(D), NEW f, DOMAIN f = D
  PROVE  /\ IsFiniteSet({f[x] : x \in D})
         /\ Cardinality({f[x] : x \in D}) \in Nat
         /\ Cardinality({f[x] : x \in D}) <= Cardinality(D)
<1>. DEFINE R == {f[x] : x \in D}
            g == [x \in D |-> f[x]]
<1>1. g \in Surjection(D, R)
  BY DEF Surjection
<1>2. IsFiniteSet(R) /\ Cardinality(R) <= Cardinality(D)
  BY <1>1, FS_Surjection
<1>. QED
  BY <1>2, FS_CardinalityType

LEMMA UnionIsSmall ==
  ASSUME NEW S, NEW T, IsFiniteSet(S), IsFiniteSet(T)
  PROVE  /\ IsFiniteSet(S \cup T)
         /\ Cardinality(S \cup T) \in Nat
         /\ Cardinality(S \cup T) <= Cardinality(S) + Cardinality(T)
<1>1. /\ IsFiniteSet(S \cup T)
      /\ Cardinality(S \cup T) = Cardinality(S) + Cardinality(T) - Cardinality(S \cap T)
  BY FS_Union
<1>2. IsFiniteSet(S \cap T)
  BY FS_Subset, S \cap T \in SUBSET S
<1>3. /\ Cardinality(S \cap T) \in Nat /\ Cardinality(S) \in Nat
      /\ Cardinality(T) \in Nat /\ Cardinality(S \cup T) \in Nat
  BY <1>1, <1>2, FS_CardinalityType
<1>. QED
  BY <1>1, <1>3

LEMMA SomeInodeIsFree ==
  ASSUME NamesOK, ThreadsOK
  PROVE  Unused # {}
<1>. DEFINE fds == [t \in Threads |-> thread[t].fd]
            A == {tmp[p] : p \in Processes}
            B == {fds[t] : t \in Threads}
<1>1. /\ IsFiniteSet(A) /\ Cardinality(A) \in Nat /\ Cardinality(A) <= Cardinality(Processes)
      /\ IsFiniteSet(Processes)
  BY RangeIsSmall, ManifestAssumption DEF NamesOK
<1>2. /\ IsFiniteSet(B) /\ Cardinality(B) \in Nat /\ Cardinality(B) <= Cardinality(Threads)
      /\ IsFiniteSet(Threads)
  <2>1. DOMAIN fds = Threads /\ IsFiniteSet(Threads)
    BY ManifestAssumption
  <2>. HIDE DEF fds
  <2>. QED
    BY <2>1, RangeIsSmall
<1>3. IsFiniteSet({path}) /\ Cardinality({path}) = 1
  BY FS_Singleton
<1>4. Live = ({path} \cup A) \cup B
  BY DEF Live
<1>. HIDE DEF A, B, fds
<1>5. /\ IsFiniteSet({path} \cup A) /\ Cardinality({path} \cup A) \in Nat
      /\ Cardinality({path} \cup A) <= 1 + Cardinality(A)
  BY <1>1, <1>3, UnionIsSmall
<1>6. /\ IsFiniteSet(({path} \cup A) \cup B) /\ Cardinality(({path} \cup A) \cup B) \in Nat
      /\ Cardinality(({path} \cup A) \cup B) <= Cardinality({path} \cup A) + Cardinality(B)
  BY <1>2, <1>5, UnionIsSmall
<1>7. Cardinality(Processes) \in Nat /\ Cardinality(Threads) \in Nat
  BY <1>1, <1>2, FS_CardinalityType
<1>8. /\ IsFiniteSet(Live) /\ Cardinality(Live) \in Nat
      /\ Cardinality(Live) <= 1 + Cardinality(Processes) + Cardinality(Threads)
  BY <1>1, <1>2, <1>4, <1>5, <1>6, <1>7
<1>9. CASE Inodes \subseteq Live
  <2>1. Cardinality(Inodes) <= Cardinality(Live)
    BY <1>8, <1>9, FS_Subset
  <2>2. Cardinality(Inodes) \in Nat
    BY ManifestAssumption, FS_CardinalityType
  <2>. QED
    BY <2>1, <2>2, <1>7, <1>8, ManifestAssumption
<1>. QED
  BY <1>9 DEF Unused

-----------------------------------------------------------------------------
(* write_manifest and the steps of the environment.                        *)

LEMMA KeepKeeps ==
  ASSUME NEW content, content \in [Inodes -> Manifest \cup {Truncated}],
         \A i \in Inodes : content[i] # Truncated => Proper(content[i]),
         Keep(content)
  PROVE  FilesOK'
BY DEF Keep, FilesOK

LEMMA OpenKeeps ==
  ASSUME ManifestInv, NEW t \in Threads, OpenTmp(t)
  PROVE  ManifestInv'
<1>. DEFINE i == IF tmp[ProcessOf[t]] = NoInode THEN CHOOSE x \in Unused : TRUE
                 ELSE tmp[ProcessOf[t]]
<1>1. /\ tmp' = [tmp EXCEPT ![ProcessOf[t]] = i]
      /\ file' = [file EXCEPT ![i] = Truncated]
      /\ thread' = [thread EXCEPT ![t].pc = "write", ![t].fd = i]
      /\ UNCHANGED <<path, saved, resolved>>
  BY DEF OpenTmp
<1>2. ProcessOf[t] \in Processes
  BY ManifestAssumption
<1>3. i \in Inodes
  <2>1. (CHOOSE x \in Unused : TRUE) \in Unused
    BY SomeInodeIsFree DEF ManifestInv
  <2>. QED
    BY <1>2, <2>1 DEF Unused, ManifestInv, NamesOK, Inode
<1>. HIDE DEF i
<1>4. NamesOK'
  BY <1>1, <1>3 DEF ManifestInv, NamesOK, Inode
<1>5. FilesOK'
  BY <1>1, <1>3 DEF ManifestInv, FilesOK
<1>6. ThreadsOK'
  <2>1. PICK op : op = [thread[t] EXCEPT !.pc = "write", !.fd = i]
    OBVIOUS
  <2>2. op \in Operation /\ op.copy = thread[t].copy
    BY <2>1, <1>3 DEF ManifestInv, ThreadsOK, Operation, Inode
  <2>3. thread' = [thread EXCEPT ![t] = op]
    BY <1>1, <2>1 DEF ManifestInv, ThreadsOK
  <2>. QED
    BY <2>2, <2>3 DEF ManifestInv, ThreadsOK
<1>. QED
  BY <1>1, <1>4, <1>5, <1>6 DEF ManifestInv, HistoryOK

LEMMA WriteKeeps ==
  ASSUME ManifestInv, NEW t \in Threads, WriteTmp(t)
  PROVE  ManifestInv'
<1>1. ThreadsOK'
  <2>1. PICK op : op = [thread[t] EXCEPT !.pc = "rename", !.fd = NoInode]
    OBVIOUS
  <2>2. op \in Operation /\ op.copy = thread[t].copy
    BY <2>1 DEF ManifestInv, ThreadsOK, Operation, Inode
  <2>3. thread' = [thread EXCEPT ![t] = op]
    BY <2>1 DEF WriteTmp, ManifestInv, ThreadsOK
  <2>. QED
    BY <2>2, <2>3 DEF ManifestInv, ThreadsOK
<1>2. FilesOK'
  <2>1. PICK content : content = [file EXCEPT ![thread[t].fd] = thread[t].copy]
    OBVIOUS
  <2>2. /\ content \in [Inodes -> Manifest \cup {Truncated}]
        /\ \A i \in Inodes : content[i] # Truncated => Proper(content[i])
    BY <2>1 DEF ManifestInv, FilesOK, ThreadsOK, Proper, Stored
  <2>3. Keep(content)
    BY <2>1 DEF WriteTmp
  <2>. QED
    BY <2>2, <2>3, KeepKeeps
<1>. QED
  BY <1>1, <1>2 DEF WriteTmp, ManifestInv, NamesOK, HistoryOK

LEMMA KeepFile ==
  ASSUME FilesOK, Keep(file)
  PROVE  FilesOK'
BY KeepKeeps DEF FilesOK

LEMMA FailKeeps ==
  ASSUME ManifestInv, NEW t \in Threads, WriteFails(t)
  PROVE  ManifestInv'
<1>1. ThreadsOK'
  BY FinishKeeps DEF WriteFails, FailedResult, ManifestInv
<1>2. NamesOK'
  BY DEF WriteFails, ManifestInv, NamesOK, Inode
<1>3. FilesOK'
  BY KeepFile DEF WriteFails, ManifestInv
<1>. QED
  BY <1>1, <1>2, <1>3 DEF WriteFails, ManifestInv, HistoryOK

LEMMA RememberKeeps ==
  ASSUME HistoryOK, NEW op \in Operation, Remember(op)
  PROVE  HistoryOK'
<1>1. op.policy \in Policies \cup {"none"}
  BY DEF Operation
<1>. QED
  BY <1>1 DEF Remember, HistoryOK

LEMMA RenameKeeps ==
  ASSUME ManifestInv, NEW t \in Threads, Rename(t)
  PROVE  ManifestInv'
<1>0. ProcessOf[t] \in Processes
  BY ManifestAssumption
<1>1. FilesOK'
  BY KeepFile DEF Rename, ManifestInv
<1>2. CASE tmp[ProcessOf[t]] = NoInode
  <2>1. Finish(t, FailedResult(t)) /\ UNCHANGED <<path, tmp, saved, resolved>>
    BY <1>2 DEF Rename
  <2>2. ThreadsOK'
    BY <2>1, FinishKeeps DEF FailedResult, ManifestInv
  <2>. QED
    BY <1>1, <2>1, <2>2 DEF ManifestInv, NamesOK, HistoryOK
<1>3. CASE tmp[ProcessOf[t]] # NoInode
  <2>1. /\ path' = tmp[ProcessOf[t]]
        /\ tmp' = [tmp EXCEPT ![ProcessOf[t]] = NoInode]
        /\ Finish(t, IF thread[t].kind = "apply" THEN "saved" ELSE "deny")
        /\ Remember(thread[t])
    BY <1>3 DEF Rename
  <2>2. ThreadsOK'
    BY <2>1, FinishKeeps DEF ManifestInv
  <2>3. HistoryOK'
    BY <2>1, RememberKeeps DEF ManifestInv, ThreadsOK
  <2>4. NamesOK'
    BY <1>0, <2>1 DEF ManifestInv, NamesOK, Inode
  <2>. QED
    BY <1>1, <2>2, <2>3, <2>4 DEF ManifestInv
<1>. QED
  BY <1>2, <1>3

LEMMA KillKeeps ==
  ASSUME ManifestInv, NEW p \in Processes, Killed(p)
  PROVE  ManifestInv'
<1>1. ThreadsOK'
  BY NoOperationIs, EmptyIsStored DEF Killed, ManifestInv, ThreadsOK, Proper
<1>2. FilesOK'
  BY KeepFile DEF Killed, ManifestInv
<1>. QED
  BY <1>1, <1>2 DEF Killed, ManifestInv, NamesOK, HistoryOK

LEMMA RemoveKeeps ==
  ASSUME ManifestInv, RemoveManifest
  PROVE  ManifestInv'
<1>1. FilesOK'
  BY KeepFile DEF RemoveManifest, ManifestInv
<1>2. NamesOK' /\ HistoryOK'
  BY DEF RemoveManifest, NamesOK, HistoryOK, Inode
<1>. QED
  BY <1>1, <1>2 DEF RemoveManifest, ManifestInv, ThreadsOK

LEMMA WriterKeeps ==
  ASSUME ManifestInv, NEW t \in Threads,
         OpenTmp(t) \/ WriteTmp(t) \/ WriteFails(t) \/ Rename(t)
  PROVE  ManifestInv'
BY OpenKeeps, WriteKeeps, FailKeeps, RenameKeeps

LEMMA AskedAreRules ==
  ASSUME NEW r \in Asked
  PROVE  r \in AccessRequest /\ r \in Rule /\ HostScope(r) \in Rule
<1>1. r \in AccessRequest
  BY ManifestAssumption
<1>. QED
  BY <1>1 DEF HostScope, AccessRequest, Rule

LEMMA InvInit == Init => ManifestInv
<1>. SUFFICES ASSUME Init PROVE ManifestInv
  OBVIOUS
<1>1. NamesOK /\ FilesOK /\ HistoryOK
  BY DEF Init, NamesOK, FilesOK, HistoryOK, Inode
<1>2. ThreadsOK
  BY NoOperationIs, EmptyIsStored DEF Init, ThreadsOK, Proper
<1>. QED
  BY <1>1, <1>2 DEF ManifestInv

LEMMA InvStep == ManifestInv /\ [Next]_mvars => ManifestInv'
<1>. SUFFICES ASSUME ManifestInv, [Next]_mvars PROVE ManifestInv'
  OBVIOUS
<1>1. ASSUME NEW t \in Threads, Edit(t) PROVE ManifestInv'
  BY <1>1, ApplyKeeps, ManifestAssumption DEF Edit
<1>2. ASSUME NEW t \in Threads, Resolve(t) PROVE ManifestInv'
  BY <1>2, ApplyKeeps, AskedAreRules, ManifestAssumption DEF Resolve
<1>3. ASSUME NEW t \in Threads, EvaluateSome(t) PROVE ManifestInv'
  BY <1>3, EvaluateKeeps, AskedAreRules DEF EvaluateSome
<1>4. CASE UNCHANGED mvars
  BY <1>4 DEF mvars, ManifestInv, NamesOK, FilesOK, ThreadsOK, HistoryOK
<1>. QED
  BY <1>1, <1>2, <1>3, <1>4, WriterKeeps, KillKeeps, RemoveKeeps DEF Next

LEMMA ManifestInvariant == Spec => []ManifestInv
BY InvInit, InvStep, PTL DEF Spec

(***************************************************************************)
(* Whatever threads and processes do to the manifest, killed anywhere and  *)
(* sharing temporary files, what load_manifest reads is well formed and    *)
(* fits the arrays and the buffer of access_policy.c, whose sizes are      *)
(* checked on each copy before it is written.                              *)
(***************************************************************************)
THEOREM ManifestFits == Spec => []MTypeOK
BY ManifestInvariant, InvImplies, PTL

(***************************************************************************)
(* No request waits for a decision that the manifest holds, for any rules  *)
(* and any order of evaluations and decisions: remove_pending drops all    *)
(* that the new rule covers, and the rule changes no other decision.       *)
(***************************************************************************)
THEOREM PendingRequestsAreOpen == Spec => []PendingIsUndecided
BY ManifestInvariant, InvImplies, PTL

-----------------------------------------------------------------------------
(* Torn files: what a thread is about to rename has been written, unless   *)
(* another thread of its process has emptied it meanwhile.                 *)

NamesApart ==
  \A p \in Processes : tmp[p] # NoInode =>
    tmp[p] # path /\ \A q \in Processes : tmp[q] = tmp[p] => q = p

\* A temporary file that is empty, and that a thread may rename without writing
\* it first, is one that two threads have opened.
EmptiedIsShared ==
  \A t \in Threads :
    /\ Writing(t)
    /\ tmp[ProcessOf[t]] # NoInode
    /\ file[tmp[ProcessOf[t]]] = Truncated
    /\ thread[t].pc = "write" => thread[t].fd # tmp[ProcessOf[t]]
    => tmp[ProcessOf[t]] \in shared

Whole == NeverTorn /\ NamesApart /\ EmptiedIsShared

\* The steps that write nothing: an operation starts or ends, a temporary file
\* may lose its name, and a file that has a name keeps its content.
Recedes ==
  /\ path' = path
  /\ \A p \in Processes : tmp'[p] \in {tmp[p], NoInode}
  /\ \A i \in Inodes : (i = path \/ \E p \in Processes : tmp'[p] = i) => file'[i] = file[i]
  /\ \A u \in Threads : thread'[u] = thread[u] \/ thread'[u].pc \in {"idle", "open"}

\* A mark stays until the file is opened again or written.
LEMMA MarksStay ==
  ASSUME Record, NEW i \in Inodes, i \in shared,
         \A u \in Threads : Opens(u) => thread'[u].fd # i,
         \A u \in Threads : Writes(u) => thread[u].fd # i
  PROVE  i \in shared'
BY DEF Record

LEMMA NothingOpened ==
  ASSUME \A u \in Threads : thread'[u] = thread[u] \/ thread'[u].pc \in {"idle", "open"}
  PROVE  \A u \in Threads : ~Opens(u) /\ ~Writes(u)
BY DEF Opens, Writes

LEMMA FinishOperation ==
  ASSUME NEW t, NEW result \in {"none", "approve", "deny", "saved", "failed"},
         Finish(t, result)
  PROVE  \E op : /\ thread' = [thread EXCEPT ![t] = op]
                 /\ op.pc = "idle" /\ op.fd = NoInode /\ op.result = result
BY IdleIs DEF Finish

LEMMA OneRecedes ==
  ASSUME ManifestInv, NEW t \in Threads, NEW op, thread' = [thread EXCEPT ![t] = op],
         op.pc \in {"idle", "open"}, UNCHANGED <<path, tmp, file>>
  PROVE  Recedes
<1>1. thread'[t] = op /\ \A u \in Threads \ {t} : thread'[u] = thread[u]
  BY DEF ManifestInv, ThreadsOK
<1>. QED
  BY <1>1 DEF Recedes

LEMMA ApplyRecedes ==
  ASSUME ManifestInv, NEW t \in Threads, NEW rule, NEW policy, NEW for,
         ApplyPolicy(t, rule, policy, for)
  PROVE  Recedes
<1>1. PICK n : n = RemovePending(SetPolicy(Load, rule, policy), rule)
  OBVIOUS
<1>2. CASE PoliciesAreFull(Load, rule) \/ ~FitsInFile(n)
  <2>1. Finish(t, "failed")
    BY <1>1, <1>2 DEF ApplyPolicy
  <2>. QED
    BY <2>1, FinishOperation, OneRecedes DEF ApplyPolicy
<1>3. CASE ~(PoliciesAreFull(Load, rule) \/ ~FitsInFile(n))
  <2>1. PICK op : op = [NoOperation EXCEPT !.pc = "open", !.kind = "apply",
                          !.rule = rule, !.policy = policy, !.for = for, !.copy = n]
    OBVIOUS
  <2>2. op.pc = "open"
    BY <2>1, NoOperationIs DEF Operation
  <2>3. thread' = [thread EXCEPT ![t] = op]
    BY <1>1, <1>3, <2>1 DEF ApplyPolicy
  <2>. QED
    BY <2>2, <2>3, OneRecedes DEF ApplyPolicy
<1>. QED
  BY <1>2, <1>3

LEMMA EvaluateRecedes ==
  ASSUME ManifestInv, NEW t \in Threads, NEW r, Evaluate(t, r)
  PROVE  Recedes
<1>1. PICK n : n = AddPending(Load, r)
  OBVIOUS
<1>2. CASE Decided(Load, r) \/ PendingIsFull(Load, r) \/ ~FitsInFile(n)
  <2>1. Finish(t, "approve") \/ Finish(t, "deny")
    BY <1>1, <1>2 DEF Evaluate, Decided
  <2>. QED
    BY <2>1, FinishOperation, OneRecedes DEF Evaluate
<1>3. CASE ~(Decided(Load, r) \/ PendingIsFull(Load, r) \/ ~FitsInFile(n))
  <2>1. PICK op : op = [NoOperation EXCEPT !.pc = "open", !.kind = "evaluate",
                          !.for = r, !.copy = n]
    OBVIOUS
  <2>2. op.pc = "open"
    BY <2>1, NoOperationIs DEF Operation
  <2>3. thread' = [thread EXCEPT ![t] = op]
    BY <1>1, <1>3, <2>1 DEF Evaluate, Decided
  <2>. QED
    BY <2>2, <2>3, OneRecedes DEF Evaluate
<1>. QED
  BY <1>2, <1>3

\* A file that has a name keeps its content.
LEMMA KeptContent ==
  ASSUME NEW content, Keep(content), NEW i \in Inodes,
         \/ i = path'
         \/ \E p \in Processes : i = tmp'[p]
  PROVE  file'[i] = content[i]
BY DEF Keep, Live

LEMMA FailRecedes ==
  ASSUME ManifestInv, NEW t \in Threads, WriteFails(t)
  PROVE  Recedes
<1>1. path' = path /\ Keep(file)
  BY DEF WriteFails
<1>2. \A p \in Processes : tmp'[p] \in {tmp[p], NoInode}
  BY DEF WriteFails, ManifestInv, NamesOK
<1>3. PICK op : thread' = [thread EXCEPT ![t] = op] /\ op.pc = "idle"
  BY FinishOperation DEF WriteFails, FailedResult
<1>4. \A u \in Threads : thread'[u] = thread[u] \/ thread'[u].pc \in {"idle", "open"}
  BY <1>3 DEF ManifestInv, ThreadsOK
<1>. QED
  BY <1>1, <1>2, <1>4, KeptContent DEF Recedes

LEMMA NoNameRecedes ==
  ASSUME ManifestInv, NEW t \in Threads, Rename(t), tmp[ProcessOf[t]] = NoInode
  PROVE  Recedes
<1>1. path' = path /\ tmp' = tmp /\ Keep(file) /\ Finish(t, FailedResult(t))
  BY DEF Rename
<1>2. PICK op : thread' = [thread EXCEPT ![t] = op] /\ op.pc = "idle"
  BY <1>1, FinishOperation DEF FailedResult
<1>3. \A u \in Threads : thread'[u] = thread[u] \/ thread'[u].pc \in {"idle", "open"}
  BY <1>2 DEF ManifestInv, ThreadsOK
<1>. QED
  BY <1>1, <1>3, KeptContent DEF Recedes

LEMMA KillRecedes ==
  ASSUME ManifestInv, NEW p \in Processes, Killed(p)
  PROVE  Recedes
<1>1. path' = path /\ tmp' = tmp /\ Keep(file)
  BY DEF Killed
<1>2. \A u \in Threads : thread'[u] = thread[u] \/ thread'[u].pc \in {"idle", "open"}
  BY NoOperationIs DEF Killed
<1>. QED
  BY <1>1, <1>2, KeptContent DEF Recedes

LEMMA RecedingIsWhole ==
  ASSUME ManifestInv, Whole, Record, Recedes
  PROVE  Whole'
<1>1. \A u \in Threads : ~Opens(u) /\ ~Writes(u)
  BY NothingOpened DEF Recedes
<1>2. \A i \in Inodes : i \in shared => i \in shared'
  BY <1>1, MarksStay
<1>3. NeverTorn'
  BY <1>2 DEF Recedes, Whole, NeverTorn, ManifestInv, NamesOK, Inode
<1>4. NamesApart'
  BY DEF Recedes, Whole, NamesApart
<1>5. EmptiedIsShared'
  <2>. SUFFICES ASSUME NEW u \in Threads, Writing(u)', tmp'[ProcessOf[u]] # NoInode,
                       file'[tmp'[ProcessOf[u]]] = Truncated,
                       thread'[u].pc = "write" => thread'[u].fd # tmp'[ProcessOf[u]]
                PROVE  tmp'[ProcessOf[u]] \in shared'
    BY DEF EmptiedIsShared
  <2>1. thread'[u] = thread[u] /\ Writing(u)
    BY DEF Recedes, Writing
  <2>2. ProcessOf[u] \in Processes
    BY ManifestAssumption
  <2>3. tmp'[ProcessOf[u]] = tmp[ProcessOf[u]] /\ tmp[ProcessOf[u]] \in Inodes
    BY <2>2 DEF Recedes, ManifestInv, NamesOK, Inode
  <2>4. file'[tmp[ProcessOf[u]]] = file[tmp[ProcessOf[u]]]
    BY <2>2, <2>3 DEF Recedes
  <2>. QED
    BY <1>2, <2>1, <2>3, <2>4 DEF Whole, EmptiedIsShared
<1>. QED
  BY <1>3, <1>4, <1>5 DEF Whole

LEMMA OpenIs ==
  ASSUME ManifestInv, NEW t \in Threads, OpenTmp(t)
  PROVE  \E i \in Inodes :
           /\ tmp[ProcessOf[t]] = NoInode => i \in Unused
           /\ tmp[ProcessOf[t]] # NoInode => i = tmp[ProcessOf[t]]
           /\ tmp' = [tmp EXCEPT ![ProcessOf[t]] = i]
           /\ file' = [file EXCEPT ![i] = Truncated]
           /\ thread' = [thread EXCEPT ![t].pc = "write", ![t].fd = i]
           /\ path' = path
<1>. DEFINE i == IF tmp[ProcessOf[t]] = NoInode THEN CHOOSE x \in Unused : TRUE
                 ELSE tmp[ProcessOf[t]]
<1>1. /\ tmp' = [tmp EXCEPT ![ProcessOf[t]] = i]
      /\ file' = [file EXCEPT ![i] = Truncated]
      /\ thread' = [thread EXCEPT ![t].pc = "write", ![t].fd = i]
      /\ path' = path
  BY DEF OpenTmp
<1>2. ProcessOf[t] \in Processes
  BY ManifestAssumption
<1>3. /\ i \in Inodes
      /\ tmp[ProcessOf[t]] = NoInode => i \in Unused
      /\ tmp[ProcessOf[t]] # NoInode => i = tmp[ProcessOf[t]]
  <2>1. (CHOOSE x \in Unused : TRUE) \in Unused
    BY SomeInodeIsFree DEF ManifestInv
  <2>. QED
    BY <1>2, <2>1 DEF Unused, ManifestInv, NamesOK, Inode
<1>. HIDE DEF i
<1>. QED
  BY <1>1, <1>3

\* What the opening of the temporary file changes, i being its inode.
Opened(t, i) ==
  /\ i \in Inodes /\ i # path /\ path' = path
  /\ thread[t].pc = "open"
  /\ tmp[ProcessOf[t]] = NoInode => i \notin {thread[u].fd : u \in Threads}
  /\ tmp[ProcessOf[t]] \in {NoInode, i}
  /\ \A p \in Processes : tmp[p] = i => p = ProcessOf[t]
  /\ tmp'[ProcessOf[t]] = i
  /\ \A p \in Processes \ {ProcessOf[t]} : tmp'[p] = tmp[p]
  /\ file'[i] = Truncated
  /\ \A j \in Inodes \ {i} : file'[j] = file[j]
  /\ thread'[t] = [thread[t] EXCEPT !.pc = "write", !.fd = i]
  /\ thread'[t].pc = "write" /\ thread'[t].fd = i
  /\ \A u \in Threads \ {t} : thread'[u] = thread[u]

LEMMA OpenOpens ==
  ASSUME ManifestInv, NamesApart, NEW t \in Threads, OpenTmp(t)
  PROVE  \E i : Opened(t, i)
<1>0. ProcessOf[t] \in Processes /\ thread[t].pc = "open" /\ NoInode \notin Inodes
  BY ManifestAssumption DEF OpenTmp
<1>1. PICK i \in Inodes :
        /\ tmp[ProcessOf[t]] = NoInode => i \in Unused
        /\ tmp[ProcessOf[t]] # NoInode => i = tmp[ProcessOf[t]]
        /\ tmp' = [tmp EXCEPT ![ProcessOf[t]] = i]
        /\ file' = [file EXCEPT ![i] = Truncated]
        /\ thread' = [thread EXCEPT ![t].pc = "write", ![t].fd = i]
        /\ path' = path
  BY OpenIs
<1>2. /\ tmp'[ProcessOf[t]] = i
      /\ \A p \in Processes \ {ProcessOf[t]} : tmp'[p] = tmp[p]
      /\ \A u \in Threads \ {t} : thread'[u] = thread[u]
      /\ file'[i] = Truncated
      /\ \A j \in Inodes \ {i} : file'[j] = file[j]
  BY <1>0, <1>1 DEF ManifestInv, NamesOK, ThreadsOK, FilesOK
<1>3. /\ thread'[t] = [thread[t] EXCEPT !.pc = "write", !.fd = i]
      /\ thread'[t].pc = "write" /\ thread'[t].fd = i
  BY <1>1 DEF ManifestInv, ThreadsOK, Operation
<1>4. i # path /\ \A p \in Processes : tmp[p] = i => p = ProcessOf[t]
  BY <1>0, <1>1 DEF NamesApart, Unused, Live
<1>5. tmp[ProcessOf[t]] = NoInode => i \notin {thread[u].fd : u \in Threads}
  BY <1>1 DEF Unused, Live
<1>. QED
  BY <1>0, <1>1, <1>2, <1>3, <1>4, <1>5 DEF Opened

LEMMA OpeningIsWhole ==
  ASSUME ManifestInv, Whole, Record, NEW t \in Threads, NEW i, Opened(t, i)
  PROVE  Whole'
<1>0. /\ ProcessOf[t] \in Processes /\ NoInode \notin Inodes
      /\ \A u \in Threads : ProcessOf[u] \in Processes
  BY ManifestAssumption
<1>1. /\ \A u \in Threads : Opens(u) <=> u = t
      /\ \A u \in Threads : ~Writes(u)
  BY DEF Opened, Opens, Writes
<1>2. \A j \in Inodes \ {i} : j \in shared => j \in shared'
  BY <1>1, MarksStay DEF Opened
<1>3. Company(t) # {} => i \in shared'
  BY <1>1 DEF Record, Opened
<1>4. NeverTorn'
  BY <1>2 DEF Opened, Whole, NeverTorn, ManifestInv, NamesOK, Inode
<1>5. NamesApart'
  <2>. SUFFICES ASSUME NEW p \in Processes, tmp'[p] # NoInode
                PROVE  /\ tmp'[p] # path
                       /\ \A q \in Processes : tmp'[q] = tmp'[p] => q = p
    BY DEF NamesApart, Opened
  <2>1. CASE p = ProcessOf[t]
    BY <1>0, <2>1 DEF Opened
  <2>2. CASE p # ProcessOf[t]
    BY <1>0, <2>2 DEF Opened, Whole, NamesApart
  <2>. QED
    BY <2>1, <2>2
<1>6. EmptiedIsShared'
  <2>. SUFFICES ASSUME NEW u \in Threads, Writing(u)', tmp'[ProcessOf[u]] # NoInode,
                       file'[tmp'[ProcessOf[u]]] = Truncated,
                       thread'[u].pc = "write" => thread'[u].fd # tmp'[ProcessOf[u]]
                PROVE  tmp'[ProcessOf[u]] \in shared'
    BY DEF EmptiedIsShared
  <2>1. u # t
    BY DEF Opened
  <2>2. thread'[u] = thread[u] /\ Writing(u)
    BY <2>1 DEF Opened, Writing
  <2>3. CASE ProcessOf[u] = ProcessOf[t]
    <3>1. u \in Company(t)
      BY <2>1, <2>2, <2>3 DEF Company
    <3>. QED
      BY <1>3, <2>3, <3>1 DEF Opened
  <2>4. CASE ProcessOf[u] # ProcessOf[t]
    <3>1. tmp'[ProcessOf[u]] = tmp[ProcessOf[u]] /\ tmp[ProcessOf[u]] # i
      BY <1>0, <2>4 DEF Opened
    <3>2. tmp[ProcessOf[u]] \in Inodes \ {i}
      BY <1>0, <3>1 DEF ManifestInv, NamesOK, Inode
    <3>3. file'[tmp[ProcessOf[u]]] = file[tmp[ProcessOf[u]]]
      BY <3>2 DEF Opened
    <3>. QED
      BY <1>2, <2>2, <3>1, <3>2, <3>3 DEF Whole, EmptiedIsShared
  <2>. QED
    BY <2>3, <2>4
<1>. QED
  BY <1>4, <1>5, <1>6 DEF Whole

\* What a write to the open file changes.
Written(t) ==
  /\ path' = path /\ tmp' = tmp
  /\ thread[t].pc = "write"
  /\ thread'[t] = [thread[t] EXCEPT !.pc = "rename", !.fd = NoInode]
  /\ thread'[t].pc = "rename"
  /\ \A u \in Threads \ {t} : thread'[u] = thread[u]
  /\ thread[t].copy # Truncated
  /\ \A i \in Inodes : (i = path \/ \E p \in Processes : tmp[p] = i) =>
       file'[i] = IF i = thread[t].fd THEN thread[t].copy ELSE file[i]
  /\ \A i \in Inodes : file'[i] \in {file[i], thread[t].copy, Truncated}

LEMMA WriteWrites ==
  ASSUME ManifestInv, NEW t \in Threads, WriteTmp(t)
  PROVE  Written(t)
<1>1. path' = path /\ tmp' = tmp /\ thread[t].pc = "write"
  BY DEF WriteTmp
<1>2. PICK content : content = [file EXCEPT ![thread[t].fd] = thread[t].copy]
  OBVIOUS
<1>3. Keep(content)
  BY <1>2 DEF WriteTmp
<1>4. \A i \in Inodes : content[i] = IF i = thread[t].fd THEN thread[t].copy ELSE file[i]
  BY <1>2 DEF ManifestInv, FilesOK
<1>5. thread[t].copy # Truncated
  BY ManifestAssumption DEF ManifestInv, ThreadsOK, Operation
<1>6. /\ thread'[t] = [thread[t] EXCEPT !.pc = "rename", !.fd = NoInode]
      /\ thread'[t].pc = "rename"
      /\ \A u \in Threads \ {t} : thread'[u] = thread[u]
  BY DEF WriteTmp, ManifestInv, ThreadsOK, Operation
<1>7. \A i \in Inodes : (i = path \/ \E p \in Processes : tmp[p] = i) =>
        file'[i] = content[i]
  BY <1>1, <1>3, KeptContent
<1>8. \A i \in Inodes : file'[i] \in {content[i], Truncated}
  BY <1>3 DEF Keep
<1>. QED
  BY <1>1, <1>4, <1>5, <1>6, <1>7, <1>8 DEF Written

LEMMA WritingIsWhole ==
  ASSUME ManifestInv, Whole, Record, NEW t \in Threads, Written(t)
  PROVE  Whole'
<1>0. \A u \in Threads : ProcessOf[u] \in Processes
  BY ManifestAssumption
<1>1. /\ \A u \in Threads : ~Opens(u)
      /\ \A u \in Threads : Writes(u) => u = t
  BY DEF Written, Opens, Writes
<1>2. \A i \in Inodes : i \in shared /\ i # thread[t].fd => i \in shared'
  BY <1>1, MarksStay
<1>3. NeverTorn'
  BY <1>2 DEF Written, Whole, NeverTorn, ManifestInv, NamesOK, Inode
<1>4. NamesApart'
  BY DEF Written, Whole, NamesApart
<1>5. EmptiedIsShared'
  <2>. SUFFICES ASSUME NEW u \in Threads, Writing(u)', tmp'[ProcessOf[u]] # NoInode,
                       file'[tmp'[ProcessOf[u]]] = Truncated,
                       thread'[u].pc = "write" => thread'[u].fd # tmp'[ProcessOf[u]]
                PROVE  tmp'[ProcessOf[u]] \in shared'
    BY DEF EmptiedIsShared
  <2>1. tmp'[ProcessOf[u]] = tmp[ProcessOf[u]] /\ tmp[ProcessOf[u]] \in Inodes
    BY <1>0 DEF Written, ManifestInv, NamesOK, Inode
  <2>2. /\ tmp[ProcessOf[u]] # thread[t].fd
        /\ file[tmp[ProcessOf[u]]] = Truncated
    BY <1>0, <2>1 DEF Written
  <2>3. Writing(u) /\ (thread[u].pc = "write" => thread[u].fd # tmp[ProcessOf[u]])
    <3>1. CASE u = t
      BY <2>2, <3>1 DEF Written, Writing
    <3>2. CASE u # t
      BY <2>1, <3>2 DEF Written, Writing
    <3>. QED
      BY <3>1, <3>2
  <2>. QED
    BY <1>2, <2>1, <2>2, <2>3 DEF Whole, EmptiedIsShared
<1>. QED
  BY <1>3, <1>4, <1>5 DEF Whole

\* What a rename that finds its file changes.
Renamed(t) ==
  /\ thread[t].pc = "rename"
  /\ path' = tmp[ProcessOf[t]] /\ path' \in Inodes
  /\ tmp'[ProcessOf[t]] = NoInode
  /\ \A p \in Processes \ {ProcessOf[t]} : tmp'[p] = tmp[p]
  /\ \A i \in Inodes : (i = path' \/ \E p \in Processes : tmp'[p] = i) => file'[i] = file[i]
  /\ thread'[t].pc = "idle"
  /\ \A u \in Threads \ {t} : thread'[u] = thread[u]

LEMMA RenameRenames ==
  ASSUME ManifestInv, NEW t \in Threads, Rename(t), tmp[ProcessOf[t]] # NoInode
  PROVE  Renamed(t)
<1>0. ProcessOf[t] \in Processes
  BY ManifestAssumption
<1>1. /\ thread[t].pc = "rename" /\ path' = tmp[ProcessOf[t]]
      /\ tmp' = [tmp EXCEPT ![ProcessOf[t]] = NoInode] /\ Keep(file)
      /\ Finish(t, IF thread[t].kind = "apply" THEN "saved" ELSE "deny")
  BY DEF Rename
<1>2. PICK op : thread' = [thread EXCEPT ![t] = op] /\ op.pc = "idle"
  BY <1>1, FinishOperation
<1>3. thread'[t].pc = "idle" /\ \A u \in Threads \ {t} : thread'[u] = thread[u]
  BY <1>2 DEF ManifestInv, ThreadsOK
<1>4. /\ path' \in Inodes /\ tmp'[ProcessOf[t]] = NoInode
      /\ \A p \in Processes \ {ProcessOf[t]} : tmp'[p] = tmp[p]
  BY <1>0, <1>1 DEF ManifestInv, NamesOK, Inode
<1>5. \A i \in Inodes : (i = path' \/ \E p \in Processes : tmp'[p] = i) => file'[i] = file[i]
  BY <1>1, KeptContent
<1>. QED
  BY <1>1, <1>3, <1>4, <1>5 DEF Renamed

LEMMA RenamingIsWhole ==
  ASSUME ManifestInv, Whole, Record, NEW t \in Threads, Renamed(t)
  PROVE  Whole'
<1>0. /\ NoInode \notin Inodes
      /\ \A u \in Threads : ProcessOf[u] \in Processes
  BY ManifestAssumption
<1>1. \A u \in Threads : ~Opens(u) /\ ~Writes(u)
  BY DEF Renamed, Opens, Writes
<1>2. \A i \in Inodes : i \in shared => i \in shared'
  BY <1>1, MarksStay
<1>3. NeverTorn'
  <2>1. file[path'] = Truncated => path' \in shared
    BY <1>0 DEF Renamed, Whole, EmptiedIsShared, Writing
  <2>. QED
    BY <1>2, <2>1 DEF Renamed, NeverTorn
<1>4. NamesApart'
  BY <1>0 DEF Renamed, Whole, NamesApart
<1>5. EmptiedIsShared'
  <2>. SUFFICES ASSUME NEW u \in Threads, Writing(u)', tmp'[ProcessOf[u]] # NoInode,
                       file'[tmp'[ProcessOf[u]]] = Truncated,
                       thread'[u].pc = "write" => thread'[u].fd # tmp'[ProcessOf[u]]
                PROVE  tmp'[ProcessOf[u]] \in shared'
    BY DEF EmptiedIsShared
  <2>1. u # t /\ thread'[u] = thread[u] /\ Writing(u)
    BY DEF Renamed, Writing
  <2>2. ProcessOf[u] # ProcessOf[t]
    BY DEF Renamed
  <2>3. tmp'[ProcessOf[u]] = tmp[ProcessOf[u]] /\ tmp[ProcessOf[u]] \in Inodes
    BY <1>0, <2>2 DEF Renamed, ManifestInv, NamesOK, Inode
  <2>4. file'[tmp[ProcessOf[u]]] = file[tmp[ProcessOf[u]]]
    BY <1>0, <2>3 DEF Renamed
  <2>. QED
    BY <1>2, <2>1, <2>3, <2>4 DEF Whole, EmptiedIsShared
<1>. QED
  BY <1>3, <1>4, <1>5 DEF Whole

LEMMA RemovingIsWhole ==
  ASSUME Whole, RemoveManifest
  PROVE  Whole'
<1>1. path' = NoInode /\ \A p \in Processes : tmp'[p] = NoInode
  BY DEF RemoveManifest
<1>2. \A u \in Threads : ProcessOf[u] \in Processes
  BY ManifestAssumption
<1>. QED
  BY <1>1, <1>2 DEF Whole, NeverTorn, NamesApart, EmptiedIsShared

LEMMA WholeInit == HInit => Whole
<1>. SUFFICES ASSUME HInit PROVE Whole
  OBVIOUS
<1>1. \A t \in Threads : thread[t].pc = "idle"
  BY NoOperationIs DEF HInit, Init
<1>. QED
  BY <1>1 DEF HInit, Init, Whole, NeverTorn, NamesApart, EmptiedIsShared, Writing

LEMMA WholeSame ==
  ASSUME Whole, UNCHANGED hvars
  PROVE  Whole'
BY DEF hvars, mvars, Whole, NeverTorn, NamesApart, EmptiedIsShared, Writing

\* Every step that neither writes nor renames nor removes anything recedes.
LEMMA StepForms ==
  ASSUME ManifestInv, NamesApart, Next
  PROVE  \/ Recedes
         \/ \E t \in Threads : \E i : Opened(t, i)
         \/ \E t \in Threads : Written(t) \/ Renamed(t)
         \/ RemoveManifest
<1>1. ASSUME NEW t \in Threads, Edit(t) \/ Resolve(t) \/ EvaluateSome(t)
      PROVE  Recedes
  BY <1>1, ApplyRecedes, EvaluateRecedes DEF Edit, Resolve, EvaluateSome
<1>2. ASSUME NEW t \in Threads, Rename(t) PROVE Recedes \/ Renamed(t)
  BY <1>2, NoNameRecedes, RenameRenames
<1>. QED
  BY <1>1, <1>2, OpenOpens, WriteWrites, FailRecedes, KillRecedes DEF Next

LEMMA WholeStep == ManifestInv /\ Whole /\ [HNext]_hvars => Whole'
<1>. SUFFICES ASSUME ManifestInv, Whole, HNext PROVE Whole'
  BY WholeSame
<1>1. Record /\ Next /\ NamesApart
  BY DEF HNext, Whole
<1>. QED
  BY <1>1, StepForms, RecedingIsWhole, OpeningIsWhole, WritingIsWhole, RenamingIsWhole,
     RemovingIsWhole

LEMMA HistoryInvariant == HSpec => []ManifestInv
<1>1. HInit => ManifestInv
  BY InvInit DEF HInit
<1>2. ManifestInv /\ [HNext]_hvars => ManifestInv'
  <2>1. [HNext]_hvars => [Next]_mvars
    BY DEF HNext, hvars
  <2>. QED
    BY <2>1, InvStep
<1>. QED
  BY <1>1, <1>2, PTL DEF HSpec

(***************************************************************************)
(* No reader finds the manifest half written, for any number of threads    *)
(* and processes, killed at any point and with temporary files of dead     *)
(* ones lying about, except where two threads of one process were in       *)
(* write_manifest at once and one renamed the file that the other had      *)
(* emptied.                                                                *)
(***************************************************************************)
THEOREM ManifestIsWhole == HSpec => []NeverTorn
<1>1. Whole => NeverTorn
  BY DEF Whole
<1>. QED
  BY <1>1, WholeStep, WholeInit, HistoryInvariant, PTL DEF HSpec

-----------------------------------------------------------------------------
(* Decisions: what was saved stays, unless an operation replaced what it   *)
(* had not read or two threads met in a temporary file.                    *)

Holds(m, rule, policy) == \E i \in RuleSlots(m, rule) : m.policies[i].policy = policy

\* No rule has two entries.
Unrepeated(m) ==
  \A i, j \in DOMAIN m.policies : m.policies[i].rule = m.policies[j].rule => i = j

LEMMA SamePolicies ==
  ASSUME NEW m, NEW n, n.policies = m.policies
  PROVE  /\ Unrepeated(m) => Unrepeated(n)
         /\ \A rule, policy : Holds(m, rule, policy) => Holds(n, rule, policy)
BY DEF Unrepeated, Holds, RuleSlots

\* set_policy: the rule has its policy, and the other rules have theirs.
LEMMA SetPolicyHolds ==
  ASSUME NEW m \in Manifest, Unrepeated(m), NEW rule \in Rule, NEW policy \in Policies,
         NEW n, n = SetPolicy(m, rule, policy)
  PROVE  /\ Unrepeated(n) /\ Holds(n, rule, policy)
         /\ \A other, p : other # rule /\ Holds(m, other, p) => Holds(n, other, p)
<1>. DEFINE entry == [rule |-> rule, policy |-> policy]
<1>2. entry.rule = rule /\ entry.policy = policy /\ entry \in PolicyEntry
  BY DEF PolicyEntry
<1>. HIDE DEF entry
<1>3. /\ m.policies \in Seq(PolicyEntry) /\ Len(m.policies) \in Nat
      /\ DOMAIN m.policies = 1..Len(m.policies)
  BY ManifestFields
<1>4. /\ n = [policies |-> n.policies, pending |-> m.pending]
      /\ \/ RuleSlots(m, rule) = {} /\ n.policies = Append(m.policies, entry)
         \/ \E k \in RuleSlots(m, rule) : n.policies = [m.policies EXCEPT ![k] = entry]
  BY SetPolicyForm DEF entry
<1>5. CASE RuleSlots(m, rule) = {} /\ n.policies = Append(m.policies, entry)
  <2>1. /\ DOMAIN n.policies = DOMAIN m.policies \cup {Len(m.policies) + 1}
        /\ n.policies[Len(m.policies) + 1] = entry
        /\ \A i \in DOMAIN m.policies : n.policies[i] = m.policies[i]
    BY <1>2, <1>3, <1>5
  <2>2. \A i \in DOMAIN m.policies : m.policies[i].rule # rule
    BY <1>5 DEF RuleSlots
  <2>. QED
    BY <1>2, <2>1, <2>2 DEF Unrepeated, Holds, RuleSlots
<1>6. ASSUME NEW k \in RuleSlots(m, rule), n.policies = [m.policies EXCEPT ![k] = entry]
      PROVE  /\ Unrepeated(n) /\ Holds(n, rule, policy)
             /\ \A other, p : other # rule /\ Holds(m, other, p) => Holds(n, other, p)
  <2>1. /\ k \in DOMAIN m.policies /\ m.policies[k].rule = rule
        /\ DOMAIN n.policies = DOMAIN m.policies /\ n.policies[k] = entry
        /\ \A i \in DOMAIN m.policies \ {k} : n.policies[i] = m.policies[i]
    BY <1>3, <1>6 DEF RuleSlots
  <2>. QED
    BY <1>2, <2>1 DEF Unrepeated, Holds, RuleSlots
<1>. QED
  BY <1>4, <1>5, <1>6

\* A host-scoped rule covers the request that it was made for.
LEMMA HostMatches ==
  ASSUME NEW r \in Asked
  PROVE  Matches(HostScope(r), r) /\ HostScope(r) \in AllRules
<1>1. r \in AccessRequest
  BY ManifestAssumption
<1>2. CASE r.kind = "http"
  BY <1>1, <1>2
  DEF HostScope, AccessRequest, Matches, SubjectMatches, FieldMatches, AllRules
<1>3. CASE r.kind # "http"
  BY <1>1, <1>3
  DEF HostScope, AccessRequest, Matches, SubjectMatches, FieldMatches, AllRules
<1>. QED
  BY <1>2, <1>3

\* What an operation is about, and that its copy has its own decision.
Decides(op) ==
  op.pc # "idle" /\ op.kind = "apply" =>
    /\ op.rule \in AllRules
    /\ Holds(op.copy, op.rule, op.policy)
    /\ op.for # NoRequest => op.for \in Asked /\ op.rule = HostScope(op.for)

\* The copy of an operation has the decisions that were saved; it may replace one.
Carries(op) ==
  op.pc # "idle" => \A rule \in AllRules : saved[rule] # "none" =>
    Holds(op.copy, rule, saved[rule]) \/ (op.kind = "apply" /\ rule = op.rule)

OneEntryEach ==
  /\ \A i \in Inodes : file[i] # Truncated => Unrepeated(file[i])
  /\ \A t \in Threads : Unrepeated(thread[t].copy)

AllDecide == \A t \in Threads : Decides(thread[t])

ResolvedIsSaved ==
  \A r \in Asked : resolved[r] # "none" => saved[HostScope(r)] = resolved[r]

\* Without a race, a thread in write_manifest has its temporary file to itself and
\* an operation that is not stale carries what was saved.
Alone ==
  \A t, u \in Threads :
    ProcessOf[t] = ProcessOf[u] /\ Writing(t) /\ Writing(u) => t = u

OpenApart ==
  \A t \in Threads : thread[t].pc = "write" =>
    /\ thread[t].fd \in Inodes
    /\ thread[t].fd # path
    /\ \A p \in Processes : tmp[p] = thread[t].fd => p = ProcessOf[t]
    /\ tmp[ProcessOf[t]] \in {thread[t].fd, NoInode}

RenamesCopy ==
  \A t \in Threads : thread[t].pc = "rename" =>
    tmp[ProcessOf[t]] = NoInode \/ file[tmp[ProcessOf[t]]] = thread[t].copy

FreshCarry == \A t \in Threads \ stale : Carries(thread[t])

Calm == Alone /\ OpenApart /\ RenamesCopy /\ FreshCarry /\ SavedDecisionApplies

DecisionInv == OneEntryEach /\ AllDecide /\ ResolvedIsSaved /\ (~raced => Calm)

LEMMA SavedIs ==
  SavedDecisionApplies <=>
    \A rule \in AllRules : saved[rule] # "none" => Holds(Load, rule, saved[rule])
BY DEF SavedDecisionApplies, Holds

LEMMA EmptyUnrepeated == Unrepeated(EmptyManifest)
BY DEF Unrepeated, EmptyManifest

LEMMA LoadUnrepeated ==
  ASSUME ManifestInv, OneEntryEach
  PROVE  Unrepeated(Load)
<1>1. CASE path = NoInode \/ file[path] = Truncated
  BY <1>1, EmptyUnrepeated DEF Load
<1>2. CASE path # NoInode /\ file[path] # Truncated
  BY <1>2 DEF Load, OneEntryEach, ManifestInv, NamesOK, Inode
<1>. QED
  BY <1>1, <1>2

\* The dashboard's rule decides, unless a rule that is as specific is there.
LEMMA ResolvedApplies ==
  ASSUME ManifestInv, DecisionInv, ~raced
  PROVE  DashboardDecisionApplies
<1>. SUFFICES ASSUME NEW r \in Asked, resolved[r] # "none"
              PROVE  \/ FindPolicy(Load, r) = resolved[r]
                     \/ \E i \in DOMAIN Load.policies :
                          /\ Load.policies[i].rule # HostScope(r)
                          /\ Matches(Load.policies[i].rule, r)
                          /\ Score(Load.policies[i].rule, r) >= Score(HostScope(r), r)
  BY DEF DashboardDecisionApplies
<1>1. PICK m : m = Load
  OBVIOUS
<1>2. m \in Manifest /\ Unrepeated(m)
  BY <1>1, LoadIsProper, LoadUnrepeated DEF Proper, Stored, DecisionInv
<1>3. Holds(m, HostScope(r), resolved[r])
  BY <1>1, HostMatches, SavedIs DEF DecisionInv, Calm, ResolvedIsSaved
<1>4. PICK i \in DOMAIN m.policies :
        m.policies[i].rule = HostScope(r) /\ m.policies[i].policy = resolved[r]
  BY <1>3 DEF Holds, RuleSlots
<1>5. DOMAIN m.policies \subseteq Nat /\ i \in Matching(m, r)
  BY <1>2, <1>4, ManifestFields, HostMatches DEF Matching
<1>6. PICK b : Best(m, r, b)
  BY <1>5, BestExists
<1>7. FindPolicy(m, r) = m.policies[b].policy
  BY <1>5, <1>6, FindPolicyIs
<1>8. b \in DOMAIN m.policies /\ Matches(m.policies[b].rule, r)
  BY <1>6 DEF Best, Matching
<1>9. Score(m.policies[b].rule, r) >= Score(m.policies[i].rule, r)
  <2>1. Score(m.policies[b].rule, r) \in 0..7 /\ Score(m.policies[i].rule, r) \in 0..7
    BY ScoreIsNat
  <2>2. \/ Score(m.policies[b].rule, r) > Score(m.policies[i].rule, r)
        \/ Score(m.policies[b].rule, r) = Score(m.policies[i].rule, r)
    BY <1>5, <1>6 DEF Best
  <2>. QED
    BY <2>1, <2>2
<1>10. CASE m.policies[b].rule = HostScope(r)
  BY <1>1, <1>2, <1>4, <1>7, <1>8, <1>10 DEF Unrepeated
<1>11. CASE m.policies[b].rule # HostScope(r)
  BY <1>1, <1>4, <1>8, <1>9, <1>11
<1>. QED
  BY <1>10, <1>11

\* Nothing that is loaded changes.
LEMMA SameLoad ==
  ASSUME path' = path, path # NoInode => file'[path] = file[path]
  PROVE  Load' = Load
BY DEF Load

\* A thread that goes on with its operation stays fresh.
LEMMA StaysFresh ==
  ASSUME Record, ~Replaced, NEW u \in Threads, u \notin stale',
         thread[u].pc # "idle", thread'[u].pc # "idle"
  PROVE  u \notin stale
BY DEF Record, Replaced

\* An operation starts or ends, and what is loaded stays: any operation that is
\* new carries what was saved.
LEMMA RecedingIsCalm ==
  ASSUME ManifestInv, Record, Recedes, Calm, UNCHANGED <<saved, resolved>>,
         \A u \in Threads : thread'[u] = thread[u] \/ Carries(thread'[u])
  PROVE  Calm'
<1>0. \A u \in Threads : ProcessOf[u] \in Processes
  BY ManifestAssumption
<1>1. \A u \in Threads : Writing(u)' => thread'[u] = thread[u] /\ Writing(u)
  BY DEF Recedes, Writing
<1>2. Alone'
  BY <1>1 DEF Calm, Alone
<1>3. OpenApart'
  <2>. SUFFICES ASSUME NEW u \in Threads, thread'[u].pc = "write"
                PROVE  /\ thread'[u].fd \in Inodes
                       /\ thread'[u].fd # path
                       /\ \A p \in Processes : tmp'[p] = thread'[u].fd => p = ProcessOf[u]
                       /\ tmp'[ProcessOf[u]] \in {thread'[u].fd, NoInode}
    BY DEF OpenApart, Recedes
  <2>1. thread'[u] = thread[u]
    BY DEF Recedes
  <2>2. NoInode \notin Inodes
    BY ManifestAssumption
  <2>. QED
    BY <1>0, <2>1, <2>2 DEF Calm, OpenApart, Recedes
<1>4. RenamesCopy'
  <2>. SUFFICES ASSUME NEW u \in Threads, thread'[u].pc = "rename",
                       tmp'[ProcessOf[u]] # NoInode
                PROVE  file'[tmp'[ProcessOf[u]]] = thread'[u].copy
    BY DEF RenamesCopy
  <2>1. thread'[u] = thread[u] /\ tmp'[ProcessOf[u]] = tmp[ProcessOf[u]]
    BY <1>0 DEF Recedes
  <2>2. file[tmp[ProcessOf[u]]] = thread[u].copy /\ tmp[ProcessOf[u]] \in Inodes
    BY <1>0, <2>1 DEF Calm, RenamesCopy, ManifestInv, NamesOK, Inode
  <2>3. file'[tmp[ProcessOf[u]]] = file[tmp[ProcessOf[u]]]
    BY <1>0, <2>1, <2>2 DEF Recedes
  <2>. QED
    BY <2>1, <2>2, <2>3
<1>5. FreshCarry'
  <2>. SUFFICES ASSUME NEW u \in Threads, u \notin stale', thread'[u].pc # "idle",
                       NEW rule \in AllRules, saved[rule] # "none"
                PROVE  \/ Holds(thread'[u].copy, rule, saved[rule])
                       \/ thread'[u].kind = "apply" /\ rule = thread'[u].rule
    BY DEF FreshCarry, Carries
  <2>1. CASE Carries(thread'[u])
    BY <2>1 DEF Carries
  <2>2. CASE thread'[u] = thread[u]
    <3>1. u \notin stale
      BY <2>2, StaysFresh DEF Recedes, Replaced
    <3>. QED
      BY <2>2, <3>1 DEF Calm, FreshCarry, Carries
  <2>. QED
    BY <2>1, <2>2
<1>6. SavedDecisionApplies'
  <2>1. Load' = Load
    BY SameLoad DEF Recedes, ManifestInv, NamesOK, Inode
  <2>. QED
    BY <2>1 DEF Calm, SavedDecisionApplies
<1>. QED
  BY <1>2, <1>3, <1>4, <1>5, <1>6 DEF Calm

\* The operations that start or end keep the invariant.
LEMMA RecedingDecides ==
  ASSUME ManifestInv, Record, Recedes, DecisionInv, UNCHANGED <<saved, resolved>>,
         \A i \in Inodes : file'[i] \in {file[i], Truncated},
         \A u \in Threads : \/ thread'[u] = thread[u]
                            \/ /\ Unrepeated(thread'[u].copy)
                               /\ Decides(thread'[u])
                               /\ ~raced => Carries(thread'[u])
  PROVE  DecisionInv'
<1>1. OneEntryEach'
  BY DEF DecisionInv, OneEntryEach
<1>2. AllDecide'
  <2>. SUFFICES ASSUME NEW u \in Threads PROVE Decides(thread'[u])
    BY DEF AllDecide, Decides
  <2>. QED
    BY DEF DecisionInv, AllDecide
<1>3. ResolvedIsSaved'
  BY DEF DecisionInv, ResolvedIsSaved
<1>4. ~raced' => ~raced
  BY DEF Record
<1>5. ~raced => Calm'
  BY RecedingIsCalm DEF DecisionInv
<1>. QED
  BY <1>1, <1>2, <1>3, <1>4, <1>5 DEF DecisionInv

\* An operation that ends, or that a death ends, leaves no copy.
LEMMA EndsDecides ==
  ASSUME ManifestInv, Record, Recedes, DecisionInv, UNCHANGED <<saved, resolved>>,
         \A i \in Inodes : file'[i] \in {file[i], Truncated},
         \A u \in Threads :
           thread'[u] = thread[u] \/ (thread'[u].pc = "idle" /\ thread'[u].copy = EmptyManifest)
  PROVE  DecisionInv'
<1>1. \A u \in Threads : \/ thread'[u] = thread[u]
                         \/ /\ Unrepeated(thread'[u].copy)
                            /\ Decides(thread'[u])
                            /\ ~raced => Carries(thread'[u])
  BY EmptyUnrepeated DEF Decides, Carries
<1>. QED
  BY <1>1, RecedingDecides

LEMMA FinishEmpties ==
  ASSUME ManifestInv, NEW t \in Threads,
         NEW result \in {"none", "approve", "deny", "saved", "failed"}, Finish(t, result)
  PROVE  /\ thread'[t].pc = "idle" /\ thread'[t].copy = EmptyManifest
         /\ \A u \in Threads \ {t} : thread'[u] = thread[u]
<1>1. PICK op : op = [NoOperation EXCEPT !.result = result]
  OBVIOUS
<1>2. op.pc = "idle" /\ op.copy = EmptyManifest
  BY <1>1, NoOperationIs DEF Operation
<1>3. thread' = [thread EXCEPT ![t] = op]
  BY <1>1 DEF Finish
<1>. QED
  BY <1>2, <1>3 DEF ManifestInv, ThreadsOK

LEMMA StartsDecides ==
  ASSUME ManifestInv, Record, Recedes, DecisionInv, NEW t \in Threads, NEW op,
         thread' = [thread EXCEPT ![t] = op], UNCHANGED <<file, saved, resolved>>,
         Unrepeated(op.copy), Decides(op), ~raced => Carries(op)
  PROVE  DecisionInv'
<1>1. \A u \in Threads : thread'[u] = thread[u] \/ thread'[u] = op
  BY DEF ManifestInv, ThreadsOK
<1>2. \A u \in Threads : \/ thread'[u] = thread[u]
                         \/ /\ Unrepeated(thread'[u].copy)
                            /\ Decides(thread'[u])
                            /\ ~raced => Carries(thread'[u])
  BY <1>1
<1>. QED
  BY <1>2, RecedingDecides

LEMMA FinishDecides ==
  ASSUME ManifestInv, Record, Recedes, DecisionInv, NEW t \in Threads,
         NEW result \in {"none", "approve", "deny", "saved", "failed"}, Finish(t, result),
         \A i \in Inodes : file'[i] \in {file[i], Truncated}, UNCHANGED <<saved, resolved>>
  PROVE  DecisionInv'
BY FinishEmpties, EndsDecides

LEMMA ApplyDecides ==
  ASSUME ManifestInv, Record, DecisionInv, NEW t \in Threads, NEW rule \in Rule,
         rule \in AllRules, NEW policy \in Policies, NEW for,
         for # NoRequest => for \in Asked /\ rule = HostScope(for),
         ApplyPolicy(t, rule, policy, for)
  PROVE  DecisionInv'
<1>0. UNCHANGED <<path, tmp, file, saved, resolved>> /\ Recedes
  BY ApplyRecedes DEF ApplyPolicy
<1>1. PICK n : n = RemovePending(SetPolicy(Load, rule, policy), rule)
  OBVIOUS
<1>2. CASE PoliciesAreFull(Load, rule) \/ ~FitsInFile(n)
  <2>1. Finish(t, "failed")
    BY <1>1, <1>2 DEF ApplyPolicy
  <2>. QED
    BY <1>0, <2>1, FinishDecides
<1>3. CASE ~(PoliciesAreFull(Load, rule) \/ ~FitsInFile(n))
  <2>1. PICK op : op = [NoOperation EXCEPT !.pc = "open", !.kind = "apply",
                          !.rule = rule, !.policy = policy, !.for = for, !.copy = n]
    OBVIOUS
  <2>2. /\ op.pc = "open" /\ op.kind = "apply" /\ op.rule = rule /\ op.policy = policy
        /\ op.for = for /\ op.copy = n
    BY <2>1, NoOperationIs DEF Operation
  <2>3. thread' = [thread EXCEPT ![t] = op]
    BY <1>1, <1>3, <2>1 DEF ApplyPolicy
  <2>4. PICK m, s : m = Load /\ s = SetPolicy(m, rule, policy)
    OBVIOUS
  <2>5. m \in Manifest /\ Unrepeated(m)
    BY <2>4, LoadIsProper, LoadUnrepeated DEF Proper, Stored, DecisionInv
  <2>6. /\ Unrepeated(s) /\ Holds(s, rule, policy)
        /\ \A other, p : other # rule /\ Holds(m, other, p) => Holds(s, other, p)
    BY <2>4, <2>5, SetPolicyHolds
  <2>7. n.policies = s.policies
    <3>1. s \in Manifest
      BY <2>4, <2>5, SetPolicyIs
    <3>. QED
      BY <1>1, <2>4, <3>1, RemovePendingIs
  <2>8. /\ Unrepeated(n) /\ Holds(n, rule, policy)
        /\ \A other, p : other # rule /\ Holds(m, other, p) => Holds(n, other, p)
    BY <2>6, <2>7, SamePolicies
  <2>9. Decides(op)
    BY <2>2, <2>8 DEF Decides
  <2>10. ASSUME ~raced PROVE Carries(op)
    <3>1. \A other \in AllRules : saved[other] # "none" => Holds(m, other, saved[other])
      BY <2>4, <2>10, SavedIs DEF DecisionInv, Calm
    <3>. QED
      BY <2>2, <2>8, <3>1 DEF Carries
  <2>. QED
    BY <1>0, <2>2, <2>3, <2>8, <2>9, <2>10, StartsDecides
<1>. QED
  BY <1>2, <1>3

LEMMA EvaluateDecides ==
  ASSUME ManifestInv, Record, DecisionInv, NEW t \in Threads, NEW r \in AccessRequest,
         Evaluate(t, r)
  PROVE  DecisionInv'
<1>0. UNCHANGED <<path, tmp, file, saved, resolved>> /\ Recedes
  BY EvaluateRecedes DEF Evaluate
<1>1. PICK n : n = AddPending(Load, r)
  OBVIOUS
<1>2. CASE Decided(Load, r) \/ PendingIsFull(Load, r) \/ ~FitsInFile(n)
  <2>1. Finish(t, "approve") \/ Finish(t, "deny")
    BY <1>1, <1>2 DEF Evaluate, Decided
  <2>. QED
    BY <1>0, <2>1, FinishDecides
<1>3. CASE ~(Decided(Load, r) \/ PendingIsFull(Load, r) \/ ~FitsInFile(n))
  <2>1. PICK op : op = [NoOperation EXCEPT !.pc = "open", !.kind = "evaluate",
                          !.for = r, !.copy = n]
    OBVIOUS
  <2>2. op.pc = "open" /\ op.kind = "evaluate" /\ op.copy = n
    BY <2>1, NoOperationIs DEF Operation
  <2>3. thread' = [thread EXCEPT ![t] = op]
    BY <1>1, <1>3, <2>1 DEF Evaluate, Decided
  <2>4. PICK m : m = Load
    OBVIOUS
  <2>5. m \in Manifest /\ Unrepeated(m)
    BY <2>4, LoadIsProper, LoadUnrepeated DEF Proper, Stored, DecisionInv
  <2>6. n.policies = m.policies
    BY <1>1, <2>4, <2>5, AddPendingIs
  <2>7. Unrepeated(n) /\ \A other, p : Holds(m, other, p) => Holds(n, other, p)
    BY <2>5, <2>6, SamePolicies
  <2>8. Decides(op)
    BY <2>2 DEF Decides
  <2>9. ASSUME ~raced PROVE Carries(op)
    BY <2>2, <2>4, <2>7, <2>9, SavedIs DEF DecisionInv, Calm, Carries
  <2>. QED
    BY <1>0, <2>2, <2>3, <2>7, <2>8, <2>9, StartsDecides
<1>. QED
  BY <1>2, <1>3

LEMMA FailDecides ==
  ASSUME ManifestInv, Record, DecisionInv, NEW t \in Threads, WriteFails(t)
  PROVE  DecisionInv'
<1>1. /\ Finish(t, FailedResult(t)) /\ Keep(file) /\ UNCHANGED <<saved, resolved>>
  BY DEF WriteFails
<1>2. FailedResult(t) \in {"none", "approve", "deny", "saved", "failed"}
  BY DEF FailedResult
<1>3. \A i \in Inodes : file'[i] \in {file[i], Truncated}
  BY <1>1 DEF Keep
<1>. QED
  BY <1>1, <1>2, <1>3, FailRecedes, FinishDecides

LEMMA KillDecides ==
  ASSUME ManifestInv, Record, DecisionInv, NEW p \in Processes, Killed(p)
  PROVE  DecisionInv'
<1>1. \A i \in Inodes : file'[i] \in {file[i], Truncated}
  BY DEF Killed, Keep
<1>2. \A u \in Threads :
        thread'[u] = thread[u] \/ (thread'[u].pc = "idle" /\ thread'[u].copy = EmptyManifest)
  BY NoOperationIs DEF Killed
<1>3. UNCHANGED <<saved, resolved>>
  BY DEF Killed
<1>. QED
  BY <1>1, <1>2, <1>3, KillRecedes, EndsDecides

\* A writer goes on with its operation.
LEMMA SameOperation ==
  ASSUME NEW t \in Threads, DecisionInv,
         thread[t].pc \in {"open", "write"}, thread'[t].pc \in {"write", "rename"},
         thread'[t].kind = thread[t].kind, thread'[t].rule = thread[t].rule,
         thread'[t].policy = thread[t].policy, thread'[t].for = thread[t].for,
         thread'[t].copy = thread[t].copy,
         \A u \in Threads \ {t} : thread'[u] = thread[u],
         \A i \in Inodes : file'[i] \in {file[i], thread[t].copy, Truncated},
         UNCHANGED <<saved, resolved>>
  PROVE  OneEntryEach' /\ AllDecide' /\ ResolvedIsSaved'
<1>1. OneEntryEach'
  <2>1. \A u \in Threads : thread'[u].copy = thread[u].copy
    OBVIOUS
  <2>. QED
    BY <2>1 DEF DecisionInv, OneEntryEach
<1>2. AllDecide'
  <2>. SUFFICES ASSUME NEW u \in Threads PROVE Decides(thread'[u])
    BY DEF AllDecide, Decides
  <2>1. Decides(thread[u])
    BY DEF DecisionInv, AllDecide
  <2>2. CASE u = t
    BY <2>1, <2>2 DEF Decides
  <2>3. CASE u # t
    BY <2>1, <2>3
  <2>. QED
    BY <2>2, <2>3
<1>3. ResolvedIsSaved'
  BY DEF DecisionInv, ResolvedIsSaved
<1>. QED
  BY <1>1, <1>2, <1>3

LEMMA SameFreshness ==
  ASSUME NEW t \in Threads, Record, path' = path, FreshCarry,
         thread[t].pc \in {"open", "write"}, thread'[t].pc \in {"write", "rename"},
         thread'[t].kind = thread[t].kind, thread'[t].rule = thread[t].rule,
         thread'[t].copy = thread[t].copy,
         \A u \in Threads \ {t} : thread'[u] = thread[u], saved' = saved
  PROVE  FreshCarry'
<1>. SUFFICES ASSUME NEW u \in Threads, u \notin stale', thread'[u].pc # "idle",
                     NEW rule \in AllRules, saved[rule] # "none"
              PROVE  \/ Holds(thread'[u].copy, rule, saved[rule])
                     \/ thread'[u].kind = "apply" /\ rule = thread'[u].rule
  BY DEF FreshCarry, Carries
<1>1. thread[u].pc # "idle" /\ thread'[u].copy = thread[u].copy
      /\ thread'[u].kind = thread[u].kind /\ thread'[u].rule = thread[u].rule
  BY DEF FreshCarry
<1>2. u \notin stale
  BY <1>1, StaysFresh DEF Replaced
<1>. QED
  BY <1>1, <1>2 DEF FreshCarry, Carries

LEMMA OpeningIsCalm ==
  ASSUME ManifestInv, Record, ~raced', Calm, NEW t \in Threads, NEW i, Opened(t, i),
         UNCHANGED <<saved, resolved>>
  PROVE  Calm'
<1>0. /\ NoInode \notin Inodes
      /\ \A u \in Threads : ProcessOf[u] \in Processes
  BY ManifestAssumption
<1>1. Company(t) = {}
  BY DEF Record, Opened, Opens
<1>2. \A u \in Threads \ {t} : Writing(u) => ProcessOf[u] # ProcessOf[t]
  BY <1>1 DEF Company
<1>3. \A u \in Threads \ {t} : Writing(u)' => thread'[u] = thread[u] /\ Writing(u)
  BY DEF Opened, Writing
<1>4. Alone'
  BY <1>2, <1>3 DEF Calm, Alone
<1>5. OpenApart'
  <2>. SUFFICES ASSUME NEW u \in Threads, thread'[u].pc = "write"
                PROVE  /\ thread'[u].fd \in Inodes
                       /\ thread'[u].fd # path
                       /\ \A p \in Processes : tmp'[p] = thread'[u].fd => p = ProcessOf[u]
                       /\ tmp'[ProcessOf[u]] \in {thread'[u].fd, NoInode}
    BY DEF OpenApart, Opened
  <2>1. CASE u = t
    BY <2>1 DEF Opened
  <2>2. CASE u # t
    <3>1. thread'[u] = thread[u] /\ thread[u].pc = "write" /\ ProcessOf[u] # ProcessOf[t]
      BY <1>2, <2>2 DEF Opened, Writing
    <3>2. thread[u].fd # i
      BY <1>0, <3>1 DEF Calm, OpenApart, Opened
    <3>. QED
      BY <1>0, <3>1, <3>2 DEF Calm, OpenApart, Opened
  <2>. QED
    BY <2>1, <2>2
<1>6. RenamesCopy'
  <2>. SUFFICES ASSUME NEW u \in Threads, thread'[u].pc = "rename",
                       tmp'[ProcessOf[u]] # NoInode
                PROVE  file'[tmp'[ProcessOf[u]]] = thread'[u].copy
    BY DEF RenamesCopy
  <2>1. u # t /\ thread'[u] = thread[u] /\ ProcessOf[u] # ProcessOf[t]
    BY <1>2 DEF Opened, Writing
  <2>2. tmp'[ProcessOf[u]] = tmp[ProcessOf[u]] /\ tmp[ProcessOf[u]] \in Inodes \ {i}
    BY <1>0, <2>1 DEF Opened, ManifestInv, NamesOK, Inode
  <2>. QED
    BY <2>1, <2>2 DEF Calm, RenamesCopy, Opened
<1>7. /\ thread'[t].kind = thread[t].kind /\ thread'[t].rule = thread[t].rule
      /\ thread'[t].copy = thread[t].copy
  BY DEF Opened, ManifestInv, ThreadsOK, Operation
<1>8. FreshCarry'
  BY <1>7, SameFreshness DEF Opened, Calm
<1>9. SavedDecisionApplies'
  <2>1. Load' = Load
    BY SameLoad DEF Opened, ManifestInv, NamesOK, Inode
  <2>. QED
    BY <2>1 DEF Calm, SavedDecisionApplies
<1>. QED
  BY <1>4, <1>5, <1>6, <1>8, <1>9 DEF Calm

LEMMA OpeningDecides ==
  ASSUME ManifestInv, Record, DecisionInv, NEW t \in Threads, NEW i, Opened(t, i),
         UNCHANGED <<saved, resolved>>
  PROVE  DecisionInv'
<1>1. /\ thread'[t].kind = thread[t].kind /\ thread'[t].rule = thread[t].rule
      /\ thread'[t].policy = thread[t].policy /\ thread'[t].for = thread[t].for
      /\ thread'[t].copy = thread[t].copy
  BY DEF Opened, ManifestInv, ThreadsOK, Operation
<1>2. \A j \in Inodes : file'[j] \in {file[j], thread[t].copy, Truncated}
  BY DEF Opened
<1>3. OneEntryEach' /\ AllDecide' /\ ResolvedIsSaved'
  BY <1>1, <1>2, SameOperation DEF Opened
<1>4. ~raced' => ~raced
  BY DEF Record
<1>. QED
  BY <1>3, <1>4, OpeningIsCalm DEF DecisionInv

LEMMA WritingIsCalm ==
  ASSUME ManifestInv, Record, Calm, NEW t \in Threads, Written(t),
         UNCHANGED <<saved, resolved>>
  PROVE  Calm'
<1>0. /\ NoInode \notin Inodes
      /\ \A u \in Threads : ProcessOf[u] \in Processes
  BY ManifestAssumption
<1>1. /\ thread[t].fd \in Inodes /\ thread[t].fd # path
      /\ \A p \in Processes : tmp[p] = thread[t].fd => p = ProcessOf[t]
      /\ tmp[ProcessOf[t]] \in {thread[t].fd, NoInode}
  BY DEF Calm, OpenApart, Written
<1>2. \A u \in Threads : Writing(u)' => Writing(u)
  BY DEF Written, Writing
<1>3. Alone'
  BY <1>2 DEF Calm, Alone
<1>4. OpenApart'
  <2>. SUFFICES ASSUME NEW u \in Threads, thread'[u].pc = "write"
                PROVE  thread'[u] = thread[u]
    BY DEF OpenApart, Written, Calm
  <2>. QED
    BY DEF Written
<1>5. RenamesCopy'
  <2>. SUFFICES ASSUME NEW u \in Threads, thread'[u].pc = "rename",
                       tmp[ProcessOf[u]] # NoInode
                PROVE  file'[tmp[ProcessOf[u]]] = thread'[u].copy
    BY DEF RenamesCopy, Written
  <2>1. tmp[ProcessOf[u]] \in Inodes
    BY <1>0 DEF ManifestInv, NamesOK, Inode
  <2>2. CASE u = t
    <3>1. thread'[t].copy = thread[t].copy
      BY DEF Written, ManifestInv, ThreadsOK, Operation
    <3>. QED
      BY <1>0, <1>1, <2>1, <2>2, <3>1 DEF Written
  <2>3. CASE u # t
    <3>1. thread'[u] = thread[u] /\ Writing(u) /\ Writing(t)
      BY <2>3 DEF Written, Writing
    <3>2. ProcessOf[u] # ProcessOf[t]
      BY <2>3, <3>1 DEF Calm, Alone
    <3>3. tmp[ProcessOf[u]] # thread[t].fd
      BY <1>0, <1>1, <3>2
    <3>. QED
      BY <1>0, <2>1, <3>1, <3>3 DEF Calm, RenamesCopy, Written
  <2>. QED
    BY <2>2, <2>3
<1>6. /\ thread'[t].kind = thread[t].kind /\ thread'[t].rule = thread[t].rule
      /\ thread'[t].copy = thread[t].copy
  BY DEF Written, ManifestInv, ThreadsOK, Operation
<1>7. FreshCarry'
  BY <1>6, SameFreshness DEF Written, Calm
<1>8. SavedDecisionApplies'
  <2>1. Load' = Load
    BY <1>1, SameLoad DEF Written, ManifestInv, NamesOK, Inode
  <2>. QED
    BY <2>1 DEF Calm, SavedDecisionApplies
<1>. QED
  BY <1>3, <1>4, <1>5, <1>7, <1>8 DEF Calm

LEMMA WritingDecides ==
  ASSUME ManifestInv, Record, DecisionInv, NEW t \in Threads, Written(t),
         UNCHANGED <<saved, resolved>>
  PROVE  DecisionInv'
<1>1. /\ thread'[t].kind = thread[t].kind /\ thread'[t].rule = thread[t].rule
      /\ thread'[t].policy = thread[t].policy /\ thread'[t].for = thread[t].for
      /\ thread'[t].copy = thread[t].copy
  BY DEF Written, ManifestInv, ThreadsOK, Operation
<1>2. OneEntryEach' /\ AllDecide' /\ ResolvedIsSaved'
  BY <1>1, SameOperation DEF Written
<1>3. ~raced' => ~raced
  BY DEF Record
<1>. QED
  BY <1>2, <1>3, WritingIsCalm DEF DecisionInv

\* What an operation that reaches the file is remembered for.
LEMMA RememberDecides ==
  ASSUME ManifestInv, DecisionInv, NEW op \in Operation, op.pc = "rename", Decides(op),
         Remember(op)
  PROVE  /\ ResolvedIsSaved'
         /\ \A rule \in AllRules : saved'[rule] # "none" /\ saved'[rule] # saved[rule] =>
              op.kind = "apply" /\ rule = op.rule
         /\ op.kind = "apply" => saved'[op.rule] = op.policy
<1>1. CASE op.kind # "apply"
  <2>1. UNCHANGED <<saved, resolved>>
    BY <1>1 DEF Remember
  <2>. QED
    BY <1>1, <2>1 DEF DecisionInv, ResolvedIsSaved
<1>2. CASE op.kind = "apply"
  <2>1. /\ saved' = [saved EXCEPT ![op.rule] = op.policy]
        /\ resolved' = [r \in Asked |->
             IF r = op.for THEN op.policy
             ELSE IF Matches(op.rule, r) THEN "none" ELSE resolved[r]]
    BY <1>2 DEF Remember
  <2>2. /\ op.rule \in AllRules
        /\ op.for # NoRequest => op.for \in Asked /\ op.rule = HostScope(op.for)
    BY <1>2 DEF Decides
  <2>3. /\ saved'[op.rule] = op.policy
        /\ \A rule \in AllRules \ {op.rule} : saved'[rule] = saved[rule]
    BY <2>1, <2>2 DEF ManifestInv, HistoryOK
  <2>4. ResolvedIsSaved'
    <3>. SUFFICES ASSUME NEW r \in Asked, resolved'[r] # "none"
                  PROVE  saved'[HostScope(r)] = resolved'[r]
      BY DEF ResolvedIsSaved
    <3>1. r # NoRequest /\ Matches(HostScope(r), r) /\ HostScope(r) \in AllRules
      BY HostMatches, ManifestAssumption
    <3>2. CASE r = op.for
      BY <2>1, <2>2, <2>3, <3>1, <3>2
    <3>3. CASE r # op.for
      <4>1. resolved'[r] = resolved[r] /\ ~Matches(op.rule, r)
        BY <2>1, <3>3
      <4>. QED
        BY <2>3, <3>1, <4>1 DEF DecisionInv, ResolvedIsSaved
    <3>. QED
      BY <3>2, <3>3
  <2>. QED
    BY <1>2, <2>3, <2>4
<1>. QED
  BY <1>1, <1>2

LEMMA RenamingIsCalm ==
  ASSUME ManifestInv, Whole, Record, ~raced', Calm, DecisionInv,
         NEW t \in Threads, Renamed(t), Remember(thread[t])
  PROVE  Calm'
<1>0. /\ NoInode \notin Inodes
      /\ \A u \in Threads : ProcessOf[u] \in Processes
  BY ManifestAssumption
<1>1. PICK op : op = thread[t]
  OBVIOUS
<1>2. op \in Operation /\ op.pc = "rename" /\ Decides(op)
  BY <1>1 DEF ManifestInv, ThreadsOK, Renamed, DecisionInv, AllDecide
<1>3. Replaced /\ thread'[t] # thread[t]
  BY <1>0 DEF Renamed, Replaced, Whole, NamesApart
<1>4. t \notin stale /\ Carries(op)
  BY <1>1, <1>3 DEF Record, Calm, FreshCarry
<1>5. \A u \in Threads : Writing(u)' => u # t /\ thread'[u] = thread[u] /\ Writing(u)
  BY DEF Renamed, Writing
<1>6. \A u \in Threads \ {t} : Writing(u) => ProcessOf[u] # ProcessOf[t]
  BY DEF Renamed, Calm, Alone, Writing
<1>7. Alone'
  BY <1>5 DEF Calm, Alone
<1>8. OpenApart'
  <2>. SUFFICES ASSUME NEW u \in Threads, thread'[u].pc = "write"
                PROVE  /\ thread'[u].fd \in Inodes
                       /\ thread'[u].fd # path'
                       /\ \A p \in Processes : tmp'[p] = thread'[u].fd => p = ProcessOf[u]
                       /\ tmp'[ProcessOf[u]] \in {thread'[u].fd, NoInode}
    BY DEF OpenApart
  <2>1. /\ u # t /\ thread'[u] = thread[u] /\ thread[u].pc = "write"
        /\ ProcessOf[u] # ProcessOf[t]
    BY <1>5, <1>6 DEF Writing
  <2>2. tmp'[ProcessOf[u]] = tmp[ProcessOf[u]]
    BY <1>0, <2>1 DEF Renamed
  <2>3. thread[u].fd # path'
    BY <1>0, <2>1 DEF Renamed, Calm, OpenApart
  <2>4. \A p \in Processes : tmp'[p] = thread[u].fd => tmp[p] = thread[u].fd
    BY <1>0, <2>1 DEF Renamed, Calm, OpenApart
  <2>. QED
    BY <2>1, <2>2, <2>3, <2>4 DEF Calm, OpenApart
<1>9. RenamesCopy'
  <2>. SUFFICES ASSUME NEW u \in Threads, thread'[u].pc = "rename",
                       tmp'[ProcessOf[u]] # NoInode
                PROVE  file'[tmp'[ProcessOf[u]]] = thread'[u].copy
    BY DEF RenamesCopy
  <2>1. thread'[u] = thread[u] /\ ProcessOf[u] # ProcessOf[t]
    BY <1>5, <1>6 DEF Writing
  <2>2. tmp'[ProcessOf[u]] = tmp[ProcessOf[u]] /\ tmp[ProcessOf[u]] \in Inodes
    BY <1>0, <2>1 DEF Renamed, ManifestInv, NamesOK, Inode
  <2>3. file'[tmp[ProcessOf[u]]] = file[tmp[ProcessOf[u]]]
    BY <1>0, <2>2 DEF Renamed
  <2>. QED
    BY <2>1, <2>2, <2>3 DEF Calm, RenamesCopy
<1>10. FreshCarry'
  <2>. SUFFICES ASSUME NEW u \in Threads, thread'[u].pc # "idle"
                PROVE  u \in stale'
    BY DEF FreshCarry, Carries
  <2>1. thread'[u] = thread[u]
    BY DEF Renamed
  <2>. QED
    BY <1>3, <2>1 DEF Record, Idle
<1>11. Load' = op.copy
  <2>1. file'[path'] = op.copy
    BY <1>0, <1>1 DEF Renamed, Calm, RenamesCopy
  <2>2. op.copy # Truncated /\ path' # NoInode
    BY <1>0, <1>2, ManifestAssumption DEF Renamed, Operation
  <2>. QED
    BY <2>1, <2>2 DEF Load
<1>12. \A rule \in AllRules : saved'[rule] # "none" => Holds(op.copy, rule, saved'[rule])
  <2>. SUFFICES ASSUME NEW rule \in AllRules, saved'[rule] # "none"
                PROVE  Holds(op.copy, rule, saved'[rule])
    OBVIOUS
  <2>1. /\ saved'[rule] # saved[rule] => op.kind = "apply" /\ rule = op.rule
        /\ op.kind = "apply" => saved'[op.rule] = op.policy
    BY <1>1, <1>2, RememberDecides
  <2>2. CASE op.kind = "apply" /\ rule = op.rule
    BY <1>2, <2>1, <2>2 DEF Decides
  <2>3. CASE ~(op.kind = "apply" /\ rule = op.rule)
    BY <1>2, <1>4, <2>1, <2>3 DEF Carries
  <2>. QED
    BY <2>2, <2>3
<1>13. SavedDecisionApplies'
  BY <1>11, <1>12 DEF SavedDecisionApplies, Holds
<1>. QED
  BY <1>7, <1>8, <1>9, <1>10, <1>13 DEF Calm

LEMMA RenameDecides ==
  ASSUME ManifestInv, Whole, Record, DecisionInv, NEW t \in Threads, Rename(t)
  PROVE  DecisionInv'
<1>0. Keep(file)
  BY DEF Rename
<1>1. \A i \in Inodes : file'[i] \in {file[i], Truncated}
  BY <1>0 DEF Keep
<1>2. CASE tmp[ProcessOf[t]] = NoInode
  <2>1. Finish(t, FailedResult(t)) /\ UNCHANGED <<saved, resolved>>
    BY <1>2 DEF Rename
  <2>2. FailedResult(t) \in {"none", "approve", "deny", "saved", "failed"}
    BY DEF FailedResult
  <2>. QED
    BY <1>1, <1>2, <2>1, <2>2, NoNameRecedes, FinishDecides
<1>3. CASE tmp[ProcessOf[t]] # NoInode
  <2>1. /\ Remember(thread[t])
        /\ Finish(t, IF thread[t].kind = "apply" THEN "saved" ELSE "deny")
    BY <1>3 DEF Rename
  <2>2. Renamed(t)
    BY <1>3, RenameRenames
  <2>3. /\ thread'[t].pc = "idle" /\ thread'[t].copy = EmptyManifest
        /\ \A u \in Threads \ {t} : thread'[u] = thread[u]
    BY <2>1, FinishEmpties
  <2>4. OneEntryEach'
    BY <1>1, <2>3, EmptyUnrepeated DEF DecisionInv, OneEntryEach
  <2>5. AllDecide'
    <3>. SUFFICES ASSUME NEW u \in Threads PROVE Decides(thread'[u])
      BY DEF AllDecide, Decides
    <3>. QED
      BY <2>3 DEF DecisionInv, AllDecide, Decides
  <2>6. ResolvedIsSaved'
    <3>1. thread[t] \in Operation /\ thread[t].pc = "rename" /\ Decides(thread[t])
      BY <2>2 DEF ManifestInv, ThreadsOK, Renamed, DecisionInv, AllDecide
    <3>. QED
      BY <2>1, <3>1, RememberDecides
  <2>7. ~raced' => ~raced
    BY DEF Record
  <2>8. ~raced' => Calm'
    BY <2>1, <2>2, <2>7, RenamingIsCalm DEF DecisionInv
  <2>. QED
    BY <2>4, <2>5, <2>6, <2>8 DEF DecisionInv
<1>. QED
  BY <1>2, <1>3

LEMMA RemoveDecides ==
  ASSUME ManifestInv, Record, DecisionInv, RemoveManifest
  PROVE  DecisionInv'
<1>0. /\ NoInode \notin Inodes
      /\ \A u \in Threads : ProcessOf[u] \in Processes
  BY ManifestAssumption
<1>1. /\ \A rule \in AllRules : saved'[rule] = "none"
      /\ \A r \in Asked : resolved'[r] = "none"
      /\ \A p \in Processes : tmp'[p] = NoInode
      /\ thread' = thread /\ path' = NoInode
  BY DEF RemoveManifest
<1>2. \A i \in Inodes : file'[i] \in {file[i], Truncated}
  BY DEF RemoveManifest, Keep
<1>3. OneEntryEach' /\ AllDecide' /\ ResolvedIsSaved'
  BY <1>1, <1>2 DEF DecisionInv, OneEntryEach, AllDecide, Decides, ResolvedIsSaved
<1>4. ~raced' => ~raced
  BY DEF Record
<1>5. Calm => Calm'
  <2>. SUFFICES ASSUME Calm PROVE Calm'
    OBVIOUS
  <2>1. Alone' /\ RenamesCopy' /\ SavedDecisionApplies' /\ FreshCarry'
    BY <1>0, <1>1
    DEF Calm, Alone, Writing, RenamesCopy, SavedDecisionApplies, FreshCarry, Carries
  <2>2. OpenApart'
    BY <1>0, <1>1 DEF Calm, OpenApart
  <2>. QED
    BY <2>1, <2>2 DEF Calm
<1>. QED
  BY <1>3, <1>4, <1>5 DEF DecisionInv

LEMMA DecisionInit == HInit => DecisionInv
<1>. SUFFICES ASSUME HInit PROVE DecisionInv
  OBVIOUS
<1>1. /\ \A t \in Threads : thread[t] = NoOperation
      /\ \A i \in Inodes : file[i] = Truncated
      /\ \A rule \in AllRules : saved[rule] = "none"
      /\ \A r \in Asked : resolved[r] = "none"
  BY DEF HInit, Init
<1>2. OneEntryEach /\ AllDecide /\ ResolvedIsSaved
  BY <1>1, NoOperationIs, EmptyUnrepeated DEF OneEntryEach, AllDecide, Decides, ResolvedIsSaved
<1>3. Calm
  BY <1>1, NoOperationIs
  DEF Calm, Alone, Writing, OpenApart, RenamesCopy, FreshCarry, Carries, SavedDecisionApplies
<1>. QED
  BY <1>2, <1>3 DEF DecisionInv

LEMMA DecisionSame ==
  ASSUME DecisionInv, UNCHANGED hvars
  PROVE  DecisionInv'
<1>1. OneEntryEach' /\ AllDecide' /\ ResolvedIsSaved'
  BY DEF hvars, mvars, DecisionInv, OneEntryEach, AllDecide, Decides, ResolvedIsSaved
<1>2. Alone' = Alone /\ OpenApart' = OpenApart /\ RenamesCopy' = RenamesCopy
      /\ FreshCarry' = FreshCarry
  BY DEF hvars, mvars, Alone, Writing, OpenApart, RenamesCopy, FreshCarry, Carries
<1>3. SavedDecisionApplies' = SavedDecisionApplies /\ raced' = raced
  BY DEF hvars, mvars, SavedDecisionApplies, Load
<1>. QED
  BY <1>1, <1>2, <1>3 DEF DecisionInv, Calm

LEMMA DecisionStep == ManifestInv /\ Whole /\ DecisionInv /\ [HNext]_hvars => DecisionInv'
<1>. SUFFICES ASSUME ManifestInv, Whole, DecisionInv, Record, Next PROVE DecisionInv'
  BY DecisionSame DEF HNext
<1>1. ASSUME NEW t \in Threads, Edit(t) PROVE DecisionInv'
  <2>1. PICK rule \in Rules, policy \in Choices : ApplyPolicy(t, rule, policy, NoRequest)
    BY <1>1 DEF Edit
  <2>2. rule \in Rule /\ rule \in AllRules /\ policy \in Policies
    BY ManifestAssumption DEF AllRules
  <2>. QED
    BY <2>1, <2>2, ApplyDecides
<1>2. ASSUME NEW t \in Threads, Resolve(t) PROVE DecisionInv'
  <2>1. PICK r \in Asked, policy \in Choices : ApplyPolicy(t, HostScope(r), policy, r)
    BY <1>2 DEF Resolve
  <2>2. HostScope(r) \in Rule /\ HostScope(r) \in AllRules /\ policy \in Policies
    BY ManifestAssumption, AskedAreRules DEF AllRules
  <2>. QED
    BY <2>1, <2>2, ApplyDecides
<1>3. ASSUME NEW t \in Threads, EvaluateSome(t) PROVE DecisionInv'
  BY <1>3, EvaluateDecides, AskedAreRules DEF EvaluateSome
<1>4. ASSUME NEW t \in Threads, OpenTmp(t) PROVE DecisionInv'
  <2>1. UNCHANGED <<saved, resolved>>
    BY <1>4 DEF OpenTmp
  <2>. QED
    BY <1>4, <2>1, OpenOpens, OpeningDecides DEF Whole
<1>5. ASSUME NEW t \in Threads, WriteTmp(t) PROVE DecisionInv'
  <2>1. UNCHANGED <<saved, resolved>>
    BY <1>5 DEF WriteTmp
  <2>. QED
    BY <1>5, <2>1, WriteWrites, WritingDecides
<1>6. ASSUME NEW t \in Threads, WriteFails(t) \/ Rename(t) PROVE DecisionInv'
  BY <1>6, FailDecides, RenameDecides
<1>. QED
  BY <1>1, <1>2, <1>3, <1>4, <1>5, <1>6, KillDecides, RemoveDecides DEF Next

(***************************************************************************)
(* A decision that was reported as saved is in the manifest until it is    *)
(* replaced or the manifest removed, and what the dashboard decided is     *)
(* what bubblehub_access_evaluate finds until another rule covers it, for  *)
(* any number of threads and processes that write and die at any point,    *)
(* as long as no operation replaced a manifest that had changed since it   *)
(* was loaded and no two threads met in a temporary file.  Both happen:    *)
(* no lock is held from load to rename.  They are the only ways to lose a  *)
(* decision.                                                               *)
(***************************************************************************)
THEOREM DecisionsStay == HSpec => []DecisionsApply
<1>1. ManifestInv /\ DecisionInv => DecisionsApply
  BY ResolvedApplies DEF DecisionInv, Calm, DecisionsApply
<1>. QED
  BY <1>1, DecisionStep, DecisionInit, WholeStep, WholeInit, HistoryInvariant, PTL DEF HSpec

-----------------------------------------------------------------------------
(* The loop of find_policy.                                                *)

LEMMA NoneLeast ==
  ASSUME NEW T \in SUBSET Nat, \A n \in T : n # 0 /\ n - 1 \in T
  PROVE  T = {}
<1>. SUFFICES ASSUME T # {} PROVE FALSE
  OBVIOUS
<1>1. PICK n \in T : \A k \in T : n <= k
  BY LeastOf
<1>. QED
  BY <1>1

\* g is what a loop goes through: a before it, then step after step.
Iterates(n, S, a, step, g) ==
  /\ g \in [0..n -> S]
  /\ g[0] = a
  /\ \A i \in 1..n : g[i] = step[i][g[i - 1]]

LEMMA IteratesStart ==
  ASSUME NEW S, NEW a \in S, NEW step
  PROVE  \E g : Iterates(0, S, a, step, g)
<1>. DEFINE g == [i \in 0..0 |-> a]
<1>1. g \in [0..0 -> S] /\ g[0] = a
  OBVIOUS
<1>2. \A i \in 1..0 : FALSE
  OBVIOUS
<1>. HIDE DEF g
<1>. QED
  BY <1>1, <1>2 DEF Iterates

LEMMA IteratesOn ==
  ASSUME NEW N \in Nat, NEW S, NEW a \in S, NEW step \in [1..N -> [S -> S]],
         NEW n \in 1..N, NEW g, Iterates(n - 1, S, a, step, g)
  PROVE  \E h : Iterates(n, S, a, step, h)
<1>0. n \in Nat /\ n # 0 /\ n - 1 \in 0..(n - 1) /\ step[n] \in [S -> S]
  OBVIOUS
<1>1. /\ g \in [0..(n - 1) -> S] /\ g[0] = a
      /\ \A i \in 1..(n - 1) : g[i] = step[i][g[i - 1]]
  BY DEF Iterates
<1>2. PICK x \in S : x = step[n][g[n - 1]]
  BY <1>0, <1>1
<1>. DEFINE h == [i \in 0..n |-> IF i = n THEN x ELSE g[i]]
<1>3. h \in [0..n -> S]
  BY <1>0, <1>1
<1>4. h[n] = x /\ \A i \in 0..(n - 1) : h[i] = g[i]
  BY <1>0
<1>. HIDE DEF h
<1>5. h[0] = a
  BY <1>0, <1>1, <1>4
<1>6. ASSUME NEW i \in 1..n PROVE h[i] = step[i][h[i - 1]]
  <2>1. CASE i = n
    <3>1. h[n - 1] = g[n - 1]
      BY <1>0, <1>4
    <3>. QED
      BY <1>2, <1>4, <2>1, <3>1
  <2>2. CASE i # n
    <3>1. i \in 1..(n - 1) /\ i \in 0..(n - 1) /\ i - 1 \in 0..(n - 1)
      BY <1>0, <2>2
    <3>2. h[i] = g[i] /\ h[i - 1] = g[i - 1]
      BY <3>1, <1>4
    <3>. QED
      BY <1>1, <3>1, <3>2
  <2>. QED
    BY <2>1, <2>2
<1>. QED
  BY <1>3, <1>5, <1>6 DEF Iterates

LEMMA LoopRuns ==
  ASSUME NEW N \in Nat, NEW S, NEW a \in S, NEW step \in [1..N -> [S -> S]]
  PROVE  \E g : Iterates(N, S, a, step, g)
<1>. DEFINE T == {n \in 0..N : ~\E g : Iterates(n, S, a, step, g)}
<1>1. \A n \in T : n # 0 /\ n - 1 \in T
  <2>. TAKE n \in T
  <2>1. n # 0
    BY IteratesStart
  <2>2. n \in 1..N /\ n - 1 \in 0..N
    BY <2>1
  <2>. QED
    BY <2>1, <2>2, IteratesOn
<1>2. T \in SUBSET Nat
  OBVIOUS
<1>. HIDE DEF T
<1>3. T = {}
  BY <1>1, <1>2, NoneLeast
<1>4. N \in 0..N /\ N \notin T
  BY <1>3
<1>. QED
  BY <1>4 DEF T

\* The scan takes entry i where b was the best so far.
Takes(m, r, i, b) ==
  /\ i \in Matching(m, r)
  /\ b = 0 \/ Score(m.policies[i].rule, r) > Score(m.policies[b].rule, r)

LEMMA ScanIs ==
  ASSUME NEW m, Len(m.policies) \in Nat, DOMAIN m.policies = 1..Len(m.policies), NEW r
  PROVE  \E best : /\ best[0] = 0
                   /\ \A i \in DOMAIN m.policies :
                        best[i] = IF Takes(m, r, i, best[i - 1]) THEN i ELSE best[i - 1]
                   /\ FindPolicyLoop(m, r) =
                        IF best[Len(m.policies)] = 0 THEN "none"
                        ELSE m.policies[best[Len(m.policies)]].policy
<1>. DEFINE N == Len(m.policies)
            Better(i, b) ==
              LET best_score == IF b = 0 THEN -1 ELSE Score(m.policies[b].rule, r)
              IN  /\ Matches(m.policies[i].rule, r)
                  /\ Score(m.policies[i].rule, r) > best_score
            F(best) == [i \in 0..N |->
              IF i = 0 THEN 0
              ELSE IF Better(i, best[i - 1]) THEN i ELSE best[i - 1]]
            g == CHOOSE best : best = F(best)
            step == [i \in 1..N |-> [b \in 0..N |-> IF Better(i, b) THEN i ELSE b]]
<1>0. N \in Nat /\ 0 \in 0..N
  OBVIOUS
<1>n. \A i \in 1..N : i \in 0..N /\ i # 0 /\ i - 1 \in 0..N
  BY <1>0
<1>b. \A i \in 1..N : \A b : Better(i, b) <=> Takes(m, r, i, b)
  <2>. TAKE i \in 1..N
  <2>. TAKE b
  <2>1. Score(m.policies[i].rule, r) \in 0..7
    BY ScoreIsNat
  <2>2. i \in Matching(m, r) <=> Matches(m.policies[i].rule, r)
    BY DEF Matching
  <2>. QED
    BY <2>1, <2>2 DEF Takes
<1>7. FindPolicyLoop(m, r) = IF g[N] = 0 THEN "none" ELSE m.policies[g[N]].policy
  BY DEF FindPolicyLoop
<1>. HIDE DEF N, Better
<1>1. step \in [1..N -> [0..N -> 0..N]]
  BY <1>n
<1>2. \A i \in 1..N, b \in 0..N : step[i][b] = IF Better(i, b) THEN i ELSE b
  OBVIOUS
<1>. HIDE DEF step
<1>3. PICK best : Iterates(N, 0..N, 0, step, best)
  BY <1>0, <1>1, LoopRuns
<1>4. /\ best \in [0..N -> 0..N] /\ best[0] = 0
      /\ \A i \in 1..N : best[i] = step[i][best[i - 1]]
  BY <1>3 DEF Iterates
<1>5. best = F(best)
  <2>1. \A i \in 1..N : best[i] = IF Better(i, best[i - 1]) THEN i ELSE best[i - 1]
    BY <1>2, <1>4, <1>n
  <2>2. \A i \in 0..N : best[i] = F(best)[i]
    <3>1. \A i \in 0..N : i # 0 => i \in 1..N
      BY <1>0
    <3>. QED
      BY <1>4, <2>1, <3>1
  <2>3. best = [i \in 0..N |-> best[i]]
    BY <1>4
  <2>. QED
    BY <2>2, <2>3
<1>6. g = F(g)
  BY <1>5
<1>. HIDE DEF g
<1>8. \A i \in 0..N : g[i] = IF i = 0 THEN 0
                             ELSE IF Better(i, g[i - 1]) THEN i ELSE g[i - 1]
  BY <1>6
<1>9. /\ g[0] = 0
      /\ \A i \in 1..N : g[i] = IF Takes(m, r, i, g[i - 1]) THEN i ELSE g[i - 1]
  BY <1>0, <1>8, <1>n, <1>b
<1>. QED
  BY <1>7, <1>9 DEF N

\* What the scan knows after i entries.
BestSoFar(m, r, i, b) ==
  LET seen == {j \in Matching(m, r) : j <= i}
  IN  IF seen = {} THEN b = 0
      ELSE /\ b \in seen
           /\ \A j \in seen :
                \/ Score(m.policies[b].rule, r) > Score(m.policies[j].rule, r)
                \/ Score(m.policies[b].rule, r) = Score(m.policies[j].rule, r) /\ b <= j

LEMMA ScanStep ==
  ASSUME NEW m, Len(m.policies) \in Nat, DOMAIN m.policies = 1..Len(m.policies), NEW r,
         NEW i \in DOMAIN m.policies, NEW b, NEW c, BestSoFar(m, r, i - 1, b),
         c = IF Takes(m, r, i, b) THEN i ELSE b
  PROVE  BestSoFar(m, r, i, c)
<1>. DEFINE score(j) == Score(m.policies[j].rule, r)
            M == Matching(m, r)
            seen == {j \in M : j <= i - 1}
            next_seen == {j \in M : j <= i}
<1>0. \A j : score(j) \in 0..7
  BY ScoreIsNat
<1>1. i \in Nat /\ i # 0 /\ \A j \in M : j \in Nat /\ j # 0
  BY DEF Matching
<1>2. next_seen = IF i \in M THEN seen \cup {i} ELSE seen
  BY <1>1
<1>3. IF seen = {} THEN b = 0
      ELSE b \in seen /\ \A j \in seen : score(b) > score(j) \/ (score(b) = score(j) /\ b <= j)
  BY DEF BestSoFar
<1>4. c = IF i \in M /\ (b = 0 \/ score(i) > score(b)) THEN i ELSE b
  BY DEF Takes
<1>. SUFFICES IF next_seen = {} THEN c = 0
              ELSE /\ c \in next_seen
                   /\ \A j \in next_seen :
                        score(c) > score(j) \/ (score(c) = score(j) /\ c <= j)
  BY DEF BestSoFar
<1>. HIDE DEF score, M
<1>5. CASE i \notin M
  BY <1>2, <1>3, <1>4, <1>5
<1>6. CASE i \in M /\ seen = {}
  BY <1>0, <1>1, <1>2, <1>3, <1>4, <1>6
<1>7. CASE i \in M /\ seen # {}
  <2>1. b \in seen /\ b # 0 /\ b \in Nat /\ b <= i
    BY <1>1, <1>3, <1>7
  <2>2. CASE score(i) > score(b)
    <3>1. c = i
      BY <1>4, <1>7, <2>2
    <3>2. \A j \in seen : score(i) > score(j)
      BY <1>0, <1>3, <1>7, <2>2
    <3>. QED
      BY <1>1, <1>2, <1>7, <3>1, <3>2
  <2>3. CASE ~(score(i) > score(b))
    <3>1. c = b
      BY <1>4, <2>1, <2>3
    <3>2. score(b) > score(i) \/ (score(b) = score(i) /\ b <= i)
      BY <1>0, <2>1, <2>3
    <3>. QED
      BY <1>2, <1>3, <1>7, <2>1, <3>1, <3>2
  <2>. QED
    BY <2>2, <2>3
<1>. QED
  BY <1>5, <1>6, <1>7

\* The loop ends with the best of all entries.
LEMMA LoopFinds ==
  ASSUME NEW m, Len(m.policies) \in Nat, DOMAIN m.policies = 1..Len(m.policies), NEW r
  PROVE  FindPolicyLoop(m, r) = FindPolicy(m, r)
<1>. DEFINE N == Len(m.policies)
<1>1. PICK best : /\ best[0] = 0
                  /\ \A i \in DOMAIN m.policies :
                       best[i] = IF Takes(m, r, i, best[i - 1]) THEN i ELSE best[i - 1]
                  /\ FindPolicyLoop(m, r) =
                       IF best[Len(m.policies)] = 0 THEN "none"
                       ELSE m.policies[best[Len(m.policies)]].policy
  BY ScanIs
<1>. DEFINE T == {i \in 0..N : ~BestSoFar(m, r, i, best[i])}
<1>2. \A j \in Matching(m, r) : j \in Nat /\ j # 0 /\ j <= N
  BY DEF Matching
<1>3. \A n \in T : n # 0 /\ n - 1 \in T
  <2>. TAKE n \in T
  <2>1. n # 0
    <3>1. {j \in Matching(m, r) : j <= 0} = {}
      BY <1>2
    <3>. QED
      BY <1>1, <3>1 DEF BestSoFar
  <2>2. n \in 1..N /\ n - 1 \in 0..N
    BY <2>1
  <2>3. best[n] = IF Takes(m, r, n, best[n - 1]) THEN n ELSE best[n - 1]
    BY <1>1, <2>2
  <2>4. ~BestSoFar(m, r, n, best[n])
    OBVIOUS
  <2>5. ~BestSoFar(m, r, n - 1, best[n - 1])
    BY <2>2, <2>3, <2>4, ScanStep
  <2>. QED
    BY <2>1, <2>2, <2>5
<1>4. T \in SUBSET Nat
  OBVIOUS
<1>. HIDE DEF T
<1>5. T = {}
  BY <1>3, <1>4, NoneLeast
<1>6. N \in 0..N
  OBVIOUS
<1>7. BestSoFar(m, r, N, best[N])
  BY <1>5, <1>6 DEF T
<1>8. {j \in Matching(m, r) : j <= N} = Matching(m, r)
  BY <1>2
<1>9. CASE Matching(m, r) = {}
  <2>1. best[N] = 0
    BY <1>7, <1>8, <1>9 DEF BestSoFar
  <2>2. FindPolicy(m, r) = "none"
    BY <1>9 DEF FindPolicy, Matching
  <2>. QED
    BY <1>1, <2>1, <2>2
<1>10. CASE Matching(m, r) # {}
  <2>1. Best(m, r, best[N]) /\ best[N] # 0
    BY <1>2, <1>7, <1>8, <1>10 DEF BestSoFar, Best
  <2>2. FindPolicy(m, r) = m.policies[best[N]].policy
    BY <2>1, FindPolicyIs
  <2>. QED
    BY <1>1, <2>1, <2>2
<1>. QED
  BY <1>9, <1>10

(***************************************************************************)
(* The loop of find_policy, written out as it is, returns for every        *)
(* manifest the policy of the most specific rule that matches, the oldest  *)
(* on a tie: what is proved of decisions from that description holds of    *)
(* the loop.  After each entry the loop holds the best of those it passed. *)
(***************************************************************************)
THEOREM LoopFindsPolicy == Spec => []FindPolicyMatchesLoop
<1>1. ManifestInv => FindPolicyMatchesLoop
  <2>. SUFFICES ASSUME ManifestInv, NEW r \in Asked
                PROVE  FindPolicy(Load, r) = FindPolicyLoop(Load, r)
    BY DEF FindPolicyMatchesLoop
  <2>1. Load \in Manifest
    BY LoadIsProper DEF Proper, Stored
  <2>. QED
    BY <2>1, ManifestFields, LoopFinds
<1>. QED
  BY <1>1, ManifestInvariant, PTL
=============================================================================
