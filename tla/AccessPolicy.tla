---------------------------- MODULE AccessPolicy -----------------------------
(***************************************************************************)
(* The access policies of one sandbox (libbubble/access_policy.c): how a   *)
(* request is matched against the rules of a manifest and how a manifest   *)
(* changes.  A manifest is a list of rules with their policies, in the     *)
(* order of their first use, and the requests that wait for a decision,    *)
(* whose order nothing depends on.  A rule has the shape of a request,     *)
(* with wildcards.                                                         *)
(*                                                                         *)
(* Requests and rules are normalised (trimmed, kind and subject in lower   *)
(* case) before anything else is done with them, so the values here are    *)
(* the normalised ones.                                                    *)
(***************************************************************************)
EXTENDS Integers, Sequences, FiniteSets

CONSTANTS
  Kinds, Subjects, Methods, Paths,
  Covers,        \* "*.suffix" pattern -> the subjects that end in .suffix
  MaxPolicies,   \* BUBBLEHUB_ACCESS_MAX_POLICIES
  MaxPending,    \* BUBBLEHUB_ACCESS_MAX_PENDING
  JsonCapacity   \* BUBBLEHUB_ACCESS_JSON_CAPACITY, in entries

Policies == {"always", "never", "ask"}

AccessRequest == [kind : Kinds, subject : Subjects, method : Methods, path : Paths]

Rule == [kind : Kinds, subject : Subjects \cup DOMAIN Covers \cup {"*"},
         method : Methods \cup {"", "*"}, path : Paths \cup {"", "*"}]

PolicyEntry == [rule : Rule, policy : Policies]

Manifest == [policies : Seq(PolicyEntry), pending : SUBSET AccessRequest]

ASSUME AccessAssumption ==
  /\ Kinds # {}
  /\ MaxPolicies \in Nat
  /\ MaxPending \in Nat
  /\ JsonCapacity \in Nat
  /\ \A p \in DOMAIN Covers : Covers[p] \subseteq Subjects
  /\ "*" \notin Subjects \cup DOMAIN Covers
  /\ Subjects \cap DOMAIN Covers = {}

EmptyManifest == [policies |-> << >>, pending |-> {}]

-----------------------------------------------------------------------------
(* Matching.                                                               *)

SubjectMatches(pattern, subject) ==
  \/ pattern = subject
  \/ pattern = "*"
  \/ pattern \in DOMAIN Covers /\ subject \in Covers[pattern]

FieldMatches(pattern, value) == pattern \in {"", "*", value}

Matches(rule, r) ==
  /\ rule.kind = r.kind
  /\ SubjectMatches(rule.subject, r.subject)
  /\ FieldMatches(rule.method, r.method)
  /\ FieldMatches(rule.path, r.path)

\* How specific a rule is for a request it matches.
Score(rule, r) ==
  (IF rule.subject = r.subject THEN 4 ELSE 0)
    + (IF rule.method = r.method THEN 2 ELSE 0)
    + (IF rule.path = r.path THEN 1 ELSE 0)

\* A bug: the first rule that matches is taken.
FindPolicy_FirstMatch(m, r) ==
  LET matching == {i \in DOMAIN m.policies : Matches(m.policies[i].rule, r)}
  IN  IF matching = {} THEN "none"
      ELSE m.policies[CHOOSE i \in matching : \A j \in matching : i <= j].policy

\* The policy of the best match, the first one on a tie; "none" without any.
FindPolicy(m, r) ==
  LET matching == {i \in DOMAIN m.policies : Matches(m.policies[i].rule, r)}
      best(i) == \A j \in matching :
                   LET si == Score(m.policies[i].rule, r)
                       sj == Score(m.policies[j].rule, r)
                   IN  si > sj \/ (si = sj /\ i <= j)
  IN  IF matching = {} THEN "none"
      ELSE m.policies[CHOOSE i \in matching : best(i)].policy

\* find_policy as it is written: one pass that keeps the best entry so far, 0
\* before there is one; best_score is the score of that entry.
FindPolicyLoop(m, r) ==
  LET rule(i) == m.policies[i].rule
      best[i \in 0..Len(m.policies)] ==
        IF i = 0 THEN 0
        ELSE LET b == best[i - 1]
                 best_score == IF b = 0 THEN -1 ELSE Score(rule(b), r)
             IN  IF Matches(rule(i), r) /\ Score(rule(i), r) > best_score THEN i ELSE b
      found == best[Len(m.policies)]
  IN  IF found = 0 THEN "none" ELSE m.policies[found].policy

Decided(m, r) == FindPolicy(m, r) \in {"always", "never"}

-----------------------------------------------------------------------------
(* Changing a manifest.                                                    *)

IsPending(m, r) == r \in m.pending

\* add_pending: NoRoom when the list is full.
PendingIsFull(m, r) == ~IsPending(m, r) /\ Cardinality(m.pending) >= MaxPending

AddPending(m, r) == [m EXCEPT !.pending = @ \cup {r}]

\* A bug: only the request itself is removed, not what the rule covers.
RemovePending_ExactOnly(m, rule) ==
  [m EXCEPT !.pending = @ \ {rule}]

\* remove_pending: what the rule is for and everything it matches.
RemovePending(m, rule) ==
  [m EXCEPT !.pending = {p \in @ : p # rule /\ ~Matches(rule, p)}]

RuleSlots(m, rule) == {i \in DOMAIN m.policies : m.policies[i].rule = rule}

\* A bug: the count is tested after the new entry is written.
PoliciesAreFull_OffByOne(m, rule) == RuleSlots(m, rule) = {} /\ Len(m.policies) > MaxPolicies

PoliciesAreFull(m, rule) == RuleSlots(m, rule) = {} /\ Len(m.policies) >= MaxPolicies

\* A bug: the rule is added although it is in the list.
SetPolicy_Append(m, rule, policy) ==
  [m EXCEPT !.policies = Append(@, [rule |-> rule, policy |-> policy])]

\* The first entry of the rule gets the policy; a new rule goes to the end.
SetPolicy(m, rule, policy) ==
  LET slots == RuleSlots(m, rule)
  IN  IF slots = {}
      THEN [m EXCEPT !.policies = Append(@, [rule |-> rule, policy |-> policy])]
      ELSE LET first == CHOOSE i \in slots : \A j \in slots : i <= j
           IN  [m EXCEPT !.policies[first].policy = policy]

\* manifest_to_json gives up on a manifest that does not fit its buffer.
FitsInFile(m) == Len(m.policies) + Cardinality(m.pending) <= JsonCapacity
=============================================================================
