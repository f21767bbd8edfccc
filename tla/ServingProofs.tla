---------------------------- MODULE ServingProofs ----------------------------
(***************************************************************************)
(* Proofs about the models configuration and the requests that read it     *)
(* (ModelsConfig, HttpApi), for any number of choosers, callers and        *)
(* daemons, any registry and any user file.                                *)
(***************************************************************************)
EXTENDS HttpApi, WellFoundedInduction, TLAPS

-----------------------------------------------------------------------------
(* The choosers.                                                           *)

ChooserFields == {"pc", "way", "specialty", "model", "data"}

ChoosersTyped ==
  /\ chooser = [k \in Choosers |-> chooser[k]]
  /\ \A k \in Choosers : DOMAIN chooser[k] = ChooserFields

\* As long as nothing has disturbed a write, there is at most one, it carries
\* what the file is to be, and the file is that unless it is truncated for it.
WritesInv ==
  ~disturbed =>
    /\ \A j, k \in Choosers : Writing(j) /\ Writing(k) => j = k
    /\ \A k \in Choosers : Writing(k) => chooser[k].data = kept
    /\ \A k \in Choosers : chooser[k].pc = "dump" => file = EmptyFile
    /\ (\A k \in Choosers : chooser[k].pc # "dump") => file = kept

ChooserInv == ChoosersTyped /\ WritesInv

\* One chooser moves and the others stay.
LEMMA ChooserMoves ==
  ASSUME ChoosersTyped, NEW k \in Choosers, NEW state, Becomes(k, state)
  PROVE  /\ chooser' = [j \in Choosers |-> chooser'[j]]
         /\ chooser'[k] = state
         /\ \A j \in Choosers : j # k => chooser'[j] = chooser[j]
BY DEF ChoosersTyped, Becomes

\* What is kept of a chooser whose record is updated.
LEMMA FieldsKept ==
  ASSUME NEW r, DOMAIN r = ChooserFields, NEW p, NEW w, NEW m, NEW d
  PROVE  /\ LET u == [r EXCEPT !.pc = p, !.way = w, !.model = m]
            IN  /\ DOMAIN u = ChooserFields /\ u.pc = p /\ u.model = m
                /\ u.specialty = r.specialty /\ u.data = r.data
         /\ LET u == [r EXCEPT !.pc = p, !.data = d]
            IN  /\ DOMAIN u = ChooserFields /\ u.pc = p /\ u.model = r.model
                /\ u.specialty = r.specialty /\ u.data = d
         /\ LET u == [r EXCEPT !.pc = p]
            IN  /\ DOMAIN u = ChooserFields /\ u.pc = p /\ u.model = r.model
                /\ u.specialty = r.specialty /\ u.data = r.data
BY DEF ChooserFields

LEMMA IdleIs ==
  DOMAIN Idle = ChooserFields /\ Idle.pc = "idle"
BY DEF Idle, ChooserFields

\* A chooser that is not writing goes on, and does not write either.
LEMMA NotWritingKeeps ==
  ASSUME ChooserInv, NEW k \in Choosers, NEW state, Becomes(k, state),
         DOMAIN state = ChooserFields, state.pc \notin {"truncate", "dump"}, ~Writing(k),
         UNCHANGED file, disturbed' = disturbed, kept' = kept
  PROVE  ChooserInv'
<1>1. /\ chooser' = [j \in Choosers |-> chooser'[j]] /\ chooser'[k] = state
      /\ \A j \in Choosers : j # k => chooser'[j] = chooser[j]
  BY ChooserMoves DEF ChooserInv
<1>2. ChoosersTyped'
  BY <1>1 DEF ChooserInv, ChoosersTyped
<1>3. WritesInv'
  BY <1>1 DEF ChooserInv, WritesInv, Writing
<1>. QED
  BY <1>2, <1>3 DEF ChooserInv

LEMMA ChoosingKeeps ==
  ASSUME ChooserInv, NEW k \in Choosers,
         \/ \E way, s : Begin(k, way, s)
         \/ \E m : Choose(k, m)
         \/ ChooseFails(k)
  PROVE  ChooserInv'
<1>1. CASE \E way, s : Begin(k, way, s)
  <2>1. PICK way, s : Begin(k, way, s)
    BY <1>1
  <2>2. ~Writing(k) /\ UNCHANGED <<file, disturbed, kept>>
    BY <2>1 DEF Begin, Writing
  <2>3. PICK state : /\ Becomes(k, state)
                     /\ state = [Idle EXCEPT !.pc = "choose", !.way = way, !.specialty = s]
    BY <2>1 DEF Begin
  <2>4. DOMAIN state = ChooserFields /\ state.pc = "choose"
    BY <2>3 DEF Idle, ChooserFields
  <2>. QED
    BY <2>2, <2>3, <2>4, NotWritingKeeps
<1>2. CASE \E m : Choose(k, m)
  <2>1. PICK m : Choose(k, m)
    BY <1>2
  <2>2. ~Writing(k) /\ UNCHANGED <<file, disturbed, kept>>
    BY <2>1 DEF Choose, Writing
  <2>3. PICK state : /\ Becomes(k, state)
                     /\ state = [chooser[k] EXCEPT !.pc = "read", !.way = "", !.model = m]
    BY <2>1 DEF Choose
  <2>4. DOMAIN state = ChooserFields /\ state.pc = "read"
    BY <2>3, FieldsKept DEF ChooserInv, ChoosersTyped
  <2>. QED
    BY <2>2, <2>3, <2>4, NotWritingKeeps
<1>3. CASE ChooseFails(k)
  <2>1. ~Writing(k) /\ UNCHANGED <<file, disturbed, kept>> /\ Becomes(k, Idle)
    BY <1>3 DEF ChooseFails, Writing
  <2>. QED
    BY <2>1, IdleIs, NotWritingKeeps
<1>. QED
  BY <1>1, <1>2, <1>3

LEMMA WritingKeeps ==
  ASSUME ChooserInv, NEW k \in Choosers,
         ReadConfig(k) \/ Truncate(k) \/ Dump(k) \/ ChooserKilled(k)
  PROVE  ChooserInv'
<1>0. DOMAIN chooser[k] = ChooserFields
  BY DEF ChooserInv, ChoosersTyped
<1>1. CASE ReadConfig(k)
  <2>1. CASE file = Corrupt
    <3>1. Becomes(k, Idle) /\ UNCHANGED file
      BY <1>1, <2>1 DEF ReadConfig
    <3>2. /\ chooser' = [j \in Choosers |-> chooser'[j]] /\ chooser'[k] = Idle
          /\ \A j \in Choosers : j # k => chooser'[j] = chooser[j]
      BY <3>1, ChooserMoves DEF ChooserInv
    <3>3. ChoosersTyped'
      BY <3>2, IdleIs DEF ChooserInv, ChoosersTyped
    <3>4. ~disturbed' => ~disturbed /\ kept' = kept
      BY <1>1 DEF ReadConfig
    <3>5. chooser[k].pc = "read"
      BY <1>1 DEF ReadConfig
    <3>6. WritesInv'
      BY <3>1, <3>2, <3>4, <3>5, IdleIs DEF ChooserInv, WritesInv, Writing
    <3>. QED
      BY <3>3, <3>6 DEF ChooserInv
  <2>2. CASE file # Corrupt
    <3>1. UNCHANGED file /\ chooser[k].pc = "read"
      BY <1>1 DEF ReadConfig
    <3>2. PICK state : /\ Becomes(k, state)
                       /\ state = [chooser[k] EXCEPT !.pc = "truncate", !.data = file]
      BY <1>1, <2>2 DEF ReadConfig
    <3>3. DOMAIN state = ChooserFields /\ state.pc = "truncate" /\ state.data = file
      BY <1>0, <3>2, FieldsKept
    <3>4. /\ chooser' = [j \in Choosers |-> chooser'[j]] /\ chooser'[k] = state
          /\ \A j \in Choosers : j # k => chooser'[j] = chooser[j]
      BY <3>2, ChooserMoves DEF ChooserInv
    <3>5. ChoosersTyped'
      BY <3>3, <3>4 DEF ChooserInv, ChoosersTyped
    <3>6. ~disturbed' => ~disturbed /\ kept' = kept /\ \A j \in Choosers \ {k} : ~Writing(j)
      BY <1>1 DEF ReadConfig
    <3>7. ~disturbed' => file = kept
      BY <3>1, <3>6 DEF ChooserInv, WritesInv, Writing
    <3>8. WritesInv'
      BY <3>1, <3>3, <3>4, <3>6, <3>7 DEF WritesInv, Writing
    <3>. QED
      BY <3>5, <3>8 DEF ChooserInv
  <2>. QED
    BY <2>1, <2>2
<1>2. CASE Truncate(k)
  <2>1. /\ UNCHANGED <<disturbed, kept>> /\ chooser[k].pc = "truncate" /\ file' = EmptyFile
    BY <1>2 DEF Truncate
  <2>2. PICK state : Becomes(k, state) /\ state = [chooser[k] EXCEPT !.pc = "dump"]
    BY <1>2 DEF Truncate
  <2>3. DOMAIN state = ChooserFields /\ state.pc = "dump" /\ state.data = chooser[k].data
    BY <1>0, <2>2, FieldsKept
  <2>4. /\ chooser' = [j \in Choosers |-> chooser'[j]] /\ chooser'[k] = state
        /\ \A j \in Choosers : j # k => chooser'[j] = chooser[j]
    BY <2>2, ChooserMoves DEF ChooserInv
  <2>5. ChoosersTyped'
    BY <2>3, <2>4 DEF ChooserInv, ChoosersTyped
  <2>6. EmptyFile' = EmptyFile
    BY DEF EmptyFile
  <2>7. WritesInv'
    BY <2>1, <2>3, <2>4, <2>6 DEF ChooserInv, WritesInv, Writing
  <2>. QED
    BY <2>5, <2>7 DEF ChooserInv
<1>3. CASE Dump(k)
  <2>1. UNCHANGED disturbed /\ chooser[k].pc = "dump" /\ Becomes(k, Idle)
    BY <1>3 DEF Dump
  <2>2. /\ chooser' = [j \in Choosers |-> chooser'[j]] /\ chooser'[k] = Idle
        /\ \A j \in Choosers : j # k => chooser'[j] = chooser[j]
    BY <2>1, ChooserMoves DEF ChooserInv
  <2>3. ChoosersTyped'
    BY <2>2, IdleIs DEF ChooserInv, ChoosersTyped
  <2>4. ASSUME ~disturbed
        PROVE  /\ file' = kept'
               /\ \A j \in Choosers : ~Writing(j)'
    <3>1. chooser[k].data = kept /\ file = EmptyFile
      BY <2>1, <2>4 DEF ChooserInv, WritesInv, Writing
    <3>2. file' = WithChoice(kept, chooser[k].specialty, chooser[k].model)
      BY <1>3, <3>1 DEF Dump
    <3>3. kept' = WithChoice(kept, chooser[k].specialty, chooser[k].model)
      BY <1>3, <2>4 DEF Dump
    <3>4. \A j \in Choosers : j # k => ~Writing(j)
      BY <2>1, <2>4 DEF ChooserInv, WritesInv, Writing
    <3>. QED
      BY <2>2, <3>2, <3>3, <3>4, IdleIs DEF Writing
  <2>5. WritesInv'
    BY <2>1, <2>4 DEF WritesInv, Writing
  <2>. QED
    BY <2>3, <2>5 DEF ChooserInv
<1>4. CASE ChooserKilled(k)
  <2>1. UNCHANGED file /\ Becomes(k, Idle) /\ Writing(k)
    BY <1>4 DEF ChooserKilled
  <2>2. /\ chooser' = [j \in Choosers |-> chooser'[j]] /\ chooser'[k] = Idle
        /\ \A j \in Choosers : j # k => chooser'[j] = chooser[j]
    BY <2>1, ChooserMoves DEF ChooserInv
  <2>3. ChoosersTyped'
    BY <2>2, IdleIs DEF ChooserInv, ChoosersTyped
  <2>4. ~disturbed' => ~disturbed /\ kept' = kept /\ chooser[k].pc # "dump"
    BY <1>4 DEF ChooserKilled
  <2>5. WritesInv'
    BY <2>1, <2>2, <2>4, IdleIs DEF ChooserInv, WritesInv, Writing
  <2>. QED
    BY <2>3, <2>5 DEF ChooserInv
<1>. QED
  BY <1>1, <1>2, <1>3, <1>4

\* A step of the whole system is one of a chooser, or leaves them alone.
LEMMA ChoosersAlone ==
  ASSUME HNext, ~ChooserStep
  PROVE  UNCHANGED cvars
BY DEF HNext, DaemonDies, Ask, AskAgain, TimesOut, ThreadStep, Alias, ReadLimits, Configure,
       ReadRegistry, ReadFails, Pick, Fetch, ChatEnds, Reads, OtherReads, OtherConfigures

LEMMA ChooserInvInitially == HInit => ChooserInv
<1>. SUFFICES ASSUME HInit PROVE ChooserInv
  OBVIOUS
<1>1. chooser = [k \in Choosers |-> Idle] /\ file = kept
  BY DEF HInit, CInit
<1>2. \A k \in Choosers : chooser[k] = Idle
  BY <1>1
<1>3. ChoosersTyped
  BY <1>1, <1>2, IdleIs DEF ChoosersTyped
<1>. QED
  BY <1>1, <1>2, <1>3, IdleIs DEF ChooserInv, WritesInv, Writing

LEMMA ChooserInvStep ==
  ASSUME ChooserInv, [HNext]_hvars
  PROVE  ChooserInv'
<1>1. CASE ChooserStep
  BY <1>1, ChoosingKeeps, WritingKeeps DEF ChooserStep, CNext
<1>2. CASE UNCHANGED cvars
  BY <1>2 DEF cvars, ChooserInv, ChoosersTyped, WritesInv, Writing
<1>3. UNCHANGED hvars => UNCHANGED cvars
  BY DEF hvars
<1>. QED
  BY <1>1, <1>2, <1>3, ChoosersAlone

LEMMA ChooserInvariant == HSpec => []ChooserInv
BY ChooserInvInitially, ChooserInvStep, PTL DEF HSpec

(***************************************************************************)
(* Choices made one after the other all stand: unless two writes overlap   *)
(* or one is cut short, models.yaml is what it was with every choice made  *)
(* so far, or truncated for the moment by the one that is being written.   *)
(***************************************************************************)
THEOREM ChoicesAreKept == HSpec => []ChoicesKept
<1>1. ChooserInv => ChoicesKept
  BY DEF ChooserInv, WritesInv, ChoicesKept, Truncated
<1>. QED
  BY <1>1, ChooserInvariant, PTL

-----------------------------------------------------------------------------
(* The choice of a model.                                                  *)

LEMMA LeastNat ==
  ASSUME NEW S \in SUBSET Nat, S # {}
  PROVE  \E x \in S : \A y \in S : x <= y
<1>1. PICK x \in S : \A y \in S : ~(<<y, x>> \in OpToRel(<, Nat))
  BY NatLessThanWellFounded, WFMin, Zenon
<1>2. \A y \in S : ~(y < x)
  BY <1>1 DEF OpToRel
<1>. QED
  BY <1>2

\* The order of the tiers is one of four tuples, so that ranks are numbers.
LEMMA TierOrders ==
  ASSUME NEW hw
  PROVE  \/ SelectTier(hw) = <<"tiny">>
         \/ SelectTier(hw) = <<"large", "medium", "small", "tiny">>
         \/ SelectTier(hw) = <<"medium", "small", "tiny">>
         \/ SelectTier(hw) = <<"small", "tiny">>
BY DEF SelectTier

LEMMA TierRankIsNat ==
  ASSUME NEW hw, NEW m
  PROVE  TierRank(m, SelectTier(hw)) \in Nat
<1>. DEFINE ranks == {i \in DOMAIN SelectTier(hw) : SelectTier(hw)[i] = m.tier} \cup {1000}
<1>1. DOMAIN SelectTier(hw) \subseteq Nat
  BY TierOrders
<1>2. ranks \in SUBSET Nat /\ ranks # {}
  BY <1>1
<1>3. TierRank(m, SelectTier(hw)) = Min(ranks)
  BY DEF TierRank
<1>4. Min(ranks) \in ranks
  <2>. HIDE DEF ranks
  <2>1. PICK x \in ranks : \A y \in ranks : x <= y
    BY <1>2, LeastNat
  <2>. QED
    BY <2>1 DEF Min
<1>. QED
  BY <1>2, <1>3, <1>4

\* Of the models of a list, one sorts before all others.
LEMMA FirstOfIsMember ==
  ASSUME NEW S \in SUBSET Packaged.models, S # {}, NEW hw
  PROVE  FirstOf(S, SelectTier(hw)) \in S
<1>. DEFINE order == SelectTier(hw)
            places == {PlacementRank(m) : m \in S}
<1>1. places \in SUBSET Nat /\ places # {}
  BY DEF PlacementRank
<1>2. PICK a \in S : \A m \in S : PlacementRank(a) <= PlacementRank(m)
  <2>. HIDE DEF places
  <2>1. PICK x \in places : \A y \in places : x <= y
    BY <1>1, LeastNat
  <2>. QED
    BY <2>1 DEF places
<1>. DEFINE T == {m \in S : PlacementRank(m) = PlacementRank(a)}
            tiers == {TierRank(m, order) : m \in T}
<1>3. tiers \in SUBSET Nat /\ tiers # {}
  BY TierRankIsNat
<1>4. PICK b \in T : \A m \in T : TierRank(b, order) <= TierRank(m, order)
  <2>. HIDE DEF tiers, T
  <2>1. PICK x \in tiers : \A y \in tiers : x <= y
    BY <1>3, LeastNat
  <2>. QED
    BY <2>1 DEF tiers
<1>. DEFINE U == {m \in T : TierRank(m, order) = TierRank(b, order)}
            names == {m.name : m \in U}
<1>5. names \in SUBSET Nat /\ names # {}
  BY ModelsConfigAssumption
<1>6. PICK d \in U : \A m \in U : d.name <= m.name
  <2>. HIDE DEF names, U
  <2>1. PICK x \in names : \A y \in names : x <= y
    BY <1>5, LeastNat
  <2>. QED
    BY <2>1 DEF names
<1>. DEFINE W == {m \in U : m.name = d.name}
            indices == {m.place : m \in W}
<1>8. indices \in SUBSET Nat /\ indices # {}
  BY ModelsConfigAssumption
<1>9. PICK c \in W : \A m \in W : c.place <= m.place
  <2>. HIDE DEF indices, W
  <2>1. PICK x \in indices : \A y \in indices : x <= y
    BY <1>8, LeastNat
  <2>. QED
    BY <2>1 DEF indices
<1>7. ASSUME NEW n \in S \ {c}
      PROVE  SortsBefore(c, n, order)
  <2>1. /\ PlacementRank(c) \in Nat /\ PlacementRank(n) \in Nat
        /\ TierRank(c, order) \in Nat /\ TierRank(n, order) \in Nat
        /\ c.name \in Nat /\ n.name \in Nat /\ c.place \in Nat /\ n.place \in Nat
    BY TierRankIsNat, ModelsConfigAssumption DEF PlacementRank
  <2>. HIDE DEF order
  <2>2. CASE PlacementRank(c) < PlacementRank(n)
    <3>1. \E k \in 1..4 : k = 1
      OBVIOUS
    <3>. QED
      BY <2>2, <3>1 DEF SortsBefore
  <2>3. CASE PlacementRank(c) = PlacementRank(n) /\ TierRank(c, order) < TierRank(n, order)
    BY <2>3 DEF SortsBefore
  <2>4. CASE /\ PlacementRank(c) = PlacementRank(n) /\ TierRank(c, order) = TierRank(n, order)
             /\ c.name < n.name
    BY <2>4 DEF SortsBefore
  <2>5. CASE /\ PlacementRank(c) = PlacementRank(n) /\ TierRank(c, order) = TierRank(n, order)
             /\ c.name = n.name /\ c.place < n.place
    BY <2>5 DEF SortsBefore
  <2>6. PlacementRank(c) <= PlacementRank(n)
    BY <1>2
  <2>7. PlacementRank(c) = PlacementRank(n) => TierRank(c, order) <= TierRank(n, order)
    BY <1>4
  <2>8. PlacementRank(c) = PlacementRank(n) /\ TierRank(c, order) = TierRank(n, order) => c.name <= n.name
    BY <1>6
  <2>9. /\ PlacementRank(c) = PlacementRank(n) /\ TierRank(c, order) = TierRank(n, order)
        /\ c.name = n.name
        => c.place <= n.place
    BY <1>9
  <2>10. c.place # n.place
    BY ModelsConfigAssumption
  <2>. QED
    BY <2>1, <2>2, <2>3, <2>4, <2>5, <2>6, <2>7, <2>8, <2>9, <2>10
<1>. QED
  BY <1>7 DEF FirstOf

\* What a session starts is one of the candidates.
LEMMA SessionModelIs ==
  ASSUME NEW registry, registry.models = Packaged.models, NEW s, NEW l,
         SessionModel(registry, s, Machine, l) # NoModel
  PROVE  LET m == SessionModel(registry, s, Machine, l)
         IN  /\ m \in Packaged.models /\ s \in DOMAIN registry.specialties
             /\ IF registry.specialties[s].model # AnyValue THEN m.name = registry.specialties[s].model
                ELSE m.capability = registry.specialties[s].capability
             /\ l.ram > 0 => m.ram <= l.ram
             /\ l.vram > 0 => m.vram <= l.vram
<1>. DEFINE hw == DetectHardware(Machine)
            ram == LimitGb(ReportedLimits(Machine, l).ram, hw.ram)
            vram == LimitGb(ReportedLimits(Machine, l).vram, hw.vram)
            C == ResolveCandidates(registry, s, ram, vram, hw.backends)
            m == SessionModel(registry, s, Machine, l)
<1>1. m = FirstOf(C, SelectTier(hw))
  BY DEF SessionModel
<1>2. C # {}
  BY <1>1 DEF FirstOf
<1>3. C \in SUBSET Packaged.models
  BY DEF ResolveCandidates
<1>4. m \in C
  BY <1>1, <1>2, <1>3, FirstOfIsMember
<1>5. (l.ram > 0 => ram = l.ram) /\ (l.vram > 0 => vram = l.vram)
  BY DEF LimitGb, ReportedLimits
<1>. HIDE DEF ram, vram, m
<1>6. /\ m \in Packaged.models /\ s \in DOMAIN registry.specialties
      /\ IF registry.specialties[s].model # AnyValue THEN m.name = registry.specialties[s].model
         ELSE m.capability = registry.specialties[s].capability
      /\ m.ram <= ram /\ m.vram <= vram
  BY <1>2, <1>4 DEF ResolveCandidates, IsModelName, Fits
<1>. QED
  BY <1>5, <1>6 DEF m

\* A user file only replaces specialties.
LEMMA RegistryIs ==
  ASSUME NEW f
  PROVE  /\ RegistryOf(f).models = Packaged.models
         /\ DOMAIN RegistryOf(f).specialties = DOMAIN Packaged.specialties \cup DOMAIN f.specialties
         /\ \A s \in DOMAIN RegistryOf(f).specialties :
              RegistryOf(f).specialties[s] =
                IF s \in DOMAIN f.specialties THEN f.specialties[s] ELSE Packaged.specialties[s]
BY ModelsConfigAssumption DEF RegistryOf

LEMMA WithChoiceIs ==
  ASSUME NEW f, DOMAIN f = {"limits", "specialties"}, NEW s, NEW m
  PROVE  LET g == WithChoice(f, s, m)
         IN  /\ DOMAIN g = {"limits", "specialties"} /\ g.limits = f.limits
             /\ DOMAIN g.specialties = DOMAIN f.specialties \cup {s}
             /\ \A t \in DOMAIN g.specialties :
                  g.specialties[t] =
                    IF t = s THEN [capability |-> m.capability, flavor |-> AnyValue,
                                   min_context |-> AnyValue, model |-> m.name]
                    ELSE f.specialties[t]
BY DEF WithChoice

-----------------------------------------------------------------------------
(* The requests.                                                           *)

Registered == DOMAIN RegistryOf(UserFile).specialties
Capability(s) == RegistryOf(UserFile).specialties[s].capability

\* The specialties that choosers name are registered, and what is kept has the
\* limits of the user and the specialties.
KeptInv ==
  /\ \A k \in Choosers : chooser[k].pc # "idle" => chooser[k].specialty \in Registered
  /\ ~disturbed => /\ DOMAIN kept = {"limits", "specialties"} /\ kept.limits = UserFile.limits
                   /\ DOMAIN RegistryOf(kept).specialties = Registered

RequestFields ==
  {"client", "again", "thread", "server", "kind", "specialty", "resolved", "limits", "data",
   "model", "pin", "cut"}

RequestsTyped ==
  /\ request = [c \in Callers |-> request[c]]
  /\ \A c \in Callers : DOMAIN request[c] = RequestFields
  /\ daemon = [d \in Daemons |-> daemon[d]]
  /\ \A d \in Daemons : DOMAIN daemon[d] = {"pc", "default"}

\* A thread belongs to a daemon that was started, and has a model late only.
ThreadInv(c) ==
  /\ request[c].model # NoModel => request[c].thread \in {"fetch", "chat"}
  /\ request[c].thread # "none" =>
       request[c].server \in Daemons /\ daemon[request[c].server].pc # "none"

ResolvedInv(c) ==
  UndisturbedReads /\ request[c].thread \notin {"none", "alias"} =>
    request[c].resolved =
      Meaning(request[c].specialty, Registered, daemon[request[c].server].default)

\* As long as the file is the one of the time when it was asked, a pin is in it
\* and in what was read of it.
PinInv(c) ==
  LET meant == Meaning(request[c].specialty, DOMAIN RegistryOf(file).specialties, request[c].specialty)
  IN  request[c].pin # AnyValue =>
        /\ meant \in DOMAIN file.specialties /\ file.specialties[meant].model = request[c].pin
        /\ request[c].thread \notin {"none", "alias"} => request[c].resolved = meant
        /\ request[c].thread = "pick" => request[c].data = file
        /\ request[c].model # NoModel => request[c].model.name = request[c].pin

CallerInv(c) == ThreadInv(c) /\ ResolvedInv(c) /\ PinInv(c)

ServingInv == ChooserInv /\ KeptInv /\ RequestsTyped /\ \A c \in Callers : CallerInv(c)

\* What a step of somebody else leaves of a request.
SameRequest(c) ==
  /\ request'[c].thread = request[c].thread /\ request'[c].server = request[c].server
  /\ request'[c].specialty = request[c].specialty /\ request'[c].resolved = request[c].resolved
  /\ request'[c].data = request[c].data /\ request'[c].model = request[c].model

DaemonsStay ==
  \A d \in Daemons : daemon[d].pc # "none" =>
    daemon'[d].pc # "none" /\ daemon'[d].default = daemon[d].default

\* Nothing a request relies on changes under it.
LEMMA FrameKeeps ==
  ASSUME NEW c \in Callers, CallerInv(c), SameRequest(c), DaemonsStay,
         \/ request'[c].pin = AnyValue
         \/ request'[c].pin = request[c].pin /\ file' = file,
         UndisturbedReads' => UndisturbedReads
  PROVE  CallerInv(c)'
<1>1. ThreadInv(c)'
  BY DEF CallerInv, ThreadInv, SameRequest, DaemonsStay
<1>3. ResolvedInv(c)'
  <2>. SUFFICES ASSUME UndisturbedReads', request'[c].thread \notin {"none", "alias"}
                PROVE  ResolvedInv(c)'
    BY DEF ResolvedInv
  <2>1. request[c].server \in Daemons /\ daemon[request[c].server].pc # "none"
    BY DEF CallerInv, ThreadInv, SameRequest
  <2>2. daemon'[request'[c].server].default = daemon[request[c].server].default
    BY <2>1 DEF SameRequest, DaemonsStay
  <2>. QED
    BY <2>2 DEF CallerInv, ResolvedInv, SameRequest
<1>4. PinInv(c)'
  BY DEF CallerInv, PinInv, SameRequest
<1>. QED
  BY <1>1, <1>3, <1>4 DEF CallerInv

\* A thread that ends leaves nothing behind but the pin.
LEMMA EndKeeps ==
  ASSUME NEW c \in Callers, CallerInv(c), request'[c].thread = "none", request'[c].model = NoModel,
         request'[c].pin = request[c].pin, request'[c].specialty = request[c].specialty, file' = file
  PROVE  CallerInv(c)'
BY DEF CallerInv, ThreadInv, ResolvedInv, PinInv

\* One request changes and the others stay.
LEMMA RequestMoves ==
  ASSUME RequestsTyped, NEW c \in Callers, NEW r, DOMAIN r = RequestFields, Sets(c, r),
         UNCHANGED daemon
  PROVE  /\ RequestsTyped' /\ DaemonsStay /\ request'[c] = r
         /\ \A b \in Callers : b # c => request'[b] = request[b]
<1>1. /\ request' = [b \in Callers |-> request'[b]] /\ request'[c] = r
      /\ \A b \in Callers : b # c => request'[b] = request[b]
  BY DEF RequestsTyped, Sets
<1>. QED
  BY <1>1 DEF RequestsTyped, DaemonsStay

\* The step of one request, once it is shown of that request itself.
LEMMA OneRequest ==
  ASSUME ServingInv, NEW c \in Callers, NEW r, DOMAIN r = RequestFields, Sets(c, r),
         UNCHANGED <<cvars, daemon>>, torn => torn',
         ASSUME request'[c] = r PROVE CallerInv(c)'
  PROVE  ServingInv'
<1>1. /\ RequestsTyped' /\ DaemonsStay /\ request'[c] = r
      /\ \A b \in Callers : b # c => request'[b] = request[b]
  BY RequestMoves DEF ServingInv
<1>2. UndisturbedReads' => UndisturbedReads /\ file' = file
  BY DEF UndisturbedReads, cvars
<1>3. ASSUME NEW b \in Callers, b # c
      PROVE  CallerInv(b)'
  <2>1. SameRequest(b) /\ request'[b].pin = request[b].pin /\ file' = file
    BY <1>1, <1>3 DEF SameRequest, cvars
  <2>. QED
    BY <1>1, <1>2, <1>3, <2>1, FrameKeeps DEF ServingInv
<1>4. CallerInv(c)'
  BY <1>1
<1>5. ChooserInv' /\ KeptInv'
  BY DEF ServingInv, ChooserInv, ChoosersTyped, WritesInv, Writing, KeptInv, cvars
<1>. QED
  BY <1>1, <1>3, <1>4, <1>5 DEF ServingInv

\* A thread that ends.
LEMMA EndedIs ==
  ASSUME NEW r, DOMAIN r = RequestFields, NEW outcome
  PROVE  LET e == Ended(r, outcome)
         IN  /\ DOMAIN e = RequestFields /\ e.thread = "none" /\ e.model = NoModel
             /\ e.pin = r.pin /\ e.specialty = r.specialty
BY DEF Ended, RequestFields

LEMMA RequestEnds ==
  ASSUME ServingInv, NEW c \in Callers, NEW outcome, Sets(c, Ended(request[c], outcome)),
         UNCHANGED <<cvars, dvars, torn>>
  PROVE  ServingInv'
<1>1. PICK e : e = Ended(request[c], outcome)
  OBVIOUS
<1>2. /\ DOMAIN e = RequestFields /\ e.thread = "none" /\ e.model = NoModel
      /\ e.pin = request[c].pin /\ e.specialty = request[c].specialty
  BY <1>1, EndedIs DEF ServingInv, RequestsTyped
<1>3. Sets(c, e)
  BY <1>1
<1>4. UNCHANGED <<file, daemon>>
  BY DEF cvars, dvars
<1>5. ASSUME request'[c] = e PROVE CallerInv(c)'
  BY <1>2, <1>4, <1>5, EndKeeps DEF ServingInv
<1>. QED
  BY <1>2, <1>3, <1>4, <1>5, OneRequest

-----------------------------------------------------------------------------
(* The client's steps.                                                     *)

LEMMA PostsKeeps ==
  ASSUME ServingInv, NEW c \in Callers, NEW s, NEW kind, NEW again, Posts(c, s, kind, again),
         UNCHANGED <<cvars, dvars, torn>>
  PROVE  ServingInv'
<1>. DEFINE r == [NoRequest EXCEPT !.client = "waiting", !.again = again, !.kind = kind, !.specialty = s]
            f == [r EXCEPT !.client = "failed"]
<1>1. UNCHANGED <<file, daemon>>
  BY DEF cvars, dvars
<1>2. /\ DOMAIN r = RequestFields /\ r.thread = "none" /\ r.model = NoModel /\ r.pin = AnyValue
      /\ r.specialty = s
  BY DEF NoRequest, RequestFields
<1>3. CASE Sets(c, f)
  <2>1. DOMAIN f = RequestFields /\ f.thread = "none" /\ f.model = NoModel /\ f.pin = AnyValue
    BY <1>2 DEF RequestFields
  <2>. HIDE DEF f
  <2>2. ASSUME request'[c] = f PROVE CallerInv(c)'
    BY <2>1, <2>2 DEF CallerInv, ThreadInv, ResolvedInv, PinInv
  <2>. QED
    BY <1>1, <1>3, <2>1, <2>2, OneRequest
<1>4. CASE \E d \in Daemons :
             Listening(d) /\ Sets(c, [r EXCEPT !.thread = "alias", !.server = d, !.pin = PinOf(s)])
  <2>1. PICK d \in Daemons :
          Listening(d) /\ Sets(c, [r EXCEPT !.thread = "alias", !.server = d, !.pin = PinOf(s)])
    BY <1>4
  <2>2. PICK a : a = [r EXCEPT !.thread = "alias", !.server = d, !.pin = PinOf(s)]
    OBVIOUS
  <2>. HIDE DEF r
  <2>3. /\ DOMAIN a = RequestFields /\ a.thread = "alias" /\ a.model = NoModel /\ a.server = d
        /\ a.pin = PinOf(s) /\ a.specialty = s
    BY <1>2, <2>2 DEF RequestFields
  <2>4. ASSUME request'[c] = a PROVE CallerInv(c)'
    <3>1. ThreadInv(c)' /\ ResolvedInv(c)'
      BY <1>1, <2>1, <2>3, <2>4 DEF ThreadInv, ResolvedInv, Listening
    <3>2. PinInv(c)'
      BY <1>1, <2>3, <2>4 DEF PinInv, PinOf
    <3>. QED
      BY <3>1, <3>2 DEF CallerInv
  <2>. QED
    BY <1>1, <2>1, <2>2, <2>3, <2>4, OneRequest
<1>. QED
  BY <1>3, <1>4 DEF Posts

LEMMA ClientKeeps ==
  ASSUME ServingInv, NEW c \in Callers,
         (\E s, kind : Ask(c, s, kind)) \/ AskAgain(c) \/ TimesOut(c)
  PROVE  ServingInv'
<1>1. CASE \E s, kind : Ask(c, s, kind)
  BY <1>1, PostsKeeps DEF Ask
<1>2. CASE AskAgain(c)
  BY <1>2, PostsKeeps DEF AskAgain
<1>3. CASE TimesOut(c)
  <2>1. PICK r : r = [request[c] EXCEPT !.client = "failed"]
    OBVIOUS
  <2>2. Sets(c, r) /\ UNCHANGED <<cvars, dvars, torn>>
    BY <1>3, <2>1 DEF TimesOut
  <2>3. /\ DOMAIN r = RequestFields
        /\ \A f \in RequestFields : f # "client" => r[f] = request[c][f]
    BY <2>1 DEF ServingInv, RequestsTyped
  <2>4. UNCHANGED <<file, daemon>> /\ (UndisturbedReads' => UndisturbedReads)
    BY <2>2 DEF cvars, dvars, UndisturbedReads
  <2>5. ASSUME request'[c] = r PROVE CallerInv(c)'
    <3>1. SameRequest(c) /\ request'[c].pin = request[c].pin
      BY <2>3, <2>5 DEF SameRequest, RequestFields
    <3>2. DaemonsStay
      BY <2>4 DEF DaemonsStay
    <3>. QED
      BY <2>2, <2>4, <3>1, <3>2, FrameKeeps DEF ServingInv
  <2>. QED
    BY <2>2, <2>3, <2>4, <2>5, OneRequest
<1>. QED
  BY <1>1, <1>2, <1>3

-----------------------------------------------------------------------------
(* The thread's steps.                                                     *)

\* A read that is not torn and not disturbed finds what is kept.
LEMMA ReadsKept ==
  ASSUME ServingInv, NEW c \in Callers, NEW from, Reads(c, from)
  PROVE  /\ UndisturbedReads' => UndisturbedReads /\ file = kept
         /\ UNCHANGED <<cvars, dvars>> /\ (torn => torn') /\ request[c].thread = from
<1>1. UNCHANGED <<cvars, dvars>> /\ torn' = (torn \/ Truncated) /\ request[c].thread = from
  BY DEF Reads
<1>2. UndisturbedReads' => ~torn /\ ~disturbed /\ ~Truncated
  BY <1>1 DEF UndisturbedReads, cvars
<1>3. ~disturbed /\ ~Truncated => file = kept
  BY DEF ServingInv, ChooserInv, WritesInv, Truncated
<1>. QED
  BY <1>1, <1>2, <1>3 DEF UndisturbedReads

LEMMA AliasKeeps ==
  ASSUME ServingInv, NEW c \in Callers, Alias(c)
  PROVE  ServingInv'
<1>1. /\ UndisturbedReads' => UndisturbedReads /\ file = kept
      /\ UNCHANGED <<cvars, dvars>> /\ (torn => torn') /\ request[c].thread = "alias"
  BY ReadsKept DEF Alias
<1>2. PICK r : r = [request[c] EXCEPT !.thread = "limits", !.resolved = Resolved(request[c])]
  OBVIOUS
<1>3. Sets(c, r)
  BY <1>2 DEF Alias
<1>4. /\ DOMAIN r = RequestFields /\ r.thread = "limits" /\ r.resolved = Resolved(request[c])
      /\ r.specialty = request[c].specialty /\ r.server = request[c].server
      /\ r.pin = request[c].pin /\ r.model = request[c].model
  BY <1>2 DEF ServingInv, RequestsTyped, RequestFields
<1>5. UNCHANGED <<file, daemon, disturbed, kept>>
  BY <1>1 DEF cvars, dvars
<1>6. ASSUME request'[c] = r PROVE CallerInv(c)'
  <2>1. ThreadInv(c)'
    BY <1>1, <1>4, <1>5, <1>6 DEF ServingInv, CallerInv, ThreadInv
  <2>2. ResolvedInv(c)'
    <3>. SUFFICES ASSUME UndisturbedReads' PROVE ResolvedInv(c)'
      BY DEF ResolvedInv
    <3>1. DOMAIN RegistryOf(file).specialties = Registered
      BY <1>1 DEF ServingInv, KeptInv, UndisturbedReads
    <3>. QED
      BY <1>4, <1>5, <1>6, <3>1 DEF ResolvedInv, Resolved
  <2>3. PinInv(c)'
    <3>. SUFFICES ASSUME r.pin # AnyValue PROVE PinInv(c)'
      BY <1>6 DEF PinInv
    <3>. DEFINE names == DOMAIN RegistryOf(file).specialties
                meant == Meaning(r.specialty, names, r.specialty)
    <3>1. meant \in DOMAIN file.specialties /\ file.specialties[meant].model = r.pin
      BY <1>4 DEF ServingInv, CallerInv, PinInv
    <3>2. meant \in names
      BY <3>1, RegistryIs
    <3>3. Resolved(request[c]) = meant
      BY <1>4, <3>2 DEF Resolved, Meaning
    <3>4. r.model = NoModel
      BY <1>1, <1>4 DEF ServingInv, CallerInv, ThreadInv
    <3>. HIDE DEF names, meant
    <3>5. /\ meant \in DOMAIN file'.specialties /\ file'.specialties[meant].model = request'[c].pin
          /\ request'[c].resolved = meant /\ request'[c].thread = "limits" /\ request'[c].model = NoModel
      BY <1>4, <1>5, <1>6, <3>1, <3>3, <3>4
    <3>6. meant = Meaning(request'[c].specialty, DOMAIN RegistryOf(file').specialties, request'[c].specialty)
      BY <1>5, <1>6 DEF meant, names
    <3>. QED
      BY <3>5, <3>6 DEF PinInv
  <2>. QED
    BY <2>1, <2>2, <2>3 DEF CallerInv
<1>. QED
  BY <1>1, <1>3, <1>4, <1>5, <1>6, OneRequest

LEMMA ReadLimitsKeeps ==
  ASSUME ServingInv, NEW c \in Callers, ReadLimits(c)
  PROVE  ServingInv'
<1>1. /\ UndisturbedReads' => UndisturbedReads /\ file = kept
      /\ UNCHANGED <<cvars, dvars>> /\ (torn => torn') /\ request[c].thread = "limits"
  BY ReadsKept DEF ReadLimits
<1>2. PICK r : r = [request[c] EXCEPT !.thread = "configure", !.limits = ConfiguredLimits(file),
                                    !.cut = Truncated]
  OBVIOUS
<1>3. Sets(c, r)
  BY <1>2 DEF ReadLimits
<1>4. /\ DOMAIN r = RequestFields /\ r.thread = "configure" /\ r.limits = file.limits
      /\ r.specialty = request[c].specialty /\ r.server = request[c].server
      /\ r.resolved = request[c].resolved /\ r.pin = request[c].pin /\ r.model = request[c].model
  BY <1>2 DEF ServingInv, RequestsTyped, RequestFields, ConfiguredLimits
<1>5. UNCHANGED <<file, daemon, disturbed, kept>>
  BY <1>1 DEF cvars, dvars
<1>6. ASSUME request'[c] = r PROVE CallerInv(c)'
  <2>1. ThreadInv(c)'
    BY <1>1, <1>4, <1>5, <1>6 DEF ServingInv, CallerInv, ThreadInv
  <2>3. ResolvedInv(c)'
    BY <1>1, <1>4, <1>5, <1>6 DEF ServingInv, CallerInv, ResolvedInv
  <2>4. PinInv(c)'
    BY <1>1, <1>4, <1>5, <1>6 DEF ServingInv, CallerInv, PinInv
  <2>. QED
    BY <2>1, <2>3, <2>4 DEF CallerInv
<1>. QED
  BY <1>1, <1>3, <1>4, <1>5, <1>6, OneRequest

LEMMA ConfigureKeeps ==
  ASSUME ServingInv, NEW c \in Callers, Configure(c)
  PROVE  ServingInv'
<1>1. UNCHANGED <<cvars, dvars, torn>> /\ request[c].thread = "configure"
  BY DEF Configure
<1>2. PICK r : r = [request[c] EXCEPT !.thread = "registry", !.limits = EmptyFile.limits, !.cut = FALSE]
  OBVIOUS
<1>3. Sets(c, r)
  BY <1>2 DEF Configure
<1>4. /\ DOMAIN r = RequestFields /\ r.thread = "registry"
      /\ r.specialty = request[c].specialty /\ r.server = request[c].server
      /\ r.resolved = request[c].resolved /\ r.pin = request[c].pin /\ r.model = request[c].model
  BY <1>2 DEF ServingInv, RequestsTyped, RequestFields
<1>5. UNCHANGED <<file, daemon>> /\ (UndisturbedReads' => UndisturbedReads)
  BY <1>1 DEF cvars, dvars, UndisturbedReads
<1>7. ASSUME request'[c] = r PROVE CallerInv(c)'
  <2>1. ThreadInv(c)'
    BY <1>1, <1>4, <1>5, <1>7 DEF ServingInv, CallerInv, ThreadInv
  <2>3. ResolvedInv(c)'
    BY <1>1, <1>4, <1>5, <1>7 DEF ServingInv, CallerInv, ResolvedInv
  <2>4. PinInv(c)'
    BY <1>1, <1>4, <1>5, <1>7 DEF ServingInv, CallerInv, PinInv
  <2>. QED
    BY <2>1, <2>3, <2>4 DEF CallerInv
<1>. QED
  BY <1>1, <1>3, <1>4, <1>5, <1>7, OneRequest

LEMMA ReadRegistryKeeps ==
  ASSUME ServingInv, NEW c \in Callers, ReadRegistry(c)
  PROVE  ServingInv'
<1>1. /\ UndisturbedReads' => UndisturbedReads /\ file = kept
      /\ UNCHANGED <<cvars, dvars>> /\ (torn => torn') /\ request[c].thread = "registry"
  BY ReadsKept DEF ReadRegistry
<1>2. PICK r : r = [request[c] EXCEPT !.thread = "pick", !.data = file]
  OBVIOUS
<1>3. Sets(c, r)
  BY <1>2 DEF ReadRegistry
<1>4. /\ DOMAIN r = RequestFields /\ r.thread = "pick" /\ r.data = file
      /\ r.specialty = request[c].specialty /\ r.server = request[c].server
      /\ r.resolved = request[c].resolved /\ r.pin = request[c].pin /\ r.model = request[c].model
  BY <1>2 DEF ServingInv, RequestsTyped, RequestFields
<1>5. UNCHANGED <<file, daemon>>
  BY <1>1 DEF cvars, dvars
<1>6. ASSUME request'[c] = r PROVE CallerInv(c)'
  <2>1. ThreadInv(c)'
    BY <1>1, <1>4, <1>5, <1>6 DEF ServingInv, CallerInv, ThreadInv
  <2>3. ResolvedInv(c)'
    BY <1>1, <1>4, <1>5, <1>6 DEF ServingInv, CallerInv, ResolvedInv
  <2>4. PinInv(c)'
    BY <1>1, <1>4, <1>5, <1>6 DEF ServingInv, CallerInv, PinInv
  <2>. QED
    BY <2>1, <2>3, <2>4 DEF CallerInv
<1>. QED
  BY <1>1, <1>3, <1>4, <1>5, <1>6, OneRequest

LEMMA PickKeeps ==
  ASSUME ServingInv, NEW c \in Callers, Pick(c)
  PROVE  ServingInv'
<1>. DEFINE registry == RegistryOf(request[c].data)
            m == SessionModel(registry, request[c].resolved, Machine, limits)
<1>1. UNCHANGED <<cvars, dvars, torn>> /\ request[c].thread = "pick"
  BY DEF Pick
<1>2. CASE m = NoModel
  <2>1. Sets(c, Ended(request[c], "failed"))
    BY <1>2 DEF Pick
  <2>. QED
    BY <1>1, <2>1, RequestEnds
<1>3. CASE m # NoModel
  <2>1. PICK r : r = [request[c] EXCEPT !.thread = "fetch", !.model = m, !.data = EmptyFile, !.cut = cut]
    OBVIOUS
  <2>2. Sets(c, r)
    BY <1>3, <2>1 DEF Pick
  <2>3. /\ DOMAIN r = RequestFields /\ r.thread = "fetch" /\ r.model = m
        /\ r.specialty = request[c].specialty /\ r.server = request[c].server
        /\ r.resolved = request[c].resolved /\ r.pin = request[c].pin
    BY <2>1 DEF ServingInv, RequestsTyped, RequestFields
  <2>4. UNCHANGED <<file, daemon>> /\ (UndisturbedReads' => UndisturbedReads)
    BY <1>1 DEF cvars, dvars, UndisturbedReads
  <2>5. /\ request[c].resolved \in DOMAIN registry.specialties
        /\ registry.specialties[request[c].resolved].model # AnyValue =>
             m.name = registry.specialties[request[c].resolved].model
    BY <1>3, RegistryIs, SessionModelIs
  <2>. HIDE DEF m
  <2>6. ASSUME request'[c] = r PROVE CallerInv(c)'
    <3>1. ThreadInv(c)'
      BY <1>1, <2>3, <2>4, <2>6 DEF ServingInv, CallerInv, ThreadInv
    <3>3. ResolvedInv(c)'
      BY <1>1, <2>3, <2>4, <2>6 DEF ServingInv, CallerInv, ResolvedInv
    <3>4. PinInv(c)'
      <4>. SUFFICES ASSUME r.pin # AnyValue PROVE PinInv(c)'
        BY <2>6 DEF PinInv
      <4>. DEFINE meant == Meaning(r.specialty, DOMAIN RegistryOf(file).specialties, r.specialty)
      <4>1. /\ meant \in DOMAIN file.specialties /\ file.specialties[meant].model = r.pin
            /\ r.resolved = meant /\ request[c].data = file
        BY <1>1, <2>3 DEF ServingInv, CallerInv, PinInv
      <4>. HIDE DEF meant
      <4>2. registry.specialties[meant] = file.specialties[meant]
        BY <4>1, RegistryIs
      <4>3. m.name = r.pin
        BY <2>3, <2>5, <4>1, <4>2
      <4>4. meant = Meaning(request'[c].specialty, DOMAIN RegistryOf(file').specialties, request'[c].specialty)
        BY <2>4, <2>6 DEF meant
      <4>. QED
        BY <2>3, <2>4, <2>6, <4>1, <4>3, <4>4 DEF PinInv
    <3>. QED
      BY <3>1, <3>3, <3>4 DEF CallerInv
  <2>. QED
    BY <1>1, <2>2, <2>3, <2>4, <2>6, OneRequest
<1>. QED
  BY <1>2, <1>3

LEMMA FetchKeeps ==
  ASSUME ServingInv, NEW c \in Callers, Fetch(c) \/ ChatEnds(c) \/ ReadFails(c)
  PROVE  ServingInv'
<1>1. UNCHANGED <<cvars, dvars, torn>>
  BY DEF Fetch, ChatEnds, ReadFails
<1>2. CASE \E outcome : Sets(c, Ended(request[c], outcome))
  BY <1>1, <1>2, RequestEnds
<1>3. CASE Fetch(c) /\ Sets(c, [request[c] EXCEPT !.thread = "chat"])
  <2>1. PICK r : r = [request[c] EXCEPT !.thread = "chat"]
    OBVIOUS
  <2>2. Sets(c, r) /\ request[c].thread = "fetch"
    BY <1>3, <2>1 DEF Fetch
  <2>3. /\ DOMAIN r = RequestFields /\ r.thread = "chat" /\ r.model = request[c].model
        /\ r.specialty = request[c].specialty /\ r.server = request[c].server
        /\ r.resolved = request[c].resolved /\ r.pin = request[c].pin
    BY <2>1 DEF ServingInv, RequestsTyped, RequestFields
  <2>4. UNCHANGED <<file, daemon>> /\ (UndisturbedReads' => UndisturbedReads)
    BY <1>1 DEF cvars, dvars, UndisturbedReads
  <2>5. ASSUME request'[c] = r PROVE CallerInv(c)'
    <3>1. ThreadInv(c)' /\ ResolvedInv(c)'
      BY <2>2, <2>3, <2>4, <2>5 DEF ServingInv, CallerInv, ThreadInv, ResolvedInv
    <3>3. PinInv(c)'
      BY <2>2, <2>3, <2>4, <2>5 DEF ServingInv, CallerInv, PinInv
    <3>. QED
      BY <3>1, <3>3 DEF CallerInv
  <2>. QED
    BY <1>1, <2>2, <2>3, <2>4, <2>5, OneRequest
<1>. QED
  BY <1>2, <1>3 DEF Fetch, ChatEnds, ReadFails

-----------------------------------------------------------------------------
(* The daemons' steps.                                                     *)

\* A daemon goes to another place, or starts.
LEMMA DaemonMoves ==
  ASSUME RequestsTyped, NEW d \in Daemons,
         \/ \E to : to # "none" /\ DaemonAt(d, to)
         \/ \E specialty : Starts(d, specialty)
         \/ UNCHANGED daemon
  PROVE  /\ DaemonsStay
         /\ daemon' = [b \in Daemons |-> daemon'[b]]
         /\ \A b \in Daemons : DOMAIN daemon'[b] = {"pc", "default"}
<1>1. CASE \E to : to # "none" /\ DaemonAt(d, to)
  <2>1. PICK to : to # "none" /\ daemon' = [daemon EXCEPT ![d].pc = to]
    BY <1>1 DEF DaemonAt
  <2>2. /\ daemon' = [b \in Daemons |-> daemon'[b]]
        /\ \A b \in Daemons : b # d => daemon'[b] = daemon[b]
        /\ daemon'[d] = [daemon[d] EXCEPT !.pc = to]
    BY <2>1 DEF RequestsTyped
  <2>3. DOMAIN daemon'[d] = {"pc", "default"} /\ daemon'[d].pc = to /\ daemon'[d].default = daemon[d].default
    BY <2>2 DEF RequestsTyped
  <2>. QED
    BY <2>1, <2>2, <2>3 DEF RequestsTyped, DaemonsStay
<1>2. CASE \E specialty : Starts(d, specialty)
  <2>1. PICK specialty : Starts(d, specialty)
    BY <1>2
  <2>2. /\ daemon' = [b \in Daemons |-> daemon'[b]] /\ daemon[d].pc = "none"
        /\ \A b \in Daemons : b # d => daemon'[b] = daemon[b]
        /\ daemon'[d] = [pc |-> "starting", default |-> specialty]
    BY <2>1 DEF RequestsTyped, Starts
  <2>. QED
    BY <2>2 DEF RequestsTyped, DaemonsStay
<1>3. CASE UNCHANGED daemon
  BY <1>3 DEF RequestsTyped, DaemonsStay
<1>. QED
  BY <1>1, <1>2, <1>3

LEMMA DaemonKeeps ==
  ASSUME ServingInv, DaemonStep, UNCHANGED <<cvars, request, torn>>
  PROVE  ServingInv'
<1>1. DaemonsStay /\ RequestsTyped'
  <2>1. UNCHANGED daemon \/ \E d \in Daemons : \/ \E to : to # "none" /\ DaemonAt(d, to)
                                               \/ \E specialty : Starts(d, specialty)
    BY DEF DaemonStep, Ensure, Spawn, WaitFindsHealthy, WaitTimesOut, Bind, Serve, Daemons
  <2>2. CASE UNCHANGED daemon
    BY <2>2 DEF ServingInv, RequestsTyped, DaemonsStay
  <2>3. CASE \E d \in Daemons : \/ \E to : to # "none" /\ DaemonAt(d, to)
                                \/ \E specialty : Starts(d, specialty)
    BY <2>3, DaemonMoves DEF ServingInv, RequestsTyped
  <2>. QED
    BY <2>1, <2>2, <2>3
<1>2. ASSUME NEW c \in Callers PROVE CallerInv(c)'
  <2>1. SameRequest(c) /\ request'[c].pin = request[c].pin /\ file' = file
    BY DEF SameRequest, cvars
  <2>2. UndisturbedReads' => UndisturbedReads
    BY DEF UndisturbedReads, cvars
  <2>. QED
    BY <1>1, <2>1, <2>2, FrameKeeps DEF ServingInv
<1>3. ChooserInv' /\ KeptInv'
  BY DEF ServingInv, ChooserInv, ChoosersTyped, WritesInv, Writing, KeptInv, cvars
<1>. QED
  BY <1>1, <1>2, <1>3 DEF ServingInv

LEMMA DaemonDiesKeeps ==
  ASSUME ServingInv, NEW d \in Daemons, DaemonDies(d)
  PROVE  ServingInv'
<1>1. /\ UNCHANGED <<cvars, torn>> /\ DaemonAt(d, "gone")
      /\ request' = [c \in Callers |->
           IF request[c].server = d THEN Ended(request[c], "failed") ELSE request[c]]
  BY DEF DaemonDies, Dies
<1>2. /\ DaemonsStay /\ daemon' = [b \in Daemons |-> daemon'[b]]
      /\ \A b \in Daemons : DOMAIN daemon'[b] = {"pc", "default"}
  BY <1>1, DaemonMoves DEF ServingInv
<1>3. ASSUME NEW c \in Callers
      PROVE  /\ DOMAIN request'[c] = RequestFields
             /\ \/ request'[c] = request[c]
                \/ /\ request'[c].thread = "none" /\ request'[c].model = NoModel
                   /\ request'[c].pin = request[c].pin /\ request'[c].specialty = request[c].specialty
  <2>1. DOMAIN request[c] = RequestFields
    BY DEF ServingInv, RequestsTyped
  <2>2. CASE request[c].server = d
    <3>1. request'[c] = Ended(request[c], "failed")
      BY <1>1, <2>2
    <3>2. LET e == Ended(request[c], "failed")
          IN  /\ DOMAIN e = RequestFields /\ e.thread = "none" /\ e.model = NoModel
              /\ e.pin = request[c].pin /\ e.specialty = request[c].specialty
      BY <2>1, EndedIs
    <3>. QED
      BY <3>1, <3>2
  <2>3. CASE request[c].server # d
    BY <1>1, <2>1, <2>3
  <2>. QED
    BY <2>2, <2>3
<1>4. RequestsTyped'
  <2>1. request' = [c \in Callers |-> request'[c]]
    BY <1>1
  <2>. QED
    BY <1>2, <1>3, <2>1 DEF RequestsTyped
<1>5. ASSUME NEW c \in Callers PROVE CallerInv(c)'
  <2>1. UNCHANGED file /\ (UndisturbedReads' => UndisturbedReads)
    BY <1>1 DEF UndisturbedReads, cvars
  <2>2. CASE request'[c] = request[c]
    <3>1. SameRequest(c) /\ request'[c].pin = request[c].pin
      BY <2>2 DEF SameRequest
    <3>. QED
      BY <1>1, <1>2, <2>1, <3>1, FrameKeeps DEF ServingInv
  <2>3. CASE request'[c] # request[c]
    BY <1>3, <2>1, <2>3, EndKeeps DEF ServingInv
  <2>. QED
    BY <2>2, <2>3
<1>6. ChooserInv' /\ KeptInv'
  BY <1>1 DEF ServingInv, ChooserInv, ChoosersTyped, WritesInv, Writing, KeptInv, cvars
<1>. QED
  BY <1>4, <1>5, <1>6 DEF ServingInv

-----------------------------------------------------------------------------
(* A chooser's steps, as the requests see them.                            *)

LEMMA DisturbedStays ==
  ASSUME CNext, disturbed
  PROVE  disturbed'
BY DEF CNext, Begin, Choose, ChooseFails, ReadConfig, Truncate, Dump, ChooserKilled

\* The specialty of a chooser comes with Begin and stays.
LEMMA SpecialtiesKeep ==
  ASSUME ChoosersTyped, KeptInv, CNext
  PROVE  \A j \in Choosers : chooser'[j].pc # "idle" => chooser'[j].specialty \in Registered
<1>1. PICK k \in Choosers :
        \/ \E s \in Registered, way \in {"api", "models", "setup"} : Begin(k, way, s)
        \/ \E m \in Packaged.models : Choose(k, m)
        \/ ChooseFails(k) \/ ReadConfig(k) \/ Truncate(k) \/ Dump(k) \/ ChooserKilled(k)
  BY DEF CNext, Registered
<1>2. DOMAIN chooser[k] = ChooserFields
  BY DEF ChoosersTyped
<1>3. \E state : /\ Becomes(k, state)
                 /\ state.pc # "idle" =>
                      \/ state.specialty \in Registered
                      \/ chooser[k].pc # "idle" /\ state.specialty = chooser[k].specialty
  <2>1. CASE \E s \in Registered, way \in {"api", "models", "setup"} : Begin(k, way, s)
    <3>1. PICK s \in Registered, way \in {"api", "models", "setup"} : Begin(k, way, s)
      BY <2>1
    <3>2. PICK state : /\ Becomes(k, state)
                       /\ state = [Idle EXCEPT !.pc = "choose", !.way = way, !.specialty = s]
      BY <3>1 DEF Begin
    <3>3. state.specialty = s
      BY <3>2 DEF Idle
    <3>. QED
      BY <3>2, <3>3
  <2>2. CASE \E m \in Packaged.models : Choose(k, m)
    <3>1. PICK m \in Packaged.models : Choose(k, m)
      BY <2>2
    <3>2. PICK state : /\ Becomes(k, state)
                       /\ state = [chooser[k] EXCEPT !.pc = "read", !.way = "", !.model = m]
      BY <3>1 DEF Choose
    <3>3. state.specialty = chooser[k].specialty /\ chooser[k].pc = "choose"
      BY <1>2, <3>1, <3>2, FieldsKept DEF Choose
    <3>. QED
      BY <3>2, <3>3
  <2>3. CASE Becomes(k, Idle)
    BY <2>3, IdleIs
  <2>4. CASE ReadConfig(k) /\ ~Becomes(k, Idle)
    <3>1. PICK state : /\ Becomes(k, state)
                       /\ state = [chooser[k] EXCEPT !.pc = "truncate", !.data = file]
      BY <2>4 DEF ReadConfig
    <3>2. state.specialty = chooser[k].specialty /\ chooser[k].pc = "read"
      BY <1>2, <2>4, <3>1, FieldsKept DEF ReadConfig
    <3>. QED
      BY <3>1, <3>2
  <2>5. CASE Truncate(k)
    <3>1. PICK state : Becomes(k, state) /\ state = [chooser[k] EXCEPT !.pc = "dump"]
      BY <2>5 DEF Truncate
    <3>2. state.specialty = chooser[k].specialty /\ chooser[k].pc = "truncate"
      BY <1>2, <2>5, <3>1, FieldsKept DEF Truncate
    <3>. QED
      BY <3>1, <3>2
  <2>. QED
    BY <1>1, <2>1, <2>2, <2>3, <2>4, <2>5 DEF ChooseFails, Dump, ChooserKilled
<1>. QED
  BY <1>3, ChooserMoves DEF KeptInv

LEMMA KeptKeeps ==
  ASSUME ChoosersTyped, KeptInv, CNext
  PROVE  KeptInv'
<1>1. ASSUME ~disturbed'
      PROVE  /\ DOMAIN kept' = {"limits", "specialties"} /\ kept'.limits = UserFile.limits
             /\ DOMAIN RegistryOf(kept').specialties = Registered
  <2>0. ~disturbed
    BY <1>1, DisturbedStays
  <2>1. kept' = kept \/ \E k \in Choosers : Dump(k)
    BY <1>1 DEF CNext, Begin, Choose, ChooseFails, ReadConfig, Truncate, ChooserKilled
  <2>2. CASE kept' = kept
    BY <2>0, <2>2 DEF KeptInv
  <2>3. CASE \E k \in Choosers : Dump(k)
    <3>1. PICK k \in Choosers : Dump(k)
      BY <2>3
    <3>2. /\ kept' = WithChoice(kept, chooser[k].specialty, chooser[k].model)
          /\ chooser[k].specialty \in Registered
      BY <2>0, <3>1 DEF Dump, KeptInv
    <3>3. /\ DOMAIN kept = {"limits", "specialties"} /\ kept.limits = UserFile.limits
          /\ DOMAIN RegistryOf(kept).specialties = Registered
      BY <2>0 DEF KeptInv
    <3>4. /\ DOMAIN kept' = {"limits", "specialties"} /\ kept'.limits = kept.limits
          /\ DOMAIN kept'.specialties = DOMAIN kept.specialties \cup {chooser[k].specialty}
      <4>1. DOMAIN kept = {"limits", "specialties"}
        BY <3>3
      <4>2. LET g == WithChoice(kept, chooser[k].specialty, chooser[k].model)
            IN  /\ DOMAIN g = {"limits", "specialties"} /\ g.limits = kept.limits
                /\ DOMAIN g.specialties = DOMAIN kept.specialties \cup {chooser[k].specialty}
        BY <4>1 DEF WithChoice
      <4>. QED
        BY <3>2, <4>2
    <3>5. DOMAIN RegistryOf(kept').specialties = DOMAIN RegistryOf(kept).specialties \cup {chooser[k].specialty}
      BY <3>4, RegistryIs
    <3>. QED
      BY <3>2, <3>3, <3>4, <3>5
  <2>. QED
    BY <2>1, <2>2, <2>3
<1>. QED
  BY <1>1, SpecialtiesKeep DEF KeptInv

LEMMA ChooserStepKeeps ==
  ASSUME ServingInv, ChooserStep
  PROVE  ServingInv'
<1>1. /\ CNext /\ UNCHANGED <<dvars, torn>>
      /\ request' = IF file' = file THEN request
                    ELSE [c \in Callers |-> [request[c] EXCEPT !.pin = AnyValue]]
  BY DEF ChooserStep
<1>2. UndisturbedReads' => UndisturbedReads
  BY <1>1, DisturbedStays DEF UndisturbedReads
<1>3. DaemonsStay /\ UNCHANGED daemon
  BY <1>1 DEF dvars, DaemonsStay
<1>4. ASSUME NEW c \in Callers
      PROVE  /\ DOMAIN request'[c] = RequestFields /\ SameRequest(c)
             /\ \/ request'[c].pin = AnyValue
                \/ request'[c].pin = request[c].pin /\ file' = file
  <2>1. DOMAIN request[c] = RequestFields
    BY DEF ServingInv, RequestsTyped
  <2>2. CASE file' = file
    BY <1>1, <2>1, <2>2 DEF SameRequest
  <2>3. CASE file' # file
    <3>1. request'[c] = [request[c] EXCEPT !.pin = AnyValue]
      BY <1>1, <2>3
    <3>. QED
      BY <2>1, <3>1 DEF SameRequest, RequestFields
  <2>. QED
    BY <2>2, <2>3
<1>5. RequestsTyped'
  <2>1. request' = [c \in Callers |-> request'[c]]
    BY <1>1 DEF ServingInv, RequestsTyped
  <2>. QED
    BY <1>3, <1>4, <2>1 DEF ServingInv, RequestsTyped
<1>6. \A c \in Callers : CallerInv(c)'
  BY <1>1, <1>2, <1>3, <1>4, FrameKeeps DEF ServingInv
<1>7. ChooserInv'
  BY ChooserInvStep DEF HNext, ServingInv
<1>8. KeptInv'
  BY <1>1, KeptKeeps DEF ServingInv, ChooserInv
<1>. QED
  BY <1>5, <1>6, <1>7, <1>8 DEF ServingInv

-----------------------------------------------------------------------------
LEMMA ServingInitially == HInit => ServingInv
<1>. SUFFICES ASSUME HInit PROVE ServingInv
  OBVIOUS
<1>1. ChooserInv
  BY ChooserInvInitially
<1>2. KeptInv
  BY IdleIs, ModelsConfigAssumption DEF HInit, CInit, KeptInv, Registered
<1>3. /\ DOMAIN NoRequest = RequestFields /\ NoRequest.thread = "none"
      /\ NoRequest.model = NoModel /\ NoRequest.pin = AnyValue
  BY DEF NoRequest, RequestFields
<1>4. \A c \in Callers : request[c] = NoRequest
  BY DEF HInit
<1>5. RequestsTyped
  BY <1>3, <1>4 DEF HInit, DInit, RequestsTyped
<1>6. \A c \in Callers : CallerInv(c)
  BY <1>3, <1>4 DEF CallerInv, ThreadInv, ResolvedInv, PinInv
<1>. QED
  BY <1>1, <1>2, <1>5, <1>6 DEF ServingInv

LEMMA ServingStep ==
  ASSUME ServingInv, [HNext]_hvars
  PROVE  ServingInv'
<1>1. CASE ChooserStep
  BY <1>1, ChooserStepKeeps
<1>2. CASE DaemonStep /\ UNCHANGED <<cvars, limits, request, others, torn, cut>>
  BY <1>2, DaemonKeeps
<1>3. CASE \E d \in Daemons : DaemonDies(d)
  BY <1>3, DaemonDiesKeeps
<1>4. CASE \E c \in Callers :
             \/ \E s \in Asked, kind \in {"chat", "embeddings", "refused"} : Ask(c, s, kind)
             \/ AskAgain(c) \/ TimesOut(c)
  BY <1>4, ClientKeeps
<1>5. CASE \E c \in Callers : ThreadStep(c)
  BY <1>5, AliasKeeps, ReadLimitsKeeps, ConfigureKeeps, ReadRegistryKeeps, PickKeeps, FetchKeeps
     DEF ThreadStep
<1>6. CASE UNCHANGED <<cvars, dvars, request, torn>>
  BY <1>6 DEF cvars, dvars, ServingInv, ChooserInv, ChoosersTyped, WritesInv, Writing, KeptInv,
     RequestsTyped, CallerInv, ThreadInv, ResolvedInv, PinInv, UndisturbedReads
<1>7. CASE \E p \in Others : OtherReads(p) \/ OtherConfigures(p)
  BY <1>6, <1>7 DEF OtherReads, OtherConfigures
<1>8. CASE UNCHANGED hvars
  BY <1>6, <1>8 DEF hvars
<1>. QED
  BY <1>1, <1>2, <1>3, <1>4, <1>5, <1>7, <1>8 DEF HNext

LEMMA ServingInvariant == HSpec => []ServingInv
BY ServingInitially, ServingStep, PTL DEF HSpec

-----------------------------------------------------------------------------
(* The limits.                                                             *)

WithinLimits(m) ==
  /\ UserFile.limits.ram > 0 => m.ram <= UserFile.limits.ram
  /\ UserFile.limits.vram > 0 => m.vram <= UserFile.limits.vram

\* What a request brings to the scheduler, what it finds there and what it picked
\* by are the limits of the user, unless they come from a truncated file.
LimitsInv(c) ==
  ~disturbed =>
    /\ request[c].thread = "configure" /\ ~request[c].cut => request[c].limits = UserFile.limits
    /\ request[c].thread \in {"registry", "pick"} /\ ~cut => limits = UserFile.limits
    /\ request[c].model # NoModel /\ ~request[c].cut => WithinLimits(request[c].model)

\* So is what every other client of the scheduler brings.
OthersInv ==
  /\ others = [p \in Others |-> others[p]]
  /\ ~disturbed =>
       \A p \in Others :
         others[p].pc = "configure" /\ ~others[p].cut => others[p].limits = UserFile.limits

BoundedInv == ServingInv /\ OthersInv /\ \A c \in Callers : LimitsInv(c)

\* Who reads while nothing is disturbed finds the limits of the user, or knows
\* that the file was truncated.
LEMMA LimitsAreRead ==
  ASSUME ServingInv, ~disturbed, ~Truncated
  PROVE  ConfiguredLimits(file) = UserFile.limits
BY DEF ServingInv, ChooserInv, WritesInv, KeptInv, Truncated, ConfiguredLimits

\* The limits in force are those of before, or those of the user, or cut.
LimitsStay == UNCHANGED <<limits, cut>> \/ (~disturbed' /\ ~cut' => limits' = UserFile.limits)

LEMMA LimitsFrame ==
  ASSUME NEW c \in Callers, LimitsInv(c), disturbed => disturbed', LimitsStay,
         request'[c].thread = request[c].thread, request'[c].limits = request[c].limits,
         request'[c].model = request[c].model, request'[c].cut = request[c].cut
  PROVE  LimitsInv(c)'
BY DEF LimitsInv, LimitsStay, WithinLimits

\* A thread that is not yet at the limits, or not any more.
LEMMA NoLimitsNeeded ==
  ASSUME NEW c \in Callers, request'[c].thread \notin {"configure", "registry", "pick"},
         request'[c].model = NoModel
  PROVE  LimitsInv(c)'
BY DEF LimitsInv

\* A step of one request, once it is shown of that request itself.
LEMMA OneLimit ==
  ASSUME BoundedInv, ServingInv', NEW c \in Callers, NEW r, Sets(c, r),
         UNCHANGED <<cvars, others>>, LimitsStay,
         ASSUME request'[c] = r PROVE LimitsInv(c)'
  PROVE  BoundedInv'
<1>1. /\ request'[c] = r /\ \A b \in Callers : b # c => request'[b] = request[b]
  BY DEF BoundedInv, ServingInv, RequestsTyped, Sets
<1>2. ASSUME NEW b \in Callers, b # c PROVE LimitsInv(b)'
  BY <1>1, <1>2, LimitsFrame DEF BoundedInv, cvars
<1>3. OthersInv'
  BY DEF BoundedInv, OthersInv, cvars
<1>. QED
  BY <1>1, <1>2, <1>3 DEF BoundedInv

LEMMA ThreadLimits ==
  ASSUME BoundedInv, ServingInv', NEW c \in Callers, ThreadStep(c)
  PROVE  BoundedInv'
<1>1. UNCHANGED <<cvars, others>>
  BY DEF ThreadStep, Alias, ReadLimits, Configure, ReadRegistry, ReadFails, Pick, Fetch, ChatEnds, Reads
<1>2. /\ DOMAIN request[c] = RequestFields /\ LimitsInv(c) /\ ServingInv
      /\ request[c].model # NoModel => request[c].thread \in {"fetch", "chat"}
  BY DEF BoundedInv, ServingInv, RequestsTyped, CallerInv, ThreadInv
<1>3. CASE \E outcome : Sets(c, Ended(request[c], outcome)) /\ UNCHANGED <<limits, cut>>
  <2>1. PICK e : /\ Sets(c, e) /\ UNCHANGED <<limits, cut>>
                 /\ \E outcome : e = Ended(request[c], outcome)
    BY <1>3
  <2>2. e.thread = "none" /\ e.model = NoModel
    BY <1>2, <2>1, EndedIs
  <2>3. ASSUME request'[c] = e PROVE LimitsInv(c)'
    BY <2>2, <2>3, NoLimitsNeeded
  <2>. QED
    BY <1>1, <2>1, <2>3, OneLimit DEF LimitsStay
<1>4. CASE Alias(c)
  <2>1. PICK r : /\ Sets(c, r) /\ UNCHANGED <<limits, cut>>
                 /\ r = [request[c] EXCEPT !.thread = "limits", !.resolved = Resolved(request[c])]
    BY <1>4 DEF Alias, Reads
  <2>2. r.thread = "limits" /\ r.model = request[c].model /\ request[c].thread = "alias"
    BY <1>2, <1>4, <2>1 DEF RequestFields, Alias, Reads
  <2>3. ASSUME request'[c] = r PROVE LimitsInv(c)'
    BY <1>2, <2>2, <2>3, NoLimitsNeeded
  <2>. QED
    BY <1>1, <2>1, <2>3, OneLimit DEF LimitsStay
<1>5. CASE ReadLimits(c)
  <2>1. PICK r : /\ Sets(c, r) /\ UNCHANGED <<limits, cut>>
                 /\ r = [request[c] EXCEPT !.thread = "configure", !.limits = ConfiguredLimits(file),
                                           !.cut = Truncated]
    BY <1>5 DEF ReadLimits, Reads
  <2>2. /\ r.thread = "configure" /\ r.limits = ConfiguredLimits(file) /\ r.cut = Truncated
        /\ r.model = request[c].model /\ request[c].thread = "limits"
    BY <1>2, <1>5, <2>1 DEF RequestFields, ReadLimits, Reads
  <2>3. ~disturbed' /\ ~r.cut => r.limits = UserFile.limits
    BY <1>1, <1>2, <2>2, LimitsAreRead DEF cvars
  <2>4. ASSUME request'[c] = r PROVE LimitsInv(c)'
    BY <1>2, <2>2, <2>3, <2>4 DEF LimitsInv
  <2>. QED
    BY <1>1, <2>1, <2>4, OneLimit DEF LimitsStay
<1>6. CASE Configure(c)
  <2>1. PICK r : /\ Sets(c, r)
                 /\ r = [request[c] EXCEPT !.thread = "registry", !.limits = EmptyFile.limits, !.cut = FALSE]
    BY <1>6 DEF Configure
  <2>2. r.thread = "registry" /\ r.model = request[c].model /\ request[c].thread = "configure"
    BY <1>2, <1>6, <2>1 DEF RequestFields, Configure
  <2>3. ~disturbed' /\ ~cut' => limits' = UserFile.limits
    BY <1>1, <1>2, <1>6 DEF Configure, LimitsInv, cvars
  <2>4. ASSUME request'[c] = r PROVE LimitsInv(c)'
    BY <1>2, <2>2, <2>3, <2>4 DEF LimitsInv
  <2>. QED
    BY <1>1, <2>1, <2>3, <2>4, OneLimit DEF LimitsStay
<1>7. CASE ReadRegistry(c)
  <2>1. PICK r : /\ Sets(c, r) /\ UNCHANGED <<limits, cut>>
                 /\ r = [request[c] EXCEPT !.thread = "pick", !.data = file]
    BY <1>7 DEF ReadRegistry, Reads
  <2>2. r.thread = "pick" /\ r.model = request[c].model /\ request[c].thread = "registry"
    BY <1>2, <1>7, <2>1 DEF RequestFields, ReadRegistry, Reads
  <2>3. ~disturbed' /\ ~cut' => limits' = UserFile.limits
    BY <1>1, <1>2, <2>1, <2>2 DEF LimitsInv, cvars
  <2>4. ASSUME request'[c] = r PROVE LimitsInv(c)'
    BY <1>2, <2>2, <2>3, <2>4 DEF LimitsInv
  <2>. QED
    BY <1>1, <2>1, <2>4, OneLimit DEF LimitsStay
<1>8. CASE Pick(c) /\ ~\E outcome : Sets(c, Ended(request[c], outcome))
  <2>. DEFINE registry == RegistryOf(request[c].data)
              m == SessionModel(registry, request[c].resolved, Machine, limits)
  <2>1. PICK r : /\ Sets(c, r) /\ UNCHANGED <<limits, cut>>
                 /\ r = [request[c] EXCEPT !.thread = "fetch", !.model = m, !.data = EmptyFile, !.cut = cut]
    BY <1>8 DEF Pick
  <2>2. r.thread = "fetch" /\ r.model = m /\ r.cut = cut /\ request[c].thread = "pick"
    BY <1>2, <1>8, <2>1 DEF RequestFields, Pick
  <2>3. m # NoModel
    BY <1>8 DEF Pick
  <2>4. (limits.ram > 0 => m.ram <= limits.ram) /\ (limits.vram > 0 => m.vram <= limits.vram)
    BY <2>3, RegistryIs, SessionModelIs
  <2>. HIDE DEF m
  <2>5. ~disturbed' /\ ~r.cut => limits = UserFile.limits
    BY <1>1, <1>2, <2>2 DEF LimitsInv, cvars
  <2>6. ~disturbed' /\ ~r.cut => WithinLimits(r.model)
    BY <2>2, <2>4, <2>5 DEF WithinLimits
  <2>7. ASSUME request'[c] = r PROVE LimitsInv(c)'
    BY <2>2, <2>6, <2>7 DEF LimitsInv, WithinLimits
  <2>. QED
    BY <1>1, <2>1, <2>7, OneLimit DEF LimitsStay
<1>9. CASE Fetch(c) /\ Sets(c, [request[c] EXCEPT !.thread = "chat"])
  <2>1. PICK r : /\ Sets(c, r) /\ UNCHANGED <<limits, cut>>
                 /\ r = [request[c] EXCEPT !.thread = "chat"]
    BY <1>9 DEF Fetch
  <2>2. r.thread = "chat" /\ r.model = request[c].model /\ r.cut = request[c].cut
    BY <1>2, <2>1 DEF RequestFields
  <2>3. ASSUME request'[c] = r PROVE LimitsInv(c)'
    BY <1>1, <1>2, <2>2, <2>3 DEF LimitsInv, WithinLimits, cvars
  <2>. QED
    BY <1>1, <2>1, <2>3, OneLimit DEF LimitsStay
<1>. QED
  BY <1>3, <1>4, <1>5, <1>6, <1>7, <1>8, <1>9
     DEF ThreadStep, ReadFails, Pick, Fetch, ChatEnds

\* A new request has read no limits yet.
LEMMA PostedIs ==
  ASSUME NEW c \in Callers, NEW s, NEW kind, NEW again, Posts(c, s, kind, again)
  PROVE  \E r : Sets(c, r) /\ r.thread \in {"none", "alias"} /\ r.model = NoModel
<1>. DEFINE q == [NoRequest EXCEPT !.client = "waiting", !.again = again, !.kind = kind, !.specialty = s]
<1>1. DOMAIN q = RequestFields /\ q.thread = "none" /\ q.model = NoModel
  BY DEF NoRequest, RequestFields
<1>2. \/ Sets(c, [q EXCEPT !.client = "failed"])
      \/ \E d : Sets(c, [q EXCEPT !.thread = "alias", !.server = d, !.pin = PinOf(s)])
  BY DEF Posts
<1>. HIDE DEF q
<1>3. LET f == [q EXCEPT !.client = "failed"] IN f.thread = "none" /\ f.model = NoModel
  BY <1>1 DEF RequestFields
<1>4. \A d : LET f == [q EXCEPT !.thread = "alias", !.server = d, !.pin = PinOf(s)]
            IN  f.thread = "alias" /\ f.model = NoModel
  BY <1>1 DEF RequestFields
<1>5. CASE Sets(c, [q EXCEPT !.client = "failed"])
  BY <1>3, <1>5
<1>6. CASE \E d : Sets(c, [q EXCEPT !.thread = "alias", !.server = d, !.pin = PinOf(s)])
  <2>1. PICK d : Sets(c, [q EXCEPT !.thread = "alias", !.server = d, !.pin = PinOf(s)])
    BY <1>6
  <2>. QED
    BY <1>4, <2>1
<1>. QED
  BY <1>2, <1>5, <1>6

LEMMA ClientLimits ==
  ASSUME BoundedInv, ServingInv', NEW c \in Callers,
         (\E s, kind : Ask(c, s, kind)) \/ AskAgain(c) \/ TimesOut(c)
  PROVE  BoundedInv'
<1>1. UNCHANGED <<cvars, others>> /\ LimitsStay
  BY DEF Ask, AskAgain, TimesOut, LimitsStay
<1>2. CASE \E s, kind, again : Posts(c, s, kind, again)
  <2>1. PICK r : Sets(c, r) /\ r.thread \in {"none", "alias"} /\ r.model = NoModel
    BY <1>2, PostedIs
  <2>2. ASSUME request'[c] = r PROVE LimitsInv(c)'
    BY <2>1, <2>2, NoLimitsNeeded
  <2>. QED
    BY <1>1, <2>1, <2>2, OneLimit
<1>3. CASE TimesOut(c)
  <2>1. PICK r : Sets(c, r) /\ r = [request[c] EXCEPT !.client = "failed"]
    BY <1>3 DEF TimesOut
  <2>2. /\ r.thread = request[c].thread /\ r.limits = request[c].limits
        /\ r.model = request[c].model /\ r.cut = request[c].cut
    BY <2>1 DEF BoundedInv, ServingInv, RequestsTyped, RequestFields
  <2>3. ASSUME request'[c] = r PROVE LimitsInv(c)'
    BY <1>1, <2>2, <2>3, LimitsFrame DEF BoundedInv, cvars
  <2>. QED
    BY <1>1, <2>1, <2>3, OneLimit
<1>. QED
  BY <1>2, <1>3 DEF Ask, AskAgain

LEMMA DeathLimits ==
  ASSUME BoundedInv, ServingInv', NEW d \in Daemons, DaemonDies(d)
  PROVE  BoundedInv'
<1>1. UNCHANGED <<cvars, limits, others, torn, cut>>
  BY DEF DaemonDies
<1>2. ASSUME NEW c \in Callers PROVE LimitsInv(c)'
  <2>1. CASE request[c].server = d
    <3>1. request'[c] = Ended(request[c], "failed")
      BY <2>1 DEF DaemonDies
    <3>2. Ended(request[c], "failed").thread = "none" /\ Ended(request[c], "failed").model = NoModel
      BY EndedIs DEF BoundedInv, ServingInv, RequestsTyped
    <3>. QED
      BY <3>1, <3>2, NoLimitsNeeded
  <2>2. CASE request[c].server # d
    <3>1. request'[c] = request[c]
      BY <2>2 DEF DaemonDies
    <3>. QED
      BY <1>1, <3>1, LimitsFrame DEF BoundedInv, LimitsStay, cvars
  <2>. QED
    BY <2>1, <2>2
<1>3. OthersInv'
  BY <1>1 DEF BoundedInv, OthersInv, cvars
<1>. QED
  BY <1>2, <1>3 DEF BoundedInv

LEMMA ChooserLimits ==
  ASSUME BoundedInv, ServingInv', ChooserStep
  PROVE  BoundedInv'
<1>1. CNext /\ UNCHANGED <<limits, others, cut>>
  BY DEF ChooserStep
<1>2. disturbed => disturbed'
  BY <1>1, DisturbedStays
<1>3. ASSUME NEW c \in Callers PROVE LimitsInv(c)'
  <2>1. DOMAIN request[c] = RequestFields
    BY DEF BoundedInv, ServingInv, RequestsTyped
  <2>2. request'[c] = request[c] \/ request'[c] = [request[c] EXCEPT !.pin = AnyValue]
    BY DEF ChooserStep
  <2>3. /\ request'[c].thread = request[c].thread /\ request'[c].limits = request[c].limits
        /\ request'[c].model = request[c].model /\ request'[c].cut = request[c].cut
    BY <2>1, <2>2 DEF RequestFields
  <2>. QED
    BY <1>1, <1>2, <2>3, LimitsFrame DEF BoundedInv, LimitsStay
<1>4. OthersInv'
  BY <1>1, <1>2 DEF BoundedInv, OthersInv
<1>. QED
  BY <1>3, <1>4 DEF BoundedInv

LEMMA OthersLimits ==
  ASSUME BoundedInv, ServingInv', NEW p \in Others, OtherReads(p) \/ OtherConfigures(p)
  PROVE  BoundedInv'
<1>1. UNCHANGED <<cvars, request>>
  BY DEF OtherReads, OtherConfigures
<1>2. LimitsStay /\ OthersInv'
  <2>1. CASE OtherReads(p)
    <3>1. ~disturbed /\ ~Truncated => ConfiguredLimits(file) = UserFile.limits
      BY LimitsAreRead DEF BoundedInv
    <3>2. /\ others' = [others EXCEPT ![p] =
                          [pc |-> "configure", limits |-> ConfiguredLimits(file), cut |-> Truncated]]
          /\ UNCHANGED <<limits, cut>>
      BY <2>1 DEF OtherReads
    <3>. QED
      BY <1>1, <3>1, <3>2 DEF BoundedInv, OthersInv, LimitsStay, cvars
  <2>2. CASE OtherConfigures(p)
    <3>1. /\ limits' = others[p].limits /\ cut' = others[p].cut
          /\ others' = [others EXCEPT ![p] = Away] /\ others[p].pc = "configure"
      BY <2>2 DEF OtherConfigures
    <3>2. disturbed' = disturbed /\ OthersInv
      BY <1>1 DEF BoundedInv, cvars
    <3>3. LimitsStay
      BY <3>1, <3>2 DEF OthersInv, LimitsStay
    <3>4. /\ others' = [q \in Others |-> others'[q]]
          /\ \A q \in Others : others'[q] = IF q = p THEN Away ELSE others[q]
      BY <3>1, <3>2 DEF OthersInv
    <3>5. Away.pc = "off"
      BY DEF Away
    <3>. QED
      BY <3>2, <3>3, <3>4, <3>5 DEF OthersInv
  <2>. QED
    BY <2>1, <2>2
<1>3. ASSUME NEW c \in Callers PROVE LimitsInv(c)'
  BY <1>1, <1>2, LimitsFrame DEF BoundedInv, cvars
<1>. QED
  BY <1>2, <1>3 DEF BoundedInv

LEMMA BoundedStep ==
  ASSUME BoundedInv, [HNext]_hvars
  PROVE  BoundedInv'
<1>1. ServingInv'
  BY ServingStep DEF BoundedInv
<1>2. CASE UNCHANGED <<cvars, limits, request, others, cut>>
  BY <1>1, <1>2 DEF BoundedInv, OthersInv, LimitsInv, WithinLimits, cvars
<1>3. CASE \E c \in Callers :
             \/ \E s \in Asked, kind \in {"chat", "embeddings", "refused"} : Ask(c, s, kind)
             \/ AskAgain(c) \/ TimesOut(c)
  BY <1>1, <1>3, ClientLimits
<1>4. CASE \E c \in Callers : ThreadStep(c)
  BY <1>1, <1>4, ThreadLimits
<1>. QED
  BY <1>1, <1>2, <1>3, <1>4, ChooserLimits, DeathLimits, OthersLimits DEF HNext, hvars

LEMMA BoundedInitially == HInit => BoundedInv
<1>. SUFFICES ASSUME HInit PROVE BoundedInv
  OBVIOUS
<1>1. ServingInv
  BY ServingInitially
<1>2. OthersInv
  BY DEF HInit, OthersInv, Away
<1>3. \A c \in Callers : LimitsInv(c)
  BY DEF HInit, NoRequest, LimitsInv
<1>. QED
  BY <1>1, <1>2, <1>3 DEF BoundedInv

(***************************************************************************)
(* The limits in models.yaml bound every model that a request picks,       *)
(* however many requests, choosers and other clients of the scheduler      *)
(* there are, unless whoever set the limits last had read the file while a *)
(* chooser was rewriting it: every client brings the limits of the file to *)
(* the scheduler, and nobody brings others.                                *)
(***************************************************************************)
THEOREM LimitsHold == HSpec => []WithinConfiguredLimit
<1>1. BoundedInv => WithinConfiguredLimit
  BY DEF BoundedInv, LimitsInv, WithinLimits, WithinConfiguredLimit, Serving
<1>. QED
  BY <1>1, BoundedInitially, BoundedStep, PTL DEF HSpec

-----------------------------------------------------------------------------
(* The capability of a specialty.                                          *)

\* An entry asks for the capability of its specialty, and so does the model that
\* it names.
ProperEntry(s, e) ==
  /\ e.capability = Capability(s)
  /\ e.model # AnyValue =>
       \A m \in Packaged.models : m.name = e.model => m.capability = Capability(s)

\* What the packaged file and the user agree on: an entry of the user for a
\* packaged specialty asks for the same capability.  (A chooser that looks while
\* the file is truncated sees the packaged entry.)
EntriesAgree ==
  /\ \A s \in DOMAIN Packaged.specialties : ProperEntry(s, Packaged.specialties[s])
  /\ \A s \in DOMAIN UserFile.specialties : ProperEntry(s, UserFile.specialties[s])

ProperFile(f) ==
  /\ DOMAIN f = {"limits", "specialties"} /\ DOMAIN f.specialties \subseteq Registered
  /\ \A s \in DOMAIN f.specialties : ProperEntry(s, f.specialties[s])

ChosenProperly(k) ==
  /\ ProperFile(chooser[k].data)
  /\ chooser[k].pc \in {"read", "truncate", "dump"} =>
       /\ chooser[k].model \in Packaged.models
       /\ chooser[k].model.capability = Capability(chooser[k].specialty)

FilesInv ==
  /\ file = Corrupt \/ ProperFile(file)
  /\ \A k \in Choosers : ChosenProperly(k)

LEMMA EmptyIsProper == ProperFile(EmptyFile)
BY DEF EmptyFile, ProperFile

LEMMA UserFileIsProper ==
  ASSUME EntriesAgree
  PROVE  ProperFile(UserFile)
BY RegistryIs, ModelsConfigAssumption DEF EntriesAgree, ProperFile, Registered

LEMMA RegistryIsProper ==
  ASSUME EntriesAgree, NEW f, ProperFile(f), NEW s \in DOMAIN RegistryOf(f).specialties
  PROVE  s \in Registered /\ ProperEntry(s, RegistryOf(f).specialties[s])
<1>1. s \in DOMAIN Packaged.specialties \/ s \in DOMAIN f.specialties
  BY RegistryIs
<1>2. RegistryOf(f).specialties[s] =
        IF s \in DOMAIN f.specialties THEN f.specialties[s] ELSE Packaged.specialties[s]
  BY RegistryIs
<1>3. DOMAIN Packaged.specialties \subseteq Registered
  BY RegistryIs DEF Registered
<1>. QED
  BY <1>1, <1>2, <1>3 DEF EntriesAgree, ProperFile

LEMMA WithChoiceIsProper ==
  ASSUME NEW f, ProperFile(f), NEW s \in Registered, NEW m \in Packaged.models,
         m.capability = Capability(s)
  PROVE  ProperFile(WithChoice(f, s, m))
<1>. DEFINE g == WithChoice(f, s, m)
            e == [capability |-> m.capability, flavor |-> AnyValue,
                  min_context |-> AnyValue, model |-> m.name]
<1>1. /\ DOMAIN g = {"limits", "specialties"}
      /\ DOMAIN g.specialties = DOMAIN f.specialties \cup {s}
      /\ \A t \in DOMAIN g.specialties : g.specialties[t] = IF t = s THEN e ELSE f.specialties[t]
  BY WithChoiceIs DEF ProperFile
<1>2. ProperEntry(s, e)
  BY ModelsConfigAssumption DEF ProperEntry
<1>. HIDE DEF g, e
<1>3. ProperFile(g)
  BY <1>1, <1>2 DEF ProperFile
<1>. QED
  BY <1>3 DEF g

\* A model that may be chosen has the capability of the specialty.
LEMMA ChosenIsProper ==
  ASSUME EntriesAgree, ProperFile(file), NEW s, NEW m \in Packaged.models,
         Selectable(s, m) \/ Promptable(s, m)
  PROVE  m.capability = Capability(s)
<1>. DEFINE registry == RegistryOf(file)
<1>1. CASE Selectable(s, m)
  <2>1. s \in DOMAIN registry.specialties /\ m.capability = registry.specialties[s].capability
    BY <1>1 DEF Selectable
  <2>. QED
    BY <2>1, RegistryIsProper DEF ProperEntry
<1>2. CASE Promptable(s, m)
  <2>1. /\ s \in DOMAIN registry.specialties
        /\ IF registry.specialties[s].model # AnyValue THEN m.name = registry.specialties[s].model
           ELSE m.capability = registry.specialties[s].capability
    BY <1>2 DEF Promptable, SetupCandidates, ResolveCandidates, IsModelName
  <2>. QED
    BY <2>1, RegistryIsProper DEF ProperEntry
<1>. QED
  BY <1>1, <1>2

\* One chooser moves.
LEMMA OneChooser ==
  ASSUME ChoosersTyped, FilesInv, NEW k \in Choosers, NEW state, Becomes(k, state),
         ProperFile(state.data),
         state.pc \in {"read", "truncate", "dump"} =>
           state.model \in Packaged.models /\ state.model.capability = Capability(state.specialty),
         file' = Corrupt \/ ProperFile(file')
  PROVE  FilesInv'
<1>1. /\ chooser'[k] = state
      /\ \A j \in Choosers : j # k => chooser'[j] = chooser[j]
  BY ChooserMoves
<1>2. ASSUME NEW j \in Choosers PROVE ChosenProperly(j)'
  BY <1>1 DEF FilesInv, ChosenProperly
<1>. QED
  BY <1>2 DEF FilesInv

LEMMA FilesKeep ==
  ASSUME EntriesAgree, ChoosersTyped, KeptInv, FilesInv, CNext
  PROVE  FilesInv'
<1>1. PICK k \in Choosers :
        \/ \E s \in Registered, way \in {"api", "models", "setup"} : Begin(k, way, s)
        \/ \E m \in Packaged.models : Choose(k, m)
        \/ ChooseFails(k) \/ ReadConfig(k) \/ Truncate(k) \/ Dump(k) \/ ChooserKilled(k)
  BY DEF CNext, Registered
<1>2. DOMAIN chooser[k] = ChooserFields /\ ChosenProperly(k)
  BY DEF ChoosersTyped, FilesInv
<1>3. Idle.pc = "idle" /\ Idle.data = EmptyFile /\ ProperFile(Idle.data)
  BY EmptyIsProper DEF Idle
<1>4. CASE \E s \in Registered, way \in {"api", "models", "setup"} : Begin(k, way, s)
  <2>1. PICK s \in Registered, way \in {"api", "models", "setup"} : Begin(k, way, s)
    BY <1>4
  <2>2. PICK state : /\ Becomes(k, state)
                     /\ state = [Idle EXCEPT !.pc = "choose", !.way = way, !.specialty = s]
    BY <2>1 DEF Begin
  <2>3. state.pc = "choose" /\ state.data = EmptyFile /\ UNCHANGED file
    BY <2>1, <2>2 DEF Idle, Begin
  <2>. QED
    BY <2>2, <2>3, EmptyIsProper, OneChooser DEF FilesInv
<1>5. CASE \E m \in Packaged.models : Choose(k, m)
  <2>1. PICK m \in Packaged.models : Choose(k, m)
    BY <1>5
  <2>2. PICK state : /\ Becomes(k, state)
                     /\ state = [chooser[k] EXCEPT !.pc = "read", !.way = "", !.model = m]
    BY <2>1 DEF Choose
  <2>3. state.data = chooser[k].data /\ state.specialty = chooser[k].specialty /\ state.model = m
    BY <1>2, <2>2, FieldsKept
  <2>4. ProperFile(file) /\ UNCHANGED file
    BY <2>1 DEF Choose, FilesInv
  <2>5. Selectable(chooser[k].specialty, m) \/ Promptable(chooser[k].specialty, m)
    BY <2>1 DEF Choose
  <2>6. m.capability = Capability(chooser[k].specialty)
    BY <2>4, <2>5, ChosenIsProper
  <2>7. ProperFile(state.data) /\ ProperFile(file')
    BY <1>2, <2>3, <2>4 DEF ChosenProperly
  <2>. QED
    BY <2>2, <2>3, <2>6, <2>7, OneChooser
<1>6. CASE (ChooseFails(k) \/ ReadConfig(k) \/ ChooserKilled(k)) /\ Becomes(k, Idle)
  <2>1. UNCHANGED file
    BY <1>6 DEF ChooseFails, ReadConfig, ChooserKilled
  <2>. QED
    BY <1>3, <1>6, <2>1, OneChooser DEF FilesInv
<1>7. CASE ReadConfig(k) /\ ~Becomes(k, Idle)
  <2>1. PICK state : /\ Becomes(k, state)
                     /\ state = [chooser[k] EXCEPT !.pc = "truncate", !.data = file]
    BY <1>7 DEF ReadConfig
  <2>2. state.data = file /\ state.specialty = chooser[k].specialty /\ state.model = chooser[k].model
    BY <1>2, <2>1, FieldsKept
  <2>3. chooser[k].pc = "read" /\ ProperFile(file) /\ UNCHANGED file
    BY <1>7 DEF ReadConfig, FilesInv
  <2>4. ProperFile(state.data) /\ ProperFile(file')
    BY <2>2, <2>3
  <2>. QED
    BY <1>2, <2>1, <2>2, <2>3, <2>4, OneChooser DEF ChosenProperly
<1>8. CASE Truncate(k)
  <2>1. PICK state : Becomes(k, state) /\ state = [chooser[k] EXCEPT !.pc = "dump"]
    BY <1>8 DEF Truncate
  <2>2. /\ state.data = chooser[k].data /\ state.specialty = chooser[k].specialty
        /\ state.model = chooser[k].model
    BY <1>2, <2>1, FieldsKept
  <2>3. chooser[k].pc = "truncate" /\ file' = EmptyFile
    BY <1>8 DEF Truncate
  <2>4. ProperFile(state.data) /\ ProperFile(file')
    BY <1>2, <2>2, <2>3, EmptyIsProper DEF ChosenProperly
  <2>. QED
    BY <1>2, <2>1, <2>2, <2>3, <2>4, OneChooser DEF ChosenProperly
<1>9. CASE Dump(k)
  <2>1. /\ chooser[k].pc = "dump" /\ Becomes(k, Idle)
        /\ file' \in {WithChoice(chooser[k].data, chooser[k].specialty, chooser[k].model), Corrupt}
    BY <1>9 DEF Dump
  <2>2. /\ ProperFile(chooser[k].data) /\ chooser[k].specialty \in Registered
        /\ chooser[k].model \in Packaged.models
        /\ chooser[k].model.capability = Capability(chooser[k].specialty)
    BY <1>2, <2>1 DEF ChosenProperly, KeptInv
  <2>3. ProperFile(WithChoice(chooser[k].data, chooser[k].specialty, chooser[k].model))
    BY <2>2, WithChoiceIsProper
  <2>4. file' = Corrupt \/ ProperFile(file')
    BY <2>1, <2>3
  <2>. QED
    BY <1>3, <2>1, <2>4, OneChooser
<1>. QED
  BY <1>1, <1>4, <1>5, <1>6, <1>7, <1>8, <1>9 DEF ChooseFails, ChooserKilled

\* What a request picks from is proper, and so is what it has picked.
ModelInv(c) ==
  /\ request[c].thread = "pick" => ProperFile(request[c].data)
  /\ request[c].model # NoModel =>
       /\ request[c].resolved \in Registered
       /\ request[c].model.capability = Capability(request[c].resolved)

AskedInv == ServingInv /\ FilesInv /\ \A c \in Callers : ModelInv(c)

LEMMA ThreadGoes ==
  ASSUME RequestsTyped, NEW c \in Callers, NEW r, Sets(c, r)
  PROVE  request'[c] = r /\ \A b \in Callers : b # c => request'[b] = request[b]
BY DEF RequestsTyped, Sets

\* A thread that has not picked yet has nothing to be wrong about.
LEMMA EarlyThread ==
  ASSUME NEW c \in Callers, ThreadInv(c)', request'[c].thread \notin {"pick", "fetch", "chat"}
  PROVE  ModelInv(c)'
BY DEF ThreadInv, ModelInv

LEMMA ThreadModels ==
  ASSUME EntriesAgree, AskedInv, ServingInv', NEW c \in Callers, ThreadStep(c)
  PROVE  \A b \in Callers : ModelInv(b)'
<1>0. DOMAIN request[c] = RequestFields /\ RequestsTyped /\ ModelInv(c) /\ ThreadInv(c)'
  BY DEF AskedInv, ServingInv, CallerInv, RequestsTyped
<1>1. SUFFICES /\ ModelInv(c)'
               /\ \A b \in Callers : b # c => request'[b] = request[b]
  BY DEF AskedInv, ModelInv
<1>2. CASE \E outcome : Sets(c, Ended(request[c], outcome))
  <2>1. PICK e : Sets(c, e) /\ \E outcome : e = Ended(request[c], outcome)
    BY <1>2
  <2>2. e.thread = "none"
    BY <1>0, <2>1, EndedIs
  <2>. QED
    BY <1>0, <2>1, <2>2, ThreadGoes, EarlyThread
<1>3. CASE Alias(c)
  <2>1. PICK r : Sets(c, r) /\ r = [request[c] EXCEPT !.thread = "limits", !.resolved = Resolved(request[c])]
    BY <1>3 DEF Alias
  <2>2. r.thread = "limits"
    BY <1>0, <2>1 DEF RequestFields
  <2>. QED
    BY <1>0, <2>1, <2>2, ThreadGoes, EarlyThread
<1>4. CASE ReadLimits(c)
  <2>1. PICK r : Sets(c, r) /\ r = [request[c] EXCEPT !.thread = "configure", !.limits = ConfiguredLimits(file),
                                    !.cut = Truncated]
    BY <1>4 DEF ReadLimits
  <2>2. r.thread = "configure"
    BY <1>0, <2>1 DEF RequestFields
  <2>. QED
    BY <1>0, <2>1, <2>2, ThreadGoes, EarlyThread
<1>5. CASE Configure(c)
  <2>1. PICK r : Sets(c, r) /\ r = [request[c] EXCEPT !.thread = "registry", !.limits = EmptyFile.limits, !.cut = FALSE]
    BY <1>5 DEF Configure
  <2>2. r.thread = "registry"
    BY <1>0, <2>1 DEF RequestFields
  <2>. QED
    BY <1>0, <2>1, <2>2, ThreadGoes, EarlyThread
<1>6. CASE ReadRegistry(c)
  <2>1. PICK r : Sets(c, r) /\ r = [request[c] EXCEPT !.thread = "pick", !.data = file]
    BY <1>6 DEF ReadRegistry
  <2>2. r.thread = "pick" /\ r.data = file
    BY <1>0, <2>1 DEF RequestFields
  <2>3. ProperFile(file)
    BY <1>6 DEF ReadRegistry, Reads, AskedInv, FilesInv
  <2>4. request'[c] = r /\ \A b \in Callers : b # c => request'[b] = request[b]
    BY <1>0, <2>1, ThreadGoes
  <2>5. request'[c].model = NoModel
    BY <1>0, <2>2, <2>4 DEF ThreadInv
  <2>6. ModelInv(c)'
    BY <2>2, <2>3, <2>4, <2>5 DEF ModelInv
  <2>. QED
    BY <2>4, <2>6
<1>7. CASE Pick(c) /\ ~\E outcome : Sets(c, Ended(request[c], outcome))
  <2>. DEFINE registry == RegistryOf(request[c].data)
              m == SessionModel(registry, request[c].resolved, Machine, limits)
  <2>1. PICK r : Sets(c, r) /\ r = [request[c] EXCEPT !.thread = "fetch", !.model = m, !.data = EmptyFile, !.cut = cut]
    BY <1>7 DEF Pick
  <2>2. r.thread = "fetch" /\ r.model = m /\ r.resolved = request[c].resolved
    BY <1>0, <2>1 DEF RequestFields
  <2>3. m # NoModel
    BY <1>7 DEF Pick
  <2>4. /\ m \in Packaged.models /\ request[c].resolved \in DOMAIN registry.specialties
        /\ IF registry.specialties[request[c].resolved].model # AnyValue
           THEN m.name = registry.specialties[request[c].resolved].model
           ELSE m.capability = registry.specialties[request[c].resolved].capability
    BY <2>3, RegistryIs, SessionModelIs
  <2>5. ProperFile(request[c].data)
    BY <1>0, <1>7 DEF Pick, ModelInv
  <2>. HIDE DEF m
  <2>6. /\ request[c].resolved \in Registered
        /\ ProperEntry(request[c].resolved, registry.specialties[request[c].resolved])
    BY <2>4, <2>5, RegistryIsProper
  <2>7. m.capability = Capability(request[c].resolved)
    BY <2>4, <2>6 DEF ProperEntry
  <2>8. request'[c] = r /\ \A b \in Callers : b # c => request'[b] = request[b]
    BY <1>0, <2>1, ThreadGoes
  <2>9. ModelInv(c)'
    BY <2>2, <2>6, <2>7, <2>8 DEF ModelInv
  <2>. QED
    BY <2>8, <2>9
<1>8. CASE Fetch(c) /\ ~\E outcome : Sets(c, Ended(request[c], outcome))
  <2>1. PICK r : Sets(c, r) /\ r = [request[c] EXCEPT !.thread = "chat"]
    BY <1>8 DEF Fetch
  <2>2. r.thread = "chat" /\ r.model = request[c].model /\ r.resolved = request[c].resolved
    BY <1>0, <2>1 DEF RequestFields
  <2>3. request'[c] = r /\ \A b \in Callers : b # c => request'[b] = request[b]
    BY <1>0, <2>1, ThreadGoes
  <2>4. ModelInv(c)'
    BY <1>0, <2>2, <2>3 DEF ModelInv
  <2>. QED
    BY <2>3, <2>4
<1>. QED
  BY <1>2, <1>3, <1>4, <1>5, <1>6, <1>7, <1>8 DEF ThreadStep, ReadFails, ChatEnds

LEMMA AskedStep ==
  ASSUME EntriesAgree, AskedInv, [HNext]_hvars
  PROVE  AskedInv'
<1>1. ServingInv'
  BY ServingStep DEF AskedInv
<1>2. FilesInv'
  <2>1. CASE ChooserStep
    BY <2>1, FilesKeep DEF ChooserStep, AskedInv, ServingInv, ChooserInv
  <2>2. CASE UNCHANGED cvars
    BY <2>2 DEF cvars, AskedInv, FilesInv, ChosenProperly
  <2>. QED
    BY <2>1, <2>2, ChoosersAlone DEF hvars
<1>3. \A c \in Callers : ModelInv(c)'
  <2>1. CASE ChooserStep
    <3>1. ASSUME NEW c \in Callers
          PROVE  /\ request'[c].thread = request[c].thread /\ request'[c].data = request[c].data
                 /\ request'[c].model = request[c].model /\ request'[c].resolved = request[c].resolved
      <4>1. DOMAIN request[c] = RequestFields
        BY DEF AskedInv, ServingInv, RequestsTyped
      <4>2. request'[c] = request[c] \/ request'[c] = [request[c] EXCEPT !.pin = AnyValue]
        BY <2>1 DEF ChooserStep
      <4>. QED
        BY <4>1, <4>2 DEF RequestFields
    <3>. QED
      BY <3>1 DEF AskedInv, ModelInv
  <2>2. CASE UNCHANGED request
    BY <2>2 DEF AskedInv, ModelInv
  <2>3. CASE \E d \in Daemons : DaemonDies(d)
    <3>1. PICK d \in Daemons : DaemonDies(d)
      BY <2>3
    <3>2. ASSUME NEW c \in Callers PROVE ModelInv(c)'
      <4>1. CASE request[c].server = d
        <5>1. request'[c] = Ended(request[c], "failed")
          BY <3>1, <4>1 DEF DaemonDies
        <5>2. Ended(request[c], "failed").thread = "none"
          BY EndedIs DEF AskedInv, ServingInv, RequestsTyped
        <5>. QED
          BY <1>1, <5>1, <5>2, EarlyThread DEF ServingInv, CallerInv
      <4>2. CASE request[c].server # d
        <5>1. request'[c] = request[c]
          BY <3>1, <4>2 DEF DaemonDies
        <5>. QED
          BY <5>1 DEF AskedInv, ModelInv
      <4>. QED
        BY <4>1, <4>2
    <3>. QED
      BY <3>2
  <2>4. CASE \E c \in Callers : ThreadStep(c)
    BY <1>1, <2>4, ThreadModels
  <2>5. CASE \E c \in Callers : \E s, kind, again : Posts(c, s, kind, again)
    <3>0. PICK c \in Callers : \E s, kind, again : Posts(c, s, kind, again)
      BY <2>5
    <3>1. PICK s, kind, again : Posts(c, s, kind, again)
      BY <3>0
    <3>2. PICK r : Sets(c, r) /\ r.thread \in {"none", "alias"}
      <4>. DEFINE q == [NoRequest EXCEPT !.client = "waiting", !.again = again, !.kind = kind, !.specialty = s]
      <4>1. DOMAIN q = RequestFields /\ q.thread = "none"
        BY DEF NoRequest, RequestFields
      <4>2. \/ Sets(c, [q EXCEPT !.client = "failed"])
            \/ \E d : Sets(c, [q EXCEPT !.thread = "alias", !.server = d, !.pin = PinOf(s)])
        BY <3>1 DEF Posts
      <4>. HIDE DEF q
      <4>3. [q EXCEPT !.client = "failed"].thread = "none"
        BY <4>1 DEF RequestFields
      <4>4. \A d : [q EXCEPT !.thread = "alias", !.server = d, !.pin = PinOf(s)].thread = "alias"
        BY <4>1 DEF RequestFields
      <4>. QED
        BY <4>2, <4>3, <4>4, Zenon
    <3>3. request'[c].thread \in {"none", "alias"} /\ \A b \in Callers : b # c => request'[b] = request[b]
      BY <3>2, ThreadGoes DEF AskedInv, ServingInv
    <3>4. ModelInv(c)'
      BY <1>1, <3>3, EarlyThread DEF ServingInv, CallerInv
    <3>. QED
      BY <3>3, <3>4 DEF AskedInv, ModelInv
  <2>6. CASE \E c \in Callers : TimesOut(c)
    <3>1. PICK c \in Callers : TimesOut(c)
      BY <2>6
    <3>2. PICK r : Sets(c, r) /\ r = [request[c] EXCEPT !.client = "failed"]
      BY <3>1 DEF TimesOut
    <3>3. /\ r.thread = request[c].thread /\ r.data = request[c].data
          /\ r.model = request[c].model /\ r.resolved = request[c].resolved
      BY <3>2 DEF AskedInv, ServingInv, RequestsTyped, RequestFields
    <3>4. request'[c] = r /\ \A b \in Callers : b # c => request'[b] = request[b]
      BY <3>2, ThreadGoes DEF AskedInv, ServingInv
    <3>. QED
      BY <3>3, <3>4 DEF AskedInv, ModelInv
  <2>. QED
    BY <2>1, <2>2, <2>3, <2>4, <2>5, <2>6 DEF HNext, Ask, AskAgain, OtherReads, OtherConfigures, hvars
<1>. QED
  BY <1>1, <1>2, <1>3 DEF AskedInv

LEMMA AskedInitially ==
  ASSUME EntriesAgree, HInit
  PROVE  AskedInv
<1>1. ServingInv
  BY ServingInitially
<1>2. FilesInv
  BY UserFileIsProper, EmptyIsProper DEF HInit, CInit, FilesInv, ChosenProperly, Idle
<1>3. \A c \in Callers : ModelInv(c)
  BY DEF HInit, NoRequest, ModelInv
<1>. QED
  BY <1>1, <1>2, <1>3 DEF AskedInv

(***************************************************************************)
(* Where the packaged file and the user agree on capabilities, a request   *)
(* that reads no half-written file is served by a model of the specialty   *)
(* it means, and by the pinned one if nobody wrote since it was asked:     *)
(* whatever choosers, other requests and daemons do between its three      *)
(* reads of models.yaml.                                                   *)
(***************************************************************************)
THEOREM RequestsServedAsAsked ==
  ASSUME EntriesAgree
  PROVE  HSpec => []ServedAsAsked
<1>1. HInit => AskedInv
  BY AskedInitially
<1>2. AskedInv /\ [HNext]_hvars => AskedInv'
  BY AskedStep
<1>3. AskedInv => ServedAsAsked
  <2>. SUFFICES ASSUME AskedInv, UndisturbedReads, NEW c \in Serving
                PROVE  LET r == request[c]
                           registered == RegistryOf(UserFile).specialties
                           meant == Meaning(r.specialty, DOMAIN registered, daemon[r.server].default)
                       IN  /\ r.model.capability = registered[meant].capability
                           /\ r.pin # AnyValue => r.model.name = r.pin
    BY DEF ServedAsAsked
  <2>1. c \in Callers /\ request[c].model # NoModel
    BY DEF Serving
  <2>2. CallerInv(c) /\ ModelInv(c)
    BY <2>1 DEF AskedInv, ServingInv
  <2>3. request[c].resolved = Meaning(request[c].specialty, Registered, daemon[request[c].server].default)
    BY <2>1, <2>2 DEF CallerInv, ThreadInv, ResolvedInv
  <2>4. request[c].model.capability = Capability(request[c].resolved)
    BY <2>1, <2>2 DEF ModelInv
  <2>5. request[c].pin # AnyValue => request[c].model.name = request[c].pin
    BY <2>1, <2>2 DEF CallerInv, PinInv
  <2>. QED
    BY <2>3, <2>4, <2>5 DEF Registered, Capability
<1>. QED
  BY <1>1, <1>2, <1>3, PTL DEF HSpec
=============================================================================
