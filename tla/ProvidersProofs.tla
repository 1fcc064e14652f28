---------------------------- MODULE ProvidersProofs ----------------------------
(***************************************************************************)
(* Proofs about ProviderManager, for any providers, users, agents, calls   *)
(* and thresholds; then about JulesSession, for any number of calls and    *)
(* retries.                                                                *)
(***************************************************************************)
EXTENDS ProviderManager, JulesSession, SequenceTheorems, FiniteSetTheorems, WellFoundedInduction, TLAPS

------------------------------------------------------------------------------
(* The chain of candidates *)

\* The initial segments of the naturals are finite sets, and strict inclusion
\* of finite sets is well-founded.
LEMMA LeastExists ==
  ASSUME NEW C \in SUBSET Nat, C # {}
  PROVE  \E m0 \in C : \A j \in C : m0 <= j
<1> DEFINE T == {0..i : i \in C}
<1>1. T \subseteq FiniteSubsetsOf(Nat) /\ T # {}
  <2>1. ASSUME NEW i \in C PROVE 0..i \in FiniteSubsetsOf(Nat)
    <3>1. IsFiniteSet(0..i)
      BY FS_Interval
    <3> QED
      BY <3>1 DEF FiniteSubsetsOf
  <2> QED
    BY <2>1
<1>2. PICK x \in T : \A y \in T : ~(<<y, x>> \in StrictSubsetOrdering(Nat))
  <2> HIDE DEF T
  <2> QED
    BY <1>1, FS_StrictSubsetOrderingWellFounded, WFMin
<1>3. PICK k \in C : x = 0..k
  BY <1>2
<1>4. ASSUME NEW j \in C, j < k PROVE FALSE
  <2>1. 0..j \in SUBSET Nat /\ 0..k \in SUBSET Nat /\ 0..j \subseteq 0..k /\ k \in 0..k /\ k \notin 0..j
    BY <1>4
  <2>2. <<0..j, 0..k>> \in StrictSubsetOrdering(Nat)
    BY <2>1 DEF StrictSubsetOrdering
  <2> QED
    BY <1>2, <1>3, <2>2
<1> QED
  BY <1>4

\* g is what InOrder(S) computes, as far as n.
Selects(g, S, n) ==
  g = [i \in 0..n |-> IF i = 0 THEN <<>>
                      ELSE IF Order[i] \in S THEN Append(g[i - 1], Order[i]) ELSE g[i - 1]]

\* The recursion of InOrder has a solution: there is no least length without one.
LEMMA SelectionExists ==
  ASSUME NEW S
  PROVE  \A n \in Nat : \E g : Selects(g, S, n)
<1> DEFINE C == {n \in Nat : ~\E g : Selects(g, S, n)}
<1>1. ASSUME C # {}
      PROVE  FALSE
  <2>1. PICK n \in C : \A j \in C : n <= j
    BY <1>1, LeastExists
  <2>2. n \in Nat /\ ~\E g : Selects(g, S, n)
    BY <2>1
  <2>3. n # 0
    <3> DEFINE g == [i \in 0..0 |-> <<>>]
    <3>1. g = [i \in 0..0 |-> IF i = 0 THEN <<>>
                      ELSE IF Order[i] \in S THEN Append(g[i - 1], Order[i]) ELSE g[i - 1]]
      OBVIOUS
    <3>2. Selects(g, S, 0)
      BY <3>1 DEF Selects
    <3> QED
      BY <2>2, <3>2
  <2>4. n - 1 \in Nat /\ n - 1 \notin C
    BY <2>1, <2>2, <2>3
  <2>5. PICK g : Selects(g, S, n - 1)
    BY <2>4
  <2> DEFINE h == [i \in 0..n |-> IF i = 0 THEN <<>>
                      ELSE IF Order[i] \in S THEN Append(g[i - 1], Order[i]) ELSE g[i - 1]]
  <2>6. \A i \in 0..n - 1 : h[i] = g[i]
    <3>1. \A i \in 0..n - 1 : g[i] = IF i = 0 THEN <<>>
                      ELSE IF Order[i] \in S THEN Append(g[i - 1], Order[i]) ELSE g[i - 1]
      <4> SUFFICES ASSUME NEW i \in 0..n - 1
                   PROVE  g[i] = IF i = 0 THEN <<>>
                      ELSE IF Order[i] \in S THEN Append(g[i - 1], Order[i]) ELSE g[i - 1]
        OBVIOUS
      <4>1. PICK f : f = g
        OBVIOUS
      <4>2. g = [k \in 0..n - 1 |-> IF k = 0 THEN <<>>
                      ELSE IF Order[k] \in S THEN Append(f[k - 1], Order[k]) ELSE f[k - 1]]
        BY <2>5, <4>1 DEF Selects
      <4> QED
        BY <4>1, <4>2
    <3>2. \A i \in 0..n - 1 : i \in 0..n
      BY <2>2
    <3> QED
      BY <3>1, <3>2
  <2>7. \A i \in 0..n : i # 0 => i - 1 \in 0..n - 1 /\ h[i - 1] = g[i - 1]
    <3>1. \A i \in 0..n : i # 0 => i - 1 \in 0..n - 1
      BY <2>2
    <3> HIDE DEF h
    <3> QED
      BY <2>6, <3>1
  <2>8. h = [i \in 0..n |-> IF i = 0 THEN <<>>
                      ELSE IF Order[i] \in S THEN Append(h[i - 1], Order[i]) ELSE h[i - 1]]
    <3> DEFINE e == [i \in 0..n |-> IF i = 0 THEN <<>>
                      ELSE IF Order[i] \in S THEN Append(h[i - 1], Order[i]) ELSE h[i - 1]]
    <3>1. ASSUME NEW i \in 0..n
          PROVE  h[i] = e[i]
      <4>1. CASE i = 0
        BY <4>1
      <4>2. CASE i # 0
        <5>1. PICK k : k = h[i - 1] /\ k = g[i - 1]
          BY <2>7, <4>2
        <5>2. h[i] = IF Order[i] \in S THEN Append(k, Order[i]) ELSE k
          BY <4>2, <5>1
        <5>3. e[i] = IF Order[i] \in S THEN Append(k, Order[i]) ELSE k
          <6> HIDE DEF h
          <6> QED
            BY <4>2, <5>1
        <5> QED
          BY <5>2, <5>3
      <4> QED
        BY <4>1, <4>2
    <3>2. (DOMAIN h = 0..n) /\ (DOMAIN e = 0..n) /\ h = [i \in 0..n |-> h[i]] /\ e = [i \in 0..n |-> e[i]]
      OBVIOUS
    <3> HIDE DEF h, e
    <3>3. h = e
      BY <3>1, <3>2
    <3> QED
      BY <3>3 DEF e
  <2>9. Selects(h, S, n)
    <3> HIDE DEF h
    <3> QED
      BY <2>8 DEF Selects
  <2> QED
    BY <2>2, <2>9
<1> QED
  BY <1>1

\* An order of providers is one, by the least position at which it were none.
LEMMA InOrderTyped ==
  ASSUME NEW S
  PROVE  InOrder(S) \in Seq(Provider)
<1>1. Order \in Seq(Provider) /\ Len(Order) \in Nat /\ \A i \in 1..Len(Order) : Order[i] \in Provider
  BY NamesAssumption, LenProperties, ElementOfSeq
<1> DEFINE g == CHOOSE f : Selects(f, S, Len(Order))
<1>2. Selects(g, S, Len(Order))
  BY <1>1, SelectionExists
<1>3. InOrder(S) = g[Len(Order)]
  BY DEF InOrder, Selects
<1> HIDE DEF g
<1> DEFINE C == {n \in 0..Len(Order) : g[n] \notin Seq(Provider)}
<1>4. ASSUME C # {}
      PROVE  FALSE
  <2>1. C \in SUBSET Nat
    OBVIOUS
  <2>2. PICK n \in C : \A j \in C : n <= j
    BY <1>4, <2>1, LeastExists
  <2>3. CASE n = 0
    <3>1. g[0] = <<>>
      BY <1>1, <1>2 DEF Selects
    <3> QED
      BY <2>2, <2>3, <3>1, EmptySeq
  <2>4. CASE n # 0
    <3>1. n \in 1..Len(Order) /\ n - 1 \in 0..Len(Order) /\ n - 1 \notin C
      BY <1>1, <2>2, <2>4
    <3>2. g[n - 1] \in Seq(Provider)
      BY <3>1
    <3>3. g[n] = IF Order[n] \in S THEN Append(g[n - 1], Order[n]) ELSE g[n - 1]
      BY <1>2, <2>4, <3>1 DEF Selects
    <3>4. Append(g[n - 1], Order[n]) \in Seq(Provider)
      BY <1>1, <3>1, <3>2, AppendProperties
    <3> QED
      BY <2>2, <3>2, <3>3, <3>4
  <2> QED
    BY <2>3, <2>4
<1> QED
  BY <1>1, <1>3, <1>4

------------------------------------------------------------------------------
(* The manager *)

\* A chain built without PROVIDER_FALLBACK_ORDER has local in it.
ChainNets(mg) == FallbackList = <<>> => mg.chain = <<>> \/ Local \in Names(mg.chain)

Sound(mg) == mg \in Manager /\ ChainNets(mg)

LEMMA LocalIsUsable == \A u : Usable(Local, u)
BY NamesAssumption DEF Usable

LEMMA ManagerIs ==
  ASSUME NEW mg \in Manager
  PROVE  /\ mg.settings \in User /\ mg.enabled \subseteq Provider /\ mg.active \in Provider
         /\ mg.status \in [Provider -> Status] /\ mg.errors \in [Provider -> 0..UnhealthyAt]
         /\ mg.cached \in [Provider -> User \cup {None}] /\ mg.chain \in Seq(Provider)
         /\ mg = [settings |-> mg.settings, enabled |-> mg.enabled, status |-> mg.status,
                  errors |-> mg.errors, cached |-> mg.cached, active |-> mg.active, chain |-> mg.chain]
BY DEF Manager

\* _rebuild_fallback_chain leaves a list of providers with local in it.
LEMMA AutoChainNets ==
  ASSUME NEW mg \in Manager
  PROVE  /\ AutoChain(mg) \in Seq(Provider)
         /\ Local \in Names(AutoChain(mg))
<1> DEFINE fits == {p \in mg.enabled \ {mg.active} : p \in Editing <=> mg.active \in Editing}
           chain == <<mg.active>> \o InOrder(fits)
<1>1. InOrder(fits) \in Seq(Provider) /\ mg.active \in Provider /\ Local \in Provider
  BY InOrderTyped, NamesAssumption, ManagerIs
<1>2. <<mg.active>> \in Seq(Provider)
  BY <1>1
<1> HIDE DEF fits
<1>3. chain \in Seq(Provider)
  BY <1>1, <1>2, ConcatProperties
<1> HIDE DEF chain
<1>4. AutoChain(mg) = IF Local \in Names(chain) THEN chain ELSE Append(chain, Local)
  BY DEF AutoChain, chain, fits
<1>5. Append(chain, Local) \in Seq(Provider) /\ Local \in Names(Append(chain, Local))
  <2>1. /\ Append(chain, Local) \in Seq(Provider) /\ Len(Append(chain, Local)) = Len(chain) + 1
        /\ Append(chain, Local)[Len(chain) + 1] = Local /\ Len(chain) \in Nat
        /\ DOMAIN Append(chain, Local) = 1..Len(chain) + 1
    BY <1>1, <1>3, AppendProperties, LenProperties
  <2>2. Len(chain) + 1 \in DOMAIN Append(chain, Local)
    BY <2>1
  <2> QED
    BY <2>1, <2>2 DEF Names
<1> QED
  BY <1>3, <1>4, <1>5

\* The methods of the manager.
LEMMA RebuiltSound ==
  ASSUME NEW mg, Sound(mg)
  PROVE  Sound(Rebuilt(mg)) /\ Rebuilt(mg).chain = AutoChain(mg)
<1>1. AutoChain(mg) \in Seq(Provider) /\ Local \in Names(AutoChain(mg))
  BY AutoChainNets DEF Sound
<1>2. PICK q : q = AutoChain(mg)
  OBVIOUS
<1>3. PICK r : r = [mg EXCEPT !.chain = q]
  OBVIOUS
<1>4. /\ r \in Manager /\ r.chain = q /\ r.cached = mg.cached
  BY <1>1, <1>2, <1>3 DEF Sound, Manager
<1>5. Sound(r)
  BY <1>1, <1>2, <1>4 DEF Sound, ChainNets
<1> QED
  BY <1>2, <1>3, <1>4, <1>5 DEF Rebuilt

LEMMA SetActiveSound ==
  ASSUME NEW mg, Sound(mg), NEW p \in Provider
  PROVE  Sound(SetActive(mg, p))
<1>1. PICK r : r = [mg EXCEPT !.active = p]
  OBVIOUS
<1>2. PICK s : s = [mg EXCEPT !.active = Local]
  OBVIOUS
<1>3. Sound(r)
  <2>1. r \in Manager /\ r.cached = mg.cached /\ r.chain = mg.chain
    BY <1>1 DEF Sound, Manager
  <2> QED
    BY <2>1 DEF Sound, ChainNets
<1>4. Sound(s)
  <2>1. s \in Manager /\ s.cached = mg.cached /\ s.chain = mg.chain
    BY <1>2, NamesAssumption DEF Sound, Manager
  <2> QED
    BY <2>1 DEF Sound, ChainNets
<1> QED
  BY <1>1, <1>2, <1>3, <1>4, RebuiltSound DEF SetActive

LEMMA GetManagerSound ==
  ASSUME NEW mg, Sound(mg), NEW u \in User
  PROVE  Sound(GetManager(mg, u))
<1>1. PICK r : r = [mg EXCEPT !.settings = u]
  OBVIOUS
<1>2. Sound(r)
  <2>1. r \in Manager /\ r.cached = mg.cached /\ r.chain = mg.chain
    BY <1>1 DEF Sound, Manager
  <2> QED
    BY <2>1 DEF Sound, ChainNets
<1>3. Preferred[u] \in Provider
  BY NamesAssumption
<1> QED
  BY <1>1, <1>2, <1>3, SetActiveSound DEF GetManager

LEMMA ListedSound ==
  ASSUME NEW mg, Sound(mg)
  PROVE  Sound(Listed(mg))
<1> DEFINE st == [p \in Provider |-> IF p \notin EnabledList THEN "disabled"
                           ELSE IF mg.status[p] = "disabled" THEN "unknown" ELSE mg.status[p]]
           ca == [p \in Provider |-> IF p \in EnabledList THEN mg.cached[p] ELSE None]
           ac == IF mg.active \in EnabledList THEN mg.active ELSE Local
<1>1. st \in [Provider -> Status] /\ ca \in [Provider -> User \cup {None}] /\ ac \in Provider
  BY ManagerIs, NamesAssumption DEF Sound, Status
<1>2. Listed(mg) = [mg EXCEPT !.enabled = EnabledList, !.status = st, !.cached = ca, !.active = ac]
  BY DEF Listed
<1> HIDE DEF st, ca, ac
<1>3. PICK r : r = [mg EXCEPT !.enabled = EnabledList, !.status = st, !.cached = ca, !.active = ac]
  OBVIOUS
<1>4. r \in Manager /\ r.cached = ca /\ r.chain = mg.chain
  BY <1>1, <1>3, NamesAssumption DEF Sound, Manager
<1> QED
  BY <1>2, <1>3, <1>4 DEF Sound, ChainNets

LEMMA ConfiguredSound ==
  ASSUME NEW mg, Sound(mg)
  PROVE  Sound(Configured(mg))
<1>1. Server \in User /\ Preferred[Server] \in Provider
  BY NamesAssumption
<1>2. PICK got : got = GetManager(mg, Server)
  OBVIOUS
<1>3. PICK listed : listed = IF EnabledList = {} THEN got ELSE Listed(got)
  OBVIOUS
<1>4. Sound(listed)
  BY <1>1, <1>2, <1>3, GetManagerSound, ListedSound
<1>5. PICK r : r = [listed EXCEPT !.chain = FallbackList]
  OBVIOUS
<1>6. FallbackList # <<>> => Sound(r)
  <2>1. r \in Manager /\ r.cached = listed.cached /\ r.chain = FallbackList
    BY <1>4, <1>5, NamesAssumption DEF Sound, Manager
  <2> QED
    BY <1>4, <2>1 DEF Sound, ChainNets
<1> QED
  BY <1>1, <1>2, <1>3, <1>4, <1>5, <1>6, SetActiveSound DEF Configured

\* A change of the records of health, of what is enabled, and of the active one.
LEMMA RecordsSound ==
  ASSUME NEW mg, Sound(mg), NEW r, r \in Manager,
         r.chain = mg.chain
  PROVE  Sound(r)
BY DEF Sound, ChainNets

LEMMA EnableSound ==
  ASSUME NEW mg, Sound(mg), NEW p \in Provider
  PROVE  Sound(Enable(mg, p))
<1>1. PICK s : s = IF mg.status[p] = "disabled" THEN "unknown" ELSE mg.status[p]
  OBVIOUS
<1>2. s \in Status
  BY <1>1, ManagerIs DEF Sound, Status
<1>3. PICK st : st = [mg.status EXCEPT ![p] = s]
  OBVIOUS
<1>4. st \in [Provider -> Status]
  BY <1>2, <1>3, ManagerIs DEF Sound
<1>5. PICK r : r = [mg EXCEPT !.enabled = mg.enabled \cup {p}, !.status = st]
  OBVIOUS
<1>6. r \in Manager /\ r.chain = mg.chain /\ r.cached = mg.cached
  BY <1>4, <1>5 DEF Sound, Manager
<1>7. Enable(mg, p) = r
  BY <1>1, <1>3, <1>5 DEF Enable
<1> QED
  BY <1>6, <1>7, RecordsSound

LEMMA DisableSound ==
  ASSUME NEW mg, Sound(mg), NEW p \in Provider
  PROVE  Sound(Disable(mg, p))
<1>1. PICK st : st = [mg.status EXCEPT ![p] = "disabled"]
  OBVIOUS
<1>2. PICK ca : ca = [mg.cached EXCEPT ![p] = None]
  OBVIOUS
<1>3. PICK ac : ac = IF mg.active = p THEN Local ELSE mg.active
  OBVIOUS
<1>4. /\ st \in [Provider -> Status] /\ ca \in [Provider -> User \cup {None}] /\ ac \in Provider
  BY <1>1, <1>2, <1>3, ManagerIs, NamesAssumption DEF Sound, Status
<1>5. PICK r : r = [mg EXCEPT !.enabled = mg.enabled \ {p}, !.status = st, !.cached = ca, !.active = ac]
  OBVIOUS
<1>6. r \in Manager /\ r.chain = mg.chain /\ r.cached = ca
  BY <1>4, <1>5 DEF Sound, Manager
<1>7. Disable(mg, p) = r
  BY <1>1, <1>2, <1>3, <1>5 DEF Disable
<1> QED
  BY <1>4, <1>6, <1>7, RecordsSound

LEMMA SucceededSound ==
  ASSUME NEW mg, Sound(mg), NEW p \in Provider
  PROVE  Sound(Succeeded(mg, p))
<1>1. PICK s : s = IF mg.status[p] \in {"degraded", "unknown"} THEN "healthy" ELSE mg.status[p]
  OBVIOUS
<1>2. PICK st : st = [mg.status EXCEPT ![p] = s]
  OBVIOUS
<1>3. st \in [Provider -> Status]
  BY <1>1, <1>2, ManagerIs DEF Sound, Status
<1>4. PICK r : r = [mg EXCEPT !.status = st]
  OBVIOUS
<1>5. r \in Manager /\ r.chain = mg.chain /\ r.cached = mg.cached
  BY <1>3, <1>4 DEF Sound, Manager
<1>6. Succeeded(mg, p) = r
  BY <1>1, <1>2, <1>4 DEF Succeeded
<1> QED
  BY <1>5, <1>6, RecordsSound

LEMMA FailedSound ==
  ASSUME NEW mg, Sound(mg), NEW p \in Provider
  PROVE  Sound(Failed(mg, p))
<1>1. PICK n : n = IF mg.errors[p] < UnhealthyAt THEN mg.errors[p] + 1 ELSE UnhealthyAt
  OBVIOUS
<1>2. n \in 0..UnhealthyAt
  BY <1>1, ManagerIs, ThresholdAssumption DEF Sound
<1>3. PICK s : s = IF n >= UnhealthyAt THEN "unhealthy"
                   ELSE IF n >= DegradeAt THEN "degraded" ELSE mg.status[p]
  OBVIOUS
<1>4. s \in Status
  BY <1>3, ManagerIs DEF Sound, Status
<1>5. PICK st : st = [mg.status EXCEPT ![p] = s]
  OBVIOUS
<1>6. PICK er : er = [mg.errors EXCEPT ![p] = n]
  OBVIOUS
<1>7. st \in [Provider -> Status] /\ er \in [Provider -> 0..UnhealthyAt]
  BY <1>2, <1>4, <1>5, <1>6, ManagerIs DEF Sound
<1>8. PICK r : r = [mg EXCEPT !.errors = er, !.status = st]
  OBVIOUS
<1>9. r \in Manager /\ r.chain = mg.chain /\ r.cached = mg.cached
  BY <1>7, <1>8 DEF Sound, Manager
<1>10. Failed(mg, p) = r
  BY <1>1, <1>3, <1>5, <1>6, <1>8 DEF Failed
<1> QED
  BY <1>9, <1>10, RecordsSound

LEMMA KeptSound ==
  ASSUME NEW mg, Sound(mg), NEW i \in Choice
  PROVE  Sound(Kept(mg, i))
<1>1. i.provider \in Provider /\ i.by \in User
  BY DEF Choice
<1>2. PICK ca : ca = [mg.cached EXCEPT ![i.provider] = i.by]
  OBVIOUS
<1>3. ca \in [Provider -> User \cup {None}]
  BY <1>1, <1>2, ManagerIs DEF Sound
<1>4. PICK r : r = [mg EXCEPT !.cached = ca]
  OBVIOUS
<1>5. r \in Manager /\ r.chain = mg.chain
  BY <1>3, <1>4 DEF Sound, Manager
<1>6. Sound(r) /\ Sound(Failed(mg, i.provider))
  BY <1>1, <1>5, RecordsSound, FailedSound
<1> QED
  BY <1>2, <1>4, <1>6 DEF Kept

LEMMA InstantiatedSound ==
  ASSUME NEW mg, Sound(mg), NEW p \in Provider
  PROVE  Sound(Instantiated(mg, p))
<1>1. Made(p, mg.settings) \in Choice
  BY ManagerIs DEF Sound, Made, Choice
<1> QED
  BY <1>1, KeptSound DEF Instantiated

LEMMA CachedAfter ==
  ASSUME NEW mg, Sound(mg), NEW p \in Provider, HasInstance(mg, p)
  PROVE  Instantiated(mg, p).cached[p] \in User
<1>1. /\ mg.cached \in [Provider -> User \cup {None}] /\ mg.settings \in User
      /\ p \in mg.enabled
  BY ManagerIs DEF Sound, HasInstance
<1>2. CASE mg.cached[p] # None
  BY <1>1, <1>2 DEF Instantiated
<1>3. CASE mg.cached[p] = None
  <2>1. Constructs(p, mg.settings)
    BY <1>3 DEF HasInstance
  <2>2. Instantiated(mg, p) = [mg EXCEPT !.cached[p] = mg.settings]
    BY <1>1, <1>3, <2>1 DEF Instantiated, Kept, Made
  <2>3. mg \in Manager
    BY DEF Sound
  <2> QED
    BY <1>1, <2>2, <2>3 DEF Manager
<1> QED
  BY <1>2, <1>3

LEMMA PromotedSound ==
  ASSUME NEW mg, Sound(mg), NEW p \in Provider
  PROVE  Sound(Promoted(mg, p))
<1>1. PICK done : done = Succeeded(mg, p)
  OBVIOUS
<1>2. Sound(done)
  BY <1>1, SucceededSound
<1>3. PICK r : r = [done EXCEPT !.active = p]
  OBVIOUS
<1>4. r \in Manager /\ r.chain = done.chain /\ r.cached = done.cached
  BY <1>2, <1>3 DEF Sound, Manager
<1>5. Sound(r)
  BY <1>2, <1>4, RecordsSound
<1> QED
  BY <1>1, <1>2, <1>3, <1>5 DEF Promoted

------------------------------------------------------------------------------
(* The invariant *)

\* What an agent works with, or is about to take or to keep.
AgentAgrees(a) ==
  /\ agent[a].at \in {"taking", "building", "ready"} => agent[a].inst \in Choice
  /\ agent[a].at = "ready" => Usable(agent[a].inst.provider, agent[a].inst.by)

\* A call along such a chain has met local, still will, or is about to; only a
\* dropped instance ends it before.
CallAgrees(c) ==
  /\ call[c].at \in {"taking", "building", "running"} => call[c].inst \in Choice
  /\ FallbackList = <<>> =>
       /\ call[c].at \in {"loop", "running"} => call[c].met \/ Local \in Names(call[c].rest)
       /\ call[c].at \in {"taking", "building"} =>
            call[c].met \/ call[c].inst.provider = Local \/ Local \in Names(call[c].rest)
       /\ call[c].at = "raised" => call[c].met \/ call[c].popped

ProviderInv ==
  /\ TypeOK
  /\ Sound(m)
  /\ \A a \in Agent : AgentAgrees(a)
  /\ \A c \in Caller : CallAgrees(c)

LEMMA EmptyHasNone == Names(<<>>) = {}
BY EmptySeq DEF Names

LEMMA HeadOrTail ==
  ASSUME NEW q \in Seq(Provider), q # <<>>
  PROVE  /\ Head(q) \in Provider /\ Tail(q) \in Seq(Provider)
         /\ \A p \in Names(q) : p = Head(q) \/ p \in Names(Tail(q))
<1>1. /\ Head(q) \in Provider /\ Tail(q) \in Seq(Provider)
      /\ DOMAIN Tail(q) = 1..Len(q) - 1 /\ DOMAIN q = 1..Len(q) /\ Len(q) \in Nat \ {0}
      /\ Head(q) = q[1] /\ \A i \in 1..Len(q) - 1 : Tail(q)[i] = q[i + 1]
  BY HeadTailProperties, LenProperties, EmptySeq
<1>2. ASSUME NEW i \in DOMAIN q, i # 1
      PROVE  i - 1 \in DOMAIN Tail(q) /\ q[i] = Tail(q)[i - 1]
  BY <1>1, <1>2
<1>3. \A p \in Names(q) : p = Head(q) \/ p \in Names(Tail(q))
  <2>1. \A i \in DOMAIN q : q[i] = Head(q) \/ q[i] \in Names(Tail(q))
    BY <1>1, <1>2 DEF Names
  <2> QED
    BY <2>1 DEF Names
<1> QED
  BY <1>1, <1>3

LEMMA ProviderInit == Init => ProviderInv
<1> SUFFICES ASSUME Init
             PROVE  ProviderInv
  OBVIOUS
<1>1. Fresh \in Manager
  <2>1. <<>> \in Seq(Provider) /\ Server \in User /\ Local \in Provider
    BY NamesAssumption, EmptySeq
  <2>2. 0 \in 0..UnhealthyAt
    BY ThresholdAssumption
  <2> QED
    BY <2>1, <2>2 DEF Fresh, Manager, Status
<1>2. Sound(Fresh)
  <2>1. Fresh.chain = <<>> /\ \A p \in Provider : Fresh.cached[p] = None
    BY DEF Fresh
  <2> QED
    BY <1>1, <2>1 DEF Sound, ChainNets
<1>3. Sound(m)
  BY <1>2, SetActiveSound, NamesAssumption DEF Init
<1>4. TypeOK
  <2>1. <<>> \in Seq(Provider)
    BY EmptySeq
  <2> QED
    BY <1>3, <2>1 DEF Sound, TypeOK, Init, AgentState, CallState
<1>5. (\A a \in Agent : AgentAgrees(a)) /\ \A c \in Caller : CallAgrees(c)
  BY DEF Init, AgentAgrees, CallAgrees
<1> QED
  BY <1>3, <1>4, <1>5 DEF ProviderInv

LEMMA EndpointKeeps ==
  ASSUME ProviderInv, Endpoint
  PROVE  ProviderInv'
<1>1. Sound(m) /\ Server \in User /\ Preferred[Server] \in Provider
  BY NamesAssumption DEF ProviderInv
<1>2. Sound(Configured(m)) /\ \A u \in User : Sound(GetManager(m, u))
  BY <1>1, ConfiguredSound, GetManagerSound
<1>3. ASSUME NEW p \in Provider, NEW mg, NEW v \in BOOLEAN, Sound(mg), Probe(p, mg, v)
      PROVE  Sound(m') /\ probed' \in Choice \cup {None} /\ UNCHANGED <<agent, call>>
  <2>1. Sound(m') /\ UNCHANGED <<agent, call>>
    BY <1>3, InstantiatedSound, FailedSound DEF Probe
  <2>2. CASE HasInstance(mg, p)
    <3>1. probed' = Made(p, m'.cached[p]) /\ m' = Instantiated(mg, p)
      BY <1>3, <2>2 DEF Probe
    <3>2. m'.cached[p] \in User
      BY <1>3, <2>2, <3>1, CachedAfter
    <3> QED
      BY <2>1, <3>1, <3>2 DEF Made, Choice
  <2>3. CASE ~HasInstance(mg, p)
    BY <1>3, <2>1, <2>3 DEF Probe, ProviderInv, TypeOK
  <2> QED
    BY <2>2, <2>3
<1>4. CASE Read \/ ReadConfig \/ \E p \in Provider : PostEnable(p) \/ PostDisable(p) \/ PostActive(p)
  <2>1. Sound(m')
    BY <1>1, <1>2, <1>4, SetActiveSound, EnableSound, DisableSound
       DEF Read, ReadConfig, PostEnable, PostDisable, PostActive
  <2>2. UNCHANGED <<probed, agent, call>>
    BY <1>4 DEF Read, ReadConfig, PostEnable, PostDisable, PostActive
  <2> QED
    BY <2>1, <2>2 DEF ProviderInv, TypeOK, Sound, AgentAgrees, CallAgrees
<1>5. CASE ProbeEnd
  <2>1. probed.provider \in Provider
    BY <1>5 DEF ProbeEnd, ProviderInv, TypeOK, Choice
  <2>2. Sound(m')
    BY <1>1, <1>5, <2>1, SucceededSound, FailedSound DEF ProbeEnd
  <2> QED
    BY <1>5, <2>2 DEF ProbeEnd, ProviderInv, TypeOK, Sound, AgentAgrees, CallAgrees
<1>6. ASSUME NEW p \in Provider, ProbeHealth(p) \/ \E u \in User : ProbeKey(p, u)
      PROVE  ProviderInv'
  <2>1. Sound(m') /\ probed' \in Choice \cup {None} /\ UNCHANGED <<agent, call>>
    BY <1>2, <1>3, <1>6 DEF ProbeHealth, ProbeKey
  <2> QED
    BY <2>1 DEF ProviderInv, TypeOK, Sound, AgentAgrees, CallAgrees
<1>7. ASSUME NEW p \in Provider, NEW u \in User, TestConnection(p, u)
      PROVE  ProviderInv'
  <2>1. Sound(m')
    BY <1>2, <1>7, InstantiatedSound DEF TestConnection
  <2> QED
    BY <1>7, <2>1 DEF TestConnection, ProviderInv, TypeOK, Sound, AgentAgrees, CallAgrees
<1> QED
  BY <1>4, <1>5, <1>6, <1>7 DEF Endpoint

\* What agent a has become; the others stay.
LEMMA AgentBecomes ==
  ASSUME ProviderInv, NEW a \in Agent, NEW w, NEW i, Becomes(a, w, i), [at |-> w, inst |-> i] \in AgentState,
         w \in {"taking", "building", "ready"} => i \in Choice,
         w = "ready" => Usable(i.provider, i.by),
         Sound(m'), UNCHANGED <<probed, call>>
  PROVE  ProviderInv'
<1>1. PICK s : s = [at |-> w, inst |-> i]
  OBVIOUS
<1>2. s \in AgentState /\ s.at = w /\ s.inst = i /\ agent' = [agent EXCEPT ![a] = s]
  BY <1>1 DEF Becomes
<1>3. TypeOK'
  BY <1>2 DEF ProviderInv, TypeOK, Sound
<1>4. \A b \in Agent : AgentAgrees(b)'
  <2>1. \A b \in Agent : agent'[b] = IF b = a THEN s ELSE agent[b]
    BY <1>2 DEF ProviderInv, TypeOK
  <2> QED
    BY <1>2, <2>1 DEF ProviderInv, AgentAgrees
<1>5. \A c \in Caller : CallAgrees(c)'
  BY DEF ProviderInv, CallAgrees
<1> QED
  BY <1>3, <1>4, <1>5 DEF ProviderInv

LEMMA FactoryIsUsable ==
  ASSUME NEW u \in User
  PROVE  /\ FromFactory(u) \in Choice
         /\ Usable(FromFactory(u).provider, FromFactory(u).by)
<1>1. PICK p : p = IF Usable(Preferred[u], u) THEN Preferred[u] ELSE Local
  OBVIOUS
<1>2. p \in Provider /\ Usable(p, u)
  BY <1>1, LocalIsUsable, NamesAssumption
<1>3. FromFactory(u) = [provider |-> p, by |-> u]
  BY <1>1 DEF FromFactory, Made
<1> QED
  BY <1>2, <1>3 DEF Choice

LEMMA ReadyKeeps ==
  ASSUME ProviderInv, NEW a \in Agent, NEW i \in Choice, Usable(i.provider, i.by),
         Becomes(a, "ready", i), Sound(m'), UNCHANGED <<probed, call>>
  PROVE  ProviderInv'
<1>1. [at |-> "ready", inst |-> i] \in AgentState
  BY DEF AgentState
<1> QED
  BY <1>1, AgentBecomes

LEMMA UnwrapKeeps ==
  ASSUME ProviderInv, NEW a \in Agent, NEW i \in Choice, Unwrap(a, i),
         Sound(m'), UNCHANGED <<probed, call>>
  PROVE  ProviderInv'
<1>1. Owner[a] \in User
  BY NamesAssumption
<1>2. CASE Usable(i.provider, i.by)
  <2>1. Becomes(a, "ready", i)
    BY <1>2 DEF Unwrap
  <2> QED
    BY <1>2, <2>1, ReadyKeeps
<1>3. CASE ~Usable(i.provider, i.by)
  <2>1. Becomes(a, "ready", FromFactory(Owner[a]))
    BY <1>3 DEF Unwrap
  <2> QED
    BY <1>1, <2>1, FactoryIsUsable, ReadyKeeps
<1> QED
  BY <1>2, <1>3

LEMMA AgentKeeps ==
  ASSUME ProviderInv, NEW a \in Agent, AgentStep(a)
  PROVE  ProviderInv'
<1>1. /\ Sound(m) /\ agent[a] \in AgentState /\ AgentAgrees(a) /\ Owner[a] \in User
      /\ m.settings \in User /\ m.active \in Provider /\ m.cached \in [Provider -> User \cup {None}]
  BY ManagerIs, NamesAssumption DEF ProviderInv, TypeOK, Sound
<1>2. CASE Manage(a)
  <2>1. [at |-> "managed", inst |-> None] \in AgentState
    BY DEF AgentState
  <2>2. Sound(m')
    BY <1>1, <1>2, GetManagerSound DEF Manage
  <2> QED
    BY <1>2, <2>1, <2>2, AgentBecomes DEF Manage
<1>3. CASE Look(a)
  <2>1. Sound(m') /\ UNCHANGED <<probed, call>>
    BY <1>1, <1>3 DEF Look
  <2>2. CASE m.active \notin m.enabled
    <3>1. Becomes(a, "ready", FromFactory(Owner[a]))
      BY <1>3, <2>2 DEF Look
    <3> QED
      BY <1>1, <2>1, <3>1, FactoryIsUsable, ReadyKeeps
  <2>3. CASE m.active \in m.enabled /\ m.cached[m.active] # None
    <3>1. PICK i : i = Made(m.active, m.cached[m.active])
      OBVIOUS
    <3>2. i \in Choice
      BY <1>1, <2>3, <3>1 DEF Choice, Made
    <3>3. Becomes(a, "taking", i) /\ [at |-> "taking", inst |-> i] \in AgentState
      BY <1>3, <2>3, <3>1, <3>2 DEF Look, AgentState
    <3> QED
      BY <2>1, <3>2, <3>3, AgentBecomes
  <2>4. CASE m.active \in m.enabled /\ m.cached[m.active] = None
    <3>1. PICK i : i = Made(m.active, m.settings)
      OBVIOUS
    <3>2. i \in Choice
      BY <1>1, <3>1 DEF Choice, Made
    <3>3. Becomes(a, "building", i) /\ [at |-> "building", inst |-> i] \in AgentState
      BY <1>3, <2>4, <3>1, <3>2 DEF Look, AgentState
    <3> QED
      BY <2>1, <3>2, <3>3, AgentBecomes
  <2> QED
    BY <2>2, <2>3, <2>4
<1>4. CASE Index(a)
  <2>1. PICK p : p = agent[a].inst.provider
    OBVIOUS
  <2>2. p \in Provider /\ Sound(m') /\ UNCHANGED <<probed, call>>
    BY <1>1, <1>4, <2>1 DEF Index, AgentAgrees, Choice
  <2>3. CASE m.cached[p] # None
    <3>1. Made(p, m.cached[p]) \in Choice
      BY <1>1, <2>2, <2>3 DEF Made, Choice
    <3>2. Unwrap(a, Made(p, m.cached[p]))
      BY <1>4, <2>1, <2>3 DEF Index
    <3> QED
      BY <2>2, <3>1, <3>2, UnwrapKeeps
  <2>4. CASE m.cached[p] = None
    <3>1. Becomes(a, "ready", FromFactory(Owner[a]))
      BY <1>4, <2>1, <2>4 DEF Index
    <3> QED
      BY <1>1, <2>2, <3>1, FactoryIsUsable, ReadyKeeps
  <2> QED
    BY <2>3, <2>4
<1>5. CASE Build(a)
  <2>1. agent[a].inst \in Choice /\ Unwrap(a, agent[a].inst) /\ UNCHANGED <<probed, call>>
    BY <1>1, <1>5 DEF Build, AgentAgrees
  <2>2. Sound(m')
    BY <1>1, <1>5, <2>1, KeptSound DEF Build
  <2> QED
    BY <2>1, <2>2, UnwrapKeeps
<1> QED
  BY <1>2, <1>3, <1>4, <1>5 DEF AgentStep

\* What call c has become; the others stay.
LEMMA CallBecomes ==
  ASSUME ProviderInv, NEW c \in Caller, NEW s \in CallState, call' = [call EXCEPT ![c] = s],
         s.at \in {"taking", "building", "running"} => s.inst \in Choice,
         FallbackList = <<>> =>
           /\ s.at \in {"loop", "running"} => s.met \/ Local \in Names(s.rest)
           /\ s.at \in {"taking", "building"} =>
                s.met \/ s.inst.provider = Local \/ Local \in Names(s.rest)
           /\ s.at = "raised" => s.met \/ s.popped,
         Sound(m'), UNCHANGED <<probed, agent>>
  PROVE  ProviderInv'
<1>1. TypeOK'
  BY DEF ProviderInv, TypeOK, Sound
<1>2. \A d \in Caller : CallAgrees(d)'
  <2>1. \A d \in Caller : call'[d] = IF d = c THEN s ELSE call[d]
    BY DEF ProviderInv, TypeOK
  <2> QED
    BY <2>1 DEF ProviderInv, CallAgrees
<1>3. \A a \in Agent : AgentAgrees(a)'
  BY DEF ProviderInv, AgentAgrees
<1> QED
  BY <1>1, <1>2, <1>3 DEF ProviderInv

\* Once get_instance has answered, local is called or was passed before.
LEMMA InvokeKeeps ==
  ASSUME ProviderInv, NEW c \in Caller, call[c].at \in {"taking", "building"}, NEW i \in Choice,
         i.provider = call[c].inst.provider, Invoke(c, i), Sound(m'), UNCHANGED <<probed, agent>>
  PROVE  ProviderInv'
<1>1. CallAgrees(c) /\ call[c] \in CallState /\ call[c].met \in BOOLEAN
  BY DEF ProviderInv, TypeOK, CallState
<1>2. CASE call' = [call EXCEPT ![c] = [call[c] EXCEPT !.at = "running", !.inst = i,
                                          !.met = @ \/ i.provider = Local]]
  <2>1. PICK met \in BOOLEAN : met = (call[c].met \/ i.provider = Local)
    BY <1>1
  <2>2. PICK s : s = [call[c] EXCEPT !.at = "running", !.inst = i, !.met = met]
    OBVIOUS
  <2>3. s \in CallState /\ s.at = "running" /\ s.inst = i /\ s.met = met /\ s.rest = call[c].rest
    BY <1>1, <2>1, <2>2 DEF CallState
  <2>4. FallbackList = <<>> => s.met \/ Local \in Names(s.rest)
    BY <1>1, <2>1, <2>3 DEF CallAgrees
  <2>5. call' = [call EXCEPT ![c] = s]
    BY <1>2, <2>1, <2>2
  <2> QED
    BY <2>3, <2>4, <2>5, CallBecomes
<1>3. CASE /\ i.provider # Local
           /\ call' = [call EXCEPT ![c] = [call[c] EXCEPT !.at = "loop", !.inst = None]]
  <2>1. PICK s : s = [call[c] EXCEPT !.at = "loop", !.inst = None]
    OBVIOUS
  <2>2. s \in CallState /\ s.at = "loop" /\ s.met = call[c].met /\ s.rest = call[c].rest
    BY <1>1, <2>1 DEF CallState
  <2>3. FallbackList = <<>> => s.met \/ Local \in Names(s.rest)
    BY <1>1, <1>3, <2>2 DEF CallAgrees
  <2>4. call' = [call EXCEPT ![c] = s]
    BY <1>3, <2>1
  <2> QED
    BY <2>2, <2>3, <2>4, CallBecomes
<1>4. \/ call' = [call EXCEPT ![c] = [call[c] EXCEPT !.at = "running", !.inst = i,
                                          !.met = @ \/ i.provider = Local]]
      \/ /\ i.provider # Local
         /\ call' = [call EXCEPT ![c] = [call[c] EXCEPT !.at = "loop", !.inst = None]]
  BY DEF Invoke
<1> QED
  BY <1>2, <1>3, <1>4

LEMMA CallKeeps ==
  ASSUME ProviderInv, NEW c \in Caller, CallStep(c)
  PROVE  ProviderInv'
<1>1. /\ Sound(m) /\ CallAgrees(c) /\ call[c] \in CallState /\ m.chain \in Seq(Provider)
      /\ call[c].rest \in Seq(Provider) /\ call[c].met \in BOOLEAN
      /\ m.cached \in [Provider -> User \cup {None}] /\ m.settings \in User
  BY ManagerIs DEF ProviderInv, TypeOK, Sound, CallState
<1>2. CASE Start(c)
  <2>1. PICK mg : mg = IF m.chain = <<>> THEN Rebuilt(m) ELSE m
    OBVIOUS
  <2>2. Sound(mg) /\ (FallbackList = <<>> => Local \in Names(mg.chain))
    BY <1>1, <2>1, RebuiltSound, AutoChainNets DEF Sound, ChainNets
  <2>3. PICK s : s = [call[c] EXCEPT !.at = "loop", !.rest = mg.chain]
    OBVIOUS
  <2>4. s \in CallState /\ s.at = "loop" /\ s.rest = mg.chain
    BY <1>1, <2>2, <2>3, ManagerIs DEF CallState, Sound
  <2>5. m' = mg /\ call' = [call EXCEPT ![c] = s] /\ UNCHANGED <<probed, agent>>
    BY <1>2, <2>1, <2>3 DEF Start
  <2> QED
    BY <2>2, <2>4, <2>5, CallBecomes
<1>3. CASE Try(c)
  <2>1. PICK p : p = Head(call[c].rest)
    OBVIOUS
  <2>2. /\ p \in Provider /\ Tail(call[c].rest) \in Seq(Provider)
        /\ \A q \in Names(call[c].rest) : q = p \/ q \in Names(Tail(call[c].rest))
    BY <1>1, <1>3, <2>1, HeadOrTail DEF Try
  <2>3. PICK next : next = [call[c] EXCEPT !.rest = Tail(@)]
    OBVIOUS
  <2>4. /\ next \in CallState /\ next.at = "loop" /\ next.rest = Tail(call[c].rest)
        /\ next.met = call[c].met
        /\ FallbackList = <<>> => next.met \/ p = Local \/ Local \in Names(next.rest)
    BY <1>1, <1>3, <2>2, <2>3 DEF Try, CallState, CallAgrees
  <2>5. Sound(m') /\ UNCHANGED <<probed, agent>>
    BY <1>1, <1>3 DEF Try
  <2>6. CASE p \notin m.enabled
    <3>1. PICK met \in BOOLEAN : met = (next.met \/ p = Local)
      BY <1>1, <2>4
    <3>2. PICK s : s = [next EXCEPT !.met = met]
      OBVIOUS
    <3>3. s \in CallState /\ s.at = "loop" /\ s.rest = next.rest /\ s.met = met
      BY <2>4, <3>1, <3>2 DEF CallState
    <3>4. call' = [call EXCEPT ![c] = s]
      BY <1>3, <2>1, <2>3, <2>6, <3>1, <3>2 DEF Try
    <3> QED
      BY <2>4, <2>5, <3>1, <3>3, <3>4, CallBecomes
  <2>7. CASE p \in m.enabled
    <3>1. PICK w \in {"taking", "building"} : w = IF m.cached[p] # None THEN "taking" ELSE "building"
      OBVIOUS
    <3>2. PICK u \in User : u = IF m.cached[p] # None THEN m.cached[p] ELSE m.settings
      BY <1>1, <2>2
    <3>3. PICK s : s = [next EXCEPT !.at = w, !.inst = Made(p, u)]
      OBVIOUS
    <3>4. Made(p, u) \in Choice /\ Made(p, u).provider = p
      BY <2>2 DEF Made, Choice
    <3>5. s \in CallState /\ s.at = w /\ s.rest = next.rest /\ s.met = next.met /\ s.inst = Made(p, u)
      BY <2>4, <3>3, <3>4 DEF CallState
    <3>6. call' = [call EXCEPT ![c] = s]
      BY <1>3, <2>1, <2>3, <2>7, <3>1, <3>2, <3>3 DEF Try
    <3> QED
      BY <2>4, <2>5, <3>4, <3>5, <3>6, CallBecomes
  <2> QED
    BY <2>6, <2>7
<1>4. CASE Fetch(c)
  <2>1. PICK p : p = call[c].inst.provider
    OBVIOUS
  <2>2. p \in Provider /\ Sound(m') /\ UNCHANGED <<probed, agent>>
    BY <1>1, <1>4, <2>1 DEF Fetch, CallAgrees, Choice
  <2>3. CASE m.cached[p] # None
    <3>1. PICK i : i = Made(p, m.cached[p])
      OBVIOUS
    <3>2. i \in Choice /\ i.provider = p /\ Invoke(c, i)
      BY <1>1, <1>4, <2>1, <2>2, <2>3, <3>1 DEF Fetch, Made, Choice
    <3> QED
      BY <1>4, <2>1, <2>2, <3>2, InvokeKeeps DEF Fetch
  <2>4. CASE m.cached[p] = None
    <3>1. PICK s : s = [call[c] EXCEPT !.at = "raised", !.inst = None, !.popped = TRUE]
      OBVIOUS
    <3>2. s \in CallState /\ s.at = "raised" /\ s.popped
      BY <1>1, <3>1 DEF CallState
    <3>3. call' = [call EXCEPT ![c] = s]
      BY <1>4, <2>1, <2>4, <3>1 DEF Fetch
    <3> QED
      BY <2>2, <3>2, <3>3, CallBecomes
  <2> QED
    BY <2>3, <2>4
<1>5. CASE Construct(c)
  <2>1. PICK i : i = call[c].inst
    OBVIOUS
  <2>2. i \in Choice /\ i.provider \in Provider /\ UNCHANGED <<probed, agent>> /\ m' = Kept(m, i)
    BY <1>1, <1>5, <2>1 DEF Construct, CallAgrees, Choice
  <2>3. Sound(m')
    BY <1>1, <2>2, KeptSound
  <2>4. CASE Constructs(i.provider, i.by)
    <3>1. Invoke(c, i)
      BY <1>5, <2>1, <2>4 DEF Construct
    <3> QED
      BY <1>5, <2>1, <2>2, <2>3, <3>1, InvokeKeeps DEF Construct
  <2>5. CASE ~Constructs(i.provider, i.by)
    <3>1. PICK s : s = [call[c] EXCEPT !.at = "loop", !.inst = None]
      OBVIOUS
    <3>2. s \in CallState /\ s.at = "loop" /\ s.met = call[c].met /\ s.rest = call[c].rest
      BY <1>1, <3>1 DEF CallState
    <3>3. i.provider # Local
      BY <2>5, LocalIsUsable DEF Constructs
    <3>4. FallbackList = <<>> => s.met \/ Local \in Names(s.rest)
      BY <1>1, <1>5, <2>1, <3>2, <3>3 DEF Construct, CallAgrees
    <3>5. call' = [call EXCEPT ![c] = s]
      BY <1>5, <2>1, <2>5, <3>1 DEF Construct
    <3> QED
      BY <2>2, <2>3, <3>2, <3>4, <3>5, CallBecomes
  <2> QED
    BY <2>4, <2>5
<1>6. CASE Return(c)
  <2>1. PICK s : s = [call[c] EXCEPT !.at = "returned", !.rest = <<>>, !.inst = None, !.met = FALSE]
    OBVIOUS
  <2>2. s \in CallState /\ s.at = "returned"
    BY <1>1, <2>1, EmptySeq DEF CallState
  <2>3. Sound(m')
    BY <1>1, <1>6, PromotedSound DEF Return, CallAgrees, Choice
  <2>4. call' = [call EXCEPT ![c] = s] /\ UNCHANGED <<probed, agent>>
    BY <1>6, <2>1 DEF Return
  <2> QED
    BY <2>2, <2>3, <2>4, CallBecomes
<1>7. CASE FallBack(c)
  <2>1. PICK s : s = [call[c] EXCEPT !.at = "loop", !.inst = None]
    OBVIOUS
  <2>2. s \in CallState /\ s.at = "loop" /\ s.rest = call[c].rest /\ s.met = call[c].met
    BY <1>1, <2>1 DEF CallState
  <2>3. Sound(m')
    BY <1>1, <1>7, FailedSound DEF FallBack, CallAgrees, Choice
  <2>4. FallbackList = <<>> => s.met \/ Local \in Names(s.rest)
    BY <1>1, <1>7, <2>2 DEF FallBack, CallAgrees
  <2>5. call' = [call EXCEPT ![c] = s] /\ UNCHANGED <<probed, agent>>
    BY <1>7, <2>1 DEF FallBack
  <2> QED
    BY <2>2, <2>3, <2>4, <2>5, CallBecomes
<1>8. CASE GiveUp(c)
  <2>1. PICK s : s = [call[c] EXCEPT !.at = "raised"]
    OBVIOUS
  <2>2. s \in CallState /\ s.at = "raised" /\ s.met = call[c].met
    BY <1>1, <2>1 DEF CallState
  <2>3. FallbackList = <<>> => s.met
    BY <1>1, <1>8, <2>2, EmptyHasNone DEF GiveUp, CallAgrees
  <2>4. Sound(m') /\ call' = [call EXCEPT ![c] = s] /\ UNCHANGED <<probed, agent>>
    BY <1>1, <1>8, <2>1 DEF GiveUp
  <2> QED
    BY <2>2, <2>3, <2>4, CallBecomes
<1> QED
  BY <1>2, <1>3, <1>4, <1>5, <1>6, <1>7, <1>8 DEF CallStep

LEMMA ProviderInvHolds == Spec => []ProviderInv
<1>1. ProviderInv /\ [Next]_vars => ProviderInv'
  <2> SUFFICES ASSUME ProviderInv, [Next]_vars
               PROVE  ProviderInv'
    OBVIOUS
  <2>1. CASE UNCHANGED vars
    BY <2>1 DEF vars, ProviderInv, TypeOK, AgentAgrees, CallAgrees
  <2> QED
    BY <2>1, EndpointKeeps, AgentKeeps, CallKeeps DEF Next
<1> QED
  BY <1>1, ProviderInit, PTL DEF Spec

(* The manager's records, the agents and the calls keep their types for any     *)
(* providers, thresholds and settings, and however many agents and calls.      *)
THEOREM ProvidersTypeCorrect == Spec => []TypeOK
<1>1. ProviderInv => TypeOK
  BY DEF ProviderInv
<1> QED
  BY <1>1, ProviderInvHolds, PTL

(* ProviderManager.call raises without having met local only under an order of  *)
(* the operator's, or by the KeyError of an instance dropped between its look  *)
(* at the cache and its index, whatever endpoints, agents and other calls do   *)
(* to the manager between its steps.                                           *)
THEOREM LocalIsTheNet == Spec => []SafetyNet
<1>1. ProviderInv => SafetyNet
  BY DEF ProviderInv, SafetyNet, CallAgrees
<1> QED
  BY <1>1, ProviderInvHolds, PTL

(* No agent is left with a provider whose key is missing, although the manager *)
(* changes between the steps of _select_provider, instances are made with the  *)
(* settings of whoever asked last, and a lenient adapter without a key is kept *)
(* like any other.                                                             *)
THEOREM ChoicesAreUsable == Spec => []ChosenIsUsable
<1>1. ProviderInv => ChosenIsUsable
  BY DEF ProviderInv, ChosenIsUsable, AgentAgrees
<1> QED
  BY <1>1, ProviderInvHolds, PTL

------------------------------------------------------------------------------
(* What a call of JulesProvider leaves behind and returns.  Calls do not touch  *)
(* each other's state, so the invariant is one of a single call, in three      *)
(* parts: the sessions it has asked for, the session it knows, and its         *)
(* requests after the deadline.                                                *)

\* While a call creates its session, every earlier attempt may still make one.
Asked(c) ==
  /\ at[c] = "idle" => Len(remote[c]) + creates[c] = 0
  /\ at[c] = "create" => Len(remote[c]) + creates[c] <= attempt[c]
  /\ Len(remote[c]) + creates[c] <= MaxRetries + 1

\* A call that polls knows one of its sessions; one that collects saw it end.
Knows(c) ==
  /\ at[c] \in Polling \cup {"edits", "text", "returned"}
       => own[c] \in DOMAIN remote[c]
  /\ at[c] \in {"edits", "text", "returned"} => Known(c) \in Terminal

\* How many requests each place can have seen since the deadline passed.
Delayed(c) ==
  /\ c \notin expired => late[c] = 0
  /\ at[c] \in {"idle", "create"} => c \notin expired
  /\ at[c] = "get" => late[c] <= attempt[c]
  /\ at[c] \in {"approve", "edits"} => late[c] <= MaxRetries + 1 + attempt[c]
  /\ at[c] = "sleep" => late[c] <= 2 * MaxRetries + 1
  /\ at[c] = "text" => late[c] <= 2 * MaxRetries + 2 + attempt[c]
  /\ late[c] <= 3 * MaxRetries + 2

JulesInv == JulesTypeOK /\ \A c \in Call : Asked(c) /\ Knows(c) /\ Delayed(c)

------------------------------------------------------------------------------
(* Places and requests *)

LEMMA Places ==
  /\ Requesting \subseteq Place /\ Ended \subseteq Place /\ "sleep" \in Place
  /\ \A c, s : AfterPoll(c, s) \in {"approve", "edits", "text", "sleep"}
BY DEF Place, Requesting, Ended, AfterPoll

\* Goto, Again and Fail keep the types of what they change.
LEMMA GotoTyped ==
  ASSUME JulesTypeOK, NEW c \in Call, NEW p \in Place, Goto(c, p)
  PROVE  /\ at' \in [Call -> Place] /\ attempt' \in [Call -> 0..MaxRetries]
         /\ late' \in [Call -> Nat]
<1>1. at' \in [Call -> Place] /\ attempt' \in [Call -> 0..MaxRetries]
  BY RetriesAssumption DEF Goto, JulesTypeOK
<1>2. late' \in [Call -> Nat]
  BY DEF Goto, CountLate, JulesTypeOK
<1>3. QED
  BY <1>1, <1>2

LEMMA LostTyped ==
  ASSUME JulesTypeOK, NEW c \in Call, Lost(c)
  PROVE  /\ at' \in [Call -> Place] /\ attempt' \in [Call -> 0..MaxRetries]
         /\ late' \in [Call -> Nat]
<1>1. CASE MayRetry(c)
  <2>1. attempt[c] + 1 \in 0..MaxRetries
    BY <1>1, RetriesAssumption DEF MayRetry, JulesTypeOK
  <2>2. Again(c)
    BY <1>1 DEF Lost
  <2>3. attempt' \in [Call -> 0..MaxRetries] /\ at' \in [Call -> Place]
    BY <2>1, <2>2 DEF Again, JulesTypeOK
  <2>4. late' \in [Call -> Nat]
    BY <2>2 DEF Again, CountLate, JulesTypeOK
  <2>5. QED
    BY <2>3, <2>4
<1>2. CASE ~MayRetry(c)
  <2>1. \E p \in Place : Goto(c, p)
    BY <1>2, Places DEF Lost, Fail, Place, Ended
  <2>2. QED
    BY <2>1, GotoTyped
<1>3. QED
  BY <1>1, <1>2

\* What a request changes at the server keeps its type.
LEMMA ServedTyped ==
  ASSUME JulesTypeOK, NEW c \in Call
  PROVE  /\ Opened(c) \in [Call -> Seq(State)]
         /\ PlanApproved(c) \in [Call -> Seq(State)]
<1>1. remote[c] \in Seq(State) /\ remote \in [Call -> Seq(State)]
  BY DEF JulesTypeOK
<1>2. Append(remote[c], "planning") \in Seq(State)
  BY <1>1 DEF State
<1>3. PlanApproved(c) \in [Call -> Seq(State)]
  <2>1. CASE own[c] \in DOMAIN remote[c]
    <3>1. [remote[c] EXCEPT ![own[c]] = "working"] \in Seq(State)
      BY <1>1, <2>1, ExceptSeq, LenProperties DEF State
    <3>2. QED
      BY <1>1, <3>1 DEF PlanApproved
  <2>2. CASE own[c] \notin DOMAIN remote[c]
    BY <1>1, <2>2 DEF PlanApproved
  <2>3. QED
    BY <2>1, <2>2
<1>4. QED
  BY <1>1, <1>2, <1>3 DEF Opened

\* The sessions of c after r, in place of before: none is lost, none revives.
Extends(c, r, n) ==
  /\ Len(r[c]) = Len(remote[c]) + n
  /\ \A i \in DOMAIN remote[c] :
       i \in DOMAIN r[c] /\ (remote[c][i] \in Terminal => r[c][i] = remote[c][i])
  /\ \A d \in Call \ {c} : r[d] = remote[d]

LEMMA OpenedExtends ==
  ASSUME JulesTypeOK, NEW c \in Call
  PROVE  Extends(c, Opened(c), 1)
<1>1. remote[c] \in Seq(State) /\ "planning" \in State
  BY DEF JulesTypeOK, State
<1>2. Opened(c)[c] = Append(remote[c], "planning")
  BY DEF Opened, JulesTypeOK
<1>3. \A d \in Call \ {c} : Opened(c)[d] = remote[d]
  BY DEF Opened, JulesTypeOK
<1>4. QED
  BY <1>1, <1>2, <1>3, AppendProperties, LenProperties DEF Extends

\* A single session changes its state.
LEMMA ChangeExtends ==
  ASSUME JulesTypeOK, NEW c \in Call, NEW i \in DOMAIN remote[c], NEW s \in State,
         remote[c][i] \notin Terminal
  PROVE  LET r == [remote EXCEPT ![c][i] = s]
         IN  r \in [Call -> Seq(State)] /\ Extends(c, r, 0)
<1> DEFINE q == [remote[c] EXCEPT ![i] = s]
           r == [remote EXCEPT ![c] = q]
<1>1. remote[c] \in Seq(State) /\ i \in 1..Len(remote[c])
  BY LenProperties DEF JulesTypeOK
<1>2. /\ q \in Seq(State) /\ Len(q) = Len(remote[c])
      /\ \A j \in 1..Len(remote[c]) : q[j] = IF j = i THEN s ELSE remote[c][j]
  BY <1>1, ExceptSeq
<1> HIDE DEF q
<1>3. r \in [Call -> Seq(State)] /\ r[c] = q
      /\ \A d \in Call \ {c} : r[d] = remote[d]
  BY <1>2 DEF JulesTypeOK
<1> HIDE DEF r
<1>4. Len(r[c]) = Len(remote[c]) + 0
  BY <1>1, <1>2, <1>3, LenProperties
<1>5. DOMAIN r[c] = DOMAIN remote[c] /\ DOMAIN remote[c] = 1..Len(remote[c])
  BY <1>1, <1>2, <1>3, LenProperties
<1>6. \A j \in DOMAIN remote[c] :
        remote[c][j] \in Terminal => r[c][j] = remote[c][j]
  BY <1>2, <1>3, <1>5
<1>7. Extends(c, r, 0)
  BY <1>3, <1>4, <1>5, <1>6 DEF Extends
<1>8. QED
  BY <1>3, <1>7 DEF r, q

LEMMA SameExtends ==
  ASSUME JulesTypeOK, NEW c \in Call
  PROVE  Extends(c, remote, 0)
BY LenProperties DEF Extends, JulesTypeOK

LEMMA ApprovedExtends ==
  ASSUME JulesTypeOK, NEW c \in Call
  PROVE  Extends(c, PlanApproved(c), 0)
<1>1. CASE own[c] \in DOMAIN remote[c] /\ Known(c) = "awaiting"
  <2>1. Known(c) \notin Terminal /\ "working" \in State
    BY <1>1 DEF Terminal, State
  <2>2. QED
    BY <1>1, <2>1, ChangeExtends DEF PlanApproved, Known
<1>2. CASE ~(own[c] \in DOMAIN remote[c] /\ Known(c) = "awaiting")
  BY <1>2, SameExtends DEF PlanApproved
<1>3. QED
  BY <1>1, <1>2

------------------------------------------------------------------------------
(* Every step keeps the types *)

LEMMA TypeKept ==
  ASSUME JulesTypeOK, [JulesNext]_julesVars
  PROVE  JulesTypeOK'
<1>1. ASSUME NEW c \in Call, Begin(c)
      PROVE  JulesTypeOK'
  BY <1>1, Places DEF Begin, serverVars, Requesting, JulesTypeOK
<1>2. ASSUME NEW c \in Call, Lost(c)
      PROVE  JulesTypeOK'
  <2>1. creates' \in [Call -> Nat] /\ approvals' \subseteq Call
    BY <1>2 DEF Lost, JulesTypeOK
  <2>2. QED
    BY <1>2, <2>1, LostTyped DEF Lost, JulesTypeOK
<1>3. ASSUME NEW c \in Call, NEW p \in Place, Goto(c, p),
             UNCHANGED <<editing, expired, creates, approvals>>,
             own' \in [Call -> Nat], remote' \in [Call -> Seq(State)]
      PROVE  JulesTypeOK'
  BY <1>3, GotoTyped DEF JulesTypeOK
<1>4. ASSUME NEW c \in Call, Refused(c) \/ Got(c) \/ Wake(c) \/ Collected(c)
      PROVE  JulesTypeOK'
  <2>1. PICK p \in Place : Goto(c, p)
    BY <1>4, Places
    DEF Refused, Fail, Got, Wake, Collected, Place, Requesting, Ended
  <2>2. QED
    BY <1>3, <1>4, <2>1
    DEF Refused, Got, Wake, Collected, serverVars, JulesTypeOK
<1>5. ASSUME NEW c \in Call, Garbled(c) \/ Approved(c)
      PROVE  JulesTypeOK'
  <2>1. PICK p \in Place : Goto(c, p)
    BY <1>5, Places DEF Garbled, Approved, Ended
  <2>2. remote' \in {Opened(c), PlanApproved(c), remote}
    BY <1>5 DEF Garbled, Approved
  <2>3. remote' \in [Call -> Seq(State)]
    BY <2>2, ServedTyped DEF JulesTypeOK
  <2>4. QED
    BY <1>3, <1>5, <2>1, <2>3 DEF Garbled, Approved, JulesTypeOK
<1>6. ASSUME NEW c \in Call, Created(c)
      PROVE  JulesTypeOK'
  <2>1. Goto(c, "get") /\ "get" \in Place
    BY <1>6, Places DEF Created, Requesting
  <2>2. own' \in [Call -> Nat]
    BY <1>6, LenProperties DEF Created, JulesTypeOK
  <2>3. QED
    BY <1>3, <1>6, <2>1, <2>2, ServedTyped DEF Created
<1>7. ASSUME NEW c \in Call, Expire(c)
      PROVE  JulesTypeOK'
  BY <1>7 DEF Expire, placeVars, serverVars, JulesTypeOK
<1>8. ASSUME NEW c \in Call, Proceed(c)
      PROVE  JulesTypeOK'
  <2>1. PICK i \in DOMAIN remote[c] : \E s \in Follows(remote[c][i]) :
          remote' = [remote EXCEPT ![c][i] = s]
    BY <1>8 DEF Proceed
  <2>2. PICK s \in Follows(remote[c][i]) :
          remote' = [remote EXCEPT ![c][i] = s]
    BY <2>1
  <2>3. s \in State /\ remote[c][i] \notin Terminal
    BY <2>2 DEF Follows, State, Terminal
  <2>4. remote' \in [Call -> Seq(State)]
    BY <2>2, <2>3, ChangeExtends
  <2>5. QED
    BY <1>8, <2>4 DEF Proceed, placeVars, JulesTypeOK
<1>9. ASSUME NEW c \in Call, LateCreate(c)
      PROVE  JulesTypeOK'
  <2>1. creates' \in [Call -> Nat]
    <3>1. creates \in [Call -> Nat] /\ creates[c] - 1 \in Nat
      BY <1>9 DEF LateCreate, JulesTypeOK
    <3>2. creates' = [creates EXCEPT ![c] = creates[c] - 1]
      BY <1>9 DEF LateCreate
    <3> QED
      BY <3>1, <3>2
  <2>2. QED
    BY <1>9, <2>1, ServedTyped DEF LateCreate, placeVars, JulesTypeOK
<1>10. ASSUME NEW c \in Call, LateApproval(c)
       PROVE  JulesTypeOK'
  BY <1>10, ServedTyped DEF LateApproval, placeVars, JulesTypeOK
<1>11. CASE UNCHANGED julesVars
  BY <1>11 DEF julesVars, JulesTypeOK
<1>12. QED
  BY <1>1, <1>2, <1>4, <1>5, <1>6, <1>7, <1>8, <1>9, <1>10, <1>11
  DEF JulesNext, Step, ServerStep

------------------------------------------------------------------------------
(* Every step keeps the three parts *)

\* A call that a step does not touch.
Untouched(c) ==
  /\ at'[c] = at[c] /\ attempt'[c] = attempt[c] /\ own'[c] = own[c]
  /\ remote'[c] = remote[c] /\ creates'[c] = creates[c] /\ late'[c] = late[c]
  /\ c \in expired' <=> c \in expired

LEMMA UntouchedKeeps ==
  ASSUME NEW c \in Call, Asked(c), Knows(c), Delayed(c), Untouched(c)
  PROVE  Asked(c)' /\ Knows(c)' /\ Delayed(c)'
BY DEF Asked, Knows, Known, Delayed, Untouched

\* The places from which a call knows its session, or has seen it end.
Knowing == Polling \cup {"edits", "text", "returned"}
Seen == {"edits", "text", "returned"}

\* No request is added but what a lost one leaves on the wire.
LEMMA AskedKept ==
  ASSUME JulesTypeOK, NEW c \in Call, Asked(c),
         Len(remote'[c]) + creates'[c] = Len(remote[c]) + creates[c],
         \/ at'[c] = at[c] /\ attempt'[c] = attempt[c]
         \/ at'[c] \notin {"idle", "create"}
  PROVE  Asked(c)'
BY DEF Asked

\* A call that goes on at a place it may have come to keeps what it knows.
LEMMA KnowsKept ==
  ASSUME JulesTypeOK, NEW c \in Call, Knows(c), own'[c] = own[c],
         NEW n \in Nat, Extends(c, remote', n),
         at'[c] \in Knowing => at[c] \in Knowing,
         at'[c] \in Seen => at[c] \in Seen
  PROVE  Knows(c)'
<1>1. at'[c] \in Knowing => own'[c] \in DOMAIN remote'[c]
  BY DEF Knows, Knowing, Extends
<1>2. at'[c] \in Seen => remote'[c][own'[c]] \in Terminal
  BY DEF Knows, Knowing, Seen, Known, Extends
<1>3. QED
  BY <1>1, <1>2 DEF Knows, Knowing, Seen, Known

\* The server works for c: the call itself has not moved.
LEMMA ServerKeeps ==
  ASSUME JulesTypeOK, NEW c \in Call, Asked(c), Knows(c), Delayed(c), ServerStep(c)
  PROVE  Asked(c)' /\ Knows(c)' /\ Delayed(c)'
<1>1. UNCHANGED <<at, attempt, late, own, expired>>
  BY DEF ServerStep, Proceed, LateCreate, LateApproval, placeVars
<1>2. Delayed(c)'
  BY <1>1 DEF Delayed
<1>3. \E n \in {0, 1} : Extends(c, remote', n) /\ creates'[c] = creates[c] - n
  <2>1. CASE Proceed(c)
    <3>1. PICK i \in DOMAIN remote[c] : \E s \in Follows(remote[c][i]) :
            remote' = [remote EXCEPT ![c][i] = s]
      BY <2>1 DEF Proceed
    <3>2. PICK s \in Follows(remote[c][i]) :
            remote' = [remote EXCEPT ![c][i] = s]
      BY <3>1
    <3>3. s \in State /\ remote[c][i] \notin Terminal
      BY <3>2 DEF Follows, State, Terminal
    <3>4. Extends(c, remote', 0)
      BY <3>2, <3>3, ChangeExtends
    <3>5. QED
      BY <2>1, <3>4 DEF Proceed, JulesTypeOK
  <2>2. CASE LateCreate(c)
    BY <2>2, OpenedExtends DEF LateCreate, JulesTypeOK
  <2>3. CASE LateApproval(c)
    BY <2>3, ApprovedExtends DEF LateApproval, JulesTypeOK
  <2>4. QED
    BY <2>1, <2>2, <2>3 DEF ServerStep
<1>4. PICK n \in {0, 1} : Extends(c, remote', n) /\ creates'[c] = creates[c] - n
  BY <1>3
<1>5. Len(remote'[c]) + creates'[c] = Len(remote[c]) + creates[c]
  BY <1>4, LenProperties DEF Extends, JulesTypeOK
<1>6. Asked(c)' /\ Knows(c)'
  BY <1>1, <1>4, <1>5, AskedKept, KnowsKept
<1>7. QED
  BY <1>2, <1>6

\* A lost request of c: of the three places that change something, only the
\* creation adds to what may be made.
LEMMA LostKeeps ==
  ASSUME JulesTypeOK, NEW c \in Call, Asked(c), Knows(c), Delayed(c), Lost(c)
  PROVE  Asked(c)' /\ Knows(c)' /\ Delayed(c)'
<1>1. /\ at[c] \in Requesting /\ attempt[c] \in 0..MaxRetries
      /\ late[c] \in Nat /\ creates[c] \in Nat /\ Len(remote[c]) \in Nat
      /\ UNCHANGED <<own, expired, remote>>
  BY LenProperties DEF Lost, JulesTypeOK
<1>2. creates'[c] = IF at[c] = "create" THEN creates[c] + 1 ELSE creates[c]
  BY DEF Lost, JulesTypeOK
<1>3. CASE MayRetry(c)
  <2>1. /\ at' = at /\ attempt'[c] = attempt[c] + 1 /\ attempt[c] < MaxRetries
        /\ late'[c] = IF c \in expired THEN late[c] + 1 ELSE late[c]
    BY <1>3 DEF Lost, Again, CountLate, MayRetry, JulesTypeOK
  <2>2. Asked(c)'
    <3>1. PICK n \in Nat : n = Len(remote[c]) /\ n = Len(remote'[c])
      BY <1>1
    <3>2. at[c] # "idle" /\ at'[c] = at[c]
      BY <1>1, <2>1 DEF Requesting
    <3>3. ASSUME at[c] = "create"
          PROVE  n + creates'[c] <= attempt'[c] /\ n + creates'[c] <= MaxRetries + 1
      <4>1. n + creates[c] <= attempt[c]
        BY <3>1, <3>3 DEF Asked
      <4>2. PICK a \in Nat, k \in Nat : /\ a = attempt[c] /\ a < MaxRetries /\ k = creates[c]
                                        /\ attempt'[c] = a + 1 /\ creates'[c] = k + 1
        BY <1>1, <1>2, <2>1, <3>3
      <4>3. n + (k + 1) <= a + 1 /\ n + (k + 1) <= MaxRetries + 1
        BY <4>1, <4>2, RetriesAssumption
      <4> QED
        BY <4>2, <4>3
    <3>4. at[c] # "create" => n + creates'[c] <= MaxRetries + 1
      BY <1>1, <1>2, <3>1 DEF Asked
    <3> QED
      BY <3>1, <3>2, <3>3, <3>4 DEF Asked
  <2>3. Knows(c)'
    BY <1>1, <2>1 DEF Knows, Known
  <2>4. Delayed(c)'
    <3>1. CASE c \notin expired
      <4>1. late'[c] = 0 /\ attempt'[c] \in Nat /\ c \notin expired'
        BY <3>1, <1>1, <2>1 DEF Delayed
      <4>2. QED
        BY <4>1, RetriesAssumption DEF Delayed
    <3>2. CASE c \in expired /\ at[c] \in {"get", "approve", "edits"}
      <4>1. at'[c] = at[c] /\ (c \in expired' <=> c \in expired)
            /\ attempt'[c] = attempt[c] + 1 /\ late'[c] = late[c] + 1
        BY <3>2, <1>1, <2>1
      <4>2. CASE at[c] = "get"
        <5>1. late[c] <= attempt[c]
          BY <4>2 DEF Delayed
        <5>2. late'[c] <= attempt'[c] /\ late'[c] <= 3 * MaxRetries + 2
          BY <4>1, <5>1, <1>1, <2>1, RetriesAssumption
        <5> QED
          BY <4>1, <4>2, <3>2, <5>2 DEF Delayed
      <4>3. CASE at[c] \in {"approve", "edits"}
        <5>1. late[c] <= MaxRetries + 1 + attempt[c]
          BY <4>3 DEF Delayed
        <5>2. PICK a \in Nat, l \in Nat : /\ a = attempt[c] /\ a < MaxRetries /\ l = late[c]
                                          /\ attempt'[c] = a + 1 /\ late'[c] = l + 1
          BY <4>1, <1>1, <2>1
        <5>3. l + 1 <= MaxRetries + 1 + (a + 1) /\ l + 1 <= 3 * MaxRetries + 2
          BY <5>1, <5>2, RetriesAssumption
        <5>4. at'[c] \notin {"idle", "create", "get", "sleep", "text"}
          BY <4>1, <4>3
        <5> QED
          BY <4>1, <3>2, <5>2, <5>3, <5>4 DEF Delayed
      <4>4. QED
        BY <4>2, <4>3, <3>2
    <3>3. CASE c \in expired /\ at[c] = "text"
      <4>1. late[c] <= 2 * MaxRetries + 2 + attempt[c]
        BY <3>3 DEF Delayed
      <4>2. late'[c] <= 2 * MaxRetries + 2 + attempt'[c] /\ late'[c] <= 3 * MaxRetries + 2
        BY SMTT(30), <3>3, <4>1, <1>1, <2>1, RetriesAssumption
      <4> QED
        BY <3>3, <4>2, <1>1, <2>1 DEF Delayed
    <3>4. QED
      BY <3>1, <3>2, <3>3, <1>1 DEF Delayed, Requesting
  <2>5. QED
    BY <2>2, <2>3, <2>4
<1>4. CASE ~MayRetry(c)
  <2>1. /\ attempt[c] = MaxRetries /\ late' = late
        /\ at'[c] = IF at[c] = "approve" THEN "sleep" ELSE "raised"
    BY <1>1, <1>4, RetriesAssumption
    DEF Lost, Fail, Goto, MayRetry, Requesting, JulesTypeOK
  <2>2. Asked(c)'
    BY <1>1, <1>2, <2>1, RetriesAssumption DEF Asked
  <2>3. Knows(c)'
    BY <1>1, <2>1 DEF Knows, Known, Polling
  <2>4. Delayed(c)'
    BY <1>1, <2>1, RetriesAssumption DEF Delayed
  <2>5. QED
    BY <2>2, <2>3, <2>4
<1>5. QED
  BY <1>3, <1>4

\* A call goes from one place to the next.
LEMMA GotoMoves ==
  ASSUME JulesTypeOK, NEW c \in Call, NEW p \in Place, Goto(c, p)
  PROVE  /\ at'[c] = p /\ attempt'[c] = 0
         /\ late'[c] = IF p \in Requesting /\ c \in expired
                         THEN late[c] + 1 ELSE late[c]
BY DEF Goto, CountLate, JulesTypeOK

\* The steps that end a request of c, or its sleep, and may serve it.
LEMMA MoveKeeps ==
  ASSUME JulesTypeOK, NEW c \in Call, Asked(c), Knows(c), Delayed(c),
         Refused(c) \/ Garbled(c) \/ Got(c) \/ Approved(c) \/ Wake(c) \/ Collected(c)
  PROVE  Asked(c)' /\ Knows(c)' /\ Delayed(c)'
<1>1. /\ UNCHANGED <<own, expired, creates>>
      /\ attempt[c] \in 0..MaxRetries /\ late[c] \in Nat /\ creates[c] \in Nat
      /\ Len(remote[c]) \in Nat
  BY LenProperties
  DEF Refused, Garbled, Got, Approved, Wake, Collected, serverVars, JulesTypeOK
<1>2. \/ \E p \in {"sleep", "raised"} :
           /\ Goto(c, p)
           /\ p = "sleep" => at[c] = "approve"
      \/ \E p \in {"approve", "edits", "text", "sleep"} :
           /\ Goto(c, p)
           /\ at[c] = "get"
           /\ p \in Seen => Known(c) \in Terminal
      \/ /\ at[c] = "sleep" /\ c \notin expired
         /\ Goto(c, "get")
      \/ \E p \in {"text", "returned"} :
           /\ Goto(c, p)
           /\ at[c] = "edits" \/ (at[c] = "text" /\ p = "returned")
  <2>1. CASE Refused(c) \/ Garbled(c) \/ Approved(c)
    BY <2>1 DEF Refused, Garbled, Approved, Fail
  <2>2. CASE Got(c)
    BY <2>2 DEF Got, AfterPoll, Seen
  <2>3. CASE Wake(c) \/ Collected(c)
    BY <2>3 DEF Wake, Collected
  <2>4. QED
    BY <2>1, <2>2, <2>3
<1>3. Extends(c, remote', 0) \/ at'[c] = "raised"
  <2>1. remote' \in {remote, PlanApproved(c)} \/ Goto(c, "raised")
    BY DEF Refused, Garbled, Got, Approved, Wake, Collected, serverVars
  <2>2. QED
    BY <2>1, SameExtends, ApprovedExtends, GotoMoves, Places DEF Ended
<1>4. Asked(c)'
  <2>1. at'[c] \notin {"idle", "create"}
    BY <1>2, GotoMoves, Places DEF Place, Requesting, Ended
  <2>2. Len(remote'[c]) + creates'[c] <= MaxRetries + 1
    <3>1. CASE Extends(c, remote', 0)
      BY <3>1, <1>1 DEF Extends, Asked
    <3>2. CASE Garbled(c) /\ at[c] = "create"
      <4>1. Extends(c, remote', 1)
        BY <3>2, OpenedExtends DEF Garbled
      <4>2. QED
        BY <4>1, <3>2, <1>1, RetriesAssumption DEF Extends, Asked
    <3>3. CASE ~Garbled(c) \/ at[c] # "create"
      <4>1. remote' \in {remote, PlanApproved(c)}
        BY <3>3 DEF Refused, Garbled, Got, Approved, Wake, Collected, serverVars
      <4>2. QED
        BY <4>1, <3>1, SameExtends, ApprovedExtends
    <3>4. QED
      BY <3>2, <3>3
  <2>3. QED
    BY <2>1, <2>2 DEF Asked
<1>5. Knows(c)'
  <2>1. CASE at'[c] = "raised"
    BY <2>1 DEF Knows, Polling
  <2>2. CASE at'[c] # "raised"
    <3>1. Extends(c, remote', 0)
      BY <1>3, <2>2
    <3>2. at[c] \in Knowing
      BY <1>2, <2>2, GotoMoves, Places DEF Knowing, Polling, Place, Ended
    <3>3. own[c] \in DOMAIN remote[c]
      BY <3>2 DEF Knows, Knowing
    <3>4. own'[c] \in DOMAIN remote'[c]
      BY <1>1, <3>1, <3>3 DEF Extends
    <3>5. at'[c] \in Seen => Known(c) \in Terminal
      BY <1>2, GotoMoves, Places DEF Seen, Knows, Place, Requesting, Ended
    <3>6. at'[c] \in Seen => remote'[c][own'[c]] \in Terminal
      BY <1>1, <3>1, <3>3, <3>5 DEF Extends, Known
    <3>7. QED
      BY <3>4, <3>6 DEF Knows, Known, Seen
  <2>3. QED
    BY <2>1, <2>2
<1>6. Delayed(c)'
  <2>1. ASSUME NEW p \in {"sleep", "raised"}, Goto(c, p),
               p = "sleep" => at[c] = "approve"
        PROVE  Delayed(c)'
    <3>1. at'[c] = p /\ late'[c] = late[c]
      BY <2>1, GotoMoves, Places DEF Place, Requesting, Ended
    <3>2. QED
      BY <2>1, <3>1, <1>1, RetriesAssumption DEF Delayed
  <2>2. ASSUME NEW p \in {"approve", "edits", "text", "sleep"}, Goto(c, p),
               at[c] = "get"
        PROVE  Delayed(c)'
    <3>1. /\ at'[c] = p /\ attempt'[c] = 0
          /\ late'[c] \in {late[c], late[c] + 1}
          /\ c \notin expired => late'[c] = late[c]
          /\ p = "sleep" => late'[c] = late[c]
      BY <2>2, GotoMoves, Places DEF Place, Requesting
    <3>2. QED
      BY <2>2, <3>1, <1>1, RetriesAssumption DEF Delayed
  <2>3. ASSUME at[c] = "sleep", c \notin expired, Goto(c, "get")
        PROVE  Delayed(c)'
    <3>1. at'[c] = "get" /\ attempt'[c] = 0 /\ late'[c] = late[c]
      BY <2>3, GotoMoves, Places DEF Place, Requesting
    <3>2. QED
      BY <2>3, <3>1, <1>1, RetriesAssumption DEF Delayed
  <2>4. ASSUME NEW p \in {"text", "returned"}, Goto(c, p),
               at[c] = "edits" \/ (at[c] = "text" /\ p = "returned")
        PROVE  Delayed(c)'
    <3>1. /\ at'[c] = p /\ attempt'[c] = 0
          /\ late'[c] \in {late[c], late[c] + 1}
          /\ c \notin expired => late'[c] = late[c]
          /\ p = "returned" => late'[c] = late[c]
      BY <2>4, GotoMoves, Places DEF Place, Requesting, Ended
    <3>2. QED
      BY <2>4, <3>1, <1>1, RetriesAssumption DEF Delayed
  <2>5. QED
    BY <1>2, <2>1, <2>2, <2>3, <2>4
<1>7. QED
  BY <1>4, <1>5, <1>6

LEMMA BeginKeeps ==
  ASSUME JulesTypeOK, NEW c \in Call, Asked(c), Knows(c), Delayed(c), Begin(c)
  PROVE  Asked(c)' /\ Knows(c)' /\ Delayed(c)'
<1>1. /\ at[c] = "idle" /\ at'[c] = "create"
      /\ UNCHANGED <<attempt, own, expired, remote, creates, late>>
      /\ attempt[c] \in 0..MaxRetries /\ late[c] \in Nat
  BY DEF Begin, serverVars, JulesTypeOK
<1>2. QED
  BY <1>1, RetriesAssumption DEF Asked, Knows, Delayed, Polling

\* The session that a call comes to know is the newest of its own.
LEMMA CreatedKeeps ==
  ASSUME JulesTypeOK, NEW c \in Call, Asked(c), Knows(c), Delayed(c), Created(c)
  PROVE  Asked(c)' /\ Knows(c)' /\ Delayed(c)'
<1>1. /\ at[c] = "create" /\ at'[c] = "get" /\ attempt'[c] = 0
      /\ attempt[c] \in 0..MaxRetries /\ late[c] \in Nat /\ creates[c] \in Nat
      /\ own'[c] = Len(remote[c]) + 1 /\ UNCHANGED <<expired, creates>>
  BY GotoMoves, Places DEF Created, Requesting, JulesTypeOK
<1>2. late'[c] = late[c]
  BY <1>1, GotoMoves, Places DEF Created, Requesting, Delayed
<1>3. /\ remote[c] \in Seq(State) /\ "planning" \in State
      /\ remote'[c] = Append(remote[c], "planning")
  BY DEF Created, Opened, State, JulesTypeOK
<1>4. /\ Len(remote'[c]) = Len(remote[c]) + 1 /\ Len(remote[c]) \in Nat
      /\ DOMAIN remote'[c] = 1..Len(remote[c]) + 1
  BY <1>3, AppendProperties, LenProperties
<1>5. Asked(c)'
  BY <1>1, <1>4, RetriesAssumption DEF Asked
<1>6. Knows(c)'
  BY <1>1, <1>4 DEF Knows
<1>7. Delayed(c)'
  BY <1>1, <1>2, RetriesAssumption DEF Delayed
<1>8. QED
  BY <1>5, <1>6, <1>7

LEMMA ExpireKeeps ==
  ASSUME JulesTypeOK, NEW c \in Call, Asked(c), Knows(c), Delayed(c), Expire(c)
  PROVE  Asked(c)' /\ Knows(c)' /\ Delayed(c)'
<1>1. /\ at[c] \in Polling /\ c \notin expired
      /\ UNCHANGED <<at, attempt, own, remote, creates, late>>
      /\ attempt[c] \in 0..MaxRetries /\ late[c] = 0
  BY DEF Expire, placeVars, serverVars, Delayed, JulesTypeOK
<1>2. QED
  BY <1>1, RetriesAssumption DEF Asked, Knows, Known, Delayed, Polling

\* A step of one call or of the server for it touches no other call.
LEMMA OthersUntouched ==
  ASSUME JulesTypeOK, NEW c \in Call, NEW d \in Call \ {c},
         Step(c) \/ Expire(c) \/ ServerStep(c)
  PROVE  Untouched(d)
<1>1. \A p : Goto(c, p) => /\ at'[d] = at[d] /\ attempt'[d] = attempt[d]
                           /\ late'[d] = late[d]
  BY DEF Goto, CountLate, JulesTypeOK
<1>2. \A r : r \in {remote, Opened(c), PlanApproved(c)} => r[d] = remote[d]
  BY DEF Opened, PlanApproved, JulesTypeOK
<1>3. CASE Begin(c)
  BY <1>3 DEF Begin, serverVars, Untouched, JulesTypeOK
<1>4. CASE Lost(c)
  BY <1>4, <1>1 DEF Lost, Again, Fail, CountLate, Untouched, JulesTypeOK
<1>5. CASE Refused(c) \/ Got(c) \/ Wake(c) \/ Collected(c)
  BY <1>5, <1>1 DEF Refused, Fail, Got, Wake, Collected, serverVars, Untouched
<1>6. CASE Garbled(c) \/ Approved(c)
  <2>1. remote' \in {remote, Opened(c), PlanApproved(c)}
    BY <1>6 DEF Garbled, Approved
  <2>2. QED
    BY <1>6, <2>1, <1>1, <1>2 DEF Garbled, Approved, Untouched
<1>7. CASE Created(c)
  BY <1>7, <1>1, <1>2 DEF Created, Untouched, JulesTypeOK
<1>8. CASE Expire(c)
  BY <1>8 DEF Expire, placeVars, serverVars, Untouched
<1>9. CASE Proceed(c)
  <2>1. remote'[d] = remote[d]
    BY <1>9 DEF Proceed, JulesTypeOK
  <2>2. QED
    BY <1>9, <2>1 DEF Proceed, placeVars, Untouched
<1>10. CASE LateCreate(c) \/ LateApproval(c)
  BY <1>10, <1>2 DEF LateCreate, LateApproval, placeVars, Untouched, JulesTypeOK
<1>11. QED
  BY <1>3, <1>4, <1>5, <1>6, <1>7, <1>8, <1>9, <1>10 DEF Step, ServerStep

------------------------------------------------------------------------------
(* The invariant *)

LEMMA Starts == JulesInit => JulesInv
<1> SUFFICES ASSUME JulesInit PROVE JulesInv
  OBVIOUS
<1>1. JulesTypeOK
  BY RetriesAssumption DEF JulesInit, JulesTypeOK, Place
<1>2. ASSUME NEW c \in Call
      PROVE  Asked(c) /\ Knows(c) /\ Delayed(c)
  BY RetriesAssumption DEF JulesInit, Asked, Knows, Delayed, Polling
<1>3. QED
  BY <1>1, <1>2 DEF JulesInv

LEMMA Goes ==
  ASSUME JulesInv, [JulesNext]_julesVars
  PROVE  JulesInv'
<1>1. JulesTypeOK /\ JulesTypeOK'
  BY TypeKept DEF JulesInv
<1>2. ASSUME NEW d \in Call
      PROVE  Asked(d)' /\ Knows(d)' /\ Delayed(d)'
  <2>1. Asked(d) /\ Knows(d) /\ Delayed(d)
    BY DEF JulesInv
  <2>2. ASSUME NEW c \in Call, Step(c) \/ Expire(c) \/ ServerStep(c)
        PROVE  Asked(d)' /\ Knows(d)' /\ Delayed(d)'
    <3>1. CASE c = d
      BY <1>1, <2>1, <2>2, <3>1, BeginKeeps, LostKeeps, MoveKeeps,
         CreatedKeeps, ExpireKeeps, ServerKeeps DEF Step
    <3>2. CASE c # d
      BY <1>1, <2>1, <2>2, <3>2, OthersUntouched, UntouchedKeeps
    <3>3. QED
      BY <3>1, <3>2
  <2>3. CASE UNCHANGED julesVars
    BY <2>1, <2>3, UntouchedKeeps DEF julesVars, Untouched
  <2>4. QED
    BY <2>2, <2>3 DEF JulesNext
<1>3. QED
  BY <1>1, <1>2 DEF JulesInv

LEMMA Holds == JulesSpec => []JulesInv
<1>1. JulesInit => JulesInv
  BY Starts
<1>2. JulesInv /\ [JulesNext]_julesVars => JulesInv'
  BY Goes
<1>3. QED
  BY <1>1, <1>2, PTL DEF JulesSpec

------------------------------------------------------------------------------
(* What a call promises *)

\* Calls, attempts, sessions and counters keep their types.
THEOREM JulesTypeCorrect == JulesSpec => []JulesTypeOK
<1>1. JulesInv => JulesTypeOK
  BY DEF JulesInv
<1>2. QED
  BY <1>1, Holds, PTL

\* generate, edit and the others return what a session of their own said after
\* it had ended, however requests are lost, repeated and answered late.
THEOREM ResultsAreFinal == JulesSpec => []ResultIsFinal
<1>1. JulesInv => ResultIsFinal
  BY DEF JulesInv, Knows, ResultIsFinal
<1>2. QED
  BY <1>1, Holds, PTL

\* The repeated POST of _create_session leaves at most one session an attempt.
THEOREM FewSessions == JulesSpec => []SessionsBounded
<1>1. JulesInv => SessionsBounded
  BY DEF JulesInv, Asked, SessionsBounded
<1>2. QED
  BY <1>1, Holds, PTL

\* After its deadline a call sends at most 3 * MaxRetries + 2 more requests.
THEOREM FewLateRequests == JulesSpec => []LateRequestsBounded
<1>1. JulesInv => LateRequestsBounded
  BY DEF JulesInv, Delayed, LateRequestsBounded
<1>2. QED
  BY <1>1, Holds, PTL
==============================================================================
