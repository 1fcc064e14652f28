---------------------------- MODULE ProviderManager ----------------------------
(***************************************************************************)
(* providers/manager.py and the health records of providers/interface.py:  *)
(* the process-wide ProviderManager, with the endpoints of backend/main.py *)
(* that configure and probe it, the agents that take their provider from   *)
(* it (Agent._select_provider), and calls with fallback.                   *)
(*                                                                         *)
(* The manager is not locked.  Endpoints run on the event loop, one at a   *)
(* time, and a probe keeps the loop busy; agents and calls are threads     *)
(* that move between any two steps.  The manager's own state is a record,  *)
(* and each of its methods an operator from records to records, so that an *)
(* endpoint is the composition of the methods it calls.                    *)
(*                                                                         *)
(* An operator XMutant is X with a plausible bug; no action uses it.       *)
(***************************************************************************)
EXTENDS Integers, Sequences

CONSTANTS
  Provider,      \* names of the registered providers
  Order,         \* ... and the order they were registered in
  Local,         \* "local"
  NeedsKey,      \* requires_api_key
  Lenient,       \* ... whose adapter, without its key, reports no error (mistral)
  Editing,       \* the providers with capability code_editing
  User,          \* whose settings a request or an agent brings along
  Server,        \* the settings of the environment, a member of User
  Preferred,     \* ai_provider of each user's settings
  Keys,          \* providers each user's settings have a key for
  EnabledList,   \* PROVIDER_ENABLED, {} if it is not set
  FallbackList,  \* PROVIDER_FALLBACK_ORDER, <<>> if it is not set
  DegradeAt,     \* errors that make a provider degraded (3 in the code)
  UnhealthyAt,   \* errors that make it unhealthy (5 in the code)
  Agent,         \* agents
  Owner,         \* the user whose settings each agent has
  Caller,        \* users of ProviderManager.call
  None           \* no provider, no user

ASSUME NamesAssumption ==
  /\ Local \in Provider /\ Server \in User
  /\ Local \notin NeedsKey /\ NeedsKey \subseteq Provider /\ Lenient \subseteq NeedsKey
  /\ EnabledList \subseteq Provider /\ FallbackList \in Seq(Provider)
  /\ Order \in Seq(Provider) /\ \A p \in Provider : \E i \in DOMAIN Order : Order[i] = p
  /\ Preferred \in [User -> Provider] /\ Keys \in [User -> SUBSET NeedsKey]
  /\ Owner \in [Agent -> User]
  /\ None \notin Provider /\ None \notin User

ASSUME ThresholdAssumption ==
  DegradeAt \in Nat \ {0} /\ UnhealthyAt \in Nat /\ DegradeAt < UnhealthyAt

VARIABLES
  m,       \* the ProviderManager
  probed,  \* the instance whose probe the event loop waits for, or None
  agent,   \* where each agent is in _select_provider, and what it has chosen
  call     \* where each call is

vars == <<m, probed, agent, call>>

------------------------------------------------------------------------------
(* Data *)

Status == {"unknown", "healthy", "degraded", "unhealthy", "disabled"}

\* cached names the user whose settings the cached instance was made with.
Manager ==
  [settings: User, enabled: SUBSET Provider, status: [Provider -> Status],
   errors: [Provider -> 0..UnhealthyAt], cached: [Provider -> User \cup {None}],
   active: Provider, chain: Seq(Provider)]

\* An instance: its provider, and the user whose settings it was made with.
Choice == [provider: Provider, by: User]

\* In get_instance a thread is "taking" the instance it saw cached, or
\* "building" one; inst is that instance, and then the one it works with.
AgentState ==
  [at: {"new", "managed", "taking", "building", "ready"}, inst: Choice \cup {None}]

CallState ==
  [at: {"idle", "loop", "taking", "building", "running", "returned", "raised"},
   rest: Seq(Provider), inst: Choice \cup {None},
   met: BOOLEAN,       \* history: it has called local or found it disabled
   popped: BOOLEAN]    \* history: the instance it was taking was dropped

TypeOK ==
  /\ m \in Manager
  /\ probed \in Choice \cup {None}
  /\ agent \in [Agent -> AgentState]
  /\ call \in [Caller -> CallState]

Names(s) == {s[i] : i \in DOMAIN s}

Usable(p, u) == p \in NeedsKey => p \in Keys[u]

\* Whether get_instance keeps what it constructs: every adapter but a lenient
\* one stores the error of a missing key.
Constructs(p, u) == Usable(p, u) \/ p \in Lenient

Made(p, u) == [provider |-> p, by |-> u]

------------------------------------------------------------------------------
(* The manager's methods *)

Enable(mg, p) ==
  [mg EXCEPT !.enabled = @ \cup {p},
             !.status[p] = IF @ = "disabled" THEN "unknown" ELSE @]

Disable(mg, p) ==
  [mg EXCEPT !.enabled = @ \ {p}, !.status[p] = "disabled", !.cached[p] = None,
             !.active = IF @ = p THEN Local ELSE @]

\* Those of S in the order of their registration.
InOrder(S) ==
  LET kept[i \in 0..Len(Order)] ==
        IF i = 0 THEN <<>>
        ELSE IF Order[i] \in S THEN Append(kept[i - 1], Order[i]) ELSE kept[i - 1]
  IN  kept[Len(Order)]

AutoChainMutant(mg) == <<mg.active>> \o InOrder(mg.enabled \ {mg.active})

\* _rebuild_fallback_chain
AutoChain(mg) ==
  LET fits == {p \in mg.enabled \ {mg.active} : p \in Editing <=> mg.active \in Editing}
      chain == <<mg.active>> \o InOrder(fits)
  IN  IF Local \in Names(chain) THEN chain ELSE Append(chain, Local)

Rebuilt(mg) == [mg EXCEPT !.chain = AutoChain(mg)]

SetActive(mg, p) ==
  IF p \in mg.enabled THEN Rebuilt([mg EXCEPT !.active = p])
                      ELSE [mg EXCEPT !.active = Local]

\* get_manager(settings)
GetManager(mg, u) ==
  LET given == [mg EXCEPT !.settings = u]
  IN  IF Preferred[u] = mg.active THEN given ELSE SetActive(given, Preferred[u])

\* _provider_manager applies PROVIDER_ENABLED one name after the other ...
Listed(mg) ==
  [mg EXCEPT !.enabled = EnabledList,
             !.status = [p \in Provider |->
                           IF p \notin EnabledList THEN "disabled"
                           ELSE IF @[p] = "disabled" THEN "unknown" ELSE @[p]],
             !.cached = [p \in Provider |-> IF p \in EnabledList THEN @[p] ELSE None],
             !.active = IF @ \in EnabledList THEN @ ELSE Local]

\* ... then PROVIDER_FALLBACK_ORDER, then AI_PROVIDER.
Configured(mg) ==
  LET got == GetManager(mg, Server)
      listed == IF EnabledList = {} THEN got ELSE Listed(got)
      ordered == IF FallbackList = <<>> THEN listed
                                        ELSE [listed EXCEPT !.chain = FallbackList]
  IN  SetActive(ordered, Preferred[Server])

\* record_success; the counters of successes and times are left out.
Succeeded(mg, p) ==
  [mg EXCEPT !.status[p] = IF @ \in {"degraded", "unknown"} THEN "healthy" ELSE @]

\* record_failure; the count is not needed beyond UnhealthyAt.
Failed(mg, p) ==
  LET n == IF mg.errors[p] < UnhealthyAt THEN mg.errors[p] + 1 ELSE UnhealthyAt
  IN  [mg EXCEPT !.errors[p] = n,
                 !.status[p] = IF n >= UnhealthyAt THEN "unhealthy"
                               ELSE IF n >= DegradeAt THEN "degraded" ELSE @]

\* get_instance, after the constructor
Kept(mg, i) ==
  IF Constructs(i.provider, i.by) THEN [mg EXCEPT !.cached[i.provider] = i.by]
                                  ELSE Failed(mg, i.provider)

\* get_instance on the event loop, where no disable comes between its steps:
\* whether it returns one, and the manager it leaves.
HasInstance(mg, p) ==
  p \in mg.enabled /\ (mg.cached[p] # None \/ Constructs(p, mg.settings))

Instantiated(mg, p) ==
  IF p \notin mg.enabled \/ mg.cached[p] # None THEN mg
                                                ELSE Kept(mg, Made(p, mg.settings))

\* The end of call: a fallback that succeeded is promoted.
Promoted(mg, p) ==
  LET done == Succeeded(mg, p)
  IN  IF /\ p # mg.active /\ done.status[p] # "unhealthy"
         /\ done.status[mg.active] \in {"unhealthy", "disabled"}
        THEN [done EXCEPT !.active = p]
        ELSE done

------------------------------------------------------------------------------
(* Endpoints, on the event loop *)

LoopFree == probed = None

\* GET /api/providers and the others that only read
Read ==
  /\ LoopFree
  /\ m' = Configured(m)
  /\ UNCHANGED <<probed, agent, call>>

\* GET /api/config
ReadConfig ==
  /\ LoopFree
  /\ m' = SetActive(GetManager(m, Server), Preferred[Server])
  /\ UNCHANGED <<probed, agent, call>>

PostEnable(p) ==
  /\ LoopFree
  /\ m' = Enable(Configured(m), p)
  /\ UNCHANGED <<probed, agent, call>>

PostDisable(p) ==
  /\ LoopFree
  /\ m' = Disable(Configured(m), p)
  /\ UNCHANGED <<probed, agent, call>>

PostActive(p) ==
  /\ LoopFree
  /\ m' = SetActive(Configured(m), p)
  /\ UNCHANGED <<probed, agent, call>>

\* GET /api/providers/{name}/health, with mg == Configured(m), and
\* POST /api/providers/{name}/validate of user u, with mg == GetManager(m, u)
\* and no probe when there is no instance.
Probe(p, mg, validating) ==
  /\ LoopFree
  /\ IF HasInstance(mg, p)
       THEN /\ m' = Instantiated(mg, p)
            /\ probed' = Made(p, m'.cached[p])
       ELSE /\ m' = IF validating THEN Instantiated(mg, p)
                                  ELSE Failed(Instantiated(mg, p), p)
            /\ UNCHANGED probed
  /\ UNCHANGED <<agent, call>>

ProbeHealth(p) == Probe(p, Configured(m), FALSE)

ProbeKey(p, u) == Probe(p, GetManager(m, u), TRUE)

ProbeEnd ==
  /\ probed # None
  /\ \/ Usable(probed.provider, probed.by) /\ m' = Succeeded(m, probed.provider)
     \/ m' = Failed(m, probed.provider)
  /\ probed' = None
  /\ UNCHANGED <<agent, call>>

\* POST /api/providers/{name}/test calls the instance and records nothing.
TestConnection(p, u) ==
  /\ LoopFree
  /\ m' = Instantiated(GetManager(m, u), p)
  /\ UNCHANGED <<probed, agent, call>>

------------------------------------------------------------------------------
(* Agents: _select_provider *)

Becomes(a, where, inst) == agent' = [agent EXCEPT ![a] = [at |-> where, inst |-> inst]]

\* get_provider: the preferred provider if there is a key for it, else local.
FromFactory(u) == Made(IF Usable(Preferred[u], u) THEN Preferred[u] ELSE Local, u)

Manage(a) ==
  /\ agent[a].at = "new"
  /\ m' = GetManager(m, Owner[a])
  /\ Becomes(a, "managed", None)
  /\ UNCHANGED <<probed, call>>

\* get_active, up to the instance
Look(a) ==
  /\ agent[a].at = "managed"
  /\ LET p == m.active
     IN  CASE p \notin m.enabled -> Becomes(a, "ready", FromFactory(Owner[a]))
           [] p \in m.enabled /\ m.cached[p] # None -> Becomes(a, "taking", Made(p, m.cached[p]))
           [] OTHER -> Becomes(a, "building", Made(p, m.settings))
  /\ UNCHANGED <<m, probed, call>>

\* A bug: what is cached is taken for usable.
UnwrapMutant(a, i) ==
  Becomes(a, "ready", IF Constructs(i.provider, i.by) THEN i ELSE FromFactory(Owner[a]))

\* What the agent unwraps: an adapter without a key has no provider inside, and
\* the factory makes another.
Unwrap(a, i) ==
  Becomes(a, "ready", IF Usable(i.provider, i.by) THEN i ELSE FromFactory(Owner[a]))

\* The index of the cache; _select_provider swallows the KeyError.
Index(a) ==
  /\ agent[a].at = "taking"
  /\ LET p == agent[a].inst.provider
     IN  IF m.cached[p] # None THEN Unwrap(a, Made(p, m.cached[p]))
                               ELSE Becomes(a, "ready", FromFactory(Owner[a]))
  /\ UNCHANGED <<m, probed, call>>

Build(a) ==
  /\ agent[a].at = "building"
  /\ m' = Kept(m, agent[a].inst)
  /\ Unwrap(a, agent[a].inst)
  /\ UNCHANGED <<probed, call>>

AgentStep(a) == Manage(a) \/ Look(a) \/ Index(a) \/ Build(a)

------------------------------------------------------------------------------
(* Calls: ProviderManager.call *)

\* The chain is read, and built if there is none, when the call begins.
Start(c) ==
  LET mg == IF m.chain = <<>> THEN Rebuilt(m) ELSE m
  IN  /\ call[c].at = "idle"
      /\ m' = mg
      /\ call' = [call EXCEPT ![c] = [@ EXCEPT !.at = "loop", !.rest = mg.chain]]
      /\ UNCHANGED <<probed, agent>>

\* The next provider of the chain, up to its instance. One that is disabled is
\* skipped.
Try(c) ==
  /\ call[c].at = "loop" /\ call[c].rest # <<>>
  /\ LET p == Head(call[c].rest)
         next == [call[c] EXCEPT !.rest = Tail(@)]
     IN  call' = [call EXCEPT ![c] =
           CASE p \notin m.enabled -> [next EXCEPT !.met = @ \/ p = Local]
             [] p \in m.enabled /\ m.cached[p] # None ->
                  [next EXCEPT !.at = "taking", !.inst = Made(p, m.cached[p])]
             [] OTHER -> [next EXCEPT !.at = "building", !.inst = Made(p, m.settings)]]
  /\ UNCHANGED <<m, probed, agent>>

\* The call of an instance, or the next provider: an adapter other than
\* local's may not have the method.
Invoke(c, i) ==
  \/ call' = [call EXCEPT ![c] = [call[c] EXCEPT !.at = "running", !.inst = i,
                                                 !.met = @ \/ i.provider = Local]]
  \/ /\ i.provider # Local
     /\ call' = [call EXCEPT ![c] = [call[c] EXCEPT !.at = "loop", !.inst = None]]

\* The index of the cache: a disable since the look makes it a KeyError, which
\* nothing in call catches.
Fetch(c) ==
  /\ call[c].at = "taking"
  /\ LET p == call[c].inst.provider
     IN  IF m.cached[p] # None
           THEN Invoke(c, Made(p, m.cached[p]))
           ELSE call' = [call EXCEPT ![c] = [@ EXCEPT !.at = "raised", !.inst = None,
                                                      !.popped = TRUE]]
  /\ UNCHANGED <<m, probed, agent>>

Construct(c) ==
  /\ call[c].at = "building"
  /\ LET i == call[c].inst
     IN  /\ m' = Kept(m, i)
         /\ IF Constructs(i.provider, i.by)
              THEN Invoke(c, i)
              ELSE call' = [call EXCEPT ![c] = [@ EXCEPT !.at = "loop", !.inst = None]]
  /\ UNCHANGED <<probed, agent>>

Return(c) ==
  /\ call[c].at = "running" /\ Usable(call[c].inst.provider, call[c].inst.by)
  /\ m' = Promoted(m, call[c].inst.provider)
  /\ call' = [call EXCEPT ![c] = [@ EXCEPT !.at = "returned", !.rest = <<>>,
                                           !.inst = None, !.met = FALSE]]
  /\ UNCHANGED <<probed, agent>>

FallBack(c) ==
  /\ call[c].at = "running"
  /\ m' = Failed(m, call[c].inst.provider)
  /\ call' = [call EXCEPT ![c] = [@ EXCEPT !.at = "loop", !.inst = None]]
  /\ UNCHANGED <<probed, agent>>

GiveUp(c) ==
  /\ call[c].at = "loop" /\ call[c].rest = <<>>
  /\ call' = [call EXCEPT ![c].at = "raised"]
  /\ UNCHANGED <<m, probed, agent>>

CallStep(c) ==
  Start(c) \/ Try(c) \/ Fetch(c) \/ Construct(c) \/ Return(c) \/ FallBack(c) \/ GiveUp(c)

------------------------------------------------------------------------------
\* The first request creates the manager: every provider is enabled.
Fresh ==
  [settings |-> Server, enabled |-> Provider,
   status |-> [p \in Provider |-> "unknown"], errors |-> [p \in Provider |-> 0],
   cached |-> [p \in Provider |-> None], active |-> Local, chain |-> <<>>]

Init ==
  /\ m = SetActive(Fresh, Preferred[Server])
  /\ probed = None
  /\ agent = [a \in Agent |-> [at |-> "new", inst |-> None]]
  /\ call = [c \in Caller |-> [at |-> "idle", rest |-> <<>>, inst |-> None,
                               met |-> FALSE, popped |-> FALSE]]

Endpoint ==
  \/ Read \/ ReadConfig \/ ProbeEnd
  \/ \E p \in Provider : \/ PostEnable(p) \/ PostDisable(p) \/ PostActive(p)
                         \/ ProbeHealth(p)
                         \/ \E u \in User : ProbeKey(p, u) \/ TestConnection(p, u)

Next ==
  \/ Endpoint
  \/ \E a \in Agent : AgentStep(a)
  \/ \E c \in Caller : CallStep(c)

Spec == Init /\ [][Next]_vars

------------------------------------------------------------------------------
(* Properties *)

\* Local is the final safety net: a call ends with an error without having
\* called local only if an operator disabled local or gave an order without it,
\* or if a disable dropped an instance that the call was about to take.
SafetyNet ==
  \A c \in Caller :
    call[c].at = "raised" => call[c].met \/ call[c].popped \/ FallbackList # <<>>

\* A missing key never breaks an agent: what it works with has been made with
\* a key, even if the manager's state changed while it was choosing, and
\* although a cached adapter may have been made without one.
ChosenIsUsable ==
  \A a \in Agent :
    agent[a].at = "ready" => Usable(agent[a].inst.provider, agent[a].inst.by)

------------------------------------------------------------------------------
(* Promises that the code does not keep *)

\* README.md of PROVIDER_FALLBACK_ORDER: "Overrides auto-built chain".
FallbackOrderIsKept == [][Read /\ FallbackList # <<>> => m'.chain = FallbackList]_vars

\* API.md of POST /api/providers/active: "Set the active provider used by all
\* agents": nothing but another choice, a disable or ill health undoes it.
ChoiceLasts ==
  [][\A p \in Provider :
       (Read \/ ReadConfig) /\ m.active = p /\ p \in m.enabled => m'.active = p]_vars

\* API.md of POST /api/providers/disable: reading does not enable it again.
DisableLasts == [][Read => m'.enabled \subseteq m.enabled]_vars

\* Comment of disable: "Active provider disabled -> fall back to local".
ActiveIsEnabled == m.active \in m.enabled \cup {Local}

\* Comment of disable: "Clear any cached instance so a re-enable re-initialises".
DisabledHasNoInstance == \A p \in Provider \ m.enabled : m.cached[p] = None

\* README.md: "Disabled providers" are shown as disabled.
DisabledIsShown == \A p \in Provider \ m.enabled : m.status[p] = "disabled"

\* README.md: "per-user stored key" first: an agent works with its user's key.
OwnKeyIsUsed ==
  \A a \in Agent :
    agent[a].at = "ready" =>
      \/ agent[a].inst.by = Owner[a]
      \/ agent[a].inst.provider \notin Keys[Owner[a]]

\* Docstring of call: "Invoke method on the active provider with automatic
\* fallback": an error of one provider's instance does not end the call.
LookupFallsBack == \A c \in Caller : ~call[c].popped

\* Docstring of get_instance: "or None if unusable": what it keeps has a key.
CachedIsUsable ==
  \A p \in Provider : m.cached[p] # None => Usable(p, m.cached[p])
==============================================================================
