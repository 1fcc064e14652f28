------------------------------- MODULE Accounts -------------------------------
(***************************************************************************)
(* Who a request belongs to, and the credentials and preferences it works  *)
(* with: backend/auth.py, secret_store.py, settings_store.py,              *)
(* user_settings.py, and the endpoints of main.py that log in, save keys   *)
(* and preferences, connect and disconnect GitHub, list repositories and   *)
(* hand a task its settings.                                               *)
(*                                                                         *)
(* Secrets and preferences are rows of two tables; every read and every    *)
(* write of them is one connection of its own, and other requests run      *)
(* between.  The GitHub token of a build is also written to the            *)
(* environment of the process, where the thread of the task looks for it   *)
(* later and finds it before its own settings.  AUTH_SECRET signs session  *)
(* tokens and seals the secrets; a restart may come with another one.      *)
(* Any read may fail, and then gives what the configuration of the server  *)
(* says; on a torn database every read fails, and no row can be written.   *)
(*                                                                         *)
(* A GitHub token stands for the account it belongs to: the login that     *)
(* GitHub reports for token t is written t.  The database holds the two    *)
(* tables, secrets and prefs, and four histories: the provider a user last *)
(* chose, the token last linked, the owner it was linked for, and whether  *)
(* the connection is torn.                                                 *)
(***************************************************************************)
EXTENDS Database, Naturals

CONSTANTS
  User,      \* user ids; one, "default", when auth is off
  Call,      \* the requests that can be under way at once
  Provider,  \* AI providers
  KeyedProvider, \* the providers of provider_key_map
  Token,     \* the GitHub tokens of users, and the accounts they belong to
  Owner,     \* owners a connection can be given instead of its account
  Repo,      \* repository names
  AuthSecret,  \* values of AUTH_SECRET
  Configured,  \* AUTH_SECRET is set
  ServerProvider, ServerToken, ServerOwner, ServerRepo,  \* the configuration
  None,      \* no value
  MaxCalls   \* bounds the requests of a behaviour

ASSUME AccountsAssumption ==
  /\ KeyedProvider \subseteq Provider
  /\ ServerProvider \in Provider
  /\ ServerOwner \in Owner \cup {None}
  /\ ServerRepo \in Repo \cup {None}
  /\ None \notin Token \cup Provider \cup Owner \cup Repo
  /\ Configured \in BOOLEAN
  /\ MaxCalls \in Nat

VARIABLES
  authSecret, \* AUTH_SECRET of the process
  session,  \* the session tokens clients hold: [user, secret]
  environ,  \* GITHUB_TOKEN in the environment of the process
  call,     \* the requests
  made      \* requests so far

processVars == <<authSecret, session, environ, call, made>>

avars == <<db, processVars>>

------------------------------------------------------------------------------
(* Tables *)

\* SECRET_KINDS: a key per provider of the map, one for the others, and the token.
Kind == KeyedProvider \cup {"ai_api_key", "github_token"}

KindOf(p) == IF p \in KeyedProvider THEN p ELSE "ai_api_key"

PrefKey == {"ai_provider", "github_login", "github_owner", "github_repo"}

\* What a row of the secrets, the preferences of a user and the whole database
\* may hold.
SealedRow == [value : Kind \cup Token, secret : AuthSecret]

ASSUME NoneAssumption == None \notin SealedRow

SecretRow == SealedRow \cup {None}

PrefValue == Provider \cup Token \cup Owner \cup Repo \cup {None}

PrefRows == UNION {[K -> PrefValue] : K \in SUBSET PrefKey}

Tables ==
  [secrets : [User -> [Kind -> SecretRow]], prefs : [User -> PrefRows],
   chosen : [User -> PrefValue], linked : [User -> SecretRow], bound : [User -> PrefValue],
   torn : [User -> BOOLEAN]]

\* A row holds its value sealed with the AUTH_SECRET of the time.
Sealed(v) == [value |-> v, secret |-> authSecret]

\* A row sealed with another AUTH_SECRET cannot be read.
Opened(row) == IF row # None /\ row.secret = authSecret THEN row.value ELSE None

Readable == db # Torn

\* Whether a read fails.
Fails == IF Readable THEN BOOLEAN ELSE {TRUE}

\* A bug: the query finds the row of any user.
SecretMutant(u, k, fails) ==
  LET rows == {db.secrets[v][k] : v \in User} \ {None}
  IN  IF fails \/ rows = {} THEN None ELSE Opened(CHOOSE row \in rows : TRUE)

\* get_secret: a read that fails finds no secret.
Secret(u, k, fails) == IF fails THEN None ELSE Opened(db.secrets[u][k])

\* get_settings_for_user: what the configuration says where there is no row,
\* and of every preference when the read fails.
Default == [ai_provider |-> ServerProvider, github_login |-> None,
            github_owner |-> ServerOwner, github_repo |-> ServerRepo]

Prefs(u, fails) ==
  [k \in PrefKey |-> IF ~fails /\ k \in DOMAIN db.prefs[u] THEN db.prefs[u][k] ELSE Default[k]]

\* resolve_user_provider; an empty preference is that of the server.
Preferred(u, fails) == Prefs(u, fails)["ai_provider"]

\* A bug: an empty value of the update is taken for one that is not given.
UpsertSkipMutant(rows, update) ==
  [k \in DOMAIN rows \cup {i \in DOMAIN update : update[i] # None} |->
     IF k \in DOMAIN update /\ update[k] # None THEN update[k] ELSE rows[k]]

\* update_settings_for_user: a row for each key of the update and no other.
Upsert(rows, update) ==
  [k \in DOMAIN rows \cup DOMAIN update |-> IF k \in DOMAIN update THEN update[k] ELSE rows[k]]

------------------------------------------------------------------------------
(* Requests *)

NoRows == [k \in {} |-> None]

NoBuild == [provider |-> None, again |-> None, from |-> None, token |-> None,
            owner |-> None, repo |-> None]

\* update: what update_settings_for_user writes; task: a task waits for the
\* settings; built: the settings so far.  History: providers, tokens: what the
\* user chose and linked while it ran, and the provider of the server or None
\* where a read of them failed; alone, no other request changed the connection
\* meanwhile, and no other build ended between the build of a task and its
\* set-up.
IdleCall ==
  [pc |-> "idle", user |-> None, update |-> NoRows, task |-> FALSE,
   built |-> NoBuild, providers |-> {}, tokens |-> {}, alone |-> TRUE]

Build ==
  [provider : PrefValue, again : PrefValue, from : Kind \cup {"server", None},
   token : Kind \cup Token \cup {ServerToken, None}, owner : PrefValue, repo : PrefValue]

CallState ==
  [pc : {"idle", "read", "write", "again", "own", "generic", "token", "prefs", "set_up"},
   user : User \cup {None}, update : PrefRows, task : BOOLEAN,
   built : Build, providers : SUBSET PrefValue,
   tokens : SUBSET (Kind \cup Token \cup {ServerToken, None}), alone : BOOLEAN]

Doing(c, pc) == call[c].pc = pc

Building(r) == r.pc \in {"again", "own", "generic", "token", "prefs"}

Connecting(r, u) == r.user = u /\ "github_login" \in DOMAIN r.update

\* The history of the builds: what their users have chosen and linked by now,
\* as far as the database still says.
Noted(calls) ==
  [c \in Call |->
     LET r == calls[c]
     IN  IF Building(r) /\ db' # Torn
         THEN [r EXCEPT !.providers = @ \cup {db'.chosen[r.user]},
                        !.tokens = @ \cup {Opened(db'.linked[r.user])}]
         ELSE r]

\* create_session: what it signs, and with what.
SessionToken(u) == [user |-> u, secret |-> authSecret]

\* require_user_from_request: the token must be signed with this AUTH_SECRET;
\* without one every request makes a service with a random key of its own.
Accepted(u) == Configured /\ SessionToken(u) \in session

\* A request of u begins on a free slot.
Starts(c, u) ==
  /\ Doing(c, "idle")
  /\ Accepted(u)
  /\ made < MaxCalls
  /\ made' = made + 1

\* auth_guest and auth_github.  A token that expires only keeps its client
\* from requests it could as well not have made: no action is needed for it.
Login(u) ==
  /\ session' = session \cup {SessionToken(u)}
  /\ UNCHANGED <<db, authSecret, environ, call, made>>

\* save_api_key, api_provider_save_key and the endpoints that delete a key.
SetKey(c, u, k) ==
  /\ Starts(c, u)
  /\ Readable
  /\ \E row \in {None, Sealed(k)} \ {db.secrets[u][k]} : db' = [db EXCEPT !.secrets[u][k] = row]
  /\ call' = Noted(call)
  /\ UNCHANGED <<authSecret, session, environ>>

\* The token row of a connect or disconnect, and its update of the
\* preferences to come: the connection is torn until that is written.  Without
\* the database the row is not written and the request ends.
Link(c, u, row, update) ==
  LET others == {d \in Call : Connecting(call[d], u)}
      linking == [IdleCall EXCEPT !.pc = "read", !.user = u, !.update = update,
                                  !.alone = others = {}]
  IN  /\ Starts(c, u)
      /\ Readable
      /\ db' = [db EXCEPT !.secrets[u]["github_token"] = row, !.linked[u] = row,
                          !.bound[u] = update["github_owner"], !.torn[u] = TRUE]
      /\ call' = Noted([d \in Call |-> IF d = c THEN linking
                                       ELSE IF d \in others THEN [call[d] EXCEPT !.alone = FALSE]
                                       ELSE call[d]])
      /\ UNCHANGED <<authSecret, session, environ>>

\* github_connect once GitHub has verified the token; owner defaults to the
\* login, and a repository that is not given is not written.
Binding(t, owner, repo) ==
  [k \in {"github_login", "github_owner"} \cup (IF repo = None THEN {} ELSE {"github_repo"}) |->
     CASE k = "github_login" -> t
       [] k = "github_owner" -> IF owner = None THEN t ELSE owner
       [] k = "github_repo" -> repo]

Connect(c, u, t, owner, repo) == Link(c, u, Sealed(t), Binding(t, owner, repo))

\* github_disconnect
Unbinding == [k \in {"github_login", "github_owner", "github_repo"} |-> None]

Disconnect(c, u) == Link(c, u, None, Unbinding)

\* update_user_settings, from its read of the current preferences: they go into
\* the answer only.
Update(c, u, p) ==
  /\ Starts(c, u)
  /\ call' = [call EXCEPT ![c] =
                [IdleCall EXCEPT !.pc = "write", !.user = u,
                                 !.update = [k \in {"ai_provider"} |-> p]]]
  /\ UNCHANGED <<db, authSecret, session, environ>>

ReadPrefs(c) ==
  /\ Doing(c, "read")
  /\ call' = [call EXCEPT ![c].pc = "write"]
  /\ UNCHANGED <<db, authSecret, session, environ, made>>

WritePrefs(c) ==
  LET u == call[c].user
      update == call[c].update
  IN  /\ Doing(c, "write")
      /\ Readable
      /\ db' = [db EXCEPT
                  !.prefs[u] = Upsert(@, update),
                  !.chosen[u] = IF "ai_provider" \in DOMAIN update
                                THEN update["ai_provider"] ELSE @,
                  !.torn[u] = IF Connecting(call[c], u) THEN ~call[c].alone ELSE @]
      /\ call' = Noted([call EXCEPT ![c] = IdleCall])
      /\ UNCHANGED <<authSecret, session, environ, made>>

\* The database fails: connect and disconnect go on without their preferences.
WriteFails(c) ==
  /\ Doing(c, "read") \/ Doing(c, "write")
  /\ call' = [call EXCEPT ![c] = IdleCall]
  /\ UNCHANGED <<db, authSecret, session, environ, made>>

------------------------------------------------------------------------------
(* build_user_settings, for a task or for an endpoint that needs the settings *)

\* History: what a failed read gave instead of what the user has.
Instead(v, fails) == IF fails THEN {v} ELSE {}

\* A step of the build that reads and goes on to pc; providers and tokens are
\* what it got instead.
Asked(c, pc, built, providers, tokens) ==
  /\ UNCHANGED <<db, authSecret, session, environ, made>>
  /\ call' = Noted([call EXCEPT ![c] =
                      [call[c] EXCEPT !.pc = pc, !.built = built,
                                      !.providers = @ \cup providers, !.tokens = @ \cup tokens]])

AskProvider(c, u, task) ==
  \E fails \in Fails :
    /\ Starts(c, u)
    /\ UNCHANGED <<db, authSecret, session, environ>>
    /\ call' = Noted([call EXCEPT ![c] =
                        [IdleCall EXCEPT !.pc = "again", !.user = u, !.task = task,
                                         !.built = [NoBuild EXCEPT !.provider = Preferred(u, fails)],
                                         !.providers = Instead(ServerProvider, fails)]])

\* resolve_user_ai_key asks for the provider again.
AskAgain(c) ==
  \E fails \in Fails :
    LET p == Preferred(call[c].user, fails)
    IN  /\ Doing(c, "again")
        /\ Asked(c, IF p \in KeyedProvider THEN "own" ELSE "generic",
                 [call[c].built EXCEPT !.again = p], Instead(ServerProvider, fails), {})

AskOwnKey(c) ==
  \E fails \in Fails :
    LET k == KindOf(call[c].built.again)
    IN  /\ Doing(c, "own")
        /\ IF Secret(call[c].user, k, fails) # None
           THEN Asked(c, "token", [call[c].built EXCEPT !.from = k], {}, {})
           ELSE Asked(c, "generic", call[c].built, {}, {})

\* The generic key, and without one what the server has.
AskGenericKey(c) ==
  \E fails \in Fails :
    LET from == IF Secret(call[c].user, "ai_api_key", fails) # None THEN "ai_api_key" ELSE "server"
    IN  Doing(c, "generic") /\ Asked(c, "token", [call[c].built EXCEPT !.from = from], {}, {})

\* resolve_user_github_token
AskToken(c) ==
  \E fails \in Fails :
    LET t == Secret(call[c].user, "github_token", fails)
    IN  /\ Doing(c, "token")
        /\ Asked(c, "prefs", [call[c].built EXCEPT !.token = IF t = None THEN ServerToken ELSE t],
                 {}, Instead(None, fails))

\* A bug: a token that is already there is kept.
MirroredMutant(t) == IF environ = None THEN t ELSE environ

\* The environment of the process gets the token of the build, if it has one.
Mirrored(t) == IF t = None THEN environ ELSE t

\* An empty owner or repository leaves that of the server.
Or(v, server) == IF v = None THEN server ELSE v

\* The owner and repository, and the end of the build: an endpoint uses the
\* settings at once, a task when its thread gets to its set-up.
Finish(c, fails) ==
  LET prefs == Prefs(call[c].user, fails)
      token == call[c].built.token
      waiting == {d \in Call \ {c} : Doing(d, "set_up")}
  IN  /\ Doing(c, "prefs")
      /\ environ' = Mirrored(token)
      /\ call' = [d \in Call |->
                    CASE d = c /\ ~call[c].task -> IdleCall
                      [] d = c /\ call[c].task ->
                           [call[c] EXCEPT !.pc = "set_up",
                                           !.built.owner = Or(prefs["github_owner"], ServerOwner),
                                           !.built.repo = Or(prefs["github_repo"], ServerRepo)]
                      [] d \in waiting /\ token # None -> [call[d] EXCEPT !.alone = FALSE]
                      [] OTHER -> call[d]]
      /\ UNCHANGED <<db, authSecret, session, made>>

\* Agent._loop: the environment comes before the settings of the task.
UsedToken(c) == IF environ # None THEN environ ELSE call[c].built.token

SetUp(c) ==
  /\ Doing(c, "set_up")
  /\ call' = [call EXCEPT ![c] = IdleCall]
  /\ UNCHANGED <<db, authSecret, session, environ, made>>

------------------------------------------------------------------------------
(* The process *)

\* A restart, perhaps with another AUTH_SECRET and at any time: requests and the
\* environment are gone, rows and the tokens of the clients stay.
Restart(secret) ==
  /\ authSecret' = secret
  /\ environ' = ServerToken
  /\ call' = [c \in Call |-> IdleCall]
  /\ UNCHANGED <<db, session, made>>

\* The process and the requests, whatever the database holds.
ProcessTypeOK ==
  /\ authSecret \in AuthSecret
  /\ session \subseteq [user : User, secret : AuthSecret]
  /\ environ \in Kind \cup Token \cup {ServerToken, None}
  /\ call \in [Call -> CallState]
  /\ made \in Nat

EmptyTables ==
  [secrets |-> [u \in User |-> [k \in Kind |-> None]], prefs |-> [u \in User |-> NoRows],
   chosen |-> [u \in User |-> ServerProvider], linked |-> [u \in User |-> None],
   bound |-> [u \in User |-> ServerOwner],
   torn |-> [u \in User |-> FALSE]]

ProcessInit ==
  /\ authSecret \in AuthSecret
  /\ session = {}
  /\ environ = ServerToken
  /\ call = [c \in Call |-> IdleCall]
  /\ made = 0

AccountsInit == db = EmptyTables /\ ProcessInit

RequestBegins(c, u) ==
  \/ \E k \in Kind \ {"github_token"} : SetKey(c, u, k)
  \/ \E t \in Token, owner \in Owner \cup {None}, repo \in Repo \cup {None} :
       Connect(c, u, t, owner, repo)
  \/ Disconnect(c, u)
  \/ \E p \in Provider : Update(c, u, p)
  \/ \E task \in BOOLEAN : AskProvider(c, u, task)

RequestStep(c) ==
  \/ ReadPrefs(c)
  \/ WritePrefs(c)
  \/ WriteFails(c)
  \/ AskAgain(c)
  \/ AskOwnKey(c)
  \/ AskGenericKey(c)
  \/ AskToken(c)
  \/ \E fails \in Fails : Finish(c, fails)
  \/ SetUp(c)

AccountsNext ==
  \/ \E c \in Call : RequestStep(c) \/ \E u \in User : RequestBegins(c, u)
  \/ \E u \in User : Login(u)
  \/ \E secret \in AuthSecret : Restart(secret)

AccountsSpec == AccountsInit /\ [][AccountsNext]_avars

------------------------------------------------------------------------------
(* Properties *)

\* The token row, the login shown for it and the owner tasks clone from are of
\* the same connection, for a user whose last connect or disconnect finished and
\* met no other one; the owner is the one it was given, or its account.
ConnectionCoherent ==
  \A u \in User :
    LET row == db.secrets[u]["github_token"]
        account == IF row = None THEN None ELSE row.value
        prefs == Prefs(u, FALSE)
    IN  ~db.torn[u] => prefs["github_login"] = account /\ prefs["github_owner"] = db.bound[u]

\* The settings of a task are its user's, and where a read failed the server's:
\* the provider is one the user chose while they were built, or the server's if
\* a read of it failed; the key belongs to such a provider or is the generic or
\* the server's; the token is one the user had linked, readable, then, or the
\* server's if there was none or the read of it failed.
BuiltFromOwnChoices ==
  \A c \in Call : Doing(c, "set_up") =>
    /\ call[c].built.provider \in call[c].providers
    /\ call[c].built.from \in {KindOf(p) : p \in call[c].providers} \cup {"ai_api_key", "server"}
    /\ \/ call[c].built.token \in call[c].tokens
       \/ None \in call[c].tokens /\ call[c].built.token = ServerToken

\* A task that has a token uses its own, unless another build ended before it
\* was set up and left its token in the environment.
OwnTokenUnlessOvertaken ==
  \A c \in Call : Doing(c, "set_up") =>
    \/ UsedToken(c) = call[c].built.token
    \/ ~call[c].alone
    \/ call[c].built.token = None

\* What the code promises less of.  build_user_settings puts the key where the
\* provider needs it; the provider of the key was read a second time.
KeyFitsProvider ==
  \A c \in Call : Doing(c, "set_up") =>
    call[c].built.from \in {KindOf(call[c].built.provider), "ai_api_key", "server"}

\* A random key is "per process": a token of this process is accepted.
LoginLasts == \A s \in session : s.secret = authSecret => Accepted(s.user)

\* The environment holds the token "for the duration of the task".
EnvironmentIsCleared == (\A c \in Call : Doing(c, "idle")) => environ = ServerToken

\* A connect without a repository falls "back to the server-configured repo".
RepositoryFallsBack ==
  [][\A c \in Call :
       LET r == call[c]
       IN  (r.pc = "write" /\ db' # db /\ call'[c].pc = "idle" /\ Connecting(r, r.user)
              /\ "github_repo" \notin DOMAIN r.update)
           => "github_repo" \notin DOMAIN db'.prefs[r.user] \/ db'.prefs[r.user]["github_repo"] = None]_avars
===============================================================================
