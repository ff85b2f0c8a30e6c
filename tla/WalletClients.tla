----------------------------- MODULE WalletClients -----------------------------
(***************************************************************************)
(* The wallets of the accounts and the SDK clients that act for them: the  *)
(* variables of .env that hold a wallet, the wallet each account runs      *)
(* with, the process-wide caches of secure-client.ts and relayer-wallet.ts *)
(* and the preparation of the wallets before the first copy cycle.         *)
(*                                                                         *)
(* A step is the code between two awaits.  A client is built once per      *)
(* cache key; whoever asks while it is built waits for the same promise.   *)
(***************************************************************************)
EXTENDS Integers, Sequences, FiniteSets, TLC

CONSTANTS
  AccountIds,   \* ids accounts may have, as sequences of characters
  DefaultIds,   \* those that spell "default" in some case
  Keys,         \* private keys
  Addresses,    \* wallet addresses
  EoaOf,        \* EoaOf[key]: the address a key signs for
  DerivedOf,    \* DerivedOf[key]: the deposit wallet the SDK derives for a key
  Spenders,     \* exchange contracts pUSD must be approved for
  WithRelayer,  \* suffixes with RELAYER_API_KEY and its address
  WithApiKey,   \* suffixes with POLYMARKET_API_KEY, SECRET and PASSPHRASE
  Deployed,     \* addresses the relayer has deployed
  SecureWallet, \* POLYMARKET_SECURE_WALLET: "auto", "settings", or None when it is not set
  Starts,       \* what the process may start with: its accounts, .env by suffix, approvals
  Updates,      \* wallets the dashboard may ask for; a field may be None
  Faults,       \* the events of AllFaults that may happen
  MaxEvents,    \* a bound on faults, wallet updates and moves of money together
  None

AllFaults == {"relayerDown", "deriveDown", "sdkDown", "setupDown", "rpcDown",
              "clobDown", "staleList", "geoDown", "reloadDown"}

VARIABLES
  env,        \* env[suffix]: the wallet of .env and process.env
  accounts,   \* the accounts of config.yaml
  loading,    \* those that a reload under way has still to load
  config,     \* config[a]: account.config.wallet
  clients,    \* clientByKey: a build under way, or the client
  deployed,   \* deployedCache
  approvals,  \* approvalsReadyByKey
  allowed,    \* allowed[address]: spenders approved on chain
  call,       \* who waits for which client
  phase,      \* "start", "setup", "poll" or "exited"
  todo,       \* accounts still to be prepared
  events,
  given,      \* history: the wallet a was last given, whatever the request was answered
  wanted,     \* history: that wallet when a was last loaded
  had         \* history: the keys and addresses accounts have run with

accountVars == <<env, accounts, loading, config, given, wanted, had>>
walletVars == <<accountVars, clients, deployed, approvals, allowed, call, phase, todo, events>>

-----------------------------------------------------------------------------
(* Wallets                                                                 *)

\* Letters are upper-cased, what is neither letter nor digit becomes "_".
EnvChar == "a" :> "A" @@ "A" :> "A" @@ "b" :> "B" @@ "B" :> "B" @@ "-" :> "_" @@ "_" :> "_"

NoSuffix(id) == << >>  \* (mutant) every account uses the unsuffixed variables
WalletEnvSuffix(id) ==
  IF id \in DefaultIds THEN << >> ELSE [i \in DOMAIN id |-> EnvChar[id[i]]]

\* Credentials are named by the suffix they were read under.
LoadWalletConfig(e, id) ==
  LET s == WalletEnvSuffix(id) IN
  [key |-> e[s].key, addr |-> e[s].addr,
   api |-> IF s \in WithApiKey THEN s ELSE None,
   relayer |-> IF s \in WithRelayer THEN s ELSE None]

\* A map with another entry, or without one.
With(f, k, v) == [x \in DOMAIN f \cup {k} |-> IF x = k THEN v ELSE f[x]]
Without(f, k) == [x \in DOMAIN f \ {k} |-> f[x]]

\* The wallet is not the address of its key.
IsDepositWallet(w) == w.addr # EoaOf[w.key]
\* The override counts for every wallet of the process.
SecureWalletMode(w) ==
  IF SecureWallet # None THEN SecureWallet ELSE IF IsDepositWallet(w) THEN "settings" ELSE "auto"

ByCredentials(w) == <<w.api, w.relayer, SecureWalletMode(w)>>  \* (mutant) without the address
CacheKey(w) == <<w.addr, w.api, w.relayer, SecureWalletMode(w)>>

\* The wallet a client trades with: the configured one, or the one the SDK derives.
AccountWallet(w) == IF SecureWalletMode(w) = "settings" THEN w.addr ELSE DerivedOf[w.key]

Suffixes == {WalletEnvSuffix(id) : id \in AccountIds}
EnvWallet == [key : Keys, addr : Addresses]
Wallet == [key : Keys, addr : Addresses, api : Suffixes \cup {None}, relayer : Suffixes \cup {None}]

ASSUME ConstantsOK ==
  /\ DefaultIds \subseteq AccountIds
  /\ \A id \in AccountIds : id \in Seq(DOMAIN EnvChar) /\ id # << >>
  /\ EoaOf \in [Keys -> Addresses] /\ DerivedOf \in [Keys -> Addresses]
  /\ \A k, l \in Keys : EoaOf[k] = EoaOf[l] => k = l
  /\ SecureWallet \in {"auto", "settings", None} /\ None \notin {"auto", "settings"}
  /\ Faults \subseteq AllFaults
  /\ MaxEvents \in Nat
  /\ Updates \subseteq [key : Keys \cup {None}, addr : Addresses \cup {None}]
  /\ \A i \in Starts : /\ i.accounts \subseteq AccountIds /\ i.accounts # {}
                       /\ \A a \in i.accounts : /\ WalletEnvSuffix(a) \in DOMAIN i.env
                                                 /\ i.env[WalletEnvSuffix(a)] \in EnvWallet

-----------------------------------------------------------------------------
(* Clients                                                                 *)

Callers == {"start", "cycle", "view"}
Idle == [status |-> "idle", wallet |-> None]
Ready == {k \in DOMAIN clients : clients[k].step = "ready"}

Happens == events < MaxEvents /\ events' = events + 1
\* A call gives up after its time-out and its retries.
Fails(f) == f \in Faults /\ Happens
Works == UNCHANGED events

\* getSecureClient: the cached promise, fulfilled or not, or that of a new build.
Promised(k) ==
  IF k \in Ready THEN "got"
  ELSE IF k \in DOMAIN clients /\ clients[k].step = "failed" THEN "failed" ELSE "waiting"
GetSecureClient(c, w) ==
  LET k == CacheKey(w) IN
  /\ clients' = IF k \in DOMAIN clients THEN clients
                ELSE With(clients, k, [step |-> "deployed", wallet |-> w, creds |-> None])
  /\ call' = [call EXCEPT ![c] = [status |-> Promised(k), wallet |-> w]]

\* All that wait for k are answered; nobody waits for the dashboard's answer.
Resolve(k, result) ==
  call' = [c \in Callers |->
             IF call[c].status = "waiting" /\ CacheKey(call[c].wallet) = k
             THEN IF c = "view" THEN Idle ELSE [call[c] EXCEPT !.status = result]
             ELSE call[c]]

\* (mutant) a failed build stays in the cache
KeepFailed(k) == clients' = [clients EXCEPT ![k].step = "failed"]
Drop(k) == clients' = Without(clients, k)

Failed(k) == Drop(k) /\ Resolve(k, "failed")

\* fetchRelayerWalletDeployed keeps its answer, also that of a failed call.
CheckDeployed(k) ==
  LET a == clients[k].wallet.addr
      Answered(yes) ==
        /\ deployed' = With(deployed, a, yes)
        /\ IF yes THEN clients' = [clients EXCEPT ![k].step = "derive"] /\ UNCHANGED call
           ELSE Failed(k)
  IN /\ clients[k].step = "deployed"
     /\ \/ /\ SecureWalletMode(clients[k].wallet) = "auto"
           /\ clients' = [clients EXCEPT ![k].step = "derive"]
           /\ Works /\ UNCHANGED <<deployed, call>>
        \/ /\ SecureWalletMode(clients[k].wallet) = "settings"
           /\ \/ a \in DOMAIN deployed /\ Answered(deployed[a]) /\ Works
              \/ a \notin DOMAIN deployed /\ Answered(a \in Deployed) /\ Works
              \/ a \notin DOMAIN deployed /\ Answered(FALSE) /\ Fails("relayerDown")

\* A deposit wallet without configured credentials derives its own, if it can; not so
\* where the override has the SDK choose the wallet.
Derive(k) ==
  LET w == clients[k].wallet
      deposit == SecureWalletMode(w) = "settings" /\ IsDepositWallet(w)
      Use(creds) == clients' = [clients EXCEPT ![k].step = "create", ![k].creds = creds]
  IN /\ clients[k].step = "derive"
     /\ \/ w.api # None /\ Use("configured") /\ Works
        \/ w.api = None /\ deposit /\ Use("deposit") /\ Works
        \/ w.api = None /\ deposit /\ Use("owner") /\ Fails("deriveDown")
        \/ w.api = None /\ ~deposit /\ Use("owner") /\ Works
     /\ UNCHANGED <<deployed, call>>

Create(k) ==
  /\ clients[k].step = "create"
  /\ \/ clients' = [clients EXCEPT ![k].step = "ready"] /\ Resolve(k, "got") /\ Works
     \/ Failed(k) /\ Fails("sdkDown")
  /\ UNCHANGED deployed

Build ==
  /\ \E k \in DOMAIN clients : CheckDeployed(k) \/ Derive(k) \/ Create(k)
  /\ UNCHANGED <<accountVars, approvals, allowed, phase, todo>>

-----------------------------------------------------------------------------
(* ensureTradingReady, before the first cycle                              *)

NextAccount == CHOOSE a \in todo : TRUE
StartKey == CacheKey(config[NextAccount])

Exit == phase' = "exited" /\ UNCHANGED <<todo, clients, call, allowed>>
Prepared(done) ==
  /\ todo' = todo \ done
  /\ phase' = IF todo' = {} THEN "poll" ELSE "start"
  /\ call' = [call EXCEPT !["start"] = Idle]
\* The promise is kept by cache key, for every account that has it.
Sharers == {a \in todo : CacheKey(config[a]) = StartKey}

\* fetchPusdAllowancesReady === true: no answer counts as not approved.
CheckApprovals ==
  LET w == config[NextAccount]
      Known(yes) ==
        /\ approvals' = With(approvals, StartKey, yes)
        /\ \/ /\ yes \/ (IsDepositWallet(w) /\ w.relayer # None)
              /\ GetSecureClient("start", w)
              /\ UNCHANGED <<phase, todo, allowed>>
           \/ ~yes /\ ~(IsDepositWallet(w) /\ w.relayer # None) /\ Exit
  IN /\ phase = "start" /\ call["start"] = Idle
     /\ \/ Known(allowed[w.addr] = Spenders) /\ Works
        \/ Known(FALSE) /\ Fails("rpcDown")

ClientForStart ==
  /\ phase = "start"
  /\ \/ call["start"].status = "failed" /\ Exit
     \/ /\ call["start"].status = "got" /\ approvals[StartKey]
        /\ Prepared(Sharers) /\ UNCHANGED <<clients, allowed>>
     \/ /\ call["start"].status = "got" /\ ~approvals[StartKey]
        /\ phase' = "setup" /\ UNCHANGED <<todo, clients, call, allowed>>
  /\ Works /\ UNCHANGED approvals

\* setupTradingApprovals, for the client's wallet; the client is then built anew.
SetUpApprovals ==
  /\ phase = "setup"
  /\ \/ /\ allowed' = [allowed EXCEPT ![AccountWallet(clients[StartKey].wallet)] = Spenders]
        /\ approvals' = With(approvals, StartKey, TRUE)
        /\ clients' = Without(clients, StartKey)
        /\ Prepared(Sharers) /\ Works
     \/ Exit /\ Fails("setupDown") /\ UNCHANGED approvals

Prepare ==
  /\ CheckApprovals \/ ClientForStart \/ SetUpApprovals
  /\ UNCHANGED <<accountVars, deployed>>

-----------------------------------------------------------------------------
(* The dashboard                                                           *)

\* Key and address, the part of a wallet the dashboard sets.
Keyed(w) == [key |-> w.key, addr |-> w.addr]

\* The request writes .env, process.env and config.yaml and begins the reload.  As in
\* ControlPlane, a second reload does not begin before the first has ended.
Given(a, w) ==
  /\ phase = "poll" /\ loading = {} /\ Happens
  /\ env' = With(env, WalletEnvSuffix(a), w)
  /\ accounts' = accounts \cup {a}
  /\ loading' = accounts'
  /\ UNCHANGED <<config, wanted, had, clients, deployed, approvals, allowed, call, phase, todo>>

\* A field the request leaves out keeps its value.
Merged(u, w) == [key |-> IF u.key = None THEN w.key ELSE u.key,
                 addr |-> IF u.addr = None THEN w.addr ELSE u.addr]

\* updateAccount with wallet fields; the account may be one that no reload has loaded.
UpdateWallet ==
  \E a \in accounts, u \in Updates :
    /\ Given(a, Merged(u, env[WalletEnvSuffix(a)]))
    /\ given' = [given EXCEPT ![a] = Merged(u, given[a])]

\* createAccountSchema: a new account comes with a key and an address.
Complete(u) == u.key # None /\ u.addr # None

CreateAccount ==
  \E a \in AccountIds \ accounts, u \in Updates :
    /\ Complete(u)
    /\ Given(a, u)
    /\ given' = With(given, a, u)

\* The reload loads one account after the other from process.env, awaiting the lookup of
\* its leaders.  When that fails the request gets a 400: .env keeps what was written, and
\* the accounts that are left keep their wallet until a later reload.
Load(a) ==
  /\ config' = With(config, a, LoadWalletConfig(env, a))
  /\ wanted' = With(wanted, a, given[a])
  /\ had' = had \cup {Keyed(config'[a])}
  /\ loading' = loading \ {a}

\* A later request of any kind reloads too; it matters when accounts were left.
NotLoaded == {a \in accounts : a \in DOMAIN config => config[a] # LoadWalletConfig(env, a)}
LaterReload ==
  /\ phase = "poll" /\ loading = {} /\ NotLoaded # {}
  /\ loading' = accounts
  /\ UNCHANGED <<env, accounts, config, given, wanted, had, clients, deployed, approvals,
                 allowed, call, phase, todo, events>>

Reload ==
  /\ loading # {}
  /\ \/ Load(CHOOSE a \in loading : TRUE) /\ Works
     \/ loading' = {} /\ Fails("reloadDown") /\ UNCHANGED <<config, wanted, had>>
  /\ UNCHANGED <<env, accounts, given, clients, deployed, approvals, allowed, call, phase, todo>>

\* The wallet page reads the collateral and needs a client for it.
ViewWallet ==
  /\ phase = "poll" /\ call["view"] = Idle
  /\ \E a \in DOMAIN config :
       /\ CacheKey(config[a]) \notin Ready
       /\ GetSecureClient("view", config[a])
  /\ UNCHANGED <<accountVars, deployed, approvals, allowed, phase, todo, events>>

WalletInit(start) ==
  /\ env = start.env
  /\ accounts = start.accounts /\ loading = {}
  /\ config = [a \in start.accounts |-> LoadWalletConfig(start.env, a)]
  /\ given = [a \in start.accounts |-> start.env[WalletEnvSuffix(a)]]
  /\ wanted = given
  /\ had = {Keyed(config[a]) : a \in start.accounts}
  /\ clients = << >> /\ deployed = << >> /\ approvals = << >>
  /\ allowed = start.approved
  /\ call = [c \in Callers |-> Idle]
  /\ phase = "start" /\ todo = start.accounts
  /\ events = 0

WalletNext ==
  \/ Build \/ Prepare
  \/ UpdateWallet \/ CreateAccount \/ LaterReload \/ Reload
  \/ ViewWallet

=============================================================================
