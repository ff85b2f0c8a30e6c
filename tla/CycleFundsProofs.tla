--------------------------- MODULE CycleFundsProofs ---------------------------
(***************************************************************************)
(* Proofs about WalletClients and CycleFunds: accounts act with their own  *)
(* wallets only, every order was covered when the wallet was read, and a   *)
(* sell is given up only when the shares do not reach for it.              *)
(***************************************************************************)
EXTENDS CycleFunds, SequenceTheorems, FiniteSetTheorems, WellFoundedInduction, TLAPS

-----------------------------------------------------------------------------
(* The invariants                                                          *)

\* The wallets accounts have run with.
Run == {w \in Wallet : Keyed(w) \in had}

\* What an account is given is what its variables of .env hold, unless it shares them; what
\* it runs with is what they held as it was loaded.
WalletsInv ==
  /\ accounts \subseteq AccountIds /\ DOMAIN given = accounts /\ loading \subseteq accounts
  /\ DOMAIN config \subseteq accounts /\ DOMAIN wanted = DOMAIN config
  /\ \A a \in accounts :
       /\ WalletEnvSuffix(a) \in DOMAIN env /\ env[WalletEnvSuffix(a)] \in EnvWallet
       /\ given[a] \in EnvWallet
       /\ Alone(a) => env[WalletEnvSuffix(a)] = given[a]
  /\ \A a \in DOMAIN config :
       /\ config[a] \in Run
       /\ Alone(a) => Keyed(config[a]) = wanted[a]

\* A cached client was built for a wallet with its key, and takes the credentials that
\* wallet has.
Steps == {"deployed", "derive", "create", "ready"}
ClientsInv ==
  \A k \in DOMAIN clients :
    LET cl == clients[k] IN
    /\ cl = [step |-> cl.step, wallet |-> cl.wallet, creds |-> cl.creds]
    /\ cl.step \in Steps
    /\ cl.wallet \in Run /\ CacheKey(cl.wallet) = k
    /\ cl.step \in {"create", "ready"} => (cl.creds = "configured" <=> cl.wallet.api # None)

\* Who has been handed a client finds it in the cache, ready.
CallsInv ==
  /\ call \in [Callers -> [status : {"idle", "waiting", "got", "failed"}, wallet : Wallet \cup {None}]]
  /\ \A c \in Callers : call[c].status # "idle" => call[c].wallet \in Run
  /\ \A c \in Callers : call[c].status = "got" => CacheKey(call[c].wallet) \in Ready

\* Only the preparation of the wallets drops a client that is ready; it is the only
\* one to use clients before the first cycle.
PhaseInv ==
  /\ phase \in {"start", "setup", "poll", "exited"}
  /\ phase # "poll" => cycle.pc = "idle" /\ \A c \in Callers : call[c].status # "idle" => c = "start"
  /\ phase \in {"start", "setup"} => todo # {} /\ todo \subseteq DOMAIN config

\* A cycle acts with the wallet its account had when it began, and asks for clients of it.
CycleFields == {"pc", "acct", "wallet", "queue", "trade", "coll", "snap", "again"}
CycleWallet ==
  /\ DOMAIN cycle = CycleFields
  /\ cycle.pc # "idle" => cycle.wallet \in Run
CycleCall == cycle.pc \in {"client", "submit"} => call["cycle"].wallet = cycle.wallet

HandsInv == ClientsInv /\ CallsInv
HandedInv == WalletsInv /\ HandsInv /\ PhaseInv /\ CycleWallet /\ CycleCall

-----------------------------------------------------------------------------

\* Money and shares of a wallet, and what left the cycle's.
Holding == [pusd : Nat, usdce : Nat, token : Nat]
Gone == [cash : Nat, token : Nat, moved : BOOLEAN]

FundTypes ==
  /\ real \in [Addresses -> Holding]
  /\ left \in Gone

OrderTypes ==
  /\ DOMAIN order = Trades /\ DOMAIN at = Trades /\ DOMAIN lost = Trades
  /\ \A t \in Trades : order[t] = "resting" => at[t] \in Addresses
  /\ \A t \in Trades : lost[t] # None => lost[t] \in Addresses
  /\ cycle.pc # "idle" => cycle.queue \subseteq Trades
  /\ cycle.pc \in {"client", "chain", "decide", "place", "submit"} => Now \in Trades

\* What a reading showed is held now, or has left since, if the client traded with the
\* wallet whose money counts.
Agreed == Agrees(cycle.wallet)
Backed(n, there) == n # None => n \in Nat /\ n <= there
CashBacked(coll, ok, held, gone) ==
  /\ DOMAIN coll = {"clob", "allowance", "chain", "ready", "fresh"}
  /\ ok /\ coll.fresh =>
       Backed(coll.clob, held.pusd + gone) /\ Backed(coll.chain, held.pusd + held.usdce + gone)
SharesBacked(snap, ok, held, gone) ==
  ok /\ snap.fresh => Backed(snap.balance, held.token + gone)

CashKnown == cycle.coll # None \/ cycle.pc = "chain" \/ (cycle.pc = "decide" /\ IsBuy(Now))
SharesKnown == cycle.snap # None \/ (cycle.pc = "decide" /\ ~IsBuy(Now))

\* A client for a token reading is asked for only while there is none; the chain is
\* asked for buys only.
ReadingsInv ==
  cycle.pc # "idle" =>
    /\ CashKnown => CashBacked(cycle.coll, Agreed, real[Where], left.cash)
    /\ SharesKnown => SharesBacked(cycle.snap, Agreed, real[Where], left.token)
    /\ cycle.pc = "client" /\ ~IsBuy(Now) => cycle.snap = None
    /\ cycle.pc = "chain" => IsBuy(Now)

FundsInv == FundTypes /\ OrderTypes /\ ReadingsInv /\ OrdersCovered

-----------------------------------------------------------------------------
(* Wallets                                                                 *)

\* Ids that get the same variables of .env are alike.
LEMMA SameSuffix ==
  ASSUME NEW a \in AccountIds, NEW b \in AccountIds, WalletEnvSuffix(a) = WalletEnvSuffix(b)
  PROVE  Alike(a, b)
<1>1. /\ a \in Seq(DOMAIN EnvChar) /\ a # << >>
      /\ b \in Seq(DOMAIN EnvChar) /\ b # << >>
  BY ConstantsOK
<1>2. /\ DOMAIN a = 1..Len(a) /\ Len(a) \in Nat /\ Len(a) > 0
      /\ DOMAIN b = 1..Len(b) /\ Len(b) \in Nat /\ Len(b) > 0
  BY <1>1, LenProperties, EmptySeq
<1>3. CASE a \in DefaultIds /\ b \in DefaultIds
  BY <1>3 DEF Alike
<1>4. CASE a \notin DefaultIds /\ b \notin DefaultIds
  <2> DEFINE f == [i \in DOMAIN a |-> EnvChar[a[i]]]
             g == [i \in DOMAIN b |-> EnvChar[b[i]]]
  <2>1. f = g
    BY <1>4 DEF WalletEnvSuffix
  <2>2. DOMAIN a = DOMAIN b
    <3>1. DOMAIN f = DOMAIN a /\ DOMAIN g = DOMAIN b
      OBVIOUS
    <3> HIDE DEF f, g
    <3> QED BY <2>1, <3>1
  <2>3. \A i \in DOMAIN a : EnvChar[a[i]] = EnvChar[b[i]]
    <3> TAKE i \in DOMAIN a
    <3>1. f[i] = EnvChar[a[i]] /\ g[i] = EnvChar[b[i]]
      BY <2>2
    <3> HIDE DEF f, g
    <3> QED BY <2>1, <3>1
  <2>4. Len(a) = Len(b)
    <3>1. Len(a) \in 1..Len(b) /\ Len(b) \in 1..Len(a)
      BY <1>2, <2>2
    <3>2. Len(a) \in Nat /\ Len(b) \in Nat
      BY <1>2
    <3> DEFINE m == Len(a)
               n == Len(b)
    <3> HIDE DEF m, n
    <3>3. m \in Nat /\ n \in Nat /\ m \in 1..n /\ n \in 1..m
      BY <3>1, <3>2 DEF m, n
    <3>4. m = n
      BY <3>3
    <3> QED BY <3>4 DEF m, n
  <2> QED BY <2>3, <2>4 DEF Alike
<1>5. CASE a \in DefaultIds /\ b \notin DefaultIds
  <2>1. << >> = [i \in DOMAIN b |-> EnvChar[b[i]]]
    BY <1>5 DEF WalletEnvSuffix
  <2>2. DOMAIN b = {}
    BY <2>1
  <2> QED BY <1>2, <2>2
<1>6. CASE a \notin DefaultIds /\ b \in DefaultIds
  <2>1. << >> = [i \in DOMAIN a |-> EnvChar[a[i]]]
    BY <1>6 DEF WalletEnvSuffix
  <2>2. DOMAIN a = {}
    BY <2>1
  <2> QED BY <1>2, <2>2
<1> QED BY <1>3, <1>4, <1>5, <1>6

LEMMA LoadedWallet ==
  ASSUME NEW e, NEW a \in AccountIds, e[WalletEnvSuffix(a)] \in EnvWallet
  PROVE  LoadWalletConfig(e, a) \in Wallet
<1> DEFINE s == WalletEnvSuffix(a)
<1>1. s \in Suffixes
  BY DEF Suffixes
<1> HIDE DEF s
<1>2. e[s].key \in Keys /\ e[s].addr \in Addresses
  BY DEF EnvWallet, s
<1>3. LoadWalletConfig(e, a) = [key |-> e[s].key, addr |-> e[s].addr,
                                api |-> IF s \in WithApiKey THEN s ELSE None,
                                relayer |-> IF s \in WithRelayer THEN s ELSE None]
  BY DEF LoadWalletConfig, s
<1> QED BY <1>1, <1>2, <1>3 DEF Wallet

LEMMA RunWallets ==
  ASSUME NEW w \in Run
  PROVE  w \in Wallet /\ Keyed(w) \in had /\ w.addr \in Addresses /\ w.key \in Keys
BY DEF Run, Wallet

LEMMA RunGrows ==
  ASSUME had \subseteq had'
  PROVE  Run \subseteq Run'
BY DEF Run, Wallet, Keyed

LEMMA ConfiguredWallets ==
  ASSUME WalletsInv
  PROVE  \A a \in DOMAIN config : config[a] \in Wallet /\ config[a] \in Run
BY RunWallets DEF WalletsInv

LEMMA MergedWallet ==
  ASSUME NEW u \in Updates, NEW w \in EnvWallet
  PROVE  Merged(u, w) \in EnvWallet
<1>1. u \in [key : Keys \cup {None}, addr : Addresses \cup {None}]
  BY ConstantsOK
<1>2. u.key \in Keys \cup {None} /\ u.addr \in Addresses \cup {None}
  BY <1>1
<1> QED BY <1>2 DEF Merged, EnvWallet

\* A wallet given to one account does not reach another that is not like it.
LEMMA GivenKeeps ==
  ASSUME WalletsInv, NEW a \in AccountIds, NEW w \in EnvWallet, Given(a, w),
         DOMAIN given' = accounts \cup {a}, given'[a] \in EnvWallet,
         Alone(a)' => given'[a] = w,
         \A b \in accounts \ {a} : given'[b] = given[b]
  PROVE  WalletsInv' /\ UNCHANGED <<config, had, clients, call, phase, todo>>
<1> DEFINE s == WalletEnvSuffix(a)
           D == accounts \cup {a}
<1>1. /\ env' = With(env, s, w) /\ accounts' = D /\ loading' = D
      /\ UNCHANGED <<config, wanted, had, clients, call, phase, todo>>
  BY DEF Given
<1>2. /\ DOMAIN env' = {s} \cup DOMAIN env /\ env'[s] = w
      /\ \A x \in DOMAIN env : x # s => env'[x] = env[x]
  <2>1. /\ DOMAIN With(env, s, w) = {s} \cup DOMAIN env /\ With(env, s, w)[s] = w
        /\ \A x \in DOMAIN env : x # s => With(env, s, w)[x] = env[x]
    BY DEF With
  <2> HIDE DEF s
  <2> QED BY <1>1, <2>1
<1>3. D \subseteq AccountIds /\ DOMAIN given' = D
  BY DEF WalletsInv
<1>4. \A b : Alone(b)' => Alone(b) /\ (b # a => ~Alike(b, a))
  BY <1>1 DEF Alone
<1>5. ASSUME NEW b \in D
      PROVE  /\ WalletEnvSuffix(b) \in DOMAIN env' /\ env'[WalletEnvSuffix(b)] \in EnvWallet
             /\ given'[b] \in EnvWallet
             /\ Alone(b)' => env'[WalletEnvSuffix(b)] = given'[b]
  <2>1. CASE b = a
    BY <1>2, <2>1
  <2>2. CASE b # a
    <3>1. /\ b \in accounts /\ given'[b] = given[b] /\ given[b] \in EnvWallet
          /\ WalletEnvSuffix(b) \in DOMAIN env /\ env[WalletEnvSuffix(b)] \in EnvWallet
          /\ Alone(b) => env[WalletEnvSuffix(b)] = given[b]
      BY <2>2 DEF WalletsInv
    <3>2. WalletEnvSuffix(b) \in DOMAIN env' /\ env'[WalletEnvSuffix(b)] \in EnvWallet
      BY <1>2, <3>1
    <3>3. ~Alike(b, a) => WalletEnvSuffix(b) # s
      BY <1>3, SameSuffix
    <3> QED BY <1>2, <1>4, <2>2, <3>1, <3>2, <3>3
  <2> QED BY <2>1, <2>2
<1>6. ASSUME NEW b \in DOMAIN config'
      PROVE  config'[b] \in Run' /\ (Alone(b)' => Keyed(config'[b]) = wanted'[b])
  BY <1>1, <1>4, RunGrows DEF WalletsInv
<1>7. /\ DOMAIN config' \subseteq accounts' /\ DOMAIN wanted' = DOMAIN config' /\ accounts' \subseteq AccountIds
      /\ DOMAIN given' = accounts' /\ loading' \subseteq accounts'
  BY <1>1, <1>3 DEF WalletsInv
<1>8. WalletsInv'
  <2> HIDE DEF D
  <2>1. accounts' = D
    BY <1>1 DEF D
  <2> QED BY <1>5, <1>6, <1>7, <2>1 DEF WalletsInv, Keyed
<1> QED BY <1>1, <1>8

LEMMA WalletsStill ==
  ASSUME WalletsInv, UNCHANGED accountVars
  PROVE  WalletsInv' /\ UNCHANGED <<config, had>>
<1>1. UNCHANGED <<env, accounts, loading, config, given, wanted, had>>
  BY DEF accountVars
<1>2. Run \subseteq Run'
  BY <1>1, RunGrows
<1>3. \A a : Alone(a)' <=> Alone(a)
  BY <1>1 DEF Alone
<1> QED BY <1>1, <1>2, <1>3 DEF WalletsInv, Keyed

LEMMA DashboardKeeps ==
  ASSUME WalletsInv, UpdateWallet \/ CreateAccount
  PROVE  WalletsInv' /\ UNCHANGED <<config, had, clients, call, phase, todo>>
<1>1. ASSUME NEW a \in accounts, NEW u \in Updates,
             Given(a, Merged(u, env[WalletEnvSuffix(a)])),
             given' = [given EXCEPT ![a] = Merged(u, given[a])]
      PROVE  WalletsInv' /\ UNCHANGED <<config, had, clients, call, phase, todo>>
  <2> DEFINE w == Merged(u, env[WalletEnvSuffix(a)])
  <2>1. a \in AccountIds /\ DOMAIN given = accounts /\ w \in EnvWallet
        /\ Merged(u, given[a]) \in EnvWallet
    BY MergedWallet DEF WalletsInv
  <2>2. accounts' = accounts
    BY <1>1 DEF Given
  <2>3. Alone(a)' => Merged(u, given[a]) = w
    BY <2>2 DEF WalletsInv, Alone
  <2>4. /\ DOMAIN given' = accounts \cup {a} /\ given'[a] = Merged(u, given[a])
        /\ \A b \in accounts \ {a} : given'[b] = given[b]
    BY <1>1, <2>1
  <2> HIDE DEF w
  <2>5. Given(a, w)
    BY <1>1 DEF w
  <2> QED BY <2>1, <2>3, <2>4, <2>5, GivenKeeps
<1>2. ASSUME NEW a \in AccountIds \ accounts, NEW u \in Updates, Complete(u),
             Given(a, u), given' = With(given, a, u)
      PROVE  WalletsInv' /\ UNCHANGED <<config, had, clients, call, phase, todo>>
  <2>1. u \in EnvWallet
    <3>1. u \in [key : Keys \cup {None}, addr : Addresses \cup {None}] /\ u.key # None /\ u.addr # None
      BY <1>2, ConstantsOK DEF Complete
    <3> QED BY <3>1 DEF EnvWallet
  <2>2. /\ DOMAIN given' = accounts \cup {a} /\ given'[a] = u
        /\ \A b \in accounts \ {a} : given'[b] = given[b]
    <3>1. /\ DOMAIN With(given, a, u) = {a} \cup DOMAIN given /\ With(given, a, u)[a] = u
          /\ \A x \in DOMAIN given : x # a => With(given, a, u)[x] = given[x]
      BY DEF With
    <3>2. DOMAIN given = accounts
      BY DEF WalletsInv
    <3> QED BY <1>2, <3>1, <3>2
  <2> QED BY <1>2, <2>1, <2>2, GivenKeeps
<1> QED BY <1>1, <1>2 DEF UpdateWallet, CreateAccount

\* What is loaded is what .env holds by now, the wallet given last if the account is alone.
LEMMA LoadKeeps ==
  ASSUME WalletsInv, NEW a \in loading, Load(a), UNCHANGED <<env, accounts, given>>
  PROVE  WalletsInv' /\ DOMAIN config \subseteq DOMAIN config' /\ had \subseteq had'
<1> DEFINE new == LoadWalletConfig(env, a)
<1>1. /\ config' = With(config, a, new) /\ wanted' = With(wanted, a, given[a])
      /\ had' = had \cup {Keyed(config'[a])} /\ loading' = loading \ {a}
  BY DEF Load
<1>2. /\ a \in accounts /\ a \in AccountIds /\ env[WalletEnvSuffix(a)] \in EnvWallet
      /\ given[a] \in EnvWallet
      /\ Alone(a) => env[WalletEnvSuffix(a)] = given[a]
  BY DEF WalletsInv
<1>3. new \in Wallet
  BY <1>2, LoadedWallet
<1>4. Keyed(new) = env[WalletEnvSuffix(a)]
  <2>1. Keyed(new) = [key |-> env[WalletEnvSuffix(a)].key, addr |-> env[WalletEnvSuffix(a)].addr]
    BY DEF Keyed, LoadWalletConfig
  <2> QED BY <1>2, <2>1 DEF EnvWallet
<1> HIDE DEF new
<1>5. /\ DOMAIN config' = {a} \cup DOMAIN config /\ config'[a] = new
      /\ \A x \in DOMAIN config : x # a => config'[x] = config[x]
  <2>1. /\ DOMAIN With(config, a, new) = {a} \cup DOMAIN config /\ With(config, a, new)[a] = new
        /\ \A x \in DOMAIN config : x # a => With(config, a, new)[x] = config[x]
    BY DEF With
  <2> QED BY <1>1, <2>1
<1>6. /\ DOMAIN wanted' = {a} \cup DOMAIN wanted /\ wanted'[a] = given[a]
      /\ \A x \in DOMAIN wanted : x # a => wanted'[x] = wanted[x]
  <2> DEFINE g == given[a]
  <2> HIDE DEF g
  <2>1. /\ DOMAIN With(wanted, a, g) = {a} \cup DOMAIN wanted /\ With(wanted, a, g)[a] = g
        /\ \A x \in DOMAIN wanted : x # a => With(wanted, a, g)[x] = wanted[x]
    BY DEF With
  <2> QED BY <1>1, <2>1 DEF g
<1>7. had' = had \cup {Keyed(new)}
  BY <1>1, <1>5
<1>8. Run \subseteq Run' /\ new \in Run'
  <2>1. Keyed(new) \in had'
    BY <1>7
  <2>2. new \in Run'
    BY <1>3, <2>1 DEF Run, Wallet, Keyed
  <2> QED BY <1>7, <2>2, RunGrows
<1>9. \A b \in accounts : Alone(b)' <=> Alone(b)
  BY DEF Alone
<1>10. ASSUME NEW b \in DOMAIN config'
       PROVE  config'[b] \in Run' /\ (Alone(b)' => Keyed(config'[b]) = wanted'[b])
  <2>1. CASE b = a
    <3>1. Alone(a)' => Keyed(new) = given[a]
      <4>1. Alone(a)' <=> Alone(a)
        BY DEF Alone
      <4> QED BY <1>2, <1>4, <4>1
    <3>2. config'[b] = new /\ wanted'[b] = given[a]
      BY <1>5, <1>6, <2>1
    <3>3. Alone(b)' => Alone(a)'
      BY <2>1 DEF Alone
    <3> QED BY <1>8, <3>1, <3>2, <3>3
  <2>2. CASE b # a
    <3>1. /\ b \in accounts /\ b \in DOMAIN config /\ b \in DOMAIN wanted /\ config[b] \in Run
          /\ Alone(b) => Keyed(config[b]) = wanted[b]
      BY <1>5, <2>2 DEF WalletsInv
    <3> QED BY <1>5, <1>6, <1>8, <1>9, <2>2, <3>1
  <2> QED BY <2>1, <2>2
<1>11. /\ DOMAIN config' \subseteq accounts' /\ DOMAIN wanted' = DOMAIN config' /\ accounts' \subseteq AccountIds
       /\ DOMAIN given' = accounts' /\ loading' \subseteq accounts'
  BY <1>1, <1>2, <1>5, <1>6 DEF WalletsInv
<1>12. WalletsInv'
  BY <1>9, <1>10, <1>11 DEF WalletsInv, Keyed
<1> QED BY <1>5, <1>7, <1>12

\* A reload goes on, fails, or begins anew.
LEMMA ReloadKeeps ==
  ASSUME WalletsInv, Reload \/ LaterReload
  PROVE  /\ WalletsInv' /\ DOMAIN config \subseteq DOMAIN config' /\ had \subseteq had'
         /\ UNCHANGED <<clients, call, phase, todo>>
<1>1. CASE LaterReload
  <2>1. UNCHANGED <<env, accounts, config, given, wanted, had, clients, call, phase, todo>> /\ loading' = accounts
    BY <1>1 DEF LaterReload
  <2>2. Run \subseteq Run' /\ \A a : Alone(a)' <=> Alone(a)
    BY <2>1, RunGrows DEF Alone
  <2> QED BY <2>1, <2>2 DEF WalletsInv, Keyed
<1>2. CASE Reload
  <2>1. /\ loading # {} /\ UNCHANGED <<env, accounts, given, clients, call, phase, todo>>
        /\ \/ Load(CHOOSE a \in loading : TRUE)
           \/ loading' = {} /\ UNCHANGED <<config, wanted, had>>
    BY <1>2 DEF Reload
  <2>2. CASE Load(CHOOSE a \in loading : TRUE)
    BY <2>1, <2>2, LoadKeeps
  <2>3. CASE loading' = {} /\ UNCHANGED <<config, wanted, had>>
    <3>1. Run \subseteq Run' /\ \A a : Alone(a)' <=> Alone(a)
      BY <2>1, <2>3, RunGrows DEF Alone
    <3> QED BY <2>1, <2>3, <3>1 DEF WalletsInv, Keyed
  <2> QED BY <2>1, <2>2, <2>3
<1> QED BY <1>1, <1>2

-----------------------------------------------------------------------------
(* Clients and who waits for them                                          *)

LEMMA CallShape ==
  ASSUME CallsInv, NEW c \in Callers
  PROVE  /\ call[c].status \in {"idle", "waiting", "got", "failed"}
         /\ call[c] = [status |-> call[c].status, wallet |-> call[c].wallet]
         /\ call[c].wallet \in Wallet \cup {None}
BY DEF CallsInv

\* Asking adds a client to be built at most, and answers at once with a ready one.
LEMMA AskKeeps ==
  ASSUME HandsInv, NEW c \in Callers, NEW w \in Run, GetSecureClient(c, w), UNCHANGED had
  PROVE  /\ HandsInv' /\ call'[c].status # "idle" /\ call'[c].wallet = w
         /\ \A d \in Callers \ {c} : call'[d] = call[d]
<1> DEFINE k == CacheKey(w)
           new == [step |-> "deployed", wallet |-> w, creds |-> None]
           result == Promised(k)
           answer == [status |-> result, wallet |-> w]
<1>0. w \in Wallet /\ Run \subseteq Run'
  BY RunWallets, RunGrows
<1>1. /\ clients' = IF k \in DOMAIN clients THEN clients ELSE With(clients, k, new)
      /\ call' = [call EXCEPT ![c] = answer]
  BY DEF GetSecureClient
<1>2. /\ DOMAIN With(clients, k, new) = {k} \cup DOMAIN clients /\ With(clients, k, new)[k] = new
      /\ \A x \in DOMAIN clients : x # k => With(clients, k, new)[x] = clients[x]
  BY DEF With
<1>3. new.step = "deployed" /\ new.wallet = w /\ new.creds = None
  OBVIOUS
<1>4. new = [step |-> new.step, wallet |-> new.wallet, creds |-> new.creds]
  BY <1>3
<1>5. /\ result \in {"waiting", "got", "failed"} /\ (result = "got" => k \in Ready)
      /\ answer.status = result /\ answer.wallet = w
      /\ answer \in [status : {"idle", "waiting", "got", "failed"}, wallet : Wallet \cup {None}]
  <2>1. result \in {"waiting", "got", "failed"} /\ (result = "got" => k \in Ready)
    BY DEF Promised
  <2> HIDE DEF result
  <2> QED BY <1>0, <2>1
<1>6. CacheKey(w) = k
  OBVIOUS
<1> HIDE DEF new, answer, k, result
<1>7. ClientsInv'
  <2>1. CASE k \in DOMAIN clients
    BY <1>0, <1>1, <2>1 DEF HandsInv, ClientsInv, CacheKey, SecureWalletMode, IsDepositWallet
  <2>2. CASE k \notin DOMAIN clients
    <3>1. /\ DOMAIN clients' = {k} \cup DOMAIN clients /\ clients'[k] = new
          /\ \A x \in DOMAIN clients : x # k => clients'[x] = clients[x]
      BY <1>1, <1>2, <2>2
    <3> SUFFICES ASSUME NEW j \in DOMAIN clients'
                 PROVE  LET cl == clients'[j] IN
                        /\ cl = [step |-> cl.step, wallet |-> cl.wallet, creds |-> cl.creds]
                        /\ cl.step \in Steps
                        /\ cl.wallet \in Run' /\ CacheKey(cl.wallet) = j
                        /\ cl.step \in {"create", "ready"} => (cl.creds = "configured" <=> cl.wallet.api # None)
      BY DEF ClientsInv, CacheKey, SecureWalletMode, IsDepositWallet
    <3>2. CASE j = k
      <4>1. clients'[j] = new
        BY <3>1, <3>2
      <4> QED BY <1>0, <1>3, <1>4, <1>6, <3>2, <4>1 DEF Steps
    <3>3. CASE j # k
      <4>1. j \in DOMAIN clients /\ clients'[j] = clients[j]
        BY <3>1, <3>3
      <4> QED BY <1>0, <4>1 DEF HandsInv, ClientsInv
    <3> QED BY <3>2, <3>3
  <2> QED BY <2>1, <2>2
<1>8. Ready \subseteq Ready'
  <2>1. \A x \in DOMAIN clients : x \in DOMAIN clients' /\ (x # k \/ k \in DOMAIN clients => clients'[x] = clients[x])
    BY <1>1, <1>2
  <2> QED BY <2>1 DEF Ready
<1>9. /\ call'[c] = answer /\ \A d \in Callers \ {c} : call'[d] = call[d]
      /\ call' \in [Callers -> [status : {"idle", "waiting", "got", "failed"}, wallet : Wallet \cup {None}]]
  BY <1>1, <1>5 DEF HandsInv, CallsInv
<1>10. CallsInv'
  <2>1. ASSUME NEW d \in Callers
        PROVE  /\ call'[d].status # "idle" => call'[d].wallet \in Run'
               /\ call'[d].status = "got" => CacheKey(call'[d].wallet) \in Ready'
    <3>1. CASE d = c
      BY <1>0, <1>5, <1>6, <1>8, <1>9, <3>1
    <3>2. CASE d # c
      BY <1>0, <1>8, <1>9, <3>2 DEF HandsInv, CallsInv
    <3> QED BY <3>1, <3>2
  <2> QED BY <1>9, <2>1 DEF CallsInv, CacheKey, SecureWalletMode, IsDepositWallet
<1> QED BY <1>5, <1>7, <1>9, <1>10 DEF HandsInv

\* Who asks for nothing any more leaves the others as they are.
LEMMA LeaveKeeps ==
  ASSUME HandsInv, NEW c \in Callers, call' = [call EXCEPT ![c] = Idle], UNCHANGED clients, UNCHANGED had
  PROVE  HandsInv' /\ \A d \in Callers \ {c} : call'[d] = call[d]
<1>0. Run \subseteq Run'
  BY RunGrows
<1>1. Idle.status = "idle" /\ Idle \in [status : {"idle", "waiting", "got", "failed"}, wallet : Wallet \cup {None}]
  BY DEF Idle
<1>2. /\ call'[c] = Idle /\ \A d \in Callers \ {c} : call'[d] = call[d]
      /\ call' \in [Callers -> [status : {"idle", "waiting", "got", "failed"}, wallet : Wallet \cup {None}]]
  BY <1>1 DEF HandsInv, CallsInv
<1>3. CallsInv'
  <2>1. ASSUME NEW d \in Callers
        PROVE  /\ call'[d].status # "idle" => call'[d].wallet \in Run'
               /\ call'[d].status = "got" => CacheKey(call'[d].wallet) \in Ready
    BY <1>0, <1>1, <1>2 DEF HandsInv, CallsInv
  <2> QED BY <1>2, <2>1 DEF CallsInv, Ready, CacheKey, SecureWalletMode, IsDepositWallet
<1>4. ClientsInv'
  BY <1>0 DEF HandsInv, ClientsInv, CacheKey, SecureWalletMode, IsDepositWallet
<1> QED BY <1>2, <1>3, <1>4 DEF HandsInv

LEMMA HandsStill ==
  ASSUME HandsInv, UNCHANGED <<clients, call>>, had \subseteq had'
  PROVE  HandsInv'
<1>1. Run \subseteq Run'
  BY RunGrows
<1> QED BY <1>1 DEF HandsInv, ClientsInv, CallsInv, Ready, CacheKey, SecureWalletMode, IsDepositWallet

\* A client that is being built takes its next step.
LEMMA AdvanceKeeps ==
  ASSUME ClientsInv, NEW k \in DOMAIN clients, NEW st \in Steps, NEW creds, UNCHANGED had,
         clients' = [clients EXCEPT ![k] = [step |-> st, wallet |-> clients[k].wallet, creds |-> creds]],
         st \in {"create", "ready"} => (creds = "configured" <=> clients[k].wallet.api # None)
  PROVE  /\ ClientsInv' /\ DOMAIN clients' = DOMAIN clients /\ clients'[k].step = st
         /\ \A j \in DOMAIN clients \ {k} : clients'[j] = clients[j]
<1> DEFINE next == [step |-> st, wallet |-> clients[k].wallet, creds |-> creds]
<1>1. next.step = st /\ next.wallet = clients[k].wallet /\ next.creds = creds
      /\ next = [step |-> next.step, wallet |-> next.wallet, creds |-> next.creds]
  OBVIOUS
<1>2. clients' = [clients EXCEPT ![k] = next]
  OBVIOUS
<1> HIDE DEF next
<1>3. /\ DOMAIN clients' = DOMAIN clients /\ clients'[k] = next
      /\ \A j \in DOMAIN clients \ {k} : clients'[j] = clients[j]
  BY <1>2
<1>4. clients[k].wallet \in Run /\ CacheKey(clients[k].wallet) = k /\ Run \subseteq Run'
  BY RunGrows DEF ClientsInv
<1>5. ASSUME NEW j \in DOMAIN clients'
      PROVE  LET cl == clients'[j] IN
             /\ cl = [step |-> cl.step, wallet |-> cl.wallet, creds |-> cl.creds]
             /\ cl.step \in Steps
             /\ cl.wallet \in Run' /\ CacheKey(cl.wallet) = j
             /\ cl.step \in {"create", "ready"} => (cl.creds = "configured" <=> cl.wallet.api # None)
  <2>1. CASE j = k
    <3>1. clients'[j] = next
      BY <1>3, <2>1
    <3> QED BY <1>1, <1>4, <2>1, <3>1
  <2>2. CASE j # k
    BY <1>3, <1>4, <2>2 DEF ClientsInv
  <2> QED BY <2>1, <2>2
<1> QED BY <1>1, <1>3, <1>5 DEF ClientsInv, CacheKey, SecureWalletMode, IsDepositWallet

LEMMA DropKeeps ==
  ASSUME ClientsInv, NEW k, clients' = Without(clients, k), UNCHANGED had
  PROVE  /\ ClientsInv' /\ DOMAIN clients' = DOMAIN clients \ {k}
         /\ \A j \in DOMAIN clients \ {k} : clients'[j] = clients[j]
<1>1. /\ DOMAIN clients' = DOMAIN clients \ {k}
      /\ \A j \in DOMAIN clients \ {k} : clients'[j] = clients[j]
  BY DEF Without
<1>2. Run \subseteq Run'
  BY RunGrows
<1> QED BY <1>1, <1>2 DEF ClientsInv, CacheKey, SecureWalletMode, IsDepositWallet

\* All who wait for a client are answered, with one that is ready or with a failure.
LEMMA AnswerKeeps ==
  ASSUME CallsInv, NEW k, NEW result \in {"got", "failed"}, Resolve(k, result),
         \A j \in Ready : j # k => j \in Ready',
         result = "got" => k \in Ready', k \notin Ready, UNCHANGED had
  PROVE  /\ CallsInv' /\ call'["cycle"].wallet = call["cycle"].wallet
         /\ \A c \in Callers : call'[c].status # "idle" => call[c].status # "idle"
<1> DEFINE answer(c) == IF call[c].status = "waiting" /\ CacheKey(call[c].wallet) = k
                        THEN IF c = "view" THEN Idle ELSE [call[c] EXCEPT !.status = result]
                        ELSE call[c]
<1>0. Run \subseteq Run'
  BY RunGrows
<1>1. call' = [c \in Callers |-> answer(c)]
  BY DEF Resolve
<1>2. ASSUME NEW c \in Callers
      PROVE  /\ answer(c) \in [status : {"idle", "waiting", "got", "failed"}, wallet : Wallet \cup {None}]
             /\ answer(c).status # "idle" => answer(c).wallet \in Run' /\ call[c].status # "idle"
             /\ c = "cycle" => answer(c).wallet = call[c].wallet
             /\ answer(c).status = "got" => CacheKey(answer(c).wallet) \in Ready'
  <2>1. /\ call[c] = [status |-> call[c].status, wallet |-> call[c].wallet]
        /\ call[c].wallet \in Wallet \cup {None}
        /\ call[c].status \in {"idle", "waiting", "got", "failed"}
    BY CallShape
  <2>2. CASE call[c].status = "waiting" /\ CacheKey(call[c].wallet) = k /\ c = "view"
    BY <2>2 DEF Idle
  <2>3. CASE call[c].status = "waiting" /\ CacheKey(call[c].wallet) = k /\ c # "view"
    <3>1. [call[c] EXCEPT !.status = result] = [status |-> result, wallet |-> call[c].wallet]
      BY <2>1
    <3>2. answer(c) = [status |-> result, wallet |-> call[c].wallet]
      BY <2>3, <3>1
    <3>3. call[c].wallet \in Run' /\ call[c].wallet \in Wallet \cup {None}
      BY <1>0, <2>1, <2>3 DEF CallsInv
    <3> HIDE DEF answer
    <3>4. answer(c).status = result /\ answer(c).wallet = call[c].wallet
      BY <3>2
    <3> QED BY <2>3, <3>2, <3>3, <3>4
  <2>4. CASE ~(call[c].status = "waiting" /\ CacheKey(call[c].wallet) = k)
    <3>1. answer(c) = call[c]
      BY <2>4
    <3>2. call[c] \in [status : {"idle", "waiting", "got", "failed"}, wallet : Wallet \cup {None}]
      BY DEF CallsInv
    <3>3. call[c].status = "got" => CacheKey(call[c].wallet) \in Ready
      BY DEF CallsInv
    <3> HIDE DEF answer
    <3>4. call[c].status # "idle" => call[c].wallet \in Run'
      BY <1>0 DEF CallsInv
    <3> QED BY <3>1, <3>2, <3>3, <3>4
  <2> QED BY <2>2, <2>3, <2>4
<1> HIDE DEF answer
<1>3. \A c \in Callers : call'[c] = answer(c)
  BY <1>1
<1>4. call' \in [Callers -> [status : {"idle", "waiting", "got", "failed"}, wallet : Wallet \cup {None}]]
  BY <1>1, <1>2
<1>5. CallsInv'
  <2>1. \A c \in Callers : /\ call'[c].status # "idle" => call'[c].wallet \in Run'
                           /\ call'[c].status = "got" => CacheKey(call'[c].wallet) \in Ready'
    BY <1>2, <1>3
  <2> QED BY <1>4, <2>1 DEF CallsInv, CacheKey, SecureWalletMode, IsDepositWallet
<1>6. "cycle" \in Callers
  BY DEF Callers
<1> QED BY <1>2, <1>3, <1>5, <1>6

\* A client that failed was not ready, so nobody has been handed it.
LEMMA FailKeeps ==
  ASSUME HandsInv, NEW k, k \notin Ready, Failed(k), UNCHANGED had
  PROVE  /\ HandsInv' /\ call'["cycle"].wallet = call["cycle"].wallet
         /\ \A c \in Callers : call'[c].status # "idle" => call[c].status # "idle"
<1>1. /\ ClientsInv' /\ DOMAIN clients' = DOMAIN clients \ {k}
      /\ \A j \in DOMAIN clients \ {k} : clients'[j] = clients[j]
  BY DropKeeps DEF Failed, Drop, HandsInv
<1>2. \A j \in Ready : j # k => j \in Ready'
  BY <1>1 DEF Ready
<1> QED BY <1>1, <1>2, AnswerKeeps DEF Failed, HandsInv

LEMMA StepForm ==
  ASSUME ClientsInv, NEW k \in DOMAIN clients, NEW st, NEW creds
  PROVE  /\ [clients EXCEPT ![k].step = st]
              = [clients EXCEPT ![k] = [step |-> st, wallet |-> clients[k].wallet, creds |-> clients[k].creds]]
         /\ [clients EXCEPT ![k].step = st, ![k].creds = creds]
              = [clients EXCEPT ![k] = [step |-> st, wallet |-> clients[k].wallet, creds |-> creds]]
<1> DEFINE cl == clients[k]
<1>1. cl = [step |-> cl.step, wallet |-> cl.wallet, creds |-> cl.creds]
  BY DEF ClientsInv
<1>2. [cl EXCEPT !.step = st] = [step |-> st, wallet |-> cl.wallet, creds |-> cl.creds]
  BY <1>1
<1>3. [[cl EXCEPT !.step = st] EXCEPT !.creds = creds] = [step |-> st, wallet |-> cl.wallet, creds |-> creds]
  <2> DEFINE moved == [cl EXCEPT !.step = st]
  <2> HIDE DEF moved, cl
  <2>1. moved = [step |-> st, wallet |-> cl.wallet, creds |-> cl.creds]
    BY <1>2 DEF moved
  <2>2. [moved EXCEPT !.creds = creds] = [step |-> st, wallet |-> cl.wallet, creds |-> creds]
    BY <2>1
  <2> QED BY <2>2 DEF moved
<1> QED BY <1>2, <1>3

\* Building goes on or fails; a client that is ready stays.
LEMMA BuildKeeps ==
  ASSUME HandsInv, Build
  PROVE  /\ HandsInv' /\ call'["cycle"].wallet = call["cycle"].wallet
         /\ \A c \in Callers : call'[c].status # "idle" => call[c].status # "idle"
<1> PICK k \in DOMAIN clients : CheckDeployed(k) \/ Derive(k) \/ Create(k)
  BY DEF Build
<1>0. UNCHANGED had /\ Run \subseteq Run'
  BY RunGrows DEF Build, accountVars
<1> DEFINE Next1(st, creds) ==
             clients' = [clients EXCEPT ![k] = [step |-> st, wallet |-> clients[k].wallet, creds |-> creds]]
<1>1. clients[k].step # "ready" => k \notin Ready
  BY DEF Ready
<1>2. ASSUME NEW st \in Steps, NEW creds, Next1(st, creds), k \notin Ready,
             st \in {"create", "ready"} => (creds = "configured" <=> clients[k].wallet.api # None)
      PROVE  /\ ClientsInv' /\ clients'[k].step = st /\ k \in DOMAIN clients'
             /\ Ready \subseteq Ready'
  <2>1. /\ ClientsInv' /\ DOMAIN clients' = DOMAIN clients /\ clients'[k].step = st
        /\ \A j \in DOMAIN clients \ {k} : clients'[j] = clients[j]
    BY <1>0, <1>2, AdvanceKeeps DEF HandsInv
  <2> QED BY <1>2, <2>1 DEF Ready
<1>3. ASSUME Ready \subseteq Ready', ClientsInv', UNCHANGED call
      PROVE  /\ HandsInv' /\ call'["cycle"].wallet = call["cycle"].wallet
             /\ \A c \in Callers : call'[c].status # "idle" => call[c].status # "idle"
  <2>1. CallsInv'
    BY <1>0, <1>3 DEF HandsInv, CallsInv, CacheKey, SecureWalletMode, IsDepositWallet
  <2> QED BY <1>3, <2>1 DEF HandsInv
<1>4. CASE CheckDeployed(k)
  <2>1. clients[k].step = "deployed"
        /\ ((clients' = [clients EXCEPT ![k].step = "derive"] /\ UNCHANGED call) \/ Failed(k))
    BY <1>4 DEF CheckDeployed
  <2>2. CASE clients' = [clients EXCEPT ![k].step = "derive"] /\ UNCHANGED call
    <3>1. Next1("derive", clients[k].creds)
      BY <2>2, StepForm DEF HandsInv
    <3> QED BY <1>1, <1>2, <1>3, <2>1, <2>2, <3>1 DEF Steps
  <2>3. CASE Failed(k)
    BY <1>0, <1>1, <2>1, <2>3, FailKeeps
  <2> QED BY <2>1, <2>2, <2>3
<1>5. CASE Derive(k)
  <2>1. clients[k].step = "derive" /\ UNCHANGED call
    BY <1>5 DEF Derive
  <2>2. PICK creds : /\ clients' = [clients EXCEPT ![k].step = "create", ![k].creds = creds]
                     /\ creds = "configured" <=> clients[k].wallet.api # None
    <3> DEFINE Use(creds) == clients' = [clients EXCEPT ![k].step = "create", ![k].creds = creds]
               api == clients[k].wallet.api
    <3>1. \/ api # None /\ Use("configured")
          \/ api = None /\ (Use("deposit") \/ Use("owner"))
      BY <1>5 DEF Derive
    <3> HIDE DEF Use, api
    <3>2. \E creds : Use(creds) /\ (creds = "configured" <=> api # None)
      BY <3>1
    <3> QED BY <3>2 DEF Use, api
  <2>3. Next1("create", creds)
    BY <2>2, StepForm DEF HandsInv
  <2> QED BY <1>1, <1>2, <1>3, <2>1, <2>2, <2>3 DEF Steps
<1>6. CASE Create(k)
  <2>1. clients[k].step = "create"
        /\ ((clients' = [clients EXCEPT ![k].step = "ready"] /\ Resolve(k, "got")) \/ Failed(k))
    BY <1>6 DEF Create
  <2>2. CASE clients' = [clients EXCEPT ![k].step = "ready"] /\ Resolve(k, "got")
    <3>1. Next1("ready", clients[k].creds)
      BY <2>2, StepForm DEF HandsInv
    <3>2. clients[k].creds = "configured" <=> clients[k].wallet.api # None
      BY <2>1 DEF HandsInv, ClientsInv
    <3>3. ClientsInv' /\ k \in Ready' /\ Ready \subseteq Ready'
      BY <1>1, <1>2, <2>1, <3>1, <3>2 DEF Steps, Ready
    <3> QED BY <1>0, <1>1, <2>1, <2>2, <3>3, AnswerKeeps DEF HandsInv
  <2>3. CASE Failed(k)
    BY <1>0, <1>1, <2>1, <2>3, FailKeeps
  <2> QED BY <2>1, <2>2, <2>3
<1> QED BY <1>4, <1>5, <1>6

\* The wallets are prepared one after the other; only then is a client dropped that
\* may have been ready, and nobody waits for it.
LEMMA PrepareKeeps ==
  ASSUME HandedInv, Prepare, UNCHANGED fundVars
  PROVE  HandsInv' /\ PhaseInv'
<1> DEFINE First == NextAccount
           alone == \A c \in Callers \ {"start"} : call[c].status = "idle"
<1>1. UNCHANGED <<config, had, cycle>> /\ phase \in {"start", "setup"}
  BY DEF Prepare, CheckApprovals, ClientForStart, SetUpApprovals, fundVars, accountVars
<1>2. todo # {} /\ todo \subseteq DOMAIN config /\ cycle.pc = "idle" /\ alone
  BY <1>1 DEF HandedInv, PhaseInv
<1>3. NextAccount \in todo
  BY <1>2 DEF NextAccount
<1>4. config[NextAccount] \in Run
  BY <1>2, <1>3, ConfiguredWallets DEF HandedInv
<1>5. "start" \in Callers
  BY DEF Callers
<1> HIDE DEF First
<1>6. ASSUME Exit PROVE HandsInv' /\ PhaseInv'
  <2>1. HandsInv' /\ UNCHANGED call /\ phase' = "exited"
    BY <1>1, <1>6, HandsStill DEF Exit, HandedInv
  <2> QED BY <1>1, <1>2, <2>1 DEF PhaseInv
<1>7. ASSUME NEW done, Prepared(done), \A c \in Callers \ {"start"} : call'[c] = call[c]
      PROVE  PhaseInv' /\ \A c \in Callers : call'[c].status = "idle"
  <2>1. /\ todo' = todo \ done /\ phase' = (IF todo' = {} THEN "poll" ELSE "start")
        /\ call' = [call EXCEPT !["start"] = Idle]
    BY <1>7 DEF Prepared
  <2>2. call'["start"] = Idle /\ Idle.status = "idle"
    BY <1>5, <2>1 DEF Idle, HandedInv, HandsInv, CallsInv
  <2>3. \A c \in Callers : call'[c].status = "idle"
    BY <1>2, <1>7, <2>2
  <2> QED BY <1>1, <1>2, <2>1, <2>3 DEF PhaseInv
<1>8. CASE CheckApprovals
  <2>1. (GetSecureClient("start", config[NextAccount]) /\ UNCHANGED <<phase, todo>>) \/ Exit
    BY <1>8 DEF CheckApprovals
  <2>2. CASE GetSecureClient("start", config[NextAccount]) /\ UNCHANGED <<phase, todo>>
    <3>1. HandsInv' /\ \A d \in Callers \ {"start"} : call'[d] = call[d]
      BY <1>1, <1>4, <1>5, <2>2, AskKeeps DEF HandedInv
    <3> QED BY <1>1, <1>2, <2>2, <3>1 DEF PhaseInv
  <2> QED BY <1>6, <2>1, <2>2
<1>9. CASE ClientForStart
  <2>1. \/ Exit
        \/ Prepared(Sharers) /\ UNCHANGED clients
        \/ phase' = "setup" /\ UNCHANGED <<todo, clients, call>>
    BY <1>9 DEF ClientForStart
  <2>2. CASE Prepared(Sharers) /\ UNCHANGED clients
    <3>1. HandsInv' /\ \A d \in Callers \ {"start"} : call'[d] = call[d]
      BY <1>1, <1>5, <2>2, LeaveKeeps DEF HandedInv, Prepared
    <3> QED BY <1>7, <2>2, <3>1
  <2>3. CASE phase' = "setup" /\ UNCHANGED <<todo, clients, call>>
    <3>1. HandsInv'
      BY <1>1, <2>3, HandsStill DEF HandedInv
    <3> QED BY <1>1, <1>2, <2>3, <3>1 DEF PhaseInv
  <2> QED BY <1>6, <2>1, <2>2, <2>3
<1>10. CASE SetUpApprovals
  <2>1. (clients' = Without(clients, StartKey) /\ Prepared(Sharers)) \/ Exit
    BY <1>10 DEF SetUpApprovals
  <2>2. CASE clients' = Without(clients, StartKey) /\ Prepared(Sharers)
    <3>1. ClientsInv'
      BY <1>1, <2>2, DropKeeps DEF HandedInv, HandsInv
    <3>2. /\ \A c \in Callers \ {"start"} : call'[c] = call[c]
          /\ call' \in [Callers -> [status : {"idle", "waiting", "got", "failed"}, wallet : Wallet \cup {None}]]
      <4>1. call' = [call EXCEPT !["start"] = Idle]
        BY <2>2 DEF Prepared
      <4>2. Idle \in [status : {"idle", "waiting", "got", "failed"}, wallet : Wallet \cup {None}]
        BY DEF Idle
      <4> QED BY <4>1, <4>2 DEF HandedInv, HandsInv, CallsInv
    <3>3. PhaseInv' /\ \A c \in Callers : call'[c].status = "idle"
      BY <1>7, <2>2, <3>2
    <3>4. CallsInv'
      BY <3>2, <3>3 DEF CallsInv
    <3> QED BY <3>1, <3>3, <3>4 DEF HandsInv
  <2> QED BY <1>6, <2>1, <2>2
<1> QED BY <1>8, <1>9, <1>10 DEF Prepare

LEMMA PhaseStill ==
  ASSUME PhaseInv, UNCHANGED <<phase, todo>>, DOMAIN config \subseteq DOMAIN config',
         phase = "poll" \/ (UNCHANGED cycle /\ \A c \in Callers : call'[c].status # "idle" => call[c].status # "idle")
  PROVE  PhaseInv'
BY DEF PhaseInv

-----------------------------------------------------------------------------
(* The cycle keeps to its wallet                                           *)

CycleStep ==
  CheckGeoblock \/ Take \/ NoClient \/ ReadClob \/ ReadChain \/ Decide \/ Submit \/ Place

LEMMA PlaceHandles ==
  ASSUME Place
  PROVE  /\ cycle.pc = "submit" /\ call["cycle"].status = "got"
         /\ \E how : Handled(Now, how)
         /\ call' = [call EXCEPT !["cycle"] = Idle] /\ UNCHANGED <<clients, accountVars, phase, todo>>
<1>1. \E how : Handled(Now, how)
  <2>1. \/ Taken(Acting) \/ Rejected(Now) \/ TakenUnanswered(Acting) \/ Recovered \/ Skip(Now)
    BY DEF Place
  <2> QED BY <2>1 DEF Taken, Rejected, TakenUnanswered, Recovered, Skip
<1> QED BY <1>1 DEF Place

LEMMA CycleShape ==
  ASSUME CycleWallet, CycleStep
  PROVE  /\ CycleWallet' /\ cycle.pc # "idle"
         /\ cycle'.pc # "idle" => cycle'.wallet = cycle.wallet
         /\ UNCHANGED <<accountVars, phase, todo>>
<1>1. DOMAIN NoCycle = CycleFields /\ NoCycle.pc = "idle"
  BY DEF NoCycle, CycleFields
<1>2. SUFFICES /\ cycle.pc # "idle" /\ DOMAIN cycle' = CycleFields
               /\ cycle'.pc # "idle" => cycle'.wallet = cycle.wallet
               /\ UNCHANGED <<accountVars, phase, todo>>
  <2>1. ASSUME UNCHANGED accountVars PROVE Run \subseteq Run'
    BY <2>1, RunGrows DEF accountVars
  <2> QED BY <2>1 DEF CycleWallet
<1>3. DOMAIN cycle = CycleFields
  BY DEF CycleWallet
<1>4. CASE CheckGeoblock
  BY <1>1, <1>3, <1>4 DEF CheckGeoblock, EndCycle, CycleFields
<1>5. CASE Take
  <2>1. cycle.pc = "pick" /\ UNCHANGED <<accountVars, phase, todo>>
    BY <1>5 DEF Take
  <2>2. \/ cycle' = NoCycle
        \/ \E t, how : Handled(t, how)
        \/ \E t : cycle' = [cycle EXCEPT !.pc = "decide", !.trade = t]
        \/ \E t, snap : cycle' = [cycle EXCEPT !.pc = "client", !.trade = t, !.again = FALSE, !.snap = snap]
    <3>1. \/ EndCycle
          \/ \E t \in cycle.queue : \/ Handled(t, "dropped")
                                     \/ cycle' = [cycle EXCEPT !.pc = "decide", !.trade = t]
                                     \/ AskClient(t)
      BY <1>5 DEF Take
    <3>2. ASSUME NEW t, AskClient(t)
          PROVE  \E snap : cycle' = [cycle EXCEPT !.pc = "client", !.trade = t, !.again = FALSE, !.snap = snap]
      <4>1. PICK snap : snap = (IF IsBuy(t) THEN cycle.snap ELSE None)
        OBVIOUS
      <4>2. cycle' = [cycle EXCEPT !.pc = "client", !.trade = t, !.again = FALSE, !.snap = snap]
        BY <3>2, <4>1 DEF AskClient
      <4> QED BY <4>2
    <3> QED BY <3>1, <3>2 DEF EndCycle
  <2> QED BY <1>1, <1>3, <2>1, <2>2 DEF Handled, CycleFields
<1>6. CASE NoClient
  BY <1>1, <1>3, <1>6 DEF NoClient, CashRead, TokenFailed, TokenRead, CycleFields
<1>7. CASE ReadClob
  BY <1>1, <1>3, <1>7 DEF ReadClob, CashRead, TokenFailed, TokenRead, CycleFields
<1>8. CASE ReadChain
  BY <1>1, <1>3, <1>8 DEF ReadChain, CycleFields
<1>9. CASE Decide
  BY <1>1, <1>3, <1>9 DEF Decide, DecideBuy, DecideSell, Skip, Handled, CycleFields, walletVars
<1>10. CASE Submit
  BY <1>1, <1>3, <1>10 DEF Submit, Skip, Handled, CycleFields
<1>11. CASE Place
  BY <1>1, <1>3, <1>11, PlaceHandles DEF Handled, CycleFields
<1> QED BY <1>4, <1>5, <1>6, <1>7, <1>8, <1>9, <1>10, <1>11 DEF CycleStep

\* A cycle asks for a client of its wallet, or leaves clients and calls alone.
LEMMA CycleAsks ==
  ASSUME CycleWallet, HandsInv, CycleStep
  PROVE  HandsInv' /\ CycleCall'
<1> "cycle" \in Callers
  BY DEF Callers
<1>1. /\ cycle.wallet \in Run /\ UNCHANGED had /\ DOMAIN cycle = CycleFields
      /\ cycle'.pc # "idle" => cycle'.wallet = cycle.wallet
  BY CycleShape DEF CycleWallet, accountVars
<1>2. ASSUME NEW t, NEW how, Handled(t, how) PROVE cycle'.pc = "pick"
  BY <1>1, <1>2 DEF Handled, CycleFields
<1> DEFINE Leaves == cycle'.pc \notin {"client", "submit"}
<1>3. \/ GetSecureClient("cycle", cycle.wallet) /\ cycle'.pc \in {"client", "submit"}
      \/ call' = [call EXCEPT !["cycle"] = Idle] /\ UNCHANGED clients /\ Leaves
      \/ UNCHANGED <<clients, call>> /\ Leaves
  <2>1. CASE Take
    <3>1. CASE EndCycle /\ UNCHANGED <<clients, call>>
      BY <3>1 DEF EndCycle, NoCycle
    <3>2. ASSUME NEW t, Handled(t, "dropped"), UNCHANGED <<clients, call>>
          PROVE  UNCHANGED <<clients, call>> /\ Leaves
      BY <1>2, <3>2
    <3>3. ASSUME NEW t, cycle' = [cycle EXCEPT !.pc = "decide", !.trade = t], UNCHANGED <<clients, call>>
          PROVE  UNCHANGED <<clients, call>> /\ Leaves
      BY <1>1, <3>3 DEF CycleFields
    <3>4. ASSUME NEW t, AskClient(t)
          PROVE  GetSecureClient("cycle", cycle.wallet) /\ cycle'.pc = "client"
      <4>1. PICK snap : snap = (IF IsBuy(t) THEN cycle.snap ELSE None)
        OBVIOUS
      <4>2. cycle' = [cycle EXCEPT !.pc = "client", !.trade = t, !.again = FALSE, !.snap = snap]
        BY <3>4, <4>1 DEF AskClient
      <4>3. cycle'.pc = "client"
        BY <1>1, <4>2 DEF CycleFields
      <4> QED BY <3>4, <4>3 DEF AskClient
    <3> HIDE DEF Leaves
    <3> QED BY <2>1, <3>1, <3>2, <3>3, <3>4 DEF Take, Leaves
  <2>2. ASSUME NEW coll, CashRead(coll)
        PROVE  call' = [call EXCEPT !["cycle"] = Idle] /\ UNCHANGED clients /\ Leaves
    BY <1>1, <2>2 DEF CashRead, CycleFields
  <2>3. ASSUME NEW snap, TokenRead(snap) PROVE Leaves
    BY <1>1, <2>3 DEF TokenRead, CycleFields
  <2>4. ASSUME TokenFailed, cycle.pc = "client"
        PROVE  \/ GetSecureClient("cycle", cycle.wallet) /\ cycle'.pc = "client"
               \/ call' = [call EXCEPT !["cycle"] = Idle] /\ UNCHANGED clients /\ Leaves
    <3>1. CASE TokenRead(NoSnapshot) /\ UNCHANGED clients /\ call' = [call EXCEPT !["cycle"] = Idle]
      BY <2>3, <3>1
    <3>2. CASE GetSecureClient("cycle", cycle.wallet) /\ cycle' = [cycle EXCEPT !.again = TRUE]
      <4>1. cycle'.pc = "client"
        BY <1>1, <2>4, <3>2 DEF CycleFields
      <4> QED BY <3>2, <4>1
    <3> QED BY <2>4, <3>1, <3>2 DEF TokenFailed
  <2>5. CASE NoClient
    <3>1. cycle.pc = "client" /\ (CashRead(NoCash) \/ TokenFailed)
      BY <2>5 DEF NoClient
    <3> HIDE DEF Leaves
    <3> QED BY <2>2, <2>4, <3>1
  <2>6. CASE ReadClob
    <3>1. /\ cycle.pc = "client"
          /\ \/ \E coll : CashRead(coll)
             \/ \E snap : TokenRead(snap) /\ call' = [call EXCEPT !["cycle"] = Idle] /\ UNCHANGED clients
             \/ TokenFailed
      BY <2>6 DEF ReadClob
    <3> HIDE DEF Leaves
    <3> QED BY <2>2, <2>3, <2>4, <3>1
  <2>7. CASE CheckGeoblock
    BY <1>1, <2>7 DEF CheckGeoblock, EndCycle, NoCycle, CycleFields
  <2>8. CASE ReadChain
    BY <1>1, <2>8 DEF ReadChain, CycleFields
  <2>9. CASE Decide
    BY <1>1, <1>2, <2>9 DEF Decide, DecideBuy, DecideSell, Skip, walletVars, CycleFields
  <2>10. CASE Submit
    <3>1. CASE Skip(Now) /\ call' = [call EXCEPT !["cycle"] = Idle] /\ UNCHANGED clients
      BY <1>2, <3>1 DEF Skip
    <3>2. CASE /\ GetSecureClient("cycle", cycle.wallet)
               /\ \/ cycle' = [cycle EXCEPT !.pc = "submit", !.again = FALSE]
                  \/ cycle.pc = "submit" /\ cycle' = [cycle EXCEPT !.again = TRUE]
      <4>1. cycle'.pc = "submit"
        BY <1>1, <3>2 DEF CycleFields
      <4> QED BY <3>2, <4>1
    <3> QED BY <2>10, <3>1, <3>2 DEF Submit
  <2>11. CASE Place
    BY <1>2, <2>11, PlaceHandles
  <2> QED BY <2>1, <2>5, <2>6, <2>7, <2>8, <2>9, <2>10, <2>11 DEF CycleStep
<1>4. CASE GetSecureClient("cycle", cycle.wallet) /\ cycle'.pc \in {"client", "submit"}
  <2>1. HandsInv' /\ call'["cycle"].wallet = cycle.wallet
    BY <1>1, <1>4, AskKeeps
  <2>2. cycle'.wallet = cycle.wallet
    BY <1>1, <1>4
  <2> QED BY <2>1, <2>2 DEF CycleCall
<1>5. CASE Leaves
  BY <1>1, <1>3, <1>5, AskKeeps, LeaveKeeps, HandsStill DEF CycleCall
<1> QED BY <1>3, <1>4, <1>5

LEMMA CycleBegins ==
  ASSUME WalletsInv, NEW a \in DOMAIN config, CycleBegin(a)
  PROVE  CycleWallet' /\ CycleCall' /\ UNCHANGED walletVars /\ cycle'.pc = "geo" /\ phase = "poll"
<1>1. /\ cycle' = [NoCycle EXCEPT !.pc = "geo", !.acct = a, !.wallet = config[a],
                                   !.queue = Work(a) \ {t \in Work(a) : order[t] = "matched"}]
      /\ UNCHANGED walletVars /\ phase = "poll"
  BY DEF CycleBegin
<1>2. DOMAIN cycle' = CycleFields /\ cycle'.pc = "geo" /\ cycle'.wallet = config[a]
  BY <1>1 DEF NoCycle, CycleFields
<1>3. Run \subseteq Run'
  BY <1>1, RunGrows DEF walletVars, accountVars
<1> QED BY <1>1, <1>2, <1>3, ConfiguredWallets DEF CycleWallet, CycleCall

-----------------------------------------------------------------------------
(* Everyone acts with their own wallet                                     *)

LEMMA HandedFirst == Init => HandedInv
<1> SUFFICES ASSUME Init PROVE HandedInv
  OBVIOUS
<1>1. PICK start \in Starts : WalletInit(start)
  BY DEF Init
<1>2. /\ start.accounts \subseteq AccountIds /\ start.accounts # {}
      /\ \A a \in start.accounts : /\ WalletEnvSuffix(a) \in DOMAIN start.env
                                   /\ start.env[WalletEnvSuffix(a)] \in EnvWallet
  BY ConstantsOK
<1>3. WalletsInv
  <2>1. /\ env = start.env /\ accounts = start.accounts /\ loading = {}
        /\ config = [a \in start.accounts |-> LoadWalletConfig(start.env, a)]
        /\ given = [a \in start.accounts |-> start.env[WalletEnvSuffix(a)]] /\ wanted = given
        /\ had = {Keyed(config[a]) : a \in start.accounts}
    BY <1>1 DEF WalletInit
  <2>2. DOMAIN config = accounts /\ DOMAIN wanted = accounts /\ DOMAIN given = accounts
    BY <2>1
  <2>3. \A a \in accounts : /\ config[a] = LoadWalletConfig(env, a) /\ given[a] = env[WalletEnvSuffix(a)]
                            /\ wanted[a] = env[WalletEnvSuffix(a)] /\ Keyed(config[a]) \in had
    BY <2>1
  <2>4. \A a \in accounts : /\ a \in AccountIds /\ WalletEnvSuffix(a) \in DOMAIN env
                            /\ env[WalletEnvSuffix(a)] \in EnvWallet
    BY <1>2, <2>1
  <2>5. ASSUME NEW a \in accounts
        PROVE  config[a] \in Run /\ Keyed(config[a]) = wanted[a]
    <3>1. config[a] \in Wallet
      BY <2>3, <2>4, LoadedWallet
    <3>2. Keyed(config[a]) = [key |-> env[WalletEnvSuffix(a)].key, addr |-> env[WalletEnvSuffix(a)].addr]
      <4>1. config[a] = LoadWalletConfig(env, a)
        BY <2>3
      <4>2. config[a].key = env[WalletEnvSuffix(a)].key /\ config[a].addr = env[WalletEnvSuffix(a)].addr
        BY <4>1 DEF LoadWalletConfig
      <4> QED BY <4>2 DEF Keyed
    <3>3. Keyed(config[a]) = env[WalletEnvSuffix(a)]
      BY <2>4, <3>2 DEF EnvWallet
    <3> QED BY <2>3, <3>1, <3>3 DEF Run
  <2>6. accounts \subseteq AccountIds /\ loading \subseteq accounts
    BY <1>2, <2>1
  <2> QED BY <2>2, <2>3, <2>4, <2>5, <2>6 DEF WalletsInv
<1>4. ClientsInv
  <2>1. DOMAIN clients = {}
    BY <1>1 DEF WalletInit
  <2> QED BY <2>1 DEF ClientsInv
<1>5. CallsInv /\ \A c \in Callers : call[c].status = "idle"
  <2>1. call = [c \in Callers |-> Idle]
    BY <1>1 DEF WalletInit
  <2> QED BY <2>1 DEF CallsInv, Idle
<1>6. cycle = NoCycle
  BY DEF Init
<1>7. CycleWallet /\ CycleCall
  BY <1>6 DEF CycleWallet, CycleCall, NoCycle, CycleFields
<1>8. PhaseInv
  <2>1. phase = "start" /\ todo = DOMAIN config
    BY <1>1 DEF WalletInit
  <2>2. cycle.pc = "idle"
    BY <1>6 DEF NoCycle
  <2>3. DOMAIN config # {}
    BY <1>1, <1>2 DEF WalletInit
  <2> QED BY <1>5, <2>1, <2>2, <2>3 DEF PhaseInv
<1> QED BY <1>3, <1>4, <1>5, <1>7, <1>8 DEF HandedInv, HandsInv

LEMMA HandedStep == HandedInv /\ [Next]_vars => HandedInv'
<1> SUFFICES ASSUME HandedInv, [Next]_vars PROVE HandedInv'
  OBVIOUS
<1>1. ASSUME UNCHANGED cycle, had \subseteq had', cycle.pc # "idle" => call'["cycle"].wallet = call["cycle"].wallet
      PROVE  CycleWallet' /\ CycleCall'
  <2>1. Run \subseteq Run'
    BY <1>1, RunGrows
  <2> QED BY <1>1, <2>1 DEF HandedInv, CycleWallet, CycleCall
<1>2. CASE Build /\ UNCHANGED fundVars
  <2>1. UNCHANGED <<accountVars, phase, todo, cycle>>
    BY <1>2 DEF Build, fundVars
  <2>2. /\ HandsInv' /\ call'["cycle"].wallet = call["cycle"].wallet
        /\ \A c \in Callers : call'[c].status # "idle" => call[c].status # "idle"
    BY <1>2, BuildKeeps DEF HandedInv
  <2>3. WalletsInv' /\ UNCHANGED <<config, had>>
    BY <2>1, WalletsStill DEF HandedInv
  <2>4. PhaseInv'
    BY <2>1, <2>2, <2>3, PhaseStill DEF HandedInv
  <2> QED BY <1>1, <2>1, <2>2, <2>3, <2>4 DEF HandedInv
<1>3. CASE Prepare /\ UNCHANGED fundVars
  <2>1. UNCHANGED <<accountVars, cycle>> /\ phase # "poll"
    BY <1>3 DEF Prepare, CheckApprovals, ClientForStart, SetUpApprovals, fundVars
  <2>2. HandsInv' /\ PhaseInv' /\ cycle.pc = "idle"
    BY <1>3, <2>1, PrepareKeeps DEF HandedInv, PhaseInv
  <2>3. WalletsInv' /\ UNCHANGED <<config, had>>
    BY <2>1, WalletsStill DEF HandedInv
  <2> QED BY <1>1, <2>1, <2>2, <2>3 DEF HandedInv
<1>4. CASE (UpdateWallet \/ CreateAccount \/ LaterReload \/ Reload) /\ UNCHANGED fundVars
  <2>1. WalletsInv' /\ DOMAIN config \subseteq DOMAIN config' /\ had \subseteq had'
        /\ UNCHANGED <<clients, call, phase, todo, cycle>>
    BY <1>4, DashboardKeeps, ReloadKeeps DEF HandedInv, fundVars
  <2>2. HandsInv' /\ PhaseInv'
    BY <2>1, HandsStill, PhaseStill DEF HandedInv
  <2> QED BY <1>1, <2>1, <2>2 DEF HandedInv
<1>5. CASE ViewWallet /\ UNCHANGED fundVars
  <2>1. UNCHANGED <<accountVars, phase, todo, cycle>> /\ phase = "poll"
    BY <1>5 DEF ViewWallet, fundVars
  <2>2. PICK a \in DOMAIN config : GetSecureClient("view", config[a])
    BY <1>5 DEF ViewWallet
  <2>3. config[a] \in Run /\ "view" \in Callers /\ "cycle" \in Callers \ {"view"}
    BY ConfiguredWallets DEF HandedInv, Callers
  <2>4. WalletsInv' /\ UNCHANGED <<config, had>>
    BY <2>1, WalletsStill DEF HandedInv
  <2>5. HandsInv' /\ call'["cycle"] = call["cycle"]
    BY <2>2, <2>3, <2>4, AskKeeps DEF HandedInv
  <2>6. PhaseInv'
    BY <2>1, <2>4, PhaseStill DEF HandedInv
  <2> QED BY <1>1, <2>1, <2>4, <2>5, <2>6 DEF HandedInv
<1>6. CASE \E a \in DOMAIN config : CycleBegin(a)
  <2>1. CycleWallet' /\ CycleCall' /\ UNCHANGED walletVars /\ phase = "poll"
    BY <1>6, CycleBegins DEF HandedInv
  <2>2. UNCHANGED <<accountVars, clients, call, phase, todo>>
    BY <2>1 DEF walletVars
  <2>3. WalletsInv' /\ UNCHANGED <<config, had>>
    BY <2>2, WalletsStill DEF HandedInv
  <2>4. HandsInv' /\ PhaseInv'
    BY <2>1, <2>2, <2>3, HandsStill, PhaseStill DEF HandedInv
  <2> QED BY <2>1, <2>3, <2>4 DEF HandedInv
<1>7. CASE CycleStep
  <2>1. CycleWallet' /\ cycle.pc # "idle" /\ UNCHANGED <<accountVars, phase, todo>>
    BY <1>7, CycleShape DEF HandedInv
  <2>2. HandsInv' /\ CycleCall'
    BY <1>7, CycleAsks DEF HandedInv
  <2>3. phase = "poll"
    BY <2>1 DEF HandedInv, PhaseInv
  <2>4. WalletsInv' /\ UNCHANGED <<config, had>>
    BY <2>1, WalletsStill DEF HandedInv
  <2> QED BY <2>1, <2>2, <2>3, <2>4, PhaseStill DEF HandedInv
<1>8. CASE OwnerMoves \/ RegionChanges \/ Match \/ UNCHANGED vars
  <2>1. UNCHANGED <<accountVars, clients, call, phase, todo, cycle>>
    BY <1>8 DEF OwnerMoves, RegionChanges, Match, vars, walletVars, fundVars
  <2>2. WalletsInv' /\ UNCHANGED <<config, had>>
    BY <2>1, WalletsStill DEF HandedInv
  <2>3. HandsInv' /\ PhaseInv'
    BY <2>1, <2>2, HandsStill, PhaseStill DEF HandedInv
  <2> QED BY <1>1, <2>1, <2>2, <2>3 DEF HandedInv
<1> QED BY <1>2, <1>3, <1>4, <1>5, <1>6, <1>7, <1>8 DEF Next, WalletNext, Cycle, CycleStep

\* Clients kept under one key have one account's credentials, and but for the override
\* "auto", where the key decides, one address; with one key for it they have one wallet.
LEMMA OneWalletPerKey ==
  ASSUME NEW v \in Run, NEW w \in Run, CacheKey(v) = CacheKey(w)
  PROVE  /\ v.addr = w.addr /\ v.api = w.api /\ SecureWalletMode(v) = SecureWalletMode(w)
         /\ SecureWallet # "auto" => AccountWallet(v) = AccountWallet(w)
         /\ OneKey(w.addr) => v = w
<1>1. /\ v.addr = w.addr /\ v.api = w.api /\ v.relayer = w.relayer
      /\ SecureWalletMode(v) = SecureWalletMode(w)
  BY DEF CacheKey
<1>2. v \in Wallet /\ w \in Wallet /\ Keyed(v) \in had /\ Keyed(w) \in had
  BY RunWallets
<1>3. v.key \in Keys /\ w.key \in Keys
  BY <1>2 DEF Wallet
<1>4. ASSUME SecureWallet # "auto" PROVE AccountWallet(v) = AccountWallet(w)
  <2>1. CASE SecureWalletMode(v) = "settings"
    BY <1>1, <2>1 DEF AccountWallet
  <2>2. CASE SecureWalletMode(v) # "settings"
    <3>1. v.addr = EoaOf[v.key] /\ w.addr = EoaOf[w.key]
      BY <1>1, <1>4, <2>2, ConstantsOK DEF SecureWalletMode, IsDepositWallet
    <3>2. v.key = w.key
      BY <1>1, <1>3, <3>1, ConstantsOK
    <3> QED BY <1>1, <2>2, <3>2 DEF AccountWallet
  <2> QED BY <2>1, <2>2
<1>5. ASSUME OneKey(w.addr) PROVE v = w
  <2>1. Keyed(v).addr = w.addr /\ Keyed(w).addr = w.addr /\ Keyed(v).key = v.key /\ Keyed(w).key = w.key
    BY <1>1 DEF Keyed
  <2>2. v.key = w.key
    BY <1>2, <1>5, <2>1 DEF OneKey
  <2>3. /\ v = [key |-> v.key, addr |-> v.addr, api |-> v.api, relayer |-> v.relayer]
        /\ w = [key |-> w.key, addr |-> w.addr, api |-> w.api, relayer |-> w.relayer]
    BY <1>2 DEF Wallet
  <2> QED BY <1>1, <2>2, <2>3
<1> QED BY <1>1, <1>4, <1>5

LEMMA HandedGood == HandedInv => EachToItsWallet
<1> SUFFICES ASSUME HandedInv PROVE EachToItsWallet
  OBVIOUS
<1>1. OwnWallets
  BY DEF HandedInv, WalletsInv, OwnWallets
<1>2. OwnClients
  <2> SUFFICES ASSUME NEW c \in Callers, call[c].status = "got"
               PROVE  LET k == CacheKey(call[c].wallet)
                          own == call[c].wallet
                      IN /\ clients[k].creds = "configured" <=> own.api # None
                         /\ SecureWallet # "auto" => AccountWallet(clients[k].wallet) = AccountWallet(own)
                         /\ OneKey(own.addr) => clients[k].wallet = own
    BY DEF OwnClients
  <2> DEFINE k == CacheKey(call[c].wallet)
  <2>1. call[c].wallet \in Run /\ k \in DOMAIN clients /\ clients[k].step = "ready"
    BY DEF HandedInv, HandsInv, CallsInv, Ready
  <2> HIDE DEF k
  <2>2. /\ clients[k].wallet \in Run /\ CacheKey(clients[k].wallet) = k
        /\ clients[k].creds = "configured" <=> clients[k].wallet.api # None
    BY <2>1 DEF HandedInv, HandsInv, ClientsInv
  <2>3. CacheKey(clients[k].wallet) = CacheKey(call[c].wallet)
    BY <2>2 DEF k
  <2> QED BY <2>1, <2>2, <2>3, OneWalletPerKey DEF k
<1> QED BY <1>1, <1>2 DEF EachToItsWallet

\* Whatever is asked for, built, dropped, written and loaded or left unloaded meanwhile, an
\* account runs with the wallet it was given when it was loaded, and is handed no client with
\* other credentials, of another address or, where its address had one key, with another key
\* (env-file.ts, load.ts, secure-client.ts).
THEOREM OwnWalletsOnly == Spec => []EachToItsWallet
BY HandedFirst, HandedStep, HandedGood, PTL DEF Spec

-----------------------------------------------------------------------------
(* Money and shares                                                        *)

\* Nothing is gone from the cycle's wallet that is not counted as having left.
NoLess ==
  /\ real'[Where].pusd + left'.cash >= real[Where].pusd + left.cash
  /\ real'[Where].token + left'.token >= real[Where].token + left.token
  /\ real'[Where].usdce = real[Where].usdce

LEMMA FundForm ==
  ASSUME FundTypes
  PROVE  /\ \A addr \in Addresses :
              /\ real[addr] = [pusd |-> real[addr].pusd, usdce |-> real[addr].usdce, token |-> real[addr].token]
              /\ real[addr].pusd \in Nat /\ real[addr].usdce \in Nat /\ real[addr].token \in Nat
         /\ left = [cash |-> left.cash, token |-> left.token, moved |-> left.moved]
         /\ left.cash \in Nat /\ left.token \in Nat /\ left.moved \in BOOLEAN
BY DEF FundTypes, Holding, Gone

LEMMA CycleAddresses ==
  ASSUME CycleWallet, cycle.pc # "idle"
  PROVE  Where \in Addresses
BY RunWallets DEF CycleWallet, Where

\* The wallet of the client in hand is that of the cycle where the two agree.
LEMMA ActingWhere ==
  ASSUME HandedInv, cycle.pc \in {"client", "submit"}, call["cycle"].status = "got"
  PROVE  Acting \in Addresses /\ (Agreed => Acting = Where)
<1> DEFINE w == cycle.wallet
           k == CacheKey(w)
           v == clients[k].wallet
<1>1. w \in Run /\ "cycle" \in Callers /\ call["cycle"].wallet = w
  BY DEF HandedInv, CycleWallet, CycleCall, Callers
<1>2. k \in Ready
  BY <1>1 DEF HandedInv, HandsInv, CallsInv
<1>3. v \in Run /\ CacheKey(v) = k
  BY <1>2 DEF HandedInv, HandsInv, ClientsInv, Ready
<1>4. Acting = AccountWallet(v)
  BY DEF Acting
<1> HIDE DEF v, k
<1>5. CacheKey(v) = CacheKey(w)
  BY <1>3 DEF k
<1> HIDE DEF w
<1>6. /\ v.addr = w.addr /\ SecureWalletMode(v) = SecureWalletMode(w)
      /\ OneKey(w.addr) => v = w
  BY <1>1, <1>3, <1>5, OneWalletPerKey
<1>7. AccountWallet(v) \in Addresses
  BY <1>3, RunWallets, ConstantsOK DEF AccountWallet
<1>8. Agrees(w) => AccountWallet(v) = w.addr
  BY <1>6 DEF Agrees, AccountWallet
<1> QED BY <1>4, <1>7, <1>8 DEF Agreed, Where, w

\* Wallets that have run stay known, so what agrees afterwards agreed before.
StillAgrees == cycle'.pc # "idle" => (Agreed' => Agreed)

LEMMA AgreedBefore ==
  ASSUME had \subseteq had', cycle'.pc # "idle" => cycle'.wallet = cycle.wallet
  PROVE  StillAgrees
BY DEF StillAgrees, Agreed, Agrees, OneKey, AccountWallet, SecureWalletMode, IsDepositWallet

LEMMA HadGrows ==
  ASSUME HandedInv, [Next]_vars
  PROVE  had \subseteq had'
<1>1. CASE Reload \/ LaterReload
  BY <1>1, ReloadKeeps DEF HandedInv
<1>2. CASE UpdateWallet \/ CreateAccount
  BY <1>2, DashboardKeeps DEF HandedInv
<1>3. CASE Build \/ Prepare \/ ViewWallet
  BY <1>3 DEF Build, Prepare, ViewWallet, accountVars
<1>4. CASE CycleStep
  BY <1>4, CycleShape DEF HandedInv, accountVars
<1>5. CASE \E a \in DOMAIN config : CycleBegin(a)
  BY <1>5 DEF CycleBegin, walletVars, accountVars
<1>6. CASE OwnerMoves \/ RegionChanges \/ Match \/ UNCHANGED vars
  BY <1>6 DEF OwnerMoves, RegionChanges, Match, vars, walletVars, accountVars
<1> QED BY <1>1, <1>2, <1>3, <1>4, <1>5, <1>6 DEF Next, WalletNext, Cycle, CycleStep

LEMMA MovesCounted ==
  ASSUME FundTypes, cycle.pc # "idle" => Where \in Addresses,
         NEW addr \in Addresses, NEW cash \in Int, NEW shares \in Int,
         real[addr].pusd + cash >= 0, real[addr].token + shares >= 0,
         Moves(addr, cash, shares)
  PROVE  FundTypes' /\ (cycle.pc # "idle" => NoLess)
<1> DEFINE h == real[addr]
           there == [pusd |-> h.pusd + cash, usdce |-> h.usdce, token |-> h.token + shares]
           out(n) == IF n < 0 THEN -n ELSE 0
           gone == [cash |-> left.cash + out(cash), token |-> left.token + out(shares),
                    moved |-> left.moved \/ shares # 0]
<1>1. h = [pusd |-> h.pusd, usdce |-> h.usdce, token |-> h.token]
      /\ h.pusd \in Nat /\ h.usdce \in Nat /\ h.token \in Nat
  BY FundForm
<1>2. [[h EXCEPT !.pusd = @ + cash] EXCEPT !.token = @ + shares] = there
  <2> HIDE DEF h
  <2> DEFINE paid == [h EXCEPT !.pusd = @ + cash]
  <2>1. paid = [pusd |-> h.pusd + cash, usdce |-> h.usdce, token |-> h.token]
    BY <1>1
  <2> HIDE DEF paid
  <2>2. [paid EXCEPT !.token = @ + shares] = there
    BY <2>1
  <2> QED BY <2>2 DEF paid
<1>3. real' = [real EXCEPT ![addr] = there]
  <2>1. [real EXCEPT ![addr].pusd = @ + cash, ![addr].token = @ + shares]
          = [real EXCEPT ![addr] = [[h EXCEPT !.pusd = @ + cash] EXCEPT !.token = @ + shares]]
    BY DEF FundTypes
  <2> HIDE DEF there, h
  <2> QED BY <1>2, <2>1 DEF Moves
<1>4. there \in Holding
  BY <1>1 DEF Holding
<1>5. out(cash) \in Nat /\ out(shares) \in Nat /\ cash + out(cash) >= 0 /\ shares + out(shares) >= 0
  OBVIOUS
<1>6. left' = IF cycle.pc # "idle" /\ addr = Where THEN gone ELSE left
  BY DEF Moves
<1>7. gone \in Gone
  <2>1. left.cash \in Nat /\ left.token \in Nat /\ left.moved \in BOOLEAN
    BY FundForm
  <2> HIDE DEF out
  <2> QED BY <1>5, <2>1 DEF Gone
<1>8. FundTypes'
  <2> HIDE DEF there, gone
  <2> QED BY <1>3, <1>4, <1>6, <1>7 DEF FundTypes
<1>9. ASSUME cycle.pc # "idle" PROVE NoLess
  <2>1. Where \in Addresses
    BY <1>9
  <2>2. left.cash \in Nat /\ left.token \in Nat /\ real[Where].pusd \in Nat
        /\ real[Where].token \in Nat /\ real[Where].usdce \in Nat
    BY <2>1, FundForm
  <2>3. CASE addr = Where
    <3>1. real'[Where] = there
      BY <1>3, <2>1, <2>3 DEF FundTypes
    <3>2. there.pusd = h.pusd + cash /\ there.token = h.token + shares /\ there.usdce = h.usdce
      OBVIOUS
    <3>3. left'.cash = left.cash + out(cash) /\ left'.token = left.token + out(shares)
      BY <1>6, <1>9, <2>3
    <3> HIDE DEF out, there
    <3> QED BY <1>1, <1>5, <2>2, <2>3, <3>1, <3>2, <3>3 DEF NoLess
  <2>4. CASE addr # Where
    <3>1. real'[Where] = real[Where] /\ left' = left
      BY <1>3, <1>6, <2>1, <2>4 DEF FundTypes
    <3> QED BY <2>2, <3>1 DEF NoLess
  <2> QED BY <2>3, <2>4
<1> QED BY <1>8, <1>9

LEMMA NothingMoves ==
  ASSUME FundTypes, CycleWallet, UNCHANGED <<real, left>>
  PROVE  FundTypes' /\ (cycle.pc # "idle" => NoLess)
<1>1. FundTypes'
  BY DEF FundTypes
<1>2. ASSUME cycle.pc # "idle" PROVE NoLess
  <2>1. Where \in Addresses
    BY <1>2, CycleAddresses
  <2>2. left.cash \in Nat /\ left.token \in Nat /\ real[Where].pusd \in Nat /\ real[Where].token \in Nat
    BY <2>1, FundForm
  <2> QED BY <2>2 DEF NoLess
<1> QED BY <1>1, <1>2

\* Shares and cash of the trades.
LEMMA TradeForm ==
  ASSUME NEW t \in Trades
  PROVE  IF IsBuy(t) THEN Trade[t].usd \in Nat ELSE Trade[t].shares \in Nat
BY FundsConstantsOK DEF FundsConstantsOK, IsBuy

LEMMA ExchangeCounted ==
  ASSUME FundTypes, cycle.pc # "idle" => Where \in Addresses,
         NEW t \in Trades, NEW addr \in Addresses, Covered(t, addr), Exchanged(t, addr)
  PROVE  FundTypes' /\ (cycle.pc # "idle" => NoLess)
<1>1. real[addr].pusd \in Nat /\ real[addr].token \in Nat
  BY FundForm
<1>2. CASE IsBuy(t)
  <2>1. Trade[t].usd \in Nat /\ real[addr].pusd >= Trade[t].usd /\ Moves(addr, -Trade[t].usd, 0)
    BY <1>2, TradeForm DEF Covered, Exchanged
  <2>2. -Trade[t].usd \in Int /\ real[addr].pusd + (-Trade[t].usd) >= 0 /\ real[addr].token + 0 >= 0
    BY <1>1, <2>1
  <2> QED BY <2>1, <2>2, MovesCounted
<1>3. CASE ~IsBuy(t)
  <2>1. Trade[t].shares \in Nat /\ real[addr].token >= Trade[t].shares /\ Moves(addr, 0, -Trade[t].shares)
    BY <1>3, TradeForm DEF Covered, Exchanged
  <2>2. -Trade[t].shares \in Int /\ real[addr].token + (-Trade[t].shares) >= 0 /\ real[addr].pusd + 0 >= 0
    BY <1>1, <2>1
  <2> QED BY <2>1, <2>2, MovesCounted
<1> QED BY <1>2, <1>3

\* Orders rest on wallets, those without an answer as well.
LEMMA MatchedAt ==
  ASSUME OrderTypes, Match
  PROVE  \E t \in Trades, addr \in Addresses : Covered(t, addr) /\ Exchanged(t, addr)
<1>1. CASE \E t \in Trades : order[t] = "resting" /\ Covered(t, at[t]) /\ Exchanged(t, at[t])
  BY <1>1 DEF OrderTypes
<1>2. CASE \E t \in Trades : lost[t] # None /\ Covered(t, lost[t]) /\ Exchanged(t, lost[t])
  BY <1>2 DEF OrderTypes
<1> QED BY <1>1, <1>2 DEF Match

\* The outside world: the owner's wallet, the region, matched orders.
LEMMA WorldCounted ==
  ASSUME HandedInv, FundTypes, OrderTypes, OwnerMoves \/ RegionChanges \/ Match
  PROVE  FundTypes' /\ (cycle.pc # "idle" => NoLess) /\ UNCHANGED cycle
<1>1. CycleWallet /\ (cycle.pc # "idle" => Where \in Addresses)
  BY CycleAddresses DEF HandedInv
<1>2. CASE OwnerMoves
  <2>1. PICK a \in DOMAIN config, n \in Amounts :
          LET addr == config[a].addr IN
          \/ real[addr].pusd >= n /\ Moves(addr, -n, 0)
          \/ real[addr].token >= n /\ Moves(addr, 0, -n)
          \/ Moves(addr, n, 0)
          \/ Moves(addr, 0, n)
    BY <1>2 DEF OwnerMoves
  <2> DEFINE addr == config[a].addr
  <2>2. addr \in Addresses
    BY ConfiguredWallets DEF HandedInv, Wallet
  <2>3. n \in Nat
    BY FundsConstantsOK DEF FundsConstantsOK
  <2>4. real[addr].pusd \in Nat /\ real[addr].token \in Nat
    BY <2>2, FundForm
  <2> HIDE DEF addr
  <2>5. \E cash, shares \in Int :
          Moves(addr, cash, shares) /\ real[addr].pusd + cash >= 0 /\ real[addr].token + shares >= 0
    <3>1. CASE real[addr].pusd >= n /\ Moves(addr, -n, 0)
      <4>1. -n \in Int /\ 0 \in Int /\ real[addr].pusd + (-n) >= 0 /\ real[addr].token + 0 >= 0
        BY <2>3, <2>4, <3>1
      <4> QED BY <3>1, <4>1
    <3>2. CASE real[addr].token >= n /\ Moves(addr, 0, -n)
      <4>1. -n \in Int /\ 0 \in Int /\ real[addr].token + (-n) >= 0 /\ real[addr].pusd + 0 >= 0
        BY <2>3, <2>4, <3>2
      <4> QED BY <3>2, <4>1
    <3>3. CASE Moves(addr, n, 0)
      <4>1. n \in Int /\ 0 \in Int /\ real[addr].pusd + n >= 0 /\ real[addr].token + 0 >= 0
        BY <2>3, <2>4
      <4> QED BY <3>3, <4>1
    <3>4. CASE Moves(addr, 0, n)
      <4>1. n \in Int /\ 0 \in Int /\ real[addr].pusd + 0 >= 0 /\ real[addr].token + n >= 0
        BY <2>3, <2>4
      <4> QED BY <3>4, <4>1
    <3> QED BY <2>1, <3>1, <3>2, <3>3, <3>4 DEF addr
  <2> QED BY <1>1, <1>2, <2>2, <2>5, MovesCounted DEF OwnerMoves
<1>3. CASE RegionChanges
  BY <1>1, <1>3, NothingMoves DEF RegionChanges
<1>4. CASE Match
  <2>1. PICK t \in Trades, addr \in Addresses : Covered(t, addr) /\ Exchanged(t, addr)
    BY <1>4, MatchedAt
  <2> QED BY <1>1, <1>4, <2>1, ExchangeCounted DEF Match
<1> QED BY <1>2, <1>3, <1>4

-----------------------------------------------------------------------------
(* Orders and trades                                                       *)

LEMMA OrdersStill ==
  ASSUME OrderTypes, UNCHANGED <<order, at, lost, cycle>>
  PROVE  OrderTypes'
BY DEF OrderTypes, Now

LEMMA MatchOrders ==
  ASSUME OrderTypes, OwnerMoves \/ RegionChanges \/ Match
  PROVE  OrderTypes'
<1>1. CASE OwnerMoves \/ RegionChanges
  BY <1>1, OrdersStill DEF OwnerMoves, RegionChanges
<1>2. CASE Match
  <2>1. UNCHANGED <<at, cycle>>
    BY <1>2 DEF Match
  <2>2. CASE \E t \in Trades : order' = [order EXCEPT ![t] = "matched"] /\ UNCHANGED lost
    BY <2>1, <2>2 DEF OrderTypes, Now
  <2>3. CASE \E t \in Trades : lost' = [lost EXCEPT ![t] = None] /\ UNCHANGED order
    BY <2>1, <2>3 DEF OrderTypes, Now
  <2> QED BY <1>2, <2>2, <2>3 DEF Match
<1> QED BY <1>1, <1>2

LEMMA BeginOrders ==
  ASSUME OrderTypes, NEW a, CycleBegin(a)
  PROVE  OrderTypes'
<1> DEFINE matched == {t \in Work(a) : order[t] = "matched"}
<1>1. /\ order' = [t \in Trades |-> IF t \in matched THEN "done" ELSE order[t]]
      /\ cycle' = [NoCycle EXCEPT !.pc = "geo", !.acct = a, !.wallet = config[a],
                                  !.queue = Work(a) \ matched]
      /\ at' = at /\ lost' = lost
  BY DEF CycleBegin
<1>2. Work(a) \ matched \subseteq Trades
  BY DEF Work
<1> HIDE DEF matched
<1>3. cycle'.pc = "geo" /\ cycle'.queue = Work(a) \ matched
  BY <1>1 DEF NoCycle
<1> QED BY <1>1, <1>2, <1>3 DEF OrderTypes

\* A trade that was handled leaves the queue.
LEMMA HandledOrders ==
  ASSUME OrderTypes, CycleWallet, cycle.pc # "idle", NEW t \in Trades, NEW how, Handled(t, how),
         (how \in {"dropped", "refused", "done", order[t]} /\ at' = at)
         \/ (how = "resting" /\ \E addr \in Addresses : at' = [at EXCEPT ![t] = addr]),
         lost' = lost \/ \E addr \in Addresses \cup {None} : lost' = [lost EXCEPT ![t] = addr]
  PROVE  OrderTypes' /\ cycle'.pc = "pick" /\ cycle'.coll = cycle.coll /\ cycle'.snap = cycle.snap
<1>1. /\ order' = [order EXCEPT ![t] = how]
      /\ cycle' = [cycle EXCEPT !.pc = "pick", !.queue = @ \ {t}, !.trade = None]
      /\ DOMAIN cycle = CycleFields
  BY DEF Handled, CycleWallet
<1>2. cycle'.pc = "pick" /\ cycle'.queue = cycle.queue \ {t} /\ cycle'.coll = cycle.coll /\ cycle'.snap = cycle.snap
  BY <1>1 DEF CycleFields
<1>3. DOMAIN order' = Trades /\ DOMAIN at' = Trades /\ DOMAIN lost' = Trades
  BY <1>1 DEF OrderTypes
<1>4. \A u \in Trades : order'[u] = "resting" => at'[u] \in Addresses
  <2> TAKE u \in Trades
  <2>1. order'[u] = IF u = t THEN how ELSE order[u]
    BY <1>1 DEF OrderTypes
  <2>2. CASE how \in {"dropped", "refused", "done", order[t]} /\ at' = at
    BY <2>1, <2>2 DEF OrderTypes
  <2>3. CASE how = "resting" /\ \E addr \in Addresses : at' = [at EXCEPT ![t] = addr]
    BY <2>1, <2>3 DEF OrderTypes
  <2> QED BY <2>2, <2>3
<1>5. \A u \in Trades : lost'[u] # None => lost'[u] \in Addresses
  BY DEF OrderTypes
<1> QED BY <1>2, <1>3, <1>4, <1>5 DEF OrderTypes

\* What is read changes neither orders nor the queue.
LEMMA ReadOrders ==
  ASSUME OrderTypes, cycle.pc \in {"client", "chain", "decide", "place", "submit"},
         UNCHANGED <<order, at, lost>>,
         cycle'.trade = cycle.trade, cycle'.queue = cycle.queue
  PROVE  OrderTypes'
BY DEF OrderTypes, Now

-----------------------------------------------------------------------------
(* Readings                                                                *)

LEMMA CashStays ==
  ASSUME NEW coll, NEW ok, NEW ok2, NEW h \in Holding, NEW h2 \in Holding, NEW g \in Nat, NEW g2 \in Nat,
         CashBacked(coll, ok, h, g), ok2 => ok, h2.pusd + g2 >= h.pusd + g, h2.usdce = h.usdce
  PROVE  CashBacked(coll, ok2, h2, g2)
<1>1. h.pusd \in Nat /\ h.usdce \in Nat /\ h2.pusd \in Nat /\ h2.usdce \in Nat
  BY DEF Holding
<1> SUFFICES ASSUME ok, coll.fresh
             PROVE  /\ Backed(coll.clob, h2.pusd + g2)
                    /\ Backed(coll.chain, h2.pusd + h2.usdce + g2)
  BY DEF CashBacked
<1>2. Backed(coll.clob, h.pusd + g) /\ Backed(coll.chain, h.pusd + h.usdce + g)
  BY DEF CashBacked
<1> QED BY <1>1, <1>2 DEF Backed

LEMMA SharesStay ==
  ASSUME NEW snap, NEW ok, NEW ok2, NEW h \in Holding, NEW h2 \in Holding, NEW g \in Nat, NEW g2 \in Nat,
         SharesBacked(snap, ok, h, g), ok2 => ok, h2.token + g2 >= h.token + g
  PROVE  SharesBacked(snap, ok2, h2, g2)
<1>1. h.token \in Nat /\ h2.token \in Nat
  BY DEF Holding
<1> SUFFICES ASSUME ok, snap.fresh PROVE Backed(snap.balance, h2.token + g2)
  BY DEF SharesBacked
<1>2. Backed(snap.balance, h.token + g)
  BY DEF SharesBacked
<1> QED BY <1>1, <1>2 DEF Backed

\* Readings stay backed while only what is counted leaves the wallet.
LEMMA StillBacked ==
  ASSUME CycleWallet, FundsInv, cycle.pc # "idle", FundTypes', NoLess, Agreed' => Agreed
  PROVE  /\ CashKnown => CashBacked(cycle.coll, Agreed', real'[Where], left'.cash)
         /\ SharesKnown => SharesBacked(cycle.snap, Agreed', real'[Where], left'.token)
<1>1. Where \in Addresses
  BY CycleAddresses
<1>2. /\ real[Where] \in Holding /\ real'[Where] \in Holding
      /\ left.cash \in Nat /\ left.token \in Nat /\ left'.cash \in Nat /\ left'.token \in Nat
  BY <1>1 DEF FundsInv, FundTypes, Gone
<1>3. CashKnown => CashBacked(cycle.coll, Agreed, real[Where], left.cash)
  BY DEF FundsInv, ReadingsInv
<1>4. SharesKnown => SharesBacked(cycle.snap, Agreed, real[Where], left.token)
  BY DEF FundsInv, ReadingsInv
<1>5. ASSUME CashKnown PROVE CashBacked(cycle.coll, Agreed', real'[Where], left'.cash)
  BY <1>2, <1>3, <1>5, CashStays DEF NoLess
<1>6. ASSUME SharesKnown PROVE SharesBacked(cycle.snap, Agreed', real'[Where], left'.token)
  BY <1>2, <1>4, <1>6, SharesStay DEF NoLess
<1> QED BY <1>5, <1>6

LEMMA WorldKeeps ==
  ASSUME CycleWallet, FundsInv, FundTypes', cycle.pc # "idle" => NoLess, UNCHANGED cycle, StillAgrees
  PROVE  ReadingsInv' /\ OrdersCovered'
<1>0. cycle.pc # "idle" => (Agreed' => Agreed)
  BY DEF StillAgrees
<1>1. ReadingsInv'
  <2> SUFFICES ASSUME cycle.pc # "idle" PROVE ReadingsInv'
    BY DEF ReadingsInv
  <2>1. /\ CashKnown => CashBacked(cycle.coll, Agreed', real'[Where], left'.cash)
        /\ SharesKnown => SharesBacked(cycle.snap, Agreed', real'[Where], left'.token)
    BY <1>0, StillBacked
  <2>2. Where' = Where /\ Now' = Now /\ (CashKnown' <=> CashKnown) /\ (SharesKnown' <=> SharesKnown)
    BY DEF Where, Now, CashKnown, SharesKnown, IsBuy
  <2> QED BY <2>1, <2>2 DEF FundsInv, ReadingsInv, IsBuy, CashBacked, SharesBacked
<1>2. ASSUME cycle.pc \in {"place", "submit"} PROVE BuyCovered' /\ SellCovered'
  <2>1. Where \in Addresses /\ Now \in Trades /\ (Agreed' => Agreed)
    BY <1>0, <1>2, CycleAddresses DEF FundsInv, OrderTypes
  <2>2. /\ real[Where] \in Holding /\ real'[Where] \in Holding
        /\ left.cash \in Nat /\ left.token \in Nat /\ left'.cash \in Nat /\ left'.token \in Nat
    BY <2>1 DEF FundsInv, FundTypes, Gone
  <2>3. BuyCovered /\ SellCovered /\ NoLess
    BY <1>2 DEF FundsInv, OrdersCovered
  <2>4. Where' = Where /\ Now' = Now /\ Needed' = Needed
    BY DEF Where, Now, Needed, IsBuy
  <2>5. /\ real[Where].pusd \in Nat /\ real[Where].usdce \in Nat /\ real[Where].token \in Nat
        /\ real'[Where].pusd \in Nat /\ real'[Where].usdce \in Nat /\ real'[Where].token \in Nat
    BY <2>2 DEF Holding
  <2>6. Needed \in Nat
    BY <2>1, TradeForm DEF Needed
  <2>7. BuyCovered'
    <3> SUFFICES ASSUME IsBuy(Now), Agreed', cycle.coll.fresh
                 PROVE  Needed <= Tolerance + left'.cash + real'[Where].pusd
                                  + (IF Known(cycle.coll.clob) > 0 THEN 0 ELSE real'[Where].usdce)
      BY <2>4 DEF BuyCovered, Agreed, IsBuy, Known
    <3>1. Needed <= Tolerance + left.cash + real[Where].pusd
                    + (IF Known(cycle.coll.clob) > 0 THEN 0 ELSE real[Where].usdce)
      BY <2>1, <2>3 DEF BuyCovered, Agreed
    <3> QED BY <2>2, <2>3, <2>5, <2>6, <3>1 DEF NoLess, Tolerance
  <2>8. SellCovered'
    <3> SUFFICES ASSUME ~IsBuy(Now), Agreed', cycle.snap.fresh
                 PROVE  Needed <= Tolerance + left'.token + real'[Where].token
      BY <2>4 DEF SellCovered, Agreed, IsBuy
    <3>1. Needed <= Tolerance + left.token + real[Where].token
      BY <2>1, <2>3 DEF SellCovered, Agreed
    <3> QED BY <2>2, <2>3, <2>5, <2>6, <3>1 DEF NoLess, Tolerance
  <2> QED BY <2>7, <2>8
<1> QED BY <1>1, <1>2 DEF OrdersCovered

\* A step of the cycle that makes no reading and places nothing.
LEMMA PlainKeeps ==
  ASSUME CycleWallet, FundsInv, FundTypes', cycle.pc # "idle", NoLess, StillAgrees,
         cycle'.wallet = cycle.wallet, cycle'.coll = cycle.coll,
         cycle'.snap = cycle.snap \/ (cycle'.snap = None /\ cycle'.pc = "client"),
         \/ cycle'.pc = "pick"
         \/ cycle'.pc = "decide" /\ (IF IsBuy(Now') THEN CashKnown ELSE SharesKnown)
         \/ cycle'.pc = "client" /\ (IsBuy(Now') \/ cycle'.snap = None)
  PROVE  ReadingsInv' /\ OrdersCovered'
<1>1. Where' = Where /\ (Agreed' => Agreed)
  BY DEF Where, StillAgrees
<1>2. /\ CashKnown => CashBacked(cycle.coll, Agreed', real'[Where], left'.cash)
      /\ SharesKnown => SharesBacked(cycle.snap, Agreed', real'[Where], left'.token)
  BY <1>1, StillBacked
<1>3. (CashKnown' => CashKnown) /\ (SharesKnown' => SharesKnown /\ cycle'.snap = cycle.snap)
  BY DEF CashKnown, SharesKnown, Now, IsBuy
<1>4. /\ cycle'.pc = "client" /\ ~IsBuy(Now') => cycle'.snap = None
      /\ cycle'.pc \notin {"chain", "place", "submit"}
  OBVIOUS
<1>5. ReadingsInv'
  BY <1>1, <1>2, <1>3, <1>4 DEF ReadingsInv, IsBuy, CashBacked, SharesBacked
<1> QED BY <1>4, <1>5 DEF OrdersCovered

\* A covered order is on its way to the exchange.
LEMMA CoveredKeeps ==
  ASSUME FundsInv, cycle.pc \in {"decide", "place", "submit"}, cycle'.pc \in {"place", "submit"},
         StillAgrees, UNCHANGED <<real, left, order, at, lost>>, BuyCovered, SellCovered,
         cycle'.trade = cycle.trade, cycle'.queue = cycle.queue, cycle'.wallet = cycle.wallet,
         cycle'.coll = cycle.coll, cycle'.snap = cycle.snap
  PROVE  FundsInv'
<1>1. FundTypes'
  BY DEF FundsInv, FundTypes
<1>2. OrderTypes'
  BY ReadOrders DEF FundsInv
<1>3. Where' = Where /\ Now' = Now /\ Needed' = Needed /\ (Agreed' => Agreed)
  BY DEF Where, Now, Needed, IsBuy, StillAgrees
<1>4. (CashKnown' => CashKnown) /\ (SharesKnown' => SharesKnown)
  BY DEF CashKnown, SharesKnown
<1>5. ReadingsInv'
  BY <1>3, <1>4 DEF FundsInv, ReadingsInv, IsBuy, CashBacked, SharesBacked
<1>6. BuyCovered'
  BY <1>3 DEF BuyCovered, Agreed, IsBuy, Known
<1>7. SellCovered'
  BY <1>3 DEF SellCovered, Agreed, IsBuy
<1> QED BY <1>1, <1>2, <1>5, <1>6, <1>7 DEF FundsInv, OrdersCovered

-----------------------------------------------------------------------------
(* The steps of a cycle                                                    *)

LEMMA GeoblockKeeps ==
  ASSUME CycleWallet, FundsInv, StillAgrees, CheckGeoblock
  PROVE  FundsInv'
<1>1. /\ cycle.pc = "geo" /\ UNCHANGED <<real, left, order, at, lost>> /\ DOMAIN cycle = CycleFields
      /\ cycle' = NoCycle \/ cycle' = [cycle EXCEPT !.pc = "pick"]
  BY DEF CheckGeoblock, EndCycle, CycleWallet
<1>2. FundTypes' /\ NoLess
  BY <1>1, NothingMoves DEF FundsInv
<1>3. CASE cycle' = NoCycle
  <2>1. cycle'.pc = "idle"
    BY <1>3 DEF NoCycle
  <2> QED BY <1>1, <1>2, <2>1 DEF FundsInv, OrderTypes, ReadingsInv, OrdersCovered
<1>4. CASE cycle' = [cycle EXCEPT !.pc = "pick"]
  <2>1. /\ cycle'.pc = "pick" /\ cycle'.queue = cycle.queue /\ cycle'.wallet = cycle.wallet
        /\ cycle'.coll = cycle.coll /\ cycle'.snap = cycle.snap
    BY <1>1, <1>4 DEF CycleFields
  <2>2. OrderTypes'
    BY <1>1, <2>1 DEF FundsInv, OrderTypes
  <2>3. ReadingsInv' /\ OrdersCovered'
    BY <1>1, <1>2, <2>1, PlainKeeps
  <2> QED BY <1>2, <2>2, <2>3 DEF FundsInv
<1> QED BY <1>1, <1>3, <1>4

LEMMA TakeKeeps ==
  ASSUME CycleWallet, FundsInv, StillAgrees, Take
  PROVE  FundsInv'
<1>1. cycle.pc = "pick" /\ UNCHANGED <<real, left, at, lost>> /\ DOMAIN cycle = CycleFields
  BY DEF Take, CycleWallet
<1>2. FundTypes' /\ NoLess /\ OrderTypes
  BY <1>1, NothingMoves DEF FundsInv
<1>3. CASE EndCycle /\ UNCHANGED order
  <2>1. cycle'.pc = "idle"
    BY <1>3 DEF EndCycle, NoCycle
  <2> QED BY <1>1, <1>2, <1>3, <2>1 DEF FundsInv, OrderTypes, ReadingsInv, OrdersCovered
<1>4. ASSUME NEW t \in cycle.queue,
             \/ Handled(t, "dropped")
             \/ /\ IF IsBuy(t) THEN cycle.coll # None ELSE cycle.snap # None
                /\ cycle' = [cycle EXCEPT !.pc = "decide", !.trade = t] /\ UNCHANGED order
             \/ AskClient(t) /\ UNCHANGED order
      PROVE  FundsInv'
  <2>1. t \in Trades
    BY <1>1, <1>2 DEF OrderTypes
  <2>2. CASE Handled(t, "dropped")
    <3>1. OrderTypes' /\ cycle'.pc = "pick" /\ cycle'.coll = cycle.coll /\ cycle'.snap = cycle.snap
      BY <1>1, <1>2, <2>1, <2>2, HandledOrders
    <3>2. cycle'.wallet = cycle.wallet
      BY <1>1, <2>2 DEF Handled, CycleFields
    <3> QED BY <1>1, <1>2, <3>1, <3>2, PlainKeeps DEF FundsInv
  <2>3. CASE /\ IF IsBuy(t) THEN cycle.coll # None ELSE cycle.snap # None
             /\ cycle' = [cycle EXCEPT !.pc = "decide", !.trade = t] /\ UNCHANGED order
    <3>1. /\ cycle'.pc = "decide" /\ cycle'.trade = t /\ cycle'.queue = cycle.queue
          /\ cycle'.wallet = cycle.wallet /\ cycle'.coll = cycle.coll /\ cycle'.snap = cycle.snap
      BY <1>1, <2>3 DEF CycleFields
    <3>2. OrderTypes'
      BY <1>1, <1>2, <2>1, <2>3, <3>1 DEF OrderTypes, Now
    <3>3. IF IsBuy(Now') THEN CashKnown ELSE SharesKnown
      BY <2>3, <3>1 DEF Now, CashKnown, SharesKnown
    <3> QED BY <1>1, <1>2, <3>1, <3>2, <3>3, PlainKeeps DEF FundsInv
  <2>4. CASE AskClient(t) /\ UNCHANGED order
    <3> PICK snap : snap = (IF IsBuy(t) THEN cycle.snap ELSE None)
      OBVIOUS
    <3>0. cycle' = [cycle EXCEPT !.pc = "client", !.trade = t, !.again = FALSE, !.snap = snap]
      BY <2>4 DEF AskClient
    <3>1. /\ cycle'.pc = "client" /\ cycle'.trade = t /\ cycle'.queue = cycle.queue
          /\ cycle'.wallet = cycle.wallet /\ cycle'.coll = cycle.coll /\ cycle'.snap = snap
      BY <1>1, <3>0 DEF CycleFields
    <3>2. OrderTypes'
      BY <1>1, <1>2, <2>1, <2>4, <3>1 DEF OrderTypes, Now
    <3>3. IsBuy(Now') \/ cycle'.snap = None
      BY <3>1 DEF Now
    <3>4. cycle'.snap = cycle.snap \/ cycle'.snap = None
      BY <3>1
    <3> QED BY <1>1, <1>2, <3>1, <3>2, <3>3, <3>4, PlainKeeps DEF FundsInv
  <2> QED BY <1>4, <2>2, <2>3, <2>4
<1> QED BY <1>3, <1>4 DEF Take

\* A reading of the cash, or none, is put next to that of the shares.
LEMMA CashReadKeeps ==
  ASSUME CycleWallet, FundsInv, StillAgrees, cycle.pc = "client", IsBuy(Now), UNCHANGED <<real, order, at, lost>>,
         left' = left \/ left' = [left EXCEPT !.cash = 0],
         NEW coll, CashRead(coll), CashBacked(coll, Agreed, real[Where], left'.cash)
  PROVE  FundsInv'
<1>1. cycle' = [cycle EXCEPT !.pc = "chain", !.coll = coll] /\ DOMAIN cycle = CycleFields
  BY DEF CashRead, CycleWallet
<1>2. /\ cycle'.pc = "chain" /\ cycle'.trade = cycle.trade /\ cycle'.queue = cycle.queue
      /\ cycle'.wallet = cycle.wallet /\ cycle'.coll = coll /\ cycle'.snap = cycle.snap
  BY <1>1 DEF CycleFields
<1>3. OrderTypes'
  BY <1>2, ReadOrders DEF FundsInv
<1>4. FundTypes' /\ left'.token = left.token
  <2>1. left = [cash |-> left.cash, token |-> left.token, moved |-> left.moved]
        /\ left.cash \in Nat /\ left.token \in Nat /\ left.moved \in BOOLEAN
    BY FundForm DEF FundsInv
  <2>2. CASE left' = left
    BY <2>2 DEF FundsInv, FundTypes
  <2>3. CASE left' = [left EXCEPT !.cash = 0]
    <3>1. left' = [cash |-> 0, token |-> left.token, moved |-> left.moved]
      BY <2>1, <2>3
    <3>2. left' \in Gone /\ left'.token = left.token
      BY <2>1, <3>1 DEF Gone
    <3> QED BY <3>2 DEF FundsInv, FundTypes
  <2> QED BY <2>2, <2>3
<1>5. Where' = Where /\ Now' = Now /\ (Agreed' => Agreed)
  BY <1>2 DEF Where, Now, StillAgrees
<1>6. SharesKnown => SharesBacked(cycle.snap, Agreed, real[Where], left.token)
  BY DEF FundsInv, ReadingsInv
<1>7. SharesKnown' => SharesKnown
  BY <1>2, <1>5 DEF SharesKnown, IsBuy
<1>8. ReadingsInv'
  BY <1>2, <1>4, <1>5, <1>6, <1>7 DEF ReadingsInv, IsBuy, CashBacked, SharesBacked
<1> QED BY <1>2, <1>3, <1>4, <1>8 DEF FundsInv, OrdersCovered

\* So with a reading of the shares.
LEMMA TokenReadKeeps ==
  ASSUME CycleWallet, FundsInv, StillAgrees, cycle.pc = "client", ~IsBuy(Now), UNCHANGED <<real, order, at, lost>>,
         left' = left \/ left' = [left EXCEPT !.token = 0, !.moved = FALSE],
         NEW snap, TokenRead(snap), SharesBacked(snap, Agreed, real[Where], left'.token)
  PROVE  FundsInv'
<1>1. cycle' = [cycle EXCEPT !.pc = "decide", !.snap = snap] /\ DOMAIN cycle = CycleFields
  BY DEF TokenRead, CycleWallet
<1>2. /\ cycle'.pc = "decide" /\ cycle'.trade = cycle.trade /\ cycle'.queue = cycle.queue
      /\ cycle'.wallet = cycle.wallet /\ cycle'.coll = cycle.coll /\ cycle'.snap = snap
  BY <1>1 DEF CycleFields
<1>3. OrderTypes'
  BY <1>2, ReadOrders DEF FundsInv
<1>4. FundTypes' /\ left'.cash = left.cash
  <2>1. left = [cash |-> left.cash, token |-> left.token, moved |-> left.moved]
        /\ left.cash \in Nat /\ left.token \in Nat /\ left.moved \in BOOLEAN
    BY FundForm DEF FundsInv
  <2>2. CASE left' = left
    BY <2>2 DEF FundsInv, FundTypes
  <2>3. CASE left' = [left EXCEPT !.token = 0, !.moved = FALSE]
    <3>1. left' = [cash |-> left.cash, token |-> 0, moved |-> FALSE]
      BY <2>1, <2>3
    <3>2. left' \in Gone /\ left'.cash = left.cash
      BY <2>1, <3>1 DEF Gone
    <3> QED BY <3>2 DEF FundsInv, FundTypes
  <2> QED BY <2>2, <2>3
<1>5. Where' = Where /\ Now' = Now /\ (Agreed' => Agreed)
  BY <1>2 DEF Where, Now, StillAgrees
<1>6. CashKnown => CashBacked(cycle.coll, Agreed, real[Where], left.cash)
  BY DEF FundsInv, ReadingsInv
<1>7. CashKnown' => CashKnown
  BY <1>2, <1>5 DEF CashKnown, IsBuy
<1>8. ReadingsInv'
  BY <1>2, <1>4, <1>5, <1>6, <1>7 DEF ReadingsInv, IsBuy, CashBacked, SharesBacked
<1> QED BY <1>2, <1>3, <1>4, <1>8 DEF FundsInv, OrdersCovered

\* A reading that failed: nothing is known, or it is made once more.
LEMMA CashFailedKeeps ==
  ASSUME CycleWallet, FundsInv, StillAgrees, cycle.pc = "client", IsBuy(Now), UNCHANGED <<real, order, at, lost>>,
         left' = left \/ left' = [left EXCEPT !.cash = 0], CashRead(NoCash)
  PROVE  FundsInv'
<1>1. CashBacked(NoCash, Agreed, real[Where], left'.cash)
  <2>1. NoCash.clob = None /\ NoCash.chain = None
        /\ DOMAIN NoCash = {"clob", "allowance", "chain", "ready", "fresh"}
    BY DEF NoCash
  <2> QED BY <2>1 DEF CashBacked, Backed
<1> QED BY <1>1, CashReadKeeps

LEMMA TokenFailedKeeps ==
  ASSUME CycleWallet, FundsInv, StillAgrees, cycle.pc = "client", ~IsBuy(Now), UNCHANGED <<real, order, at, lost>>,
         left' = left \/ left' = [left EXCEPT !.token = 0, !.moved = FALSE], TokenFailed
  PROVE  FundsInv'
<1>1. CASE TokenRead(NoSnapshot)
  <2>1. SharesBacked(NoSnapshot, Agreed, real[Where], left'.token)
    <3>1. NoSnapshot.balance = None
      BY DEF NoSnapshot
    <3> QED BY <3>1 DEF SharesBacked, Backed
  <2> QED BY <1>1, <2>1, TokenReadKeeps
<1>2. CASE cycle' = [cycle EXCEPT !.again = TRUE]
  <2>1. /\ cycle'.pc = "client" /\ cycle'.trade = cycle.trade /\ cycle'.queue = cycle.queue
        /\ cycle'.wallet = cycle.wallet /\ cycle'.coll = cycle.coll /\ cycle'.snap = cycle.snap
    BY <1>2 DEF CycleWallet, CycleFields
  <2>2. OrderTypes'
    BY <2>1, ReadOrders DEF FundsInv
  <2>3. FundTypes' /\ left'.cash = left.cash
    <3>1. left = [cash |-> left.cash, token |-> left.token, moved |-> left.moved]
          /\ left.cash \in Nat /\ left.token \in Nat /\ left.moved \in BOOLEAN
      BY FundForm DEF FundsInv
    <3>2. CASE left' = left
      BY <3>2 DEF FundsInv, FundTypes
    <3>3. CASE left' = [left EXCEPT !.token = 0, !.moved = FALSE]
      <4>1. left' = [cash |-> left.cash, token |-> 0, moved |-> FALSE]
        BY <3>1, <3>3
      <4>2. left' \in Gone /\ left'.cash = left.cash
        BY <3>1, <4>1 DEF Gone
      <4> QED BY <4>2 DEF FundsInv, FundTypes
    <3> QED BY <3>2, <3>3
  <2>4. Where' = Where /\ Now' = Now /\ (Agreed' => Agreed)
    BY <2>1 DEF Where, Now, StillAgrees
  <2>5. CashKnown => CashBacked(cycle.coll, Agreed, real[Where], left.cash)
    BY DEF FundsInv, ReadingsInv
  <2>6. (CashKnown' => CashKnown) /\ cycle.snap = None
    BY <2>1, <2>4 DEF CashKnown, IsBuy, FundsInv, ReadingsInv
  <2>7. ReadingsInv'
    BY <2>1, <2>3, <2>4, <2>5, <2>6 DEF ReadingsInv, SharesKnown, IsBuy, CashBacked
  <2> QED BY <2>1, <2>2, <2>3, <2>7 DEF FundsInv, OrdersCovered
<1> QED BY <1>1, <1>2 DEF TokenFailed

LEMMA NoClientKeeps ==
  ASSUME CycleWallet, FundsInv, StillAgrees, NoClient
  PROVE  FundsInv'
<1>1. cycle.pc = "client" /\ UNCHANGED <<real, left, order, at, lost>>
      /\ (IF IsBuy(Now) THEN CashRead(NoCash) ELSE TokenFailed)
  BY DEF NoClient
<1> QED BY <1>1, CashFailedKeeps, TokenFailedKeeps

LEMMA ReadClobKeeps ==
  ASSUME HandedInv, FundsInv, StillAgrees, ReadClob
  PROVE  FundsInv'
<1> DEFINE addr == Acting
           fresh == listed'[addr] = Refreshed(addr)
           coll == [NoCash EXCEPT !.clob = listed'[addr].cash, !.fresh = fresh,
                                  !.allowance = allowed[addr] # {}]
           snap == [balance |-> listed'[addr].token, fresh |-> fresh, allowance |-> allowed[addr] # {}]
<1>0. CycleWallet /\ (Agreed => addr = Where)
  BY ActingWhere DEF ReadClob, HandedInv
<1>1. /\ cycle.pc = "client" /\ UNCHANGED <<real, order, at, lost>>
      /\ left' = IF IsBuy(Now) THEN [left EXCEPT !.cash = 0]
                 ELSE [left EXCEPT !.token = 0, !.moved = FALSE]
      /\ \/ IF IsBuy(Now) THEN CashRead(coll) ELSE TokenRead(snap)
         \/ IF IsBuy(Now) THEN CashRead(NoCash) ELSE TokenFailed
  BY DEF ReadClob
<1>2. Where \in Addresses /\ left.cash \in Nat /\ left.token \in Nat
      /\ left = [cash |-> left.cash, token |-> left.token, moved |-> left.moved]
  BY <1>0, <1>1, CycleAddresses, FundForm DEF FundsInv
<1>3. real[Where].pusd \in Nat /\ real[Where].token \in Nat
  BY <1>2, FundForm DEF FundsInv
<1>4. addr = Where /\ fresh =>
        listed'[addr].token = real[Where].token
        /\ (listed'[addr].cash = real[Where].pusd \/ listed'[addr].cash = 0)
  BY DEF Refreshed
<1>5. CASE IsBuy(Now) /\ CashRead(coll)
  <2>1. left'.cash = 0
    BY <1>1, <1>2, <1>5
  <2>2. /\ coll.clob = listed'[addr].cash /\ coll.fresh = fresh /\ coll.chain = None
        /\ DOMAIN coll = {"clob", "allowance", "chain", "ready", "fresh"}
    BY DEF NoCash
  <2> HIDE DEF coll, addr, fresh
  <2>3. CashBacked(coll, Agreed, real[Where], left'.cash)
    BY <1>0, <1>3, <1>4, <2>1, <2>2 DEF CashBacked, Backed
  <2> QED BY <1>0, <1>1, <1>5, <2>3, CashReadKeeps
<1>6. CASE ~IsBuy(Now) /\ TokenRead(snap)
  <2>1. left'.token = 0
    BY <1>1, <1>2, <1>6
  <2>2. snap.balance = listed'[addr].token /\ snap.fresh = fresh
    OBVIOUS
  <2> HIDE DEF snap, addr, fresh
  <2>3. SharesBacked(snap, Agreed, real[Where], left'.token)
    BY <1>0, <1>3, <1>4, <2>1, <2>2 DEF SharesBacked, Backed
  <2> QED BY <1>0, <1>1, <1>6, <2>3, TokenReadKeeps
<1> QED BY <1>0, <1>1, <1>5, <1>6, CashFailedKeeps, TokenFailedKeeps

LEMMA ReadChainKeeps ==
  ASSUME CycleWallet, FundsInv, StillAgrees, ReadChain
  PROVE  FundsInv'
<1> DEFINE cash == real[Where].pusd + real[Where].usdce
           old == cycle.coll
<1>1. /\ cycle.pc = "chain" /\ UNCHANGED <<real, left, order, at, lost>> /\ DOMAIN cycle = CycleFields
      /\ \/ \E ready : cycle' = [cycle EXCEPT !.pc = "decide", !.coll.chain = cash, !.coll.ready = ready]
         \/ cycle' = [cycle EXCEPT !.pc = "decide"]
  BY DEF ReadChain, CycleWallet
<1>2. FundTypes' /\ NoLess
  BY <1>1, NothingMoves DEF FundsInv
<1>3. CashBacked(old, Agreed, real[Where], left.cash) /\ IsBuy(Now)
  BY <1>1 DEF FundsInv, ReadingsInv, CashKnown
<1>4. SharesKnown => SharesBacked(cycle.snap, Agreed, real[Where], left.token)
  BY <1>1 DEF FundsInv, ReadingsInv
<1>5. /\ cycle'.pc = "decide" /\ cycle'.trade = cycle.trade /\ cycle'.queue = cycle.queue
      /\ cycle'.wallet = cycle.wallet /\ cycle'.snap = cycle.snap
  BY <1>1 DEF CycleFields
<1>6. OrderTypes'
  BY <1>1, <1>5, ReadOrders DEF FundsInv
<1>7. Where' = Where /\ Now' = Now /\ (Agreed' => Agreed)
  BY <1>5 DEF Where, Now, StillAgrees
<1>8. SharesKnown' => SharesKnown
  BY <1>3, <1>5, <1>7 DEF SharesKnown, IsBuy
<1>9. CashBacked(cycle'.coll, Agreed, real[Where], left.cash)
  <2>1. CASE cycle' = [cycle EXCEPT !.pc = "decide"]
    <3>1. cycle'.coll = old
      BY <1>1, <2>1 DEF CycleFields
    <3> QED BY <1>3, <3>1
  <2>2. ASSUME NEW ready,
               cycle' = [cycle EXCEPT !.pc = "decide", !.coll.chain = cash, !.coll.ready = ready]
        PROVE  CashBacked(cycle'.coll, Agreed, real[Where], left.cash)
    <3> HIDE DEF cash
    <3>1. cycle'.coll = [[old EXCEPT !.chain = cash] EXCEPT !.ready = ready]
      BY <1>1, <2>2 DEF CycleFields
    <3> HIDE DEF old
    <3>2. DOMAIN old = {"clob", "allowance", "chain", "ready", "fresh"}
      BY <1>3 DEF CashBacked
    <3> DEFINE mid == [old EXCEPT !.chain = cash]
    <3>3. /\ DOMAIN mid = DOMAIN old /\ mid.chain = cash /\ mid.clob = old.clob /\ mid.fresh = old.fresh
      BY <3>2
    <3>4. cycle'.coll = [mid EXCEPT !.ready = ready]
      BY <3>1
    <3> HIDE DEF mid
    <3>5. /\ DOMAIN cycle'.coll = DOMAIN old /\ cycle'.coll.chain = cash
          /\ cycle'.coll.clob = old.clob /\ cycle'.coll.fresh = old.fresh
      BY <3>2, <3>3, <3>4
    <3>6. real[Where].pusd \in Nat /\ real[Where].usdce \in Nat /\ left.cash \in Nat
      BY <1>1, CycleAddresses, FundForm DEF FundsInv
    <3>7. Backed(cash, real[Where].pusd + real[Where].usdce + left.cash)
      BY <3>6 DEF Backed, cash
    <3> QED BY <1>3, <3>2, <3>5, <3>7 DEF CashBacked
  <2> QED BY <1>1, <2>1, <2>2
<1>10. ReadingsInv'
  BY <1>1, <1>3, <1>4, <1>5, <1>7, <1>8, <1>9 DEF ReadingsInv, IsBuy, CashBacked, SharesBacked
<1> QED BY <1>2, <1>5, <1>6, <1>10 DEF FundsInv, OrdersCovered

\* The cash that is checked is backed by what the wallet holds, on one chain or the other.
LEMMA BuyIsCovered ==
  ASSUME CycleWallet, FundsInv, cycle.pc = "decide", IsBuy(Now),
         NEW cash, cash = IF CanTradeWithChainFallback(cycle.coll) THEN cycle.coll.chain
                          ELSE Known(cycle.coll.clob),
         CheckLiveBuyCollateral(cash, Needed)
  PROVE  BuyCovered
<1> SUFFICES ASSUME Agreed, cycle.coll.fresh
             PROVE  Needed <= Tolerance + left.cash + real[Where].pusd
                              + (IF Known(cycle.coll.clob) > 0 THEN 0 ELSE real[Where].usdce)
  BY DEF BuyCovered, Agreed
<1>1. /\ Backed(cycle.coll.clob, real[Where].pusd + left.cash)
      /\ Backed(cycle.coll.chain, real[Where].pusd + real[Where].usdce + left.cash)
  BY DEF FundsInv, ReadingsInv, CashKnown, CashBacked, Where
<1>2. Now \in Trades
  BY DEF FundsInv, OrderTypes
<1>3. Needed \in Nat
  BY <1>2, TradeForm DEF Needed
<1>4. /\ real[Where].pusd \in Nat /\ real[Where].usdce \in Nat /\ left.cash \in Nat
  BY CycleAddresses, FundForm DEF FundsInv
<1>5. Known(cycle.coll.clob) \in Nat /\ Known(cycle.coll.clob) <= real[Where].pusd + left.cash
  BY <1>1, <1>4 DEF Known, Backed
<1>6. cash + 1 >= Needed
  BY DEF CheckLiveBuyCollateral, Tolerance
<1>7. CASE CanTradeWithChainFallback(cycle.coll)
  <2>1. cash = cycle.coll.chain /\ Known(cycle.coll.clob) <= 0 /\ Known(cycle.coll.chain) > 0
    BY <1>7 DEF CanTradeWithChainFallback
  <2>2. cycle.coll.chain # None
    BY <2>1 DEF Known
  <2>3. cash \in Nat /\ cash <= real[Where].pusd + real[Where].usdce + left.cash
    BY <1>1, <2>1, <2>2 DEF Backed
  <2>4. ~(Known(cycle.coll.clob) > 0)
    BY <1>5, <2>1
  <2> QED BY <1>3, <1>4, <1>6, <2>3, <2>4 DEF Tolerance
<1>8. CASE ~CanTradeWithChainFallback(cycle.coll)
  <2>1. cash = Known(cycle.coll.clob)
    BY <1>8
  <2> QED BY <1>3, <1>4, <1>5, <1>6, <2>1 DEF Tolerance
<1> QED BY <1>7, <1>8

LEMMA SellIsCovered ==
  ASSUME CycleWallet, FundsInv, cycle.pc = "decide", ~IsBuy(Now), cycle.snap.balance # None,
         CheckLiveSellFromSnapshot(cycle.snap, Needed)
  PROVE  SellCovered
<1> SUFFICES ASSUME Agreed, cycle.snap.fresh
             PROVE  Needed <= Tolerance + left.token + real[Where].token
  BY DEF SellCovered, Agreed
<1>1. cycle.snap.balance \in Nat /\ cycle.snap.balance <= real[Where].token + left.token
  BY DEF FundsInv, ReadingsInv, SharesKnown, SharesBacked, Backed, Where
<1>2. Now \in Trades
  BY DEF FundsInv, OrderTypes
<1>3. Needed \in Nat
  BY <1>2, TradeForm DEF Needed
<1>4. real[Where].token \in Nat /\ left.token \in Nat
  BY CycleAddresses, FundForm DEF FundsInv
<1> QED BY <1>1, <1>3, <1>4 DEF CheckLiveSellFromSnapshot, Tolerance

LEMMA DecideKeeps ==
  ASSUME CycleWallet, FundsInv, StillAgrees, Decide
  PROVE  FundsInv'
<1>1. cycle.pc = "decide" /\ UNCHANGED <<real, left, at, lost>> /\ DOMAIN cycle = CycleFields
  BY DEF Decide, DecideBuy, DecideSell, CycleWallet
<1>2. FundTypes' /\ NoLess /\ OrderTypes /\ Now \in Trades
  BY <1>1, NothingMoves DEF FundsInv, OrderTypes
<1>3. ASSUME NEW how \in {"dropped", order[Now]}, Handled(Now, how) PROVE FundsInv'
  <2>1. OrderTypes' /\ cycle'.pc = "pick" /\ cycle'.coll = cycle.coll /\ cycle'.snap = cycle.snap
    BY <1>1, <1>2, <1>3, HandledOrders
  <2>2. cycle'.wallet = cycle.wallet
    BY <1>1, <1>3 DEF Handled, CycleFields
  <2> QED BY <1>1, <1>2, <2>1, <2>2, PlainKeeps DEF FundsInv
<1>4. ASSUME cycle' = [cycle EXCEPT !.pc = "place"], UNCHANGED order, BuyCovered, SellCovered
      PROVE  FundsInv'
  <2>1. /\ cycle'.pc = "place" /\ cycle'.trade = cycle.trade /\ cycle'.queue = cycle.queue
        /\ cycle'.wallet = cycle.wallet /\ cycle'.coll = cycle.coll /\ cycle'.snap = cycle.snap
    BY <1>1, <1>4 DEF CycleFields
  <2> QED BY <1>1, <1>4, <2>1, CoveredKeeps
<1>5. CASE DecideBuy
  <2>1. IsBuy(Now)
    BY <1>5 DEF DecideBuy
  <2>2. \/ Skip(Now)
        \/ /\ cycle' = [cycle EXCEPT !.pc = "place"] /\ UNCHANGED order
           /\ CheckLiveBuyCollateral(IF CanTradeWithChainFallback(cycle.coll) THEN cycle.coll.chain
                                      ELSE Known(cycle.coll.clob), Needed)
    BY <1>5 DEF DecideBuy
  <2>3. CASE Skip(Now)
    BY <1>3, <2>3 DEF Skip
  <2>4. CASE /\ cycle' = [cycle EXCEPT !.pc = "place"] /\ UNCHANGED order
             /\ CheckLiveBuyCollateral(IF CanTradeWithChainFallback(cycle.coll) THEN cycle.coll.chain
                                        ELSE Known(cycle.coll.clob), Needed)
    <3>1. BuyCovered
      BY <1>1, <2>1, <2>4, BuyIsCovered
    <3>2. SellCovered
      BY <2>1 DEF SellCovered
    <3> QED BY <1>4, <2>4, <3>1, <3>2
  <2> QED BY <2>2, <2>3, <2>4
<1>6. CASE DecideSell
  <2>1. ~IsBuy(Now)
    BY <1>6 DEF DecideSell
  <2>2. \/ Handled(Now, "dropped") \/ Skip(Now)
        \/ /\ cycle' = [cycle EXCEPT !.pc = "place"] /\ UNCHANGED order
           /\ cycle.snap.balance # None /\ CheckLiveSellFromSnapshot(cycle.snap, Needed)
    BY <1>6 DEF DecideSell
  <2>3. CASE Handled(Now, "dropped") \/ Skip(Now)
    BY <1>3, <2>3 DEF Skip
  <2>4. CASE /\ cycle' = [cycle EXCEPT !.pc = "place"] /\ UNCHANGED order
             /\ cycle.snap.balance # None /\ CheckLiveSellFromSnapshot(cycle.snap, Needed)
    <3>1. SellCovered
      BY <1>1, <2>1, <2>4, SellIsCovered
    <3>2. BuyCovered
      BY <2>1 DEF BuyCovered
    <3> QED BY <1>4, <2>4, <3>1, <3>2
  <2> QED BY <2>2, <2>3, <2>4
<1> QED BY <1>5, <1>6 DEF Decide

LEMMA SubmitKeeps ==
  ASSUME CycleWallet, FundsInv, StillAgrees, Submit
  PROVE  FundsInv'
<1>1. cycle.pc \in {"place", "submit"} /\ UNCHANGED <<real, left, at, lost>> /\ DOMAIN cycle = CycleFields
  BY DEF Submit, CycleWallet
<1>2. FundTypes' /\ NoLess /\ OrderTypes /\ Now \in Trades
  BY <1>1, NothingMoves DEF FundsInv, OrderTypes
<1>3. CASE Skip(Now)
  <2>1. Handled(Now, order[Now])
    BY <1>3 DEF Skip
  <2>2. OrderTypes' /\ cycle'.pc = "pick" /\ cycle'.coll = cycle.coll /\ cycle'.snap = cycle.snap
    BY <1>1, <1>2, <2>1, HandledOrders
  <2>3. cycle'.wallet = cycle.wallet
    BY <1>1, <2>1 DEF Handled, CycleFields
  <2> QED BY <1>1, <1>2, <2>2, <2>3, PlainKeeps DEF FundsInv
<1>4. CASE /\ UNCHANGED order
           /\ \/ cycle' = [cycle EXCEPT !.pc = "submit", !.again = FALSE]
              \/ cycle.pc = "submit" /\ cycle' = [cycle EXCEPT !.again = TRUE]
  <2>1. /\ cycle'.pc = "submit" /\ cycle'.trade = cycle.trade /\ cycle'.queue = cycle.queue
        /\ cycle'.wallet = cycle.wallet /\ cycle'.coll = cycle.coll /\ cycle'.snap = cycle.snap
    BY <1>1, <1>4 DEF CycleFields
  <2>2. BuyCovered /\ SellCovered
    BY <1>1 DEF FundsInv, OrdersCovered
  <2> QED BY <1>1, <1>4, <2>1, <2>2, CoveredKeeps
<1> QED BY <1>3, <1>4 DEF Submit

\* What the exchange did with an order, and what the cycle knows of it.
LEMMA PlaceForms ==
  ASSUME OrderTypes, Place
  PROVE  /\ cycle.pc = "submit" /\ Now \in Trades /\ call["cycle"].status = "got"
         /\ \/ Covered(Now, Acting) /\ Exchanged(Now, Acting)
            \/ UNCHANGED <<real, left>>
         /\ \/ tracked' = Booked(cycle.acct, {Now})
            \/ UNCHANGED tracked
         /\ \/ \E how \in {"done", "refused", order[Now]} : Handled(Now, how) /\ UNCHANGED at
            \/ /\ Handled(Now, "resting")
               /\ \E addr \in {Acting} \cup Addresses : at' = [at EXCEPT ![Now] = addr]
         /\ lost' = lost \/ \E addr \in {Acting, None} : lost' = [lost EXCEPT ![Now] = addr]
<1>1. cycle.pc = "submit" /\ Now \in Trades /\ call["cycle"].status = "got"
  BY DEF Place, OrderTypes
<1>2. CASE Covered(Now, Acting) /\ Taken(Acting)
  BY <1>1, <1>2 DEF Taken
<1>3. CASE (Rejected(Now) \/ Skip(Now)) /\ UNCHANGED <<real, listed, left, tracked, at, lost>>
  BY <1>1, <1>3 DEF Rejected, Skip
<1>4. CASE Covered(Now, Acting) /\ TakenUnanswered(Acting)
  BY <1>1, <1>4 DEF TakenUnanswered, Skip
<1>5. CASE Recovered
  <2>1. lost[Now] \in Addresses
    BY <1>1, <1>5 DEF Recovered, OrderTypes
  <2> QED BY <1>1, <1>5, <2>1 DEF Recovered
<1> QED BY <1>2, <1>3, <1>4, <1>5 DEF Place

LEMMA PlaceKeeps ==
  ASSUME HandedInv, FundsInv, StillAgrees, Place
  PROVE  FundsInv'
<1> DEFINE addr == Acting
<1>1. cycle.pc = "submit" /\ OrderTypes /\ Now \in Trades /\ call["cycle"].status = "got"
  BY PlaceForms DEF FundsInv
<1>2. /\ Where \in Addresses /\ addr \in Addresses /\ CycleWallet /\ DOMAIN cycle = CycleFields
  BY <1>1, CycleAddresses, ActingWhere DEF HandedInv, CycleWallet
<1>3. FundTypes' /\ NoLess
  <2>1. CASE Covered(Now, addr) /\ Exchanged(Now, addr)
    BY <1>1, <1>2, <2>1, ExchangeCounted DEF FundsInv
  <2>2. CASE UNCHANGED <<real, left>>
    BY <1>1, <1>2, <2>2, NothingMoves DEF FundsInv
  <2> QED BY <1>1, <2>1, <2>2, PlaceForms
<1>4. PICK how : /\ Handled(Now, how)
                 /\ \/ how \in {"dropped", "refused", "done", order[Now]} /\ at' = at
                    \/ how = "resting" /\ \E x \in Addresses : at' = [at EXCEPT ![Now] = x]
  <2>1. \/ \E h \in {"done", "refused", order[Now]} : Handled(Now, h) /\ UNCHANGED at
        \/ Handled(Now, "resting") /\ \E x \in {addr} \cup Addresses : at' = [at EXCEPT ![Now] = x]
    BY <1>1, PlaceForms
  <2> HIDE DEF addr
  <2>2. CASE \E h \in {"done", "refused", order[Now]} : Handled(Now, h) /\ UNCHANGED at
    BY <2>2
  <2>3. CASE Handled(Now, "resting") /\ \E x \in {addr} \cup Addresses : at' = [at EXCEPT ![Now] = x]
    <3>1. \E x \in Addresses : at' = [at EXCEPT ![Now] = x]
      BY <1>2, <2>3
    <3> QED BY <2>3, <3>1
  <2> QED BY <2>1, <2>2, <2>3
<1>5. lost' = lost \/ \E x \in Addresses \cup {None} : lost' = [lost EXCEPT ![Now] = x]
  <2>1. lost' = lost \/ \E x \in {addr, None} : lost' = [lost EXCEPT ![Now] = x]
    BY <1>1, PlaceForms
  <2> HIDE DEF addr
  <2> QED BY <1>2, <2>1
<1>6. OrderTypes' /\ cycle'.pc = "pick" /\ cycle'.coll = cycle.coll /\ cycle'.snap = cycle.snap
  BY <1>1, <1>2, <1>4, <1>5, HandledOrders
<1>7. cycle'.wallet = cycle.wallet
  BY <1>2, <1>4 DEF Handled, CycleFields
<1> QED BY <1>1, <1>2, <1>3, <1>6, <1>7, PlainKeeps DEF FundsInv

LEMMA BeginKeeps ==
  ASSUME FundsInv, NEW a, CycleBegin(a)
  PROVE  FundsInv'
<1>1. OrderTypes'
  BY BeginOrders DEF FundsInv
<1>2. /\ UNCHANGED real /\ left' = Nothing
      /\ cycle' = [NoCycle EXCEPT !.pc = "geo", !.acct = a, !.wallet = config[a],
                                  !.queue = Work(a) \ {t \in Work(a) : order[t] = "matched"}]
  BY DEF CycleBegin
<1>3. FundTypes'
  BY <1>2 DEF FundsInv, FundTypes, Nothing, Gone
<1>4. cycle'.pc = "geo" /\ cycle'.coll = None /\ cycle'.snap = None
  BY <1>2 DEF NoCycle
<1>5. ReadingsInv' /\ OrdersCovered'
  BY <1>4 DEF ReadingsInv, OrdersCovered, CashKnown, SharesKnown
<1> QED BY <1>1, <1>3, <1>5 DEF FundsInv

-----------------------------------------------------------------------------
(* Every order was covered when the wallet was read                        *)

LEMMA FundsFirst == Init => FundsInv
<1> SUFFICES ASSUME Init PROVE FundsInv
  OBVIOUS
<1>1. PICK start \in Starts : /\ real = [a \in Addresses |-> start.funds]
                             /\ order = [t \in Trades |-> IF t \in start.trades THEN "new" ELSE "done"]
  BY DEF Init
<1>2. cycle = NoCycle /\ left = Nothing /\ at = [t \in Trades |-> None] /\ lost = [t \in Trades |-> None]
  BY DEF Init
<1>3. cycle.pc = "idle"
  BY <1>2 DEF NoCycle
<1>4. FundTypes
  BY <1>1, <1>2, FundsConstantsOK DEF FundsConstantsOK, FundTypes, Holding, Gone, Nothing
<1>5. OrderTypes
  BY <1>1, <1>2, <1>3 DEF OrderTypes
<1> QED BY <1>3, <1>4, <1>5 DEF FundsInv, ReadingsInv, OrdersCovered

LEMMA FundsStep == HandedInv /\ FundsInv /\ [Next]_vars => FundsInv'
<1> SUFFICES ASSUME HandedInv, FundsInv, [Next]_vars PROVE FundsInv'
  OBVIOUS
<1>0. had \subseteq had'
  BY HadGrows
<1>1. CycleWallet /\ (UNCHANGED cycle => StillAgrees)
  BY <1>0, AgreedBefore DEF HandedInv
<1>2. CASE (WalletNext /\ UNCHANGED fundVars) \/ UNCHANGED vars
  <2>1. UNCHANGED fundVars
    BY <1>2 DEF vars
  <2>2. FundTypes' /\ (cycle.pc # "idle" => NoLess)
    BY <1>1, <2>1, NothingMoves DEF FundsInv, fundVars
  <2>3. OrderTypes'
    BY <2>1, OrdersStill DEF FundsInv, fundVars
  <2> QED BY <1>1, <2>1, <2>2, <2>3, WorldKeeps DEF FundsInv, fundVars
<1>3. CASE OwnerMoves \/ RegionChanges \/ Match
  <2>1. FundTypes' /\ (cycle.pc # "idle" => NoLess) /\ UNCHANGED cycle
    BY <1>3, WorldCounted DEF FundsInv
  <2>2. OrderTypes'
    BY <1>3, MatchOrders DEF FundsInv
  <2> QED BY <1>1, <2>1, <2>2, WorldKeeps DEF FundsInv
<1>4. CASE \E a \in DOMAIN config : CycleBegin(a)
  BY <1>4, BeginKeeps
<1>5. CASE CycleStep
  <2>1. StillAgrees
    BY <1>0, <1>1, <1>5, CycleShape, AgreedBefore
  <2> QED BY <1>1, <1>5, <2>1, GeoblockKeeps, TakeKeeps, NoClientKeeps, ReadClobKeeps,
             ReadChainKeeps, DecideKeeps, SubmitKeeps, PlaceKeeps DEF CycleStep
<1> QED BY <1>2, <1>3, <1>4, <1>5 DEF Next, Cycle, CycleStep

\* Whatever the owner, the exchange and failing calls do meanwhile, an order is placed
\* only when what it needs was in the wallet as it was read (copy-cycle.ts, balance.ts).
THEOREM OrdersAreCovered == Spec => []OrdersCovered
<1>1. Init => HandedInv /\ FundsInv
  BY HandedFirst, FundsFirst
<1>2. HandedInv /\ FundsInv /\ [Next]_vars => HandedInv' /\ FundsInv'
  BY HandedStep, FundsStep
<1>3. FundsInv => OrdersCovered
  BY DEF FundsInv
<1> QED BY <1>1, <1>2, <1>3, PTL DEF Spec

-----------------------------------------------------------------------------
(* Sums over finite sets                                                   *)

\* The equation that SumFunctionOnSet takes a solution of.
AnyOf(T) == CHOOSE x \in T : TRUE
IsSum(f, S, g) == g = [T \in SUBSET S |-> IF T = {} THEN 0 ELSE f[AnyOf(T)] + g[T \ {AnyOf(T)}]]

\* What fails for some subset of a finite set fails for a least one.
LEMMA LeastSubset ==
  ASSUME NEW S, IsFiniteSet(S), NEW Bad \in SUBSET SUBSET S, Bad # {}
  PROVE  \E T \in Bad : T \in SUBSET S /\ \A U \in Bad : U \subseteq T => U = T
<1>1. Bad \subseteq FiniteSubsetsOf(S)
  <2> SUFFICES ASSUME NEW T \in Bad PROVE T \in FiniteSubsetsOf(S)
    OBVIOUS
  <2>1. T \in SUBSET S
    OBVIOUS
  <2>2. IsFiniteSet(T)
    BY <2>1, FS_Subset
  <2> QED BY <2>1, <2>2 DEF FiniteSubsetsOf
<1>2. IsWellFoundedOn(StrictSubsetOrdering(S), FiniteSubsetsOf(S))
  BY FS_StrictSubsetOrderingWellFounded
<1>3. PICK T \in Bad : \A U \in Bad : ~(<<U, T>> \in StrictSubsetOrdering(S))
  BY <1>1, <1>2, WFMin
<1>4. \A U \in Bad : U \subseteq T => U = T
  <2> SUFFICES ASSUME NEW U \in Bad, U \subseteq T, U # T PROVE FALSE
    OBVIOUS
  <2>1. <<U, T>> \in StrictSubsetOrdering(S)
    BY DEF StrictSubsetOrdering
  <2> QED BY <1>3, <2>1
<1> QED BY <1>4

LEMMA AnyIn ==
  ASSUME NEW T, T # {}
  PROVE  AnyOf(T) \in T /\ T \ {AnyOf(T)} \subseteq T /\ T \ {AnyOf(T)} # T
<1>1. AnyOf(T) \in T
  BY DEF AnyOf
<1> QED BY <1>1

LEMMA SumAt ==
  ASSUME NEW f, NEW S, NEW g, IsSum(f, S, g), NEW T \in SUBSET S
  PROVE  /\ T = {} => g[T] = 0
         /\ T # {} => g[T] = f[AnyOf(T)] + g[T \ {AnyOf(T)}]
<1> DEFINE h == [X \in SUBSET S |-> IF X = {} THEN 0 ELSE f[AnyOf(X)] + g[X \ {AnyOf(X)}]]
<1>1. /\ T = {} => h[T] = 0
      /\ T # {} => h[T] = f[AnyOf(T)] + g[T \ {AnyOf(T)}]
  OBVIOUS
<1>2. g = h
  BY DEF IsSum
<1> HIDE DEF h
<1> QED BY <1>1, <1>2

\* Two solutions agree where both are defined.
LEMMA SumsAgree ==
  ASSUME NEW f, NEW S, NEW R, NEW g, NEW h, IsFiniteSet(S), IsSum(f, S, g), IsSum(f, R, h)
  PROVE  \A T \in SUBSET S : T \in SUBSET R => g[T] = h[T]
<1> DEFINE Bad == {T \in SUBSET S : T \in SUBSET R /\ g[T] # h[T]}
<1> SUFFICES ASSUME Bad # {} PROVE FALSE
  OBVIOUS
<1>0. Bad \in SUBSET SUBSET S
  OBVIOUS
<1>1. PICK T \in Bad : \A U \in Bad : U \subseteq T => U = T
  <2> HIDE DEF Bad
  <2> QED BY <1>0, LeastSubset
<1> DEFINE X == T \ {AnyOf(T)}
<1>2. T \in SUBSET S /\ T \in SUBSET R /\ g[T] # h[T]
  BY <1>1
<1>3. /\ T = {} => g[T] = 0 /\ h[T] = 0
      /\ T # {} => g[T] = f[AnyOf(T)] + g[X] /\ h[T] = f[AnyOf(T)] + h[X]
  <2> HIDE DEF Bad
  <2>1. (T = {} => g[T] = 0) /\ (T # {} => g[T] = f[AnyOf(T)] + g[X])
    BY <1>2, SumAt
  <2>2. (T = {} => h[T] = 0) /\ (T # {} => h[T] = f[AnyOf(T)] + h[X])
    BY <1>2, SumAt
  <2> QED BY <2>1, <2>2
<1>4. T # {} /\ g[T] = f[AnyOf(T)] + g[X] /\ h[T] = f[AnyOf(T)] + h[X]
  BY <1>2, <1>3
<1>5. X \subseteq T /\ X # T
  BY <1>4, AnyIn
<1> HIDE DEF X
<1>6. X \in SUBSET S /\ X \in SUBSET R /\ X \notin Bad
  BY <1>1, <1>2, <1>5
<1>7. g[X] = h[X]
  BY <1>6
<1> QED BY <1>2, <1>4, <1>7

LEMMA SumExists ==
  ASSUME NEW f, NEW S, IsFiniteSet(S)
  PROVE  \E g : IsSum(f, S, g)
<1> DEFINE Bad == {T \in SUBSET S : ~ \E g : IsSum(f, T, g)}
<1> SUFFICES ASSUME Bad # {} PROVE FALSE
  <2>1. S \notin Bad
    OBVIOUS
  <2> QED BY <2>1
<1>0. Bad \in SUBSET SUBSET S
  OBVIOUS
<1>1. PICK T \in Bad : T \in SUBSET S /\ \A U \in Bad : U \subseteq T => U = T
  <2> HIDE DEF Bad
  <2> QED BY <1>0, LeastSubset
<1>2. ~ \E g : IsSum(f, T, g)
  BY <1>1
<1> DEFINE G(X) == CHOOSE g : IsSum(f, X, g)
           P(X) == X \ {AnyOf(X)}
<1>3. \A X \in SUBSET T : X # T => IsSum(f, X, G(X)) /\ IsFiniteSet(X)
  <2> SUFFICES ASSUME NEW X \in SUBSET T, X # T PROVE IsSum(f, X, G(X)) /\ IsFiniteSet(X)
    OBVIOUS
  <2>1. X \in SUBSET S /\ X \notin Bad
    BY <1>1
  <2>2. \E g : IsSum(f, X, g)
    BY <2>1
  <2>3. IsFiniteSet(X)
    BY <2>1, FS_Subset
  <2> QED BY <2>2, <2>3
<1> HIDE DEF G
<1> DEFINE g == [X \in SUBSET T |-> IF X = {} THEN 0 ELSE f[AnyOf(X)] + G(P(X))[P(X)]]
<1>4. \A X \in SUBSET T : X # {} => P(X) \in SUBSET T /\ P(X) # T /\ P(X) \subseteq X /\ P(X) # X
  BY AnyIn
<1>5. \A Y \in SUBSET T : Y # T => g[Y] = G(Y)[Y]
  <2> SUFFICES ASSUME NEW Y \in SUBSET T, Y # T PROVE g[Y] = G(Y)[Y]
    OBVIOUS
  <2>1. IsSum(f, Y, G(Y)) /\ IsFiniteSet(Y)
    BY <1>3
  <2>2. /\ Y = {} => G(Y)[Y] = 0
        /\ Y # {} => G(Y)[Y] = f[AnyOf(Y)] + G(Y)[P(Y)]
    BY <2>1, SumAt
  <2>3. /\ Y = {} => g[Y] = 0
        /\ Y # {} => g[Y] = f[AnyOf(Y)] + G(P(Y))[P(Y)]
    OBVIOUS
  <2>4. ASSUME Y # {} PROVE G(P(Y))[P(Y)] = G(Y)[P(Y)]
    <3>1. P(Y) \in SUBSET T /\ P(Y) # T /\ P(Y) \in SUBSET Y
      BY <1>4, <2>4
    <3> DEFINE Z == P(Y)
    <3>2. Z \in SUBSET T /\ Z # T /\ Z \in SUBSET Y
      BY <3>1
    <3> HIDE DEF P, Z
    <3>3. IsSum(f, Z, G(Z)) /\ IsFiniteSet(Z)
      BY <1>3, <3>2
    <3>4. G(Z)[Z] = G(Y)[Z]
      BY <2>1, <3>2, <3>3, SumsAgree
    <3> QED BY <3>4 DEF Z
  <2> HIDE DEF g, P
  <2> QED BY <2>2, <2>3, <2>4
<1>6. g = [X \in SUBSET T |-> IF X = {} THEN 0 ELSE f[AnyOf(X)] + g[P(X)]]
  <2> DEFINE h == [X \in SUBSET T |-> IF X = {} THEN 0 ELSE f[AnyOf(X)] + g[P(X)]]
  <2>1. \A X \in SUBSET T : g[X] = h[X]
    <3> SUFFICES ASSUME NEW X \in SUBSET T PROVE g[X] = h[X]
      OBVIOUS
    <3>1. g[X] = IF X = {} THEN 0 ELSE f[AnyOf(X)] + G(P(X))[P(X)]
      OBVIOUS
    <3>2. h[X] = IF X = {} THEN 0 ELSE f[AnyOf(X)] + g[P(X)]
      OBVIOUS
    <3>3. X # {} => g[P(X)] = G(P(X))[P(X)]
      <4>1. X # {} => P(X) \in SUBSET T /\ P(X) # T
        BY <1>4
      <4> HIDE DEF g, P
      <4> QED BY <1>5, <4>1
    <3> HIDE DEF g, h, P
    <3> QED BY <3>1, <3>2, <3>3
  <2>2. DOMAIN g = SUBSET T /\ DOMAIN h = SUBSET T
    OBVIOUS
  <2>3. g = [X \in SUBSET T |-> g[X]] /\ h = [X \in SUBSET T |-> h[X]]
    OBVIOUS
  <2> HIDE DEF g
  <2>4. g = h
    <3> HIDE DEF h
    <3> QED BY <2>1, <2>2, <2>3
  <2> QED BY <2>4
<1>7. IsSum(f, T, g)
  <2> HIDE DEF g
  <2> QED BY <1>6 DEF IsSum
<1> HIDE DEF g
<1> QED BY <1>2, <1>7

\* SumFunctionOnSet is the solution's value.
LEMMA SumIs ==
  ASSUME NEW f, NEW S, IsFiniteSet(S)
  PROVE  \E g : IsSum(f, S, g) /\ SumFunctionOnSet(f, S) = g[S]
<1> DEFINE g == CHOOSE g : IsSum(f, S, g)
<1>1. IsSum(f, S, g)
  BY SumExists
<1>2. SumFunctionOnSet(f, S) = g[S]
  BY DEF SumFunctionOnSet, FoldFunctionOnSet, MapThenFoldSet, IsSum, AnyOf
<1> QED BY <1>1, <1>2

LEMMA SumTyped ==
  ASSUME NEW f, NEW S, IsFiniteSet(S), f \in [S -> Nat]
  PROVE  SumFunctionOnSet(f, S) \in Nat /\ \A x \in S : f[x] <= SumFunctionOnSet(f, S)
<1>1. PICK g : IsSum(f, S, g) /\ SumFunctionOnSet(f, S) = g[S]
  BY SumIs
<1> DEFINE Good(T) == g[T] \in Nat /\ \A x \in T : f[x] <= g[T]
           Bad == {T \in SUBSET S : ~Good(T)}
<1>2. Bad = {}
  <2> SUFFICES ASSUME Bad # {} PROVE FALSE
    OBVIOUS
  <2>0. Bad \in SUBSET SUBSET S
    OBVIOUS
  <2>1. PICK T \in Bad : T \in SUBSET S /\ \A U \in Bad : U \subseteq T => U = T
    <3> HIDE DEF Bad
    <3> QED BY <2>0, LeastSubset
  <2> DEFINE a == AnyOf(T)
             X == T \ {a}
  <2>2. /\ ~Good(T)
        /\ T = {} => g[T] = 0
        /\ T # {} => g[T] = f[a] + g[X]
    BY <1>1, <2>1, SumAt
  <2>3. T # {}
    BY <2>2
  <2>4. a \in T /\ X \subseteq T /\ X # T /\ \A x \in T : x = a \/ x \in X
    BY <2>3, AnyIn
  <2>5. X \in SUBSET S /\ X \notin Bad
    BY <2>1, <2>4
  <2>6. Good(X)
    BY <2>5
  <2>7. f[a] \in Nat /\ \A x \in T : f[x] \in Nat
    BY <2>1, <2>4
  <2> HIDE DEF a, X
  <2>8. g[T] = f[a] + g[X]
    BY <2>2, <2>3
  <2>9. Good(T)
    BY <2>4, <2>6, <2>7, <2>8
  <2> QED BY <2>2, <2>9
<1>3. Good(S)
  BY <1>2
<1> QED BY <1>1, <1>3

-----------------------------------------------------------------------------
(* What a sell is measured by                                              *)

\* The positions of the accounts; whose trades the cycle has; and the reading of the
\* shares, exact while none of them moved.
TrackedTypes == tracked \in [AccountIds -> [Leaders -> Nat]]
QueueInv ==
  cycle.pc # "idle" =>
    /\ \A t \in cycle.queue : Trade[t].acct = cycle.acct
    /\ cycle.pc \in {"client", "chain", "decide", "place", "submit"} => Trade[Now].acct = cycle.acct
Exact(snap, ok, there, moved) ==
  snap.balance # None /\ snap.fresh /\ ok /\ ~moved => snap.balance = there
SnapInv ==
  cycle.pc # "idle" /\ SharesKnown => Exact(cycle.snap, Agreed, real[Where].token, left.moved)

SellsInv == TrackedTypes /\ QueueInv /\ SnapInv

\* Shares of the cycle's wallet that move are noted.
Noted == ~left'.moved => ~left.moved /\ real'[Where].token = real[Where].token

LEMMA MovesNoted ==
  ASSUME FundTypes, cycle.pc # "idle", Where \in Addresses,
         NEW addr \in Addresses, NEW cash \in Int, NEW shares \in Int, Moves(addr, cash, shares)
  PROVE  Noted
<1> DEFINE h == real[addr]
           gone == [cash |-> left.cash + (IF cash < 0 THEN -cash ELSE 0),
                    token |-> left.token + (IF shares < 0 THEN -shares ELSE 0),
                    moved |-> left.moved \/ shares # 0]
<1>1. /\ h = [pusd |-> h.pusd, usdce |-> h.usdce, token |-> h.token] /\ h.token \in Nat
      /\ DOMAIN real = Addresses
  BY FundForm DEF FundTypes
<1>2. left' = IF addr = Where THEN gone ELSE left
  BY DEF Moves
<1>3. real'[Where] = IF addr = Where THEN [[h EXCEPT !.pusd = @ + cash] EXCEPT !.token = @ + shares]
                     ELSE real[Where]
  BY <1>1 DEF Moves
<1>4. CASE addr # Where
  BY <1>2, <1>3, <1>4 DEF Noted
<1>5. CASE addr = Where
  <2>1. left'.moved = (left.moved \/ shares # 0)
    BY <1>2, <1>5
  <2>2. real'[Where].token = h.token + shares
    <3> HIDE DEF h
    <3> DEFINE paid == [h EXCEPT !.pusd = @ + cash]
    <3>1. DOMAIN paid = {"pusd", "usdce", "token"} /\ paid.token = h.token
      BY <1>1
    <3>2. real'[Where] = [paid EXCEPT !.token = @ + shares]
      BY <1>3, <1>5
    <3> HIDE DEF paid
    <3> QED BY <3>1, <3>2
  <2>3. shares = 0 => h.token + shares = h.token
    BY <1>1
  <2> QED BY <1>5, <2>1, <2>2, <2>3 DEF Noted
<1> QED BY <1>4, <1>5

LEMMA ExchangeNoted ==
  ASSUME FundTypes, cycle.pc # "idle", Where \in Addresses,
         NEW t \in Trades, NEW addr \in Addresses, Exchanged(t, addr)
  PROVE  Noted
<1>1. CASE IsBuy(t)
  <2>1. -Trade[t].usd \in Int /\ Moves(addr, -Trade[t].usd, 0)
    BY <1>1, TradeForm DEF Exchanged
  <2> QED BY <2>1, MovesNoted
<1>2. CASE ~IsBuy(t)
  <2>1. -Trade[t].shares \in Int /\ Moves(addr, 0, -Trade[t].shares)
    BY <1>2, TradeForm DEF Exchanged
  <2> QED BY <2>1, MovesNoted
<1> QED BY <1>1, <1>2

LEMMA WorldNoted ==
  ASSUME HandedInv, FundTypes, OrderTypes, cycle.pc # "idle", OwnerMoves \/ RegionChanges \/ Match
  PROVE  Noted
<1>1. Where \in Addresses
  BY CycleAddresses DEF HandedInv
<1>2. CASE OwnerMoves
  <2>1. PICK a \in DOMAIN config, n \in Amounts :
          LET addr == config[a].addr IN
          \/ Moves(addr, -n, 0) \/ Moves(addr, 0, -n) \/ Moves(addr, n, 0) \/ Moves(addr, 0, n)
    BY <1>2 DEF OwnerMoves
  <2>2. config[a].addr \in Addresses
    BY ConfiguredWallets DEF HandedInv, Wallet
  <2>3. n \in Int /\ -n \in Int
    BY FundsConstantsOK DEF FundsConstantsOK
  <2> QED BY <1>1, <2>1, <2>2, <2>3, MovesNoted
<1>3. CASE RegionChanges
  BY <1>3 DEF RegionChanges, Noted
<1>4. CASE Match
  <2>1. PICK t \in Trades, addr \in Addresses : Exchanged(t, addr)
    BY <1>4, MatchedAt
  <2> QED BY <1>1, <2>1, ExchangeNoted
<1> QED BY <1>2, <1>3, <1>4

\* Positions stay typed, whatever is booked.
LEMMA BookedTyped ==
  ASSUME TrackedTypes, NEW a \in AccountIds, NEW ts \in SUBSET Trades
  PROVE  Booked(a, ts) \in [AccountIds -> [Leaders -> Nat]]
<1>1. IsFiniteSet(ts)
  BY FundsConstantsOK, FS_Subset DEF FundsConstantsOK
<1>2. \A l \in Leaders : Sold(l, ts) \in Nat
  <2> SUFFICES ASSUME NEW l \in Leaders PROVE Sold(l, ts) \in Nat
    OBVIOUS
  <2> DEFINE f == [t \in ts |-> IF IsBuy(t) \/ Trade[t].leader # l THEN 0 ELSE Trade[t].shares]
  <2>1. f \in [ts -> Nat]
    BY TradeForm
  <2> HIDE DEF f
  <2>2. SumFunctionOnSet(f, ts) \in Nat
    BY <1>1, <2>1, SumTyped
  <2> QED BY <2>2 DEF Sold, f
<1>3. \A l \in Leaders : tracked[a][l] \in Nat
  BY DEF TrackedTypes
<1>4. \A l \in Leaders : tracked[a][l] - Lesser(tracked[a][l], Sold(l, ts)) \in Nat
  BY <1>2, <1>3 DEF Lesser
<1> DEFINE new == [l \in Leaders |-> tracked[a][l] - Lesser(tracked[a][l], Sold(l, ts))]
<1>5. new \in [Leaders -> Nat]
  BY <1>4
<1> HIDE DEF new
<1>6. [tracked EXCEPT ![a] = new] \in [AccountIds -> [Leaders -> Nat]]
  BY <1>5 DEF TrackedTypes
<1> QED BY <1>6 DEF Booked, new

\* The reading stays exact while what moves is noted.
LEMMA SnapStays ==
  ASSUME SnapInv, cycle.pc # "idle", Noted, cycle'.wallet = cycle.wallet,
         StillAgrees, cycle'.pc # "idle" /\ SharesKnown' => SharesKnown /\ cycle'.snap = cycle.snap
  PROVE  SnapInv'
<1> SUFFICES ASSUME cycle'.pc # "idle", SharesKnown'
             PROVE  Exact(cycle'.snap, Agreed', real'[Where'].token, left'.moved)
  BY DEF SnapInv
<1>1. Where' = Where /\ (Agreed' => Agreed) /\ cycle'.snap = cycle.snap
  BY DEF Where, StillAgrees
<1>2. Exact(cycle.snap, Agreed, real[Where].token, left.moved)
  BY DEF SnapInv
<1> QED BY <1>1, <1>2 DEF Exact, Noted

LEMMA SellsFirst == Init => SellsInv
<1> SUFFICES ASSUME Init PROVE SellsInv
  OBVIOUS
<1>1. cycle.pc = "idle" /\ tracked = InitTracked
  BY DEF Init, NoCycle
<1> QED BY <1>1, FundsConstantsOK DEF FundsConstantsOK, SellsInv, TrackedTypes, QueueInv, SnapInv

-----------------------------------------------------------------------------
(* The steps of a cycle                                                    *)

LEMMA SellsBegin ==
  ASSUME WalletsInv, SellsInv, NEW a \in DOMAIN config, CycleBegin(a)
  PROVE  SellsInv'
<1> DEFINE matched == {t \in Work(a) : order[t] = "matched"}
<1>1. /\ cycle' = [NoCycle EXCEPT !.pc = "geo", !.acct = a, !.wallet = config[a],
                                  !.queue = Work(a) \ matched]
      /\ tracked' = Booked(a, matched)
  BY DEF CycleBegin
<1>2. matched \in SUBSET Trades /\ (\A t \in Work(a) \ matched : Trade[t].acct = a) /\ a \in AccountIds
  BY DEF Work, WalletsInv
<1> HIDE DEF matched
<1>3. cycle'.pc = "geo" /\ cycle'.acct = a /\ cycle'.queue = Work(a) \ matched /\ cycle'.snap = None
  BY <1>1 DEF NoCycle
<1>4. TrackedTypes'
  BY <1>1, <1>2, BookedTyped DEF SellsInv, TrackedTypes
<1> QED BY <1>2, <1>3, <1>4 DEF SellsInv, QueueInv, SnapInv, SharesKnown

\* A step that ends the cycle.
LEMMA SellsEnd ==
  ASSUME SellsInv, UNCHANGED tracked, EndCycle
  PROVE  SellsInv'
<1>1. cycle'.pc = "idle"
  BY DEF EndCycle, NoCycle
<1> QED BY <1>1 DEF SellsInv, TrackedTypes, QueueInv, SnapInv

\* A trade of the queue that was dealt with.
LEMMA SellsHandled ==
  ASSUME CycleWallet, SellsInv, StillAgrees, TrackedTypes', cycle.pc # "idle", Noted,
         NEW t, NEW how, Handled(t, how)
  PROVE  SellsInv'
<1>1. cycle' = [cycle EXCEPT !.pc = "pick", !.queue = @ \ {t}, !.trade = None] /\ DOMAIN cycle = CycleFields
  BY DEF Handled, CycleWallet
<1>2. /\ cycle'.pc = "pick" /\ cycle'.queue = cycle.queue \ {t} /\ cycle'.acct = cycle.acct
      /\ cycle'.wallet = cycle.wallet /\ cycle'.snap = cycle.snap
  BY <1>1 DEF CycleFields
<1>3. QueueInv'
  BY <1>2 DEF SellsInv, QueueInv
<1>4. SharesKnown' => SharesKnown
  BY <1>2 DEF SharesKnown
<1> QED BY <1>2, <1>3, <1>4, SnapStays DEF SellsInv

\* A trade of the queue is taken up, or the one under way goes on.
LEMMA SellsOn ==
  ASSUME SellsInv, UNCHANGED tracked, cycle.pc # "idle",
         cycle'.acct = cycle.acct, cycle'.queue = cycle.queue, SnapInv',
         cycle'.pc \in {"client", "chain", "decide", "place", "submit"} => Trade[Now'].acct = cycle.acct
  PROVE  SellsInv'
BY DEF SellsInv, TrackedTypes, QueueInv, Now

LEMMA SellsGeoblock ==
  ASSUME CycleWallet, SellsInv, StillAgrees, CheckGeoblock
  PROVE  SellsInv'
<1>1. /\ cycle.pc = "geo" /\ UNCHANGED <<real, left, tracked>> /\ DOMAIN cycle = CycleFields
      /\ EndCycle \/ cycle' = [cycle EXCEPT !.pc = "pick"]
  BY DEF CheckGeoblock, CycleWallet
<1>2. CASE cycle' = [cycle EXCEPT !.pc = "pick"]
  <2>1. /\ cycle'.pc = "pick" /\ cycle'.queue = cycle.queue /\ cycle'.wallet = cycle.wallet
        /\ cycle'.acct = cycle.acct /\ cycle'.snap = cycle.snap
    BY <1>1, <1>2 DEF CycleFields
  <2>2. SnapInv'
    BY <1>1, <2>1, SnapStays DEF SellsInv, SharesKnown, Noted
  <2> QED BY <1>1, <2>1, <2>2, SellsOn
<1> QED BY <1>1, <1>2, SellsEnd

LEMMA SellsTake ==
  ASSUME CycleWallet, SellsInv, StillAgrees, Take
  PROVE  SellsInv'
<1>1. cycle.pc = "pick" /\ UNCHANGED <<real, left, tracked>> /\ DOMAIN cycle = CycleFields /\ Noted
  BY DEF Take, CycleWallet, Noted
<1>2. ASSUME NEW t \in cycle.queue,
             cycle'.pc \in {"decide", "client"}, cycle'.trade = t, cycle'.queue = cycle.queue,
             cycle'.wallet = cycle.wallet, cycle'.acct = cycle.acct,
             \/ cycle'.snap = cycle.snap /\ (cycle'.pc = "decide" => IsBuy(t) \/ cycle.snap # None)
             \/ cycle'.snap = None /\ cycle'.pc = "client"
      PROVE  SellsInv'
  <2>1. SharesKnown' => SharesKnown /\ cycle'.snap = cycle.snap
    BY <1>2 DEF SharesKnown, Now, IsBuy
  <2>2. SnapInv'
    BY <1>1, <1>2, <2>1, SnapStays DEF SellsInv
  <2>3. Trade[Now'].acct = cycle.acct
    BY <1>1, <1>2 DEF SellsInv, QueueInv, Now
  <2> QED BY <1>1, <1>2, <2>2, <2>3, SellsOn
<1>3. ASSUME NEW t \in cycle.queue, Handled(t, "dropped") PROVE SellsInv'
  <2>1. TrackedTypes'
    BY <1>1 DEF SellsInv, TrackedTypes
  <2> QED BY <1>1, <1>3, <2>1, SellsHandled
<1>4. CASE EndCycle
  BY <1>1, <1>4, SellsEnd
<1>5. CASE ~EndCycle
  <2>1. PICK t \in cycle.queue :
          \/ Handled(t, "dropped")
          \/ /\ IF IsBuy(t) THEN cycle.coll # None ELSE cycle.snap # None
             /\ cycle' = [cycle EXCEPT !.pc = "decide", !.trade = t]
          \/ AskClient(t)
    BY <1>5 DEF Take
  <2>2. CASE /\ IF IsBuy(t) THEN cycle.coll # None ELSE cycle.snap # None
             /\ cycle' = [cycle EXCEPT !.pc = "decide", !.trade = t]
    <3>1. /\ cycle'.pc = "decide" /\ cycle'.trade = t /\ cycle'.queue = cycle.queue
          /\ cycle'.wallet = cycle.wallet /\ cycle'.acct = cycle.acct /\ cycle'.snap = cycle.snap
      BY <1>1, <2>2 DEF CycleFields
    <3> QED BY <1>2, <2>2, <3>1
  <2>3. CASE AskClient(t)
    <3> PICK snap : snap = (IF IsBuy(t) THEN cycle.snap ELSE None)
      OBVIOUS
    <3>1. cycle' = [cycle EXCEPT !.pc = "client", !.trade = t, !.again = FALSE, !.snap = snap]
      BY <2>3 DEF AskClient
    <3>2. /\ cycle'.pc = "client" /\ cycle'.trade = t /\ cycle'.queue = cycle.queue
          /\ cycle'.wallet = cycle.wallet /\ cycle'.acct = cycle.acct /\ cycle'.snap = snap
      BY <1>1, <3>1 DEF CycleFields
    <3> QED BY <1>2, <3>2
  <2> QED BY <1>3, <2>1, <2>2, <2>3
<1> QED BY <1>4, <1>5

\* The trade under way is read for, or waits for a client once more.
LEMMA SellsRead ==
  ASSUME CycleWallet, SellsInv, cycle.pc \in {"client", "chain", "decide", "place", "submit"}, UNCHANGED tracked,
         cycle'.acct = cycle.acct, cycle'.queue = cycle.queue, cycle'.trade = cycle.trade, SnapInv'
  PROVE  SellsInv'
<1>1. Trade[Now'].acct = cycle.acct
  BY DEF SellsInv, QueueInv, Now
<1> QED BY <1>1, SellsOn

LEMMA SellsCash ==
  ASSUME CycleWallet, SellsInv, StillAgrees, cycle.pc = "client", IsBuy(Now), UNCHANGED <<real, tracked>>,
         left' = left \/ left' = [left EXCEPT !.cash = 0], FundTypes, NEW coll, CashRead(coll)
  PROVE  SellsInv'
<1>1. cycle' = [cycle EXCEPT !.pc = "chain", !.coll = coll] /\ DOMAIN cycle = CycleFields
  BY DEF CashRead, CycleWallet
<1>2. /\ cycle'.pc = "chain" /\ cycle'.trade = cycle.trade /\ cycle'.queue = cycle.queue
      /\ cycle'.wallet = cycle.wallet /\ cycle'.acct = cycle.acct /\ cycle'.snap = cycle.snap
  BY <1>1 DEF CycleFields
<1>3. Noted
  BY FundForm DEF Noted
<1>4. SharesKnown' => SharesKnown
  BY <1>2 DEF SharesKnown
<1>5. SnapInv'
  BY <1>2, <1>3, <1>4, SnapStays DEF SellsInv
<1> QED BY <1>2, <1>5, SellsRead

LEMMA SellsToken ==
  ASSUME CycleWallet, SellsInv, StillAgrees, cycle.pc = "client", UNCHANGED <<real, tracked>>,
         NEW snap, TokenRead(snap), Exact(snap, Agreed, real[Where].token, left'.moved)
  PROVE  SellsInv'
<1>1. cycle' = [cycle EXCEPT !.pc = "decide", !.snap = snap] /\ DOMAIN cycle = CycleFields
  BY DEF TokenRead, CycleWallet
<1>2. /\ cycle'.pc = "decide" /\ cycle'.trade = cycle.trade /\ cycle'.queue = cycle.queue
      /\ cycle'.wallet = cycle.wallet /\ cycle'.acct = cycle.acct /\ cycle'.snap = snap
  BY <1>1 DEF CycleFields
<1>3. Where' = Where /\ (Agreed' => Agreed)
  BY <1>2 DEF Where, StillAgrees
<1>4. SnapInv'
  BY <1>2, <1>3 DEF SnapInv, Exact
<1> QED BY <1>2, <1>4, SellsRead

LEMMA SellsFailed ==
  ASSUME CycleWallet, SellsInv, StillAgrees, cycle.pc = "client", ~IsBuy(Now), cycle.snap = None,
         UNCHANGED <<real, tracked>>, TokenFailed
  PROVE  SellsInv'
<1>1. CASE TokenRead(NoSnapshot)
  <2>1. Exact(NoSnapshot, Agreed, real[Where].token, left'.moved)
    BY DEF Exact, NoSnapshot
  <2> QED BY <1>1, <2>1, SellsToken
<1>2. CASE cycle' = [cycle EXCEPT !.again = TRUE]
  <2>1. /\ cycle'.pc = "client" /\ cycle'.trade = cycle.trade /\ cycle'.queue = cycle.queue
        /\ cycle'.acct = cycle.acct /\ cycle'.snap = None
    BY <1>2 DEF CycleWallet, CycleFields
  <2>2. SnapInv'
    BY <2>1 DEF SnapInv, SharesKnown
  <2> QED BY <2>1, <2>2, SellsRead
<1> QED BY <1>1, <1>2 DEF TokenFailed

LEMMA SellsNoClient ==
  ASSUME CycleWallet, FundsInv, SellsInv, StillAgrees, NoClient
  PROVE  SellsInv'
<1>1. cycle.pc = "client" /\ UNCHANGED <<real, left, tracked>>
      /\ (IF IsBuy(Now) THEN CashRead(NoCash) ELSE TokenFailed)
  BY DEF NoClient
<1>2. ~IsBuy(Now) => cycle.snap = None
  BY <1>1 DEF FundsInv, ReadingsInv
<1> QED BY <1>1, <1>2, SellsCash, SellsFailed DEF FundsInv

LEMMA SellsReadClob ==
  ASSUME HandedInv, FundsInv, SellsInv, StillAgrees, ReadClob
  PROVE  SellsInv'
<1> DEFINE addr == Acting
           fresh == listed'[addr] = Refreshed(addr)
           coll == [NoCash EXCEPT !.clob = listed'[addr].cash, !.fresh = fresh,
                                  !.allowance = allowed[addr] # {}]
           snap == [balance |-> listed'[addr].token, fresh |-> fresh, allowance |-> allowed[addr] # {}]
<1>0. CycleWallet /\ (Agreed => addr = Where)
  BY ActingWhere DEF ReadClob, HandedInv
<1>1. /\ cycle.pc = "client" /\ UNCHANGED <<real, tracked>>
      /\ IsBuy(Now) => left' = [left EXCEPT !.cash = 0]
      /\ \/ IF IsBuy(Now) THEN CashRead(coll) ELSE TokenRead(snap)
         \/ IF IsBuy(Now) THEN CashRead(NoCash) ELSE TokenFailed
  BY DEF ReadClob
<1>2. ~IsBuy(Now) => cycle.snap = None
  BY <1>1 DEF FundsInv, ReadingsInv
<1>3. Exact(snap, Agreed, real[Where].token, left'.moved)
  <2>1. snap.balance = listed'[addr].token /\ snap.fresh = fresh
    OBVIOUS
  <2>2. fresh => listed'[addr].token = real[addr].token
    BY DEF Refreshed
  <2> HIDE DEF snap, fresh, addr
  <2> QED BY <1>0, <1>1, <2>1, <2>2 DEF Exact
<1> HIDE DEF coll, snap
<1> QED BY <1>0, <1>1, <1>2, <1>3, SellsCash, SellsToken, SellsFailed DEF FundsInv

LEMMA SellsReadChain ==
  ASSUME CycleWallet, FundsInv, SellsInv, StillAgrees, ReadChain
  PROVE  SellsInv'
<1> DEFINE cash == real[Where].pusd + real[Where].usdce
<1>1. /\ cycle.pc = "chain" /\ UNCHANGED <<real, left, tracked>> /\ DOMAIN cycle = CycleFields
      /\ \/ \E ready : cycle' = [cycle EXCEPT !.pc = "decide", !.coll.chain = cash, !.coll.ready = ready]
         \/ cycle' = [cycle EXCEPT !.pc = "decide"]
  BY DEF ReadChain, CycleWallet
<1> HIDE DEF cash
<1>2. /\ cycle'.pc = "decide" /\ cycle'.trade = cycle.trade /\ cycle'.queue = cycle.queue
      /\ cycle'.wallet = cycle.wallet /\ cycle'.acct = cycle.acct /\ cycle'.snap = cycle.snap
  BY <1>1 DEF CycleFields
<1>3. IsBuy(Now)
  BY <1>1 DEF FundsInv, ReadingsInv
<1>4. SharesKnown' => SharesKnown
  BY <1>2, <1>3 DEF SharesKnown, Now, IsBuy
<1>5. Noted
  BY <1>1 DEF Noted
<1>6. SnapInv'
  BY <1>1, <1>2, <1>4, <1>5, SnapStays DEF SellsInv
<1> QED BY <1>1, <1>2, <1>6, SellsRead

LEMMA SellsDecide ==
  ASSUME CycleWallet, SellsInv, StillAgrees, Decide
  PROVE  SellsInv'
<1>1. cycle.pc = "decide" /\ UNCHANGED <<real, left, tracked>> /\ DOMAIN cycle = CycleFields /\ Noted
  BY DEF Decide, DecideBuy, DecideSell, CycleWallet, Noted
<1>2. (\E how : Handled(Now, how)) \/ cycle' = [cycle EXCEPT !.pc = "place"]
  BY DEF Decide, DecideBuy, DecideSell, Skip
<1>3. TrackedTypes'
  BY <1>1 DEF SellsInv, TrackedTypes
<1>4. CASE cycle' = [cycle EXCEPT !.pc = "place"]
  <2>1. /\ cycle'.pc = "place" /\ cycle'.trade = cycle.trade /\ cycle'.queue = cycle.queue
        /\ cycle'.wallet = cycle.wallet /\ cycle'.acct = cycle.acct /\ cycle'.snap = cycle.snap
    BY <1>1, <1>4 DEF CycleFields
  <2>2. SharesKnown' => SharesKnown
    BY <2>1 DEF SharesKnown
  <2>3. SnapInv'
    BY <1>1, <2>1, <2>2, SnapStays DEF SellsInv
  <2> QED BY <1>1, <2>1, <2>3, SellsRead
<1> QED BY <1>1, <1>2, <1>3, <1>4, SellsHandled

LEMMA SellsSubmit ==
  ASSUME CycleWallet, SellsInv, StillAgrees, Submit
  PROVE  SellsInv'
<1>1. cycle.pc \in {"place", "submit"} /\ UNCHANGED <<real, left, tracked>> /\ DOMAIN cycle = CycleFields /\ Noted
  BY DEF Submit, CycleWallet, Noted
<1>2. CASE Skip(Now)
  <2>1. TrackedTypes'
    BY <1>1 DEF SellsInv, TrackedTypes
  <2> QED BY <1>1, <1>2, <2>1, SellsHandled DEF Skip
<1>3. CASE \/ cycle' = [cycle EXCEPT !.pc = "submit", !.again = FALSE]
           \/ cycle.pc = "submit" /\ cycle' = [cycle EXCEPT !.again = TRUE]
  <2>1. /\ cycle'.pc = "submit" /\ cycle'.trade = cycle.trade /\ cycle'.queue = cycle.queue
        /\ cycle'.wallet = cycle.wallet /\ cycle'.acct = cycle.acct /\ cycle'.snap = cycle.snap
    BY <1>1, <1>3 DEF CycleFields
  <2>2. SharesKnown' => SharesKnown
    BY <2>1 DEF SharesKnown
  <2>3. SnapInv'
    BY <1>1, <2>1, <2>2, SnapStays DEF SellsInv
  <2> QED BY <1>1, <2>1, <2>3, SellsRead
<1> QED BY <1>2, <1>3 DEF Submit

LEMMA SellsPlace ==
  ASSUME HandedInv, FundsInv, SellsInv, StillAgrees, Place
  PROVE  SellsInv'
<1> DEFINE addr == Acting
<1>1. cycle.pc = "submit" /\ OrderTypes /\ Now \in Trades /\ call["cycle"].status = "got"
  BY PlaceForms DEF FundsInv
<1>2. Where \in Addresses /\ addr \in Addresses /\ CycleWallet
  BY <1>1, CycleAddresses, ActingWhere DEF HandedInv
<1>3. cycle.acct \in AccountIds
  BY <1>1, FundsConstantsOK DEF FundsConstantsOK, SellsInv, QueueInv
<1>4. /\ \E how : Handled(Now, how)
      /\ Exchanged(Now, addr) \/ UNCHANGED <<real, left>>
      /\ tracked' = Booked(cycle.acct, {Now}) \/ UNCHANGED tracked
  BY <1>1, PlaceForms, PlaceHandles
<1> HIDE DEF addr
<1>5. Noted
  BY <1>1, <1>2, <1>4, ExchangeNoted DEF FundsInv, Noted
<1>6. TrackedTypes'
  <2>1. {Now} \in SUBSET Trades
    BY <1>1
  <2> QED BY <1>3, <1>4, <2>1, BookedTyped DEF SellsInv, TrackedTypes
<1> QED BY <1>1, <1>2, <1>4, <1>5, <1>6, SellsHandled

LEMMA SellsStep == HandedInv /\ FundsInv /\ SellsInv /\ [Next]_vars => SellsInv'
<1> SUFFICES ASSUME HandedInv, FundsInv, SellsInv, [Next]_vars PROVE SellsInv'
  OBVIOUS
<1>0. had \subseteq had'
  BY HadGrows
<1>1. CycleWallet /\ WalletsInv /\ FundTypes /\ OrderTypes /\ (UNCHANGED cycle => StillAgrees)
  BY <1>0, AgreedBefore DEF HandedInv, FundsInv
<1>2. ASSUME UNCHANGED <<cycle, tracked>>, cycle.pc # "idle" => Noted
      PROVE  SellsInv'
  <2>1. SharesKnown' => SharesKnown
    BY <1>2 DEF SharesKnown, Now, IsBuy
  <2>2. SnapInv'
    <3>1. CASE cycle.pc = "idle"
      BY <1>2, <3>1 DEF SnapInv
    <3>2. CASE cycle.pc # "idle"
      BY <1>1, <1>2, <2>1, <3>2, SnapStays DEF SellsInv
    <3> QED BY <3>1, <3>2
  <2> QED BY <1>2, <2>2 DEF SellsInv, TrackedTypes, QueueInv, Now
<1>3. CASE (WalletNext /\ UNCHANGED fundVars) \/ UNCHANGED vars
  <2>1. UNCHANGED fundVars
    BY <1>3 DEF vars
  <2> QED BY <1>2, <2>1 DEF fundVars, Noted
<1>4. CASE OwnerMoves \/ RegionChanges \/ Match
  <2>1. UNCHANGED <<cycle, tracked>>
    BY <1>4 DEF OwnerMoves, RegionChanges, Match
  <2> QED BY <1>1, <1>2, <1>4, <2>1, WorldNoted
<1>5. CASE \E a \in DOMAIN config : CycleBegin(a)
  BY <1>1, <1>5, SellsBegin
<1>6. CASE CycleStep
  <2>1. StillAgrees
    BY <1>0, <1>1, <1>6, CycleShape, AgreedBefore
  <2> QED BY <1>1, <1>6, <2>1, SellsGeoblock, SellsTake, SellsNoClient, SellsReadClob,
             SellsReadChain, SellsDecide, SellsSubmit, SellsPlace DEF CycleStep
<1> QED BY <1>3, <1>4, <1>5, <1>6 DEF Next, Cycle, CycleStep

-----------------------------------------------------------------------------
(* A sell is given up only when the shares do not reach for it             *)

\* What rounds to less than s is less than s, but for half a part.
LEMMA RoundsBelow ==
  ASSUME NEW n \in Nat, NEW d \in Nat, d > 0, NEW s \in Nat, RoundDiv(n, d) < s
  PROVE  2 * n + d < 2 * d * s
<1> DEFINE m == 2 * n + d
           e == 2 * d
           q == m \div e
<1>1. m \in Nat /\ e \in Nat /\ e > 0
  OBVIOUS
<1>2. q < s
  BY DEF RoundDiv
<1> HIDE DEF m, e
<1>3. q \in Int /\ m < e * q + e
  BY <1>1
<1> HIDE DEF q
<1>4. e * q + e <= e * s
  BY <1>1, <1>2, <1>3
<1>5. e * q \in Int /\ e * s \in Int
  BY <1>1, <1>3
<1>6. m < e * s
  BY <1>1, <1>3, <1>4, <1>5
<1> QED BY <1>6 DEF m, e

\* The leader's part of b shares, with h of the total, is too small for a sell of s.
LEMMA PartTooSmall ==
  ASSUME NEW h \in Nat, NEW b \in Nat, NEW total \in Nat, h <= total, NEW s \in Nat,
         ProportionalSellable(h, b, total) < s
  PROVE  h < s \/ 2 * h * b + total < 2 * total * s
<1> SUFFICES ASSUME h >= s PROVE 2 * h * b + total < 2 * total * s
  OBVIOUS
<1>1. CASE h <= 0 \/ b <= 0
  <2>1. 0 < s
    BY <1>1 DEF ProportionalSellable
  <2>2. h > 0 /\ total > 0 /\ b = 0
    BY <1>1, <2>1
  <2>3. total * s >= total /\ total * s \in Nat
    BY <2>1, <2>2
  <2>4. 2 * h * b = 0 /\ 2 * total * s = 2 * (total * s)
    BY <2>2
  <2> DEFINE p == total * s
  <2> HIDE DEF p
  <2> QED BY <2>2, <2>3, <2>4 DEF p
<1>2. CASE h > 0 /\ b > 0
  <2>1. total > 0
    BY <1>2
  <2>2. Lesser(h, RoundDiv(b * h, total)) < s
    BY <1>2, <2>1 DEF ProportionalSellable
  <2>3. RoundDiv(b * h, total) < s
    BY <2>2 DEF Lesser
  <2>4. b * h \in Nat
    OBVIOUS
  <2> DEFINE p == b * h
  <2>5. p \in Nat /\ RoundDiv(p, total) < s
    BY <2>3, <2>4
  <2> HIDE DEF p
  <2>6. 2 * p + total < 2 * total * s
    BY <2>1, <2>5, RoundsBelow
  <2>7. 2 * p = 2 * h * b
    BY DEF p
  <2> QED BY <2>6, <2>7
<1> QED BY <1>1, <1>2

\* Only a trade that is handled as "dropped" is given up.
LEMMA GivenUpBy ==
  ASSUME HandedInv, FundsInv, [Next]_vars, NEW t \in Trades, order[t] = "new", order'[t] = "dropped"
  PROVE  \/ Take /\ t \in cycle.queue /\ Held(cycle.acct, t) < Trade[t].shares
         \/ DecideSell /\ t = Now /\ Handled(Now, "dropped")
<1>1. OrderTypes /\ CycleWallet /\ order' # order
  BY DEF HandedInv, FundsInv
<1>2. ASSUME NEW u \in Trades, NEW how, Handled(u, how), how # "dropped" PROVE FALSE
  BY <1>1, <1>2 DEF Handled, OrderTypes
<1>3. ASSUME NEW u \in Trades, Handled(u, "dropped") PROVE t = u
  BY <1>1, <1>3 DEF Handled, OrderTypes
<1>4. Now \in Trades \/ cycle.pc \notin {"client", "chain", "decide", "place", "submit"}
  BY <1>1 DEF OrderTypes
<1>5. ASSUME NEW a, CycleBegin(a) PROVE FALSE
  BY <1>5 DEF CycleBegin
<1>6. CASE Match
  BY <1>1, <1>6 DEF Match, OrderTypes
<1>7. CASE Take
  <2>1. PICK u \in cycle.queue : Handled(u, "dropped") /\ Held(cycle.acct, u) < Trade[u].shares
    BY <1>1, <1>7 DEF Take
  <2>2. u \in Trades
    BY <1>1, <1>7, <2>1 DEF Take, OrderTypes
  <2> QED BY <1>3, <1>7, <2>1, <2>2
<1>8. CASE Decide
  <2>1. cycle.pc = "decide" /\ order[Now] # "dropped"
    <3>1. cycle.pc = "decide"
      BY <1>8 DEF Decide, DecideBuy, DecideSell
    <3>2. ASSUME order[Now] = "dropped" PROVE FALSE
      <4>1. \E how : Handled(Now, how)
        BY <1>1, <1>8 DEF Decide, DecideBuy, DecideSell, Skip
      <4> QED BY <1>1, <1>4, <3>1, <3>2, <4>1 DEF Handled, OrderTypes
    <3> QED BY <3>1, <3>2
  <2>2. ~Skip(Now)
    BY <1>2, <1>4, <2>1 DEF Skip
  <2>3. DecideSell /\ Handled(Now, "dropped")
    BY <1>1, <1>8, <2>2 DEF Decide, DecideBuy, DecideSell
  <2> QED BY <1>3, <1>4, <2>1, <2>3
<1>9. CASE Submit \/ Place
  <2>1. Now \in Trades
    BY <1>4, <1>9 DEF Submit, Place
  <2>2. \E how \in {"done", "resting", "refused", order[Now]} : Handled(Now, how)
    <3>1. CASE Submit
      BY <1>1, <3>1 DEF Submit, Skip
    <3>2. CASE Place
      BY <1>1, <3>2, PlaceForms
    <3> QED BY <1>9, <3>1, <3>2
  <2>3. order[Now] = "dropped" => ~Handled(Now, order[Now])
    BY <1>1, <2>1 DEF Handled, OrderTypes
  <2> QED BY <1>2, <2>1, <2>2, <2>3
<1> QED BY <1>1, <1>5, <1>6, <1>7, <1>8, <1>9
    DEF Next, Cycle, vars, fundVars, CheckGeoblock, NoClient, ReadClob, ReadChain, OwnerMoves, RegionChanges

LEMMA GivenUpWhenShort ==
  ASSUME HandedInv, FundsInv, SellsInv, [Next]_vars, NEW t \in Trades
  PROVE  GivenUpInNeed(t)
<1> DEFINE a == Trade[t].acct
           total == TotalTracked(a)
<1> SUFFICES ASSUME order[t] = "new", order'[t] = "dropped"
             PROVE  \/ Held(a, t) < Trade[t].shares
                    \/ 2 * Held(a, t) * real[Where].token + total < 2 * total * Trade[t].shares
                    \/ left.moved \/ ~cycle.snap.fresh \/ ~Agreed
  BY DEF GivenUpInNeed, Agreed
<1>1. CASE Take /\ t \in cycle.queue /\ Held(cycle.acct, t) < Trade[t].shares
  <2>1. a = cycle.acct
    BY <1>1 DEF Take, SellsInv, QueueInv
  <2> QED BY <1>1, <2>1
<1>2. CASE DecideSell /\ t = Now /\ Handled(Now, "dropped")
  <2>1. cycle.pc = "decide" /\ ~IsBuy(t) /\ a = cycle.acct /\ a \in AccountIds /\ Trade[t].leader \in Leaders
    BY <1>2, FundsConstantsOK DEF DecideSell, SellsInv, QueueInv, FundsConstantsOK
  <2>2. tracked[a] \in [Leaders -> Nat] /\ IsFiniteSet(Leaders)
    BY <2>1, FundsConstantsOK DEF SellsInv, TrackedTypes, FundsConstantsOK
  <2>3. total \in Nat /\ Held(a, t) \in Nat /\ Held(a, t) <= total
    BY <2>1, <2>2, SumTyped DEF TotalTracked, Held
  <2>4. Trade[t].shares \in Nat
    BY <2>1, TradeForm
  <2>5. Needed = Trade[t].shares
    BY <1>2, <2>1 DEF Needed
  <2>6. \/ Held(a, t) < Trade[t].shares
        \/ /\ cycle.snap.balance # None
           /\ ProportionalSellable(Held(a, t), cycle.snap.balance, total) < Trade[t].shares
    <3>1. DecideSell /\ cycle'.pc # "place" /\ ~Skip(Now)
      <4>1. cycle'.pc = "pick"
        BY <1>2 DEF Handled, HandedInv, CycleWallet, CycleFields
      <4>2. ~Skip(Now)
        BY <1>2 DEF Skip, Handled, FundsInv, OrderTypes
      <4> QED BY <1>2, <4>1, <4>2
    <3>2. cycle' # [cycle EXCEPT !.pc = "place"]
      BY <3>1 DEF HandedInv, CycleWallet, CycleFields
    <3> HIDE DEF a, total
    <3>3. a = cycle.acct /\ total = TotalTracked(cycle.acct) /\ t = Now
      BY <1>2, <2>1 DEF total
    <3> QED BY <2>5, <3>1, <3>2, <3>3 DEF DecideSell
  <2>7. CASE /\ cycle.snap.balance # None
             /\ ProportionalSellable(Held(a, t), cycle.snap.balance, total) < Trade[t].shares
    <3> SUFFICES ASSUME ~left.moved, cycle.snap.fresh, Agreed
                 PROVE  \/ Held(a, t) < Trade[t].shares
                        \/ 2 * Held(a, t) * real[Where].token + total < 2 * total * Trade[t].shares
      OBVIOUS
    <3>1. cycle.snap.balance = real[Where].token
      BY <1>2, <2>1, <2>7 DEF SellsInv, SnapInv, SharesKnown, Exact, Where
    <3>2. real[Where].token \in Nat
      BY <2>1, CycleAddresses, FundForm DEF HandedInv, FundsInv
    <3> DEFINE h == Held(a, t)
               b == real[Where].token
               s == Trade[t].shares
    <3>3. h \in Nat /\ b \in Nat /\ s \in Nat /\ h <= total /\ ProportionalSellable(h, b, total) < s
      BY <2>3, <2>4, <2>7, <3>1, <3>2
    <3> HIDE DEF h, b, s, total
    <3>4. h < s \/ 2 * h * b + total < 2 * total * s
      BY <2>3, <3>3, PartTooSmall
    <3> QED BY <3>4 DEF h, b, s
  <2> QED BY <2>6, <2>7
<1> QED BY <1>1, <1>2, GivenUpBy

\* A sell that the leader's part of the wallet reaches for is not given up for good, so long
\* as the wallet was read as it is (proportionalSellable, balance.ts, copy-cycle.ts).
THEOREM SellsGivenUpInNeed == Spec => SellsDroppedWhenShort
<1>1. Init => HandedInv /\ FundsInv /\ SellsInv
  BY HandedFirst, FundsFirst, SellsFirst
<1>2. HandedInv /\ FundsInv /\ SellsInv /\ [Next]_vars => HandedInv' /\ FundsInv' /\ SellsInv'
  BY HandedStep, FundsStep, SellsStep
<1>3. HandedInv /\ FundsInv /\ SellsInv /\ [Next]_vars => [\A t \in Trades : GivenUpInNeed(t)]_vars
  BY GivenUpWhenShort
<1> QED BY <1>1, <1>2, <1>3, PTL DEF Spec, SellsDroppedWhenShort

=============================================================================
