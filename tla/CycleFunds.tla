------------------------------ MODULE CycleFunds ------------------------------
(***************************************************************************)
(* The money of a live copy cycle: what it reads of the wallet, when, and  *)
(* which orders it places on the strength of it, while the wallet moves.   *)
(* Collateral is read once per cycle and each token once per cycle         *)
(* (balance.ts); the readings go through the clients of WalletClients.     *)
(* Sizing, risk checks and the order's own protocol are the subject of     *)
(* CopyPipeline and LiveOrders; here a trade has the size they gave it.    *)
(* Sold shares are of one token, what is bought is of others.              *)
(* Amounts are in cents, shares in hundredths.                             *)
(***************************************************************************)
EXTENDS WalletClients, Functions

CONSTANTS
  Trades,      \* what the leaders did and the accounts copy
  Trade,       \* Trade[t]: acct, side, leader, usd or shares, and its market's spender
  Leaders,
  SyncWallet,  \* accounts with risk.sync_wallet_balance
  MinOrder,    \* risk.min_order_usd
  InitTracked, \* positions of the accounts' databases at the start
  Amounts      \* amounts moved from outside

VARIABLES
  real,     \* real[address]: pusd, usdce and shares of the token
  listed,   \* listed[address]: the CLOB's copy, cash and shares
  tracked,  \* tracked[a][leader]: positions in the database of a
  order,    \* order[t]: what became of the copy of t
  at,       \* at[t]: the wallet a resting order draws on
  lost,     \* lost[t]: the wallet an order for t draws on that rests without an answer
  cycle,    \* the cycle under way: its account, wallet, readings and queue
  ran,      \* accounts whose cycle of this tick has begun
  geo,      \* the cached geoblock answer
  blocked,  \* the exchange refuses orders from this region
  left      \* history: what left the cycle's wallet since it was read

fundVars == <<real, listed, tracked, order, at, lost, cycle, ran, geo, blocked, left>>
vars == <<walletVars, fundVars>>

Tolerance == 1

FundsConstantsOK ==
  /\ \A t \in Trades : Trade[t].acct \in AccountIds /\ Trade[t].side \in {"BUY", "SELL"}
                       /\ Trade[t].leader \in Leaders /\ Trade[t].spender \in Spenders
                       /\ IF Trade[t].side = "BUY" THEN Trade[t].usd \in Nat ELSE Trade[t].shares \in Nat
  /\ IsFiniteSet(Trades) /\ IsFiniteSet(Leaders)
  /\ InitTracked \in [AccountIds -> [Leaders -> Nat]]
  /\ SyncWallet \subseteq AccountIds
  /\ MinOrder \in Nat /\ Amounts \subseteq Nat
  /\ \A i \in Starts : i.funds \in [pusd : Nat, usdce : Nat, token : Nat]
ASSUME FundsConstantsOK

NoCycle == [pc |-> "idle", acct |-> None, wallet |-> None, queue |-> {}, trade |-> None,
            coll |-> None, snap |-> None, again |-> FALSE]
Nothing == [cash |-> 0, token |-> 0, moved |-> FALSE]

IsBuy(t) == Trade[t].side = "BUY"
Now == cycle.trade
Needed == IF IsBuy(Now) THEN Trade[Now].usd ELSE Trade[Now].shares
Where == cycle.wallet.addr
\* The wallet the client in hand trades with.
Acting == AccountWallet(clients[CacheKey(cycle.wallet)].wallet)

-----------------------------------------------------------------------------
(* The wallet outside the engine                                           *)

\* cash and shares leave the wallet at an address, or arrive.
Moves(addr, cash, shares) ==
  /\ real' = [real EXCEPT ![addr].pusd = @ + cash, ![addr].token = @ + shares]
  /\ left' = IF cycle.pc # "idle" /\ addr = Where
             THEN [cash |-> left.cash + (IF cash < 0 THEN -cash ELSE 0),
                   token |-> left.token + (IF shares < 0 THEN -shares ELSE 0),
                   moved |-> left.moved \/ shares # 0]
             ELSE left

\* The owner withdraws or pays in; the CLOB's copy does not follow.
OwnerMoves ==
  /\ phase = "poll" /\ Happens
  /\ \E addr \in {config[a].addr : a \in DOMAIN config \cap {Trade[t].acct : t \in Trades}}, n \in Amounts :
       \/ real[addr].pusd >= n /\ Moves(addr, -n, 0)
       \/ real[addr].token >= n /\ Moves(addr, 0, -n)
       \/ Moves(addr, n, 0)
       \/ Moves(addr, 0, n)
  /\ UNCHANGED <<accountVars, clients, deployed, approvals, allowed, call, phase, todo,
                 listed, tracked, order, at, lost, cycle, ran, geo, blocked>>

RegionChanges ==
  /\ phase = "poll" /\ Happens
  /\ blocked' = ~blocked
  /\ UNCHANGED <<accountVars, clients, deployed, approvals, allowed, call, phase, todo,
                 real, listed, tracked, order, at, lost, cycle, ran, geo, left>>

\* Shares that change hands, also in the CLOB's copy.
Exchanged(t, addr) ==
  LET cash == IF IsBuy(t) THEN -Trade[t].usd ELSE 0
      shares == IF IsBuy(t) THEN 0 ELSE -Trade[t].shares
  IN /\ Moves(addr, cash, shares)
     /\ listed' = [listed EXCEPT ![addr] = [cash |-> real'[addr].pusd, token |-> real'[addr].token]]

Covered(t, addr) == IF IsBuy(t) THEN real[addr].pusd >= Trade[t].usd
                    ELSE real[addr].token >= Trade[t].shares

\* An order that rested is matched; the database learns of it in a later cycle.  An order
\* without an answer belongs to no leader, though a cycle may adopt it as "_recovered": its
\* fill changes no leader's position.
Match ==
  /\ \E t \in Trades :
       \/ /\ order[t] = "resting" /\ Covered(t, at[t])
          /\ order' = [order EXCEPT ![t] = "matched"]
          /\ Exchanged(t, at[t]) /\ UNCHANGED lost
       \/ /\ lost[t] # None /\ Covered(t, lost[t])
          /\ lost' = [lost EXCEPT ![t] = None]
          /\ Exchanged(t, lost[t]) /\ UNCHANGED order
  /\ UNCHANGED <<walletVars, tracked, at, cycle, ran, geo, blocked>>

-----------------------------------------------------------------------------
(* A cycle                                                                 *)

\* applyCopyFill sells no more than the position.
Lesser(x, y) == IF x < y THEN x ELSE y
Sold(l, ts) ==
  SumFunctionOnSet([t \in ts |-> IF IsBuy(t) \/ Trade[t].leader # l THEN 0 ELSE Trade[t].shares], ts)
Booked(a, ts) ==
  [tracked EXCEPT ![a] = [l \in Leaders |-> tracked[a][l] - Lesser(tracked[a][l], Sold(l, ts))]]

\* What a cycle of a has to do: trades to decide on, matched orders to book.
Work(a) == {t \in Trades : Trade[t].acct = a /\ order[t] \in {"new", "matched"}}

\* A tick runs one cycle after the other, for every account that has something to do.
\* The pending pass books what was matched; the poll returns what is not handled; the
\* account's configuration is read once.
CycleBegin(a) ==
  LET matched == {t \in Work(a) : order[t] = "matched"} IN
  /\ phase = "poll" /\ cycle.pc = "idle" /\ a \in DOMAIN config /\ Work(a) # {}
  /\ a \in ran => \A b \in DOMAIN config : Work(b) # {} => b \in ran
  /\ ran' = IF a \in ran THEN {a} ELSE ran \cup {a}
  /\ order' = [t \in Trades |-> IF t \in matched THEN "done" ELSE order[t]]
  /\ tracked' = Booked(a, matched)
  /\ cycle' = [NoCycle EXCEPT !.pc = "geo", !.acct = a, !.wallet = config[a],
                              !.queue = Work(a) \ matched]
  /\ left' = Nothing
  /\ UNCHANGED <<walletVars, real, listed, at, lost, geo, blocked>>

EndCycle == cycle' = NoCycle

\* getCachedGeoblockStatus: an answer counts for five minutes, no answer as well.
CheckGeoblock ==
  /\ cycle.pc = "geo"
  /\ \/ geo # None /\ UNCHANGED geo /\ Works
     \/ geo' = (IF blocked THEN "blocked" ELSE "open") /\ Works
     \/ geo' = "unknown" /\ Fails("geoDown")
  /\ IF geo' = "blocked" THEN EndCycle ELSE cycle' = [cycle EXCEPT !.pc = "pick"]
  /\ UNCHANGED <<accountVars, clients, deployed, approvals, allowed, call, phase, todo,
                 real, listed, tracked, order, at, lost, ran, blocked, left>>

\* proportionalSellable, rounded to hundredths: the leader's part of the wallet.
RoundDiv(n, d) == (2 * n + d) \div (2 * d)
\* (mutant) the wallet is shared out evenly
EvenShare(held, walletShares, total) ==
  IF held <= 0 \/ walletShares <= 0 THEN 0 ELSE Lesser(held, walletShares \div Cardinality(Leaders))
ProportionalSellable(held, walletShares, total) ==
  IF held <= 0 \/ walletShares <= 0 THEN 0
  ELSE IF total <= 0 THEN Lesser(held, walletShares)
  ELSE Lesser(held, RoundDiv(walletShares * held, total))

Held(a, t) == tracked[a][Trade[t].leader]
TotalTracked(a) == SumFunctionOnSet(tracked[a], Leaders)

Handled(t, how) ==
  /\ order' = [order EXCEPT ![t] = how]
  /\ cycle' = [cycle EXCEPT !.pc = "pick", !.queue = @ \ {t}, !.trade = None]
Skip(t) == Handled(t, order[t])

AskClient(t) ==
  /\ GetSecureClient("cycle", cycle.wallet)
  /\ cycle' = [cycle EXCEPT !.pc = "client", !.trade = t, !.again = FALSE,
                            !.snap = IF IsBuy(t) THEN @ ELSE None]

\* A reading is made for the first trade that needs it, and serves the others; a token is
\* read for each of its sells where the wallet is not kept in step.
Take ==
  /\ cycle.pc = "pick"
  /\ \/ /\ cycle.queue = {} /\ EndCycle
        /\ UNCHANGED <<order, clients, call>>
     \/ \E t \in cycle.queue :
          LET dropped == ~IsBuy(t) /\ cycle.acct \notin SyncWallet
                         /\ Held(cycle.acct, t) < Trade[t].shares
              known == IF IsBuy(t) THEN cycle.coll # None
                       ELSE cycle.snap # None /\ cycle.acct \in SyncWallet
          IN \/ dropped /\ Handled(t, "dropped") /\ UNCHANGED <<clients, call>>
             \/ /\ ~dropped /\ known
                /\ cycle' = [cycle EXCEPT !.pc = "decide", !.trade = t]
                /\ UNCHANGED <<order, clients, call>>
             \/ ~dropped /\ ~known /\ AskClient(t) /\ UNCHANGED order
  /\ UNCHANGED <<accountVars, deployed, approvals, allowed, phase, todo, events,
                 real, listed, tracked, at, lost, ran, geo, blocked, left>>

\* The answer of a token reading, or None; a failed one may be tried once more.
NoSnapshot == [balance |-> None, allowance |-> FALSE, fresh |-> TRUE]
TokenRead(snap) == cycle' = [cycle EXCEPT !.pc = "decide", !.snap = snap]
TokenFailed ==
  \/ TokenRead(NoSnapshot) /\ UNCHANGED clients /\ call' = [call EXCEPT !["cycle"] = Idle]
  \/ /\ ~cycle.again
     /\ GetSecureClient("cycle", cycle.wallet)
     /\ cycle' = [cycle EXCEPT !.again = TRUE]

NoCash == [clob |-> None, allowance |-> FALSE, chain |-> None, ready |-> None, fresh |-> TRUE]
CashRead(coll) ==
  /\ cycle' = [cycle EXCEPT !.pc = "chain", !.coll = coll]
  /\ call' = [call EXCEPT !["cycle"] = Idle] /\ UNCHANGED clients

\* Without a client there is no CLOB reading; the chain is read all the same.
NoClient ==
  /\ cycle.pc = "client" /\ call["cycle"].status = "failed"
  /\ IF IsBuy(Now) THEN CashRead(NoCash) ELSE TokenFailed
  /\ UNCHANGED <<accountVars, deployed, approvals, allowed, phase, todo, events,
                 real, listed, tracked, order, at, lost, ran, geo, blocked, left>>

\* updateBalanceAllowance brings the CLOB's copy up to date, if it works.  A wallet
\* with USDC.e has not migrated: the CLOB shows nothing of it.
Migrated(addr) == real[addr].usdce = 0
Refreshed(addr) == [cash |-> IF Migrated(addr) THEN real[addr].pusd ELSE 0, token |-> real[addr].token]

ReadClob ==
  LET addr == Acting IN
  /\ cycle.pc = "client" /\ call["cycle"].status = "got"
  /\ \/ /\ \/ listed' = [listed EXCEPT ![addr] = Refreshed(addr)] /\ Works
           \/ UNCHANGED listed /\ Fails("staleList")
        /\ LET fresh == listed'[addr] = Refreshed(addr) IN
           IF IsBuy(Now)
           THEN CashRead([NoCash EXCEPT !.clob = listed'[addr].cash, !.fresh = fresh,
                                        !.allowance = allowed[addr] # {}])
           ELSE /\ TokenRead([balance |-> listed'[addr].token, fresh |-> fresh,
                              allowance |-> allowed[addr] # {}])
                /\ call' = [call EXCEPT !["cycle"] = Idle] /\ UNCHANGED clients
     \/ /\ Fails("clobDown") /\ UNCHANGED listed
        /\ IF IsBuy(Now) THEN CashRead(NoCash) ELSE TokenFailed
  /\ left' = IF IsBuy(Now) THEN [left EXCEPT !.cash = 0]
             ELSE [left EXCEPT !.token = 0, !.moved = FALSE]
  /\ UNCHANGED <<accountVars, deployed, approvals, allowed, phase, todo,
                 real, tracked, order, at, lost, ran, geo, blocked>>

Known(x) == IF x = None THEN 0 ELSE x

\* fetchOnChainCollateralUsd, and the approvals when the CLOB shows no money.
ReadChain ==
  LET cash == real[Where].pusd + real[Where].usdce
      asks == cash > 0 /\ Known(cycle.coll.clob) <= 0
  IN /\ cycle.pc = "chain"
     /\ \/ /\ cycle' = [cycle EXCEPT !.pc = "decide", !.coll.chain = cash,
                          !.coll.ready = IF asks THEN allowed[Where] = Spenders ELSE None]
           /\ Works
        \/ /\ cycle' = [cycle EXCEPT !.pc = "decide"]
           /\ Fails("rpcDown")
     /\ UNCHANGED <<accountVars, clients, deployed, approvals, allowed, call, phase, todo,
                    real, listed, tracked, order, at, lost, ran, geo, blocked, left>>

CanTradeWithChainFallback(coll) ==
  Known(coll.clob) <= 0 /\ Known(coll.chain) > 0 /\ coll.ready = TRUE

\* (mutant) only the minimum is checked
AboveMinimum(cash, need) == cash >= MinOrder
CheckLiveBuyCollateral(cash, need) == cash >= MinOrder /\ cash + Tolerance >= need

\* A buy the money does not reach for is skipped, and tried again in the next cycle.
DecideBuy ==
  LET coll == cycle.coll
      fallback == CanTradeWithChainFallback(coll)
      cash == IF fallback THEN coll.chain ELSE Known(coll.clob)
      allowance == fallback \/ coll.allowance
  IN /\ cycle.pc = "decide" /\ IsBuy(Now)
     /\ IF CheckLiveBuyCollateral(cash, Needed) /\ allowance
        THEN cycle' = [cycle EXCEPT !.pc = "place"] /\ UNCHANGED order
        ELSE Skip(Now)

\* (mutant) looks at the approval alone
ApprovalOnly(snap, need) == snap.allowance
CheckLiveSellFromSnapshot(snap, need) == snap.balance + Tolerance >= need /\ snap.allowance

\* A sell the leader's part does not reach for is never tried again.
DecideSell ==
  LET snap == cycle.snap
      held == IF cycle.acct \in SyncWallet /\ snap.balance # None
              THEN ProportionalSellable(Held(cycle.acct, Now), snap.balance, TotalTracked(cycle.acct))
              ELSE Held(cycle.acct, Now)
  IN /\ cycle.pc = "decide" /\ ~IsBuy(Now)
     /\ IF held < Needed THEN Handled(Now, "dropped")
        ELSE IF snap.balance # None /\ CheckLiveSellFromSnapshot(snap, Needed)
             THEN cycle' = [cycle EXCEPT !.pc = "place"] /\ UNCHANGED order
             ELSE Skip(Now)

Decide ==
  /\ DecideBuy \/ DecideSell
  /\ UNCHANGED <<walletVars, real, listed, tracked, at, lost, ran, geo, blocked, left>>

\* isDefiniteOrderRejection: what the exchange refuses is not tried again.
Rejected(t) == Handled(t, "refused")

\* submitOrder asks for the client anew, and sends nothing without one: placeLimitOrder may
\* try again, then the trade is left as it is.
Submit ==
  /\ \/ /\ cycle.pc = "place"
        /\ GetSecureClient("cycle", cycle.wallet)
        /\ cycle' = [cycle EXCEPT !.pc = "submit", !.again = FALSE]
        /\ UNCHANGED order
     \/ /\ cycle.pc = "submit" /\ call["cycle"].status = "failed" /\ ~cycle.again
        /\ GetSecureClient("cycle", cycle.wallet)
        /\ cycle' = [cycle EXCEPT !.again = TRUE]
        /\ UNCHANGED order
     \/ /\ cycle.pc = "submit" /\ call["cycle"].status = "failed"
        /\ Skip(Now)
        /\ call' = [call EXCEPT !["cycle"] = Idle] /\ UNCHANGED clients
  /\ UNCHANGED <<accountVars, deployed, approvals, allowed, phase, todo, events,
                 real, listed, tracked, at, lost, ran, geo, blocked, left>>

\* The exchange takes the order, matching it at once or later.
Taken(addr) ==
  \/ /\ Handled(Now, "done") /\ Exchanged(Now, addr)
     /\ tracked' = Booked(cycle.acct, {Now}) /\ UNCHANGED <<at, lost>>
  \/ /\ Handled(Now, "resting") /\ at' = [at EXCEPT ![Now] = addr]
     /\ UNCHANGED <<real, listed, left, tracked, lost>>

\* The exchange takes the order and its answer is lost: the trade is not handled, the money
\* moves all the same, now or later.
TakenUnanswered(addr) ==
  /\ Skip(Now)
  /\ \/ Exchanged(Now, addr) /\ UNCHANGED lost
     \/ /\ lost[Now] = None /\ lost' = [lost EXCEPT ![Now] = addr]
        /\ UNCHANGED <<real, listed, left>>
  /\ UNCHANGED <<tracked, at>>

\* recoverOrderAfterFailure finds an order that rests and looks like this one.
Recovered ==
  /\ lost[Now] # None
  /\ Handled(Now, "resting") /\ at' = [at EXCEPT ![Now] = lost[Now]]
  /\ lost' = [lost EXCEPT ![Now] = None]
  /\ UNCHANGED <<real, listed, left, tracked>>

\* placeLimitOrder, with a client: an order is taken, refused, or gets no answer.
Place ==
  LET addr == Acting
      takes == ~blocked /\ Covered(Now, addr) /\ Trade[Now].spender \in allowed[addr]
  IN /\ cycle.pc = "submit" /\ call["cycle"].status = "got"
     /\ \/ takes /\ Taken(addr) /\ Works
        \/ ~takes /\ Rejected(Now) /\ UNCHANGED <<real, listed, left, tracked, at, lost>> /\ Works
        \/ /\ Fails("sdkDown")
           /\ \/ takes /\ TakenUnanswered(addr)
              \/ Recovered
              \/ Skip(Now) /\ UNCHANGED <<real, listed, left, tracked, at, lost>>
     /\ call' = [call EXCEPT !["cycle"] = Idle] /\ UNCHANGED clients
     /\ UNCHANGED <<accountVars, deployed, approvals, allowed, phase, todo, ran, geo, blocked>>

-----------------------------------------------------------------------------

\* A start also gives the funds of the wallets and the trades there are to copy.
Init ==
  /\ \E start \in Starts :
       /\ WalletInit(start)
       /\ real = [a \in Addresses |-> start.funds]
       /\ order = [t \in Trades |-> IF t \in start.trades THEN "new" ELSE "done"]
  /\ listed = [a \in Addresses |-> Refreshed(a)]
  /\ tracked = InitTracked
  /\ at = [t \in Trades |-> None] /\ lost = at
  /\ cycle = NoCycle /\ ran = {} /\ geo = None /\ blocked = FALSE /\ left = Nothing

Cycle ==
  \/ \E a \in DOMAIN config : CycleBegin(a)
  \/ CheckGeoblock \/ Take \/ NoClient \/ ReadClob \/ ReadChain \/ Decide \/ Submit \/ Place

Next ==
  \/ WalletNext /\ UNCHANGED fundVars
  \/ Cycle
  \/ OwnerMoves \/ RegionChanges \/ Match

Spec == Init /\ [][Next]_vars

\* The engine's own steps are taken.
FairSpec == Spec /\ WF_vars((Build \/ Prepare \/ Reload) /\ UNCHANGED fundVars) /\ WF_vars(Cycle)

-----------------------------------------------------------------------------
(* Properties                                                              *)

\* An account runs with the wallet it had been given last when a reload loaded it, whatever
\* was done to the others and whether their reloads ended well, unless ids differ in
\* punctuation or case only ("a-b" and "a_b").
Alike(a, b) ==
  \/ a \in DefaultIds /\ b \in DefaultIds
  \/ Len(a) = Len(b) /\ \A i \in DOMAIN a : EnvChar[a[i]] = EnvChar[b[i]]
Alone(a) == \A b \in accounts \ {a} : ~Alike(a, b)

OwnWallets == \A a \in DOMAIN config : Alone(a) => Keyed(config[a]) = wanted[a]

\* Whoever is handed a client is handed one with the credentials its wallet has, trading with
\* the same address.  The cache key names neither private key nor secret: with another key
\* for the same address the old client goes on signing, and under the override "auto",
\* where the key decides on the address, goes on trading with the old one.
OneKey(addr) == \A v, w \in had : v.addr = addr /\ w.addr = addr => v.key = w.key

OwnClients ==
  \A c \in Callers :
    LET k == CacheKey(call[c].wallet)
        own == call[c].wallet
    IN call[c].status = "got" /\ k \in DOMAIN clients =>
         /\ clients[k].creds = "configured" <=> own.api # None
         /\ SecureWallet # "auto" => AccountWallet(clients[k].wallet) = AccountWallet(own)
         /\ OneKey(own.addr) => clients[k].wallet = own

\* Accounts never act on each other's wallets (env-file.ts, load.ts, secure-client.ts).
EachToItsWallet == OwnWallets /\ OwnClients

\* The cycle's client trades with the configured address, where the money is read.
Agrees(w) ==
  AccountWallet(w) = w.addr /\ (SecureWalletMode(w) = "settings" \/ OneKey(w.addr))

\* A buy is placed only when the cash for it was there when the wallet was read: what
\* lacks by now left the wallet since, by orders of this cycle among others.  Money the
\* CLOB does not show counts, USDC.e included (copy-cycle.ts, balance.ts).
BuyCovered ==
  IsBuy(Now) /\ Agrees(cycle.wallet) /\ cycle.coll.fresh =>
    Needed <= Tolerance + left.cash + real[Where].pusd
              + (IF Known(cycle.coll.clob) > 0 THEN 0 ELSE real[Where].usdce)

\* So with sells: the wallet held the shares when they were read.
SellCovered ==
  ~IsBuy(Now) /\ Agrees(cycle.wallet) /\ cycle.snap.fresh =>
    Needed <= Tolerance + left.token + real[Where].token

OrdersCovered == cycle.pc \in {"place", "submit"} => BuyCovered /\ SellCovered

\* A sell is given up for good only when the leader's part of the wallet, in proportion
\* to what the leaders hold and rounded, does not reach for it, or the wallet moved after it
\* was read, or the reading was out of date.
GivenUpInNeed(t) ==
  order[t] = "new" /\ order'[t] = "dropped" =>
    LET a == Trade[t].acct
        total == TotalTracked(a)
    IN
    \/ Held(a, t) < Trade[t].shares
    \/ 2 * Held(a, t) * real[Where].token + total < 2 * total * Trade[t].shares
    \/ left.moved \/ ~cycle.snap.fresh \/ ~Agrees(cycle.wallet)

SellsDroppedWhenShort == [][\A t \in Trades : GivenUpInNeed(t)]_vars

\* The account can pay for t: its wallet is deployed and approved, and has migrated.
CanPay(t) ==
  LET a == Trade[t].acct IN
  /\ phase = "poll" /\ a \in DOMAIN config
  /\ LET w == config[a] IN
       /\ SecureWalletMode(w) = "settings" /\ w.addr \in Deployed
       /\ allowed[w.addr] # {} /\ Migrated(w.addr)
       /\ real[w.addr].pusd >= Trade[t].usd /\ Trade[t].usd >= MinOrder
  /\ ~blocked /\ geo # "blocked"

\* fetchRelayerWalletDeployed keeps "not deployed" after one failed call, to the next
\* start: no client is ever built for the wallet again.
TakenForUndeployed(t) ==
  LET a == Trade[t].acct IN
  /\ a \in DOMAIN config
  /\ config[a].addr \in DOMAIN deployed /\ ~deployed[config[a].addr]

\* A failed call delays a buy and does not lose it: a buy the account can pay for is
\* sent to the exchange in the end, whatever else failed, except when the call that failed
\* was the relayer's and its wallet is taken for undeployed.
BuysGetPlaced ==
  \A t \in Trades :
    IsBuy(t) => (<>[]CanPay(t) => <>(order[t] # "new") \/ <>[]TakenForUndeployed(t))
=============================================================================
