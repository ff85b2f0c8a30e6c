----------------------------- MODULE CopyPipeline -----------------------------
(***************************************************************************)
(* The decisions of one account: what the copy cycle does with the trades  *)
(* its leaders make.  Every trade of the queue passes deduplication, the   *)
(* conflict rule, sizing and the risk gate before an order is placed, and  *)
(* what the order fills changes the state those checks read next.          *)
(*                                                                         *)
(* In preview an order fills at once; live, it may rest and be booked by a *)
(* later cycle, or the exchange takes it and its answer never arrives.     *)
(* How live orders are reconciled is the subject of LiveOrders; here a     *)
(* resting order is only its remaining size.                               *)
(*                                                                         *)
(* Sizes are counted in 0.01 shares, money in 1/Cent of a cent.  Prices    *)
(* and amounts are exact in that unit; the preview cash and the realized   *)
(* PnL are rounded to whole cents where the store rounds them.  A position *)
(* is its shares and what they cost; the average price the store keeps is  *)
(* their quotient, an unrounded number.                                    *)
(***************************************************************************)
EXTENDS Integers, Sequences, FiniteSets, FiniteSetsExt

CONSTANTS
  Leaders, Tokens,
  Trades,          \* trade keys: of queue entries (trades, or batches merged by
                   \* aggregateTrades), and of adopted orders
  Recoveries,      \* those of adopted orders, recovered-<order id>, of the leader
                   \* "_recovered" (also a bound on the answers that are lost)
  Trade,           \* Trade[t]: leader, token, side, price, usd the strategy asks for
  Preview,         \* previewMode
  Capital,         \* startingCapitalUsd
  LossCapPct,      \* dailyLossCapPct
  MaxVolume,       \* maxDailyVolumeUsd
  LeaderVolume,    \* LeaderVolume[l]: limits.maxDailyVolumeUsd
  MaxMarkets,      \* maxOpenMarkets
  MinOrder,        \* minOrderUsd
  TokenCap,        \* maxPositionPerTokenUsd, 0 is off
  PositionCap,     \* PositionCap[l]: limits.maxPositionUsd, 0 is off
  CostBasis,       \* positionCapBasis = "cost"
  ConflictMode,    \* conflict.mode
  Rank,            \* Rank[l]: place of l in conflict.priority, then weight
  Cent,            \* units of money in a cent
  Days,            \* a bound on the UTC days that pass
  None

ASSUME ConstantsOK ==
  /\ Trade \in [Trades -> [leader : Leaders, token : Tokens, side : {"BUY", "SELL"},
                           price : Nat \ {0}, usd : Nat]]
  /\ Preview \in BOOLEAN /\ CostBasis \in BOOLEAN
  /\ Capital \in Nat /\ LossCapPct \in Nat /\ MaxVolume \in Nat
  /\ LeaderVolume \in [Leaders -> Nat] /\ PositionCap \in [Leaders -> Nat]
  /\ MaxMarkets \in Nat /\ MinOrder \in Nat \ {0} /\ TokenCap \in Nat
  /\ ConflictMode \in {"skip_both", "net", "priority_leader"}
  /\ Rank \in [Leaders -> Nat]
  /\ Cent \in Nat \ {0} /\ Days \in Nat
  /\ Recoveries \subseteq Trades
  /\ \A r \in Recoveries, t \in Trades \ Recoveries : Trade[r].leader # Trade[t].leader
  /\ None \notin Trades /\ None \notin Leaders
  /\ IsFiniteSet(Leaders) /\ IsFiniteSet(Tokens) /\ IsFiniteSet(Trades)

VARIABLES
  seen,     \* seen_trades
  pos,      \* positions: shares and what they cost at their average price
  recent,   \* leader and token pairs with a buy_dedup row inside the window
  today,    \* the daily_stats and leader_daily_stats rows of the UTC day
  past,     \* realized PnL and number of the days before
  cash,     \* preview_cash_usd
  resting,  \* resting[t]: size of t's order still open on the exchange
  lost,     \* lost[r]: the trade an order without an answer is for, and its size
            \* while it is open on the exchange and not in the books
  cyc,      \* the running cycle
  bought,   \* pairs a preview BUY was ordered for inside the window (history)
  orders    \* orders[t]: number of orders taken for t (history)

vars == <<seen, pos, recent, today, past, cash, resting, lost, cyc, bought, orders>>

-----------------------------------------------------------------------------
\* Math.round(a / b)
RoundDiv(a, b) == (2 * a + b) \div (2 * b)
Least(a, b) == IF a <= b THEN a ELSE b

\* Math.round(usd * 100) / 100
ToCents(usd) == Cent * RoundDiv(usd, Cent)

\* The trades the leaders make.
Feed == Trades \ Recoveries

Pairs == Leaders \X Tokens
PairOf(t) == <<Trade[t].leader, Trade[t].token>>
Buys(t) == Trade[t].side = "BUY"
Held(t) == pos[PairOf(t)]

\* Orders on the exchange for these look alike to findMatchingOpenOrder (whose
\* comparison of sizes is left out).
Alike(t, u) ==
  /\ Trade[t].token = Trade[u].token /\ Trade[t].side = Trade[u].side
  /\ Trade[t].price = Trade[u].price

TotalShares(tok) == MapThenSumSet(LAMBDA l : pos[<<l, tok>>].shares, Leaders)
OpenMarkets == {tok \in Tokens : \E l \in Leaders : pos[<<l, tok>>].shares > 0}

NewDayRow == [volume |-> 0, byLeader |-> [l \in Leaders |-> 0], pnl |-> 0,
              kill |-> FALSE]

\* No side of any token was seen by the conflict tracker yet.
NoSides == [tok \in Tokens |-> [leader |-> None, side |-> "BUY"]]

IdleCycle == [pc |-> "idle", queue |-> <<>>, sides |-> NoSides, trade |-> None,
              size |-> 0, copied |-> <<>>]

TypeOK ==
  /\ seen \subseteq Trades
  /\ pos \in [Pairs -> [shares : Nat, cost : Int]]
  /\ recent \subseteq Pairs /\ bought \subseteq Pairs
  /\ today \in [volume : Nat, byLeader : [Leaders -> Nat], pnl : Int, kill : BOOLEAN]
  /\ past \in [pnl : Int, days : 0..Days]
  /\ cash \in Int
  /\ resting \in [Trades -> Nat] /\ orders \in [Trades -> Nat]
  /\ lost \in [Recoveries -> [of : Trades \cup {None}, open : Nat]]
  /\ cyc \in [pc : {"idle", "pending", "gated", "queue", "place"}, queue : Seq(Trades),
              sides : [Tokens -> [leader : Leaders \cup {None}, side : {"BUY", "SELL"}]],
              trade : Trades \cup {None}, size : Nat, copied : Seq(Trades)]

Init ==
  /\ seen = {} /\ recent = {} /\ bought = {}
  /\ pos = [p \in Pairs |-> [shares |-> 0, cost |-> 0]]
  /\ today = NewDayRow /\ past = [pnl |-> 0, days |-> 0]
  /\ cash = Capital
  /\ resting = [t \in Trades |-> 0] /\ orders = [t \in Trades |-> 0]
  /\ lost = [r \in Recoveries |-> [of |-> None, open |-> 0]]
  /\ cyc = IdleCycle

-----------------------------------------------------------------------------
(* The clock and the dashboard                                             *)

\* Midnight UTC: every daily row is the one of a date without rows.
NewDay ==
  /\ past.days < Days
  /\ past' = [pnl |-> past.pnl + today.pnl, days |-> past.days + 1]
  /\ today' = NewDayRow
  /\ UNCHANGED <<seen, pos, recent, cash, resting, lost, cyc, bought, orders>>

\* buyDedupWindowMs pass after the order for p was placed, then after its fill.
WindowPasses(p) ==
  /\ \/ p \in bought /\ bought' = bought \ {p} /\ UNCHANGED recent
     \/ p \in recent \ bought /\ recent' = recent \ {p} /\ UNCHANGED bought
  /\ UNCHANGED <<seen, pos, today, past, cash, resting, lost, cyc, orders>>

ResetKillSwitch ==
  /\ today.kill
  /\ today' = [today EXCEPT !.kill = FALSE]
  /\ UNCHANGED <<seen, pos, recent, past, cash, resting, lost, cyc, bought, orders>>

-----------------------------------------------------------------------------
(* What a fill changes: positions, volume, PnL, preview cash               *)

Oversold(t, n) == n  \* (mutant) sells what is not held
Sold(t, n) == Least(Held(t).shares, n)

\* A sale leaves the average price alone: the shares left cost their part.
CostLeft(t, n) ==
  LET left == Held(t).shares - Sold(t, n)
  IN IF left > 0 THEN RoundDiv(Held(t).cost * left, Held(t).shares) ELSE 0

Proceeds(t, n) == Trade[t].price * Sold(t, n)  \* (mutant) forgets the cost
Pnl(t, n) == ToCents(Trade[t].price * Sold(t, n) - (Held(t).cost - CostLeft(t, n)))

PositionAfter(t, n) ==
  IF Buys(t)
  THEN [shares |-> Held(t).shares + n, cost |-> Held(t).cost + n * Trade[t].price]
  ELSE [shares |-> Held(t).shares - Sold(t, n), cost |-> CostLeft(t, n)]

\* adjustPreviewCashIfNeeded: only preview has simulated cash, in whole cents.
CashAfter(t, usd) ==
  IF ~Preview THEN cash ELSE ToCents(IF Buys(t) THEN cash - usd ELSE cash + usd)

\* applyCopyFill, recordBuy, addBuyVolumeIfNeeded, adjustPreviewCashIfNeeded
ApplyFill(t, n) ==
  /\ pos' = [pos EXCEPT ![PairOf(t)] = PositionAfter(t, n)]
  /\ LET usd == n * Trade[t].price
     IN /\ cash' = CashAfter(t, usd)
        /\ IF Buys(t)
           THEN /\ recent' = recent \cup {PairOf(t)}
                /\ today' = [today EXCEPT !.volume = @ + usd,
                                          !.byLeader[Trade[t].leader] = @ + usd]
           ELSE /\ today' = [today EXCEPT !.pnl = @ + Pnl(t, n)]
                /\ UNCHANGED recent

-----------------------------------------------------------------------------
(* The start of a cycle                                                    *)

StartCycle ==
  /\ cyc.pc = "idle"
  /\ cyc' = [IdleCycle EXCEPT !.pc = "pending"]
  /\ UNCHANGED <<seen, pos, recent, today, past, cash, resting, lost, bought, orders>>

\* A resting order of an earlier cycle matched more, and may be over.
BookFill(t) ==
  /\ cyc.pc = "pending" /\ resting[t] > 0
  /\ \E n \in 1..resting[t] :
       /\ ApplyFill(t, n)
       /\ \E rest \in {0, resting[t] - n} : resting' = [resting EXCEPT ![t] = rest]
  /\ UNCHANGED <<seen, past, lost, cyc, bought, orders>>

\* A resting order ends with nothing more matched.
DropResting(t) ==
  /\ cyc.pc = "pending" /\ resting[t] > 0
  /\ resting' = [resting EXCEPT ![t] = 0]
  /\ UNCHANGED <<seen, pos, recent, today, past, cash, lost, cyc, bought, orders>>

LossCapReached == today.pnl < 0 /\ Capital > 0 /\ -today.pnl * 100 >= Capital * LossCapPct
LossOnly == LossCapReached  \* (mutant) forgets the switch when the PnL recovers
Blocked == today.kill \/ LossCapReached

\* canTrade refuses; reaching the loss cap sets the kill switch of the day.
GateCloses ==
  /\ cyc.pc = "pending"
  /\ Blocked
  /\ today' = [today EXCEPT !.kill = TRUE]
  /\ cyc' = IdleCycle
  /\ UNCHANGED <<seen, pos, recent, past, cash, resting, lost, bought, orders>>

GatePasses ==
  /\ cyc.pc = "pending"
  /\ ~Blocked
  /\ cyc' = [cyc EXCEPT !.pc = "gated"]
  /\ UNCHANGED <<seen, pos, recent, today, past, cash, resting, lost, bought, orders>>

\* adoptUntrackedOpenOrders: what of an open order matched before does not count,
\* unless its status cannot be read.  The list of the open orders may fail.
AdoptOrphan(r) ==
  /\ cyc.pc = "gated" /\ lost[r].open > 0
  /\ \E rest \in 1..lost[r].open : resting' = [resting EXCEPT ![r] = rest]
  /\ lost' = [lost EXCEPT ![r].open = 0]
  /\ UNCHANGED <<seen, pos, recent, today, past, cash, cyc, bought, orders>>

\* The feed answers some of the trades, newest first per leader.
PollLeaders ==
  /\ cyc.pc = "gated"
  /\ \E S \in SUBSET Feed : \E q \in [1..Cardinality(S) -> S] :
       /\ \A t \in S : \E i \in 1..Cardinality(S) : q[i] = t
       /\ cyc' = [cyc EXCEPT !.pc = "queue", !.queue = q]
  /\ UNCHANGED <<seen, pos, recent, today, past, cash, resting, lost, bought, orders>>

EndCycle ==
  /\ cyc.pc = "queue" /\ cyc.queue = <<>>
  /\ cyc' = IdleCycle
  /\ UNCHANGED <<seen, pos, recent, today, past, cash, resting, lost, bought, orders>>

-----------------------------------------------------------------------------
(* One trade of the queue                                                  *)

Turn(t) == cyc.pc = "queue" /\ cyc.queue # <<>> /\ t = Head(cyc.queue)
Advanced == [cyc EXCEPT !.queue = Tail(@)]

\* Geoblock, the leader's filters, or a leader no longer enabled.
Filtered(t) ==
  /\ Turn(t)
  /\ cyc' = Advanced
  /\ UNCHANGED <<seen, pos, recent, today, past, cash, resting, lost, bought, orders>>

NeverRecent(t) == FALSE  \* (mutant)
RecentBuy(t) == Buys(t) /\ PairOf(t) \in recent

AlreadyHandled(t) ==
  /\ Turn(t)
  /\ t \in seen \/ RecentBuy(t)
  /\ cyc' = Advanced
  /\ UNCHANGED <<seen, pos, recent, today, past, cash, resting, lost, bought, orders>>

Fresh(t) == Turn(t) /\ t \notin seen /\ ~RecentBuy(t)

\* ConflictTracker.check: the first trade of a token takes the token's side;
\* a later trade of the other side is judged against it.
Taken(t) == cyc.sides[Trade[t].token]
Opposes(t) == Taken(t).leader # None /\ Taken(t).side # Trade[t].side
Outranks(t) ==
  \/ Trade[t].leader = Taken(t).leader
  \/ Rank[Trade[t].leader] > Rank[Taken(t).leader]

IgnoreConflicts(t) == TRUE  \* (mutant)
ConflictAllows(t) ==
  Opposes(t) => \/ ConflictMode = "net"
                \/ ConflictMode = "priority_leader" /\ Outranks(t)

SidesAfter(t) ==
  IF Taken(t).leader = None \/ (Opposes(t) /\ ConflictMode = "priority_leader")
  THEN [cyc.sides EXCEPT ![Trade[t].token] =
          [leader |-> Trade[t].leader, side |-> Trade[t].side]]
  ELSE cyc.sides

LosesConflict(t) ==
  /\ Fresh(t)
  /\ ~ConflictAllows(t)
  /\ cyc' = Advanced
  /\ UNCHANGED <<seen, pos, recent, today, past, cash, resting, lost, bought, orders>>

\* calculateOrderSize: what the strategy asks for, within the leader's room.
HeldUsd(t) ==
  IF CostBasis THEN Held(t).cost ELSE Held(t).shares * Trade[t].price

Usd(t) ==
  LET cap == PositionCap[Trade[t].leader]
      room == cap - HeldUsd(t)
  IN IF cap > 0 /\ Buys(t) THEN Least(Trade[t].usd, IF room > 0 THEN room ELSE 0)
     ELSE Trade[t].usd

TooSmall(t) == Usd(t) < MinOrder
Size(t) == LET n == RoundDiv(Usd(t), Trade[t].price) IN IF n > 1 THEN n ELSE 1
FinalUsd(t) == Size(t) * Trade[t].price

Considered(t) == Fresh(t) /\ ConflictAllows(t)
Passed(t) == [cyc EXCEPT !.queue = Tail(@), !.sides = SidesAfter(t)]

BelowMinimum(t) ==
  /\ Considered(t) /\ TooSmall(t)
  /\ seen' = seen \cup {t}
  /\ cyc' = Passed(t)
  /\ UNCHANGED <<pos, recent, today, past, cash, resting, lost, bought, orders>>

\* canOpenNewMarket
OneMarketMore(t) ==  \* (mutant)
  Buys(t) => Cardinality(OpenMarkets) <= MaxMarkets \/ Trade[t].token \in OpenMarkets
MayOpenMarket(t) ==
  Buys(t) => Cardinality(OpenMarkets) < MaxMarkets \/ Trade[t].token \in OpenMarkets

\* canSpendUsd
SpentSoFar(t) ==  \* (mutant) the order itself is not counted
  Buys(t) => today.volume <= MaxVolume
             /\ today.byLeader[Trade[t].leader] <= LeaderVolume[Trade[t].leader]
MaySpend(t) ==
  Buys(t) => /\ today.volume + FinalUsd(t) <= MaxVolume
             /\ today.byLeader[Trade[t].leader] + FinalUsd(t)
                  <= LeaderVolume[Trade[t].leader]

\* canAffordPreviewBuy, with its tolerance of a cent
AlwaysAfford(t) == TRUE  \* (mutant)
MayAfford(t) == Buys(t) /\ Preview => cash + Cent >= FinalUsd(t)

\* canAddTokenExposure
MayExpose(t) ==
  Buys(t) /\ TokenCap > 0 =>
    TotalShares(Trade[t].token) * Trade[t].price + FinalUsd(t) <= TokenCap

RiskAllows(t) == MayOpenMarket(t) /\ MaySpend(t) /\ MayAfford(t) /\ MayExpose(t)

\* Live, the exchange is asked too; what it answers is not modelled.  A BUY
\* needs collateral and its allowance, a SELL the tokens and theirs, and the
\* best price must be near the leader's.
MayLackCollateral(t) == ~Preview /\ Buys(t)
MayLackTokens(t) == ~Preview /\ ~Buys(t)
MaySlip(t) == ~Preview

RiskRefuses(t) ==
  /\ Considered(t) /\ ~TooSmall(t)
  /\ ~RiskAllows(t) \/ MayLackCollateral(t) \/ MayLackTokens(t) \/ MaySlip(t)
  /\ cyc' = Passed(t)
  /\ UNCHANGED <<seen, pos, recent, today, past, cash, resting, lost, bought, orders>>

Covered(t) == Buys(t) \/ Held(t).shares >= Size(t)

\* A SELL of more than the leader's position; live, the wallet may hold less.
Uncovered(t) ==
  /\ Considered(t) /\ ~TooSmall(t) /\ RiskAllows(t)
  /\ ~Buys(t) /\ (~Covered(t) \/ MayLackTokens(t))
  /\ seen' = seen \cup {t}
  /\ cyc' = Passed(t)
  /\ UNCHANGED <<pos, recent, today, past, cash, resting, lost, bought, orders>>

PlaceOrder(t) ==
  /\ Considered(t) /\ ~TooSmall(t) /\ RiskAllows(t) /\ Covered(t)
  /\ cyc' = [Passed(t) EXCEPT !.pc = "place", !.trade = t, !.size = Size(t)]
  /\ UNCHANGED <<seen, pos, recent, today, past, cash, resting, lost, bought, orders>>

Placed == [cyc EXCEPT !.pc = "queue", !.trade = None, !.size = 0]

Remembered(t) == bought' = IF Preview /\ Buys(t) THEN bought \cup {PairOf(t)} ELSE bought
Ordered(t) == orders' = [orders EXCEPT ![t] = @ + 1]

\* recordCopySuccess: a preview order fills whole and at once.
RecordPreview ==
  /\ cyc.pc = "place" /\ Preview
  /\ seen' = seen \cup {cyc.trade}
  /\ ApplyFill(cyc.trade, cyc.size)
  /\ cyc' = [Placed EXCEPT !.copied = Append(@, cyc.trade)]
  /\ Remembered(cyc.trade) /\ Ordered(cyc.trade)
  /\ UNCHANGED <<past, resting, lost>>

SeenIfFilled(n) == IF n > 0 THEN seen \cup {cyc.trade} ELSE seen  \* (mutant)
SeenAfter(n) == seen \cup {cyc.trade}

\* recordLiveOrderAccepted, of an order of which n matched
Accepted(n) ==
  /\ seen' = SeenAfter(n)
  /\ IF n > 0 THEN ApplyFill(cyc.trade, n) ELSE UNCHANGED <<pos, recent, today, cash>>
  /\ cyc' = [Placed EXCEPT !.copied = IF n > 0 THEN Append(@, cyc.trade) ELSE @]
  /\ Remembered(cyc.trade)
  /\ UNCHANGED past

\* The exchange answers: some of the order fills, the rest stays open or is gone.
RecordLive ==
  /\ cyc.pc = "place" /\ ~Preview
  /\ \E n \in 0..cyc.size :
       /\ Accepted(n)
       /\ \E rest \in {0, cyc.size - n} : resting' = [resting EXCEPT ![cyc.trade] = rest]
  /\ Ordered(cyc.trade)
  /\ UNCHANGED lost

\* The exchange takes the order and its answer is lost, or names no order that
\* findMatchingOpenOrder finds.  It may match at once and never be open.
LoseAnswer(r) ==
  /\ cyc.pc = "place" /\ ~Preview
  /\ lost[r].of = None /\ Alike(r, cyc.trade)
  /\ \E n \in {0, cyc.size} : lost' = [lost EXCEPT ![r] = [of |-> cyc.trade, open |-> n]]
  /\ Ordered(cyc.trade)
  /\ UNCHANGED <<seen, pos, recent, today, past, cash, resting, cyc, bought>>

\* findMatchingOpenOrder takes an order that looks like the one being placed for
\* it: one without an answer, or a resting one, whose row then keeps its trade.
RecordFound(o) ==
  /\ cyc.pc = "place" /\ ~Preview /\ Alike(o, cyc.trade)
  /\ \E n \in 0..cyc.size :
       /\ Accepted(n)
       /\ \/ /\ o \in Recoveries /\ lost[o].open > 0
             /\ lost' = [lost EXCEPT ![o].open = 0]
             /\ resting' = [resting EXCEPT ![cyc.trade] = cyc.size - n]
          \/ /\ resting[o] > 0
             /\ \E rest \in 1..resting[o] : resting' = [resting EXCEPT ![o] = rest]
             /\ UNCHANGED lost
  /\ UNCHANGED orders

\* No order is known to the cycle: the exchange refuses, no client or book is
\* there to place one, or every answer was lost.  Only a definite rejection, be
\* it of a retry, is remembered.
PlaceFails ==
  /\ cyc.pc = "place" /\ ~Preview
  /\ seen' \in {seen, seen \cup {cyc.trade}}
  /\ cyc' = Placed
  /\ UNCHANGED <<pos, recent, today, past, cash, resting, lost, bought, orders>>

\* The process dies and starts again; the books are on disk.
Crash ==
  /\ cyc.pc # "idle"
  /\ cyc' = IdleCycle
  /\ UNCHANGED <<seen, pos, recent, today, past, cash, resting, lost, bought, orders>>

-----------------------------------------------------------------------------
Decide(t) ==
  \/ Filtered(t) \/ AlreadyHandled(t) \/ LosesConflict(t) \/ BelowMinimum(t)
  \/ RiskRefuses(t) \/ Uncovered(t) \/ PlaceOrder(t)

Outside == NewDay \/ ResetKillSwitch \/ \E p \in Pairs : WindowPasses(p)

Next ==
  \/ Outside
  \/ StartCycle \/ GateCloses \/ GatePasses \/ PollLeaders \/ EndCycle \/ Crash
  \/ RecordPreview \/ RecordLive \/ PlaceFails
  \/ \E r \in Recoveries : AdoptOrphan(r) \/ LoseAnswer(r)
  \/ \E t \in Trades : Decide(t) \/ BookFill(t) \/ DropResting(t) \/ RecordFound(t)

Spec == Init /\ [][Next]_vars

-----------------------------------------------------------------------------
(* Properties                                                              *)

\* maxDailyVolumeUsd: the BUY volume of a UTC day stays within the cap of the
\* account and of each leader, also when midnight passes between the check of
\* an order and the booking of its fill.
VolumeWithinCaps ==
  /\ today.volume <= MaxVolume
  /\ \A l \in Leaders : today.byLeader[l] <= LeaderVolume[l]

\* maxOpenMarkets: never more tokens are held than allowed, though the check
\* only looks at the token of the trade at hand.
MarketsWithinCap == Cardinality(OpenMarkets) <= MaxMarkets

\* Simulated cash is overdrawn by no more than the cent the check tolerates,
\* though every fill rounds it.
CashCovers == Preview => cash >= -Cent

\* Preview: cash and the cost of the positions account for the capital and the
\* realized PnL of all days, up to the rounding to cents: half a cent of the cash
\* for every trade that was handled, and for a SELL as much again of its PnL.
PositionsCost == SumFunction([p \in Pairs |-> pos[p].cost])
Drift == cash - Capital - today.pnl - past.pnl + PositionsCost
SellsSeen == {t \in seen : ~Buys(t)}

BooksBalance ==
  LET slack == Cent * (Cardinality(seen) + Cardinality(SellsSeen))
  IN Preview => -slack <= 2 * Drift /\ 2 * Drift <= slack

\* buyDedupWindowMs: a leader's BUY of a token is ordered only when the window
\* of its last order for that token has passed.
BuyWindowRespected ==
  [][cyc.pc # "place" /\ cyc'.pc = "place" /\ Buys(cyc'.trade)
       => PairOf(cyc'.trade) \notin bought]_vars

\* The kill switch keeps every cycle from reaching the trades, whatever the
\* fills booked meanwhile do to the day's PnL.
KillSwitchHolds == today.kill => cyc.pc \in {"idle", "pending"}

Copied == {cyc.copied[i] : i \in 1..Len(cyc.copied)}
Opposite(t, u) == Trade[t].token = Trade[u].token /\ Trade[t].side # Trade[u].side

\* skip_both: a cycle never copies both sides of a token.
OneSidePerToken ==
  ConflictMode = "skip_both" => \A t, u \in Copied : ~Opposite(t, u)

Unanswered(t) == {r \in Recoveries : lost[r].of = t}

\* A trade is ordered once, and once more for every order the exchange took for
\* it without an answer; an order that was answered is the last.  What is open in
\* the books or copied is never decided on again, over cycles and crashes.
CopiedOnce ==
  /\ \A t \in Feed :
       /\ orders[t] <= 1 + Cardinality(Unanswered(t))
       /\ orders[t] > Cardinality(Unanswered(t)) \/ resting[t] > 0 => t \in seen
  /\ Copied \subseteq seen
  /\ cyc.pc = "place" => cyc.trade \notin seen

-----------------------------------------------------------------------------
(* Inductive invariant of the proofs: in preview, what the checks of an    *)
(* order found is still true when its fill is booked.                      *)

ControlInv == cyc.pc = "place" => cyc.trade \in Trades /\ cyc.size > 0

\* The order t of n shares fits what is left of each budget.
Fits(t, n) ==
  Buys(t) =>
    /\ today.volume + n * Trade[t].price <= MaxVolume
    /\ today.byLeader[Trade[t].leader] + n * Trade[t].price
         <= LeaderVolume[Trade[t].leader]
    /\ cash + Cent >= n * Trade[t].price
    /\ Cardinality(OpenMarkets) < MaxMarkets \/ Trade[t].token \in OpenMarkets

BudgetInv ==
  /\ VolumeWithinCaps /\ cash >= -Cent /\ MarketsWithinCap
  /\ \A t \in Trades : resting[t] = 0
  /\ \A r \in Recoveries : lost[r].open = 0
  /\ cyc.pc = "place" => Fits(cyc.trade, cyc.size)

=============================================================================
