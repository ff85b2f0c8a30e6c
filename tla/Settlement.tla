------------------------------ MODULE Settlement ------------------------------
(***************************************************************************)
(* How the positions of one account end: processSettlements at the start   *)
(* of a copy cycle redeems and pays resolved markets, the cycle buys and   *)
(* sells, and an unfollow request sells a leader's positions meanwhile.    *)
(*                                                                         *)
(* A position is paid in one of three ways: the wallet's redeemable tokens *)
(* (live), a REDEEM of its leader, or the market data saying it is closed. *)
(* Live, each of them first redeems the condition on chain, once a cycle.  *)
(*                                                                         *)
(* Amounts of money are left out: paid counts the shares whose sale or     *)
(* payout was added to the books (preview cash, realized PnL).             *)
(***************************************************************************)
EXTENDS Integers, FiniteSets

CONSTANTS
  Leaders, Tokens, Conditions,
  CondOf,      \* CondOf[tok]: the condition (market) the token is an outcome of
  Modes,       \* values of previewMode an account may run with
  AutoRedeem,  \* execution.autoRedeemOnChain
  MaxGot,      \* a bound on the shares bought for a leader's position
  Faults,      \* the events of AllFaults that may happen
  None

AllFaults == {"scanDown", "gammaDown", "redeemDown", "redeemLost", "closedFirst",
              "unfollow", "flush", "crash"}

ASSUME ConstantsOK ==
  /\ CondOf \in [Tokens -> Conditions]
  /\ Modes \subseteq BOOLEAN /\ AutoRedeem \in BOOLEAN
  /\ MaxGot \in Nat
  /\ Faults \subseteq AllFaults
  /\ None \notin (Leaders \X Tokens) \cup Tokens \cup Leaders
  /\ Tokens \cap (Leaders \X Tokens) = {}

VARIABLES
  preview,   \* previewMode; each mode has books of its own
  market,    \* outcome of each token
  wallet,    \* tokens the wallet holds on chain (live)
  followed,  \* the enabled leaders of the configuration
  pos,       \* positions
  unbooked,  \* shares matched whose fill is not in the books yet (live)
  got, paid, \* shares bought, and shares sold or settled, of each position
  seen,      \* seen_trades: REDEEM events, by leader and token
  gamma,     \* settlementCache: the last answer about a token's market
  done,      \* redeemedConditionsThisCycle
  cyc,       \* the running cycle
  unf        \* the unfollow request being served

vars == <<preview, market, wallet, followed, pos, unbooked, got, paid, seen, gamma, done,
          cyc, unf>>
books == <<pos, unbooked, got, paid>>
world == <<preview, market, wallet, followed>>

-----------------------------------------------------------------------------
Pairs == Leaders \X Tokens
Token(p) == p[2]
Smaller(a, b) == IF a <= b THEN a ELSE b

Resolved(tok) == market[tok] \in {"won", "lost"}
LiveRedeem == ~preview /\ AutoRedeem
OpenTokens == {tok \in Tokens : \E l \in Leaders : pos[<<l, tok>>] > 0}
PairsOf(toks) == {p \in Pairs : Token(p) \in toks}

IdleCycle == [pc |-> "idle", followed |-> {}, rows |-> {}, events |-> {},
              tokens |-> {}, cur |-> None, shares |-> 0]
NoUnfollow == [leader |-> None, left |-> {}, shares |-> [tok \in Tokens |-> 0],
               cur |-> None, sold |-> 0]
NothingAsked == [c \in Conditions |-> "ask"]

Init ==
  /\ preview \in Modes
  /\ market = [tok \in Tokens |-> "open"]
  /\ wallet = [tok \in Tokens |-> 0]
  /\ followed = Leaders
  /\ pos = [p \in Pairs |-> 0] /\ unbooked = pos /\ got = pos /\ paid = pos
  /\ seen = {}
  /\ gamma = [tok \in Tokens |-> "none"]
  /\ done = NothingAsked
  /\ cyc = IdleCycle /\ unf = NoUnfollow

-----------------------------------------------------------------------------
(* The exchange, the chain and the clock (external)                        *)

\* Trading in a market ends; its outcome may only be reported later.
Close(c) ==
  /\ "closedFirst" \in Faults
  /\ \E tok \in Tokens : CondOf[tok] = c /\ market[tok] = "open"
  /\ market' = [tok \in Tokens |-> IF CondOf[tok] = c THEN "closed" ELSE market[tok]]
  /\ UNCHANGED <<preview, wallet, followed, books, seen, gamma, done, cyc, unf>>

\* At most one of the tokens of a condition wins.
Resolve(c) ==
  /\ \A tok \in Tokens : CondOf[tok] = c => ~Resolved(tok)
  /\ \E tok \in Tokens : CondOf[tok] = c
  /\ \E winner \in Tokens \cup {None} :
       /\ winner # None => CondOf[winner] = c
       /\ market' = [tok \in Tokens |->
                       IF CondOf[tok] # c THEN market[tok]
                       ELSE IF tok = winner THEN "won" ELSE "lost"]
  /\ UNCHANGED <<preview, wallet, followed, books, seen, gamma, done, cyc, unf>>

\* Live: a BUY order of the leader's copies matches.
Match(p) ==
  /\ ~preview /\ market[Token(p)] = "open" /\ got[p] < MaxGot
  /\ wallet' = [wallet EXCEPT ![Token(p)] = @ + 1]
  /\ got' = [got EXCEPT ![p] = @ + 1]
  /\ unbooked' = [unbooked EXCEPT ![p] = @ + 1]
  /\ UNCHANGED <<preview, market, followed, pos, paid, seen, gamma, done, cyc, unf>>

\* SETTLEMENT_CACHE_TTL_MS pass; not between an answer and its use.
CacheExpires(tok) ==
  /\ gamma[tok] # "none" /\ cyc.cur # tok
  /\ gamma' = [gamma EXCEPT ![tok] = "none"]
  /\ UNCHANGED <<world, books, seen, done, cyc, unf>>

Crash ==
  /\ "crash" \in Faults
  /\ cyc' = IdleCycle /\ unf' = NoUnfollow
  /\ gamma' = [tok \in Tokens |-> "none"] /\ done' = NothingAsked
  /\ UNCHANGED <<world, books, seen>>

-----------------------------------------------------------------------------
(* The cycle before and after settlement                                   *)

StartCycle ==
  /\ cyc.pc = "idle"
  /\ cyc' = [IdleCycle EXCEPT !.pc = "pending", !.followed = followed]
  /\ UNCHANGED <<world, books, seen, gamma, done, unf>>

\* A fill is booked: by the pending pass or with its order, or by a flush of
\* the pending orders while a cycle runs.
Book(p) ==
  /\ cyc.pc \in {"pending", "copy"} \/ "flush" \in Faults
  /\ unbooked[p] > 0
  /\ pos' = [pos EXCEPT ![p] = @ + unbooked[p]]
  /\ unbooked' = [unbooked EXCEPT ![p] = 0]
  /\ UNCHANGED <<world, got, paid, seen, gamma, done, cyc, unf>>

\* Preview orders fill at once, whatever has become of the market.
PreviewBuy(p) ==
  /\ preview /\ cyc.pc = "copy" /\ p[1] \in cyc.followed /\ got[p] < MaxGot
  /\ pos' = [pos EXCEPT ![p] = @ + 1]
  /\ got' = [got EXCEPT ![p] = @ + 1]
  /\ UNCHANGED <<world, unbooked, paid, seen, gamma, done, cyc, unf>>

PreviewSell(p) ==
  /\ preview /\ cyc.pc = "copy" /\ p[1] \in cyc.followed /\ pos[p] > 0
  /\ pos' = [pos EXCEPT ![p] = @ - 1]
  /\ paid' = [paid EXCEPT ![p] = @ + 1]
  /\ UNCHANGED <<world, unbooked, got, seen, gamma, done, cyc, unf>>

\* Live: the position covers the SELL, and the order fills.
LiveSell(p) ==
  /\ ~preview /\ cyc.pc = "copy" /\ p[1] \in cyc.followed /\ pos[p] > 0
  /\ market[Token(p)] = "open" /\ wallet[Token(p)] > 0
  /\ wallet' = [wallet EXCEPT ![Token(p)] = @ - 1]
  /\ cyc' = [cyc EXCEPT !.pc = "sold", !.cur = p]
  /\ UNCHANGED <<preview, market, followed, books, seen, gamma, done, unf>>

\* applyCopyFill of a live SELL: no more is sold than the position holds.
SoldOf(p, n) == Smaller(pos[p], n)
SellFill(p, n) ==
  /\ pos' = [pos EXCEPT ![p] = @ - SoldOf(p, n)]
  /\ paid' = [paid EXCEPT ![p] = @ + SoldOf(p, n)]

RecordSell ==
  /\ cyc.pc = "sold"
  /\ SellFill(cyc.cur, 1)
  /\ cyc' = [cyc EXCEPT !.pc = "copy", !.cur = None]
  /\ UNCHANGED <<world, unbooked, got, seen, gamma, done, unf>>

EndCycle ==
  /\ cyc.pc = "copy"
  /\ cyc' = IdleCycle
  /\ UNCHANGED <<world, books, seen, gamma, done, unf>>

-----------------------------------------------------------------------------
(* processSettlements                                                      *)

\* recordRedeemSettlement for the positions P, paying n[p] shares of p.
KeepPosition(P, n) ==  \* (mutant) the row stays
  /\ paid' = [p \in Pairs |-> IF p \in P THEN paid[p] + n[p] ELSE paid[p]]
  /\ UNCHANGED pos
Settle(P, n) ==
  /\ paid' = [p \in Pairs |-> IF p \in P /\ pos[p] > 0 THEN paid[p] + n[p] ELSE paid[p]]
  /\ pos' = [p \in Pairs |-> IF p \in P THEN 0 ELSE pos[p]]

BeginSettling ==
  /\ cyc.pc = "pending"
  /\ done' = NothingAsked
  /\ cyc' = IF LiveRedeem /\ OpenTokens # {}
            THEN [cyc EXCEPT !.pc = "scan", !.rows = OpenTokens]
            ELSE [cyc EXCEPT !.pc = "feed"]
  /\ UNCHANGED <<world, books, seen, gamma, unf>>

\* The wallet's redeemable positions, among the tokens tracked before asking.
ScanAnswers ==
  /\ cyc.pc = "scan"
  /\ \E down \in BOOLEAN :
       /\ down => "scanDown" \in Faults
       /\ cyc' = [cyc EXCEPT !.pc = "rows",
                    !.rows = IF down THEN {}
                             ELSE {tok \in @ : wallet[tok] > 0 /\ Resolved(tok)}]
  /\ UNCHANGED <<world, books, seen, gamma, done, unf>>

\* What the cycle waits for when it redeems c.
Awaits(c) ==
  /\ done[c] = "ask"
  /\ \/ cyc.pc = "rows" /\ c \in {CondOf[tok] : tok \in cyc.rows}
     \/ cyc.pc = "event" /\ c = CondOf[Token(cyc.cur)]
     \/ LiveRedeem /\ cyc.pc = "tokens"
          /\ \E tok \in cyc.tokens : /\ cyc.cur \in {None, tok}
                                     /\ gamma[tok] = "settled" /\ c = CondOf[tok]

TokensIn(c) == {tok \in Tokens : CondOf[tok] = c}
Empty(c) == \A tok \in TokensIn(c) : wallet[tok] = 0
Emptied(c) == [tok \in Tokens |-> IF CondOf[tok] = c THEN 0 ELSE wallet[tok]]

\* (mutant) an error about nothing to redeem counts as a failure
NeverBenign(c) == FALSE
Benign(c) == Empty(c)

\* redeemConditionOnChain succeeds, or finds nothing to redeem.
RedeemDone(c) ==
  /\ Awaits(c)
  /\ Benign(c) \/ (~Empty(c) /\ \A tok \in TokensIn(c) : Resolved(tok))
  /\ wallet' = Emptied(c)
  /\ done' = [done EXCEPT ![c] = "ok"]
  /\ UNCHANGED <<preview, market, followed, books, seen, gamma, cyc, unf>>

\* It fails: the market is not resolved on chain, the relayer refuses, or the
\* transaction is mined and waiting for it fails.
RedeemFails(c) ==
  /\ Awaits(c)
  /\ \/ ~Benign(c) /\ (\E tok \in TokensIn(c) : ~Resolved(tok)) /\ UNCHANGED wallet
     \/ "redeemDown" \in Faults /\ UNCHANGED wallet
     \/ /\ "redeemLost" \in Faults
        /\ \A tok \in TokensIn(c) : Resolved(tok)
        /\ wallet' = Emptied(c)
  /\ done' = [done EXCEPT ![c] = "failed"]
  /\ UNCHANGED <<preview, market, followed, books, seen, gamma, cyc, unf>>

Attempted(c) == done[c] # "ask"  \* (mutant) the result of the redeem is ignored
Redeemed(c) == done[c] = "ok"

\* processOnChainRedeemableScan: the rows of c are paid, or left alone.
RowsDone(c) ==
  /\ cyc.pc = "rows" /\ done[c] # "ask"
  /\ LET rows == {tok \in cyc.rows : CondOf[tok] = c}
     IN /\ rows # {}
        /\ cyc' = [cyc EXCEPT !.rows = @ \ rows]
        /\ IF Redeemed(c) THEN Settle(PairsOf(rows), pos) ELSE UNCHANGED <<pos, paid>>
  /\ UNCHANGED <<world, unbooked, got, seen, gamma, done, unf>>

ScanEnds ==
  /\ cyc.pc = "rows" /\ cyc.rows = {}
  /\ cyc' = [cyc EXCEPT !.pc = "feed"]
  /\ UNCHANGED <<world, books, seen, gamma, done, unf>>

\* The leaders' REDEEM activity: whatever of it the feed shows today.
PollRedeems ==
  /\ cyc.pc = "feed"
  /\ \E es \in SUBSET {p \in Pairs : p[1] \in cyc.followed /\ Resolved(Token(p))} :
       cyc' = [cyc EXCEPT !.pc = "events", !.events = es]
  /\ UNCHANGED <<world, books, seen, gamma, done, unf>>

\* Nothing to do for a REDEEM: known, or no shares of ours, or no redeem.
EventSkipped(p) ==
  /\ cyc.pc = "events" /\ p \in cyc.events
  /\ \/ p \in seen /\ UNCHANGED seen
     \/ p \notin seen /\ pos[p] = 0 /\ seen' = seen \cup {p}
     \/ /\ p \notin seen /\ pos[p] > 0 /\ LiveRedeem
        /\ done[CondOf[Token(p)]] = "failed"
        /\ UNCHANGED seen
  /\ cyc' = [cyc EXCEPT !.events = @ \ {p}]
  /\ UNCHANGED <<world, books, gamma, done, unf>>

\* Paid at once: in preview, or when the condition was redeemed before.
EventPaid(p) ==
  /\ cyc.pc = "events" /\ p \in cyc.events \ seen /\ pos[p] > 0
  /\ LiveRedeem => Redeemed(CondOf[Token(p)])
  /\ Settle({p}, pos)
  /\ seen' = seen \cup {p}
  /\ cyc' = [cyc EXCEPT !.events = @ \ {p}]
  /\ UNCHANGED <<world, unbooked, got, gamma, done, unf>>

\* The shares are read, and the redeem is asked for.
EventAsks(p) ==
  /\ cyc.pc = "events" /\ p \in cyc.events \ seen /\ pos[p] > 0
  /\ LiveRedeem /\ done[CondOf[Token(p)]] = "ask"
  /\ cyc' = [cyc EXCEPT !.pc = "event", !.cur = p, !.shares = pos[p]]
  /\ UNCHANGED <<world, books, seen, gamma, done, unf>>

\* The payout is of the shares read before; the row is deleted as it is now.
EventDone ==
  /\ cyc.pc = "event" /\ done[CondOf[Token(cyc.cur)]] # "ask"
  /\ IF Redeemed(CondOf[Token(cyc.cur)]) /\ pos[cyc.cur] > 0
     THEN /\ Settle({cyc.cur}, [p \in Pairs |-> cyc.shares])
          /\ seen' = seen \cup {cyc.cur}
     ELSE UNCHANGED <<pos, paid, seen>>
  /\ cyc' = [cyc EXCEPT !.pc = "events", !.events = @ \ {cyc.cur}, !.cur = None,
                        !.shares = 0]
  /\ UNCHANGED <<world, unbooked, got, gamma, done, unf>>

ListTokens ==
  /\ cyc.pc = "events" /\ cyc.events = {}
  /\ cyc' = [cyc EXCEPT !.pc = "tokens", !.tokens = OpenTokens]
  /\ UNCHANGED <<world, books, seen, gamma, done, unf>>

\* fetchTokenSettlement: a market that is closed counts as settled.
View(tok) == IF market[tok] = "open" THEN "live" ELSE "settled"

Turn(tok) == cyc.pc = "tokens" /\ tok \in cyc.tokens /\ cyc.cur \in {None, tok}
TokenDone(tok) == cyc' = [cyc EXCEPT !.tokens = @ \ {tok}, !.cur = None]

\* No market found, or an error, is cached like an answer.
AskGamma(tok) ==
  /\ Turn(tok) /\ cyc.cur = None /\ gamma[tok] = "none"
  /\ gamma' = [gamma EXCEPT ![tok] = View(tok)]
  /\ cyc' = [cyc EXCEPT !.cur = tok]
  /\ UNCHANGED <<world, books, seen, done, unf>>

GammaDown(tok) ==
  /\ "gammaDown" \in Faults
  /\ Turn(tok) /\ cyc.cur = None /\ gamma[tok] = "none"
  /\ gamma' = [gamma EXCEPT ![tok] = "null"]
  /\ cyc' = [cyc EXCEPT !.cur = tok]
  /\ UNCHANGED <<world, books, seen, done, unf>>

TokenKept(tok) ==
  /\ Turn(tok)
  /\ \/ gamma[tok] \in {"null", "live"}
     \/ gamma[tok] = "settled" /\ LiveRedeem /\ done[CondOf[tok]] = "failed"
  /\ TokenDone(tok)
  /\ UNCHANGED <<world, books, seen, gamma, done, unf>>

\* recordTokenSettlement: the positions of every leader in the token.
TokenSettled(tok) ==
  /\ Turn(tok) /\ gamma[tok] = "settled"
  /\ LiveRedeem => Redeemed(CondOf[tok])
  /\ Settle(PairsOf({tok}), pos)
  /\ TokenDone(tok)
  /\ UNCHANGED <<world, unbooked, got, seen, gamma, done, unf>>

SettlingEnds ==
  /\ cyc.pc = "tokens" /\ cyc.tokens = {}
  /\ \E pc \in {"copy", "idle"} :  \* canTrade allows, or ends the cycle
       cyc' = IF pc = "idle" THEN IdleCycle ELSE [cyc EXCEPT !.pc = pc]
  /\ UNCHANGED <<world, books, seen, gamma, done, unf>>

-----------------------------------------------------------------------------
(* deleteLeader: liquidateLeaderPositions, then the configuration          *)

StartUnfollow(l) ==
  /\ "unfollow" \in Faults
  /\ unf.leader = None /\ l \in followed
  /\ unf' = [NoUnfollow EXCEPT !.leader = l,
               !.left = {tok \in Tokens : pos[<<l, tok>>] > 0},
               !.shares = [tok \in Tokens |-> pos[<<l, tok>>]]]
  /\ UNCHANGED <<world, books, seen, gamma, done, cyc>>

Unfollowing(tok) == unf.leader # None /\ unf.cur = None /\ tok \in unf.left

\* No price, too small, no balance, or the order is refused.
UnfollowSkips(tok) ==
  /\ Unfollowing(tok)
  /\ unf' = [unf EXCEPT !.left = @ \ {tok}]
  /\ UNCHANGED <<world, books, seen, gamma, done, cyc>>

\* Preview: the shares read at the start are sold, and the cash added.
UnfollowSells(tok) ==
  /\ Unfollowing(tok) /\ preview
  /\ LET p == <<unf.leader, tok>>
     IN /\ pos' = [pos EXCEPT ![p] = @ - SoldOf(p, unf.shares[tok])]
        /\ paid' = [paid EXCEPT ![p] = @ + unf.shares[tok]]
  /\ unf' = [unf EXCEPT !.left = @ \ {tok}]
  /\ UNCHANGED <<world, unbooked, got, seen, gamma, done, cyc>>

\* Live: the order fills, up to what the wallet holds.
UnfollowFills(tok) ==
  /\ Unfollowing(tok) /\ ~preview /\ market[tok] = "open"
  /\ \E n \in 1..Smaller(unf.shares[tok], wallet[tok]) :
       /\ wallet' = [wallet EXCEPT ![tok] = @ - n]
       /\ unf' = [unf EXCEPT !.left = @ \ {tok}, !.cur = tok, !.sold = n]
  /\ UNCHANGED <<preview, market, followed, books, seen, gamma, done, cyc>>

UnfollowRecords ==
  /\ unf.cur # None
  /\ SellFill(<<unf.leader, unf.cur>>, unf.sold)
  /\ unf' = [unf EXCEPT !.cur = None, !.sold = 0]
  /\ UNCHANGED <<world, unbooked, got, seen, gamma, done, cyc>>

UnfollowEnds ==
  /\ unf.leader # None /\ unf.cur = None /\ unf.left = {}
  /\ followed' = followed \ {unf.leader}
  /\ unf' = NoUnfollow
  /\ UNCHANGED <<preview, market, wallet, books, seen, gamma, done, cyc>>

-----------------------------------------------------------------------------
Events ==
  \/ PollRedeems \/ EventDone \/ ListTokens
  \/ \E p \in Pairs : EventSkipped(p) \/ EventPaid(p) \/ EventAsks(p)

Settling ==
  \/ BeginSettling \/ ScanAnswers \/ ScanEnds \/ Events \/ SettlingEnds
  \/ \E c \in Conditions : RedeemDone(c) \/ RedeemFails(c) \/ RowsDone(c)
  \/ \E tok \in Tokens :
       AskGamma(tok) \/ GammaDown(tok) \/ TokenKept(tok) \/ TokenSettled(tok)

Copying ==
  \/ StartCycle \/ RecordSell \/ EndCycle
  \/ \E p \in Pairs : Book(p) \/ PreviewBuy(p) \/ PreviewSell(p) \/ LiveSell(p)

Unfollow ==
  \/ UnfollowRecords \/ UnfollowEnds
  \/ \E l \in Leaders : StartUnfollow(l)
  \/ \E tok \in Tokens : UnfollowSkips(tok) \/ UnfollowSells(tok) \/ UnfollowFills(tok)

World ==
  \/ \E c \in Conditions : Close(c) \/ Resolve(c)
  \/ \E p \in Pairs : Match(p)
  \/ \E tok \in Tokens : CacheExpires(tok)

Next == Copying \/ Settling \/ Unfollow \/ World \/ Crash

Spec == Init /\ [][Next]_vars

\* The poll timer starts cycles and a cycle runs on; caches age; now and then
\* the market data and the relayer both answer within one cycle.
FairSpec ==
  /\ Spec
  /\ WF_vars(Copying \/ Settling)
  /\ \A tok \in Tokens : WF_vars(CacheExpires(tok)) /\ SF_vars(AskGamma(tok))
  /\ \A tok \in Tokens : SF_vars(TokenSettled(tok))
  /\ \A c \in Conditions : SF_vars(RedeemDone(c))

-----------------------------------------------------------------------------
(* Properties                                                              *)

\* Every share bought is held, waits to be booked, or was paid for once.
SharesPaidOnce == \A p \in Pairs : got[p] = pos[p] + unbooked[p] + paid[p]

\* Live with auto redeem, settlement clears a position only when the wallet's
\* tokens were redeemed, also when a redeem failed earlier in the cycle.
ChainFirst ==
  [][\A p \in Pairs :
       LiveRedeem /\ cyc.pc \in {"rows", "events", "event", "tokens"} /\ cyc' # cyc
         /\ pos[p] > 0 /\ pos'[p] = 0
       => wallet[Token(p)] = 0]_vars

\* A position in a resolved market is eventually paid, also when its leader is
\* gone, a redeem was lost on the way, or the REDEEM was seen too early.
ResolvedGetsPaid == \A p \in Pairs : pos[p] > 0 /\ Resolved(Token(p)) ~> pos[p] = 0
=============================================================================
