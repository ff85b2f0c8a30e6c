---------------------------- MODULE SettlementProofs ----------------------------
(***************************************************************************)
(* Proofs about Settlement, for any leaders, markets and faults: its       *)
(* types; that live settlement clears a position only after its tokens     *)
(* were redeemed; and, while nothing unfollows or flushes during a cycle,  *)
(* that every share is paid for once.                                      *)
(***************************************************************************)
EXTENDS Settlement, TLAPS

-----------------------------------------------------------------------------
(* Types                                                                   *)

Amounts == [Pairs -> Nat]
Phases == {"idle", "pending", "scan", "rows", "feed", "events", "event", "tokens",
           "copy", "sold"}
Cycle == [pc : Phases, followed : SUBSET Leaders, rows : SUBSET Tokens,
          events : SUBSET Pairs, tokens : SUBSET Tokens,
          cur : Pairs \cup Tokens \cup {None}, shares : Nat]
Request == [leader : Leaders \cup {None}, left : SUBSET Tokens,
            shares : [Tokens -> Nat], cur : Tokens \cup {None}, sold : Nat]

WorldOK ==
  /\ preview \in BOOLEAN
  /\ market \in [Tokens -> {"open", "closed", "won", "lost"}]
  /\ wallet \in [Tokens -> Nat]
  /\ followed \subseteq Leaders

BooksOK == pos \in Amounts /\ unbooked \in Amounts /\ got \in Amounts /\ paid \in Amounts

MemoryOK ==
  /\ seen \subseteq Pairs
  /\ gamma \in [Tokens -> {"none", "null", "live", "settled"}]
  /\ done \in [Conditions -> {"ask", "ok", "failed"}]

\* A cycle that sells or waits for an event's redeem has a position at hand, a
\* request that sold something has a leader.
CycleOK == cyc \in Cycle /\ (cyc.pc \in {"sold", "event"} => cyc.cur \in Pairs)
UnfollowOK == unf \in Request /\ (unf.cur # None => unf.leader # None)

TypeOK == WorldOK /\ BooksOK /\ MemoryOK /\ CycleOK /\ UnfollowOK

-----------------------------------------------------------------------------
(* The chain                                                               *)

\* The tokens of a market close together.
MarketInv ==
  \A t, u \in Tokens :
    CondOf[t] = CondOf[u] => (market[t] = "open" <=> market[u] = "open")

Ended(tok) == market[tok] # "open"

\* What the cycle works from names markets that have ended.
EndedInv ==
  /\ cyc.pc = "rows" => \A tok \in cyc.rows : Ended(tok)
  /\ \A p \in cyc.events : Ended(Token(p))
  /\ cyc.pc = "event" => Ended(Token(cyc.cur))
  /\ \A tok \in Tokens : gamma[tok] = "settled" => Ended(tok)

\* A redeemed market has ended and the wallet holds nothing of it, nor will it.
RedeemedInv ==
  \A c \in Conditions : done[c] = "ok" =>
    \A tok \in TokensIn(c) : Ended(tok) /\ wallet[tok] = 0

ChainInv == MarketInv /\ EndedInv /\ RedeemedInv

-----------------------------------------------------------------------------
(* The books                                                               *)

\* Nothing moves a position while the redeem of an event is waited for.
EventInv == cyc.pc = "event" => cyc.shares = pos[cyc.cur]

BooksInv == unf = NoUnfollow /\ EventInv /\ SharesPaidOnce

-----------------------------------------------------------------------------
(* What moves shares                                                       *)

\* A sale of the books takes from a position what it adds to paid.
LEMMA SellMoves ==
  ASSUME BooksOK, NEW p \in Pairs, NEW n \in Nat, SellFill(p, n)
  PROVE  /\ pos' \in Amounts /\ paid' \in Amounts
         /\ \A q \in Pairs : pos'[q] + paid'[q] = pos[q] + paid[q]
<1> DEFINE s == SoldOf(p, n)
<1>1. pos \in Amounts /\ paid \in Amounts /\ pos[p] \in Nat /\ paid[p] \in Nat
  BY DEF BooksOK, Amounts
<1>2. s \in Nat /\ pos[p] - s \in Nat
  BY <1>1 DEF SoldOf, Smaller
<1>3. pos' = [pos EXCEPT ![p] = @ - s] /\ paid' = [paid EXCEPT ![p] = @ + s]
  BY DEF SellFill
<1> HIDE DEF s
<1>4. pos' \in Amounts /\ paid' \in Amounts
  BY <1>1, <1>2, <1>3 DEF Amounts
<1>5. ASSUME NEW q \in Pairs PROVE pos'[q] + paid'[q] = pos[q] + paid[q]
  BY <1>1, <1>2, <1>3 DEF Amounts
<1>6. QED BY <1>4, <1>5

\* A settlement that pays each position what it holds does the same.
LEMMA SettleMoves ==
  ASSUME BooksOK, NEW P \in SUBSET Pairs, NEW n \in Amounts, Settle(P, n)
  PROVE  /\ pos' \in Amounts /\ paid' \in Amounts
         /\ (\A p \in P : n[p] = pos[p]) =>
              \A q \in Pairs : pos'[q] + paid'[q] = pos[q] + paid[q]
<1>1. \A q \in Pairs : pos[q] \in Nat /\ paid[q] \in Nat /\ n[q] \in Nat
  BY DEF BooksOK, Amounts
<1>2. pos' \in Amounts /\ paid' \in Amounts
  BY <1>1 DEF Settle, Amounts
<1>3. ASSUME \A p \in P : n[p] = pos[p], NEW q \in Pairs
      PROVE  pos'[q] + paid'[q] = pos[q] + paid[q]
  BY <1>1, <1>3 DEF Settle
<1>4. QED BY <1>2, <1>3

LEMMA PairParts ==
  ASSUME NEW p \in Pairs
  PROVE  p[1] \in Leaders /\ Token(p) \in Tokens /\ CondOf[Token(p)] \in Conditions
  BY ConstantsOK DEF Pairs, Token

-----------------------------------------------------------------------------
(* Type correctness                                                        *)

LEMMA CycleTypes ==
  ASSUME CycleOK
  PROVE  /\ IdleCycle \in Cycle /\ NoUnfollow \in Request /\ NothingAsked \in
              [Conditions -> {"ask", "ok", "failed"}]
         /\ cyc \in Cycle
  BY DEF CycleOK, IdleCycle, Cycle, Phases, NoUnfollow, Request, NothingAsked

LEMMA TypeInit == Init => TypeOK
<1> SUFFICES ASSUME Init PROVE TypeOK
  OBVIOUS
<1>1. WorldOK
  BY ConstantsOK DEF Init, WorldOK
<1>2. BooksOK
  BY DEF Init, BooksOK, Amounts
<1>3. MemoryOK
  BY DEF Init, MemoryOK, NothingAsked
<1>4. CycleOK
  BY DEF Init, CycleOK, IdleCycle, Cycle, Phases
<1>5. UnfollowOK
  BY DEF Init, UnfollowOK, NoUnfollow, Request
<1>6. QED BY <1>1, <1>2, <1>3, <1>4, <1>5 DEF TypeOK

LEMMA OpenTokensType == OpenTokens \subseteq Tokens
  BY DEF OpenTokens

\* Copying: the cycle around settlement.
LEMMA TypeCopying ==
  ASSUME TypeOK, Copying
  PROVE  TypeOK'
<1>1. WorldOK /\ BooksOK /\ MemoryOK /\ CycleOK /\ UnfollowOK
  BY DEF TypeOK
<1>2. cyc \in Cycle /\ IdleCycle \in Cycle
  BY <1>1, CycleTypes
<1>3. CASE StartCycle
  <2>1. CycleOK'
    BY <1>1, <1>2, <1>3 DEF StartCycle, CycleOK, Cycle, Phases, WorldOK
  <2>2. QED BY <1>1, <1>3, <2>1 DEF StartCycle, world, books, TypeOK, WorldOK, BooksOK,
               MemoryOK, UnfollowOK
<1>4. CASE RecordSell
  <2>1. cyc.cur \in Pairs
    BY <1>1, <1>4 DEF RecordSell, CycleOK
  <2>2. pos' \in Amounts /\ paid' \in Amounts
    BY <1>1, <1>4, <2>1, SellMoves DEF RecordSell
  <2>3. CycleOK'
    BY <1>2, <1>4 DEF RecordSell, CycleOK, Cycle, Phases
  <2>4. QED BY <1>1, <1>4, <2>2, <2>3 DEF RecordSell, world, TypeOK, WorldOK, BooksOK,
               MemoryOK, UnfollowOK
<1>5. CASE EndCycle
  <2>1. CycleOK'
    BY <1>2, <1>5 DEF EndCycle, CycleOK, IdleCycle
  <2>2. QED BY <1>1, <1>5, <2>1 DEF EndCycle, world, books, TypeOK, WorldOK, BooksOK,
               MemoryOK, UnfollowOK
<1>6. ASSUME NEW p \in Pairs, Book(p) \/ PreviewBuy(p) \/ PreviewSell(p)
      PROVE  TypeOK'
  <2>1. BooksOK'
    BY <1>1, <1>6 DEF Book, PreviewBuy, PreviewSell, BooksOK, Amounts
  <2>2. QED BY <1>1, <1>6, <2>1 DEF Book, PreviewBuy, PreviewSell, world, TypeOK, WorldOK,
               MemoryOK, CycleOK, UnfollowOK
<1>7. ASSUME NEW p \in Pairs, LiveSell(p) PROVE TypeOK'
  <2>1. Token(p) \in Tokens
    BY PairParts
  <2>2. WorldOK'
    BY <1>1, <1>7, <2>1 DEF LiveSell, WorldOK
  <2>3. CycleOK'
    BY <1>2, <1>7 DEF LiveSell, CycleOK, Cycle, Phases
  <2>4. QED BY <1>1, <1>7, <2>2, <2>3 DEF LiveSell, books, TypeOK, BooksOK, MemoryOK,
               UnfollowOK
<1>8. QED BY <1>3, <1>4, <1>5, <1>6, <1>7 DEF Copying

\* The steps of settlement that only move the cycle on or ask the market data.
LEMMA TypeAsking ==
  ASSUME TypeOK,
         \/ BeginSettling \/ ScanAnswers \/ ScanEnds \/ SettlingEnds
         \/ PollRedeems \/ ListTokens
         \/ \E p \in Pairs : EventSkipped(p) \/ EventAsks(p)
         \/ \E tok \in Tokens : AskGamma(tok) \/ GammaDown(tok) \/ TokenKept(tok)
  PROVE  TypeOK'
<1>1. WorldOK /\ BooksOK /\ MemoryOK /\ CycleOK /\ UnfollowOK
  BY DEF TypeOK
<1>2. cyc \in Cycle /\ IdleCycle \in Cycle /\ OpenTokens \subseteq Tokens
      /\ NothingAsked \in [Conditions -> {"ask", "ok", "failed"}]
  BY <1>1, CycleTypes, OpenTokensType
<1>3. WorldOK' /\ BooksOK' /\ UnfollowOK'
  BY <1>1 DEF BeginSettling, ScanAnswers, ScanEnds, SettlingEnds, PollRedeems, ListTokens,
     EventSkipped, EventAsks, AskGamma, GammaDown, TokenKept, world, books, WorldOK,
     BooksOK, UnfollowOK
<1>4. CASE BeginSettling
  <2>1. CycleOK'
    BY <1>2, <1>4 DEF BeginSettling, CycleOK, Cycle, Phases
  <2>2. MemoryOK'
    BY <1>1, <1>2, <1>4 DEF BeginSettling, MemoryOK
  <2>3. QED BY <1>3, <2>1, <2>2 DEF TypeOK
<1>5. CASE ScanAnswers
  <2>1. PICK rows \in SUBSET cyc.rows :
          cyc' = [cyc EXCEPT !.pc = "rows", !.rows = rows]
    BY <1>5 DEF ScanAnswers
  <2>2. CycleOK'
    BY <1>2, <2>1 DEF CycleOK, Cycle, Phases
  <2>3. QED BY <1>1, <1>3, <1>5, <2>2 DEF ScanAnswers, MemoryOK, TypeOK
<1>6. CASE ScanEnds
  <2>1. CycleOK'
    BY <1>2, <1>6 DEF ScanEnds, CycleOK, Cycle, Phases
  <2>2. QED BY <1>1, <1>3, <1>6, <2>1 DEF ScanEnds, MemoryOK, TypeOK
<1>7. CASE SettlingEnds
  <2>1. CycleOK'
    BY <1>2, <1>7 DEF SettlingEnds, CycleOK, Cycle, Phases, IdleCycle
  <2>2. QED BY <1>1, <1>3, <1>7, <2>1 DEF SettlingEnds, MemoryOK, TypeOK
<1>8. CASE PollRedeems
  <2>1. CycleOK'
    BY <1>2, <1>8 DEF PollRedeems, CycleOK, Cycle, Phases
  <2>2. QED BY <1>1, <1>3, <1>8, <2>1 DEF PollRedeems, MemoryOK, TypeOK
<1>9. CASE ListTokens
  <2>1. CycleOK'
    BY <1>2, <1>9 DEF ListTokens, CycleOK, Cycle, Phases
  <2>2. QED BY <1>1, <1>3, <1>9, <2>1 DEF ListTokens, MemoryOK, TypeOK
<1>10. ASSUME NEW p \in Pairs, EventSkipped(p) PROVE TypeOK'
  <2>1. CycleOK'
    BY <1>2, <1>10 DEF EventSkipped, CycleOK, Cycle, Phases
  <2>2. QED BY <1>1, <1>3, <1>10, <2>1 DEF EventSkipped, MemoryOK, TypeOK
<1>11. ASSUME NEW p \in Pairs, EventAsks(p) PROVE TypeOK'
  <2>1. pos[p] \in Nat
    BY <1>1 DEF BooksOK, Amounts
  <2>2. CycleOK'
    BY <1>2, <1>11, <2>1 DEF EventAsks, CycleOK, Cycle, Phases
  <2>3. QED BY <1>1, <1>3, <1>11, <2>2 DEF EventAsks, MemoryOK, TypeOK
<1>12. ASSUME NEW tok \in Tokens, AskGamma(tok) \/ GammaDown(tok) PROVE TypeOK'
  <2>1. CycleOK'
    BY <1>2, <1>12 DEF AskGamma, GammaDown, Turn, CycleOK, Cycle, Phases
  <2>2. MemoryOK'
    BY <1>1, <1>12 DEF AskGamma, GammaDown, View, MemoryOK
  <2>3. QED BY <1>3, <2>1, <2>2 DEF TypeOK
<1>13. ASSUME NEW tok \in Tokens, TokenKept(tok) PROVE TypeOK'
  <2>1. CycleOK'
    BY <1>2, <1>13 DEF TokenKept, TokenDone, Turn, CycleOK, Cycle, Phases
  <2>2. QED BY <1>1, <1>3, <1>13, <2>1 DEF TokenKept, MemoryOK, TypeOK
<1>14. QED BY <1>4, <1>5, <1>6, <1>7, <1>8, <1>9, <1>10, <1>11, <1>12, <1>13

\* The redeem on chain.
LEMMA TypeRedeem ==
  ASSUME TypeOK, NEW c \in Conditions, RedeemDone(c) \/ RedeemFails(c)
  PROVE  TypeOK'
<1>1. WorldOK /\ BooksOK /\ MemoryOK /\ CycleOK /\ UnfollowOK
  BY DEF TypeOK
<1>2. wallet' \in [Tokens -> Nat]
  BY <1>1 DEF RedeemDone, RedeemFails, Emptied, WorldOK
<1>3. done' \in [Conditions -> {"ask", "ok", "failed"}]
  BY <1>1 DEF RedeemDone, RedeemFails, MemoryOK
<1>4. QED BY <1>1, <1>2, <1>3 DEF RedeemDone, RedeemFails, books, TypeOK, WorldOK, BooksOK,
             MemoryOK, CycleOK, UnfollowOK

\* The four ways a position is settled: of the positions P, n[p] shares are paid.
SettlesEach(P, n) ==
  /\ P \subseteq Pairs /\ n \in Amounts /\ Settle(P, n)
  /\ UNCHANGED <<world, unbooked, got, gamma, done, unf>>
  /\ cyc' \in Cycle /\ cyc'.pc \notin {"sold", "event"}
  /\ seen' \subseteq Pairs

LEMMA RowsSettle ==
  ASSUME TypeOK, NEW c \in Conditions, RowsDone(c), Redeemed(c)
  PROVE  SettlesEach(PairsOf({tok \in cyc.rows : CondOf[tok] = c}), pos)
<1>1. cyc \in Cycle /\ cyc.pc = "rows" /\ pos \in Amounts /\ seen \subseteq Pairs
  BY CycleTypes DEF TypeOK, BooksOK, MemoryOK, RowsDone
<1>2. cyc' = [cyc EXCEPT !.rows = @ \ {tok \in cyc.rows : CondOf[tok] = c}]
  BY DEF RowsDone
<1>3. cyc' \in Cycle /\ cyc'.pc = "rows"
  BY <1>1, <1>2 DEF Cycle
<1>4. QED BY <1>1, <1>3 DEF RowsDone, SettlesEach, PairsOf

LEMMA EventSettles ==
  ASSUME TypeOK, NEW p \in Pairs, EventPaid(p)
  PROVE  SettlesEach({p}, pos)
<1>1. cyc \in Cycle /\ cyc.pc = "events" /\ pos \in Amounts /\ seen \subseteq Pairs
  BY CycleTypes DEF TypeOK, BooksOK, MemoryOK, EventPaid
<1>2. cyc' \in Cycle /\ cyc'.pc = "events"
  BY <1>1 DEF EventPaid, Cycle
<1>3. QED BY <1>1, <1>2 DEF EventPaid, SettlesEach

LEMMA AnswerSettles ==
  ASSUME TypeOK, EventDone, Redeemed(CondOf[Token(cyc.cur)]), pos[cyc.cur] > 0
  PROVE  SettlesEach({cyc.cur}, [p \in Pairs |-> cyc.shares])
<1>1. /\ cyc \in Cycle /\ cyc.pc = "event" /\ cyc.cur \in Pairs
      /\ pos \in Amounts /\ seen \subseteq Pairs
  BY CycleTypes DEF TypeOK, BooksOK, MemoryOK, EventDone, CycleOK
<1>2. cyc.shares \in Nat
  BY <1>1 DEF Cycle
<1>3. cyc' \in Cycle /\ cyc'.pc = "events"
  BY <1>1 DEF EventDone, Cycle, Phases
<1>4. QED BY <1>1, <1>2, <1>3 DEF EventDone, SettlesEach, Amounts

LEMMA TokenSettles ==
  ASSUME TypeOK, NEW tok \in Tokens, TokenSettled(tok)
  PROVE  SettlesEach(PairsOf({tok}), pos)
<1>1. cyc \in Cycle /\ cyc.pc = "tokens" /\ pos \in Amounts /\ seen \subseteq Pairs
  BY CycleTypes DEF TypeOK, BooksOK, MemoryOK, TokenSettled, Turn
<1>2. cyc' \in Cycle /\ cyc'.pc = "tokens"
  BY <1>1 DEF TokenSettled, TokenDone, Cycle
<1>3. QED BY <1>1, <1>2 DEF TokenSettled, SettlesEach, PairsOf

LEMMA TypeSettles ==
  ASSUME TypeOK, NEW P, NEW n, SettlesEach(P, n)
  PROVE  TypeOK'
<1>1. WorldOK /\ BooksOK /\ MemoryOK /\ CycleOK /\ UnfollowOK
  BY DEF TypeOK
<1>2. pos' \in Amounts /\ paid' \in Amounts
  BY <1>1, SettleMoves DEF SettlesEach
<1>3. QED BY <1>1, <1>2 DEF SettlesEach, world, TypeOK, WorldOK, BooksOK, MemoryOK, CycleOK,
             UnfollowOK

\* An event or rows whose redeem did not come about are put aside.
LEMMA TypeUnpaid ==
  ASSUME TypeOK,
         \/ EventDone /\ ~(Redeemed(CondOf[Token(cyc.cur)]) /\ pos[cyc.cur] > 0)
         \/ \E c \in Conditions : RowsDone(c) /\ ~Redeemed(c)
  PROVE  TypeOK' /\ UNCHANGED <<world, books, gamma, done, seen, unf>>
<1>1. WorldOK /\ BooksOK /\ MemoryOK /\ CycleOK /\ UnfollowOK
  BY DEF TypeOK
<1>2. UNCHANGED <<world, books, gamma, done, seen, unf>>
  BY DEF EventDone, RowsDone, books
<1>3. cyc \in Cycle
  BY <1>1, CycleTypes
<1>4. CycleOK'
  <2>1. CASE EventDone
    BY <1>3, <2>1 DEF EventDone, CycleOK, Cycle, Phases
  <2>2. ASSUME NEW c \in Conditions, RowsDone(c) PROVE CycleOK'
    <3>1. cyc' = [cyc EXCEPT !.rows = @ \ {tok \in cyc.rows : CondOf[tok] = c}]
          /\ cyc.pc = "rows"
      BY <2>2 DEF RowsDone
    <3>2. QED BY <1>3, <3>1 DEF CycleOK, Cycle
  <2>3. QED BY <2>1, <2>2
<1>5. QED BY <1>1, <1>2, <1>4 DEF world, books, TypeOK, WorldOK, BooksOK, MemoryOK,
             UnfollowOK

LEMMA TypeSettling ==
  ASSUME TypeOK, Settling
  PROVE  TypeOK'
<1>1. CASE EventDone
  BY <1>1, AnswerSettles, TypeSettles, TypeUnpaid
<1>2. ASSUME NEW c \in Conditions, RowsDone(c) PROVE TypeOK'
  BY <1>2, RowsSettle, TypeSettles, TypeUnpaid
<1>3. ASSUME NEW p \in Pairs, EventPaid(p) PROVE TypeOK'
  BY <1>3, EventSettles, TypeSettles
<1>4. ASSUME NEW tok \in Tokens, TokenSettled(tok) PROVE TypeOK'
  BY <1>4, TokenSettles, TypeSettles
<1>5. QED BY <1>1, <1>2, <1>3, <1>4, TypeAsking, TypeRedeem DEF Settling, Events

LEMMA TypeUnfollow ==
  ASSUME TypeOK, Unfollow
  PROVE  TypeOK'
<1>1. WorldOK /\ BooksOK /\ MemoryOK /\ CycleOK /\ UnfollowOK
  BY DEF TypeOK
<1>2. unf \in Request /\ NoUnfollow \in Request /\ NoUnfollow.cur = None
  BY <1>1, CycleTypes DEF UnfollowOK, NoUnfollow
<1>3. CASE UnfollowRecords
  <2>1. <<unf.leader, unf.cur>> \in Pairs /\ unf.sold \in Nat
    BY <1>1, <1>2, <1>3 DEF UnfollowRecords, UnfollowOK, Request, Pairs
  <2>2. pos' \in Amounts /\ paid' \in Amounts
    BY <1>1, <1>3, <2>1, SellMoves DEF UnfollowRecords
  <2>3. UnfollowOK'
    BY <1>2, <1>3 DEF UnfollowRecords, UnfollowOK, Request
  <2>4. QED BY <1>1, <1>3, <2>2, <2>3 DEF UnfollowRecords, world, TypeOK, WorldOK, BooksOK,
               MemoryOK, CycleOK
<1>4. CASE UnfollowEnds
  BY <1>1, <1>2, <1>4 DEF UnfollowEnds, books, TypeOK, WorldOK, BooksOK, MemoryOK, CycleOK,
     UnfollowOK
<1>5. ASSUME NEW l \in Leaders, StartUnfollow(l) PROVE TypeOK'
  <2>1. [tok \in Tokens |-> pos[<<l, tok>>]] \in [Tokens -> Nat]
    BY <1>1 DEF BooksOK, Amounts, Pairs
  <2>2. unf' = [NoUnfollow EXCEPT !.leader = l,
                  !.left = {tok \in Tokens : pos[<<l, tok>>] > 0},
                  !.shares = [tok \in Tokens |-> pos[<<l, tok>>]]]
    BY <1>5 DEF StartUnfollow
  <2>3. UnfollowOK'
    BY <1>2, <2>1, <2>2 DEF UnfollowOK, Request
  <2>4. QED BY <1>1, <1>5, <2>3 DEF StartUnfollow, world, books, TypeOK, WorldOK, BooksOK,
               MemoryOK, CycleOK
<1>6. ASSUME NEW tok \in Tokens, UnfollowSkips(tok) PROVE TypeOK'
  <2>1. UnfollowOK'
    BY <1>1, <1>2, <1>6 DEF UnfollowSkips, UnfollowOK, Request
  <2>2. QED BY <1>1, <1>6, <2>1 DEF UnfollowSkips, world, books, TypeOK, WorldOK, BooksOK,
               MemoryOK, CycleOK
<1>7. ASSUME NEW tok \in Tokens, UnfollowSells(tok) PROVE TypeOK'
  <2> DEFINE p == <<unf.leader, tok>>
  <2>1. unf.leader \in Leaders /\ unf.shares[tok] \in Nat
    BY <1>2, <1>7 DEF UnfollowSells, Unfollowing, Request
  <2>2. p \in Pairs /\ pos[p] \in Nat /\ paid[p] \in Nat
    BY <1>1, <2>1 DEF Pairs, BooksOK, Amounts
  <2>3. pos[p] - SoldOf(p, unf.shares[tok]) \in Nat /\ paid[p] + unf.shares[tok] \in Nat
    BY <2>1, <2>2 DEF SoldOf, Smaller
  <2>4. /\ pos' = [pos EXCEPT ![p] = pos[p] - SoldOf(p, unf.shares[tok])]
        /\ paid' = [paid EXCEPT ![p] = paid[p] + unf.shares[tok]]
    BY <1>1, <1>7 DEF UnfollowSells, BooksOK, Amounts
  <2> HIDE DEF p
  <2>5. pos' \in Amounts /\ paid' \in Amounts
    BY <1>1, <2>3, <2>4 DEF BooksOK, Amounts
  <2>6. UnfollowOK'
    BY <1>1, <1>2, <1>7 DEF UnfollowSells, UnfollowOK, Request
  <2>7. QED BY <1>1, <1>7, <2>5, <2>6 DEF UnfollowSells, world, TypeOK, WorldOK, BooksOK,
               MemoryOK, CycleOK
<1>8. ASSUME NEW tok \in Tokens, UnfollowFills(tok) PROVE TypeOK'
  <2>1. PICK n \in 1..Smaller(unf.shares[tok], wallet[tok]) :
          /\ wallet' = [wallet EXCEPT ![tok] = @ - n]
          /\ unf' = [unf EXCEPT !.left = @ \ {tok}, !.cur = tok, !.sold = n]
    BY <1>8 DEF UnfollowFills
  <2>2. wallet[tok] \in Nat /\ unf.shares[tok] \in Nat
    BY <1>1, <1>2 DEF WorldOK, Request
  <2>3. n \in Nat /\ wallet[tok] - n \in Nat
    BY <2>1, <2>2 DEF Smaller
  <2>4. wallet' \in [Tokens -> Nat]
    BY <1>1, <2>1, <2>3 DEF WorldOK
  <2>5. unf' \in Request /\ unf'.leader = unf.leader /\ unf.leader # None
    BY <1>2, <1>8, <2>1, <2>3 DEF UnfollowFills, Unfollowing, Request
  <2>6. QED BY <1>1, <1>8, <2>4, <2>5 DEF UnfollowFills, books, TypeOK, WorldOK, BooksOK,
               MemoryOK, CycleOK, UnfollowOK
<1>9. QED BY <1>3, <1>4, <1>5, <1>6, <1>7, <1>8 DEF Unfollow

LEMMA TypeWorld ==
  ASSUME TypeOK, World \/ Crash
  PROVE  TypeOK'
<1>1. WorldOK /\ BooksOK /\ MemoryOK /\ CycleOK /\ UnfollowOK
  BY DEF TypeOK
<1>2. ASSUME NEW c \in Conditions, Close(c) \/ Resolve(c) PROVE TypeOK'
  <2>1. market' \in [Tokens -> {"open", "closed", "won", "lost"}]
    BY <1>1, <1>2 DEF Close, Resolve, WorldOK
  <2>2. QED BY <1>1, <1>2, <2>1 DEF Close, Resolve, books, TypeOK, WorldOK, BooksOK,
               MemoryOK, CycleOK, UnfollowOK
<1>3. ASSUME NEW p \in Pairs, Match(p) PROVE TypeOK'
  <2>1. Token(p) \in Tokens
    BY PairParts
  <2>2. WorldOK'
    BY <1>1, <1>3, <2>1 DEF Match, WorldOK
  <2>3. BooksOK'
    BY <1>1, <1>3 DEF Match, BooksOK, Amounts
  <2>4. QED BY <1>1, <1>3, <2>2, <2>3 DEF Match, TypeOK, MemoryOK, CycleOK, UnfollowOK
<1>4. ASSUME NEW tok \in Tokens, CacheExpires(tok) PROVE TypeOK'
  <2>1. MemoryOK'
    BY <1>1, <1>4 DEF CacheExpires, MemoryOK
  <2>2. QED BY <1>1, <1>4, <2>1 DEF CacheExpires, world, books, TypeOK, WorldOK, BooksOK,
               CycleOK, UnfollowOK
<1>5. CASE Crash
  <2>1. CycleOK' /\ UnfollowOK' /\ MemoryOK'
    BY <1>1, <1>5, CycleTypes DEF Crash, CycleOK, UnfollowOK, MemoryOK, IdleCycle,
       NoUnfollow
  <2>2. QED BY <1>1, <1>5, <2>1 DEF Crash, world, books, TypeOK, WorldOK, BooksOK
<1>6. QED BY <1>2, <1>3, <1>4, <1>5 DEF World

LEMMA TypeStep == TypeOK /\ [Next]_vars => TypeOK'
<1> SUFFICES ASSUME TypeOK, [Next]_vars PROVE TypeOK'
  OBVIOUS
<1>1. CASE UNCHANGED vars
  BY <1>1 DEF vars, TypeOK, WorldOK, BooksOK, MemoryOK, CycleOK, UnfollowOK
<1>2. CASE Next
  BY <1>2, TypeCopying, TypeSettling, TypeUnfollow, TypeWorld DEF Next
<1>3. QED BY <1>1, <1>2

\* Settlement keeps the types of its state under every fault: no position, no
\* wallet and no account of shares goes below zero.
THEOREM TypeCorrect == Spec => []TypeOK
<1>1. QED BY TypeInit, TypeStep, PTL DEF Spec

-----------------------------------------------------------------------------
(* Live settlement redeems first                                           *)

LEMMA ChainInit == Init => ChainInv
<1> SUFFICES ASSUME Init PROVE ChainInv
  OBVIOUS
<1>1. MarketInv
  BY DEF Init, MarketInv
<1>2. EndedInv
  BY DEF Init, EndedInv, IdleCycle
<1>3. RedeemedInv
  BY DEF Init, RedeemedInv, NothingAsked
<1>4. QED BY <1>1, <1>2, <1>3 DEF ChainInv

\* A market that has ended stays so, and its tokens end together.
LEMMA MarketStep ==
  ASSUME TypeOK, MarketInv, [Next]_vars
  PROVE  /\ MarketInv'
         /\ \A tok \in Tokens : Ended(tok) => Ended(tok)'
<1>1. market \in [Tokens -> {"open", "closed", "won", "lost"}]
  BY DEF TypeOK, WorldOK
<1>2. ASSUME NEW c \in Conditions, Close(c) \/ Resolve(c)
      PROVE  \A tok \in Tokens :
               IF CondOf[tok] = c THEN market'[tok] # "open" ELSE market'[tok] = market[tok]
  BY <1>2 DEF Close, Resolve
<1>3. CASE \E c \in Conditions : Close(c) \/ Resolve(c)
  BY <1>2, <1>3 DEF MarketInv, Ended
<1>4. CASE ~\E c \in Conditions : Close(c) \/ Resolve(c)
  <2>1. market' = market
    <3>1. CASE UNCHANGED vars
      BY <3>1 DEF vars
    <3>2. CASE Copying
      BY <3>2 DEF Copying, StartCycle, RecordSell, EndCycle, Book, PreviewBuy, PreviewSell,
         LiveSell, world
    <3>3. CASE Settling
      BY <3>3 DEF Settling, BeginSettling, ScanAnswers, ScanEnds, Events, SettlingEnds,
         PollRedeems, EventDone, ListTokens, EventSkipped, EventPaid, EventAsks, RedeemDone,
         RedeemFails, RowsDone, AskGamma, GammaDown, TokenKept, TokenSettled, world
    <3>4. CASE Unfollow
      BY <3>4 DEF Unfollow, UnfollowRecords, UnfollowEnds, StartUnfollow, UnfollowSkips,
         UnfollowSells, UnfollowFills, world
    <3>5. CASE World \/ Crash
      BY <1>4, <3>5 DEF World, Match, CacheExpires, Crash, world
    <3>6. QED BY <3>1, <3>2, <3>3, <3>4, <3>5 DEF Next
  <2>2. QED BY <2>1 DEF MarketInv, Ended
<1>5. QED BY <1>3, <1>4

\* The cycle and the cache only name markets the feed or the market data
\* showed to have ended.
LEMMA EndedFrame ==
  ASSUME EndedInv, \A tok \in Tokens : Ended(tok) => Ended(tok)',
         CycleOK, CycleOK', gamma' = gamma,
         cyc'.rows \subseteq cyc.rows, cyc'.events \subseteq cyc.events,
         cyc'.pc = "rows" => cyc.pc = "rows",
         cyc'.pc = "event" => cyc.pc = "event" /\ cyc'.cur = cyc.cur
  PROVE  EndedInv'
<1>1. cyc \in Cycle /\ (cyc.pc = "event" => cyc.cur \in Pairs)
  BY DEF CycleOK
<1>2. cyc.rows \subseteq Tokens /\ \A p \in cyc.events : Token(p) \in Tokens
  BY <1>1, PairParts DEF Cycle
<1>3. cyc.pc = "event" => Token(cyc.cur) \in Tokens
  BY <1>1, PairParts
<1>4. QED BY <1>2, <1>3 DEF EndedInv

LEMMA EndedStep ==
  ASSUME TypeOK, TypeOK', EndedInv, [Next]_vars,
         \A tok \in Tokens : Ended(tok) => Ended(tok)'
  PROVE  EndedInv'
<1>1. cyc \in Cycle /\ CycleOK /\ CycleOK' /\ IdleCycle.rows = {} /\ IdleCycle.events = {}
  BY DEF TypeOK, CycleOK, IdleCycle
<1>2. ASSUME cyc' = cyc, gamma' = gamma PROVE EndedInv'
  BY <1>1, <1>2, EndedFrame
<1>3. CASE Copying
  <2>1. CASE StartCycle
    <3>1. cyc' = [IdleCycle EXCEPT !.pc = "pending", !.followed = followed]
          /\ gamma' = gamma
      BY <2>1 DEF StartCycle
    <3>2. cyc'.pc = "pending" /\ cyc'.rows = {} /\ cyc'.events = {}
      BY <3>1 DEF IdleCycle
    <3>3. QED BY <1>1, <3>1, <3>2, EndedFrame
  <2>2. CASE RecordSell
    BY <1>1, <2>2, EndedFrame DEF RecordSell, Cycle
  <2>3. CASE EndCycle
    BY <1>1, <2>3, EndedFrame DEF EndCycle, IdleCycle
  <2>4. ASSUME NEW p \in Pairs, LiveSell(p) PROVE EndedInv'
    BY <1>1, <2>4, EndedFrame DEF LiveSell, Cycle
  <2>5. ASSUME NEW p \in Pairs, Book(p) \/ PreviewBuy(p) \/ PreviewSell(p) PROVE EndedInv'
    BY <1>2, <2>5 DEF Book, PreviewBuy, PreviewSell
  <2>6. QED BY <1>3, <2>1, <2>2, <2>3, <2>4, <2>5 DEF Copying
<1>4. CASE Settling
  <2>1. CASE BeginSettling
    <3>1. cyc'.pc \in {"scan", "feed"} /\ cyc'.events = cyc.events
      BY <1>1, <2>1 DEF BeginSettling, Cycle
    <3>2. market' = market /\ gamma' = gamma
      BY <2>1 DEF BeginSettling, world
    <3>3. QED BY <3>1, <3>2 DEF EndedInv, Ended
  <2>2. CASE ScanAnswers
    <3>1. PICK rows \in SUBSET {tok \in cyc.rows : Resolved(tok)} :
            cyc' = [cyc EXCEPT !.pc = "rows", !.rows = rows]
      BY <2>2 DEF ScanAnswers
    <3>2. /\ cyc'.pc = "rows" /\ cyc'.rows = rows /\ cyc'.events = cyc.events
      BY <1>1, <3>1 DEF Cycle
    <3>3. \A tok \in rows : Ended(tok)'
      BY <2>2 DEF ScanAnswers, world, Resolved, Ended
    <3>4. market' = market /\ gamma' = gamma
      BY <2>2 DEF ScanAnswers, world
    <3>5. QED BY <3>2, <3>3, <3>4 DEF EndedInv, Ended
  <2>3. CASE ScanEnds \/ SettlingEnds \/ ListTokens
    <3>1. /\ cyc'.pc \in {"feed", "copy", "idle", "tokens"}
          /\ cyc'.rows \subseteq cyc.rows /\ cyc'.events \subseteq cyc.events
      <4>1. CASE ScanEnds \/ ListTokens
        BY <1>1, <4>1 DEF ScanEnds, ListTokens, Cycle
      <4>2. CASE SettlingEnds
        <5>1. cyc' = IdleCycle \/ cyc' = [cyc EXCEPT !.pc = "copy"]
          BY <4>2 DEF SettlingEnds
        <5>2. QED BY <1>1, <5>1 DEF IdleCycle, Cycle
      <4>3. QED BY <2>3, <4>1, <4>2
    <3>2. gamma' = gamma
      BY <2>3 DEF ScanEnds, SettlingEnds, ListTokens
    <3>3. QED BY <1>1, <3>1, <3>2, EndedFrame
  <2>4. CASE PollRedeems
    <3>1. PICK es \in SUBSET {p \in Pairs : Resolved(Token(p))} :
            cyc' = [cyc EXCEPT !.pc = "events", !.events = es]
      BY <2>4 DEF PollRedeems
    <3>2. cyc'.pc = "events" /\ cyc'.events = es
      BY <1>1, <3>1 DEF Cycle
    <3>3. \A p \in es : Ended(Token(p))'
      BY <2>4 DEF PollRedeems, world, Resolved, Ended
    <3>4. market' = market /\ gamma' = gamma
      BY <2>4 DEF PollRedeems, world
    <3>5. QED BY <3>2, <3>3, <3>4 DEF EndedInv, Ended
  <2>5. CASE EventDone
    BY <1>1, <2>5, EndedFrame DEF EventDone, Cycle
  <2>6. ASSUME NEW p \in Pairs, EventSkipped(p) \/ EventPaid(p) PROVE EndedInv'
    BY <1>1, <2>6, EndedFrame DEF EventSkipped, EventPaid, Cycle
  <2>7. ASSUME NEW p \in Pairs, EventAsks(p) PROVE EndedInv'
    <3>1. cyc' = [cyc EXCEPT !.pc = "event", !.cur = p, !.shares = pos[p]]
          /\ p \in cyc.events
      BY <2>7 DEF EventAsks
    <3>2. cyc'.pc = "event" /\ cyc'.cur = p /\ cyc'.events = cyc.events
      BY <1>1, <3>1 DEF Cycle
    <3>3. market' = market /\ gamma' = gamma
      BY <2>7 DEF EventAsks, world
    <3>4. QED BY <3>1, <3>2, <3>3 DEF EndedInv, Ended
  <2>8. ASSUME NEW c \in Conditions, RedeemDone(c) \/ RedeemFails(c) PROVE EndedInv'
    BY <1>2, <2>8 DEF RedeemDone, RedeemFails
  <2>9. ASSUME NEW c \in Conditions, RowsDone(c) PROVE EndedInv'
    <3>1. PICK rows : cyc' = [cyc EXCEPT !.rows = @ \ rows] /\ gamma' = gamma
      BY <2>9 DEF RowsDone
    <3>2. /\ cyc'.pc = cyc.pc /\ cyc'.rows \subseteq cyc.rows /\ cyc'.cur = cyc.cur
          /\ cyc'.events = cyc.events
      BY <1>1, <3>1 DEF Cycle
    <3>3. QED BY <1>1, <3>1, <3>2, EndedFrame
  <2>10. ASSUME NEW tok \in Tokens, AskGamma(tok) \/ GammaDown(tok) PROVE EndedInv'
    <3>1. cyc' = [cyc EXCEPT !.cur = tok] /\ cyc.pc = "tokens" /\ market' = market
      BY <2>10 DEF AskGamma, GammaDown, Turn, world
    <3>2. cyc'.pc = "tokens" /\ cyc'.events = cyc.events
      BY <1>1, <3>1 DEF Cycle
    <3>3. gamma \in [Tokens -> {"none", "null", "live", "settled"}]
      BY DEF TypeOK, MemoryOK
    <3>4. gamma' \in {[gamma EXCEPT ![tok] = View(tok)], [gamma EXCEPT ![tok] = "null"]}
      BY <2>10 DEF AskGamma, GammaDown
    <3>5. \A u \in Tokens : gamma'[u] = "settled" => Ended(u)
      BY <3>3, <3>4 DEF View, Ended, EndedInv
    <3>6. QED BY <3>1, <3>2, <3>5 DEF EndedInv, Ended
  <2>11. ASSUME NEW tok \in Tokens, TokenKept(tok) \/ TokenSettled(tok) PROVE EndedInv'
    BY <1>1, <2>11, EndedFrame DEF TokenKept, TokenSettled, TokenDone, Turn, Cycle
  <2>12. QED BY <1>4, <2>1, <2>2, <2>3, <2>4, <2>5, <2>6, <2>7, <2>8, <2>9, <2>10, <2>11
             DEF Settling, Events
<1>5. CASE Unfollow \/ UNCHANGED vars
  BY <1>2, <1>5 DEF Unfollow, UnfollowRecords, UnfollowEnds, StartUnfollow, UnfollowSkips,
     UnfollowSells, UnfollowFills, vars
<1>6. ASSUME NEW c \in Conditions, Close(c) \/ Resolve(c) PROVE EndedInv'
  BY <1>2, <1>6 DEF Close, Resolve
<1>7. ASSUME NEW p \in Pairs, Match(p) PROVE EndedInv'
  BY <1>2, <1>7 DEF Match
<1>8. ASSUME NEW tok \in Tokens, CacheExpires(tok) PROVE EndedInv'
  <2>1. gamma' = [gamma EXCEPT ![tok] = "none"] /\ cyc' = cyc /\ market' = market
    BY <1>8 DEF CacheExpires, world
  <2>2. gamma \in [Tokens -> {"none", "null", "live", "settled"}]
    BY DEF TypeOK, MemoryOK
  <2>3. QED BY <2>1, <2>2 DEF EndedInv, Ended
<1>9. CASE Crash
  BY <1>9 DEF Crash, IdleCycle, EndedInv
<1>10. QED BY <1>3, <1>4, <1>5, <1>6, <1>7, <1>8, <1>9 DEF Next, World

\* What is redeemed has ended: the cycle asks for nothing else.
LEMMA AwaitsEnded ==
  ASSUME TypeOK, MarketInv, EndedInv, NEW c \in Conditions, Awaits(c)
  PROVE  \A tok \in TokensIn(c) : Ended(tok)
<1>1. cyc \in Cycle /\ (cyc.pc = "event" => cyc.cur \in Pairs)
  BY DEF TypeOK, CycleOK
<1>2. PICK tok \in Tokens : CondOf[tok] = c /\ Ended(tok)
  <2>1. CASE cyc.pc = "rows" /\ c \in {CondOf[tok] : tok \in cyc.rows}
    BY <1>1, <2>1 DEF EndedInv, Cycle
  <2>2. CASE cyc.pc = "event" /\ c = CondOf[Token(cyc.cur)]
    BY <1>1, <2>2, PairParts DEF EndedInv
  <2>3. CASE \E tok \in cyc.tokens : gamma[tok] = "settled" /\ c = CondOf[tok]
    BY <1>1, <2>3 DEF EndedInv, Cycle
  <2>4. QED BY <2>1, <2>2, <2>3 DEF Awaits
<1>3. QED BY <1>2 DEF MarketInv, TokensIn, Ended

\* Only an ask or a redeem changes what is known of a condition, and tokens
\* enter the wallet only while their market is open.
LEMMA RedeemedStep ==
  ASSUME TypeOK, TypeOK', ChainInv, [Next]_vars,
         \A tok \in Tokens : Ended(tok) => Ended(tok)'
  PROVE  RedeemedInv'
<1>1. /\ wallet \in [Tokens -> Nat] /\ wallet' \in [Tokens -> Nat]
      /\ done \in [Conditions -> {"ask", "ok", "failed"}]
  BY DEF TypeOK, WorldOK, MemoryOK
<1>2. MarketInv /\ EndedInv /\ RedeemedInv
  BY DEF ChainInv
<1>3. ASSUME \A c \in Conditions : done'[c] = "ok" => done[c] = "ok",
             \A tok \in Tokens : Ended(tok) /\ wallet[tok] = 0 => wallet'[tok] = 0
      PROVE  RedeemedInv'
  BY <1>2, <1>3 DEF RedeemedInv, TokensIn
<1>4. ASSUME NEW c \in Conditions, RedeemDone(c) PROVE RedeemedInv'
  <2>1. \A tok \in TokensIn(c) : Ended(tok) /\ wallet'[tok] = 0
    BY <1>2, <1>4, AwaitsEnded DEF RedeemDone, Emptied, TokensIn
  <2>2. \A tok \in Tokens : wallet'[tok] \in {0, wallet[tok]}
    BY <1>4 DEF RedeemDone, Emptied
  <2>3. \A d \in Conditions : d # c => done'[d] = done[d]
    BY <1>1, <1>4 DEF RedeemDone
  <2>4. QED BY <1>2, <2>1, <2>2, <2>3 DEF RedeemedInv, TokensIn
<1>5. ASSUME NEW c \in Conditions, RedeemFails(c) PROVE RedeemedInv'
  <2>1. \A tok \in Tokens : wallet'[tok] \in {0, wallet[tok]}
    BY <1>5 DEF RedeemFails, Emptied
  <2>2. \A d \in Conditions : done'[d] = "ok" => done[d] = "ok"
    BY <1>1, <1>5 DEF RedeemFails
  <2>3. QED BY <1>3, <2>1, <2>2
<1>6. CASE BeginSettling \/ Crash
  BY <1>1, <1>6 DEF BeginSettling, Crash, NothingAsked, RedeemedInv
<1>7. ASSUME NEW p \in Pairs, Match(p) \/ LiveSell(p) PROVE RedeemedInv'
  <2>1. Token(p) \in Tokens
    BY PairParts
  <2>2. \A tok \in Tokens : Ended(tok) => wallet'[tok] = wallet[tok]
    BY <1>1, <1>7, <2>1 DEF Match, LiveSell, Ended
  <2>3. done' = done
    BY <1>7 DEF Match, LiveSell
  <2>4. QED BY <1>3, <2>2, <2>3
<1>8. ASSUME NEW tok \in Tokens, UnfollowFills(tok) PROVE RedeemedInv'
  <2>1. \A u \in Tokens : Ended(u) => wallet'[u] = wallet[u]
    BY <1>1, <1>8 DEF UnfollowFills, Ended
  <2>2. done' = done
    BY <1>8 DEF UnfollowFills
  <2>3. QED BY <1>3, <2>1, <2>2
<1>9. ASSUME done' = done, wallet' = wallet PROVE RedeemedInv'
  BY <1>3, <1>9
<1>10. CASE Copying
  BY <1>7, <1>9, <1>10 DEF Copying, StartCycle, RecordSell, EndCycle, Book, PreviewBuy,
     PreviewSell, world
<1>11. CASE Settling
  BY <1>4, <1>5, <1>6, <1>9, <1>11 DEF Settling, ScanAnswers, ScanEnds, Events,
     SettlingEnds, PollRedeems, EventDone, ListTokens, EventSkipped, EventPaid, EventAsks,
     RowsDone, AskGamma, GammaDown, TokenKept, TokenSettled, world
<1>12. CASE Unfollow
  BY <1>8, <1>9, <1>12 DEF Unfollow, UnfollowRecords, UnfollowEnds, StartUnfollow,
     UnfollowSkips, UnfollowSells, world
<1>13. CASE World \/ UNCHANGED vars
  BY <1>7, <1>9, <1>13 DEF World, Close, Resolve, CacheExpires, world, vars
<1>14. QED BY <1>6, <1>10, <1>11, <1>12, <1>13 DEF Next

LEMMA ChainStep == TypeOK /\ ChainInv /\ [Next]_vars => ChainInv'
<1> SUFFICES ASSUME TypeOK, ChainInv, [Next]_vars PROVE ChainInv'
  OBVIOUS
<1>1. TypeOK' /\ MarketInv' /\ \A tok \in Tokens : Ended(tok) => Ended(tok)'
  BY TypeStep, MarketStep DEF ChainInv
<1>2. QED BY <1>1, EndedStep, RedeemedStep DEF ChainInv

\* A step that settles a position has the tokens of its market redeemed.
LEMMA ClearedAfterRedeem ==
  ASSUME TypeOK, RedeemedInv, [Next]_vars, LiveRedeem,
         cyc.pc \in {"rows", "events", "event", "tokens"}, cyc' # cyc,
         NEW p \in Pairs, pos[p] > 0, pos'[p] = 0
  PROVE  wallet[Token(p)] = 0
<1>1. ASSUME Redeemed(CondOf[Token(p)]) PROVE wallet[Token(p)] = 0
  BY <1>1, PairParts DEF Redeemed, RedeemedInv, TokensIn
<1>2. ASSUME NEW P, NEW n, Settle(P, n) PROVE p \in P
  BY <1>2 DEF Settle
<1>3. pos' # pos
  OBVIOUS
<1>4. CASE EventDone
  BY <1>1, <1>2, <1>3, <1>4 DEF EventDone
<1>5. ASSUME NEW q \in Pairs, EventPaid(q) PROVE wallet[Token(p)] = 0
  BY <1>1, <1>2, <1>5 DEF EventPaid
<1>6. ASSUME NEW c \in Conditions, RowsDone(c) PROVE wallet[Token(p)] = 0
  <2>1. Settle(PairsOf({tok \in cyc.rows : CondOf[tok] = c}), pos) /\ Redeemed(c)
    BY <1>3, <1>6 DEF RowsDone
  <2>2. p \in PairsOf({tok \in cyc.rows : CondOf[tok] = c})
    BY <1>2, <2>1
  <2>3. CondOf[Token(p)] = c
    BY <2>2 DEF PairsOf
  <2>4. QED BY <1>1, <2>1, <2>3
<1>7. ASSUME NEW tok \in Tokens, TokenSettled(tok) PROVE wallet[Token(p)] = 0
  <2>1. p \in PairsOf({tok})
    BY <1>2, <1>7 DEF TokenSettled
  <2>2. QED BY <1>1, <1>7, <2>1 DEF TokenSettled, PairsOf
<1>8. CASE Copying
  BY <1>3, <1>8 DEF Copying, StartCycle, RecordSell, EndCycle, Book, PreviewBuy,
     PreviewSell, LiveSell, books
<1>9. CASE Settling
  BY <1>3, <1>4, <1>5, <1>6, <1>7, <1>9 DEF Settling, BeginSettling, ScanAnswers, ScanEnds,
     Events, SettlingEnds, PollRedeems, ListTokens, EventSkipped, EventAsks, RedeemDone,
     RedeemFails, AskGamma, GammaDown, TokenKept, books
<1>10. CASE Unfollow
  BY <1>10 DEF Unfollow, UnfollowRecords, UnfollowEnds, StartUnfollow, UnfollowSkips,
     UnfollowSells, UnfollowFills
<1>11. CASE World \/ Crash \/ UNCHANGED vars
  BY <1>3, <1>11 DEF World, Close, Resolve, Match, CacheExpires, Crash, books, vars
<1>12. QED BY <1>8, <1>9, <1>10, <1>11 DEF Next

\* Live with auto redeem, settlement clears a position only when the wallet's
\* tokens of its market were redeemed, under every fault.
THEOREM RedeemsFirst == Spec => ChainFirst
<1>1. Init => TypeOK /\ ChainInv
  BY TypeInit, ChainInit
<1>2. TypeOK /\ ChainInv /\ [Next]_vars => TypeOK' /\ ChainInv'
  BY TypeStep, ChainStep
<1>3. TypeOK /\ ChainInv /\ [Next]_vars =>
        [\A p \in Pairs :
           LiveRedeem /\ cyc.pc \in {"rows", "events", "event", "tokens"} /\ cyc' # cyc
             /\ pos[p] > 0 /\ pos'[p] = 0
           => wallet[Token(p)] = 0]_vars
  BY ClearedAfterRedeem DEF ChainInv
<1>4. QED BY <1>1, <1>2, <1>3, PTL DEF Spec, ChainFirst

-----------------------------------------------------------------------------
(* Every share is paid for once                                            *)

NoneMeanwhile == Faults \cap {"unfollow", "flush"} = {}

LEMMA BooksInit == Init => BooksInv
<1> SUFFICES ASSUME Init PROVE BooksInv
  OBVIOUS
<1>1. unf = NoUnfollow /\ EventInv
  BY DEF Init, EventInv, IdleCycle
<1>2. SharesPaidOnce
  BY DEF Init, SharesPaidOnce
<1>3. QED BY <1>1, <1>2 DEF BooksInv

\* Shares move between the position and paid, and nothing else changes.
LEMMA BalanceKept ==
  ASSUME BooksOK, SharesPaidOnce, pos' \in Amounts, paid' \in Amounts,
         got' = got, unbooked' = unbooked,
         \A q \in Pairs : pos'[q] + paid'[q] = pos[q] + paid[q]
  PROVE  SharesPaidOnce'
<1> SUFFICES ASSUME NEW q \in Pairs PROVE got'[q] = pos'[q] + unbooked'[q] + paid'[q]
  BY DEF SharesPaidOnce
<1>1. /\ pos[q] \in Nat /\ paid[q] \in Nat /\ unbooked[q] \in Nat /\ got[q] \in Nat
      /\ pos'[q] \in Nat /\ paid'[q] \in Nat
  BY DEF BooksOK, Amounts
<1>2. got[q] = pos[q] + unbooked[q] + paid[q] /\ pos'[q] + paid'[q] = pos[q] + paid[q]
  BY DEF SharesPaidOnce
<1>3. QED BY <1>1, <1>2

LEMMA SharesStep ==
  ASSUME TypeOK, BooksInv, [Next]_vars
  PROVE  SharesPaidOnce'
<1>1. BooksOK /\ SharesPaidOnce /\ unf = NoUnfollow /\ EventInv
  BY DEF TypeOK, BooksInv
<1>2. ASSUME UNCHANGED books PROVE SharesPaidOnce'
  BY <1>1, <1>2 DEF books, SharesPaidOnce
<1>3. ASSUME NEW P, NEW n, SettlesEach(P, n), \A p \in P : n[p] = pos[p]
      PROVE  SharesPaidOnce'
  BY <1>1, <1>3, SettleMoves, BalanceKept DEF SettlesEach
<1>4. CASE Copying
  <2>1. CASE RecordSell
    <3>1. cyc.cur \in Pairs
      BY <2>1 DEF RecordSell, TypeOK, CycleOK
    <3>2. QED BY <1>1, <2>1, <3>1, SellMoves, BalanceKept DEF RecordSell
  <2>2. ASSUME NEW p \in Pairs, Book(p) \/ PreviewBuy(p) \/ PreviewSell(p)
        PROVE  SharesPaidOnce'
    <3> SUFFICES ASSUME NEW q \in Pairs PROVE got'[q] = pos'[q] + unbooked'[q] + paid'[q]
      BY DEF SharesPaidOnce
    <3>1. pos \in Amounts /\ unbooked \in Amounts /\ got \in Amounts /\ paid \in Amounts
      BY <1>1 DEF BooksOK
    <3>2. pos[q] \in Nat /\ unbooked[q] \in Nat /\ got[q] \in Nat /\ paid[q] \in Nat
      BY <3>1 DEF Amounts
    <3>3. got[q] = pos[q] + unbooked[q] + paid[q]
      BY <1>1 DEF SharesPaidOnce
    <3>4. QED BY <2>2, <3>1, <3>2, <3>3 DEF Book, PreviewBuy, PreviewSell, Amounts
  <2>3. QED BY <1>2, <1>4, <2>1, <2>2 DEF Copying, StartCycle, EndCycle, LiveSell
<1>5. CASE Settling
  <2>1. CASE EventDone
    <3>1. CASE Redeemed(CondOf[Token(cyc.cur)]) /\ pos[cyc.cur] > 0
      <4>1. cyc.pc = "event" /\ cyc.cur \in Pairs /\ cyc.shares = pos[cyc.cur]
        BY <1>1, <2>1 DEF EventDone, EventInv, TypeOK, CycleOK
      <4>2. SettlesEach({cyc.cur}, [p \in Pairs |-> cyc.shares])
        BY <2>1, <3>1, AnswerSettles
      <4>3. \A p \in {cyc.cur} : [q \in Pairs |-> cyc.shares][p] = pos[p]
        BY <4>1
      <4>4. QED BY <1>3, <4>2, <4>3
    <3>2. CASE ~(Redeemed(CondOf[Token(cyc.cur)]) /\ pos[cyc.cur] > 0)
      BY <1>2, <2>1, <3>2, TypeUnpaid
    <3>3. QED BY <3>1, <3>2
  <2>2. ASSUME NEW c \in Conditions, RowsDone(c) PROVE SharesPaidOnce'
    BY <1>2, <1>3, <2>2, RowsSettle, TypeUnpaid
  <2>3. ASSUME NEW p \in Pairs, EventPaid(p) PROVE SharesPaidOnce'
    BY <1>3, <2>3, EventSettles
  <2>4. ASSUME NEW tok \in Tokens, TokenSettled(tok) PROVE SharesPaidOnce'
    BY <1>3, <2>4, TokenSettles
  <2>5. QED BY <1>2, <1>5, <2>1, <2>2, <2>3, <2>4 DEF Settling, BeginSettling, ScanAnswers,
             ScanEnds, Events, SettlingEnds, PollRedeems, ListTokens, EventSkipped,
             EventAsks, RedeemDone, RedeemFails, AskGamma, GammaDown, TokenKept
<1>6. CASE Unfollow
  <2>1. unf.leader = None /\ unf.cur = None
    BY <1>1 DEF NoUnfollow
  <2>2. QED BY <1>2, <1>6, <2>1 DEF Unfollow, UnfollowRecords, UnfollowEnds, StartUnfollow,
             UnfollowSkips, UnfollowSells, UnfollowFills, Unfollowing
<1>7. ASSUME NEW p \in Pairs, Match(p) PROVE SharesPaidOnce'
  <2> SUFFICES ASSUME NEW q \in Pairs PROVE got'[q] = pos'[q] + unbooked'[q] + paid'[q]
    BY DEF SharesPaidOnce
  <2>1. pos \in Amounts /\ unbooked \in Amounts /\ got \in Amounts /\ paid \in Amounts
    BY <1>1 DEF BooksOK
  <2>2. pos[q] \in Nat /\ unbooked[q] \in Nat /\ got[q] \in Nat /\ paid[q] \in Nat
    BY <2>1 DEF Amounts
  <2>3. got[q] = pos[q] + unbooked[q] + paid[q]
    BY <1>1 DEF SharesPaidOnce
  <2>4. QED BY <1>7, <2>1, <2>2, <2>3 DEF Match, Amounts
<1>8. CASE Crash \/ UNCHANGED vars
  BY <1>2, <1>8 DEF Crash, books, vars
<1>9. QED BY <1>2, <1>4, <1>5, <1>6, <1>7, <1>8 DEF Next, World, Close, Resolve, CacheExpires

\* While an event's redeem is waited for, only an unfollow or a flush could
\* move its position.
LEMMA EventStep ==
  ASSUME NoneMeanwhile, TypeOK, BooksInv, [Next]_vars
  PROVE  EventInv' /\ unf' = NoUnfollow
<1>1. cyc \in Cycle /\ unf = NoUnfollow /\ EventInv
  BY DEF TypeOK, CycleOK, BooksInv
<1>2. unf.leader = None /\ unf.cur = None
  BY <1>1 DEF NoUnfollow
<1>3. ~Unfollow
  BY <1>2 DEF NoneMeanwhile, Unfollow, UnfollowRecords, UnfollowEnds, StartUnfollow,
     UnfollowSkips, UnfollowSells, UnfollowFills, Unfollowing
<1>4. ASSUME cyc'.pc # "event", unf' = unf PROVE EventInv' /\ unf' = NoUnfollow
  BY <1>1, <1>4 DEF EventInv
<1>5. ASSUME cyc' = cyc, pos' = pos, unf' = unf PROVE EventInv' /\ unf' = NoUnfollow
  BY <1>1, <1>5 DEF EventInv
<1>6. CASE Copying
  <2>1. ASSUME NEW p \in Pairs, Book(p) \/ PreviewBuy(p) \/ PreviewSell(p)
        PROVE  cyc'.pc # "event" /\ unf' = unf
    BY <2>1 DEF NoneMeanwhile, Book, PreviewBuy, PreviewSell
  <2>2. ASSUME NEW p \in Pairs, LiveSell(p) PROVE cyc'.pc # "event" /\ unf' = unf
    BY <1>1, <2>2 DEF LiveSell, Cycle
  <2>3. CASE StartCycle \/ RecordSell \/ EndCycle
    <3>1. cyc'.pc \in {"pending", "copy", "idle"}
      <4>1. CASE StartCycle
        BY <4>1 DEF StartCycle, IdleCycle
      <4>2. CASE RecordSell
        BY <1>1, <4>2 DEF RecordSell, Cycle
      <4>3. CASE EndCycle
        BY <4>3 DEF EndCycle, IdleCycle
      <4>4. QED BY <2>3, <4>1, <4>2, <4>3
    <3>2. QED BY <1>4, <2>3, <3>1 DEF StartCycle, RecordSell, EndCycle
  <2>4. QED BY <1>4, <1>6, <2>1, <2>2, <2>3 DEF Copying
<1>7. CASE Settling
  <2>1. ASSUME NEW p \in Pairs, EventAsks(p) PROVE EventInv' /\ unf' = NoUnfollow
    <3>1. /\ cyc' = [cyc EXCEPT !.pc = "event", !.cur = p, !.shares = pos[p]]
          /\ pos' = pos /\ unf' = unf
      BY <2>1 DEF EventAsks, books
    <3>2. cyc'.cur = p /\ cyc'.shares = pos[p]
      BY <1>1, <3>1 DEF Cycle
    <3>3. QED BY <1>1, <3>1, <3>2 DEF EventInv
  <2>2. ASSUME NEW c \in Conditions, RedeemDone(c) \/ RedeemFails(c)
        PROVE  EventInv' /\ unf' = NoUnfollow
    BY <1>5, <2>2 DEF RedeemDone, RedeemFails, books
  <2>3. ASSUME NEW c \in Conditions, RowsDone(c) PROVE cyc'.pc # "event" /\ unf' = unf
    <3>1. PICK rows : cyc' = [cyc EXCEPT !.rows = @ \ rows] /\ cyc.pc = "rows" /\ unf' = unf
      BY <2>3 DEF RowsDone
    <3>2. QED BY <1>1, <3>1 DEF Cycle
  <2>4. CASE BeginSettling \/ ScanEnds \/ ListTokens \/ EventDone
    BY <1>1, <1>4, <2>4 DEF BeginSettling, ScanEnds, ListTokens, EventDone, Cycle
  <2>5. CASE ScanAnswers
    <3>1. PICK rows : cyc' = [cyc EXCEPT !.pc = "rows", !.rows = rows]
      BY <2>5 DEF ScanAnswers
    <3>2. QED BY <1>1, <1>4, <2>5, <3>1 DEF ScanAnswers, Cycle
  <2>6. CASE SettlingEnds
    <3>1. cyc' = IdleCycle \/ cyc' = [cyc EXCEPT !.pc = "copy"]
      BY <2>6 DEF SettlingEnds
    <3>2. QED BY <1>1, <1>4, <2>6, <3>1 DEF SettlingEnds, IdleCycle, Cycle
  <2>7. CASE PollRedeems
    <3>1. PICK es : cyc' = [cyc EXCEPT !.pc = "events", !.events = es]
      BY <2>7 DEF PollRedeems
    <3>2. QED BY <1>1, <1>4, <2>7, <3>1 DEF PollRedeems, Cycle
  <2>8. ASSUME NEW p \in Pairs, EventSkipped(p) \/ EventPaid(p)
        PROVE  cyc'.pc # "event" /\ unf' = unf
    BY <1>1, <2>8 DEF EventSkipped, EventPaid, Cycle
  <2>9. ASSUME NEW tok \in Tokens,
               AskGamma(tok) \/ GammaDown(tok) \/ TokenKept(tok) \/ TokenSettled(tok)
        PROVE  cyc'.pc # "event" /\ unf' = unf
    BY <1>1, <2>9 DEF AskGamma, GammaDown, TokenKept, TokenSettled, TokenDone, Turn, Cycle
  <2>10. QED BY <1>4, <1>7, <2>1, <2>2, <2>3, <2>4, <2>5, <2>6, <2>7, <2>8, <2>9
             DEF Settling, Events
<1>8. CASE World \/ UNCHANGED vars
  BY <1>5, <1>8 DEF World, Close, Resolve, Match, CacheExpires, books, vars
<1>9. CASE Crash
  BY <1>9 DEF Crash, IdleCycle, EventInv
<1>10. QED BY <1>3, <1>6, <1>7, <1>8, <1>9 DEF Next

\* Unless an unfollow or a flush runs during a cycle, every share bought is
\* held, waits to be booked or was paid for once, whatever redeems fail, are
\* lost or are repeated after a crash.
THEOREM SharesArePaidOnce ==
  ASSUME NoneMeanwhile
  PROVE  Spec => []SharesPaidOnce
<1>1. Init => TypeOK /\ BooksInv
  BY TypeInit, BooksInit
<1>2. TypeOK /\ BooksInv /\ [Next]_vars => TypeOK' /\ BooksInv'
  BY TypeStep, SharesStep, EventStep DEF BooksInv
<1>3. BooksInv => SharesPaidOnce
  BY DEF BooksInv
<1>4. QED BY <1>1, <1>2, <1>3, PTL DEF Spec
=============================================================================
