-------------------------- MODULE CopyPipelineProofs --------------------------
(***************************************************************************)
(* Proofs about CopyPipeline, for any trades, leaders and limits: its      *)
(* types; in preview the daily volume caps, the cash floor, the cap on     *)
(* open markets, the buy window and the balance of the books; live and in  *)
(* preview how often a trade is ordered, that a cycle takes one side of a  *)
(* token, and that none reaches the trades past the kill switch.           *)
(***************************************************************************)
EXTENDS CopyPipeline, FiniteSetTheorems, SequenceTheorems, TLAPS

-----------------------------------------------------------------------------
(* Arithmetic and the types of the parts of the state                      *)

LEMMA Products ==
  ASSUME NEW a \in Nat, NEW b \in Nat
  PROVE  a * b \in Nat
  OBVIOUS

LEMMA RoundDivInt ==
  ASSUME NEW a \in Int, NEW b \in Nat \ {0}
  PROVE  RoundDiv(a, b) \in Int
<1>1. 2 * a + b \in Int /\ 2 * b \in Nat \ {0}
  OBVIOUS
<1>2. \A x \in Int, y \in Nat \ {0} : x \div y \in Int
  OBVIOUS
<1>3. QED BY <1>1, <1>2 DEF RoundDiv

\* A rounded quotient is off by half the divisor at most.
LEMMA RoundDivNear ==
  ASSUME NEW a \in Int, NEW b \in Nat \ {0}
  PROVE  -b <= 2 * (a - b * RoundDiv(a, b)) /\ 2 * (a - b * RoundDiv(a, b)) <= b
<1> DEFINE x == 2 * a + b
           y == 2 * b
           q == x \div y
<1>1. x \in Int /\ y \in Nat \ {0}
  OBVIOUS
<1>2. \A u \in Int, v \in Nat \ {0} : u \div v \in Int /\ v * (u \div v) <= u /\ u < v * (u \div v) + v
  OBVIOUS
<1>3. q \in Int /\ y * q <= x /\ x < y * q + y
  <2> HIDE DEF x, y
  <2> QED BY <1>1, <1>2
<1>4. RoundDiv(a, b) = q
  BY DEF RoundDiv
<1> HIDE DEF q
<1>5. y * q = 2 * (b * q)
  BY <1>3
<1>6. b * q \in Int
  BY <1>3
<1> DEFINE m == b * q
<1>7. m \in Int /\ 2 * m <= 2 * a + b /\ 2 * a + b < 2 * m + 2 * b
  BY <1>3, <1>5, <1>6
<1> HIDE DEF m
<1>8. -b <= 2 * (a - m) /\ 2 * (a - m) <= b
  BY <1>7
<1> QED BY <1>4, <1>8 DEF m

\* Cash rounded to cents is off by half a cent at most, and not below a floor of
\* whole cents that it was not below.
LEMMA ToCentsNear ==
  ASSUME NEW a \in Int
  PROVE  /\ ToCents(a) \in Int
         /\ -Cent <= 2 * (a - ToCents(a)) /\ 2 * (a - ToCents(a)) <= Cent
<1>1. Cent \in Nat \ {0}
  BY ConstantsOK
<1>2. RoundDiv(a, Cent) \in Int
  BY <1>1, RoundDivInt
<1>3. Cent * RoundDiv(a, Cent) \in Int
  BY <1>1, <1>2
<1> QED BY <1>1, <1>3, RoundDivNear DEF ToCents

LEMMA ToCentsFloor ==
  ASSUME NEW a \in Int, a >= -Cent
  PROVE  ToCents(a) >= -Cent
<1> DEFINE q == RoundDiv(a, Cent)
           m == Cent * q
<1>1. Cent \in Nat \ {0} /\ q \in Int
  BY ConstantsOK, RoundDivInt
<1>2. 2 * (a - m) <= Cent /\ ToCents(a) = m
  BY ToCentsNear DEF ToCents
<1>3. \A k \in Int, b \in Nat : k <= -2 => b * k <= -2 * b
  OBVIOUS
<1>4. \A k \in Int, b \in Nat : k >= -1 => b * k >= -b
  OBVIOUS
<1> HIDE DEF q
<1>5. m \in Int /\ (q <= -2 => m <= -2 * Cent) /\ (q >= -1 => m >= -Cent)
  BY <1>1, <1>3, <1>4
<1> HIDE DEF m
<1>6. q >= -1
  BY <1>1, <1>2, <1>5
<1> QED BY <1>2, <1>5, <1>6

Position == [shares : Nat, cost : Int]
Day == [volume : Nat, byLeader : [Leaders -> Nat], pnl : Int, kill : BOOLEAN]
Side == [leader : Leaders \cup {None}, side : {"BUY", "SELL"}]
Orphan == [of : Trades \cup {None}, open : Nat]
Cycle == [pc : {"idle", "pending", "gated", "queue", "place"}, queue : Seq(Trades),
          sides : [Tokens -> Side], trade : Trades \cup {None}, size : Nat,
          copied : Seq(Trades)]

\* A trade names a leader, a token and a positive price.
LEMMA TradeType ==
  ASSUME NEW t \in Trades
  PROVE  /\ Trade[t].leader \in Leaders /\ Trade[t].token \in Tokens
         /\ Trade[t].price \in Nat /\ Trade[t].usd \in Nat
         /\ PairOf(t) \in Pairs
  BY ConstantsOK DEF PairOf, Pairs

LEMMA HeldType ==
  ASSUME TypeOK, NEW t \in Trades
  PROVE  Held(t) \in Position /\ Held(t).shares \in Nat /\ Held(t).cost \in Int
  BY TradeType DEF TypeOK, Held, Position

\* A fill gives a position, a PnL and a volume of the right types.
LEMMA SoldType ==
  ASSUME TypeOK, NEW t \in Trades, NEW n \in Nat
  PROVE  Sold(t, n) \in Nat /\ Held(t).shares - Sold(t, n) \in Nat /\ CostLeft(t, n) \in Int
<1>1. Held(t).shares \in Nat /\ Held(t).cost \in Int
  BY HeldType
<1>2. Sold(t, n) \in Nat /\ Held(t).shares - Sold(t, n) \in Nat
  BY <1>1 DEF Sold, Least
<1> DEFINE left == Held(t).shares - Sold(t, n)
<1>3. ASSUME left > 0 PROVE RoundDiv(Held(t).cost * left, Held(t).shares) \in Int
  <2>1. left \in Nat /\ Held(t).shares \in Nat \ {0}
    BY <1>1, <1>2, <1>3
  <2> HIDE DEF left
  <2>2. Held(t).cost * left \in Int
    BY <1>1, <2>1
  <2>3. QED BY <2>1, <2>2, RoundDivInt
<1>4. CostLeft(t, n) \in Int
  BY <1>3 DEF CostLeft
<1>5. QED BY <1>2, <1>4

LEMMA PositionType ==
  ASSUME TypeOK, NEW t \in Trades, NEW n \in Nat \ {0}
  PROVE  PositionAfter(t, n) \in Position
<1>1. Held(t).shares \in Nat /\ Held(t).cost \in Int /\ Trade[t].price \in Nat
  BY HeldType, TradeType
<1>2. CASE Buys(t)
  <2>1. Held(t).cost + n * Trade[t].price \in Int /\ Held(t).shares + n \in Nat
    BY <1>1
  <2>2. QED BY <1>2, <2>1 DEF PositionAfter, Position
<1>3. CASE ~Buys(t)
  BY <1>3, SoldType DEF PositionAfter, Position
<1>4. QED BY <1>2, <1>3

LEMMA PnlType ==
  ASSUME TypeOK, NEW t \in Trades, NEW n \in Nat
  PROVE  Pnl(t, n) \in Int
<1>1. /\ Sold(t, n) \in Nat /\ CostLeft(t, n) \in Int /\ Held(t).cost \in Int
      /\ Trade[t].price \in Nat
  BY SoldType, HeldType, TradeType
<1>2. Trade[t].price * Sold(t, n) \in Int
  BY <1>1
<1>3. Trade[t].price * Sold(t, n) - (Held(t).cost - CostLeft(t, n)) \in Int
  BY <1>1, <1>2
<1>4. QED BY <1>3, ToCentsNear DEF Pnl

LEMMA CashType ==
  ASSUME TypeOK, NEW t \in Trades, NEW usd \in Nat
  PROVE  CashAfter(t, usd) \in Int
<1>1. cash \in Int /\ cash - usd \in Int /\ cash + usd \in Int
  BY DEF TypeOK
<1>2. ToCents(cash - usd) \in Int /\ ToCents(cash + usd) \in Int
  BY <1>1, ToCentsNear
<1>3. QED BY <1>1, <1>2 DEF CashAfter

LEMMA FillType ==
  ASSUME TypeOK, NEW t \in Trades, NEW n \in Nat \ {0}, ApplyFill(t, n)
  PROVE  /\ pos' \in [Pairs -> Position] /\ recent' \subseteq Pairs
         /\ today' \in Day /\ cash' \in Int
<1> DEFINE usd == n * Trade[t].price
<1>1. /\ usd \in Nat /\ PairOf(t) \in Pairs /\ Trade[t].leader \in Leaders
      /\ today \in Day /\ cash \in Int /\ recent \subseteq Pairs
      /\ pos \in [Pairs -> Position]
  BY TradeType, Products DEF TypeOK, Day, Position
<1>2. pos' \in [Pairs -> Position] /\ cash' \in Int
  BY <1>1, PositionType, CashType DEF ApplyFill
<1>3. CASE Buys(t)
  <2>1. /\ recent' = recent \cup {PairOf(t)}
        /\ today' = [today EXCEPT !.volume = @ + usd,
                                  !.byLeader[Trade[t].leader] = @ + usd]
    BY <1>3 DEF ApplyFill
  <2> HIDE DEF usd
  <2>2. today' \in Day
    <3>1. today.volume + usd \in Nat /\ today.byLeader[Trade[t].leader] + usd \in Nat
      BY <1>1 DEF Day
    <3>2. [today.byLeader EXCEPT ![Trade[t].leader] = @ + usd] \in [Leaders -> Nat]
      BY <1>1, <3>1 DEF Day
    <3>3. QED BY <1>1, <2>1, <3>1, <3>2 DEF Day
  <2>3. QED BY <1>1, <1>2, <2>1, <2>2
<1>4. CASE ~Buys(t)
  <2>1. /\ recent' = recent
        /\ today' = [today EXCEPT !.pnl = @ + Pnl(t, n)]
    BY <1>4 DEF ApplyFill
  <2> HIDE DEF usd
  <2>2. today.pnl + Pnl(t, n) \in Int
    BY <1>1, PnlType DEF Day
  <2>3. today' \in Day
    BY <1>1, <2>1, <2>2 DEF Day
  <2>4. QED BY <1>1, <1>2, <2>1, <2>3
<1>5. QED BY <1>3, <1>4

\* The records a step gives to cyc.
LEMMA CycleTypes ==
  ASSUME TypeOK
  PROVE  /\ cyc \in Cycle /\ IdleCycle \in Cycle /\ Placed \in Cycle
         /\ [IdleCycle EXCEPT !.pc = "pending"] \in Cycle
<1>1. cyc \in Cycle
  BY DEF TypeOK, Cycle, Side
<1>2. IdleCycle \in Cycle
  <2>1. NoSides \in [Tokens -> Side]
    BY DEF NoSides, Side
  <2>2. <<>> \in Seq(Trades)
    OBVIOUS
  <2>3. QED BY <2>1, <2>2 DEF IdleCycle, Cycle
<1>3. [IdleCycle EXCEPT !.pc = "pending"] \in Cycle
  BY <1>2 DEF Cycle
<1>4. Placed \in Cycle
  BY <1>1 DEF Placed, Cycle
<1>5. QED BY <1>1, <1>2, <1>3, <1>4

LEMMA TurnTypes ==
  ASSUME TypeOK, NEW t \in Trades, Turn(t)
  PROVE  /\ Advanced \in Cycle /\ Passed(t) \in Cycle
         /\ Advanced.pc = "queue" /\ Passed(t).pc = "queue"
<1>1. cyc \in Cycle /\ cyc.pc = "queue"
  BY CycleTypes DEF Turn
<1>2. cyc.queue \in Seq(Trades) /\ cyc.queue # <<>>
  BY <1>1 DEF Turn, Cycle
<1>3. Tail(cyc.queue) \in Seq(Trades)
  BY <1>2
<1>4. Advanced \in Cycle /\ Advanced.pc = "queue"
  BY <1>1, <1>3 DEF Advanced, Cycle
<1>5. SidesAfter(t) \in [Tokens -> Side]
  <2>1. cyc.sides \in [Tokens -> Side] /\ Trade[t].token \in Tokens
    BY <1>1, TradeType DEF Cycle
  <2>2. [leader |-> Trade[t].leader, side |-> Trade[t].side] \in Side
    BY ConstantsOK DEF Side
  <2>3. QED BY <2>1, <2>2 DEF SidesAfter
<1>6. Passed(t) \in Cycle /\ Passed(t).pc = "queue"
  BY <1>1, <1>3, <1>5 DEF Passed, Cycle
<1>7. QED BY <1>4, <1>6

\* Every order has a size.
LEMMA SizeType ==
  ASSUME TypeOK, NEW t \in Trades
  PROVE  Size(t) \in Nat \ {0}
<1>1. /\ Held(t).shares \in Nat /\ Held(t).cost \in Int /\ Trade[t].price \in Nat \ {0}
      /\ Trade[t].usd \in Nat /\ PositionCap[Trade[t].leader] \in Nat
  BY HeldType, TradeType, ConstantsOK
<1>2. HeldUsd(t) \in Int
  <2>1. Held(t).shares * Trade[t].price \in Int
    BY <1>1
  <2>2. QED BY <1>1, <2>1 DEF HeldUsd
<1>3. Usd(t) \in Int
  BY <1>1, <1>2 DEF Usd, Least
<1>4. RoundDiv(Usd(t), Trade[t].price) \in Int
  BY <1>1, <1>3, RoundDivInt
<1>5. QED BY <1>4 DEF Size

-----------------------------------------------------------------------------
(* Type correctness                                                        *)

TypeInv == TypeOK /\ ControlInv

LEMMA TypeInit == Init => TypeInv
<1> SUFFICES ASSUME Init PROVE TypeInv
  OBVIOUS
<1>1. IdleCycle \in Cycle
  <2>1. NoSides \in [Tokens -> Side]
    BY DEF NoSides, Side
  <2>2. <<>> \in Seq(Trades)
    OBVIOUS
  <2>3. QED BY <2>1, <2>2 DEF IdleCycle, Cycle
<1>2. today \in Day
  BY DEF Init, NewDayRow, Day
<1>3. past \in [pnl : Int, days : 0..Days]
  BY ConstantsOK DEF Init
<1>4. QED BY <1>1, <1>2, <1>3, ConstantsOK
         DEF Init, TypeInv, TypeOK, ControlInv, Cycle, Side, Day, IdleCycle

\* What is left to check of a step.
LEMMA TypeFrame ==
  ASSUME TypeOK, cyc' \in Cycle, seen' \subseteq Trades, bought' \subseteq Pairs,
         resting' \in [Trades -> Nat], orders' \in [Trades -> Nat],
         lost' \in [Recoveries -> Orphan],
         cyc'.pc = "place" => cyc'.trade \in Trades /\ cyc'.size > 0,
         pos' \in [Pairs -> Position], recent' \subseteq Pairs, today' \in Day,
         cash' \in Int, past' \in [pnl : Int, days : 0..Days]
  PROVE  TypeInv'
  BY DEF TypeInv, TypeOK, ControlInv, Cycle, Side, Day, Position, Orphan

LEMMA TypeParts ==
  ASSUME TypeOK
  PROVE  /\ seen \subseteq Trades /\ bought \subseteq Pairs /\ recent \subseteq Pairs
         /\ resting \in [Trades -> Nat] /\ orders \in [Trades -> Nat]
         /\ lost \in [Recoveries -> Orphan] /\ pos \in [Pairs -> Position]
         /\ today \in Day /\ cash \in Int /\ past \in [pnl : Int, days : 0..Days]
  BY DEF TypeOK, Position, Day, Orphan

\* The kinds of steps: of the cycle between trades, of the answer to an order, and
\* of the exchange.
CycleStep == StartCycle \/ GateCloses \/ GatePasses \/ PollLeaders \/ EndCycle \/ Crash
AnswerStep == RecordPreview \/ RecordLive \/ PlaceFails \/ \E o \in Trades : RecordFound(o)
LossStep == \E r \in Recoveries : AdoptOrphan(r) \/ LoseAnswer(r)
RestingStep == \E t \in Trades : BookFill(t) \/ DropResting(t)

LEMMA StepKinds ==
  Next <=> Outside \/ CycleStep \/ AnswerStep \/ LossStep \/ RestingStep
             \/ \E t \in Trades : Decide(t)
  BY DEF Next, CycleStep, AnswerStep, LossStep, RestingStep

\* The clock and the dashboard keep the types.
LEMMA TypeOutside ==
  ASSUME TypeInv, Outside
  PROVE  TypeInv'
<1> USE TypeParts DEF TypeInv
<1>0. cyc' = cyc
  BY DEF Outside, NewDay, ResetKillSwitch, WindowPasses
<1>1. cyc' \in Cycle /\ (cyc'.pc = "place" => cyc'.trade \in Trades /\ cyc'.size > 0)
  BY <1>0, CycleTypes DEF ControlInv
<1>2. CASE NewDay
  <2>1. NewDayRow \in Day
    BY DEF NewDayRow, Day
  <2>2. past.pnl + today.pnl \in Int /\ past.days + 1 \in 0..Days
    BY <1>2, ConstantsOK DEF NewDay, Day
  <2>3. past' \in [pnl : Int, days : 0..Days]
    BY <1>2, <2>2 DEF NewDay
  <2>4. QED BY <1>1, <1>2, <2>1, <2>3, TypeFrame DEF NewDay
<1>3. CASE ResetKillSwitch
  <2>1. today' \in Day
    BY <1>3 DEF ResetKillSwitch, Day
  <2>2. QED BY <1>1, <1>3, <2>1, TypeFrame DEF ResetKillSwitch
<1>4. ASSUME NEW p \in Pairs, WindowPasses(p) PROVE TypeInv'
  <2>1. recent' \subseteq Pairs /\ bought' \subseteq Pairs
    BY <1>4 DEF WindowPasses
  <2>2. QED BY <1>1, <1>4, <2>1, TypeFrame DEF WindowPasses
<1>5. QED BY <1>2, <1>3, <1>4 DEF Outside

LEMMA QueueSeq ==
  ASSUME NEW S \in SUBSET Trades, NEW q \in [1..Cardinality(S) -> S]
  PROVE  q \in Seq(Trades)
<1>1. Cardinality(S) \in Nat
  BY ConstantsOK, FS_Subset, FS_CardinalityType
<1>2. q \in [1..Cardinality(S) -> Trades]
  OBVIOUS
<1>3. QED BY <1>1, <1>2, SeqDef

\* Starting, gating, polling and ending a cycle, and its death, keep the types.
LEMMA TypeCycle ==
  ASSUME TypeInv, CycleStep
  PROVE  TypeInv'
<1> USE TypeParts, CycleTypes DEF TypeInv
<1>1. IdleCycle.pc # "place" /\ [IdleCycle EXCEPT !.pc = "pending"].pc # "place"
  BY DEF IdleCycle
<1>2. CASE StartCycle
  BY <1>1, <1>2, TypeFrame DEF StartCycle
<1>3. CASE GateCloses
  <2>1. today' \in Day
    BY <1>3 DEF GateCloses, Day
  <2>2. QED BY <1>1, <1>3, <2>1, TypeFrame DEF GateCloses
<1>4. CASE PollLeaders
  <2>1. PICK S \in SUBSET Trades : \E q \in [1..Cardinality(S) -> S] :
          cyc' = [cyc EXCEPT !.pc = "queue", !.queue = q]
    BY <1>4 DEF PollLeaders, Feed
  <2>2. PICK q \in [1..Cardinality(S) -> S] :
          cyc' = [cyc EXCEPT !.pc = "queue", !.queue = q]
    BY <2>1
  <2>4. q \in Seq(Trades)
    BY QueueSeq
  <2>5. cyc \in Cycle
    BY CycleTypes
  <2> HIDE DEF TypeInv
  <2>6. cyc' \in Cycle /\ cyc'.pc = "queue"
    <3>1. /\ cyc'.pc = "queue" /\ cyc'.queue = q /\ cyc'.sides = cyc.sides
          /\ cyc'.trade = cyc.trade /\ cyc'.size = cyc.size /\ cyc'.copied = cyc.copied
      BY <2>2, <2>5 DEF Cycle
    <3>2. cyc' = [pc |-> "queue", queue |-> q, sides |-> cyc.sides, trade |-> cyc.trade,
                  size |-> cyc.size, copied |-> cyc.copied]
      BY <2>2, <2>5 DEF Cycle
    <3>3. QED BY <2>4, <2>5, <3>2 DEF Cycle
  <2>7. QED BY <1>4, <2>6, TypeFrame DEF PollLeaders, TypeInv
<1>5. CASE EndCycle \/ Crash
  BY <1>1, <1>5, TypeFrame DEF EndCycle, Crash
<1>6. CASE GatePasses
  <2>1. cyc' \in Cycle /\ cyc'.pc = "gated"
    BY <1>6 DEF GatePasses, Cycle
  <2>2. QED BY <1>6, <2>1, TypeFrame DEF GatePasses
<1>7. QED BY <1>2, <1>3, <1>4, <1>5, <1>6 DEF CycleStep

\* Deciding on a trade keeps the types.
LEMMA TypeDecide ==
  ASSUME TypeInv, NEW t \in Trades, Decide(t)
  PROVE  TypeInv'
<1> USE TypeParts DEF TypeInv
<1>0. Turn(t)
  BY DEF Decide, Filtered, AlreadyHandled, LosesConflict, BelowMinimum, RiskRefuses,
     Uncovered, PlaceOrder, Considered, Fresh
<1>1. /\ Advanced \in Cycle /\ Passed(t) \in Cycle
      /\ Advanced.pc = "queue" /\ Passed(t).pc = "queue"
  BY <1>0, TurnTypes
<1>2. CASE Filtered(t) \/ AlreadyHandled(t) \/ LosesConflict(t)
  BY <1>1, <1>2, TypeFrame DEF Filtered, AlreadyHandled, LosesConflict
<1>3. CASE BelowMinimum(t) \/ RiskRefuses(t) \/ Uncovered(t)
  <2>1. cyc' = Passed(t) /\ seen' \subseteq Trades
    BY <1>3 DEF BelowMinimum, RiskRefuses, Uncovered
  <2>2. QED BY <1>1, <1>3, <2>1, TypeFrame DEF BelowMinimum, RiskRefuses, Uncovered
<1>4. CASE PlaceOrder(t)
  <2>1. cyc' = [Passed(t) EXCEPT !.pc = "place", !.trade = t, !.size = Size(t)]
    BY <1>4 DEF PlaceOrder
  <2>2. Size(t) \in Nat \ {0}
    BY SizeType
  <2>3. cyc' \in Cycle /\ cyc'.trade = t /\ cyc'.size = Size(t)
    <3> HIDE DEF TypeInv
    <3>1. /\ Passed(t) \in Cycle /\ Size(t) \in Nat
      BY <1>1, <2>2
    <3>2. cyc' = [pc |-> "place", queue |-> Passed(t).queue, sides |-> Passed(t).sides,
                  trade |-> t, size |-> Size(t), copied |-> Passed(t).copied]
      BY <2>1, <3>1 DEF Cycle
    <3>3. QED BY <3>1, <3>2 DEF Cycle
  <2>4. QED BY <1>4, <2>2, <2>3, TypeFrame DEF PlaceOrder
<1>5. QED BY <1>2, <1>3, <1>4 DEF Decide

\* What recording the order in hand changes.
LEMMA PlacedTypes ==
  ASSUME TypeInv, cyc.pc = "place"
  PROVE  /\ cyc.trade \in Trades /\ seen \cup {cyc.trade} \subseteq Trades
         /\ cyc.size \in Nat \ {0}
         /\ Placed \in Cycle /\ Placed.pc = "queue"
         /\ [Placed EXCEPT !.copied = Append(@, cyc.trade)] \in Cycle
         /\ [Placed EXCEPT !.copied = Append(@, cyc.trade)].pc = "queue"
         /\ Remembered(cyc.trade) => bought' \subseteq Pairs
         /\ Ordered(cyc.trade) => orders' \in [Trades -> Nat]
<1>1. cyc \in Cycle /\ Placed \in Cycle /\ Placed.pc = "queue"
  BY CycleTypes DEF TypeInv, Placed, Cycle
<1>2. cyc.trade \in Trades /\ cyc.size \in Nat \ {0} /\ seen \subseteq Trades
  BY <1>1, TypeParts DEF TypeInv, ControlInv, Cycle
<1>3. Append(Placed.copied, cyc.trade) \in Seq(Trades)
  BY <1>1, <1>2 DEF Cycle
<1>4. /\ [Placed EXCEPT !.copied = Append(@, cyc.trade)] \in Cycle
      /\ [Placed EXCEPT !.copied = Append(@, cyc.trade)].pc = "queue"
  BY <1>1, <1>3 DEF Cycle
<1>5. Remembered(cyc.trade) => bought' \subseteq Pairs
  BY <1>2, TradeType, TypeParts DEF TypeInv, Remembered
<1>6. Ordered(cyc.trade) => orders' \in [Trades -> Nat]
  <2>1. orders \in [Trades -> Nat]
    BY TypeParts DEF TypeInv
  <2>2. QED BY <1>2, <2>1 DEF Ordered
<1>7. QED BY <1>1, <1>2, <1>4, <1>5, <1>6

LEMMA AcceptedTypes ==
  ASSUME TypeInv, cyc.pc = "place", NEW n \in 0..cyc.size, Accepted(n)
  PROVE  /\ cyc' \in Cycle /\ cyc'.pc = "queue"
         /\ cyc' \in {Placed, [Placed EXCEPT !.copied = Append(@, cyc.trade)]}
         /\ seen' \subseteq Trades /\ bought' \subseteq Pairs
         /\ pos' \in [Pairs -> Position] /\ recent' \subseteq Pairs
         /\ today' \in Day /\ cash' \in Int /\ past' \in [pnl : Int, days : 0..Days]
<1>1. /\ cyc.trade \in Trades /\ seen \cup {cyc.trade} \subseteq Trades
      /\ cyc.size \in Nat /\ n \in Nat
      /\ Placed \in Cycle /\ Placed.pc = "queue"
      /\ [Placed EXCEPT !.copied = Append(@, cyc.trade)] \in Cycle
      /\ [Placed EXCEPT !.copied = Append(@, cyc.trade)].pc = "queue"
  BY PlacedTypes
<1>2. cyc' = [Placed EXCEPT !.copied = IF n > 0 THEN Append(@, cyc.trade) ELSE @]
  BY DEF Accepted
<1>3. cyc' \in {Placed, [Placed EXCEPT !.copied = Append(@, cyc.trade)]}
  BY <1>1, <1>2 DEF Cycle
<1>4. /\ pos' \in [Pairs -> Position] /\ recent' \subseteq Pairs
      /\ today' \in Day /\ cash' \in Int
  <2>1. CASE n > 0
    BY <1>1, <2>1, FillType DEF Accepted, TypeInv
  <2>2. CASE ~(n > 0)
    BY <2>2, TypeParts DEF Accepted, TypeInv
  <2>3. QED BY <2>1, <2>2
<1>5. seen' \subseteq Trades /\ bought' \subseteq Pairs /\ past' = past
  BY <1>1, PlacedTypes DEF Accepted, SeenAfter
<1>6. QED BY <1>1, <1>3, <1>4, <1>5, TypeParts DEF TypeInv

\* The answer to an order keeps the types.
LEMMA TypeAnswer ==
  ASSUME TypeInv, AnswerStep
  PROVE  TypeInv'
<1> USE TypeParts DEF TypeInv
<1>0. cyc.pc = "place"
  BY DEF AnswerStep, RecordPreview, RecordLive, PlaceFails, RecordFound
<1>1. /\ cyc.trade \in Trades /\ seen \cup {cyc.trade} \subseteq Trades
      /\ cyc.size \in Nat \ {0}
      /\ Placed \in Cycle /\ Placed.pc = "queue"
  BY <1>0, PlacedTypes
<1>2. CASE RecordPreview
  <2>1. cyc' = [Placed EXCEPT !.copied = Append(@, cyc.trade)]
    BY <1>2 DEF RecordPreview
  <2>2. cyc' \in Cycle /\ cyc'.pc = "queue"
    BY <1>0, <2>1, PlacedTypes
  <2>3. /\ pos' \in [Pairs -> Position] /\ recent' \subseteq Pairs
        /\ today' \in Day /\ cash' \in Int
    BY <1>1, <1>2, FillType DEF RecordPreview
  <2>4. bought' \subseteq Pairs /\ seen' \subseteq Trades /\ orders' \in [Trades -> Nat]
    BY <1>0, <1>1, <1>2, PlacedTypes DEF RecordPreview
  <2>5. QED BY <1>2, <2>2, <2>3, <2>4, TypeFrame DEF RecordPreview
<1>3. CASE RecordLive
  <2>1. PICK n \in 0..cyc.size :
          /\ Accepted(n)
          /\ \E rest \in {0, cyc.size - n} : resting' = [resting EXCEPT ![cyc.trade] = rest]
    BY <1>3 DEF RecordLive
  <2>2. resting' \in [Trades -> Nat]
    BY <1>1, <2>1
  <2>3. orders' \in [Trades -> Nat] /\ lost' = lost
    BY <1>0, <1>3, PlacedTypes DEF RecordLive
  <2>4. QED BY <1>0, <2>1, <2>2, <2>3, AcceptedTypes, TypeFrame
<1>4. ASSUME NEW o \in Trades, RecordFound(o) PROVE TypeInv'
  <2>1. PICK n \in 0..cyc.size :
          /\ Accepted(n)
          /\ \/ /\ o \in Recoveries /\ lost[o].open > 0
                /\ lost' = [lost EXCEPT ![o].open = 0]
                /\ resting' = [resting EXCEPT ![cyc.trade] = cyc.size - n]
             \/ /\ resting[o] > 0
                /\ \E rest \in 1..resting[o] : resting' = [resting EXCEPT ![o] = rest]
                /\ UNCHANGED lost
    BY <1>4 DEF RecordFound
  <2>2. resting' \in [Trades -> Nat]
    BY <1>1, <2>1
  <2>3. lost' \in [Recoveries -> Orphan]
    BY <2>1 DEF Orphan
  <2>4. orders' = orders
    BY <1>4 DEF RecordFound
  <2>5. QED BY <1>0, <2>1, <2>2, <2>3, <2>4, AcceptedTypes, TypeFrame
<1>5. CASE PlaceFails
  <2>1. cyc' = Placed /\ seen' \subseteq Trades
    BY <1>1, <1>5 DEF PlaceFails
  <2>2. QED BY <1>1, <1>5, <2>1, TypeFrame DEF PlaceFails
<1>6. QED BY <1>2, <1>3, <1>4, <1>5 DEF AnswerStep

\* Losing an answer, and adopting the order left behind, keep the types.
LEMMA TypeLoss ==
  ASSUME TypeInv, LossStep
  PROVE  TypeInv'
<1> USE TypeParts DEF TypeInv
<1>0. cyc' = cyc
  BY DEF LossStep, AdoptOrphan, LoseAnswer
<1>1. cyc' \in Cycle /\ (cyc'.pc = "place" => cyc'.trade \in Trades /\ cyc'.size > 0)
  BY <1>0, CycleTypes DEF ControlInv
<1>2. ASSUME NEW r \in Recoveries, AdoptOrphan(r) PROVE TypeInv'
  <2>1. r \in Trades
    BY ConstantsOK
  <2>2. lost' \in [Recoveries -> Orphan] /\ resting' \in [Trades -> Nat]
    BY <1>2, <2>1 DEF AdoptOrphan, Orphan
  <2>3. QED BY <1>1, <1>2, <2>2, TypeFrame DEF AdoptOrphan
<1>3. ASSUME NEW r \in Recoveries, LoseAnswer(r) PROVE TypeInv'
  <2>1. cyc.pc = "place"
    BY <1>3 DEF LoseAnswer
  <2>2. cyc.trade \in Trades /\ cyc.size \in Nat
    BY <2>1, PlacedTypes
  <2>3. PICK n \in {0, cyc.size} : lost' = [lost EXCEPT ![r] = [of |-> cyc.trade, open |-> n]]
    BY <1>3 DEF LoseAnswer
  <2>4. [of |-> cyc.trade, open |-> n] \in Orphan
    BY <2>2 DEF Orphan
  <2>5. lost' \in [Recoveries -> Orphan]
    BY <2>3, <2>4
  <2>6. orders' \in [Trades -> Nat]
    BY <1>3, <2>1, PlacedTypes DEF LoseAnswer
  <2>7. QED BY <1>1, <1>3, <2>5, <2>6, TypeFrame DEF LoseAnswer
<1>4. QED BY <1>2, <1>3 DEF LossStep

\* Booking a fill of a resting order, or its end, keeps the types.
LEMMA TypeResting ==
  ASSUME TypeInv, RestingStep
  PROVE  TypeInv'
<1> USE TypeParts DEF TypeInv
<1>0. cyc \in Cycle
  BY CycleTypes
<1>6. ASSUME NEW t \in Trades, BookFill(t) PROVE TypeInv'
  <2>1. PICK n \in 1..resting[t] :
          /\ ApplyFill(t, n)
          /\ \E rest \in {0, resting[t] - n} : resting' = [resting EXCEPT ![t] = rest]
    BY <1>6 DEF BookFill
  <2>2. resting[t] \in Nat /\ n \in Nat \ {0} /\ n <= resting[t]
    BY <2>1
  <2>3. resting' \in [Trades -> Nat]
    BY <2>1, <2>2
  <2>4. /\ pos' \in [Pairs -> Position] /\ recent' \subseteq Pairs
        /\ today' \in Day /\ cash' \in Int
    BY <2>1, <2>2, FillType
  <2>5. cyc' \in Cycle /\ cyc'.pc = "pending"
    BY <1>0, <1>6 DEF BookFill
  <2>6. QED BY <1>6, <2>3, <2>4, <2>5, TypeFrame DEF BookFill
<1>7. ASSUME NEW t \in Trades, DropResting(t) PROVE TypeInv'
  <2>1. cyc' \in Cycle /\ cyc'.pc = "pending" /\ resting' \in [Trades -> Nat]
    BY <1>0, <1>7 DEF DropResting
  <2>2. QED BY <1>7, <2>1, TypeFrame DEF DropResting
<1>8. QED BY <1>6, <1>7 DEF RestingStep

LEMMA TypeStep == TypeInv /\ [Next]_vars => TypeInv'
<1> SUFFICES ASSUME TypeInv, [Next]_vars PROVE TypeInv'
  OBVIOUS
<1>1. CASE UNCHANGED vars
  BY <1>1 DEF vars, TypeInv, TypeOK, ControlInv
<1>2. CASE Next
  BY <1>2, StepKinds, TypeOutside, TypeCycle, TypeDecide, TypeAnswer, TypeLoss, TypeResting
<1>3. QED BY <1>1, <1>2

LEMMA TypeInvariant == Spec => []TypeInv
<1>1. QED BY TypeInit, TypeStep, PTL DEF Spec

\* Every variable of the pipeline keeps its type, for any trades and limits.
THEOREM TypeCorrect == Spec => []TypeOK
<1>1. TypeInv => TypeOK
  BY DEF TypeInv
<1>2. QED BY TypeInvariant, <1>1, PTL

-----------------------------------------------------------------------------
(* Preview: the budgets an order was checked against                       *)

LEMMA OpenMarketsFinite ==
  /\ IsFiniteSet(OpenMarkets) /\ Cardinality(OpenMarkets) \in Nat
  /\ OpenMarkets \subseteq Tokens
<1>1. OpenMarkets \subseteq Tokens
  BY DEF OpenMarkets
<1>2. QED BY <1>1, ConstantsOK, FS_Subset, FS_CardinalityType

LEMMA DayParts ==
  ASSUME TypeOK
  PROVE  /\ today.volume \in Nat /\ cash \in Int
         /\ \A l \in Leaders : today.byLeader[l] \in Nat
  BY DEF TypeOK

\* A day or a reset only widens what an order was checked against.
LEMMA FitsKept ==
  ASSUME TypeOK, NEW t \in Trades, NEW n \in Nat, Fits(t, n),
         TypeOK', today'.volume <= today.volume,
         \A l \in Leaders : today'.byLeader[l] <= today.byLeader[l],
         cash' = cash, pos' = pos
  PROVE  Fits(t, n)'
<1> DEFINE usd == n * Trade[t].price
           l == Trade[t].leader
<1>1. l \in Leaders /\ usd \in Nat
  BY TradeType, Products
<1>2. /\ today.volume \in Nat /\ today'.volume \in Nat
      /\ today.byLeader[l] \in Nat /\ today'.byLeader[l] \in Nat
  BY <1>1 DEF TypeOK
<1>3. /\ MaxVolume \in Nat /\ LeaderVolume[l] \in Nat
  BY <1>1, ConstantsOK
<1>4. OpenMarkets' = OpenMarkets
  BY DEF OpenMarkets
<1>5. today'.byLeader[l] <= today.byLeader[l]
  BY <1>1
<1>6. ASSUME Buys(t)
      PROVE  /\ today.volume + usd <= MaxVolume
             /\ today.byLeader[l] + usd <= LeaderVolume[l]
             /\ cash + Cent >= usd
             /\ Cardinality(OpenMarkets) < MaxMarkets \/ Trade[t].token \in OpenMarkets
  BY <1>6 DEF Fits
<1> HIDE DEF usd
<1>7. ASSUME Buys(t)
      PROVE  /\ today'.volume + usd <= MaxVolume
             /\ today'.byLeader[l] + usd <= LeaderVolume[l]
  BY <1>1, <1>2, <1>3, <1>5, <1>6, <1>7
<1>8. QED BY <1>4, <1>6, <1>7 DEF Fits, usd, Buys

\* A fill opens at most the market of its token.
LEMMA MarketsAfterFill ==
  ASSUME TypeOK, NEW t \in Trades, NEW n \in Nat \ {0}, ApplyFill(t, n)
  PROVE  OpenMarkets' \subseteq
           IF Buys(t) THEN OpenMarkets \cup {Trade[t].token} ELSE OpenMarkets
<1>1. /\ pos \in [Pairs -> Position] /\ PairOf(t) \in Pairs
      /\ pos' = [pos EXCEPT ![PairOf(t)] = PositionAfter(t, n)]
  BY TradeType, TypeParts DEF ApplyFill, CashAfter
<1> SUFFICES ASSUME NEW tok \in Tokens, NEW l \in Leaders, pos'[<<l, tok>>].shares > 0,
                    ~(Buys(t) /\ tok = Trade[t].token)
             PROVE  tok \in OpenMarkets
  BY DEF OpenMarkets
<1>2. <<l, tok>> \in Pairs
  BY DEF Pairs
<1>3. CASE <<l, tok>> # PairOf(t)
  BY <1>1, <1>2, <1>3 DEF OpenMarkets
<1>4. CASE <<l, tok>> = PairOf(t)
  <2>1. ~Buys(t)
    BY <1>4 DEF PairOf
  <2>2. pos'[<<l, tok>>] = PositionAfter(t, n)
    BY <1>1, <1>4
  <2>3. pos'[<<l, tok>>].shares = Held(t).shares - Sold(t, n)
    BY <2>1, <2>2 DEF PositionAfter
  <2>4. Held(t).shares \in Nat /\ Sold(t, n) \in Nat
    BY HeldType DEF Sold, Least
  <2>5. Held(t).shares > 0
    BY <2>3, <2>4
  <2>6. QED BY <1>4, <2>5 DEF Held, OpenMarkets
<1>5. QED BY <1>3, <1>4

\* Booking the order a cycle has just checked keeps every budget.
LEMMA BudgetAfterFill ==
  ASSUME Preview, TypeOK, NEW t \in Trades, NEW n \in Nat \ {0}, ApplyFill(t, n),
         Fits(t, n), VolumeWithinCaps, cash >= -Cent, MarketsWithinCap
  PROVE  VolumeWithinCaps' /\ cash' >= -Cent /\ MarketsWithinCap'
<1> DEFINE usd == n * Trade[t].price
<1>1. Trade[t].leader \in Leaders /\ usd \in Nat /\ today \in Day /\ cash \in Int
  BY TradeType, Products, TypeParts
<1>2. /\ MaxVolume \in Nat /\ LeaderVolume \in [Leaders -> Nat] /\ MaxMarkets \in Nat
      /\ Cent \in Nat
  BY ConstantsOK
<1>3. CASE Buys(t)
  <2>1. /\ today' = [today EXCEPT !.volume = @ + usd,
                                  !.byLeader[Trade[t].leader] = @ + usd]
        /\ cash' = ToCents(cash - usd)
    BY <1>3 DEF ApplyFill, CashAfter
  <2>2. /\ today.volume + usd <= MaxVolume
        /\ today.byLeader[Trade[t].leader] + usd <= LeaderVolume[Trade[t].leader]
        /\ cash + Cent >= usd
        /\ Cardinality(OpenMarkets) < MaxMarkets \/ Trade[t].token \in OpenMarkets
    BY <1>3 DEF Fits
  <2> HIDE DEF usd
  <2>3. VolumeWithinCaps'
    <3>1. today'.volume = today.volume + usd
      BY <1>1, <2>1 DEF Day
    <3>2. \A l \in Leaders : today'.byLeader[l] =
            IF l = Trade[t].leader THEN today.byLeader[l] + usd ELSE today.byLeader[l]
      BY <1>1, <2>1 DEF Day
    <3>3. QED BY <2>2, <3>1, <3>2 DEF VolumeWithinCaps
  <2>4. cash' >= -Cent
    <3>1. cash - usd \in Int /\ cash - usd >= -Cent
      BY <1>1, <1>2, <2>2
    <3>2. QED BY <2>1, <3>1, ToCentsFloor
  <2>5. MarketsWithinCap'
    <3> DEFINE more == OpenMarkets \cup {Trade[t].token}
    <3>1. OpenMarkets' \subseteq more
      BY <1>3, MarketsAfterFill
    <3>2. IsFiniteSet(more) /\ Cardinality(more) <= MaxMarkets
      <4>1. CASE Trade[t].token \in OpenMarkets
        <5>1. more = OpenMarkets
          BY <4>1
        <5>2. QED BY <5>1, OpenMarketsFinite DEF MarketsWithinCap
      <4>2. CASE Trade[t].token \notin OpenMarkets
        <5>1. IsFiniteSet(more) /\ Cardinality(more) = Cardinality(OpenMarkets) + 1
          BY <4>2, OpenMarketsFinite, FS_AddElement
        <5>2. QED BY <1>2, <2>2, <4>2, <5>1, OpenMarketsFinite
      <4>3. QED BY <4>1, <4>2
    <3> HIDE DEF more
    <3>3. Cardinality(OpenMarkets') <= Cardinality(more)
      BY <3>1, <3>2, FS_Subset
    <3>4. IsFiniteSet(OpenMarkets') /\ Cardinality(OpenMarkets') \in Nat
      BY <3>1, <3>2, FS_Subset, FS_CardinalityType
    <3>5. Cardinality(more) \in Nat
      BY <3>2, FS_CardinalityType
    <3>6. Cardinality(OpenMarkets') <= MaxMarkets
      BY <1>2, <3>2, <3>3, <3>4, <3>5
    <3>7. QED BY <3>6 DEF MarketsWithinCap
  <2>6. QED BY <2>3, <2>4, <2>5
<1>4. CASE ~Buys(t)
  <2>1. today' = [today EXCEPT !.pnl = @ + Pnl(t, n)] /\ cash' = ToCents(cash + usd)
    BY <1>4 DEF ApplyFill, CashAfter
  <2> HIDE DEF usd
  <2>2. today'.volume = today.volume /\ today'.byLeader = today.byLeader
    BY <1>1, <2>1 DEF Day
  <2>3. VolumeWithinCaps'
    BY <2>2 DEF VolumeWithinCaps
  <2>4. cash' >= -Cent
    <3>1. cash + usd \in Int /\ cash + usd >= -Cent
      BY <1>1, <1>2
    <3>2. QED BY <2>1, <3>1, ToCentsFloor
  <2>5. OpenMarkets' \subseteq OpenMarkets
    BY <1>4, MarketsAfterFill
  <2>6. /\ Cardinality(OpenMarkets') <= Cardinality(OpenMarkets)
        /\ Cardinality(OpenMarkets') \in Nat
    BY <2>5, OpenMarketsFinite, FS_Subset, FS_CardinalityType
  <2>7. Cardinality(OpenMarkets') <= MaxMarkets
    BY <1>2, <2>6, OpenMarketsFinite DEF MarketsWithinCap
  <2>8. QED BY <2>3, <2>4, <2>7 DEF MarketsWithinCap
<1>5. QED BY <1>3, <1>4

PaperInv == TypeInv /\ BudgetInv

LEMMA PaperInit == Preview /\ Init => PaperInv
<1> SUFFICES ASSUME Init PROVE BudgetInv
  BY TypeInit DEF PaperInv
<1>1. VolumeWithinCaps
  BY ConstantsOK DEF Init, NewDayRow, VolumeWithinCaps
<1>2. OpenMarkets = {}
  <2>1. ASSUME NEW l \in Leaders, NEW tok \in Tokens
        PROVE  ~(pos[<<l, tok>>].shares > 0)
    <3>1. <<l, tok>> \in Pairs
      BY DEF Pairs
    <3>2. pos[<<l, tok>>].shares = 0
      BY <3>1 DEF Init
    <3>3. QED BY <3>2
  <2>2. QED BY <2>1, Zenon DEF OpenMarkets
<1>3. MarketsWithinCap
  BY <1>2, ConstantsOK, FS_EmptySet DEF MarketsWithinCap
<1>4. /\ cash >= -Cent /\ cyc.pc = "idle" /\ \A t \in Trades : resting[t] = 0
      /\ \A r \in Recoveries : lost[r].open = 0
  BY ConstantsOK DEF Init, IdleCycle
<1>5. QED BY <1>1, <1>3, <1>4 DEF BudgetInv

\* A step that leaves the budgets alone, or widens them.
LEMMA PaperFrame ==
  ASSUME PaperInv, pos' = pos, resting' = resting, lost' = lost, cash' = cash,
         today' = today \/ today' = NewDayRow \/ today' = [today EXCEPT !.kill = TRUE]
           \/ today' = [today EXCEPT !.kill = FALSE]
  PROVE  /\ VolumeWithinCaps' /\ cash' >= -Cent /\ MarketsWithinCap'
         /\ \A t \in Trades : resting'[t] = 0
         /\ \A r \in Recoveries : lost'[r].open = 0
         /\ today'.volume <= today.volume
         /\ \A l \in Leaders : today'.byLeader[l] <= today.byLeader[l]
<1>1. /\ today \in Day /\ today.volume \in Nat
      /\ \A l \in Leaders : today.byLeader[l] \in Nat
  BY TypeParts DEF PaperInv, TypeInv, Day
<1>2. /\ today'.volume \in {0, today.volume}
      /\ \A l \in Leaders : today'.byLeader[l] \in {0, today.byLeader[l]}
  BY <1>1 DEF NewDayRow, Day
<1>3. VolumeWithinCaps'
  BY <1>2, ConstantsOK DEF VolumeWithinCaps, PaperInv, BudgetInv
<1>4. OpenMarkets' = OpenMarkets
  BY DEF OpenMarkets
<1>5. MarketsWithinCap'
  BY <1>4 DEF MarketsWithinCap, PaperInv, BudgetInv
<1>6. /\ cash' >= -Cent /\ \A t \in Trades : resting'[t] = 0
      /\ \A r \in Recoveries : lost'[r].open = 0
  BY DEF PaperInv, BudgetInv
<1>7. /\ today'.volume <= today.volume
      /\ \A l \in Leaders : today'.byLeader[l] <= today.byLeader[l]
  BY <1>1, <1>2
<1>8. QED BY <1>3, <1>5, <1>6, <1>7

LEMMA PaperOutside ==
  ASSUME PaperInv, Outside
  PROVE  PaperInv'
<1>1. TypeInv /\ TypeInv'
  BY TypeOutside DEF PaperInv
<1>2. /\ pos' = pos /\ resting' = resting /\ lost' = lost /\ cash' = cash /\ cyc' = cyc
      /\ today' = today \/ today' = NewDayRow \/ today' = [today EXCEPT !.kill = FALSE]
  BY DEF Outside, NewDay, ResetKillSwitch, WindowPasses
<1>3. /\ VolumeWithinCaps' /\ cash' >= -Cent /\ MarketsWithinCap'
      /\ \A t \in Trades : resting'[t] = 0
      /\ \A r \in Recoveries : lost'[r].open = 0
      /\ today'.volume <= today.volume
      /\ \A l \in Leaders : today'.byLeader[l] <= today.byLeader[l]
  BY <1>2, PaperFrame
<1>4. ASSUME cyc.pc = "place" PROVE Fits(cyc.trade, cyc.size)'
  <2>1. cyc.trade \in Trades /\ cyc.size \in Nat
    BY <1>1, <1>4 DEF TypeInv, TypeOK, ControlInv
  <2>2. Fits(cyc.trade, cyc.size)
    BY <1>4 DEF PaperInv, BudgetInv
  <2>3. \A t \in Trades, n \in Nat : Fits(t, n) => Fits(t, n)'
    BY <1>1, <1>2, <1>3, FitsKept DEF TypeInv
  <2>4. PICK t \in Trades : t = cyc.trade
    BY <2>1
  <2>5. PICK n \in Nat : n = cyc.size
    BY <2>1
  <2>6. Fits(t, n)' /\ cyc'.trade = t /\ cyc'.size = n
    BY <1>2, <2>2, <2>3, <2>4, <2>5
  <2>7. QED BY <2>6 DEF Fits
<1>5. QED BY <1>1, <1>2, <1>3, <1>4 DEF PaperInv, BudgetInv

\* Deciding on a trade: only an order that fits is placed.
LEMMA PaperDecide ==
  ASSUME Preview, PaperInv, NEW t \in Trades, Decide(t)
  PROVE  PaperInv'
<1>1. TypeInv /\ TypeInv'
  BY TypeDecide DEF PaperInv
<1>2. Turn(t)
  BY DEF Decide, Filtered, AlreadyHandled, LosesConflict, BelowMinimum, RiskRefuses,
     Uncovered, PlaceOrder, Considered, Fresh
<1>3. Advanced.pc = "queue" /\ Passed(t).pc = "queue"
  BY <1>1, <1>2, TurnTypes DEF TypeInv
<1>4. /\ pos' = pos /\ resting' = resting /\ lost' = lost /\ cash' = cash
      /\ today' = today
  BY DEF Decide, Filtered, AlreadyHandled, LosesConflict, BelowMinimum, RiskRefuses,
     Uncovered, PlaceOrder
<1>5. /\ VolumeWithinCaps' /\ cash' >= -Cent /\ MarketsWithinCap'
      /\ \A u \in Trades : resting'[u] = 0
      /\ \A r \in Recoveries : lost'[r].open = 0
  BY <1>4, PaperFrame
<1>6. CASE PlaceOrder(t)
  <2>1. cyc'.trade = t /\ cyc'.size = Size(t)
    <3>1. cyc' = [Passed(t) EXCEPT !.pc = "place", !.trade = t, !.size = Size(t)]
      BY <1>6 DEF PlaceOrder
    <3>2. Passed(t) \in Cycle
      BY <1>1, <1>2, TurnTypes DEF TypeInv
    <3>3. QED BY <3>1, <3>2 DEF Cycle
  <2>2. RiskAllows(t)
    BY <1>6 DEF PlaceOrder
  <2>3. Fits(t, Size(t))
    BY <2>2 DEF RiskAllows, MayOpenMarket, MaySpend, MayAfford, FinalUsd, Fits
  <2>4. OpenMarkets' = OpenMarkets
    BY <1>4 DEF OpenMarkets
  <2>5. Fits(cyc.trade, cyc.size)'
    BY <1>4, <2>1, <2>3, <2>4 DEF Fits, Buys
  <2>6. QED BY <1>1, <1>5, <2>5 DEF PaperInv, BudgetInv
<1>7. CASE ~PlaceOrder(t)
  <2>1. cyc' = Advanced \/ cyc' = Passed(t)
    BY <1>7 DEF Decide, Filtered, AlreadyHandled, LosesConflict, BelowMinimum,
       RiskRefuses, Uncovered
  <2>2. QED BY <1>1, <1>3, <1>5, <2>1 DEF PaperInv, BudgetInv
<1>8. QED BY <1>6, <1>7

\* The order recorded is the one that was checked.
LEMMA PaperRecord ==
  ASSUME Preview, PaperInv, RecordPreview
  PROVE  PaperInv'
<1>1. TypeInv /\ TypeInv'
  BY TypeAnswer DEF PaperInv, AnswerStep
<1>2. /\ cyc.pc = "place" /\ ApplyFill(cyc.trade, cyc.size)
      /\ resting' = resting /\ lost' = lost
  BY DEF RecordPreview
<1>3. cyc.trade \in Trades /\ cyc.size \in Nat \ {0}
  BY <1>1, <1>2 DEF TypeInv, TypeOK, ControlInv
<1>4. Fits(cyc.trade, cyc.size) /\ VolumeWithinCaps /\ cash >= -Cent /\ MarketsWithinCap
  BY <1>2 DEF PaperInv, BudgetInv
<1>5. VolumeWithinCaps' /\ cash' >= -Cent /\ MarketsWithinCap'
  BY <1>1, <1>2, <1>3, <1>4, BudgetAfterFill DEF TypeInv
<1>6. cyc'.pc # "place"
  <2>1. Placed \in Cycle /\ Placed.pc = "queue"
    BY <1>1, CycleTypes DEF TypeInv, Placed, Cycle
  <2>2. QED BY <2>1 DEF RecordPreview, Cycle
<1>7. QED BY <1>1, <1>2, <1>5, <1>6 DEF PaperInv, BudgetInv

\* In preview nothing is asked of the exchange, and nothing is open there.
LEMMA PreviewAnswers ==
  ASSUME Preview
  PROVE  AnswerStep => RecordPreview
  BY DEF AnswerStep, RecordLive, PlaceFails, RecordFound

LEMMA NothingOpen ==
  ASSUME Preview, BudgetInv
  PROVE  ~LossStep /\ ~RestingStep
<1>1. ASSUME NEW r \in Recoveries PROVE ~AdoptOrphan(r) /\ ~LoseAnswer(r)
  <2>1. lost[r].open = 0
    BY DEF BudgetInv
  <2>2. QED BY <2>1 DEF AdoptOrphan, LoseAnswer
<1>2. ASSUME NEW t \in Trades PROVE ~BookFill(t) /\ ~DropResting(t)
  <2>1. resting[t] = 0
    BY DEF BudgetInv
  <2>2. QED BY <2>1 DEF BookFill, DropResting
<1>3. QED BY <1>1, <1>2 DEF LossStep, RestingStep

LEMMA PaperStep == Preview /\ PaperInv /\ [Next]_vars => PaperInv'
<1> SUFFICES ASSUME Preview, PaperInv, [Next]_vars PROVE PaperInv'
  OBVIOUS
<1>1. TypeInv'
  BY TypeStep DEF PaperInv
<1>2. CASE UNCHANGED vars
  <2>1. UNCHANGED <<pos, resting, lost, cash, today, cyc>>
    BY <1>2 DEF vars
  <2>2. BudgetInv'
    BY <2>1 DEF PaperInv, BudgetInv, VolumeWithinCaps, MarketsWithinCap, OpenMarkets, Fits
  <2>3. QED BY <1>1, <2>2 DEF PaperInv
<1>3. CASE CycleStep
  <2>1. /\ pos' = pos /\ resting' = resting /\ lost' = lost /\ cash' = cash
        /\ today' = today \/ today' = [today EXCEPT !.kill = TRUE]
    BY <1>3 DEF CycleStep, StartCycle, GateCloses, GatePasses, PollLeaders, EndCycle, Crash
  <2>2. cyc'.pc # "place"
    <3>1. cyc \in Cycle /\ IdleCycle \in Cycle
      BY CycleTypes DEF PaperInv, TypeInv
    <3>2. QED BY <1>3, <3>1 DEF CycleStep, StartCycle, GateCloses, GatePasses, PollLeaders,
                 EndCycle, Crash, IdleCycle, Cycle
  <2>3. QED BY <1>1, <2>1, <2>2, PaperFrame DEF PaperInv, BudgetInv
<1>4. AnswerStep => RecordPreview
  BY PreviewAnswers
<1>5. ~LossStep /\ ~RestingStep
  BY NothingOpen DEF PaperInv
<1>6. ASSUME NEW t \in Trades, Decide(t) PROVE PaperInv'
  BY <1>6, PaperDecide
<1>7. QED BY <1>2, <1>3, <1>4, <1>5, <1>6, StepKinds, PaperOutside, PaperRecord

LEMMA PaperInvariant ==
  ASSUME Preview
  PROVE  Spec => []PaperInv
<1>1. Init => PaperInv
  BY PaperInit
<1>2. PaperInv /\ [Next]_vars => PaperInv'
  BY PaperStep
<1>3. QED BY <1>1, <1>2, PTL DEF Spec

\* In preview, the account's and each leader's BUY volume of a day stays within
\* its cap, whatever is traded and whenever midnight passes.
THEOREM VolumeStaysWithinCaps ==
  ASSUME Preview
  PROVE  Spec => []VolumeWithinCaps
<1>1. PaperInv => VolumeWithinCaps
  BY DEF PaperInv, BudgetInv
<1>2. QED BY PaperInvariant, <1>1, PTL

\* In preview, no more tokens are held than the cap on open markets.
THEOREM MarketsStayWithinCap ==
  ASSUME Preview
  PROVE  Spec => []MarketsWithinCap
<1>1. PaperInv => MarketsWithinCap
  BY DEF PaperInv, BudgetInv
<1>2. QED BY PaperInvariant, <1>1, PTL

\* In preview, cash is overdrawn by at most a cent.
THEOREM CashStaysCovered == Spec => []CashCovers
<1>1. PaperInv => CashCovers
  BY DEF PaperInv, BudgetInv, CashCovers
<1>2. ~Preview => CashCovers
  BY DEF CashCovers
<1>3. CASE Preview
  BY PaperInvariant, <1>1, <1>3, PTL
<1>4. CASE ~Preview
  BY <1>2, <1>4, PTL
<1>5. QED BY <1>3, <1>4

-----------------------------------------------------------------------------
(* What each kind of step does to the cycle, live and in preview           *)

\* Deciding on a trade copies nothing; an order is placed for a fresh trade
\* the conflict rule allows, and its side is taken.
LEMMA DecideShape ==
  ASSUME TypeInv, NEW t \in Trades, Decide(t)
  PROVE  /\ cyc.pc = "queue" /\ cyc'.pc \in {"queue", "place"}
         /\ cyc'.copied = cyc.copied
         /\ seen' \in {seen, seen \cup {t}}
         /\ UNCHANGED <<resting, lost, pos, recent, today, bought, orders>>
         /\ \/ cyc'.sides = cyc.sides
            \/ cyc'.sides = SidesAfter(t) /\ ConflictAllows(t)
         /\ cyc'.pc = "place" =>
              /\ cyc'.trade = t /\ t \notin seen' /\ ~RecentBuy(t)
              /\ cyc'.sides = SidesAfter(t) /\ ConflictAllows(t)
<1>1. Turn(t)
  BY DEF Decide, Filtered, AlreadyHandled, LosesConflict, BelowMinimum, RiskRefuses,
     Uncovered, PlaceOrder, Considered, Fresh
<1>2. cyc \in Cycle /\ Advanced \in Cycle /\ Passed(t) \in Cycle /\ cyc.pc = "queue"
  BY <1>1, TurnTypes, CycleTypes DEF TypeInv, Turn
<1>3. /\ Advanced.pc = "queue" /\ Advanced.copied = cyc.copied
      /\ Advanced.sides = cyc.sides
  BY <1>2 DEF Advanced, Cycle
<1>4. /\ Passed(t).pc = "queue" /\ Passed(t).copied = cyc.copied
      /\ Passed(t).sides = SidesAfter(t)
  BY <1>2 DEF Passed, Cycle
<1>5. CASE Filtered(t) \/ AlreadyHandled(t) \/ LosesConflict(t)
  BY <1>2, <1>3, <1>5 DEF Filtered, AlreadyHandled, LosesConflict
<1>6. CASE BelowMinimum(t) \/ RiskRefuses(t) \/ Uncovered(t)
  BY <1>2, <1>4, <1>6 DEF BelowMinimum, RiskRefuses, Uncovered, Considered
<1>7. CASE PlaceOrder(t)
  <2>1. cyc' = [Passed(t) EXCEPT !.pc = "place", !.trade = t, !.size = Size(t)]
    BY <1>7 DEF PlaceOrder
  <2>2. /\ cyc'.pc = "place" /\ cyc'.trade = t /\ cyc'.copied = cyc.copied
        /\ cyc'.sides = SidesAfter(t)
    BY <1>2, <1>4, <2>1 DEF Cycle
  <2>3. ConflictAllows(t) /\ t \notin seen /\ ~RecentBuy(t) /\ seen' = seen
    BY <1>7 DEF PlaceOrder, Considered, Fresh
  <2>4. QED BY <1>2, <1>7, <2>2, <2>3 DEF PlaceOrder
<1>8. QED BY <1>5, <1>6, <1>7 DEF Decide

\* A cycle starts, is gated, polls, ends or dies without an order in hand, with
\* nothing copied yet or with what it has.
LEMMA CycleShape ==
  ASSUME TypeInv, CycleStep
  PROVE  /\ cyc'.pc # "place"
         /\ cyc'.copied = <<>> \/ (cyc'.copied = cyc.copied /\ cyc'.sides = cyc.sides)
         /\ UNCHANGED <<seen, resting, lost, pos, recent, bought, orders>>
<1>1. cyc \in Cycle /\ IdleCycle.copied = <<>> /\ IdleCycle.pc = "idle"
  BY CycleTypes DEF TypeInv, IdleCycle
<1>2. CASE StartCycle
  BY <1>2 DEF StartCycle, IdleCycle
<1>3. CASE GateCloses \/ EndCycle \/ Crash
  BY <1>1, <1>3 DEF GateCloses, EndCycle, Crash
<1>4. CASE PollLeaders
  <2>1. PICK S \in SUBSET Trades : \E q \in [1..Cardinality(S) -> S] :
          cyc' = [cyc EXCEPT !.pc = "queue", !.queue = q]
    BY <1>4 DEF PollLeaders, Feed
  <2>2. PICK q \in [1..Cardinality(S) -> S] :
          cyc' = [cyc EXCEPT !.pc = "queue", !.queue = q]
    BY <2>1
  <2>3. cyc'.pc = "queue" /\ cyc'.copied = cyc.copied /\ cyc'.sides = cyc.sides
    BY <1>1, <2>2 DEF Cycle
  <2>4. QED BY <1>4, <2>3 DEF PollLeaders
<1>5. CASE GatePasses
  <2>1. cyc'.pc = "gated" /\ cyc'.copied = cyc.copied /\ cyc'.sides = cyc.sides
    BY <1>1, <1>5 DEF GatePasses, Cycle
  <2>2. QED BY <1>5, <2>1 DEF GatePasses
<1>6. QED BY <1>2, <1>3, <1>4, <1>5 DEF CycleStep

\* The answer to an order ends the step; only a remembered trade is copied, and
\* what is open grows for no other trade.
LEMMA AnswerShape ==
  ASSUME TypeInv, AnswerStep
  PROVE  /\ cyc.pc = "place" /\ cyc.trade \in Trades
         /\ cyc'.pc = "queue" /\ cyc'.sides = cyc.sides
         /\ seen' \in {seen, seen \cup {cyc.trade}}
         /\ \/ cyc'.copied = cyc.copied
            \/ cyc'.copied = Append(cyc.copied, cyc.trade) /\ cyc.trade \in seen'
         /\ \A u \in Trades : resting'[u] > 0 => resting[u] > 0 \/ u \in seen'
         /\ \A r \in Recoveries : lost'[r].of = lost[r].of
         /\ orders' = orders \/ (Ordered(cyc.trade) /\ cyc.trade \in seen')
<1>1. cyc.pc = "place"
  BY DEF AnswerStep, RecordPreview, RecordLive, PlaceFails, RecordFound
<1>2. /\ cyc.trade \in Trades /\ cyc.size \in Nat
      /\ Placed \in Cycle /\ cyc \in Cycle
  BY <1>1, PlacedTypes, CycleTypes DEF TypeInv
<1>3. Placed.pc = "queue" /\ Placed.sides = cyc.sides /\ Placed.copied = cyc.copied
  BY <1>2 DEF Placed, Cycle
<1>4. resting \in [Trades -> Nat] /\ lost \in [Recoveries -> Orphan]
  BY TypeParts DEF TypeInv
<1> DEFINE filled == [Placed EXCEPT !.copied = Append(@, cyc.trade)]
<1>5. /\ filled.pc = "queue" /\ filled.sides = cyc.sides
      /\ filled.copied = Append(cyc.copied, cyc.trade)
  BY <1>2, <1>3 DEF Cycle
<1> HIDE DEF filled
<1>6. ASSUME NEW n \in 0..cyc.size, Accepted(n)
      PROVE  cyc' \in {Placed, filled} /\ seen' = seen \cup {cyc.trade}
  BY <1>1, <1>6, AcceptedTypes DEF Accepted, SeenAfter, filled
<1>7. CASE RecordPreview
  <2>1. /\ cyc' = filled /\ seen' = seen \cup {cyc.trade} /\ resting' = resting
        /\ lost' = lost /\ Ordered(cyc.trade)
    BY <1>7 DEF RecordPreview, filled
  <2>2. QED BY <1>1, <1>2, <1>5, <2>1
<1>8. CASE RecordLive
  <2>1. PICK n \in 0..cyc.size :
          /\ Accepted(n)
          /\ \E rest \in {0, cyc.size - n} : resting' = [resting EXCEPT ![cyc.trade] = rest]
    BY <1>8 DEF RecordLive
  <2>2. cyc' \in {Placed, filled} /\ seen' = seen \cup {cyc.trade}
    BY <1>6, <2>1
  <2>3. \A u \in Trades \ {cyc.trade} : resting'[u] = resting[u]
    BY <1>4, <2>1
  <2>4. lost' = lost /\ Ordered(cyc.trade)
    BY <1>8 DEF RecordLive
  <2>5. QED BY <1>1, <1>2, <1>3, <1>5, <2>2, <2>3, <2>4
<1>9. ASSUME NEW o \in Trades, RecordFound(o)
      PROVE  /\ cyc' \in {Placed, filled} /\ seen' = seen \cup {cyc.trade}
             /\ \A u \in Trades : resting'[u] > 0 => resting[u] > 0 \/ u \in seen'
             /\ \A r \in Recoveries : lost'[r].of = lost[r].of
             /\ orders' = orders
  <2>1. PICK n \in 0..cyc.size :
          /\ Accepted(n)
          /\ \/ /\ o \in Recoveries /\ lost[o].open > 0
                /\ lost' = [lost EXCEPT ![o].open = 0]
                /\ resting' = [resting EXCEPT ![cyc.trade] = cyc.size - n]
             \/ /\ resting[o] > 0
                /\ \E rest \in 1..resting[o] : resting' = [resting EXCEPT ![o] = rest]
                /\ UNCHANGED lost
    BY <1>9 DEF RecordFound
  <2>2. cyc' \in {Placed, filled} /\ seen' = seen \cup {cyc.trade}
    BY <1>6, <2>1
  <2>3. \A u \in Trades : resting'[u] > 0 => resting[u] > 0 \/ u \in seen'
    BY <1>4, <2>1, <2>2
  <2>4. \A r \in Recoveries : lost'[r].of = lost[r].of
    BY <1>4, <2>1 DEF Orphan
  <2>5. QED BY <1>9, <2>2, <2>3, <2>4 DEF RecordFound
<1>10. CASE PlaceFails
  BY <1>1, <1>2, <1>3, <1>10 DEF PlaceFails
<1>11. CASE \E o \in Trades : RecordFound(o)
  BY <1>1, <1>2, <1>3, <1>5, <1>9, <1>11
<1>12. QED BY <1>7, <1>8, <1>10, <1>11 DEF AnswerStep

\* Losing an answer leaves the order in hand; adopting the order opens no order of
\* a leader's trade.
LEMMA LossShape ==
  ASSUME TypeInv, LossStep
  PROVE  /\ UNCHANGED <<seen, cyc, pos, recent, today, bought>>
         /\ \A u \in Feed : resting'[u] = resting[u]
<1>1. resting \in [Trades -> Nat]
  BY TypeParts DEF TypeInv
<1>2. ASSUME NEW r \in Recoveries, AdoptOrphan(r)
      PROVE  \A u \in Feed : resting'[u] = resting[u]
  BY <1>1, <1>2 DEF AdoptOrphan, Feed
<1>3. QED BY <1>2 DEF LossStep, AdoptOrphan, LoseAnswer

\* A later fill, or the end, of a resting order leaves the cycle alone.
LEMMA RestingShape ==
  ASSUME TypeInv, RestingStep
  PROVE  /\ UNCHANGED <<seen, cyc, bought, lost, orders>> /\ cyc.pc = "pending"
         /\ \A u \in Trades : resting'[u] > 0 => resting[u] > 0
         /\ recent \subseteq recent'
<1>1. resting \in [Trades -> Nat]
  BY TypeParts DEF TypeInv
<1>2. ASSUME NEW t \in Trades, BookFill(t) \/ DropResting(t)
      PROVE  \A u \in Trades : resting'[u] > 0 => resting[u] > 0
  BY <1>1, <1>2 DEF BookFill, DropResting
<1>3. recent \subseteq recent'
  BY DEF RestingStep, BookFill, DropResting, ApplyFill
<1>4. QED BY <1>2, <1>3 DEF RestingStep, BookFill, DropResting

LEMMA OutsideShape ==
  ASSUME Outside
  PROVE  UNCHANGED <<seen, resting, lost, orders, cyc>>
  BY DEF Outside, NewDay, ResetKillSwitch, WindowPasses

-----------------------------------------------------------------------------
(* Every copy is made once                                                 *)

CopiesInv == TypeInv /\ CopiedOnce

LEMMA UnansweredFinite ==
  ASSUME NEW t
  PROVE  IsFiniteSet(Unanswered(t)) /\ Cardinality(Unanswered(t)) \in Nat
<1>1. IsFiniteSet(Recoveries)
  BY ConstantsOK, FS_Subset
<1>2. IsFiniteSet(Unanswered(t))
  BY <1>1, FS_Subset DEF Unanswered
<1>3. QED BY <1>2, FS_CardinalityType

\* The parts of CopiedOnce about one trade, and about the cycle.
OrderedOnce(t) == /\ orders[t] <= 1 + Cardinality(Unanswered(t))
                  /\ orders[t] > Cardinality(Unanswered(t)) \/ resting[t] > 0 => t \in seen

LEMMA CopiedParts ==
  CopiedOnce <=> /\ \A t \in Feed : OrderedOnce(t)
                 /\ Copied \subseteq seen
                 /\ cyc.pc = "place" => cyc.trade \notin seen
  BY DEF CopiedOnce, OrderedOnce

\* A step that orders nothing.
LEMMA OrderedFrame ==
  ASSUME CopiedOnce, NEW t \in Feed, seen \subseteq seen', orders' = orders,
         \A r \in Recoveries : lost'[r].of = lost[r].of,
         resting'[t] > 0 => resting[t] > 0 \/ t \in seen'
  PROVE  OrderedOnce(t)'
<1>1. Unanswered(t)' = Unanswered(t)
  BY DEF Unanswered
<1>2. OrderedOnce(t)
  BY CopiedParts
<1>3. QED BY <1>1, <1>2 DEF OrderedOnce

\* An order that is answered is the last of its trade.
LEMMA OrderedLast ==
  ASSUME CopiesInv, cyc.pc = "place", cyc.trade \in Trades, Ordered(cyc.trade),
         seen' = seen \cup {cyc.trade}, NEW t \in Feed,
         \A r \in Recoveries : lost'[r].of = lost[r].of,
         resting'[t] > 0 => resting[t] > 0 \/ t \in seen'
  PROVE  OrderedOnce(t)'
<1>1. Unanswered(t)' = Unanswered(t)
  BY DEF Unanswered
<1>2. OrderedOnce(t) /\ cyc.trade \notin seen
  BY CopiedParts DEF CopiesInv
<1>3. orders \in [Trades -> Nat] /\ t \in Trades /\ Cardinality(Unanswered(t)) \in Nat
  BY TypeParts, UnansweredFinite DEF CopiesInv, TypeInv, Feed
<1>4. CASE t = cyc.trade
  <2>1. orders[t] <= Cardinality(Unanswered(t)) /\ orders'[t] = orders[t] + 1
    BY <1>2, <1>3, <1>4 DEF OrderedOnce, Ordered
  <2>2. orders[t] \in Nat
    BY <1>3
  <2>3. orders'[t] <= 1 + Cardinality(Unanswered(t))
    BY <1>3, <2>1, <2>2
  <2>4. QED BY <1>1, <1>4, <2>3 DEF OrderedOnce
<1>5. CASE t # cyc.trade
  <2>1. orders'[t] = orders[t]
    BY <1>3, <1>5 DEF Ordered
  <2>2. QED BY <1>1, <1>2, <2>1 DEF OrderedOnce
<1>6. QED BY <1>4, <1>5

\* An order without an answer counts on both sides.
LEMMA OrderedLost ==
  ASSUME CopiesInv, NEW r \in Recoveries, LoseAnswer(r), NEW t \in Feed
  PROVE  OrderedOnce(t)'
<1>1. cyc.pc = "place" /\ cyc.trade \in Trades
  BY PlacedTypes DEF LoseAnswer, CopiesInv
<1>2. /\ OrderedOnce(t) /\ orders \in [Trades -> Nat] /\ t \in Trades
      /\ lost \in [Recoveries -> Orphan] /\ seen' = seen /\ resting' = resting
      /\ Ordered(cyc.trade)
  BY CopiedParts, TypeParts DEF CopiesInv, TypeInv, Feed, LoseAnswer
<1>3. PICK n \in {0, cyc.size} : lost' = [lost EXCEPT ![r] = [of |-> cyc.trade, open |-> n]]
  BY DEF LoseAnswer
<1>4. lost[r].of = None /\ None \notin Trades
  BY ConstantsOK DEF LoseAnswer
<1>5. lost'[r].of = cyc.trade /\ \A x \in Recoveries \ {r} : lost'[x].of = lost[x].of
  BY <1>2, <1>3
<1>6. IsFiniteSet(Unanswered(t)) /\ Cardinality(Unanswered(t)) \in Nat /\ r \notin Unanswered(t)
  BY <1>2, <1>4, UnansweredFinite DEF Unanswered
<1>7. CASE t = cyc.trade
  <2>1. Unanswered(t)' = Unanswered(t) \cup {r}
    BY <1>5, <1>7 DEF Unanswered
  <2>2. Cardinality(Unanswered(t)') = Cardinality(Unanswered(t)) + 1
    BY <1>6, <2>1, FS_AddElement
  <2>3. orders'[t] = orders[t] + 1 /\ orders[t] \in Nat
    BY <1>2, <1>7 DEF Ordered
  <2>4. /\ orders'[t] <= 1 + Cardinality(Unanswered(t)')
        /\ orders'[t] > Cardinality(Unanswered(t)') => t \in seen
    BY <1>2, <1>6, <2>2, <2>3 DEF OrderedOnce
  <2>5. QED BY <1>2, <2>4 DEF OrderedOnce
<1>8. CASE t # cyc.trade
  <2>1. Unanswered(t)' = Unanswered(t)
    BY <1>2, <1>4, <1>5, <1>8 DEF Unanswered
  <2>2. orders'[t] = orders[t]
    BY <1>1, <1>2, <1>8 DEF Ordered
  <2>3. QED BY <1>2, <2>1, <2>2 DEF OrderedOnce
<1>9. QED BY <1>7, <1>8

\* A step that orders and copies nothing.
LEMMA CopiesFrame ==
  ASSUME CopiesInv, seen \subseteq seen', orders' = orders,
         \A r \in Recoveries : lost'[r].of = lost[r].of,
         cyc'.copied \in {cyc.copied, <<>>},
         \A t \in Feed : resting'[t] > 0 => resting[t] > 0 \/ t \in seen',
         cyc'.pc = "place" => cyc'.trade \notin seen'
  PROVE  CopiedOnce'
<1>1. \A t \in Feed : OrderedOnce(t)'
  BY OrderedFrame DEF CopiesInv
<1>2. Copied' \subseteq seen'
  <2>1. CASE cyc'.copied = <<>>
    BY <2>1 DEF Copied
  <2>2. CASE cyc'.copied = cyc.copied
    <3>1. Copied' = Copied /\ Copied \subseteq seen
      BY <2>2, CopiedParts DEF Copied, CopiesInv
    <3>2. QED BY <3>1
  <2>3. QED BY <2>1, <2>2
<1>3. QED BY <1>1, <1>2 DEF CopiedOnce, OrderedOnce

LEMMA CopiesAnswer ==
  ASSUME CopiesInv, AnswerStep
  PROVE  CopiedOnce'
<1>1. /\ cyc.pc = "place" /\ cyc.trade \in Trades /\ cyc'.pc = "queue"
      /\ seen' \in {seen, seen \cup {cyc.trade}}
      /\ \/ cyc'.copied = cyc.copied
         \/ cyc'.copied = Append(cyc.copied, cyc.trade) /\ cyc.trade \in seen'
      /\ \A u \in Trades : resting'[u] > 0 => resting[u] > 0 \/ u \in seen'
      /\ \A r \in Recoveries : lost'[r].of = lost[r].of
      /\ orders' = orders \/ (Ordered(cyc.trade) /\ cyc.trade \in seen')
  BY AnswerShape DEF CopiesInv
<1>2. CopiedOnce /\ cyc.trade \notin seen /\ Copied \subseteq seen
  BY <1>1, CopiedParts DEF CopiesInv
<1>3. ASSUME NEW t \in Feed PROVE OrderedOnce(t)'
  <2>1. t \in Trades
    BY DEF Feed
  <2>2. CASE orders' = orders
    BY <1>1, <1>2, <2>1, <2>2, OrderedFrame
  <2>3. CASE Ordered(cyc.trade) /\ cyc.trade \in seen'
    BY <1>1, <1>2, <2>1, <2>3, OrderedLast
  <2>4. QED BY <1>1, <2>2, <2>3
<1>4. Copied' \subseteq seen'
  <2>1. CASE cyc'.copied = cyc.copied
    BY <1>1, <1>2, <2>1 DEF Copied
  <2>2. CASE cyc'.copied = Append(cyc.copied, cyc.trade) /\ cyc.trade \in seen'
    <3>1. cyc.copied \in Seq(Trades)
      BY CycleTypes DEF CopiesInv, TypeInv, Cycle
    <3>2. Copied' \subseteq Copied \cup {cyc.trade}
      BY <1>1, <2>2, <3>1 DEF Copied
    <3>3. QED BY <1>1, <1>2, <2>2, <3>2
  <2>3. QED BY <1>1, <2>1, <2>2
<1>5. QED BY <1>1, <1>3, <1>4 DEF CopiedOnce, OrderedOnce

LEMMA CopiesLoss ==
  ASSUME CopiesInv, LossStep
  PROVE  CopiedOnce'
<1>1. /\ UNCHANGED <<seen, cyc>>
      /\ \A u \in Feed : resting'[u] = resting[u]
  BY LossShape DEF CopiesInv
<1>2. ASSUME NEW r \in Recoveries, AdoptOrphan(r) PROVE CopiedOnce'
  <2>1. lost \in [Recoveries -> Orphan]
    BY TypeParts DEF CopiesInv, TypeInv
  <2>2. \A x \in Recoveries : lost'[x].of = lost[x].of
    BY <1>2, <2>1 DEF AdoptOrphan, Orphan
  <2>3. orders' = orders /\ (cyc.pc = "place" => cyc.trade \notin seen)
    BY <1>2, CopiedParts DEF AdoptOrphan, CopiesInv
  <2>4. QED BY <1>1, <2>2, <2>3, CopiesFrame
<1>3. ASSUME NEW r \in Recoveries, LoseAnswer(r) PROVE CopiedOnce'
  <2>1. \A t \in Feed : OrderedOnce(t)'
    BY <1>3, OrderedLost
  <2>2. Copied \subseteq seen /\ (cyc.pc = "place" => cyc.trade \notin seen)
    BY CopiedParts DEF CopiesInv
  <2>3. QED BY <1>1, <2>1, <2>2 DEF CopiedOnce, OrderedOnce, Copied
<1>4. QED BY <1>2, <1>3 DEF LossStep

LEMMA CopiesStep == CopiesInv /\ [Next]_vars => CopiesInv'
<1> SUFFICES ASSUME CopiesInv, [Next]_vars PROVE CopiedOnce'
  BY TypeStep DEF CopiesInv
<1>1. TypeInv /\ (cyc.pc = "place" => cyc.trade \notin seen)
  BY DEF CopiesInv, CopiedOnce
<1>0. Feed \subseteq Trades
  BY DEF Feed
<1>2. CASE UNCHANGED vars
  BY <1>1, <1>2, CopiesFrame DEF vars
<1>3. CASE Outside
  BY <1>1, <1>3, OutsideShape, CopiesFrame
<1>4. CASE CycleStep
  BY <1>1, <1>4, CycleShape, CopiesFrame
<1>5. ASSUME NEW t \in Trades, Decide(t) PROVE CopiedOnce'
  BY <1>1, <1>5, DecideShape, CopiesFrame
<1>6. CASE RestingStep
  BY <1>0, <1>1, <1>6, RestingShape, CopiesFrame
<1>7. QED BY <1>2, <1>3, <1>4, <1>5, <1>6, StepKinds, CopiesAnswer, CopiesLoss

\* Live and in preview, for any trades, over crashes and any answers of the
\* exchange: a trade is ordered once, and once more for every order the exchange
\* took for it without an answer; an order that was answered is the last; what is
\* open in the books or copied is never decided on again.
THEOREM EachCopiedOnce == Spec => []CopiedOnce
<1>1. Init => CopiesInv
  <2> SUFFICES ASSUME Init PROVE CopiedOnce
    BY TypeInit DEF CopiesInv
  <2>1. cyc.copied = <<>> /\ cyc.pc = "idle"
    BY DEF Init, IdleCycle
  <2>2. ASSUME NEW t \in Feed PROVE OrderedOnce(t)
    <3>1. t \in Trades /\ resting[t] = 0 /\ orders[t] = 0
      BY DEF Feed, Init
    <3>2. Cardinality(Unanswered(t)) \in Nat
      BY UnansweredFinite
    <3>3. QED BY <3>1, <3>2 DEF OrderedOnce
  <2>3. QED BY <2>1, <2>2, CopiedParts DEF Copied
<1>2. CopiesInv => CopiedOnce
  BY DEF CopiesInv
<1>3. QED BY <1>1, <1>2, CopiesStep, PTL DEF Spec

-----------------------------------------------------------------------------
(* One side per token                                                      *)

\* The trade t took its token's side, or agreed with it.
SideTaken(t) == Taken(t).leader # None /\ Taken(t).side = Trade[t].side

\* Under skip_both, what was copied and what is being placed holds its side.
SidesInv ==
  ConflictMode = "skip_both" =>
    /\ \A t \in Copied : SideTaken(t)
    /\ cyc.pc = "place" => SideTaken(cyc.trade)

LEMMA CopiedTrades ==
  ASSUME TypeInv
  PROVE  Copied \subseteq Trades
  BY CycleTypes DEF TypeInv, Cycle, Copied

\* A trade the rule allows finds or takes its own side; no other trade that
\* holds its side loses it.
LEMMA SidesKept ==
  ASSUME TypeInv, ConflictMode = "skip_both", NEW t \in Trades, ConflictAllows(t),
         cyc'.sides = SidesAfter(t)
  PROVE  /\ SideTaken(t)'
         /\ \A u \in Trades : SideTaken(u) => SideTaken(u)'
<1>1. cyc.sides \in [Tokens -> Side]
  BY CycleTypes DEF TypeInv, Cycle
<1>2. Trade[t].token \in Tokens /\ Trade[t].leader \in Leaders /\ Trade[t].leader # None
  BY TradeType, ConstantsOK
<1>3. ~Opposes(t)
  BY DEF ConflictAllows
<1>4. CASE Taken(t).leader = None
  <2>1. cyc'.sides = [cyc.sides EXCEPT ![Trade[t].token] =
                        [leader |-> Trade[t].leader, side |-> Trade[t].side]]
    BY <1>4 DEF SidesAfter
  <2>2. SideTaken(t)'
    BY <1>1, <1>2, <2>1 DEF SideTaken, Taken
  <2>3. ASSUME NEW u \in Trades, SideTaken(u) PROVE SideTaken(u)'
    <3>1. Trade[u].token # Trade[t].token
      BY <1>4, <2>3 DEF SideTaken, Taken
    <3>2. cyc'.sides[Trade[u].token] = cyc.sides[Trade[u].token]
      BY <1>1, <2>1, <3>1
    <3>3. QED BY <2>3, <3>2 DEF SideTaken, Taken
  <2>4. QED BY <2>2, <2>3
<1>5. CASE Taken(t).leader # None
  <2>1. cyc'.sides = cyc.sides /\ Taken(t).side = Trade[t].side
    BY <1>3, <1>5 DEF SidesAfter, Opposes
  <2>2. QED BY <1>5, <2>1 DEF SideTaken, Taken
<1>6. QED BY <1>4, <1>5

LEMMA SidesFrame ==
  ASSUME TypeInv, SidesInv, cyc'.sides = cyc.sides, cyc'.copied = cyc.copied,
         cyc'.pc = "place" => cyc.pc = "place" /\ cyc'.trade = cyc.trade
  PROVE  SidesInv'
<1>1. Copied' = Copied
  BY DEF Copied
<1>2. \A t : SideTaken(t)' <=> SideTaken(t)
  BY DEF SideTaken, Taken
<1>3. QED BY <1>1, <1>2 DEF SidesInv

LEMMA SidesStep == TypeInv /\ SidesInv /\ [Next]_vars => SidesInv'
<1> SUFFICES ASSUME TypeInv, SidesInv, [Next]_vars, ConflictMode = "skip_both"
             PROVE  (\A t \in Copied : SideTaken(t))' /\ (cyc.pc = "place" => SideTaken(cyc.trade))'
  BY DEF SidesInv
<1>0. SidesInv' => (\A t \in Copied : SideTaken(t))' /\ (cyc.pc = "place" => SideTaken(cyc.trade))'
  BY DEF SidesInv
<1>1. CASE UNCHANGED vars \/ Outside
  BY <1>0, <1>1, OutsideShape, SidesFrame DEF vars
<1>2. CASE CycleStep
  <2>1. CASE cyc'.copied = <<>>
    BY <1>2, <2>1, CycleShape DEF Copied
  <2>2. CASE cyc'.copied # <<>>
    BY <1>0, <1>2, <2>2, CycleShape, SidesFrame
  <2>3. QED BY <2>1, <2>2
<1>3. CASE AnswerStep
  <2>1. /\ cyc.pc = "place" /\ cyc.trade \in Trades /\ cyc'.pc = "queue"
        /\ cyc'.sides = cyc.sides
        /\ \/ cyc'.copied = cyc.copied
           \/ cyc'.copied = Append(cyc.copied, cyc.trade)
    BY <1>3, AnswerShape
  <2>2. Copied' \subseteq Copied \cup {cyc.trade}
    <3>1. CASE cyc'.copied = cyc.copied
      BY <3>1 DEF Copied
    <3>2. CASE cyc'.copied = Append(cyc.copied, cyc.trade)
      <4>1. cyc.copied \in Seq(Trades)
        BY CycleTypes DEF TypeInv, Cycle
      <4>2. QED BY <2>1, <3>2, <4>1 DEF Copied
    <3>3. QED BY <2>1, <3>1, <3>2
  <2>3. \A t : SideTaken(t)' <=> SideTaken(t)
    BY <2>1 DEF SideTaken, Taken
  <2>4. QED BY <2>1, <2>2, <2>3 DEF SidesInv
<1>4. ASSUME NEW t \in Trades, Decide(t) PROVE SidesInv'
  <2>1. Copied' = Copied
    BY <1>4, DecideShape DEF Copied
  <2>2. CASE cyc'.sides = cyc.sides /\ cyc'.pc # "place"
    BY <1>4, <2>2, DecideShape, SidesFrame
  <2>3. CASE cyc'.sides = SidesAfter(t) /\ ConflictAllows(t)
    <3>1. SideTaken(t)' /\ \A u \in Trades : SideTaken(u) => SideTaken(u)'
      BY <2>3, SidesKept
    <3>2. \A u \in Copied' : SideTaken(u)'
      BY <2>1, <3>1, CopiedTrades DEF SidesInv
    <3>3. cyc'.pc = "place" => SideTaken(cyc.trade)'
      <4>1. cyc'.pc = "place" => cyc'.trade = t
        BY <1>4, DecideShape
      <4>2. QED BY <3>1, <4>1 DEF SideTaken, Taken
    <3>4. QED BY <3>2, <3>3 DEF SidesInv
  <2>4. QED BY <1>4, <2>2, <2>3, DecideShape
<1>5. CASE LossStep \/ RestingStep
  BY <1>0, <1>5, LossShape, RestingShape, SidesFrame
<1>6. QED BY <1>0, <1>1, <1>2, <1>3, <1>4, <1>5, StepKinds

\* Under skip_both a cycle copies one side of a token only, live and in preview.
THEOREM OneSideCopied == Spec => []OneSidePerToken
<1>1. Init => TypeInv /\ SidesInv
  <2> SUFFICES ASSUME Init PROVE SidesInv
    BY TypeInit
  <2>1. cyc.copied = <<>> /\ cyc.pc = "idle"
    BY DEF Init, IdleCycle
  <2>2. QED BY <2>1 DEF SidesInv, Copied
<1>2. TypeInv /\ SidesInv /\ [Next]_vars => TypeInv' /\ SidesInv'
  BY TypeStep, SidesStep
<1>3. SidesInv => OneSidePerToken
  BY DEF SidesInv, OneSidePerToken, Opposite, SideTaken, Taken
<1>4. QED BY <1>1, <1>2, <1>3, PTL DEF Spec

-----------------------------------------------------------------------------
(* The kill switch and the buy window                                      *)

LEMMA FillKeepsSwitch ==
  ASSUME TypeInv, NEW t \in Trades, NEW n \in Nat, ApplyFill(t, n)
  PROVE  today'.kill = today.kill
<1>1. today \in Day
  BY TypeParts DEF TypeInv
<1>2. QED BY <1>1 DEF ApplyFill, Day

LEMMA SwitchStep == TypeInv /\ KillSwitchHolds /\ [Next]_vars => KillSwitchHolds'
<1> SUFFICES ASSUME TypeInv, KillSwitchHolds, [Next]_vars PROVE KillSwitchHolds'
  OBVIOUS
<1>1. today \in Day /\ cyc \in Cycle
  BY TypeParts, CycleTypes DEF TypeInv
<1>2. CASE UNCHANGED vars
  BY <1>2 DEF vars, KillSwitchHolds
<1>3. CASE Outside
  <2>1. cyc' = cyc
    BY <1>3, OutsideShape
  <2>2. today'.kill => today.kill
    BY <1>1, <1>3 DEF Outside, NewDay, NewDayRow, ResetKillSwitch, WindowPasses, Day
  <2>3. QED BY <2>1, <2>2 DEF KillSwitchHolds
<1>4. CASE CycleStep
  <2>1. CASE StartCycle
    BY <2>1 DEF StartCycle, IdleCycle, KillSwitchHolds
  <2>2. CASE GateCloses \/ EndCycle \/ Crash
    BY <2>2 DEF GateCloses, EndCycle, Crash, IdleCycle, KillSwitchHolds
  <2>3. CASE GatePasses
    BY <2>3 DEF GatePasses, Blocked, KillSwitchHolds
  <2>4. CASE PollLeaders
    BY <2>4 DEF PollLeaders, KillSwitchHolds
  <2>5. QED BY <1>4, <2>1, <2>2, <2>3, <2>4 DEF CycleStep
<1>5. CASE AnswerStep
  <2>1. cyc.pc = "place"
    BY <1>5, AnswerShape
  <2>2. cyc.trade \in Trades /\ cyc.size \in Nat
    BY <2>1, PlacedTypes
  <2>3. today'.kill = today.kill
    <3>1. ASSUME NEW n \in 0..cyc.size, Accepted(n) PROVE today'.kill = today.kill
      BY <2>2, <3>1, FillKeepsSwitch DEF Accepted
    <3>2. CASE RecordPreview
      BY <2>2, <3>2, FillKeepsSwitch DEF RecordPreview
    <3>3. CASE RecordLive
      BY <3>1, <3>3 DEF RecordLive
    <3>4. ASSUME NEW o \in Trades, RecordFound(o) PROVE today'.kill = today.kill
      BY <3>1, <3>4 DEF RecordFound
    <3>5. QED BY <1>5, <3>2, <3>3, <3>4 DEF AnswerStep, PlaceFails
  <2>4. QED BY <2>1, <2>3 DEF KillSwitchHolds
<1>6. ASSUME NEW t \in Trades, Decide(t) PROVE KillSwitchHolds'
  BY <1>6, DecideShape DEF KillSwitchHolds
<1>7. CASE LossStep
  BY <1>7, LossShape DEF KillSwitchHolds
<1>8. ASSUME NEW t \in Trades, BookFill(t) \/ DropResting(t) PROVE KillSwitchHolds'
  <2>1. cyc' = cyc
    BY <1>8 DEF BookFill, DropResting
  <2>2. resting[t] \in Nat
    BY TypeParts DEF TypeInv
  <2>3. today'.kill = today.kill
    BY <1>8, <2>2, FillKeepsSwitch DEF BookFill, DropResting
  <2>4. QED BY <2>1, <2>3 DEF KillSwitchHolds
<1>9. QED BY <1>2, <1>3, <1>4, <1>5, <1>6, <1>7, <1>8, StepKinds DEF RestingStep

\* With the kill switch set no cycle reaches the trades, whatever fills book
\* and whenever the day ends.
THEOREM KillSwitchAlwaysHolds == Spec => []KillSwitchHolds
<1>1. Init => TypeInv /\ KillSwitchHolds
  BY TypeInit DEF Init, IdleCycle, KillSwitchHolds
<1>2. TypeInv /\ KillSwitchHolds /\ [Next]_vars => TypeInv' /\ KillSwitchHolds'
  BY TypeStep, SwitchStep
<1>3. QED BY <1>1, <1>2, PTL DEF Spec

\* In preview every order placed inside the window has a row in buy_dedup.
LEMMA WindowStep ==
  ASSUME Preview, PaperInv, bought \subseteq recent, [Next]_vars
  PROVE  bought' \subseteq recent'
<1>1. TypeInv
  BY DEF PaperInv
<1>2. CASE UNCHANGED vars
  BY <1>2 DEF vars
<1>3. CASE Outside
  BY <1>3 DEF Outside, NewDay, ResetKillSwitch, WindowPasses
<1>4. CASE CycleStep
  BY <1>1, <1>4, CycleShape
<1>5. CASE RecordPreview
  BY <1>5 DEF RecordPreview, ApplyFill, Remembered
<1>6. AnswerStep => RecordPreview
  BY PreviewAnswers
<1>7. ASSUME NEW t \in Trades, Decide(t) PROVE bought' \subseteq recent'
  BY <1>1, <1>7, DecideShape
<1>8. ~LossStep /\ ~RestingStep
  BY NothingOpen DEF PaperInv
<1>9. QED BY <1>2, <1>3, <1>4, <1>5, <1>6, <1>7, <1>8, StepKinds

LEMMA OrderOutsideWindow ==
  ASSUME TypeInv, bought \subseteq recent, [Next]_vars,
         cyc.pc # "place", cyc'.pc = "place", Buys(cyc'.trade)
  PROVE  PairOf(cyc'.trade) \notin bought
<1>1. ASSUME NEW t \in Trades, Decide(t) PROVE PairOf(cyc'.trade) \notin bought
  BY <1>1, DecideShape DEF RecentBuy
<1>2. PICK t \in Trades : Decide(t)
  <2>1. cyc' # cyc
    OBVIOUS
  <2>2. ~Outside /\ ~RestingStep /\ ~LossStep
    BY <2>1, OutsideShape, RestingShape, LossShape
  <2>3. ~CycleStep
    BY CycleShape
  <2>4. ~AnswerStep
    BY AnswerShape
  <2>5. QED BY <2>1, <2>2, <2>3, <2>4, StepKinds DEF vars
<1>3. QED BY <1>1, <1>2

\* In preview a leader's BUY of a token is ordered only when the window of its
\* last order for it has passed.
THEOREM BuyWindowIsRespected ==
  ASSUME Preview
  PROVE  Spec => BuyWindowRespected
<1> DEFINE Inv == PaperInv /\ bought \subseteq recent
<1>1. Init => Inv
  BY PaperInit DEF Init
<1>2. Inv /\ [Next]_vars => Inv'
  BY PaperStep, WindowStep
<1>3. Inv /\ [Next]_vars =>
        [cyc.pc # "place" /\ cyc'.pc = "place" /\ Buys(cyc'.trade)
           => PairOf(cyc'.trade) \notin bought]_vars
  BY OrderOutsideWindow DEF PaperInv
<1>4. QED BY <1>1, <1>2, <1>3, PTL DEF Spec, BuyWindowRespected

-----------------------------------------------------------------------------
(* Sums over finite sets                                                   *)

\* The equation that SumFunction takes a solution of.
AnyOf(T) == CHOOSE x \in T : TRUE
IsSum(f, S, g) == g = [T \in SUBSET S |-> IF T = {} THEN 0 ELSE f[AnyOf(T)] + g[T \ {AnyOf(T)}]]

\* What fails for some subset of a finite set fails for a least one.
LEMMA LeastSubset ==
  ASSUME NEW S, IsFiniteSet(S), NEW Bad \in SUBSET SUBSET S, Bad # {}
  PROVE  \E T \in Bad : T \in SUBSET S /\ \A U \in Bad : U \subseteq T => U = T
<1>1. Bad \subseteq FiniteSubsetsOf(S)
  <2> SUFFICES ASSUME NEW T \in Bad PROVE T \in FiniteSubsetsOf(S)
    OBVIOUS
  <2>1. T \in SUBSET S
    OBVIOUS
  <2>2. IsFiniteSet(T)
    BY <2>1, FS_Subset
  <2> QED BY <2>1, <2>2 DEF FiniteSubsetsOf
<1>2. IsWellFoundedOn(StrictSubsetOrdering(S), FiniteSubsetsOf(S))
  BY FS_StrictSubsetOrderingWellFounded
<1>3. PICK T \in Bad : \A U \in Bad : ~(<<U, T>> \in StrictSubsetOrdering(S))
  BY <1>1, <1>2, WFMin
<1>4. \A U \in Bad : U \subseteq T => U = T
  <2> SUFFICES ASSUME NEW U \in Bad, U \subseteq T, U # T PROVE FALSE
    OBVIOUS
  <2>1. <<U, T>> \in StrictSubsetOrdering(S)
    BY DEF StrictSubsetOrdering
  <2> QED BY <1>3, <2>1
<1> QED BY <1>4

LEMMA AnyIn ==
  ASSUME NEW T, T # {}
  PROVE  AnyOf(T) \in T /\ T \ {AnyOf(T)} \subseteq T /\ T \ {AnyOf(T)} # T
<1>1. AnyOf(T) \in T
  BY DEF AnyOf
<1> QED BY <1>1

LEMMA SumAt ==
  ASSUME NEW f, NEW S, NEW g, IsSum(f, S, g), NEW T \in SUBSET S
  PROVE  /\ T = {} => g[T] = 0
         /\ T # {} => g[T] = f[AnyOf(T)] + g[T \ {AnyOf(T)}]
<1> DEFINE h == [X \in SUBSET S |-> IF X = {} THEN 0 ELSE f[AnyOf(X)] + g[X \ {AnyOf(X)}]]
<1>1. /\ T = {} => h[T] = 0
      /\ T # {} => h[T] = f[AnyOf(T)] + g[T \ {AnyOf(T)}]
  OBVIOUS
<1>2. g = h
  BY DEF IsSum
<1> HIDE DEF h
<1> QED BY <1>1, <1>2

\* Two solutions agree where both are defined.
LEMMA SumsAgree ==
  ASSUME NEW f, NEW S, NEW R, NEW g, NEW h, IsFiniteSet(S), IsSum(f, S, g), IsSum(f, R, h)
  PROVE  \A T \in SUBSET S : T \in SUBSET R => g[T] = h[T]
<1> DEFINE Bad == {T \in SUBSET S : T \in SUBSET R /\ g[T] # h[T]}
<1> SUFFICES ASSUME Bad # {} PROVE FALSE
  OBVIOUS
<1>0. Bad \in SUBSET SUBSET S
  OBVIOUS
<1>1. PICK T \in Bad : \A U \in Bad : U \subseteq T => U = T
  <2> HIDE DEF Bad
  <2> QED BY <1>0, LeastSubset
<1> DEFINE X == T \ {AnyOf(T)}
<1>2. T \in SUBSET S /\ T \in SUBSET R /\ g[T] # h[T]
  BY <1>1
<1>3. /\ T = {} => g[T] = 0 /\ h[T] = 0
      /\ T # {} => g[T] = f[AnyOf(T)] + g[X] /\ h[T] = f[AnyOf(T)] + h[X]
  <2> HIDE DEF Bad
  <2>1. (T = {} => g[T] = 0) /\ (T # {} => g[T] = f[AnyOf(T)] + g[X])
    BY <1>2, SumAt
  <2>2. (T = {} => h[T] = 0) /\ (T # {} => h[T] = f[AnyOf(T)] + h[X])
    BY <1>2, SumAt
  <2> QED BY <2>1, <2>2
<1>4. T # {} /\ g[T] = f[AnyOf(T)] + g[X] /\ h[T] = f[AnyOf(T)] + h[X]
  BY <1>2, <1>3
<1>5. X \subseteq T /\ X # T
  BY <1>4, AnyIn
<1> HIDE DEF X
<1>6. X \in SUBSET S /\ X \in SUBSET R /\ X \notin Bad
  BY <1>1, <1>2, <1>5
<1>7. g[X] = h[X]
  BY <1>6
<1> QED BY <1>2, <1>4, <1>7

LEMMA SumExists ==
  ASSUME NEW f, NEW S, IsFiniteSet(S)
  PROVE  \E g : IsSum(f, S, g)
<1> DEFINE Bad == {T \in SUBSET S : ~ \E g : IsSum(f, T, g)}
<1> SUFFICES ASSUME Bad # {} PROVE FALSE
  <2>1. S \notin Bad
    OBVIOUS
  <2> QED BY <2>1
<1>0. Bad \in SUBSET SUBSET S
  OBVIOUS
<1>1. PICK T \in Bad : T \in SUBSET S /\ \A U \in Bad : U \subseteq T => U = T
  <2> HIDE DEF Bad
  <2> QED BY <1>0, LeastSubset
<1>2. ~ \E g : IsSum(f, T, g)
  BY <1>1
<1> DEFINE G(X) == CHOOSE g : IsSum(f, X, g)
           P(X) == X \ {AnyOf(X)}
<1>3. \A X \in SUBSET T : X # T => IsSum(f, X, G(X)) /\ IsFiniteSet(X)
  <2> SUFFICES ASSUME NEW X \in SUBSET T, X # T PROVE IsSum(f, X, G(X)) /\ IsFiniteSet(X)
    OBVIOUS
  <2>1. X \in SUBSET S /\ X \notin Bad
    BY <1>1
  <2>2. \E g : IsSum(f, X, g)
    BY <2>1
  <2>3. IsFiniteSet(X)
    BY <2>1, FS_Subset
  <2> QED BY <2>2, <2>3
<1> HIDE DEF G
<1> DEFINE g == [X \in SUBSET T |-> IF X = {} THEN 0 ELSE f[AnyOf(X)] + G(P(X))[P(X)]]
<1>4. \A X \in SUBSET T : X # {} => P(X) \in SUBSET T /\ P(X) # T /\ P(X) \subseteq X /\ P(X) # X
  BY AnyIn
<1>5. \A Y \in SUBSET T : Y # T => g[Y] = G(Y)[Y]
  <2> SUFFICES ASSUME NEW Y \in SUBSET T, Y # T PROVE g[Y] = G(Y)[Y]
    OBVIOUS
  <2>1. IsSum(f, Y, G(Y)) /\ IsFiniteSet(Y)
    BY <1>3
  <2>2. /\ Y = {} => G(Y)[Y] = 0
        /\ Y # {} => G(Y)[Y] = f[AnyOf(Y)] + G(Y)[P(Y)]
    BY <2>1, SumAt
  <2>3. /\ Y = {} => g[Y] = 0
        /\ Y # {} => g[Y] = f[AnyOf(Y)] + G(P(Y))[P(Y)]
    OBVIOUS
  <2>4. ASSUME Y # {} PROVE G(P(Y))[P(Y)] = G(Y)[P(Y)]
    <3>1. P(Y) \in SUBSET T /\ P(Y) # T /\ P(Y) \in SUBSET Y
      BY <1>4, <2>4
    <3> DEFINE Z == P(Y)
    <3>2. Z \in SUBSET T /\ Z # T /\ Z \in SUBSET Y
      BY <3>1
    <3> HIDE DEF P, Z
    <3>3. IsSum(f, Z, G(Z)) /\ IsFiniteSet(Z)
      BY <1>3, <3>2
    <3>4. G(Z)[Z] = G(Y)[Z]
      BY <2>1, <3>2, <3>3, SumsAgree
    <3> QED BY <3>4 DEF Z
  <2> HIDE DEF g, P
  <2> QED BY <2>2, <2>3, <2>4
<1>6. g = [X \in SUBSET T |-> IF X = {} THEN 0 ELSE f[AnyOf(X)] + g[P(X)]]
  <2> DEFINE h == [X \in SUBSET T |-> IF X = {} THEN 0 ELSE f[AnyOf(X)] + g[P(X)]]
  <2>1. \A X \in SUBSET T : g[X] = h[X]
    <3> SUFFICES ASSUME NEW X \in SUBSET T PROVE g[X] = h[X]
      OBVIOUS
    <3>1. g[X] = IF X = {} THEN 0 ELSE f[AnyOf(X)] + G(P(X))[P(X)]
      OBVIOUS
    <3>2. h[X] = IF X = {} THEN 0 ELSE f[AnyOf(X)] + g[P(X)]
      OBVIOUS
    <3>3. X # {} => g[P(X)] = G(P(X))[P(X)]
      <4>1. X # {} => P(X) \in SUBSET T /\ P(X) # T
        BY <1>4
      <4> HIDE DEF g, P
      <4> QED BY <1>5, <4>1
    <3> HIDE DEF g, h, P
    <3> QED BY <3>1, <3>2, <3>3
  <2>2. DOMAIN g = SUBSET T /\ DOMAIN h = SUBSET T
    OBVIOUS
  <2>3. g = [X \in SUBSET T |-> g[X]] /\ h = [X \in SUBSET T |-> h[X]]
    OBVIOUS
  <2> HIDE DEF g
  <2>4. g = h
    <3> HIDE DEF h
    <3> QED BY <2>1, <2>2, <2>3
  <2> QED BY <2>4
<1>7. IsSum(f, T, g)
  <2> HIDE DEF g
  <2> QED BY <1>6 DEF IsSum
<1> HIDE DEF g
<1> QED BY <1>2, <1>7


\* SumFunction is the solution's value.
LEMMA SumIs ==
  ASSUME NEW f, IsFiniteSet(DOMAIN f)
  PROVE  \E g : IsSum(f, DOMAIN f, g) /\ SumFunction(f) = g[DOMAIN f]
<1> DEFINE g == CHOOSE g : IsSum(f, DOMAIN f, g)
<1>1. IsSum(f, DOMAIN f, g)
  BY SumExists
<1>2. SumFunction(f) = g[DOMAIN f]
  BY DEF SumFunction, SumFunctionOnSet, FoldFunctionOnSet, MapThenFoldSet, IsSum, AnyOf
<1> QED BY <1>1, <1>2

LEMMA SumOfZeros ==
  ASSUME NEW S, IsFiniteSet(S)
  PROVE  SumFunction([x \in S |-> 0]) = 0
<1> DEFINE f == [x \in S |-> 0]
<1>0. DOMAIN f = S /\ \A x \in S : f[x] = 0
  OBVIOUS
<1> HIDE DEF f
<1>1. PICK g : IsSum(f, S, g) /\ SumFunction(f) = g[S]
  BY <1>0, SumIs
<1> DEFINE Bad == {T \in SUBSET S : g[T] # 0}
<1>2. Bad = {}
  <2> SUFFICES ASSUME Bad # {} PROVE FALSE
    OBVIOUS
  <2>0. Bad \in SUBSET SUBSET S
    OBVIOUS
  <2>1. PICK T \in Bad : T \in SUBSET S /\ \A U \in Bad : U \subseteq T => U = T
    <3> HIDE DEF Bad
    <3> QED BY <2>0, LeastSubset
  <2> DEFINE a == AnyOf(T)
             X == T \ {a}
  <2>2. /\ g[T] # 0
        /\ T = {} => g[T] = 0
        /\ T # {} => g[T] = f[a] + g[X]
    BY <1>1, <2>1, SumAt
  <2>3. a \in T /\ X \subseteq T /\ X # T
    BY <2>2, AnyIn
  <2>4. X \in SUBSET S /\ X \notin Bad /\ a \in S
    BY <2>1, <2>3
  <2>5. g[X] = 0 /\ f[a] = 0 /\ g[T] = f[a] + g[X]
    BY <1>0, <2>2, <2>4
  <2> QED BY <2>2, <2>5
<1>3. g[S] = 0
  BY <1>2
<1> QED BY <1>1, <1>3 DEF f

\* The sum moves by what one of its terms moves by.
LEMMA SumMoves ==
  ASSUME NEW S, IsFiniteSet(S), NEW f \in [S -> Int], NEW h \in [S -> Int], NEW p \in S,
         \A x \in S \ {p} : h[x] = f[x]
  PROVE  /\ SumFunction(f) \in Int /\ SumFunction(h) \in Int
         /\ SumFunction(h) = SumFunction(f) + (h[p] - f[p])
<1>0. DOMAIN f = S /\ DOMAIN h = S
  OBVIOUS
<1>1. PICK g : IsSum(f, S, g) /\ SumFunction(f) = g[S]
  BY <1>0, SumIs
<1>2. PICK k : IsSum(h, S, k) /\ SumFunction(h) = k[S]
  BY <1>0, SumIs
<1> DEFINE Moves(T) == /\ g[T] \in Int /\ k[T] \in Int
                       /\ p \in T => k[T] = g[T] + (h[p] - f[p])
                       /\ p \notin T => k[T] = g[T]
           Bad == {T \in SUBSET S : ~Moves(T)}
<1>3. Bad = {}
  <2> SUFFICES ASSUME Bad # {} PROVE FALSE
    OBVIOUS
  <2>0. Bad \in SUBSET SUBSET S
    OBVIOUS
  <2>1. PICK T \in Bad : T \in SUBSET S /\ \A U \in Bad : U \subseteq T => U = T
    <3> HIDE DEF Bad
    <3> QED BY <2>0, LeastSubset
  <2> DEFINE a == AnyOf(T)
             X == T \ {a}
  <2>2. /\ ~Moves(T)
        /\ T = {} => g[T] = 0
        /\ T # {} => g[T] = f[a] + g[X]
    BY <1>1, <2>1, SumAt
  <2>3. /\ T = {} => k[T] = 0
        /\ T # {} => k[T] = h[a] + k[X]
    BY <1>2, <2>1, SumAt
  <2>4. CASE T = {}
    BY <2>2, <2>3, <2>4
  <2>5. CASE T # {}
    <3>1. a \in T /\ X \subseteq T /\ X # T
      BY <2>5, AnyIn
    <3>2. X \in SUBSET S /\ X \notin Bad /\ a \in S
      BY <2>1, <3>1
    <3>3. Moves(X)
      BY <3>2
    <3>4. \A x : x \in X <=> x \in T /\ x # a
      OBVIOUS
    <3>5. f[a] \in Int /\ h[a] \in Int /\ f[p] \in Int /\ h[p] \in Int /\ (a # p => h[a] = f[a])
      BY <3>2
    <3>6. g[T] = f[a] + g[X] /\ k[T] = h[a] + k[X]
      BY <2>2, <2>3, <2>5
    <3> HIDE DEF a, X
    <3>7. Moves(T)
      <4>1. CASE p = a
        BY <3>1, <3>3, <3>4, <3>5, <3>6, <4>1
      <4>2. CASE p # a
        BY <3>1, <3>3, <3>4, <3>5, <3>6, <4>2
      <4> QED BY <4>1, <4>2
    <3> QED BY <2>2, <3>7
  <2> QED BY <2>4, <2>5
<1>4. Moves(S)
  BY <1>3
<1> HIDE DEF Bad
<1> QED BY <1>1, <1>2, <1>4

-----------------------------------------------------------------------------
(* Preview: the books                                                      *)

Costs == [p \in Pairs |-> pos[p].cost]

\* A SELL in hand is of shares that are there, and was not handled before.
SaleInv ==
  cyc.pc = "place" => /\ cyc.trade \notin seen
                      /\ ~Buys(cyc.trade) => Held(cyc.trade).shares >= cyc.size

BalanceInv == PaperInv /\ SaleInv /\ BooksBalance

\* How often the books were rounded at most.
Roundings == Cardinality(seen) + Cardinality(SellsSeen)

LEMMA BooksTypes ==
  ASSUME TypeOK
  PROVE  /\ IsFiniteSet(Pairs) /\ Costs \in [Pairs -> Int]
         /\ IsFiniteSet(SellsSeen) /\ Cardinality(SellsSeen) \in Nat
         /\ IsFiniteSet(seen) /\ Cardinality(seen) \in Nat
         /\ cash \in Int /\ today.pnl \in Int /\ past.pnl \in Int
<1>1. IsFiniteSet(Pairs)
  BY ConstantsOK, FS_Product DEF Pairs
<1>2. Costs \in [Pairs -> Int]
  BY DEF TypeOK, Costs
<1>3. IsFiniteSet(SellsSeen) /\ IsFiniteSet(seen)
  BY ConstantsOK, FS_Subset DEF TypeOK, SellsSeen
<1> QED BY <1>1, <1>2, <1>3, FS_CardinalityType DEF TypeOK

LEMMA CostTyped ==
  ASSUME TypeOK
  PROVE  PositionsCost \in Int
<1>1. Costs \in [Pairs -> Int] /\ IsFiniteSet(Pairs)
  BY BooksTypes
<1>2. CASE Pairs = {}
  <2>1. Costs = [p \in Pairs |-> 0]
    BY <1>2 DEF Costs
  <2> QED BY <1>1, <2>1, SumOfZeros DEF PositionsCost, Costs
<1>3. CASE Pairs # {}
  <2>1. PICK p : p \in Pairs
    BY <1>3
  <2>2. SumFunction(Costs) \in Int
    BY <1>1, <2>1, SumMoves
  <2> QED BY <2>2 DEF PositionsCost, Costs
<1> QED BY <1>2, <1>3

\* The same of the next state.
BooksTyped == /\ Costs \in [Pairs -> Int] /\ PositionsCost \in Int
              /\ IsFiniteSet(SellsSeen) /\ Cardinality(SellsSeen) \in Nat
              /\ IsFiniteSet(seen) /\ Cardinality(seen) \in Nat
              /\ cash \in Int /\ today.pnl \in Int /\ past.pnl \in Int

LEMMA TypedBooks == TypeOK' => BooksTyped'
<1>1. TypeOK => BooksTyped
  BY BooksTypes, CostTyped DEF BooksTyped
<1> QED BY <1>1, PTL

LEMMA BooksTypesNext ==
  ASSUME TypeOK'
  PROVE  /\ Costs' \in [Pairs -> Int] /\ PositionsCost' \in Int
         /\ IsFiniteSet(SellsSeen') /\ Cardinality(SellsSeen') \in Nat
         /\ IsFiniteSet(seen') /\ Cardinality(seen') \in Nat
         /\ cash' \in Int /\ today'.pnl \in Int /\ past'.pnl \in Int
<1>1. BooksTyped'
  BY TypedBooks
<1>2. Costs' \in [Pairs -> Int]
  BY <1>1 DEF BooksTyped, Pairs
<1> QED BY <1>1, <1>2 DEF BooksTyped

LEMMA BooksInit == Preview /\ Init => BalanceInv
<1> SUFFICES ASSUME Preview, Init PROVE BalanceInv
  OBVIOUS
<1>1. PaperInv
  BY PaperInit
<1>2. TypeOK
  BY <1>1 DEF PaperInv, TypeInv
<1>3. SaleInv
  BY DEF Init, IdleCycle, SaleInv
<1>4. PositionsCost = 0
  <2>1. [p \in Pairs |-> pos[p].cost] = [p \in Pairs |-> 0]
    BY DEF Init
  <2> QED BY <1>2, <2>1, BooksTypes, SumOfZeros DEF PositionsCost
<1>5. Drift = 0
  <2>1. cash - Capital - today.pnl - past.pnl = 0
    BY ConstantsOK DEF Init, NewDayRow
  <2> QED BY <1>4, <2>1, ConstantsOK DEF Drift
<1>6. Cardinality(SellsSeen) = 0 /\ Cardinality(seen) = 0
  <2>1. SellsSeen = {} /\ seen = {}
    BY DEF Init, SellsSeen
  <2> QED BY <2>1, FS_EmptySet
<1>7. BooksBalance
  BY <1>5, <1>6, ConstantsOK DEF BooksBalance
<1> QED BY <1>1, <1>3, <1>7 DEF BalanceInv

\* The balance, with the slack named.
LEMMA BalanceSlack ==
  BooksBalance <=> (Preview => /\ -(Cent * Roundings) <= 2 * Drift
                               /\ 2 * Drift <= Cent * Roundings)
  BY DEF BooksBalance, Roundings

LEMMA DriftType ==
  ASSUME TypeOK
  PROVE  Drift \in Int /\ Roundings \in Nat /\ Cent * Roundings \in Nat
<1>1. Drift \in Int /\ Roundings \in Nat
  BY BooksTypes, CostTyped, ConstantsOK DEF Drift, Roundings
<1> QED BY <1>1, ConstantsOK

DriftTyped == Drift \in Int /\ Roundings \in Nat /\ Cent * Roundings \in Nat

LEMMA TypedDrift == TypeOK' => DriftTyped'
<1>1. TypeOK => DriftTyped
  BY DriftType DEF DriftTyped
<1> QED BY <1>1, PTL

LEMMA DriftTypeNext ==
  ASSUME TypeOK'
  PROVE  Drift' \in Int /\ Roundings' \in Nat /\ Cent * Roundings' \in Nat
  BY TypedDrift DEF DriftTyped

\* Bounds on an error, with its sign, and on two errors.
LEMMA ErrorBounds ==
  ASSUME NEW a \in Int, NEW b \in Int, NEW c \in Int,
         -c <= 2 * (a - b) /\ 2 * (a - b) <= c
  PROVE  /\ -c <= 2 * (b - a) /\ 2 * (b - a) <= c
         /\ \A d \in Int : -c <= 2 * d /\ 2 * d <= c =>
              /\ -(2 * c) <= 2 * ((b - a) + d)
              /\ 2 * ((b - a) + d) <= 2 * c
<1>1. -c <= 2 * (b - a) /\ 2 * (b - a) <= c
  OBVIOUS
<1>2. ASSUME NEW d \in Int, -c <= 2 * d /\ 2 * d <= c
      PROVE  /\ -(2 * c) <= 2 * ((b - a) + d)
             /\ 2 * ((b - a) + d) <= 2 * c
  BY <1>2
<1> QED BY <1>1, <1>2

LEMMA ErrorSum ==
  ASSUME NEW old \in Int, NEW new \in Int, NEW a \in Int, NEW k \in Int,
         -a <= 2 * old, 2 * old <= a,
         -k <= 2 * (new - old), 2 * (new - old) <= k
  PROVE  -(a + k) <= 2 * new /\ 2 * new <= a + k
  OBVIOUS

\* A step that moves no money and forgets no trade keeps the balance.
LEMMA BooksFrame ==
  ASSUME BooksBalance, TypeOK, TypeOK', pos' = pos, cash' = cash,
         today'.pnl + past'.pnl = today.pnl + past.pnl, seen \subseteq seen'
  PROVE  BooksBalance'
<1>1. /\ IsFiniteSet(SellsSeen') /\ Cardinality(SellsSeen) \in Nat
      /\ Cardinality(SellsSeen') \in Nat
      /\ IsFiniteSet(seen') /\ Cardinality(seen) \in Nat /\ Cardinality(seen') \in Nat
      /\ cash \in Int /\ today.pnl \in Int /\ past.pnl \in Int
      /\ today'.pnl \in Int /\ past'.pnl \in Int
  BY BooksTypes, BooksTypesNext
<1>2. SellsSeen \subseteq SellsSeen'
  BY DEF SellsSeen, Buys
<1>3. /\ Cardinality(SellsSeen) <= Cardinality(SellsSeen')
      /\ Cardinality(seen) <= Cardinality(seen')
  BY <1>1, <1>2, FS_Subset
<1>4. Drift' = Drift
  <2>1. PositionsCost' = PositionsCost
    BY DEF PositionsCost
  <2>2. cash' - Capital - today'.pnl - past'.pnl = cash - Capital - today.pnl - past.pnl
    BY <1>1, ConstantsOK
  <2> QED BY <2>1, <2>2 DEF Drift
<1>5. /\ Drift \in Int /\ Roundings \in Nat /\ Roundings' \in Nat
      /\ Cent * Roundings \in Nat /\ Cent * Roundings' \in Nat
  BY DriftType, DriftTypeNext
<1>6. Roundings <= Roundings'
  BY <1>1, <1>3 DEF Roundings
<1>7. Cent * Roundings <= Cent * Roundings'
  <2>1. \A m, n \in Nat, k \in Nat : m <= n => k * m <= k * n
    OBVIOUS
  <2> QED BY <1>5, <1>6, <2>1, ConstantsOK
<1> DEFINE a == Cent * Roundings
           b == Cent * Roundings'
<1>8. Preview => -a <= 2 * Drift /\ 2 * Drift <= a
  BY BalanceSlack
<1>9. BooksBalance' <=> (Preview => -b <= 2 * Drift' /\ 2 * Drift' <= b)
  BY DEF BooksBalance, Roundings
<1>10. a \in Nat /\ b \in Nat /\ a <= b
  BY <1>5, <1>7
<1> HIDE DEF a, b
<1> QED BY <1>4, <1>5, <1>8, <1>9, <1>10

\* What the fill of an order in hand does to the books: a BUY turns cash into
\* cost and the cash is rounded; a SELL turns cost into cash and PnL, and both
\* are rounded.
LEMMA BooksFill ==
  ASSUME Preview, TypeOK, TypeOK', NEW t \in Trades, NEW n \in Nat \ {0}, ApplyFill(t, n),
         ~Buys(t) => Held(t).shares >= n, past' = past
  PROVE  LET k == IF Buys(t) THEN Cent ELSE 2 * Cent
         IN -k <= 2 * (Drift' - Drift) /\ 2 * (Drift' - Drift) <= k
<1> DEFINE usd == n * Trade[t].price
           p == PairOf(t)
           old == Held(t).cost
           new == PositionAfter(t, n).cost
<1>1. /\ p \in Pairs /\ usd \in Nat /\ Cent \in Nat \ {0} /\ Capital \in Int
      /\ cash \in Int /\ today.pnl \in Int /\ past.pnl \in Int /\ today \in Day
      /\ old \in Int /\ new \in Int /\ PositionsCost \in Int
  BY TradeType, Products, BooksTypes, TypeParts, HeldType, PositionType, CostTyped,
     ConstantsOK DEF Position
<1>2. PositionsCost' = PositionsCost + (new - old)
  <2>1. Costs \in [Pairs -> Int] /\ Costs' \in [Pairs -> Int] /\ IsFiniteSet(Pairs)
    BY BooksTypes, BooksTypesNext
  <2>2. pos' = [pos EXCEPT ![PairOf(t)] = PositionAfter(t, n)] /\ pos \in [Pairs -> Position]
    BY TypeParts DEF ApplyFill
  <2>3. Costs'[p] = new /\ Costs[p] = old /\ \A q \in Pairs \ {p} : Costs'[q] = Costs[q]
    BY <1>1, <2>2 DEF Costs, Held
  <2> DEFINE f == Costs
             h == Costs'
  <2>4. f \in [Pairs -> Int] /\ h \in [Pairs -> Int] /\ \A q \in Pairs \ {p} : h[q] = f[q]
    BY <2>1, <2>3
  <2> HIDE DEF f, h, p
  <2>5. SumFunction(h) = SumFunction(f) + (h[p] - f[p])
    BY <1>1, <2>1, <2>4, SumMoves
  <2>6. PositionsCost = SumFunction(f) /\ PositionsCost' = SumFunction(h)
    BY DEF PositionsCost, Costs, f, h
  <2>7. h[p] = new /\ f[p] = old
    BY <2>3 DEF f, h, p
  <2> QED BY <2>5, <2>6, <2>7
<1>3. today'.pnl \in Int /\ cash' \in Int
  BY BooksTypesNext
<1>4. Drift' - Drift = (cash' - cash) - (today'.pnl - today.pnl) + (new - old)
  <2> HIDE DEF new, old
  <2> QED BY <1>1, <1>2, <1>3 DEF Drift
<1>5. CASE Buys(t)
  <2>1. today'.pnl = today.pnl /\ cash' = ToCents(cash - usd) /\ new = old + usd
    BY <1>1, <1>5 DEF ApplyFill, CashAfter, PositionAfter, Day
  <2> HIDE DEF usd, old, new
  <2>2. cash - usd \in Int
    BY <1>1
  <2>3. /\ -Cent <= 2 * ((cash - usd) - cash')
        /\ 2 * ((cash - usd) - cash') <= Cent
    BY <2>1, <2>2, ToCentsNear
  <2>4. Drift' - Drift = cash' - (cash - usd)
    BY <1>1, <1>3, <1>4, <2>1
  <2>5. -Cent <= 2 * (cash' - (cash - usd)) /\ 2 * (cash' - (cash - usd)) <= Cent
    <3>1. PICK u \in Int : u = cash - usd
      BY <2>2
    <3>2. PICK v \in Int : v = cash'
      BY <1>3
    <3>0. Cent \in Int
      BY ConstantsOK
    <3>3. -Cent <= 2 * (u - v) /\ 2 * (u - v) <= Cent
      BY <2>3, <3>1, <3>2
    <3>4. -Cent <= 2 * (v - u) /\ 2 * (v - u) <= Cent
      BY <3>0, <3>3, ErrorBounds
    <3> QED BY <3>1, <3>2, <3>4
  <2> QED BY <1>5, <2>4, <2>5
<1>6. CASE ~Buys(t)
  <2> DEFINE x == usd - (old - new)
             r == ToCents(x)
  <2>1. Sold(t, n) = n
    BY <1>6, HeldType DEF Sold, Least
  <2>2. new = CostLeft(t, n)
    BY <1>6 DEF PositionAfter
  <2>3. Trade[t].price * Sold(t, n) = usd
    BY <2>1, TradeType
  <2>4. Pnl(t, n) = r
    BY <2>2, <2>3 DEF Pnl
  <2>5. today' = [today EXCEPT !.pnl = @ + Pnl(t, n)] /\ cash' = ToCents(cash + usd)
    BY <1>6 DEF ApplyFill, CashAfter
  <2>6. today'.pnl = today.pnl + r
    BY <1>1, <2>4, <2>5 DEF Day
  <2> HIDE DEF usd, old, new
  <2>7. x \in Int /\ cash + usd \in Int
    BY <1>1
  <2>8. r \in Int /\ -Cent <= 2 * (x - r) /\ 2 * (x - r) <= Cent
    <3> HIDE DEF x
    <3> QED BY <2>7, ToCentsNear
  <2>9. -Cent <= 2 * ((cash + usd) - cash') /\ 2 * ((cash + usd) - cash') <= Cent
    BY <2>5, <2>7, ToCentsNear
  <2> HIDE DEF r
  <2>10. Drift' - Drift = (cash' - (cash + usd)) + (x - r)
    BY <1>1, <1>3, <1>4, <2>6, <2>8
  <2> DEFINE y == cash + usd
             d == x - r
  <2>12. y \in Int /\ d \in Int /\ Cent \in Int /\ cash' \in Int
    BY <1>1, <1>3, <2>7, <2>8
  <2> HIDE DEF x, y, d
  <2>13. /\ -(2 * Cent) <= 2 * ((cash' - y) + d)
         /\ 2 * ((cash' - y) + d) <= 2 * Cent
    BY <2>8, <2>9, <2>12, ErrorBounds DEF y, d
  <2>11. /\ -(2 * Cent) <= 2 * ((cash' - (cash + usd)) + (x - r))
         /\ 2 * ((cash' - (cash + usd)) + (x - r)) <= 2 * Cent
    BY <2>13 DEF y, d
  <2> QED BY <1>6, <2>10, <2>11
<1> QED BY <1>5, <1>6

LEMMA BooksRecord ==
  ASSUME Preview, BalanceInv, RecordPreview
  PROVE  BalanceInv'
<1> DEFINE t == cyc.trade
           n == cyc.size
<1>1. /\ PaperInv /\ PaperInv' /\ TypeInv /\ TypeOK /\ TypeOK'
  BY PaperRecord DEF BalanceInv, PaperInv, TypeInv
<1>2. /\ cyc.pc = "place" /\ t \in Trades /\ n \in Nat \ {0} /\ ApplyFill(t, n)
      /\ seen' = seen \cup {t} /\ past' = past /\ cyc'.pc # "place"
  <2>1. cyc'.pc = "queue" /\ t \in Trades
    BY <1>1, AnswerShape DEF AnswerStep
  <2>2. n \in Nat \ {0}
    BY <1>1 DEF RecordPreview, TypeInv, TypeOK, ControlInv
  <2> QED BY <2>1, <2>2 DEF RecordPreview
<1>3. t \notin seen /\ (~Buys(t) => Held(t).shares >= n)
  BY <1>2 DEF BalanceInv, SaleInv
<1> DEFINE k == IF Buys(t) THEN Cent ELSE 2 * Cent
<1>4. -k <= 2 * (Drift' - Drift) /\ 2 * (Drift' - Drift) <= k
  <2>1. /\ Buys(t) => -Cent <= 2 * (Drift' - Drift) /\ 2 * (Drift' - Drift) <= Cent
        /\ ~Buys(t) => /\ -(2 * Cent) <= 2 * (Drift' - Drift)
                       /\ 2 * (Drift' - Drift) <= 2 * Cent
    <3> HIDE DEF t, n
    <3> QED BY <1>1, <1>2, <1>3, BooksFill
  <2> QED BY <2>1
<1>5. /\ Drift \in Int /\ Drift' \in Int /\ Roundings \in Nat /\ Roundings' \in Nat
      /\ Cent \in Nat /\ k \in Nat /\ Cent * Roundings \in Nat
  BY <1>1, DriftType, DriftTypeNext, ConstantsOK
<1>6. SellsSeen' = IF Buys(t) THEN SellsSeen ELSE SellsSeen \cup {t}
  BY <1>2 DEF SellsSeen, Buys
<1>7. /\ Cardinality(SellsSeen') =
           IF Buys(t) THEN Cardinality(SellsSeen) ELSE Cardinality(SellsSeen) + 1
      /\ Cardinality(seen') = Cardinality(seen) + 1
      /\ Cardinality(SellsSeen) \in Nat /\ Cardinality(seen) \in Nat
  <2>1. t \notin SellsSeen
    BY <1>3 DEF SellsSeen
  <2>2. /\ IsFiniteSet(SellsSeen) /\ IsFiniteSet(seen)
        /\ Cardinality(SellsSeen) \in Nat /\ Cardinality(seen) \in Nat
    BY <1>1, BooksTypes
  <2> QED BY <1>2, <1>3, <1>6, <2>1, <2>2, FS_AddElement
<1>8. Cent * Roundings' = Cent * Roundings + k
  <2>1. Roundings' = IF Buys(t) THEN Roundings + 1 ELSE Roundings + 2
    BY <1>7 DEF Roundings
  <2>2. \A c, m \in Nat : c * (m + 1) = c * m + c /\ c * (m + 2) = c * m + 2 * c
    OBVIOUS
  <2> QED BY <1>5, <2>1, <2>2
<1> DEFINE a == Cent * Roundings
           b == Cent * Roundings'
<1>9. -a <= 2 * Drift /\ 2 * Drift <= a
  BY BalanceSlack DEF BalanceInv
<1>10. BooksBalance' <=> (Preview => -b <= 2 * Drift' /\ 2 * Drift' <= b)
  BY DEF BooksBalance, Roundings
<1>11. BooksBalance'
  <2>1. a \in Nat /\ b = a + k
    BY <1>5, <1>8
  <2> HIDE DEF a, b, k
  <2>2. -(a + k) <= 2 * Drift' /\ 2 * Drift' <= a + k
    <3>1. PICK d \in Int : d = Drift
      BY <1>5
    <3>2. PICK e \in Int : e = Drift'
      BY <1>5
    <3>3. a \in Int /\ k \in Int /\ -a <= 2 * d /\ 2 * d <= a
      BY <1>5, <1>9, <2>1, <3>1
    <3>4. -k <= 2 * (e - d) /\ 2 * (e - d) <= k
      BY <1>4, <3>1, <3>2
    <3>5. -(a + k) <= 2 * e /\ 2 * e <= a + k
      BY <3>3, <3>4, ErrorSum
    <3> QED BY <3>2, <3>5
  <2> QED BY <1>10, <2>1, <2>2
<1>12. SaleInv'
  BY <1>2 DEF SaleInv
<1> QED BY <1>1, <1>11, <1>12 DEF BalanceInv

\* Only a SELL of shares that are there is placed.
LEMMA BooksDecide ==
  ASSUME Preview, BalanceInv, NEW t \in Trades, Decide(t)
  PROVE  BalanceInv'
<1>1. PaperInv /\ PaperInv' /\ TypeInv /\ TypeOK /\ TypeOK'
  BY PaperDecide DEF BalanceInv, PaperInv, TypeInv
<1>2. /\ cyc'.pc = "place" => cyc'.trade = t /\ t \notin seen'
      /\ seen \subseteq seen' /\ pos' = pos /\ today' = today
  BY <1>1, DecideShape
<1>3. cash' = cash /\ past' = past
  BY DEF Decide, Filtered, AlreadyHandled, LosesConflict, BelowMinimum, RiskRefuses,
     Uncovered, PlaceOrder
<1>4. ASSUME cyc'.pc = "place", ~Buys(t) PROVE Held(t).shares >= cyc'.size
  <2>1. Turn(t)
    BY DEF Decide, Filtered, AlreadyHandled, LosesConflict, BelowMinimum, RiskRefuses,
       Uncovered, PlaceOrder, Considered, Fresh
  <2>2. /\ Advanced \in Cycle /\ Passed(t) \in Cycle
        /\ Advanced.pc = "queue" /\ Passed(t).pc = "queue"
    BY <1>1, <2>1, TurnTypes DEF TypeInv
  <2>3. PlaceOrder(t)
    BY <1>4, <2>2 DEF Decide, Filtered, AlreadyHandled, LosesConflict, BelowMinimum,
       RiskRefuses, Uncovered
  <2>4. cyc'.size = Size(t)
    BY <2>2, <2>3 DEF PlaceOrder, Cycle
  <2> QED BY <1>4, <2>3, <2>4 DEF PlaceOrder, Covered
<1>5. SaleInv'
  <2>1. Held(t)' = Held(t)
    BY <1>2 DEF Held
  <2> QED BY <1>2, <1>4, <2>1 DEF SaleInv, Held, Buys
<1>6. BooksBalance'
  BY <1>1, <1>2, <1>3, BooksFrame DEF BalanceInv
<1> QED BY <1>1, <1>5, <1>6 DEF BalanceInv

LEMMA BooksStep == Preview /\ BalanceInv /\ [Next]_vars => BalanceInv'
<1> SUFFICES ASSUME Preview, BalanceInv, [Next]_vars PROVE BalanceInv'
  OBVIOUS
<1>1. PaperInv /\ PaperInv' /\ TypeInv /\ TypeOK /\ TypeOK'
  BY PaperStep DEF BalanceInv, PaperInv, TypeInv
<1>2. CASE UNCHANGED vars
  <2>1. SaleInv' /\ BooksBalance'
    BY <1>2 DEF vars, BalanceInv, SaleInv, BooksBalance, Drift, PositionsCost, SellsSeen,
       Held, Buys
  <2> QED BY <1>1, <2>1 DEF BalanceInv
<1>3. CASE Outside
  <2>1. seen' = seen /\ cyc' = cyc /\ pos' = pos /\ cash' = cash
    BY <1>3 DEF Outside, NewDay, ResetKillSwitch, WindowPasses
  <2>2. today'.pnl + past'.pnl = today.pnl + past.pnl
    <3>1. today.pnl \in Int /\ past.pnl \in Int /\ today \in Day
      BY <1>1, BooksTypes, TypeParts
    <3>2. CASE NewDay
      BY <3>1, <3>2 DEF NewDay, NewDayRow
    <3>3. CASE ResetKillSwitch
      BY <3>1, <3>3 DEF ResetKillSwitch, Day
    <3>4. ASSUME NEW p \in Pairs, WindowPasses(p) PROVE today' = today /\ past' = past
      BY <3>4 DEF WindowPasses
    <3> QED BY <1>3, <3>2, <3>3, <3>4 DEF Outside
  <2>3. BooksBalance'
    BY <1>1, <2>1, <2>2, BooksFrame DEF BalanceInv
  <2>4. SaleInv'
    BY <2>1 DEF BalanceInv, SaleInv, Held
  <2> QED BY <1>1, <2>3, <2>4 DEF BalanceInv
<1>4. CASE CycleStep
  <2>1. cyc'.pc # "place" /\ seen' = seen /\ pos' = pos
    BY <1>1, <1>4, CycleShape
  <2>2. cash' = cash /\ past' = past /\ today'.pnl = today.pnl
    <3>1. today \in Day
      BY <1>1, TypeParts
    <3> QED BY <1>4, <3>1 DEF CycleStep, StartCycle, GateCloses, GatePasses, PollLeaders,
               EndCycle, Crash, Day
  <2>3. BooksBalance'
    BY <1>1, <2>1, <2>2, BooksFrame DEF BalanceInv
  <2> QED BY <1>1, <2>1, <2>3 DEF BalanceInv, SaleInv
<1>5. AnswerStep => RecordPreview
  BY PreviewAnswers
<1>6. ~LossStep /\ ~RestingStep
  BY <1>1, NothingOpen DEF PaperInv
<1>7. ASSUME NEW t \in Trades, Decide(t) PROVE BalanceInv'
  BY <1>7, BooksDecide
<1> QED BY <1>2, <1>3, <1>4, <1>5, <1>6, <1>7, StepKinds, BooksRecord

\* In preview, cash, the cost of the positions and the realized PnL account for
\* the capital but for the rounding to cents, half a cent of the cash for every
\* trade that was handled and as much again of the PnL for a SELL: whatever is
\* traded, at any prices and sizes, and whenever midnight passes.
THEOREM BooksStayBalanced == Spec => []BooksBalance
<1>1. BalanceInv => BooksBalance
  BY DEF BalanceInv
<1>2. ~Preview => BooksBalance
  BY DEF BooksBalance
<1>3. CASE Preview
  <2>1. Init => BalanceInv
    BY <1>3, BooksInit
  <2>2. BalanceInv /\ [Next]_vars => BalanceInv'
    BY <1>3, BooksStep
  <2> QED BY <1>1, <2>1, <2>2, PTL DEF Spec
<1>4. CASE ~Preview
  BY <1>2, <1>4, PTL
<1> QED BY <1>3, <1>4

=============================================================================
