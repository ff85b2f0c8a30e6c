--------------------------- MODULE LiveOrdersProofs ---------------------------
(***************************************************************************)
(* Proofs about LiveOrders, for every value of its constants: its types,   *)
(* what is booked and whose, how completely, and that the engine           *)
(* implements the ledger of FillLedger.                                    *)
(***************************************************************************)
EXTENDS LiveOrders, TLAPS

-----------------------------------------------------------------------------
(* Type correctness                                                        *)

TypeInv == TypeOK /\ ControlInv

LEMMA LevelsAreNat == Levels \subseteq Nat /\ 0 \in Levels /\ Size \in Levels
  BY ConstantsOK

LEMMA ZeroInBounds == 0 \in 0..RetryLimit /\ 0 \in 0..Size
  BY ConstantsOK

\* The shares a pass books are the matched ones its snapshot does not count.
LEMMA FillDeltaNat ==
  ASSUME NEW matched \in Levels, NEW filled \in Levels
  PROVE  /\ FillDelta(matched, filled) \in Nat
         /\ filled <= matched => FillDelta(matched, filled) = matched - filled
  BY LevelsAreNat DEF FillDelta

LEMMA IdleTypes == NoRow \in Row /\ IdlePass \in Pass /\ IdleCycle \in CopyCycle
<1>1. NoRow \in Row
  BY ConstantsOK DEF NoRow, Row
<1>2. QED BY <1>1, ConstantsOK DEF IdlePass, Pass, IdleCycle, CopyCycle

LEMMA StartedPassType == TypeOK => StartedPass \in Pass
  BY IdleTypes DEF TypeOK, StartedPass, Pass, Tracked

LEMMA TypeInit == Init => TypeInv
<1> SUFFICES ASSUME Init PROVE TypeInv
  OBVIOUS
<1>1. clob \in [Orders -> ClobOrder]
  BY ConstantsOK DEF Init, ClobOrder
<1>2. QED
  BY <1>1, IdleTypes DEF Init, TypeInv, TypeOK, ControlInv, IdlePass, IdleCycle

\* An upsert keeps the rows well formed.
LEMMA UpsertType ==
  ASSUME TypeOK, NEW o \in Orders, NEW filled \in Levels,
         NEW t \in Trades \cup {None, Recovered}, Upsert(o, filled, t)
  PROVE  rows' \in [Orders -> Row]
<1>1. rows[o] \in Row
  BY DEF TypeOK
<1>2. [rows[o] EXCEPT !.filled = filled] \in Row
  BY <1>1 DEF Row
<1>3. [tracked |-> TRUE, filled |-> filled, old |-> FALSE, trade |-> t] \in Row
  BY DEF Row
<1>4. QED BY <1>1, <1>2, <1>3 DEF Upsert, TypeOK

\* What the exchange, the clock and the dashboard do keeps the types.
LEMMA TypeOutside ==
  ASSUME TypeInv, Exchange \/ Dashboard
  PROVE  TypeInv'
<1> USE ConstantsOK DEF TypeInv, TypeOK, ControlInv, Open, Tracked
<1>1. ASSUME NEW o \in Orders, Fill(o) PROVE TypeInv'
  <2>1. PICK m \in Levels :
          clob' = [clob EXCEPT ![o].matched = m,
                               ![o].st = IF m = Size THEN "closed" ELSE "open"]
    BY <1>1 DEF Fill
  <2> DEFINE st == IF m = Size THEN "closed" ELSE "open"
             e == [clob[o] EXCEPT !.matched = m, !.st = st]
  <2>2. clob' \in [Orders -> ClobOrder]
    <3>1. e \in ClobOrder
      <4>1. clob[o] \in ClobOrder /\ st \in {"unused", "open", "closed"}
        OBVIOUS
      <4> HIDE DEF st, TypeInv
      <4>2. QED BY <4>1 DEF ClobOrder
    <3>2. clob' = [clob EXCEPT ![o] = e]
      BY <2>1
    <3> HIDE DEF e
    <3>3. QED BY <3>1, <3>2
  <2>3. QED BY <1>1, <2>2 DEF Fill
<1>2. ASSUME NEW o \in Orders, Expire(o) PROVE TypeInv'
  <2>1. clob' \in [Orders -> ClobOrder]
    BY <1>2 DEF Expire, ClobOrder
  <2>2. QED BY <1>2, <2>1 DEF Expire
<1>3. ASSUME NEW o \in Orders, Age(o) PROVE TypeInv'
  <2>1. rows[o] \in Row /\ rows' = [rows EXCEPT ![o] = [rows[o] EXCEPT !.old = TRUE]]
    BY <1>3 DEF Age
  <2>2. [rows[o] EXCEPT !.old = TRUE] \in Row
    <3> HIDE DEF TypeInv
    <3>1. QED BY <2>1 DEF Row
  <2>3. rows' \in [Orders -> Row]
    BY <2>1, <2>2
  <2>4. QED BY <1>3, <2>3 DEF Age
<1>4. ASSUME NEW o \in Orders, CancelAsked(o) PROVE TypeInv'
  BY <1>4 DEF CancelAsked
<1>5. ASSUME NEW o \in Orders, CancelAnswered(o) PROVE TypeInv'
  <2>1. [clob EXCEPT ![o].st = "closed"] \in [Orders -> ClobOrder]
    BY DEF ClobOrder
  <2>2. QED BY <1>5, <2>1 DEF CancelAnswered
<1>6. ASSUME NEW o \in Orders, CancelSaved(o) PROVE TypeInv'
  BY <1>6, IdleTypes DEF CancelSaved
<1>7. QED BY <1>1, <1>2, <1>3, <1>4, <1>5, <1>6 DEF Exchange, Dashboard

\* A pass over the pending rows keeps the types.
LEMMA TypeReconcile ==
  ASSUME TypeInv, NEW r \in Reconcilers, Reconcile(r)
  PROVE  TypeInv'
<1> USE ConstantsOK DEF TypeInv, TypeOK, ControlInv
<1>0. pass[r] \in Pass
  OBVIOUS
<1>1. CASE CancelStale(r)
  <2>1. clob' \in [Orders -> ClobOrder]
    <3>1. \A o \in Orders : [clob EXCEPT ![o].st = "closed"] \in [Orders -> ClobOrder]
      BY DEF ClobOrder
    <3>2. pass[r].cur \in Orders
      BY <1>0, <1>1 DEF CancelStale, Pass
    <3>3. QED BY <1>1, <3>1, <3>2 DEF CancelStale
  <2>2. PICK stage \in {"cancelled", "uncancelled"} :
          pass' = [pass EXCEPT ![r].stage = stage]
    BY <1>1 DEF CancelStale
  <2>3. pass' \in [Reconcilers -> Pass]
    BY <2>2, <1>0 DEF Pass
  <2>4. \A q \in Reconcilers : pass'[q].cur = pass[q].cur
    BY <2>2, <1>0 DEF Pass
  <2>5. \A q \in Reconcilers : (pass'[q].stage = "ask") <=> (pass[q].stage = "ask")
    BY <1>1, <2>2, <1>0 DEF Pass, CancelStale
  <2>6. QED BY <1>1, <2>1, <2>3, <2>4, <2>5 DEF CancelStale
<1>2. ASSUME NEW remove \in BOOLEAN, pass[r].cur \in Orders, Commit(r, remove)
      PROVE  TypeInv'
  <2> DEFINE p == pass[r]
             o == p.cur
             d == FillDelta(p.matched, p.snap[o].filled)
             q == IF p.todo = {} THEN IdlePass
                  ELSE [p EXCEPT !.stage = "ask", !.cur = None, !.matched = 0,
                                 !.final = FALSE, !.snap[o] = NoRow]
  <2>1. d \in Nat
    <3>1. p.matched \in Levels
      BY <1>0 DEF Pass
    <3>2. p.snap[o].filled \in Levels
      BY <1>0, <1>2 DEF Pass, Row
    <3>3. QED BY <3>1, <3>2, FillDeltaNat
  <2>2. credited' \in [Orders -> Nat]
    <3>1. credited' = [credited EXCEPT ![o] = @ + d]
      BY <1>2 DEF Commit
    <3> HIDE DEF d
    <3>2. QED BY <1>2, <3>1, <2>1
  <2>3. rows' \in [Orders -> Row]
    <3>1. p.matched \in Levels
      BY <1>0 DEF Pass
    <3>2. rows[o] \in Row
      BY <1>2
    <3> HIDE DEF TypeInv, TypeOK
    <3>3. [rows[o] EXCEPT !.filled = p.matched] \in Row
      BY <3>1, <3>2 DEF Row
    <3>4. QED BY <1>2, <3>2, <3>3, IdleTypes DEF Commit, TypeInv, TypeOK
  <2>4. q \in Pass /\ q.stage = "ask" /\ q.cur = None
    <3>1. CASE p.todo = {}
      BY <3>1, IdleTypes DEF IdlePass
    <3>2. CASE p.todo # {}
      <4>1. [p.snap EXCEPT ![o] = NoRow] \in [Orders -> Row]
        BY <1>0, <1>2, IdleTypes DEF Pass
      <4>2. 0 \in Levels
        OBVIOUS
      <4> HIDE DEF TypeInv
      <4>3. [p EXCEPT !.stage = "ask", !.cur = None, !.matched = 0, !.final = FALSE,
                      !.snap[o] = NoRow] \in Pass
        BY <1>0, <4>1, <4>2 DEF Pass
      <4>4. QED BY <1>0, <3>2, <4>3 DEF Pass
    <3>3. QED BY <3>1, <3>2
  <2>5. pass' = [pass EXCEPT ![r] = q]
    BY <1>2 DEF Commit
  <2> HIDE DEF q
  <2>6. pass' \in [Reconcilers -> Pass]
    BY <2>4, <2>5
  <2>7. \A x \in Reconcilers : (pass'[x].stage = "ask") <=> (pass'[x].cur = None)
    BY <2>4, <2>5
  <2>8. QED BY <1>2, <2>2, <2>3, <2>6, <2>7 DEF Commit
<1>3. CASE ApplyStatus(r)
  <2>1. pass[r].cur \in Orders
    BY <1>0, <1>3 DEF ApplyStatus, Pass
  <2>2. pass[r].final \in BOOLEAN
    BY <1>0 DEF Pass
  <2>3. QED BY <1>2, <1>3, <2>1, <2>2 DEF ApplyStatus
<1>4. ASSUME NEW o \in Orders, AskStatus(r, o) PROVE TypeInv'
  <2>1. clob[o].matched \in Levels /\ Final(o) \in BOOLEAN
    BY DEF Final, ClobOrder
  <2>2. pass' \in [Reconcilers -> Pass]
    BY <1>0, <1>4, <2>1 DEF AskStatus, Pass
  <2>3. /\ pass'[r].stage = "apply" /\ pass'[r].cur = o
        /\ \A q \in Reconcilers \ {r} : pass'[q] = pass[q]
    BY <1>0, <1>4 DEF AskStatus, Pass
  <2>4. QED BY <1>4, <2>2, <2>3 DEF AskStatus
<1>5. ASSUME NEW o \in Orders, StatusDown(r, o) PROVE TypeInv'
  <2>1. /\ pass' \in [Reconcilers -> Pass]
        /\ \A q \in Reconcilers :
             pass'[q].stage = pass[q].stage /\ pass'[q].cur = pass[q].cur
    BY <1>0, <1>5, IdleTypes DEF StatusDown, Pass
  <2>2. QED BY <1>5, <2>1 DEF StatusDown
<1>6. QED BY <1>1, <1>3, <1>4, <1>5 DEF Reconcile

\* The start of a cycle or of a flush, a crash and the adoption keep the types.
LEMMA TypeAdoption ==
  ASSUME TypeInv, StartCycle \/ GateCloses \/ Adoption \/ StartFlush \/ Crash
  PROVE  TypeInv'
<1> USE DEF TypeInv, TypeOK, ControlInv
<1>0. "cycle" \in Reconcilers /\ "flush" \in Reconcilers
  BY DEF Reconcilers
<1>1. CASE StartCycle
  <2>1. eng' \in CopyCycle /\ eng'.pc = "pending"
    BY <1>1 DEF StartCycle, CopyCycle
  <2>2. pass' \in [Reconcilers -> Pass]
    BY <1>1, StartedPassType DEF StartCycle
  <2>3. \A r \in Reconcilers : (pass'[r].stage = "ask") <=> (pass'[r].cur = None)
    BY <1>1, <1>0 DEF StartCycle, StartedPass, IdlePass
  <2>4. QED BY <1>1, <2>1, <2>2, <2>3 DEF StartCycle
<1>2. CASE GateCloses
  BY <1>2, IdleTypes DEF GateCloses, IdleCycle
<1>3. CASE ListOpen \/ ListDown \/ DropTracked
  <2>1. ASSUME NEW pc \in {"listed", "adopting"}, NEW list \in SUBSET Orders
        PROVE  [eng EXCEPT !.pc = pc, !.list = list] \in CopyCycle
    BY DEF CopyCycle
  <2>2. CASE ListOpen
    BY <2>1, <2>2 DEF ListOpen, Open, CopyCycle
  <2>3. CASE ListDown
    BY <2>3 DEF ListDown, CopyCycle
  <2>4. CASE DropTracked
    BY <2>1, <2>4 DEF DropTracked, Orphans, CopyCycle
  <2>5. QED BY <1>3, <2>2, <2>3, <2>4
<1>4. CASE AskOrphan
  <2>1. \A o \in eng.list : o \in Orders /\ MatchedSoFar(o) \in Levels
    BY DEF MatchedSoFar, ClobOrder, CopyCycle
  <2>2. PICK o \in eng.list, filled \in Levels :
          eng' = [eng EXCEPT !.pc = "adopted", !.list = @ \ {o}, !.order = o,
                             !.filled = filled]
    BY <1>4, <2>1, LevelsAreNat DEF AskOrphan
  <2>3. eng' \in CopyCycle /\ eng'.pc = "adopted" /\ eng'.order \in Orders
    BY <2>1, <2>2 DEF CopyCycle
  <2>4. QED BY <1>4, <2>3 DEF AskOrphan
<1>5. CASE SaveOrphan
  <2>1. rows' \in [Orders -> Row]
    BY <1>5, UpsertType DEF SaveOrphan, CopyCycle
  <2>2. eng' \in CopyCycle /\ eng'.pc = "adopting"
    BY <1>5, LevelsAreNat DEF SaveOrphan, CopyCycle
  <2>3. QED BY <1>5, <2>1, <2>2 DEF SaveOrphan
<1>6. CASE StartFlush
  <2>1. pass' \in [Reconcilers -> Pass]
    BY <1>6, StartedPassType DEF StartFlush
  <2>2. \A r \in Reconcilers : (pass'[r].stage = "ask") <=> (pass'[r].cur = None)
    BY <1>6, <1>0 DEF StartFlush, StartedPass, IdlePass
  <2>3. QED BY <1>6, <2>1, <2>2 DEF StartFlush
<1>7. CASE Crash
  <2>1. eng' \in CopyCycle /\ eng'.pc = "idle"
    BY <1>7, IdleTypes DEF Crash, IdleCycle
  <2>2. pass' \in [Reconcilers -> Pass]
    BY <1>7, IdleTypes DEF Crash
  <2>3. \A r \in Reconcilers : pass'[r].stage = "ask" /\ pass'[r].cur = None
    BY <1>7 DEF Crash, IdlePass
  <2>4. QED BY <1>7, <2>1, <2>2, <2>3 DEF Crash
<1>8. QED BY <1>1, <1>2, <1>3, <1>4, <1>5, <1>6, <1>7 DEF Adoption

\* Copying leader trades keeps the types.
LEMMA TypeCopying ==
  ASSUME TypeInv, Copying
  PROVE  TypeInv'
<1> USE DEF TypeInv, TypeOK, ControlInv
<1>1. CASE Poll \/ EndCycle \/ \E t \in Trades : SkipTrade(t) \/ BeginTrade(t)
  <2>1. CASE Poll
    BY <2>1 DEF Poll, CopyCycle
  <2>2. CASE EndCycle
    BY <2>2, IdleTypes DEF EndCycle, IdleCycle
  <2>3. ASSUME NEW t \in Trades, SkipTrade(t) PROVE TypeInv'
    <3>1. eng' \in CopyCycle /\ eng'.pc = "trades"
      BY <2>3 DEF SkipTrade, CopyCycle
    <3>2. QED BY <2>3, <3>1 DEF SkipTrade
  <2>4. ASSUME NEW t \in Trades, BeginTrade(t) PROVE TypeInv'
    <3>1. eng' \in CopyCycle /\ eng'.pc = "submit" /\ eng'.trade = t
      BY <2>4 DEF BeginTrade, CopyCycle
    <3>2. QED BY <2>4, <3>1 DEF BeginTrade
  <2>5. QED BY <1>1, <2>1, <2>2, <2>3, <2>4
<1>2. ASSUME NEW o \in Orders, NEW m \in Levels, eng.pc = "submit", Accept(o, m, eng.trade)
      PROVE  clob' \in [Orders -> ClobOrder]
  <2>1. [st |-> IF m = Size THEN "closed" ELSE "open", matched |-> m,
         trade |-> eng.trade] \in ClobOrder
    BY <1>2 DEF ClobOrder
  <2>2. QED BY <1>2, <2>1 DEF Accept
<1>3. CASE Submitted
  <2>1. PICK o \in Unused, m \in Levels :
          /\ Accept(o, m, eng.trade)
          /\ eng' = [eng EXCEPT !.pc = "poll", !.order = o]
    BY <1>3 DEF Submitted
  <2>2. o \in Orders
    BY DEF Unused
  <2>3. clob' \in [Orders -> ClobOrder]
    BY <1>2, <1>3, <2>1, <2>2 DEF Submitted
  <2>4. eng' \in CopyCycle /\ eng'.pc = "poll" /\ eng'.order = o /\ eng'.trade = eng.trade
    BY <2>1, <2>2 DEF CopyCycle
  <2>5. QED BY <1>3, <2>2, <2>3, <2>4 DEF Submitted
<1>4. CASE SubmitLost
  <2>1. clob' \in [Orders -> ClobOrder]
    BY <1>2, <1>4 DEF SubmitLost, Unused
  <2>2. /\ eng' \in CopyCycle /\ eng'.pc \in {"retry", "recover"}
        /\ eng'.trade = eng.trade /\ eng'.tries = eng.tries
        /\ eng'.pc = "retry" => eng.tries < RetryLimit
    BY <1>4 DEF SubmitLost, AfterException, CopyCycle
  <2>3. QED BY <1>4, <2>1, <2>2 DEF SubmitLost
<1>5. CASE SubmitRejected
  <2>1. eng' \in CopyCycle /\ eng'.pc = "recover" /\ eng'.trade = eng.trade
    BY <1>5 DEF SubmitRejected, CopyCycle
  <2>2. QED BY <1>5, <2>1 DEF SubmitRejected
<1>6. CASE SubmitNoId
  <2>1. PICK o \in Unused, m \in Levels :
          /\ Accept(o, m, eng.trade)
          /\ eng' = IF m = Size
                    THEN [eng EXCEPT !.pc = "record", !.order = o, !.filled = Size]
                    ELSE [eng EXCEPT !.pc = "recover"]
    BY <1>6 DEF SubmitNoId
  <2>2. o \in Orders
    BY DEF Unused
  <2>3. clob' \in [Orders -> ClobOrder]
    BY <1>2, <1>6, <2>1, <2>2 DEF SubmitNoId
  <2>4. /\ eng' \in CopyCycle /\ eng'.pc \in {"record", "recover"}
        /\ eng'.trade = eng.trade /\ eng'.pc = "record" => eng'.order = o
    BY <2>1, <2>2, LevelsAreNat DEF CopyCycle
  <2>5. QED BY <1>6, <2>2, <2>3, <2>4 DEF SubmitNoId
<1>7. CASE PollFill
  <2>1. clob[eng.order].matched \in Levels /\ Size - clob[eng.order].matched \in 0..Size
    BY <1>7, ConstantsOK DEF PollFill, ClobOrder
  <2>2. PICK filled \in Levels, rest \in 0..Size :
          eng' = [eng EXCEPT !.pc = "record", !.filled = filled, !.rest = rest]
    BY <1>7, <2>1, ConstantsOK DEF PollFill
  <2>3. /\ eng' \in CopyCycle /\ eng'.pc = "record"
        /\ eng'.trade = eng.trade /\ eng'.order = eng.order
    BY <2>2 DEF CopyCycle
  <2>4. QED BY <1>7, <2>3 DEF PollFill
<1>8. CASE SearchOpen
  <2>1. PICK found \in SUBSET Orders, pc \in {"retryMatch", "recoverMatch"} :
          /\ eng' = [eng EXCEPT !.list = found, !.pc = pc]
          /\ pc = "retryMatch" => eng.pc = "retry"
    BY <1>8 DEF SearchOpen, Open
  <2>2. /\ eng' \in CopyCycle /\ eng'.pc = pc /\ eng'.trade = eng.trade
        /\ eng'.tries = eng.tries
    BY <2>1 DEF CopyCycle
  <2>3. QED BY <1>8, <2>1, <2>2 DEF SearchOpen
<1>9. CASE MatchFound
  <2>1. PICK o \in eng.list :
          eng' = [eng EXCEPT !.pc = "record", !.order = o, !.list = {}, !.tries = 0,
                             !.filled = clob[o].matched, !.rest = Size - clob[o].matched,
                             !.definite = FALSE]
    BY <1>9 DEF MatchFound
  <2>2. o \in Orders
    BY DEF CopyCycle
  <2>3. clob[o].matched \in Levels /\ Size - clob[o].matched \in 0..Size
    BY <2>2, ConstantsOK DEF ClobOrder
  <2>4. 0 \in 0..RetryLimit
    BY ConstantsOK
  <2>5. eng' \in CopyCycle /\ eng'.pc = "record" /\ eng'.trade = eng.trade /\ eng'.order = o
    BY <2>1, <2>2, <2>3, <2>4 DEF CopyCycle
  <2>6. QED BY <1>9, <2>2, <2>5 DEF MatchFound, Matching
<1>10. CASE MatchMissed
  <2>1. /\ eng' \in CopyCycle /\ eng'.pc = eng.pc /\ eng'.trade = eng.trade
        /\ eng'.tries = eng.tries
    BY <1>10 DEF MatchMissed, CopyCycle
  <2>2. QED BY <1>10, <2>1 DEF MatchMissed, Matching
<1>11. CASE SearchFailed
  <2>1. CASE eng.pc = "retryMatch"
    <3>1. eng.tries + 1 \in 0..RetryLimit
      BY <2>1, ConstantsOK DEF CopyCycle
    <3>2. PICK n \in 0..RetryLimit : eng' = [eng EXCEPT !.pc = "submit", !.tries = n]
      BY <1>11, <2>1, <3>1 DEF SearchFailed
    <3>3. eng' \in CopyCycle /\ eng'.pc = "submit" /\ eng'.trade = eng.trade
      BY <3>2 DEF CopyCycle
    <3>4. QED BY <1>11, <2>1, <3>3 DEF SearchFailed
  <2>2. CASE eng.pc = "recoverMatch"
    <3>1. eng' = [eng EXCEPT !.pc = "trades", !.trade = None, !.tries = 0,
                             !.definite = FALSE]
      BY <1>11, <2>2 DEF SearchFailed
    <3>2. eng' \in CopyCycle /\ eng'.pc = "trades"
      BY <3>1, ZeroInBounds DEF CopyCycle
    <3>3. QED BY <1>11, <2>2, <3>2 DEF SearchFailed
  <2>3. QED BY <1>11, <2>1, <2>2 DEF SearchFailed, Matching
<1>12. CASE Record
  <2>1. eng.order \in Orders /\ eng.trade \in Trades /\ eng.filled \in Levels
    BY <1>12 DEF Record, CopyCycle
  <2>2. rows' \in [Orders -> Row]
    BY <1>12, <2>1, UpsertType DEF Record
  <2>3. credited' \in [Orders -> Nat]
    BY <1>12, <2>1, LevelsAreNat DEF Record
  <2>4. eng' \in CopyCycle /\ eng'.pc = "trades"
    BY <1>12, ZeroInBounds, LevelsAreNat DEF Record, CopyCycle
  <2>5. QED BY <1>12, <2>1, <2>2, <2>3, <2>4 DEF Record, MarkSeen
<1>13. QED BY <1>1, <1>3, <1>4, <1>5, <1>6, <1>7, <1>8, <1>9, <1>10, <1>11, <1>12
       DEF Copying

-----------------------------------------------------------------------------
(* A row never outruns the dedup key of its trade                          *)

\* A step keeps or drops rows and forgets no key, adopts an order as
\* recovered, or records an order together with its key.
LEMMA RowSteps ==
  ASSUME TypeInv, [Next]_vars
  PROVE  /\ seen \subseteq seen'
         /\ \A o \in Orders : rows'[o].tracked =>
              \/ rows[o].tracked /\ rows'[o].trade = rows[o].trade
              \/ rows'[o].trade \in seen' \cup {Recovered}
<1> DEFINE Goal == /\ seen \subseteq seen'
                   /\ \A o \in Orders : rows'[o].tracked =>
                        \/ rows[o].tracked /\ rows'[o].trade = rows[o].trade
                        \/ rows'[o].trade \in seen' \cup {Recovered}
<1> USE DEF TypeInv, TypeOK
<1>1. ASSUME rows' = rows, seen \subseteq seen' PROVE Goal
  BY <1>1
<1>2. ASSUME NEW o \in Orders, NEW f \in Levels, NEW t \in seen' \cup {Recovered},
             Upsert(o, f, t), seen \subseteq seen'
      PROVE  Goal
  BY <1>2 DEF Upsert, Row
<1>3. CASE Copying
  <2>1. CASE Record
    <3>1. eng.order \in Orders /\ eng.filled \in Levels
      BY <2>1 DEF Record, ControlInv, CopyCycle
    <3>2. seen' = seen \cup {eng.trade}
      BY <2>1 DEF Record, MarkSeen
    <3>3. Upsert(eng.order, eng.filled, eng.trade) \/ rows' = rows
      BY <2>1 DEF Record
    <3>4. QED BY <1>1, <1>2, <3>1, <3>2, <3>3
  <2>2. CASE ~Record
    <3>1. rows' = rows /\ seen \subseteq seen'
      BY <1>3, <2>2 DEF Copying, Poll, EndCycle, Submitted, SubmitLost, SubmitRejected,
         SubmitNoId, PollFill, SearchOpen, MatchFound, MatchMissed, SearchFailed,
         SkipTrade, BeginTrade
    <3>2. QED BY <1>1, <3>1
  <2>3. QED BY <2>1, <2>2
<1>4. CASE StartCycle \/ GateCloses \/ Adoption \/ StartFlush \/ Crash
  <2>1. CASE SaveOrphan
    <3>1. eng.order \in Orders /\ eng.filled \in Levels
      BY <2>1 DEF SaveOrphan, ControlInv, CopyCycle
    <3>2. Upsert(eng.order, eng.filled, Recovered) /\ seen' = seen
      BY <2>1 DEF SaveOrphan
    <3>3. QED BY <1>2, <3>1, <3>2
  <2>2. CASE ~SaveOrphan
    <3>1. rows' = rows /\ seen' = seen
      BY <1>4, <2>2 DEF Adoption, StartCycle, GateCloses, StartFlush, Crash, ListOpen,
         ListDown, DropTracked, AskOrphan
    <3>2. QED BY <1>1, <3>1
  <2>3. QED BY <2>1, <2>2
<1>5. CASE Exchange \/ Dashboard
  <2>1. ASSUME NEW o \in Orders, Fill(o) \/ Expire(o) \/ CancelAsked(o) \/ CancelAnswered(o)
        PROVE  Goal
    BY <1>1, <2>1 DEF Fill, Expire, CancelAsked, CancelAnswered
  <2>2. ASSUME NEW o \in Orders, Age(o) PROVE Goal
    BY <2>2 DEF Age, Row
  <2>3. ASSUME NEW o \in Orders, CancelSaved(o) PROVE Goal
    BY <2>3 DEF CancelSaved, NoRow
  <2>4. QED BY <1>5, <2>1, <2>2, <2>3 DEF Exchange, Dashboard
<1>6. ASSUME NEW r \in Reconcilers, Reconcile(r) PROVE Goal
  <2>1. ASSUME NEW remove, Commit(r, remove) PROVE Goal
    BY <2>1 DEF Commit, NoRow, Row
  <2>2. CASE ApplyStatus(r)
    BY <2>1, <2>2 DEF ApplyStatus
  <2>3. CASE ~ApplyStatus(r)
    BY <1>1, <1>6, <2>3 DEF Reconcile, CancelStale, AskStatus, StatusDown
  <2>4. QED BY <2>2, <2>3
<1>7. CASE UNCHANGED vars
  BY <1>7 DEF vars
<1>8. QED BY <1>3, <1>4, <1>5, <1>6, <1>7 DEF Next, Alive, Cycle

LEMMA TypeStep ==
  ASSUME TypeInv, [Next]_vars
  PROVE  TypeInv'
<1>1. CASE UNCHANGED vars
  BY <1>1 DEF vars, TypeInv, TypeOK, ControlInv
<1>2. CASE Next
  BY <1>2, TypeOutside, TypeReconcile, TypeAdoption, TypeCopying DEF Next, Alive, Cycle
<1>3. QED BY <1>1, <1>2

LEMMA TypeInvariant == Spec => []TypeInv
  BY TypeInit, TypeStep, PTL DEF Spec

\* Every variable keeps its type, for every set of trades, orders and faults.
THEOREM TypeCorrect == Spec => []TypeOK
<1>1. TypeInv => TypeOK
  BY DEF TypeInv
<1>2. QED BY TypeInvariant, <1>1, PTL

\* A pending row is never there without the dedup key of the trade it copies,
\* whatever fails: recordLiveOrderAccepted writes both at once and no key is
\* ever deleted.
THEOREM RowsNeverOutrunDedup == Spec => []RowsHaveSeenTrades
<1>1. Init => RowsHaveSeenTrades
  BY DEF Init, RowsHaveSeenTrades, Tracked, NoRow
<1>2. TypeInv /\ RowsHaveSeenTrades /\ [Next]_vars => RowsHaveSeenTrades'
  BY RowSteps DEF RowsHaveSeenTrades, Tracked
<1>3. QED BY TypeInvariant, <1>1, <1>2, PTL DEF Spec

-----------------------------------------------------------------------------
(* No share is booked twice                                                *)

\* The exchange only adds matches to orders that are in use.
Grows ==
  \A o \in Orders :
    /\ clob[o].matched <= clob'[o].matched
    /\ clob'[o].st = "unused" <=> clob[o].st = "unused"
    /\ clob'[o].st = "unused" => clob'[o].matched = clob[o].matched

\* Rows keep what they have booked or go away.
RowsShrink ==
  \A o \in Orders :
    rows'[o].tracked => rows[o].tracked /\ rows'[o].filled = rows[o].filled

\* A step after which nothing more is booked.
Quiet == Grows /\ RowsShrink /\ credited' = credited

\* The quantities the booking invariant compares are natural numbers.
LEMMA Amounts ==
  ASSUME TypeInv
  PROVE  /\ \A o \in Orders :
              /\ clob[o].matched \in Nat /\ credited[o] \in Nat
              /\ rows[o].filled \in Nat /\ rows[o].tracked \in BOOLEAN
              /\ pass["cycle"].snap[o].filled \in Nat
         /\ pass["cycle"].matched \in Nat /\ eng.filled \in Nat
         /\ pass["cycle"].todo \subseteq Orders
         /\ pass["cycle"].cur \in Orders \cup {None}
         /\ eng.list \subseteq Orders
         /\ eng.pc \in {"adopted", "poll", "record"} => eng.order \in Orders
<1>1. pass["cycle"] \in Pass
  BY DEF TypeInv, TypeOK, Reconcilers
<1>2. ASSUME NEW o \in Orders
      PROVE  /\ clob[o].matched \in Levels /\ rows[o].filled \in Levels
             /\ pass["cycle"].snap[o].filled \in Levels
             /\ rows[o].tracked \in BOOLEAN /\ credited[o] \in Nat
  BY <1>1 DEF TypeInv, TypeOK, ClobOrder, Row, Pass
<1>3. pass["cycle"].matched \in Levels /\ eng.filled \in Levels
  BY <1>1 DEF TypeInv, TypeOK, Pass, CopyCycle
<1>4. /\ pass["cycle"].todo \subseteq Orders /\ pass["cycle"].cur \in Orders \cup {None}
      /\ eng.list \subseteq Orders
  BY <1>1 DEF TypeInv, TypeOK, Pass, CopyCycle
<1>5. QED BY <1>2, <1>3, <1>4, LevelsAreNat DEF TypeInv, ControlInv

LEMMA UpsertedRow ==
  ASSUME TypeOK, NEW o \in Orders, NEW filled, NEW t, Upsert(o, filled, t)
  PROVE  /\ rows'[o].tracked /\ rows'[o].filled = filled
         /\ \A x \in Orders \ {o} : rows'[x] = rows[x]
  BY DEF Upsert, TypeOK, Row

LEMMA QuietRows ==
  ASSUME TypeInv, TypeInv', Quiet, RowInv
  PROVE  RowInv'
<1>1. \A o \in Orders :
        /\ clob[o].matched \in Nat /\ clob'[o].matched \in Nat
        /\ credited[o] \in Nat /\ rows[o].filled \in Nat
  BY Amounts, LevelsAreNat DEF TypeInv, TypeOK, ClobOrder
<1>2. QED
  BY <1>1 DEF Quiet, Grows, RowsShrink, RowInv, NoOverCredit, Unused, Tracked, Covers

LEMMA QuietPass ==
  ASSUME TypeInv, TypeInv', Quiet, PassInv, pass'["cycle"] = pass["cycle"]
  PROVE  PassInv'
<1>1. \A o \in Orders : clob[o].matched \in Nat /\ clob'[o].matched \in Nat
  BY Amounts, LevelsAreNat DEF TypeInv, TypeOK, ClobOrder
<1>2. QED
  BY <1>1, Amounts DEF Quiet, Grows, PassInv, Covers

LEMMA QuietCopy ==
  ASSUME TypeInv, TypeInv', Quiet, CopyInv, eng' = eng
  PROVE  CopyInv'
<1>1. \A o \in Orders : clob[o].matched \in Nat /\ clob'[o].matched \in Nat
  BY Amounts, LevelsAreNat DEF TypeInv, TypeOK, ClobOrder
<1>2. QED
  BY <1>1, Amounts DEF Quiet, Grows, RowsShrink, CopyInv, Covers, Unused, Tracked

BookInv == PhaseInv /\ RowInv /\ PassInv /\ CopyInv

\* The exchange, the clock and the dashboard book nothing.
LEMMA BookOutside ==
  ASSUME TypeInv, TypeInv', BookInv, Exchange \/ Dashboard
  PROVE  BookInv'
<1>1. pass' = pass /\ eng' = eng
  BY DEF Exchange, Dashboard, Fill, Expire, Age, CancelAsked, CancelAnswered, CancelSaved
<1>2. Quiet
  <2> USE DEF Quiet, Grows, RowsShrink, TypeInv, TypeOK, Row, ClobOrder, Open
  <2>0. \A o \in Orders : clob[o].matched <= clob[o].matched
    BY Amounts
  <2>1. ASSUME NEW o \in Orders, Fill(o) PROVE Quiet
    <3>1. PICK m \in Levels :
            /\ m > clob[o].matched
            /\ clob' = [clob EXCEPT ![o].matched = m,
                                    ![o].st = IF m = Size THEN "closed" ELSE "open"]
      BY <2>1 DEF Fill
    <3>2. clob[o].matched <= m
      BY <3>1, Amounts, LevelsAreNat
    <3>3. Grows
      BY <2>0, <2>1, <3>1, <3>2 DEF Fill
    <3>4. QED BY <2>1, <3>3 DEF Fill
  <2>2. ASSUME NEW o \in Orders, Expire(o) \/ CancelAnswered(o) PROVE Quiet
    <3>1. clob' = clob \/ (clob' = [clob EXCEPT ![o].st = "closed"] /\ clob[o].st = "open")
      BY <2>2 DEF Expire, CancelAnswered
    <3>2. \A x \in Orders :
            /\ clob'[x].matched = clob[x].matched
            /\ clob'[x].st = clob[x].st \/ (clob'[x].st = "closed" /\ clob[x].st = "open")
      BY <3>1
    <3>3. Grows
      BY <2>0, <3>2
    <3>4. rows' = rows /\ credited' = credited
      BY <2>2 DEF Expire, CancelAnswered
    <3>5. QED BY <3>3, <3>4
  <2>3. ASSUME NEW o \in Orders, Age(o) \/ CancelAsked(o) \/ CancelSaved(o) PROVE Quiet
    <3>1. clob' = clob /\ credited' = credited
      BY <2>3 DEF Age, CancelAsked, CancelSaved
    <3>2. Grows
      BY <2>0, <3>1
    <3>3. \/ rows' = rows
          \/ rows' = [rows EXCEPT ![o].old = TRUE]
          \/ rows' = [rows EXCEPT ![o] = NoRow]
      BY <2>3 DEF Age, CancelAsked, CancelSaved
    <3>4. rows \in [Orders -> Row] /\ rows[o] \in Row
      OBVIOUS
    <3>5. CASE rows' = [rows EXCEPT ![o].old = TRUE]
      <4>1. /\ rows'[o].tracked = rows[o].tracked /\ rows'[o].filled = rows[o].filled
            /\ \A x \in Orders \ {o} : rows'[x] = rows[x]
        BY <3>4, <3>5
      <4>2. QED BY <3>1, <3>2, <4>1
    <3>6. CASE rows' = [rows EXCEPT ![o] = NoRow]
      <4>1. ~rows'[o].tracked /\ \A x \in Orders \ {o} : rows'[x] = rows[x]
        BY <3>4, <3>6 DEF NoRow
      <4>2. QED BY <3>1, <3>2, <4>1
    <3>7. QED BY <3>1, <3>2, <3>3, <3>5, <3>6
  <2>4. QED BY <2>1, <2>2, <2>3 DEF Exchange, Dashboard
<1>3. PhaseInv'
  BY <1>1 DEF BookInv, PhaseInv, PassIdle
<1>4. QED BY <1>1, <1>2, <1>3, QuietRows, QuietPass, QuietCopy DEF BookInv

\* A pass books what matched since its snapshot, and nothing else.
LEMMA BookReconcile ==
  ASSUME TypeInv, TypeInv', BookInv, NEW r \in Reconcilers, Reconcile(r)
  PROVE  BookInv'
<1> DEFINE p == pass["cycle"]
<1>0. /\ r = "cycle" /\ eng' = eng /\ pass'["flush"] = pass["flush"]
      /\ p \in Pass /\ pass \in [Reconcilers -> Pass]
      /\ eng.pc = "pending"
  <2>1. p \in Pass /\ pass \in [Reconcilers -> Pass]
    BY DEF TypeInv, TypeOK, Reconcilers
  <2>2. ~PassIdle(r)
    BY DEF Reconcile, CancelStale, ApplyStatus, AskStatus, StatusDown, PassIdle, TypeInv,
       ControlInv
  <2>3. r = "cycle" /\ eng.pc = "pending"
    BY <2>2 DEF BookInv, PhaseInv, Reconcilers
  <2>4. eng' = eng /\ pass'["flush"] = pass["flush"]
    BY <2>1, <2>3 DEF Reconcile, CancelStale, ApplyStatus, AskStatus, StatusDown, Commit,
       Reconcilers
  <2>5. QED BY <2>1, <2>3, <2>4
<1>1. PhaseInv'
  BY <1>0 DEF BookInv, PhaseInv, PassIdle
<1>2. \A o \in Orders :
        /\ clob[o].matched \in Nat /\ clob[o].matched <= clob[o].matched
        /\ credited[o] \in Nat /\ rows[o].filled \in Nat /\ p.snap[o].filled \in Nat
  BY Amounts
<1>3. CASE CancelStale(r)
  <2>1. Quiet
    BY <1>2, <1>3 DEF Quiet, Grows, RowsShrink, CancelStale, TypeInv, TypeOK, ClobOrder
  <2>2. /\ pass'["cycle"].todo = p.todo /\ pass'["cycle"].cur = p.cur
        /\ pass'["cycle"].snap = p.snap /\ pass'["cycle"].matched = p.matched
    BY <1>0, <1>3 DEF CancelStale, Pass
  <2>3. PassInv'
    <3>1. \A o \in Orders : clob'[o].matched \in Nat
      BY Amounts, LevelsAreNat DEF TypeInv, TypeOK, ClobOrder
    <3>2. QED BY <1>2, <2>1, <2>2, <3>1, Amounts DEF BookInv, PassInv, Covers, Quiet, Grows
  <2>4. QED BY <1>0, <1>1, <2>1, <2>3, QuietRows, QuietCopy DEF BookInv
<1>4. ASSUME NEW o \in Orders, StatusDown(r, o) PROVE BookInv'
  <2>1. Quiet
    BY <1>2, <1>4 DEF Quiet, Grows, RowsShrink, StatusDown
  <2>2. /\ pass'["cycle"].todo = p.todo \ {o} /\ pass'["cycle"].cur = None
        /\ \A x \in Orders \ {o} : pass'["cycle"].snap[x] = p.snap[x]
    BY <1>0, <1>4 DEF StatusDown, Pass
  <2>3. PassInv'
    BY <1>4, <2>2, Amounts, ConstantsOK DEF BookInv, PassInv, Covers, StatusDown
  <2>4. QED BY <1>0, <1>1, <2>1, <2>3, QuietRows, QuietCopy DEF BookInv
<1>5. ASSUME NEW o \in Orders, AskStatus(r, o) PROVE BookInv'
  <2>1. Quiet
    BY <1>2, <1>5 DEF Quiet, Grows, RowsShrink, AskStatus
  <2>2. /\ pass'["cycle"].todo = p.todo \ {o} /\ pass'["cycle"].cur = o
        /\ pass'["cycle"].snap = p.snap /\ pass'["cycle"].matched = clob[o].matched
    BY <1>0, <1>5 DEF AskStatus, Pass
  <2>3. o \in p.todo /\ clob' = clob /\ credited' = credited
    BY <1>0, <1>5 DEF AskStatus
  <2>4. PassInv'
    BY <1>2, <2>2, <2>3, Amounts DEF BookInv, PassInv, RowInv, NoOverCredit, Covers
  <2>5. QED BY <1>0, <1>1, <2>1, <2>4, QuietRows, QuietCopy DEF BookInv
<1>6. CASE ApplyStatus(r)
  <2> DEFINE o == p.cur
  <2>1. PICK remove \in BOOLEAN : Commit(r, remove)
    <3>1. p.final \in BOOLEAN
      BY <1>0 DEF Pass
    <3>2. QED BY <1>0, <1>6, <3>1 DEF ApplyStatus
  <2>2. o \in Orders
    BY <1>0, <1>6 DEF ApplyStatus, TypeInv, ControlInv, Pass
  <2>3. /\ credited[o] <= p.snap[o].filled /\ p.snap[o].filled <= p.matched
        /\ p.matched <= clob[o].matched /\ o \notin p.todo
    BY <2>2, ConstantsOK DEF BookInv, PassInv, Covers
  <2>4. FillDelta(p.matched, p.snap[o].filled) = p.matched - p.snap[o].filled
    <3>1. p.matched \in Levels /\ p.snap[o].filled \in Levels
      BY <1>0, <2>2 DEF Pass, Row
    <3>2. QED BY <2>3, <3>1, FillDeltaNat
  <2>5. /\ credited' = [credited EXCEPT ![o] = @ + (p.matched - p.snap[o].filled)]
        /\ credited \in [Orders -> Nat]
    BY <1>0, <2>1, <2>4 DEF Commit, TypeInv, TypeOK
  <2>6. /\ credited'[o] <= p.matched
        /\ \A x \in Orders \ {o} : credited'[x] = credited[x]
    BY <1>2, <2>2, <2>3, <2>5, Amounts
  <2>7. clob' = clob
    BY <2>1 DEF Commit
  <2>8. /\ rows'[o].tracked => rows'[o].filled = p.matched
        /\ \A x \in Orders \ {o} : rows'[x] = rows[x]
        /\ rows'[o].tracked => rows[o].tracked
    <3>1. rows \in [Orders -> Row] /\ rows[o] \in Row
      BY <2>2 DEF TypeInv, TypeOK
    <3>2. rows' = [rows EXCEPT ![o] =
                     IF remove THEN NoRow
                     ELSE IF @.tracked THEN [@ EXCEPT !.filled = p.matched] ELSE @]
      BY <1>0, <2>1 DEF Commit
    <3>3. QED BY <2>2, <3>1, <3>2 DEF Row, NoRow
  <2>9. credited'[o] \in Nat
    BY <2>2, Amounts DEF TypeInv, TypeOK
  <2>10. RowInv'
    <3>1. \A x \in Orders : credited'[x] <= clob[x].matched
      BY <1>2, <2>3, <2>6, <2>9, Amounts DEF BookInv, RowInv, NoOverCredit
    <3>2. \A x \in Unused : clob[x].matched = 0 /\ credited'[x] = 0 /\ ~rows'[x].tracked
      BY <1>2, <2>2, <2>6, <2>8, <2>9, <3>1 DEF BookInv, RowInv, Unused
    <3>3. ASSUME NEW x \in Orders, rows'[x].tracked
          PROVE  credited'[x] <= rows'[x].filled /\ rows'[x].filled <= clob[x].matched
      BY <2>3, <2>6, <2>8, <3>3 DEF BookInv, RowInv, Tracked, Covers
    <3>4. QED BY <2>7, <3>1, <3>2, <3>3 DEF RowInv, NoOverCredit, Unused, Tracked, Covers
  <2>11. PassInv'
    <3>1. CASE p.todo = {}
      <4>1. pass'["cycle"] = IdlePass
        BY <1>0, <2>1, <3>1 DEF Commit
      <4>2. QED BY <4>1 DEF IdlePass, PassInv
    <3>2. CASE p.todo # {}
      <4>1. /\ pass'["cycle"].todo = p.todo /\ pass'["cycle"].cur = None
            /\ \A x \in Orders \ {o} : pass'["cycle"].snap[x] = p.snap[x]
        BY <1>0, <2>1, <3>2 DEF Commit, Pass
      <4>2. \A x \in p.todo : x \in Orders /\ x # o /\ x # None
        BY <2>3, Amounts, ConstantsOK
      <4>3. QED BY <2>6, <2>7, <4>1, <4>2 DEF BookInv, PassInv, Covers
    <3>3. QED BY <3>1, <3>2
  <2>12. CopyInv'
    BY <1>0, <2>7, Amounts DEF BookInv, CopyInv, Unused
  <2>13. QED BY <1>1, <2>10, <2>11, <2>12 DEF BookInv
<1>7. QED BY <1>3, <1>4, <1>5, <1>6 DEF Reconcile

\* Nothing is booked while a cycle starts, ends, lists and adopts orders.
LEMMA BookAdoption ==
  ASSUME TypeInv, TypeInv', BookInv, Faults \subseteq SafeFaults,
         StartCycle \/ GateCloses \/ Adoption \/ StartFlush \/ Crash
  PROVE  BookInv'
<1>0. pass \in [Reconcilers -> Pass] /\ eng \in CopyCycle /\ "cycle" \in Reconcilers
      /\ "flush" \in Reconcilers
  BY DEF TypeInv, TypeOK, Reconcilers
<1>1. \A o \in Orders :
        /\ clob[o].matched \in Nat /\ clob[o].matched <= clob[o].matched
        /\ credited[o] \in Nat /\ rows[o].filled \in Nat
  BY Amounts
<1>2. ASSUME clob' = clob, credited' = credited, rows' = rows PROVE Quiet
  BY <1>1, <1>2 DEF Quiet, Grows, RowsShrink
<1>3. CASE StartCycle
  <2>1. Quiet
    BY <1>2, <1>3 DEF StartCycle
  <2>2. /\ pass'["cycle"].todo = Tracked /\ pass'["cycle"].cur = None
        /\ pass'["cycle"].snap = rows /\ pass'["flush"] = pass["flush"]
    BY <1>0, <1>3 DEF StartCycle, StartedPass, IdlePass
  <2>3. eng'.pc = "pending" /\ eng'.list = eng.list
    BY <1>0, <1>3 DEF StartCycle, CopyCycle
  <2>4. PassInv'
    BY <1>3, <2>2, ConstantsOK DEF StartCycle, BookInv, RowInv, PassInv, Covers, Tracked
  <2>5. CopyInv'
    BY <1>3, <2>3 DEF StartCycle, BookInv, CopyInv, Unused
  <2>6. PhaseInv'
    BY <2>2, <2>3 DEF BookInv, PhaseInv, PassIdle
  <2>7. QED BY <2>1, <2>4, <2>5, <2>6, QuietRows DEF BookInv
<1>4. CASE GateCloses
  <2>1. Quiet /\ pass' = pass
    BY <1>2, <1>4 DEF GateCloses
  <2>2. PhaseInv' /\ CopyInv'
    BY <1>4 DEF GateCloses, PendingDone, IdleCycle, BookInv, PhaseInv, PassIdle, CopyInv
  <2>3. QED BY <2>1, <2>2, QuietRows, QuietPass DEF BookInv
<1>5. CASE ListOpen \/ ListDown \/ DropTracked
  <2>1. Quiet /\ pass' = pass
    BY <1>2, <1>5 DEF ListOpen, ListDown, DropTracked
  <2>2. eng'.pc \in {"listed", "adopting"} /\ eng'.list \cap Unused = {}
    BY <1>0, <1>5 DEF ListOpen, ListDown, DropTracked, Orphans, Open, Unused, BookInv,
       CopyInv, CopyCycle
  <2>3. Unused' = Unused
    BY <1>5 DEF ListOpen, ListDown, DropTracked, Unused
  <2>4. CopyInv'
    BY <2>2, <2>3 DEF CopyInv
  <2>5. PhaseInv'
    BY <1>5, <2>1, <2>2 DEF BookInv, PhaseInv, PassIdle, ListOpen, ListDown, DropTracked,
       PendingDone
  <2>6. QED BY <2>1, <2>4, <2>5, QuietRows, QuietPass DEF BookInv
<1>6. CASE AskOrphan
  <2>1. Quiet /\ pass' = pass /\ clob' = clob /\ credited' = credited
    BY <1>2, <1>6 DEF AskOrphan
  <2>2. PICK o \in eng.list :
          eng' = [eng EXCEPT !.pc = "adopted", !.list = @ \ {o}, !.order = o,
                             !.filled = clob[o].matched]
    <3>1. "adoptDown" \notin Faults
      BY DEF SafeFaults
    <3>2. QED BY <1>6, <3>1 DEF AskOrphan, MatchedSoFar
  <2>3. /\ eng'.pc = "adopted" /\ eng'.order = o /\ eng'.filled = clob[o].matched
        /\ eng'.list \subseteq eng.list /\ o \in Orders
    BY <1>0, <2>2 DEF CopyCycle
  <2>4. CopyInv'
    BY <1>1, <2>1, <2>2, <2>3 DEF BookInv, CopyInv, RowInv, NoOverCredit, Covers, Unused
  <2>5. PhaseInv'
    BY <1>6, <2>1, <2>3 DEF BookInv, PhaseInv, PassIdle, AskOrphan
  <2>6. QED BY <2>1, <2>4, <2>5, QuietRows, QuietPass DEF BookInv
<1>7. CASE SaveOrphan
  <2> DEFINE o == eng.order
  <2>1. /\ o \in Orders /\ credited[o] <= eng.filled /\ eng.filled <= clob[o].matched
        /\ o \notin Unused
    BY <1>7, Amounts DEF SaveOrphan, BookInv, CopyInv, Covers
  <2>2. /\ clob' = clob /\ credited' = credited /\ pass' = pass
        /\ Upsert(o, eng.filled, Recovered)
    BY <1>7 DEF SaveOrphan
  <2>3. RowInv'
    BY <1>1, <2>1, <2>2, UpsertedRow DEF BookInv, RowInv, NoOverCredit, Unused, Tracked,
       Covers, TypeInv, TypeOK
  <2>4. PassInv'
    BY <2>2 DEF BookInv, PassInv, Covers
  <2>5. eng'.pc = "adopting" /\ eng'.list = eng.list
    BY <1>0, <1>7 DEF SaveOrphan, CopyCycle
  <2>6. CopyInv'
    BY <2>2, <2>5 DEF BookInv, CopyInv, Unused
  <2>7. PhaseInv'
    BY <1>7, <2>2, <2>5 DEF BookInv, PhaseInv, PassIdle, SaveOrphan
  <2>8. QED BY <2>3, <2>4, <2>6, <2>7 DEF BookInv
<1>8. ~StartFlush
  BY DEF StartFlush, SafeFaults
<1>9. CASE Crash
  <2>1. Quiet
    BY <1>2, <1>9 DEF Crash
  <2>2. PassInv' /\ CopyInv' /\ PhaseInv'
    BY <1>0, <1>9 DEF Crash, IdlePass, IdleCycle, PassInv, CopyInv, PhaseInv, PassIdle
  <2>3. QED BY <2>1, <2>2, QuietRows DEF BookInv
<1>10. QED BY <1>3, <1>4, <1>5, <1>6, <1>7, <1>8, <1>9 DEF Adoption

\* Copying books the fill of a new order, once.
LEMMA BookCopying ==
  ASSUME TypeInv, TypeInv', BookInv, Faults \subseteq SafeFaults, Copying
  PROVE  BookInv'
<1>0. eng \in CopyCycle
  BY DEF TypeInv, TypeOK
<1>1. \A o \in Orders :
        /\ clob[o].matched \in Nat /\ clob[o].matched <= clob[o].matched
        /\ credited[o] \in Nat /\ rows[o].filled \in Nat
  BY Amounts
<1>2. ASSUME clob' = clob, credited' = credited, rows' = rows PROVE Quiet
  BY <1>1, <1>2 DEF Quiet, Grows, RowsShrink
<1>3. CASE Poll \/ EndCycle \/ \E t \in Trades : SkipTrade(t) \/ BeginTrade(t)
  <2>1. Quiet /\ pass' = pass /\ clob' = clob /\ eng.pc \in {"adopting", "trades"}
    BY <1>2, <1>3 DEF Poll, EndCycle, SkipTrade, BeginTrade
  <2>2. eng'.pc \in {"idle", "trades", "submit"} /\ eng'.list \subseteq eng.list
    <3>1. CASE Poll
      BY <1>0, <3>1 DEF Poll, CopyCycle
    <3>2. CASE EndCycle
      BY <3>2 DEF EndCycle, IdleCycle
    <3>3. ASSUME NEW t \in Trades, SkipTrade(t)
          PROVE  eng'.pc = "trades" /\ eng'.list = eng.list
      BY <1>0, <3>3 DEF SkipTrade, CopyCycle
    <3>4. ASSUME NEW t \in Trades, BeginTrade(t)
          PROVE  eng'.pc = "submit" /\ eng'.list = eng.list
      BY <1>0, <3>4 DEF BeginTrade, CopyCycle
    <3>5. QED BY <1>3, <3>1, <3>2, <3>3, <3>4
  <2>3. CopyInv' /\ PhaseInv'
    BY <2>1, <2>2 DEF BookInv, CopyInv, Unused, PhaseInv, PassIdle
  <2>4. QED BY <2>1, <2>3, QuietRows, QuietPass DEF BookInv
<1>4. CASE Submitted
  <2>1. PICK o \in Unused, m \in Levels :
          /\ Accept(o, m, eng.trade)
          /\ eng' = [eng EXCEPT !.pc = "poll", !.order = o]
    BY <1>4 DEF Submitted
  <2>2. /\ o \in Orders /\ m \in Nat /\ clob'[o].matched = m /\ clob'[o].st # "unused"
        /\ \A x \in Orders \ {o} : clob'[x] = clob[x]
    BY <2>1, LevelsAreNat DEF Unused, Accept, TypeInv, TypeOK
  <2>3. rows' = rows /\ credited' = credited /\ pass' = pass /\ eng.pc = "submit"
    BY <1>4 DEF Submitted
  <2>4. clob[o].matched = 0 /\ credited[o] = 0 /\ ~rows[o].tracked
    BY DEF BookInv, RowInv
  <2>5. RowInv'
    BY <1>1, <2>2, <2>3, <2>4 DEF BookInv, RowInv, NoOverCredit, Unused, Tracked, Covers
  <2>6. PassInv'
    BY <2>3 DEF BookInv, PhaseInv, PassIdle, PassInv
  <2>7. eng'.pc = "poll" /\ eng'.order = o /\ eng'.list = eng.list
    BY <1>0, <2>1 DEF CopyCycle
  <2>8. CopyInv'
    BY <2>2, <2>3, <2>4, <2>7 DEF BookInv, CopyInv, Unused, Tracked
  <2>9. PhaseInv'
    BY <2>3, <2>7 DEF BookInv, PhaseInv, PassIdle
  <2>10. QED BY <2>5, <2>6, <2>8, <2>9 DEF BookInv
<1>5. CASE PollFill
  <2>1. Quiet /\ pass' = pass /\ clob' = clob /\ credited' = credited /\ rows' = rows
    BY <1>2, <1>5 DEF PollFill
  <2>2. /\ eng'.pc = "record" /\ eng'.order = eng.order /\ eng'.list = eng.list
        /\ eng'.filled \in {0, clob[eng.order].matched} /\ eng.pc = "poll"
    BY <1>0, <1>5 DEF PollFill, CopyCycle
  <2>3. CopyInv'
    BY <1>1, <2>1, <2>2, Amounts DEF BookInv, CopyInv, Unused, Tracked
  <2>4. PhaseInv'
    BY <2>1, <2>2 DEF BookInv, PhaseInv, PassIdle
  <2>5. QED BY <2>1, <2>3, <2>4, QuietRows, QuietPass DEF BookInv
<1>6. CASE Record
  <2> DEFINE o == eng.order
  <2>1. /\ o \in Orders /\ eng.filled \in Nat /\ credited[o] = 0
        /\ eng.filled <= clob[o].matched /\ o \notin Unused
    BY <1>6, Amounts DEF Record, BookInv, CopyInv
  <2>2. /\ credited'[o] = eng.filled /\ clob' = clob /\ pass' = pass
        /\ \A x \in Orders \ {o} : credited'[x] = credited[x]
    BY <1>6, <2>1 DEF Record, TypeInv, TypeOK
  <2>3. rows' = rows \/ Upsert(o, eng.filled, eng.trade)
    BY <1>6 DEF Record
  <2>4. ~rows[o].tracked
    BY <1>6, <2>1 DEF Record, BookInv, CopyInv, Tracked
  <2>5. /\ rows'[o].tracked => rows'[o].filled = eng.filled
        /\ \A x \in Orders \ {o} : rows'[x] = rows[x]
    BY <2>1, <2>3, <2>4, UpsertedRow DEF TypeInv
  <2>6. RowInv'
    BY <1>1, <2>1, <2>2, <2>5 DEF BookInv, RowInv, NoOverCredit, Unused, Tracked, Covers
  <2>7. PassInv'
    BY <1>6, <2>2 DEF Record, BookInv, PhaseInv, PassIdle, PassInv
  <2>8. eng'.pc = "trades" /\ eng'.list = eng.list
    BY <1>0, <1>6 DEF Record, CopyCycle
  <2>9. CopyInv' /\ PhaseInv'
    BY <1>6, <2>2, <2>8 DEF Record, BookInv, CopyInv, Unused, PhaseInv, PassIdle
  <2>10. QED BY <2>6, <2>7, <2>9 DEF BookInv
<1>7. ~(\/ SubmitLost \/ SubmitRejected \/ SubmitNoId \/ SearchOpen \/ MatchFound
        \/ MatchMissed \/ SearchFailed)
  BY DEF SubmitLost, SubmitRejected, SubmitNoId, SearchOpen, MatchFound, MatchMissed,
     SearchFailed, Matching, SafeFaults, BookInv, PhaseInv
<1>8. QED BY <1>3, <1>4, <1>5, <1>6, <1>7 DEF Copying

\* No share is added to the positions twice, as long as every submission gets
\* a usable answer, the status of an orphan can be had, and no mode switch
\* runs a second pass over the rows: crashes, failed status checks and
\* lists, cancellations of all kinds and ageing rows do no harm.
THEOREM FillsCountedOnce ==
  ASSUME Faults \subseteq SafeFaults
  PROVE  Spec => []NoOverCredit
<1>1. Init => BookInv
  <2> SUFFICES ASSUME Init PROVE BookInv
    OBVIOUS
  <2>1. PhaseInv /\ PassInv /\ CopyInv
    BY DEF Init, Reconcilers, IdlePass, IdleCycle, PhaseInv, PassIdle, PassInv, CopyInv
  <2>2. RowInv
    BY DEF Init, NoRow, RowInv, NoOverCredit, Unused, Tracked
  <2>3. QED BY <2>1, <2>2 DEF BookInv
<1>2. TypeInv /\ BookInv /\ [Next]_vars => BookInv'
  <2> SUFFICES ASSUME TypeInv, BookInv, [Next]_vars PROVE BookInv'
    OBVIOUS
  <2>1. TypeInv'
    BY TypeStep
  <2>2. CASE UNCHANGED vars
    BY <2>2 DEF vars, BookInv, PhaseInv, PassIdle, RowInv, NoOverCredit, Unused, Tracked,
       Covers, PassInv, CopyInv
  <2>3. CASE Next
    BY <2>1, <2>3, BookOutside, BookReconcile, BookAdoption, BookCopying DEF Next, Alive, Cycle
  <2>4. QED BY <2>2, <2>3
<1>3. BookInv => NoOverCredit
  BY DEF BookInv, RowInv
<1>4. QED BY TypeInvariant, <1>1, <1>2, <1>3, PTL DEF Spec

-----------------------------------------------------------------------------
(* Whose orders are booked, and how completely                             *)

\* Two trades never ask for an order of the same token, side, price and size.
ShapesDiffer == \A t, u \in Trades : Shape[t] = Shape[u] => t = u

Placing == eng.pc \in {"submit", "retry", "retryMatch", "recover", "recoverMatch"}
InHand(o) == eng.pc \in {"poll", "record"} /\ eng.order = o

-----------------------------------------------------------------------------
\* What the cycle holds is in use, and the order in hand was placed for the
\* trade it is about to be recorded for.
HandsOwn ==
  /\ eng.list \cap Unused = {}
  /\ eng.pc \in {"adopted", "poll", "record"} => eng.order \notin Unused
  /\ eng.pc \in {"poll", "record"} => clob[eng.order].trade = eng.trade
  /\ eng.pc \in {"retryMatch", "recoverMatch"} =>
       \A o \in eng.list : clob[o].trade = eng.trade

OwnInv ==
  /\ \A o \in Unused : clob[o].trade = None /\ ~rows[o].tracked
  /\ RowsOwnTheirOrders
  /\ HandsOwn

\* Every order is of a seen trade or of the one whose order is in hand.
CopiesInv ==
  /\ NoDuplicateCopy
  /\ \A o \in Unused : clob[o].trade = None
  /\ \A o \in Orders \ Unused :
       clob[o].trade \in seen \/ (eng.pc \in {"poll", "record"} /\ clob[o].trade = eng.trade)
  /\ Placing => \A o \in Orders : clob[o].trade # eng.trade

\* filled counts what is booked of o, or the part of it under the slack.
Counts(o, filled) ==
  /\ credited[o] <= filled /\ filled <= clob[o].matched
  /\ filled = credited[o] \/ NearlyFull(credited[o])

\* Nothing of o is left to book but the slack.
BookedUp(o) ==
  \/ NearlyFull(credited[o])
  \/ clob[o].st = "closed" /\ credited[o] = clob[o].matched

RowBooks ==
  /\ \A o \in Unused : clob[o].matched = 0 /\ credited[o] = 0
  /\ NoOverCredit
  /\ \A o \in Tracked : Counts(o, rows[o].filled) /\ ~rows[o].old
  /\ \A o \in Orders \ (Unused \cup Tracked) : InHand(o) \/ BookedUp(o)

\* The pass of the cycle read o as it is: nothing else changes rows meanwhile.
Snapped(o) ==
  LET snap == pass["cycle"].snap
  IN o \in Tracked /\ snap[o].filled = rows[o].filled /\ ~snap[o].old

\* What the CLOB answered for the order the pass is about to book.
Answered ==
  LET p == pass["cycle"]
  IN /\ rows[p.cur].filled <= p.matched /\ p.matched <= clob[p.cur].matched
     /\ ~p.final \/ NearlyFull(p.matched)
        \/ (clob[p.cur].st = "closed" /\ p.matched = clob[p.cur].matched)

PassBooks ==
  LET p == pass["cycle"]
  IN /\ PassIdle("flush")
     /\ eng.pc # "pending" => PassIdle("cycle")
     /\ p.stage \in {"ask", "apply"}
     /\ \A o \in p.todo : o # p.cur /\ Snapped(o)
     /\ p.cur # None => Snapped(p.cur) /\ Answered

CopyBooks ==
  /\ eng.pc \notin {"retry", "retryMatch"}
  /\ eng.order # None => eng.pc \in {"adopted", "poll", "record"}
  /\ eng.list # {} => eng.pc \in {"listed", "adopting", "adopted"}
  /\ eng.pc \in {"adopting", "adopted"} => eng.list \cap Tracked = {}
  /\ eng.pc = "adopted" =>
       eng.order \notin Tracked \cup eng.list /\ Counts(eng.order, eng.filled)
  /\ eng.pc \in {"poll", "record"} =>
       eng.order \notin Tracked /\ credited[eng.order] = 0
  /\ eng.pc = "record" =>
       /\ eng.filled <= clob[eng.order].matched
       /\ eng.rest = 0 =>
            \/ NearlyFull(eng.filled)
            \/ clob[eng.order].st = "closed" /\ eng.filled = clob[eng.order].matched

LedgerInv == RowBooks /\ PassBooks /\ CopyBooks /\ api = [o \in Orders |-> "none"]

-----------------------------------------------------------------------------
(* What a step does to the orders, the rows and the cycle                  *)

Submitting == Submitted \/ SubmitLost \/ SubmitNoId

\* Someone's order moves on, or the order being submitted is accepted.
Moves(o) ==
  /\ clob'[o].st # "unused"
  /\ \/ o \notin Unused /\ clob'[o].trade = clob[o].trade
     \/ o \in Unused /\ Submitting /\ clob'[o].trade = eng.trade
  /\ \A x \in Orders \ {o} : clob'[x] = clob[x]

\* At most one order of the exchange changes in a step.
LEMMA ClobSteps ==
  ASSUME TypeInv, [Next]_vars
  PROVE  clob' = clob \/ \E o \in Orders : Moves(o)
<1> DEFINE Goal == clob' = clob \/ \E o \in Orders : Moves(o)
<1>0. clob \in [Orders -> ClobOrder] /\ pass \in [Reconcilers -> Pass]
  BY DEF TypeInv, TypeOK
<1>1. ASSUME NEW o \in Orders, NEW m, Submitting, o \in Unused, Accept(o, m, eng.trade)
      PROVE  Goal
  <2>1. /\ clob'[o].st # "unused" /\ clob'[o].trade = eng.trade
        /\ \A x \in Orders \ {o} : clob'[x] = clob[x]
    BY <1>0, <1>1 DEF Accept
  <2>2. QED BY <1>1, <2>1 DEF Moves
<1>2. ASSUME NEW o \in Orders, NEW m, NEW st \in {"open", "closed"}, clob[o].st = "open",
             clob' = [clob EXCEPT ![o].matched = m, ![o].st = st]
      PROVE  Goal
  <2>1. /\ clob'[o].st = st /\ clob'[o].trade = clob[o].trade
        /\ \A x \in Orders \ {o} : clob'[x] = clob[x]
    BY <1>0, <1>2 DEF ClobOrder
  <2>2. QED BY <1>2, <2>1 DEF Moves, Unused
<1>3. ASSUME NEW o \in Orders, clob[o].st = "open", clob' = [clob EXCEPT ![o].st = "closed"]
      PROVE  Goal
  <2>1. /\ clob'[o].st = "closed" /\ clob'[o].trade = clob[o].trade
        /\ \A x \in Orders \ {o} : clob'[x] = clob[x]
    BY <1>0, <1>3 DEF ClobOrder
  <2>2. QED BY <1>3, <2>1 DEF Moves, Unused
<1>4. CASE Submitting
  <2>1. \/ \E o \in Unused, m \in Levels : Accept(o, m, eng.trade)
        \/ clob' = clob
    BY <1>4 DEF Submitting, Submitted, SubmitLost, SubmitNoId
  <2>2. Unused \subseteq Orders
    BY DEF Unused
  <2>3. QED BY <1>1, <1>4, <2>1, <2>2
<1>5. ASSUME NEW o \in Orders, Fill(o) PROVE Goal
  BY <1>2, <1>5 DEF Fill, Open
<1>6. ASSUME NEW o \in Orders, Expire(o) \/ CancelAnswered(o) PROVE Goal
  BY <1>3, <1>6 DEF Expire, CancelAnswered, Open
<1>7. ASSUME NEW r \in Reconcilers, CancelStale(r) PROVE Goal
  <2>1. pass[r].cur \in Orders
    BY <1>0, <1>7 DEF CancelStale, TypeInv, ControlInv, Pass
  <2>2. QED BY <1>3, <1>7, <2>1 DEF CancelStale
<1>8. CASE Copying /\ ~Submitting
  BY <1>8 DEF Submitting, Copying, Poll, EndCycle, SubmitRejected, PollFill, SearchOpen, MatchFound,
     MatchMissed, SearchFailed, Record, SkipTrade, BeginTrade
<1>9. CASE StartCycle \/ GateCloses \/ Adoption \/ StartFlush \/ Crash
  BY <1>9 DEF Adoption, StartCycle, GateCloses, StartFlush, Crash, ListOpen, ListDown,
     DropTracked, AskOrphan, SaveOrphan
<1>10. ASSUME NEW o \in Orders, Age(o) \/ CancelAsked(o) \/ CancelSaved(o) PROVE Goal
  BY <1>10 DEF Age, CancelAsked, CancelSaved
<1>11. ASSUME NEW r \in Reconcilers, Reconcile(r) /\ ~CancelStale(r) PROVE Goal
  BY <1>11 DEF Reconcile, ApplyStatus, Commit, AskStatus, StatusDown
<1>12. CASE UNCHANGED vars
  BY <1>12 DEF vars
<1>13. QED BY <1>4, <1>5, <1>6, <1>7, <1>8, <1>9, <1>10, <1>11, <1>12
       DEF Next, Alive, Cycle, Exchange, Dashboard

\* A row keeps its trade, or is new: of an orphan, or of the order in hand.
LEMMA RowOwners ==
  ASSUME TypeInv, [Next]_vars
  PROVE  \A o \in Orders : rows'[o].tracked =>
           \/ rows[o].tracked /\ rows'[o].trade = rows[o].trade
           \/ eng.pc = "adopted" /\ o = eng.order /\ rows'[o].trade = Recovered
           \/ eng.pc = "record" /\ o = eng.order /\ rows'[o].trade = eng.trade
<1> DEFINE Goal == \A o \in Orders : rows'[o].tracked =>
                     \/ rows[o].tracked /\ rows'[o].trade = rows[o].trade
                     \/ eng.pc = "adopted" /\ o = eng.order /\ rows'[o].trade = Recovered
                     \/ eng.pc = "record" /\ o = eng.order /\ rows'[o].trade = eng.trade
<1>0. rows \in [Orders -> Row]
  BY DEF TypeInv, TypeOK
<1>1. ASSUME rows' = rows PROVE Goal
  BY <1>1
<1>2. ASSUME NEW o \in Orders, NEW f, NEW t, Upsert(o, f, t), o = eng.order,
             (eng.pc = "adopted" /\ t = Recovered) \/ (eng.pc = "record" /\ t = eng.trade)
      PROVE  Goal
  BY <1>0, <1>2 DEF Upsert, Row
<1>3. CASE Record
  <2>1. eng.order \in Orders /\ eng.pc = "record"
    BY <1>3 DEF Record, TypeInv, ControlInv
  <2>2. Upsert(eng.order, eng.filled, eng.trade) \/ rows' = rows
    BY <1>3 DEF Record
  <2>3. QED BY <1>1, <1>2, <2>1, <2>2
<1>4. CASE SaveOrphan
  BY <1>2, <1>4 DEF SaveOrphan, TypeInv, ControlInv
<1>5. CASE Copying /\ ~Record
  <2>1. rows' = rows
    BY <1>5 DEF Copying, Poll, EndCycle, Submitted, SubmitLost, SubmitRejected, SubmitNoId,
       PollFill, SearchOpen, MatchFound, MatchMissed, SearchFailed, SkipTrade, BeginTrade
  <2>2. QED BY <1>1, <2>1
<1>6. CASE (StartCycle \/ GateCloses \/ Adoption \/ StartFlush \/ Crash) /\ ~SaveOrphan
  <2>1. rows' = rows
    BY <1>6 DEF Adoption, StartCycle, GateCloses, StartFlush, Crash, ListOpen, ListDown,
       DropTracked, AskOrphan
  <2>2. QED BY <1>1, <2>1
<1>7. CASE Exchange \/ Dashboard
  <2>1. ASSUME NEW o \in Orders, Fill(o) \/ Expire(o) \/ CancelAsked(o) \/ CancelAnswered(o)
        PROVE  Goal
    BY <1>1, <2>1 DEF Fill, Expire, CancelAsked, CancelAnswered
  <2>2. ASSUME NEW o \in Orders, Age(o) PROVE Goal
    BY <1>0, <2>2 DEF Age, Row
  <2>3. ASSUME NEW o \in Orders, CancelSaved(o) PROVE Goal
    BY <1>0, <2>3 DEF CancelSaved, NoRow
  <2>4. QED BY <1>7, <2>1, <2>2, <2>3 DEF Exchange, Dashboard
<1>8. ASSUME NEW r \in Reconcilers, Reconcile(r) PROVE Goal
  <2>1. ASSUME NEW remove, Commit(r, remove) PROVE Goal
    BY <1>0, <2>1 DEF Commit, NoRow, Row
  <2>2. CASE ApplyStatus(r)
    BY <2>1, <2>2 DEF ApplyStatus
  <2>3. CASE ~ApplyStatus(r)
    BY <1>1, <1>8, <2>3 DEF Reconcile, CancelStale, AskStatus, StatusDown
  <2>4. QED BY <2>2, <2>3
<1>9. CASE UNCHANGED vars
  BY <1>9 DEF vars
<1>10. QED BY <1>3, <1>4, <1>5, <1>6, <1>7, <1>8, <1>9 DEF Next, Alive, Cycle

\* Nothing is in hand: no order, no list, no amounts.
EmptyHands(c) == c.list = {} /\ c.order = None /\ c.filled = 0 /\ c.rest = 0

SameHands ==
  /\ eng'.order = eng.order /\ eng'.filled = eng.filled /\ eng'.rest = eng.rest
  /\ eng'.trade = eng.trade

\* The cycle in its three phases, field by field.
LEMMA AdoptionShape ==
  ASSUME TypeInv
  PROVE
  /\ StartCycle => eng'.pc = "pending" /\ eng'.list = eng.list /\ SameHands
  /\ GateCloses \/ EndCycle \/ Crash => eng'.pc = "idle" /\ EmptyHands(eng')
  /\ ListOpen => eng'.pc = "listed" /\ eng'.list = Open /\ SameHands
  /\ ListDown => eng'.pc = "listed" /\ eng'.list = eng.list /\ SameHands
  /\ DropTracked => eng'.pc = "adopting" /\ eng'.list = eng.list \ Tracked /\ SameHands
  /\ AskOrphan =>
       /\ eng'.pc = "adopted" /\ eng'.order \in eng.list
       /\ eng'.list = eng.list \ {eng'.order}
       /\ eng'.filled = clob[eng'.order].matched
          \/ (eng'.filled = 0 /\ "adoptDown" \in Faults)
  /\ SaveOrphan =>
       eng'.pc = "adopting" /\ eng'.list = eng.list /\ eng'.order = None
<1>0. eng \in CopyCycle
  BY DEF TypeInv, TypeOK
<1> USE <1>0 DEF CopyCycle
<1>1. StartCycle => eng'.pc = "pending" /\ eng'.list = eng.list /\ SameHands
  BY DEF StartCycle, SameHands
<1>2. GateCloses \/ EndCycle \/ Crash => eng'.pc = "idle" /\ EmptyHands(eng')
  BY DEF GateCloses, EndCycle, Crash, IdleCycle, EmptyHands
<1>3. ListOpen => eng'.pc = "listed" /\ eng'.list = Open /\ SameHands
  BY DEF ListOpen, SameHands
<1>4. ListDown => eng'.pc = "listed" /\ eng'.list = eng.list /\ SameHands
  BY DEF ListDown, SameHands
<1>5. DropTracked => eng'.pc = "adopting" /\ eng'.list = eng.list \ Tracked /\ SameHands
  BY DEF DropTracked, Orphans, SameHands
<1>6. ASSUME AskOrphan
      PROVE  /\ eng'.pc = "adopted" /\ eng'.order \in eng.list
             /\ eng'.list = eng.list \ {eng'.order}
             /\ eng'.filled = clob[eng'.order].matched
                \/ (eng'.filled = 0 /\ "adoptDown" \in Faults)
  <2>1. PICK o \in eng.list, known \in {TRUE} \cup {FALSE : f \in Faults \cap {"adoptDown"}} :
          eng' = [eng EXCEPT !.pc = "adopted", !.list = @ \ {o}, !.order = o,
                             !.filled = IF known THEN MatchedSoFar(o) ELSE 0]
    BY <1>6 DEF AskOrphan
  <2>2. /\ eng'.pc = "adopted" /\ eng'.order = o /\ eng'.list = eng.list \ {o}
        /\ eng'.filled = IF known THEN MatchedSoFar(o) ELSE 0
    BY <2>1
  <2>3. known = TRUE \/ "adoptDown" \in Faults
    OBVIOUS
  <2>4. QED BY <2>2, <2>3 DEF MatchedSoFar
<1>7. SaveOrphan => eng'.pc = "adopting" /\ eng'.list = eng.list /\ eng'.order = None
  BY DEF SaveOrphan
<1>8. QED BY <1>1, <1>2, <1>3, <1>4, <1>5, <1>6, <1>7

LEMMA QueueShape ==
  ASSUME TypeInv
  PROVE
  /\ Poll => eng'.pc = "trades" /\ eng'.list = eng.list /\ SameHands
  /\ \A t \in Trades :
       /\ SkipTrade(t) => eng'.pc = "trades" /\ eng'.list = eng.list /\ SameHands
       /\ BeginTrade(t) =>
            /\ eng'.pc = "submit" /\ eng'.list = eng.list /\ eng'.order = eng.order
            /\ eng'.trade = t
<1>0. eng \in CopyCycle
  BY DEF TypeInv, TypeOK
<1> USE <1>0 DEF CopyCycle
<1>1. Poll => eng'.pc = "trades" /\ eng'.list = eng.list /\ SameHands
  BY DEF Poll, SameHands
<1>2. ASSUME NEW t \in Trades
      PROVE  SkipTrade(t) => eng'.pc = "trades" /\ eng'.list = eng.list /\ SameHands
  BY DEF SkipTrade, SameHands
<1>3. ASSUME NEW t \in Trades
      PROVE  BeginTrade(t) => /\ eng'.pc = "submit" /\ eng'.list = eng.list
                              /\ eng'.order = eng.order /\ eng'.trade = t
  BY DEF BeginTrade
<1>4. QED BY <1>1, <1>2, <1>3

LEMMA SubmitShape ==
  ASSUME TypeInv
  PROVE
  /\ Submitted => \E o \in Unused, m \in Levels :
       /\ eng'.pc = "poll" /\ eng'.order = o /\ Accept(o, m, eng.trade)
       /\ eng'.list = eng.list /\ eng'.trade = eng.trade
  /\ SubmitLost \/ SubmitRejected =>
       /\ eng'.pc \in {"retry", "recover"} /\ eng'.list = eng.list /\ SameHands
       /\ eng'.pc = "retry" => "lost" \in Faults
  /\ SubmitNoId =>
       /\ eng'.list = eng.list /\ eng'.trade = eng.trade
       /\ \/ eng'.pc = "recover"
          \/ \E o \in Unused, m \in Levels :
               eng'.pc = "record" /\ eng'.order = o /\ Accept(o, m, eng.trade)
  /\ PollFill =>
       /\ eng'.pc = "record" /\ eng'.list = eng.list
       /\ eng'.order = eng.order /\ eng'.trade = eng.trade
       /\ \/ eng'.filled = clob[eng.order].matched /\ eng'.rest = Size - eng'.filled
          \/ eng'.filled = 0 /\ clob[eng.order].matched = 0 /\ clob[eng.order].st = "closed"
          \/ eng'.filled = 0 /\ eng'.rest = Size
<1>0. eng \in CopyCycle
  BY DEF TypeInv, TypeOK
<1> USE <1>0 DEF CopyCycle
<1>1. ASSUME Submitted
      PROVE  \E o \in Unused, m \in Levels :
               /\ eng'.pc = "poll" /\ eng'.order = o /\ Accept(o, m, eng.trade)
               /\ eng'.list = eng.list /\ eng'.trade = eng.trade
  <2>1. PICK o \in Unused, m \in Levels :
          Accept(o, m, eng.trade) /\ eng' = [eng EXCEPT !.pc = "poll", !.order = o]
    BY <1>1 DEF Submitted
  <2>2. QED BY <2>1
<1>2. ASSUME SubmitLost \/ SubmitRejected
      PROVE  /\ eng'.pc \in {"retry", "recover"} /\ eng'.list = eng.list /\ SameHands
             /\ eng'.pc = "retry" => "lost" \in Faults
  <2>1. CASE SubmitLost
    BY <2>1 DEF SubmitLost, AfterException, SameHands
  <2>2. CASE SubmitRejected
    <3>1. PICK d \in BOOLEAN : eng' = [eng EXCEPT !.pc = "recover", !.definite = d]
      BY <2>2 DEF SubmitRejected
    <3>2. QED BY <3>1 DEF SameHands
  <2>3. QED BY <1>2, <2>1, <2>2
<1>3. ASSUME SubmitNoId
      PROVE  /\ eng'.list = eng.list /\ eng'.trade = eng.trade
             /\ \/ eng'.pc = "recover"
                \/ \E o \in Unused, m \in Levels :
                     eng'.pc = "record" /\ eng'.order = o /\ Accept(o, m, eng.trade)
  <2>1. PICK o \in Unused, m \in Levels :
          /\ Accept(o, m, eng.trade)
          /\ \/ eng' = [eng EXCEPT !.pc = "record", !.order = o, !.filled = Size]
             \/ eng' = [eng EXCEPT !.pc = "recover"]
    BY <1>3 DEF SubmitNoId
  <2>2. QED BY <2>1
<1>4. ASSUME PollFill
      PROVE  /\ eng'.pc = "record" /\ eng'.list = eng.list
             /\ eng'.order = eng.order /\ eng'.trade = eng.trade
             /\ \/ eng'.filled = clob[eng.order].matched /\ eng'.rest = Size - eng'.filled
                \/ /\ eng'.filled = 0 /\ clob[eng.order].matched = 0
                   /\ clob[eng.order].st = "closed"
                \/ eng'.filled = 0 /\ eng'.rest = Size
  <2> DEFINE m == clob[eng.order].matched
  <2>1. \/ eng' = [eng EXCEPT !.pc = "record", !.filled = m, !.rest = Size - m]
        \/ /\ eng' = [eng EXCEPT !.pc = "record", !.filled = 0, !.rest = 0]
           /\ m = 0 /\ clob[eng.order].st = "closed"
        \/ eng' = [eng EXCEPT !.pc = "record", !.filled = 0, !.rest = Size]
    BY <1>4 DEF PollFill
  <2> HIDE DEF m
  <2>2. /\ eng'.pc = "record" /\ eng'.list = eng.list
        /\ eng'.order = eng.order /\ eng'.trade = eng.trade
    BY <2>1
  <2>3. \/ eng'.filled = m /\ eng'.rest = Size - m
        \/ eng'.filled = 0 /\ m = 0 /\ clob[eng.order].st = "closed"
        \/ eng'.filled = 0 /\ eng'.rest = Size
    BY <2>1
  <2>4. QED BY <2>2, <2>3 DEF m
<1>5. QED BY <1>1, <1>2, <1>3, <1>4

LEMMA MatchShape ==
  ASSUME TypeInv
  PROVE
  /\ SearchOpen =>
       /\ eng'.pc \in {"retryMatch", "recoverMatch"}
       /\ eng'.pc = "retryMatch" => eng.pc = "retry"
       /\ eng'.list \subseteq {o \in Open : LooksLikeOurs(o)} /\ SameHands
  /\ MatchFound =>
       /\ eng'.pc = "record" /\ eng'.list = {} /\ eng'.order \in eng.list
       /\ eng'.trade = eng.trade
  /\ MatchMissed =>
       eng'.pc = eng.pc /\ eng'.list \subseteq eng.list /\ SameHands
  /\ SearchFailed =>
       /\ eng'.list = eng.list /\ eng'.order = eng.order
       /\ \/ eng.pc = "retryMatch" /\ eng'.pc = "submit" /\ eng'.trade = eng.trade
          \/ eng'.pc = "trades"
  /\ Record => eng'.pc = "trades" /\ eng'.list = eng.list /\ eng'.order = None
<1>0. eng \in CopyCycle
  BY DEF TypeInv, TypeOK
<1> USE <1>0 DEF CopyCycle
<1>1. ASSUME SearchOpen
      PROVE  /\ eng'.pc \in {"retryMatch", "recoverMatch"}
             /\ eng'.pc = "retryMatch" => eng.pc = "retry"
             /\ eng'.list \subseteq {o \in Open : LooksLikeOurs(o)} /\ SameHands
  <2>1. PICK found \in SUBSET {o \in Open : LooksLikeOurs(o)},
             pc \in {"retryMatch", "recoverMatch"} :
          /\ eng' = [eng EXCEPT !.list = found, !.pc = pc]
          /\ pc = "retryMatch" => eng.pc = "retry"
    BY <1>1 DEF SearchOpen
  <2>2. eng'.pc = pc /\ eng'.list = found /\ SameHands
    BY <2>1 DEF SameHands
  <2>3. QED BY <2>1, <2>2
<1>2. ASSUME MatchFound
      PROVE  /\ eng'.pc = "record" /\ eng'.list = {} /\ eng'.order \in eng.list
             /\ eng'.trade = eng.trade
  <2>1. PICK o \in eng.list :
          eng' = [eng EXCEPT !.pc = "record", !.order = o, !.list = {}, !.tries = 0,
                             !.filled = clob[o].matched, !.rest = Size - clob[o].matched,
                             !.definite = FALSE]
    BY <1>2 DEF MatchFound
  <2>2. QED BY <2>1
<1>3. MatchMissed => eng'.pc = eng.pc /\ eng'.list \subseteq eng.list /\ SameHands
  BY DEF MatchMissed, SameHands
<1>4. SearchFailed =>
        /\ eng'.list = eng.list /\ eng'.order = eng.order
        /\ \/ eng.pc = "retryMatch" /\ eng'.pc = "submit" /\ eng'.trade = eng.trade
           \/ eng'.pc = "trades"
  BY DEF SearchFailed
<1>5. Record => eng'.pc = "trades" /\ eng'.list = eng.list /\ eng'.order = None
  BY DEF Record
<1>6. QED BY <1>1, <1>2, <1>3, <1>4, <1>5

-----------------------------------------------------------------------------
(* A row books its fills to the trade its order was placed for             *)

\* An order in use stays in use and keeps its trade; only an order being
\* submitted comes into use.
LEMMA OrdersKeepTrades ==
  ASSUME TypeInv, [Next]_vars
  PROVE  \A o \in Orders :
           /\ o \notin Unused =>
                clob'[o].st # "unused" /\ clob'[o].trade = clob[o].trade
           /\ o \in Unused =>
                \/ clob'[o] = clob[o]
                \/ /\ clob'[o].st # "unused" /\ Submitting
                   /\ clob'[o].trade = eng.trade
  BY ClobSteps DEF Moves, Unused

LEMMA ElsewhereSameCycle ==
  ASSUME Exchange \/ Dashboard \/ StartFlush \/ (\E r \in Reconcilers : Reconcile(r))
  PROVE  eng' = eng
<1>1. Exchange \/ Dashboard => eng' = eng
  BY DEF Exchange, Dashboard, Fill, Expire, Age, CancelAsked, CancelAnswered, CancelSaved
<1>2. ASSUME NEW r \in Reconcilers, Reconcile(r) PROVE eng' = eng
  BY <1>2 DEF Reconcile, CancelStale, ApplyStatus, Commit, AskStatus, StatusDown
<1>3. QED BY <1>1, <1>2 DEF StartFlush

LEMMA HandsStep ==
  ASSUME TypeInv, OwnInv, ShapesDiffer, [Next]_vars
  PROVE  HandsOwn'
<1>0. /\ eng.list \subseteq Orders
      /\ eng.pc \in {"adopted", "poll", "record"} => eng.order \in Orders
  BY Amounts
<1>1. /\ HandsOwn
      /\ \A o \in Orders : clob'[o].st = "unused" => o \in Unused
      /\ \A o \in Orders : o \notin Unused => clob'[o].trade = clob[o].trade
  BY OrdersKeepTrades DEF OwnInv
<1>2. \A o \in Orders : o \in Unused' <=> clob'[o].st = "unused"
  BY DEF Unused
<1>3. Unused' \cap Orders \subseteq Unused
  BY <1>1, <1>2
<1>4. ASSUME eng' = eng PROVE HandsOwn'
  BY <1>0, <1>1, <1>2, <1>3, <1>4 DEF HandsOwn
<1>5. ASSUME eng'.list \subseteq eng.list,
             eng'.pc \notin {"adopted", "poll", "record", "retryMatch", "recoverMatch"}
      PROVE  HandsOwn'
  BY <1>0, <1>1, <1>2, <1>3, <1>5 DEF HandsOwn
<1>6. CASE StartCycle \/ GateCloses \/ EndCycle \/ Crash \/ Adoption
  <2>1. CASE StartCycle \/ GateCloses \/ EndCycle \/ Crash \/ ListDown \/ DropTracked
             \/ SaveOrphan
    BY <1>5, <2>1, AdoptionShape DEF EmptyHands
  <2>2. CASE ListOpen
    <3>1. eng'.pc = "listed" /\ eng'.list = Open
      BY <2>2, AdoptionShape
    <3>2. Open \cap Unused = {} /\ Open \subseteq Orders
      BY DEF Open, Unused
    <3>3. QED BY <1>3, <3>1, <3>2 DEF HandsOwn
  <2>3. CASE AskOrphan
    <3>1. /\ eng'.pc = "adopted" /\ eng'.order \in eng.list
          /\ eng'.list \subseteq eng.list
      BY <2>3, AdoptionShape
    <3>2. QED BY <1>0, <1>1, <1>3, <3>1 DEF HandsOwn
  <2>4. QED BY <1>6, <2>1, <2>2, <2>3 DEF Adoption
<1>7. CASE Poll \/ \E t \in Trades : SkipTrade(t) \/ BeginTrade(t)
  BY <1>5, <1>7, QueueShape
<1>8. CASE Submitted \/ SubmitNoId
  <2>1. eng'.list = eng.list /\ eng'.trade = eng.trade
    BY <1>8, SubmitShape
  <2>2. CASE eng'.pc = "recover"
    BY <1>5, <2>1, <2>2
  <2>3. CASE eng'.pc # "recover"
    <3>1. PICK o \in Unused, m \in Levels :
            /\ eng'.pc \in {"poll", "record"} /\ eng'.order = o
            /\ Accept(o, m, eng.trade)
      BY <1>8, <2>3, SubmitShape
    <3>2. o \in Orders /\ clob'[o].st # "unused" /\ clob'[o].trade = eng.trade
      BY <3>1 DEF Unused, Accept, TypeInv, TypeOK
    <3>3. QED BY <1>0, <1>1, <1>2, <1>3, <2>1, <3>1, <3>2 DEF HandsOwn
  <2>4. QED BY <2>2, <2>3
<1>9. CASE SubmitLost \/ SubmitRejected
  BY <1>5, <1>9, SubmitShape
<1>10. CASE PollFill
  <2>1. /\ eng'.pc = "record" /\ eng'.list = eng.list
        /\ eng'.order = eng.order /\ eng'.trade = eng.trade /\ eng.pc = "poll"
    BY <1>10, SubmitShape DEF PollFill
  <2>2. QED BY <1>0, <1>1, <1>3, <2>1 DEF HandsOwn
<1>11. CASE SearchOpen
  <2>1. /\ eng'.pc \in {"retryMatch", "recoverMatch"} /\ eng'.trade = eng.trade
        /\ eng'.list \subseteq {o \in Open : LooksLikeOurs(o)}
    BY <1>11, MatchShape DEF SameHands
  <2>2. ASSUME NEW o \in Open, LooksLikeOurs(o)
        PROVE  o \in Orders \ Unused /\ clob[o].trade = eng.trade
    <3>1. o \in Orders /\ clob[o].trade \in Trades \cup {None} /\ o \notin Unused
      BY DEF Open, Unused, TypeInv, TypeOK, ClobOrder
    <3>2. eng.trade \in Trades
      BY <1>11 DEF SearchOpen, TypeInv, ControlInv
    <3>3. QED BY <2>2, <3>1, <3>2 DEF LooksLikeOurs, ShapesDiffer
  <2>3. QED BY <1>1, <1>3, <2>1, <2>2 DEF HandsOwn
<1>12. CASE MatchFound
  <2>1. /\ eng'.pc = "record" /\ eng'.list = {} /\ eng'.order \in eng.list
        /\ eng'.trade = eng.trade /\ eng.pc \in {"retryMatch", "recoverMatch"}
    BY <1>12, MatchShape DEF MatchFound, Matching
  <2>2. QED BY <1>0, <1>1, <1>3, <2>1 DEF HandsOwn
<1>13. CASE MatchMissed
  <2>1. /\ eng'.pc = eng.pc /\ eng'.list \subseteq eng.list /\ SameHands
        /\ eng.pc \in {"retryMatch", "recoverMatch"}
    BY <1>13, MatchShape DEF MatchMissed, Matching
  <2>2. QED BY <1>0, <1>1, <1>3, <2>1 DEF HandsOwn, SameHands
<1>14. CASE SearchFailed \/ Record
  BY <1>5, <1>14, MatchShape
<1>15. CASE UNCHANGED vars
  BY <1>4, <1>15 DEF vars
<1>16. QED
  BY <1>4, <1>6, <1>7, <1>8, <1>9, <1>10, <1>11, <1>12, <1>13, <1>14, <1>15,
     ElsewhereSameCycle DEF Next, Alive, Cycle, Copying

LEMMA OwnInit == Init => OwnInv
<1> SUFFICES ASSUME Init PROVE OwnInv
  OBVIOUS
<1>1. \A o \in Orders : clob[o].trade = None /\ ~rows[o].tracked
  BY DEF Init, NoRow
<1>2. eng.list = {} /\ eng.pc = "idle"
  BY DEF Init, IdleCycle
<1>3. QED BY <1>1, <1>2 DEF OwnInv, HandsOwn, RowsOwnTheirOrders, Tracked, Unused

LEMMA OwnStep ==
  ASSUME TypeInv, OwnInv, ShapesDiffer, [Next]_vars
  PROVE  OwnInv'
<1>1. \A o \in Orders : rows'[o].tracked =>
        \/ rows[o].tracked /\ rows'[o].trade = rows[o].trade
        \/ eng.pc = "adopted" /\ o = eng.order /\ rows'[o].trade = Recovered
        \/ eng.pc = "record" /\ o = eng.order /\ rows'[o].trade = eng.trade
  BY RowOwners
<1>2. ASSUME NEW o \in Orders, rows'[o].tracked
      PROVE  o \notin Unused /\ rows'[o].trade \in {clob[o].trade, Recovered}
  <2>1. CASE rows[o].tracked /\ rows'[o].trade = rows[o].trade
    BY <2>1 DEF OwnInv, RowsOwnTheirOrders, Tracked
  <2>2. CASE eng.pc \in {"adopted", "record"} /\ o = eng.order
    BY <1>1, <1>2, <2>2 DEF OwnInv, HandsOwn, RowsOwnTheirOrders, Tracked
  <2>3. QED BY <1>1, <1>2, <2>1, <2>2
<1>3. ASSUME NEW o \in Orders, clob'[o].st = "unused"
      PROVE  clob'[o].trade = None /\ ~rows'[o].tracked
  BY <1>2, <1>3, OrdersKeepTrades DEF OwnInv
<1>4. RowsOwnTheirOrders'
  BY <1>2, OrdersKeepTrades DEF RowsOwnTheirOrders, Tracked
<1>5. QED BY <1>3, <1>4, HandsStep DEF OwnInv, Unused

\* As long as no two trades ask for the same order, a row books its fills to
\* the trade its order was placed for, or to nobody, whatever fails: a match
\* among the open orders, a crash and an adoption never hand an order over.
THEOREM RowsBelongToTrades ==
  ASSUME ShapesDiffer
  PROVE  Spec => []RowsOwnTheirOrders
<1>1. TypeInv /\ OwnInv /\ [Next]_vars => OwnInv'
  BY OwnStep
<1>2. OwnInv => RowsOwnTheirOrders
  BY DEF OwnInv
<1>3. QED BY TypeInvariant, OwnInit, <1>1, <1>2, PTL DEF Spec

-----------------------------------------------------------------------------
(* No trade is copied twice                                                *)

LEMMA CopiesInit == Init => CopiesInv
  BY DEF Init, IdleCycle, CopiesInv, NoDuplicateCopy, Placing, Unused

\* A step in which no order is placed keeps the trades of the orders.
LEMMA CopiesOtherwise ==
  ASSUME TypeInv, CopiesInv, [Next]_vars,
         ~Submitted, ~SubmitLost, ~SubmitNoId, ~Crash
  PROVE  CopiesInv'
<1>1. /\ \A o \in Orders : clob'[o].trade = clob[o].trade
      /\ \A o \in Orders : clob'[o].st = "unused" <=> clob[o].st = "unused"
  BY OrdersKeepTrades DEF Unused, Submitting
<1>2. seen \subseteq seen'
  BY RowSteps
<1>3. ASSUME \A o \in Orders \ Unused :
               \/ clob[o].trade \in seen'
               \/ eng'.pc \in {"poll", "record"} /\ clob[o].trade = eng'.trade,
             Placing' => \A o \in Orders : clob[o].trade # eng'.trade
      PROVE  CopiesInv'
  BY <1>1, <1>3 DEF CopiesInv, NoDuplicateCopy, Unused, Placing
<1>4. ASSUME eng' = eng PROVE CopiesInv'
  BY <1>2, <1>3, <1>4 DEF CopiesInv, Placing
<1>5. ASSUME eng.pc \notin {"poll", "record"}, ~Placing' PROVE CopiesInv'
  BY <1>2, <1>3, <1>5 DEF CopiesInv
<1>6. ASSUME Placing, Placing', eng'.trade = eng.trade PROVE CopiesInv'
  BY <1>2, <1>3, <1>6 DEF CopiesInv, Placing
<1>7. CASE StartCycle \/ GateCloses \/ EndCycle \/ Adoption \/ Poll
           \/ \E t \in Trades : SkipTrade(t)
  <2>1. eng.pc \notin {"poll", "record"}
    BY <1>7 DEF StartCycle, GateCloses, PendingDone, EndCycle, Adoption, ListOpen, ListDown,
       DropTracked, AskOrphan, SaveOrphan, Poll, SkipTrade
  <2>2. ~Placing'
    BY <1>7, AdoptionShape, QueueShape DEF Placing, Adoption
  <2>3. QED BY <1>5, <2>1, <2>2
<1>8. ASSUME NEW t \in Trades, BeginTrade(t) PROVE CopiesInv'
  <2>1. eng.pc = "trades" /\ t \notin seen /\ t # None
    BY <1>8, ConstantsOK DEF BeginTrade, MayCopy
  <2>2. eng'.pc = "submit" /\ eng'.trade = t
    BY <1>8, QueueShape
  <2>3. \A o \in Orders : clob[o].trade # t
    BY <2>1 DEF CopiesInv
  <2>4. QED BY <1>2, <1>3, <2>1, <2>2, <2>3 DEF CopiesInv
<1>9. CASE SubmitRejected \/ SearchOpen \/ MatchMissed
  <2>1. Placing
    BY <1>9 DEF SubmitRejected, SearchOpen, MatchMissed, Matching, Placing
  <2>2. Placing' /\ eng'.trade = eng.trade
    BY <1>9, <2>1, SubmitShape, MatchShape DEF Placing, SameHands
  <2>3. QED BY <1>6, <2>1, <2>2
<1>10. CASE PollFill
  <2>1. eng.pc = "poll" /\ eng'.pc = "record" /\ eng'.trade = eng.trade
    BY <1>10, SubmitShape DEF PollFill
  <2>2. QED BY <1>2, <1>3, <2>1 DEF CopiesInv, Placing
<1>11. CASE MatchFound
  <2>1. eng.pc \in {"retryMatch", "recoverMatch"} /\ eng'.pc = "record"
    BY <1>11, MatchShape DEF MatchFound, Matching
  <2>2. QED BY <1>5, <2>1 DEF Placing
<1>12. CASE SearchFailed
  <2>1. eng.pc \in {"retryMatch", "recoverMatch"}
    BY <1>12 DEF SearchFailed, Matching
  <2>2. \/ eng'.pc = "submit" /\ eng'.trade = eng.trade
        \/ eng'.pc = "trades"
    BY <1>12, MatchShape
  <2>3. QED BY <1>5, <1>6, <2>1, <2>2 DEF Placing
<1>13. CASE Record
  <2>1. eng'.pc = "trades" /\ seen' = seen \cup {eng.trade}
    BY <1>13, MatchShape DEF Record, MarkSeen
  <2>2. QED BY <1>3, <2>1 DEF CopiesInv, Placing
<1>14. CASE UNCHANGED vars
  BY <1>4, <1>14 DEF vars
<1>15. QED
  BY <1>4, <1>7, <1>8, <1>9, <1>10, <1>11, <1>12, <1>13, <1>14, ElsewhereSameCycle
     DEF Next, Alive, Cycle, Copying

\* The order that is placed is the only one of its trade.
LEMMA CopiesSubmitted ==
  ASSUME TypeInv, CopiesInv, Submitted
  PROVE  CopiesInv'
<1>1. PICK o \in Unused, m \in Levels :
        /\ eng'.pc = "poll" /\ eng'.order = o /\ Accept(o, m, eng.trade)
        /\ eng'.trade = eng.trade
  BY SubmitShape
<1>2. o \in Orders
  BY DEF Unused
<1>3. /\ clob'[o].st # "unused" /\ clob'[o].trade = eng.trade
      /\ \A x \in Orders \ {o} : clob'[x] = clob[x]
  BY <1>1, <1>2 DEF Accept, TypeInv, TypeOK
<1>4. /\ \A x \in Orders : clob[x].trade # eng.trade
      /\ \A x \in Orders \ Unused : clob[x].trade \in seen
      /\ seen' = seen
  BY DEF Submitted, CopiesInv, Placing
<1>5. NoDuplicateCopy'
  BY <1>2, <1>3, <1>4 DEF CopiesInv, NoDuplicateCopy
<1>6. QED BY <1>1, <1>2, <1>3, <1>4, <1>5 DEF CopiesInv, Unused, Placing

\* No leader trade ever has two orders on the exchange, when the exchange
\* answers every submission with an order id and the process stays up: a
\* rejection, a failed search, a match with an order of another trade, a mode
\* switch and a cancellation copy nothing twice, as the key is in seen_trades
\* before the trade can be chosen again.
THEOREM TradesCopiedOnce ==
  ASSUME Faults \cap {"lost", "noId", "crash"} = {}
  PROVE  Spec => []NoDuplicateCopy
<1>1. TypeInv /\ CopiesInv /\ [Next]_vars => CopiesInv'
  <2> SUFFICES ASSUME TypeInv, CopiesInv, [Next]_vars PROVE CopiesInv'
    OBVIOUS
  <2>1. ~SubmitLost /\ ~SubmitNoId /\ ~Crash
    BY DEF SubmitLost, SubmitNoId, Crash
  <2>2. QED BY <2>1, CopiesOtherwise, CopiesSubmitted
<1>2. CopiesInv => NoDuplicateCopy
  BY DEF CopiesInv
<1>3. QED BY TypeInvariant, CopiesInit, <1>1, <1>2, PTL DEF Spec

-----------------------------------------------------------------------------
(* What is settled was booked                                              *)

\* The events under which every matched share is booked.
CalmFaults == {"statusDown", "listDown", "reject", "expire"}

LEMMA CalmSteps ==
  ASSUME TypeInv, LedgerInv, Faults \subseteq CalmFaults
  PROVE  /\ ~StartFlush /\ ~Crash /\ ~SubmitLost /\ ~SubmitNoId /\ ~Dashboard
         /\ \A o \in Orders : ~Age(o)
         /\ ~Reconcile("flush") /\ ~CancelStale("cycle")
<1>1. ~StartFlush /\ ~Crash /\ ~SubmitLost /\ ~SubmitNoId /\ (\A o \in Orders : ~Age(o))
  BY DEF StartFlush, Crash, SubmitLost, SubmitNoId, Age, CalmFaults
<1>2. ~Dashboard
  BY DEF Dashboard, CancelAsked, CancelAnswered, CancelSaved, LedgerInv, CalmFaults
<1>3. ~Reconcile("flush")
  <2>1. "flush" \in Reconcilers /\ pass["flush"].cur = None /\ pass["flush"].todo = {}
    BY DEF LedgerInv, PassBooks, PassIdle, Reconcilers
  <2>2. pass["flush"].stage = "ask"
    BY <2>1 DEF TypeInv, ControlInv
  <2>3. QED BY <2>1, <2>2 DEF Reconcile, CancelStale, ApplyStatus, AskStatus, StatusDown
<1>4. ~CancelStale("cycle")
  <2>1. "cycle" \in Reconcilers
    BY DEF Reconcilers
  <2>2. pass["cycle"].cur # None => ~pass["cycle"].snap[pass["cycle"].cur].old
    BY DEF LedgerInv, PassBooks, Snapped
  <2>3. pass["cycle"].stage = "apply" => pass["cycle"].cur # None
    BY <2>1 DEF TypeInv, ControlInv
  <2>4. QED BY <2>2, <2>3 DEF CancelStale, MustCancel
<1>5. QED BY <1>1, <1>2, <1>3, <1>4

LEMMA InBounds ==
  ASSUME TypeInv
  PROVE  /\ \A o \in Orders :
              /\ clob[o].matched \in 0..Size /\ credited[o] \in Nat
              /\ rows[o].filled \in Nat /\ rows[o].tracked \in BOOLEAN
              /\ rows[o].old \in BOOLEAN
              /\ clob[o].st \in {"unused", "open", "closed"}
         /\ pass["cycle"].matched \in Nat /\ eng.filled \in Nat /\ Size \in Nat
         /\ None \notin Orders
  BY Amounts, ConstantsOK DEF TypeInv, TypeOK, ClobOrder, Row

\* A fill and an expiry change only what is still open.
LEMMA LedgerExchange ==
  ASSUME TypeInv, LedgerInv, NEW o \in Orders, Fill(o) \/ Expire(o)
  PROVE  LedgerInv'
<1>0. clob \in [Orders -> ClobOrder]
  BY DEF TypeInv, TypeOK
<1>1. PICK m \in Levels, st \in {"open", "closed"} :
        /\ clob[o].matched <= m
        /\ clob'[o].matched = m /\ clob'[o].st = st
        /\ \A x \in Orders \ {o} : clob'[x] = clob[x]
  <2>1. CASE Fill(o)
    <3>1. PICK m \in Levels :
            /\ m > clob[o].matched
            /\ clob' = [clob EXCEPT ![o].matched = m,
                                    ![o].st = IF m = Size THEN "closed" ELSE "open"]
      BY <2>1 DEF Fill
    <3>2. clob[o].matched <= m
      BY <3>1, Amounts, LevelsAreNat
    <3>3. QED BY <1>0, <3>1, <3>2 DEF ClobOrder
  <2>2. CASE Expire(o)
    <3>1. clob' = [clob EXCEPT ![o].st = "closed"]
      BY <2>2 DEF Expire
    <3>2. clob'[o].matched = clob[o].matched /\ clob'[o].st = "closed"
      BY <1>0, <3>1 DEF ClobOrder
    <3>3. clob[o].matched \in Levels /\ clob[o].matched <= clob[o].matched
      BY <1>0, Amounts DEF ClobOrder
    <3>4. QED BY <1>0, <3>1, <3>2, <3>3
  <2>3. QED BY <2>1, <2>2
<1>2. clob[o].st = "open" /\ UNCHANGED <<rows, credited, pass, eng, api>>
  BY DEF Fill, Expire, Open
<1>3. m \in Nat /\ Unused' = Unused /\ o \notin Unused
  BY <1>1, <1>2, LevelsAreNat DEF Unused
<1>4. \A x \in Orders : clob[x].matched <= clob'[x].matched /\ clob'[x].matched \in Nat
  BY <1>1, <1>3, Amounts
<1>5. \A x \in Orders : clob[x].st = "closed" =>
        clob'[x].st = "closed" /\ clob'[x].matched = clob[x].matched
  BY <1>1, <1>2
<1>6. RowBooks'
  <2>1. \A x \in Unused : clob'[x].matched = 0 /\ credited[x] = 0
    BY <1>1, <1>3 DEF LedgerInv, RowBooks, Unused
  <2>2. \A x \in Orders : credited[x] <= clob'[x].matched
    BY <1>4, Amounts DEF LedgerInv, RowBooks, NoOverCredit
  <2>3. \A x \in Tracked : Counts(x, rows[x].filled)'
    BY <1>2, <1>4, Amounts DEF LedgerInv, RowBooks, Counts, NearlyFull, Tracked
  <2>4. \A x \in Orders \ (Unused \cup Tracked) : InHand(x)' \/ BookedUp(x)'
    BY <1>2, <1>5 DEF LedgerInv, RowBooks, InHand, BookedUp
  <2>5. QED BY <1>2, <1>3, <2>1, <2>2, <2>3, <2>4
         DEF LedgerInv, RowBooks, NoOverCredit, Tracked
<1>7. PassBooks'
  <2>1. pass["cycle"].cur # None => Answered'
    BY <1>2, <1>4, <1>5, Amounts DEF LedgerInv, PassBooks, Answered
  <2>2. QED BY <1>2, <2>1 DEF LedgerInv, PassBooks, PassIdle, Snapped, Tracked
<1>8. CopyBooks'
  <2>1. eng.pc = "adopted" => Counts(eng.order, eng.filled)'
    BY <1>2, <1>4, Amounts DEF LedgerInv, CopyBooks, Counts
  <2>2. eng.pc = "record" =>
          /\ eng.filled <= clob'[eng.order].matched
          /\ eng.rest = 0 =>
               \/ NearlyFull(eng.filled)
               \/ clob'[eng.order].st = "closed" /\ eng.filled = clob'[eng.order].matched
    BY <1>4, <1>5, Amounts DEF LedgerInv, CopyBooks
  <2>3. QED BY <1>2, <2>1, <2>2 DEF LedgerInv, CopyBooks, Tracked
<1>9. QED BY <1>2, <1>6, <1>7, <1>8 DEF LedgerInv

\* A commit books what matched since the snapshot of the row, which still
\* says what the row says.
LEMMA Booking ==
  ASSUME TypeInv, OwnInv, LedgerInv, NEW remove \in BOOLEAN, Commit("cycle", remove),
         pass["cycle"].cur # None
  PROVE  LET p == pass["cycle"]
             o == p.cur
         IN /\ o \in Orders /\ o \notin Unused /\ o \in Tracked /\ o \notin p.todo
            /\ credited'[o] = credited[o] + (p.matched - rows[o].filled)
            /\ credited'[o] \in Nat
            /\ \A x \in Orders \ {o} : credited'[x] = credited[x] /\ rows'[x] = rows[x]
            /\ remove => rows'[o] = NoRow
            /\ ~remove => /\ rows'[o].tracked /\ rows'[o].filled = p.matched
                          /\ ~rows'[o].old
            /\ UNCHANGED <<clob, eng, api>> /\ pass'["flush"] = pass["flush"]
            /\ pass'["cycle"].todo = p.todo /\ pass'["cycle"].cur = None
            /\ pass'["cycle"].stage = "ask"
            /\ \A x \in p.todo : pass'["cycle"].snap[x] = p.snap[x]
<1> DEFINE p == pass["cycle"]
           o == p.cur
<1>0. /\ p \in Pass /\ pass \in [Reconcilers -> Pass] /\ credited \in [Orders -> Nat]
      /\ rows \in [Orders -> Row] /\ "cycle" \in Reconcilers /\ "flush" \in Reconcilers
  BY DEF TypeInv, TypeOK, Reconcilers
<1>1. /\ o \in Orders /\ o \in Tracked /\ p.snap[o].filled = rows[o].filled
      /\ rows[o].filled <= p.matched
  BY DEF LedgerInv, PassBooks, Snapped, Answered, Tracked
<1>2. o \notin p.todo
  BY DEF LedgerInv, PassBooks
<1>3. ~rows[o].old
  BY <1>1 DEF LedgerInv, RowBooks
<1>4. FillDelta(p.matched, p.snap[o].filled) = p.matched - rows[o].filled
  BY <1>1, Amounts DEF FillDelta
<1>5. /\ credited' = [credited EXCEPT ![o] = @ + (p.matched - rows[o].filled)]
      /\ rows' = [rows EXCEPT ![o] =
                    IF remove THEN NoRow
                    ELSE IF @.tracked THEN [@ EXCEPT !.filled = p.matched] ELSE @]
      /\ pass' = [pass EXCEPT !["cycle"] =
                    IF p.todo = {} THEN IdlePass
                    ELSE [p EXCEPT !.stage = "ask", !.cur = None, !.matched = 0,
                                   !.final = FALSE, !.snap[o] = NoRow]]
      /\ UNCHANGED <<clob, eng, api>>
  BY <1>4 DEF Commit
<1>6. /\ credited'[o] = credited[o] + (p.matched - rows[o].filled)
      /\ \A x \in Orders \ {o} : credited'[x] = credited[x] /\ rows'[x] = rows[x]
  BY <1>0, <1>1, <1>5
<1>7. credited'[o] \in Nat
  BY <1>1, <1>6, Amounts
<1>8. /\ remove => rows'[o] = NoRow
      /\ ~remove => rows'[o].tracked /\ rows'[o].filled = p.matched /\ ~rows'[o].old
  <2>1. rows'[o] = IF remove THEN NoRow ELSE [rows[o] EXCEPT !.filled = p.matched]
    BY <1>0, <1>1, <1>5 DEF Tracked
  <2>2. rows[o] \in Row /\ rows[o].tracked
    BY <1>0, <1>1 DEF Tracked
  <2>3. QED BY <1>3, <2>1, <2>2 DEF Row
<1>9. /\ pass'["flush"] = pass["flush"]
      /\ pass'["cycle"].todo = p.todo /\ pass'["cycle"].cur = None
      /\ pass'["cycle"].stage = "ask"
      /\ \A x \in p.todo : pass'["cycle"].snap[x] = p.snap[x]
  <2>1. pass'["flush"] = pass["flush"]
    BY <1>0, <1>5
  <2>2. CASE p.todo = {}
    <3>1. pass'["cycle"] = IdlePass
      BY <1>0, <1>5, <2>2
    <3>2. QED BY <2>1, <2>2, <3>1 DEF IdlePass
  <2>3. CASE p.todo # {}
    <3>1. pass'["cycle"] = [p EXCEPT !.stage = "ask", !.cur = None, !.matched = 0,
                                     !.final = FALSE, !.snap[o] = NoRow]
      BY <1>0, <1>5, <2>3
    <3>2. /\ pass'["cycle"].todo = p.todo /\ pass'["cycle"].cur = None
          /\ pass'["cycle"].stage = "ask"
          /\ pass'["cycle"].snap = [p.snap EXCEPT ![o] = NoRow]
      BY <1>0, <3>1 DEF Pass
    <3>3. \A x \in p.todo : x \in Orders /\ x # o
      BY <1>2, Amounts
    <3>4. QED BY <1>0, <2>1, <3>2, <3>3 DEF Pass
  <2>4. QED BY <2>2, <2>3
<1>10. o \notin Unused
  BY <1>1 DEF OwnInv, Tracked
<1>11. QED BY <1>1, <1>2, <1>5, <1>6, <1>7, <1>8, <1>9, <1>10

LEMMA LedgerApply ==
  ASSUME TypeInv, OwnInv, LedgerInv, ApplyStatus("cycle"), ~CancelStale("cycle")
  PROVE  LedgerInv'
<1> DEFINE p == pass["cycle"]
           o == p.cur
<1>1. p.cur # None /\ p.final \in BOOLEAN /\ Commit("cycle", p.final)
  <2>1. p \in Pass /\ "cycle" \in Reconcilers
    BY DEF TypeInv, TypeOK, Reconcilers
  <2>2. p.stage # "ask" => p.cur # None
    BY <2>1 DEF TypeInv, ControlInv
  <2>3. p.stage \in {"ask", "apply"}
    BY DEF LedgerInv, PassBooks
  <2>4. QED BY <2>1, <2>2, <2>3 DEF ApplyStatus, Pass
<1>2. /\ o \in Orders /\ o \notin Unused /\ o \in Tracked /\ o \notin p.todo
      /\ credited'[o] = credited[o] + (p.matched - rows[o].filled)
      /\ credited'[o] \in Nat
      /\ \A x \in Orders \ {o} : credited'[x] = credited[x] /\ rows'[x] = rows[x]
      /\ p.final => rows'[o] = NoRow
      /\ ~p.final => rows'[o].tracked /\ rows'[o].filled = p.matched /\ ~rows'[o].old
      /\ UNCHANGED <<clob, eng, api>> /\ pass'["flush"] = pass["flush"]
      /\ pass'["cycle"].todo = p.todo /\ pass'["cycle"].cur = None
      /\ pass'["cycle"].stage = "ask"
      /\ \A x \in p.todo : pass'["cycle"].snap[x] = p.snap[x]
  BY <1>1, Booking
<1>3. Counts(o, rows[o].filled) /\ Answered
  BY <1>1, <1>2 DEF LedgerInv, RowBooks, PassBooks
<1>4. credited'[o] <= p.matched /\ credited[o] <= credited'[o]
  BY <1>2, <1>3, Amounts DEF Counts, Answered
<1>5. credited'[o] = p.matched \/ NearlyFull(credited'[o])
  BY <1>2, <1>3, <1>4, InBounds DEF Counts, NearlyFull
<1>6. Tracked' \subseteq Tracked /\ Tracked \subseteq Tracked' \cup {o}
  BY <1>2 DEF Tracked
<1>7. RowBooks'
  <2>1. \A x \in Unused : clob[x].matched = 0 /\ credited'[x] = 0
    BY <1>2 DEF LedgerInv, RowBooks, Unused
  <2>2. \A x \in Orders : credited'[x] <= clob[x].matched
    BY <1>2, <1>3, <1>4, InBounds DEF LedgerInv, RowBooks, NoOverCredit, Answered
  <2>3. ASSUME NEW x \in Tracked' PROVE Counts(x, rows[x].filled)' /\ ~rows'[x].old
    <3>1. CASE x # o
      BY <1>2, <1>6, <3>1 DEF LedgerInv, RowBooks, Counts, Tracked
    <3>2. CASE x = o
      <4>1. rows'[o].filled = p.matched /\ ~rows'[o].old
        BY <1>2, <2>3, <3>2 DEF NoRow, Tracked
      <4>2. QED BY <1>2, <1>3, <1>4, <1>5, <3>2, <4>1 DEF Counts, Answered
    <3>3. QED BY <3>1, <3>2
  <2>4. ASSUME NEW x \in Orders, x \notin Unused, x \notin Tracked'
        PROVE  InHand(x)' \/ BookedUp(x)'
    <3>1. CASE x # o
      BY <1>2, <2>4, <3>1 DEF LedgerInv, RowBooks, InHand, BookedUp, Tracked
    <3>2. CASE x = o
      <4>1. p.final
        BY <1>2, <2>4, <3>2 DEF Tracked
      <4>2. NearlyFull(p.matched) \/ (clob[o].st = "closed" /\ p.matched = clob[o].matched)
        BY <1>3, <4>1 DEF Answered
      <4>3. QED BY <1>2, <1>5, <3>2, <4>2 DEF BookedUp
    <3>3. QED BY <3>1, <3>2
  <2>5. QED BY <1>2, <2>1, <2>2, <2>3, <2>4 DEF RowBooks, NoOverCredit, Unused
<1>8. PassBooks'
  <2>1. \A x \in p.todo : x \in Orders /\ x # o /\ x # None
    BY <1>2, InBounds, Amounts
  <2>2. \A x \in p.todo : x # None /\ Snapped(x)'
    BY <1>2, <2>1 DEF LedgerInv, PassBooks, Snapped, Tracked
  <2>3. QED BY <1>1, <1>2, <2>2 DEF LedgerInv, PassBooks, PassIdle
<1>9. CopyBooks'
  <2>1. eng.pc = "pending"
    BY <1>1 DEF LedgerInv, PassBooks, PassIdle
  <2>2. QED BY <1>2, <2>1 DEF LedgerInv, CopyBooks
<1>10. QED BY <1>2, <1>7, <1>8, <1>9 DEF LedgerInv

LEMMA LedgerReconcile ==
  ASSUME TypeInv, OwnInv, LedgerInv, Reconcile("cycle"), ~CancelStale("cycle")
  PROVE  LedgerInv'
<1> DEFINE p == pass["cycle"]
<1>0. /\ p \in Pass /\ pass \in [Reconcilers -> Pass] /\ "cycle" \in Reconcilers
      /\ "flush" \in Reconcilers
  BY DEF TypeInv, TypeOK, Reconcilers
<1>1. ASSUME UNCHANGED <<clob, seen, rows, credited, eng, api>>,
             pass'["flush"] = pass["flush"], p.todo # {},
             PassBooks'
      PROVE  LedgerInv'
  BY <1>1 DEF LedgerInv, RowBooks, NoOverCredit, Counts, BookedUp, InHand, Unused, Tracked,
     CopyBooks
<1>2. ASSUME NEW o \in Orders, AskStatus("cycle", o) PROVE LedgerInv'
  <2>1. /\ o \in p.todo /\ p.cur = None
        /\ UNCHANGED <<clob, seen, rows, credited, eng, api>>
        /\ pass'["flush"] = pass["flush"]
        /\ pass'["cycle"].todo = p.todo \ {o} /\ pass'["cycle"].cur = o
        /\ pass'["cycle"].stage = "apply" /\ pass'["cycle"].snap = p.snap
        /\ pass'["cycle"].matched = clob[o].matched /\ pass'["cycle"].final = Final(o)
    BY <1>0, <1>2 DEF AskStatus, Pass
  <2>2. \A x \in p.todo : Snapped(x)'
    BY <2>1 DEF LedgerInv, PassBooks, Snapped, Tracked
  <2>3. Answered'
    <3>1. o \in Tracked
      BY <2>1 DEF LedgerInv, PassBooks, Snapped
    <3>2. rows[o].filled <= clob[o].matched /\ clob[o].matched <= clob[o].matched
      BY <3>1, Amounts DEF LedgerInv, RowBooks, Counts
    <3>3. QED BY <2>1, <3>2 DEF Answered, Final
  <2>4. eng.pc = "pending"
    BY <2>1 DEF LedgerInv, PassBooks, PassIdle
  <2>5. PassBooks'
    BY <2>1, <2>2, <2>3, <2>4 DEF LedgerInv, PassBooks, PassIdle
  <2>6. QED BY <1>1, <2>1, <2>5
<1>3. ASSUME NEW o \in Orders, StatusDown("cycle", o) PROVE LedgerInv'
  <2>1. /\ o \in p.todo /\ p.cur = None
        /\ UNCHANGED <<clob, seen, rows, credited, eng, api>>
        /\ pass'["flush"] = pass["flush"]
        /\ pass'["cycle"].todo = p.todo \ {o} /\ pass'["cycle"].cur = None
        /\ pass'["cycle"].stage = p.stage
        /\ \A x \in Orders \ {o} : pass'["cycle"].snap[x] = p.snap[x]
    BY <1>0, <1>3 DEF StatusDown, Pass
  <2>2. \A x \in p.todo \ {o} : x # None /\ Snapped(x)'
    BY <2>1, Amounts, InBounds DEF LedgerInv, PassBooks, Snapped, Tracked
  <2>3. eng.pc = "pending"
    BY <2>1 DEF LedgerInv, PassBooks, PassIdle
  <2>4. PassBooks'
    BY <2>1, <2>2, <2>3 DEF LedgerInv, PassBooks, PassIdle
  <2>5. QED BY <1>1, <2>1, <2>4
<1>4. QED BY <1>2, <1>3, LedgerApply DEF Reconcile

\* A step in which nothing is booked and no order or row changes, and the
\* cycle is not in the middle of its pass.
LEMMA LedgerStill ==
  ASSUME LedgerInv, UNCHANGED <<clob, rows, credited, api>>,
         pass' = pass, eng.pc # "pending" \/ PassIdle("cycle"),
         \A o \in Orders : InHand(o) => InHand(o)', CopyBooks'
  PROVE  LedgerInv'
<1>1. RowBooks'
  BY DEF LedgerInv, RowBooks, NoOverCredit, Counts, BookedUp, Unused, Tracked
<1>2. PassBooks'
  BY DEF LedgerInv, PassBooks, PassIdle, Snapped, Answered, Tracked
<1>3. QED BY <1>1, <1>2 DEF LedgerInv

LEMMA LedgerAdoption ==
  ASSUME TypeInv, OwnInv, LedgerInv, Faults \subseteq CalmFaults,
         StartCycle \/ GateCloses \/ Adoption
  PROVE  LedgerInv'
<1>0. /\ pass \in [Reconcilers -> Pass] /\ "cycle" \in Reconcilers
      /\ "flush" \in Reconcilers /\ eng.list \subseteq Orders
      /\ eng.pc = "adopted" => eng.order \in Orders
  BY Amounts DEF TypeInv, TypeOK, Reconcilers
<1>1. \A o \in Orders : eng.pc \notin {"poll", "record"} => ~InHand(o)
  BY DEF InHand
<1>2. CASE StartCycle
  <2>1. /\ pass'["cycle"].todo = Tracked /\ pass'["cycle"].cur = None
        /\ pass'["cycle"].snap = rows /\ pass'["cycle"].stage = "ask"
        /\ pass'["flush"] = pass["flush"]
        /\ UNCHANGED <<clob, rows, credited, api>>
    BY <1>0, <1>2 DEF StartCycle, StartedPass, IdlePass
  <2>2. /\ eng.pc = "idle" /\ eng'.pc = "pending" /\ eng'.list = eng.list
        /\ eng'.order = eng.order
    BY <1>2, AdoptionShape DEF StartCycle, SameHands
  <2>3. RowBooks'
    BY <2>1, <2>2 DEF LedgerInv, RowBooks, NoOverCredit, Counts, BookedUp, InHand, Unused,
       Tracked
  <2>4. PassBooks'
    BY <2>1, <2>2, InBounds DEF LedgerInv, RowBooks, PassBooks, PassIdle, Snapped, Tracked
  <2>5. CopyBooks'
    BY <2>2 DEF LedgerInv, CopyBooks
  <2>6. QED BY <2>1, <2>3, <2>4, <2>5 DEF LedgerInv
<1>3. CASE GateCloses
  <2>1. /\ eng.pc = "pending" /\ PassIdle("cycle") /\ pass' = pass
        /\ UNCHANGED <<clob, rows, credited, api>>
    BY <1>3 DEF GateCloses, PendingDone
  <2>2. CopyBooks'
    BY <1>3, AdoptionShape DEF CopyBooks, EmptyHands
  <2>3. QED BY <1>1, <2>1, <2>2, LedgerStill
<1>4. CASE ListOpen \/ ListDown \/ DropTracked
  <2>1. /\ eng.pc = "listed" \/ (eng.pc = "pending" /\ PassIdle("cycle"))
        /\ pass' = pass /\ UNCHANGED <<clob, rows, credited, api>>
    BY <1>4 DEF ListOpen, ListDown, DropTracked, PendingDone
  <2>2. /\ eng'.pc = "listed" \/ (eng'.pc = "adopting" /\ eng'.list \cap Tracked = {})
        /\ eng'.order = eng.order
    BY <1>4, AdoptionShape DEF SameHands
  <2>3. CopyBooks'
    BY <2>1, <2>2 DEF LedgerInv, CopyBooks, Tracked
  <2>4. QED BY <1>1, <2>1, <2>3, LedgerStill
<1>5. CASE AskOrphan
  <2>1. /\ eng.pc = "adopting" /\ pass' = pass
        /\ UNCHANGED <<clob, rows, credited, api>>
    BY <1>5 DEF AskOrphan
  <2>2. /\ eng'.pc = "adopted" /\ eng'.order \in eng.list
        /\ eng'.list = eng.list \ {eng'.order} /\ eng'.filled = clob[eng'.order].matched
    BY <1>5, AdoptionShape DEF CalmFaults
  <2>3. eng'.order \in Orders \ (Unused \cup Tracked)
    BY <1>0, <2>1, <2>2 DEF OwnInv, HandsOwn, LedgerInv, CopyBooks
  <2>4. BookedUp(eng'.order)
    BY <1>1, <2>1, <2>3 DEF LedgerInv, RowBooks
  <2>5. Counts(eng.order, eng.filled)'
    BY <2>1, <2>2, <2>3, <2>4, InBounds DEF LedgerInv, RowBooks, NoOverCredit, BookedUp,
       Counts
  <2>6. CopyBooks'
    BY <2>1, <2>2, <2>3, <2>5 DEF LedgerInv, CopyBooks, Tracked
  <2>7. QED BY <1>1, <2>1, <2>6, LedgerStill
<1>6. CASE SaveOrphan
  <2> DEFINE o == eng.order
  <2>1. /\ eng.pc = "adopted" /\ pass' = pass /\ UNCHANGED <<clob, credited, api>>
        /\ Upsert(o, eng.filled, Recovered)
    BY <1>6 DEF SaveOrphan
  <2>2. eng'.pc = "adopting" /\ eng'.list = eng.list /\ eng'.order = None
    BY <1>6, AdoptionShape
  <2>3. o \in Orders \ (Unused \cup Tracked) /\ Counts(o, eng.filled)
    BY <1>0, <2>1 DEF OwnInv, HandsOwn, LedgerInv, CopyBooks
  <2>4. /\ rows'[o].tracked /\ rows'[o].filled = eng.filled /\ ~rows'[o].old
        /\ \A x \in Orders \ {o} : rows'[x] = rows[x]
    BY <2>1, <2>3 DEF Upsert, Tracked, TypeInv, TypeOK
  <2>5. RowBooks'
    BY <1>1, <2>1, <2>3, <2>4 DEF LedgerInv, RowBooks, NoOverCredit, Counts, BookedUp,
       Unused, Tracked
  <2>6. PassBooks'
    BY <2>1, <2>2 DEF LedgerInv, PassBooks, PassIdle
  <2>7. CopyBooks'
    <3>1. o \notin eng.list
      BY <2>1 DEF LedgerInv, CopyBooks
    <3>2. Tracked' \subseteq Tracked \cup {o}
      BY <2>3, <2>4 DEF Tracked
    <3>3. QED BY <2>1, <2>2, <3>1, <3>2 DEF LedgerInv, CopyBooks
  <2>8. QED BY <2>1, <2>5, <2>6, <2>7 DEF LedgerInv
<1>7. QED BY <1>2, <1>3, <1>4, <1>5, <1>6 DEF Adoption

\* No search finds an order: none like it is open and of the same trade.
LEMMA NothingToRecover ==
  ASSUME TypeInv, OwnInv, CopiesInv, ShapesDiffer
  PROVE  /\ eng.pc \in {"retry", "recover"} => {o \in Open : LooksLikeOurs(o)} = {}
         /\ eng.pc \in {"retryMatch", "recoverMatch"} => eng.list = {}
<1>1. eng.list \subseteq Orders
  BY Amounts
<1>2. ASSUME NEW o \in Open, LooksLikeOurs(o), eng.pc \in {"retry", "recover"}
      PROVE  FALSE
  <2>1. o \in Orders /\ clob[o].trade \in Trades \cup {None} /\ eng.trade \in Trades
    BY <1>2 DEF Open, TypeInv, TypeOK, ClobOrder, ControlInv
  <2>2. clob[o].trade = eng.trade
    BY <1>2, <2>1 DEF LooksLikeOurs, ShapesDiffer
  <2>3. QED BY <1>2, <2>1, <2>2 DEF CopiesInv, Placing
<1>3. eng.pc \in {"retryMatch", "recoverMatch"} => eng.list = {}
  BY <1>1 DEF OwnInv, HandsOwn, CopiesInv, Placing
<1>4. QED BY <1>2, <1>3

LEMMA LedgerSubmitted ==
  ASSUME TypeInv, OwnInv, LedgerInv, Submitted
  PROVE  LedgerInv'
<1>1. PICK o \in Unused, m \in Levels :
        /\ eng'.pc = "poll" /\ eng'.order = o /\ Accept(o, m, eng.trade)
        /\ eng'.list = eng.list
  BY SubmitShape
<1>2. /\ eng.pc = "submit" /\ UNCHANGED <<rows, credited, pass, api>>
  BY DEF Submitted
<1>3. /\ o \in Orders /\ m \in Nat /\ clob'[o].st # "unused" /\ clob'[o].matched = m
      /\ \A x \in Orders \ {o} : clob'[x] = clob[x]
  BY <1>1, LevelsAreNat DEF Unused, Accept, TypeInv, TypeOK
<1>4. credited[o] = 0 /\ o \notin Tracked
  BY <1>1 DEF LedgerInv, RowBooks, OwnInv, Tracked
<1>5. \A x \in Orders : ~InHand(x)
  BY <1>2 DEF InHand
<1>6. RowBooks'
  <2>1. Unused' = Unused \ {o} /\ Tracked' = Tracked
    BY <1>1, <1>2, <1>3 DEF Unused, Tracked
  <2>2. \A x \in Unused' : clob'[x].matched = 0 /\ credited[x] = 0
    BY <1>3, <2>1 DEF LedgerInv, RowBooks, Unused
  <2>3. \A x \in Orders : credited[x] <= clob'[x].matched
    BY <1>3, <1>4 DEF LedgerInv, RowBooks, NoOverCredit
  <2>4. \A x \in Tracked : Counts(x, rows[x].filled)' /\ ~rows[x].old
    BY <1>2, <1>3, <1>4 DEF LedgerInv, RowBooks, Counts, NearlyFull, Tracked
  <2>5. \A x \in Orders \ (Unused \cup Tracked) : BookedUp(x)'
    BY <1>1, <1>2, <1>3, <1>5 DEF LedgerInv, RowBooks, BookedUp
  <2>6. InHand(o)'
    BY <1>1 DEF InHand
  <2>7. QED BY <1>2, <2>1, <2>2, <2>3, <2>4, <2>5, <2>6 DEF RowBooks, NoOverCredit
<1>7. PassBooks'
  <2>1. PassIdle("cycle") /\ PassIdle("flush")
    BY <1>2 DEF LedgerInv, PassBooks
  <2>2. QED BY <1>2, <2>1 DEF LedgerInv, PassBooks, PassIdle
<1>8. CopyBooks'
  BY <1>1, <1>2, <1>4 DEF LedgerInv, CopyBooks, Tracked
<1>9. QED BY <1>2, <1>6, <1>7, <1>8 DEF LedgerInv

LEMMA LedgerPoll ==
  ASSUME TypeInv, OwnInv, LedgerInv, PollFill
  PROVE  LedgerInv'
<1> DEFINE o == eng.order
<1>1. /\ eng.pc = "poll" /\ pass' = pass /\ UNCHANGED <<clob, rows, credited, api>>
      /\ eng'.pc = "record" /\ eng'.list = eng.list /\ eng'.order = o
      /\ \/ eng'.filled = clob[o].matched /\ eng'.rest = Size - eng'.filled
         \/ eng'.filled = 0 /\ clob[o].matched = 0 /\ clob[o].st = "closed"
         \/ eng'.filled = 0 /\ eng'.rest = Size
  BY SubmitShape DEF PollFill
<1>2. o \in Orders /\ clob[o].matched \in 0..Size /\ Size \in Nat \ {0}
  BY <1>1, InBounds, Amounts, ConstantsOK
<1>3. /\ eng'.filled <= clob[o].matched
      /\ eng'.rest = 0 => \/ NearlyFull(eng'.filled)
                          \/ clob[o].st = "closed" /\ eng'.filled = clob[o].matched
  BY <1>1, <1>2 DEF NearlyFull
<1>4. CopyBooks'
  BY <1>1, <1>3 DEF LedgerInv, CopyBooks, NearlyFull, Tracked
<1>5. QED BY <1>1, <1>4, LedgerStill DEF InHand

LEMMA LedgerRecord ==
  ASSUME TypeInv, OwnInv, LedgerInv, Record
  PROVE  LedgerInv'
<1> DEFINE o == eng.order
<1>1. /\ eng.pc = "record" /\ UNCHANGED <<clob, pass, api>>
      /\ eng'.pc = "trades" /\ eng'.list = eng.list /\ eng'.order = None
  BY MatchShape DEF Record
<1>2. /\ o \in Orders /\ o \notin Unused /\ o \notin Tracked /\ credited[o] = 0
      /\ eng.filled <= clob[o].matched /\ eng.filled \in Nat
      /\ eng.rest = 0 => \/ NearlyFull(eng.filled)
                         \/ clob[o].st = "closed" /\ eng.filled = clob[o].matched
  BY <1>1, Amounts DEF OwnInv, HandsOwn, LedgerInv, CopyBooks
<1>3. /\ credited'[o] = eng.filled
      /\ \A x \in Orders \ {o} : credited'[x] = credited[x]
  BY <1>2 DEF Record, TypeInv, TypeOK
<1>4. /\ \A x \in Orders \ {o} : rows'[x] = rows[x]
      /\ \/ eng.rest = 0 /\ rows' = rows
         \/ rows'[o].tracked /\ rows'[o].filled = eng.filled /\ ~rows'[o].old
  <2>1. eng.rest \in Nat
    BY ConstantsOK DEF TypeInv, TypeOK, CopyCycle
  <2>2. CASE eng.rest > 0
    BY <1>2, <2>2 DEF Record, Upsert, Tracked, TypeInv, TypeOK
  <2>3. CASE ~(eng.rest > 0)
    BY <2>1, <2>3 DEF Record
  <2>4. QED BY <2>2, <2>3
<1>5. \A x \in Orders \ {o} : ~InHand(x)
  BY DEF InHand
<1>6. RowBooks'
  <2>1. \A x \in Unused : clob[x].matched = 0 /\ credited'[x] = 0
    BY <1>2, <1>3 DEF LedgerInv, RowBooks, Unused
  <2>2. \A x \in Orders : credited'[x] <= clob[x].matched
    BY <1>2, <1>3 DEF LedgerInv, RowBooks, NoOverCredit
  <2>3. ASSUME NEW x \in Tracked' PROVE Counts(x, rows[x].filled)' /\ ~rows'[x].old
    <3>1. CASE x # o
      BY <1>1, <1>3, <1>4, <3>1 DEF LedgerInv, RowBooks, Counts, Tracked
    <3>2. CASE x = o
      <4>1. rows'[o].filled = eng.filled /\ ~rows'[o].old
        BY <1>2, <1>4, <2>3, <3>2 DEF Tracked
      <4>2. QED BY <1>1, <1>2, <1>3, <3>2, <4>1 DEF Counts
    <3>3. QED BY <3>1, <3>2
  <2>4. ASSUME NEW x \in Orders, x \notin Unused, x \notin Tracked' PROVE BookedUp(x)'
    <3>1. CASE x # o
      BY <1>1, <1>3, <1>4, <1>5, <2>4, <3>1 DEF LedgerInv, RowBooks, BookedUp, Tracked
    <3>2. CASE x = o
      <4>1. eng.rest = 0
        BY <1>2, <1>4, <2>4, <3>2 DEF Tracked
      <4>2. QED BY <1>1, <1>2, <1>3, <3>2, <4>1 DEF BookedUp
    <3>3. QED BY <3>1, <3>2
  <2>5. QED BY <1>1, <2>1, <2>2, <2>3, <2>4 DEF RowBooks, NoOverCredit, Unused
<1>7. PassBooks'
  BY <1>1 DEF LedgerInv, PassBooks, PassIdle
<1>8. CopyBooks'
  BY <1>1 DEF LedgerInv, CopyBooks
<1>9. QED BY <1>1, <1>6, <1>7, <1>8 DEF LedgerInv

LEMMA LedgerCopying ==
  ASSUME TypeInv, OwnInv, CopiesInv, LedgerInv, ShapesDiffer, Copying,
         Faults \subseteq CalmFaults
  PROVE  LedgerInv'
<1>1. CASE Poll \/ EndCycle \/ \E t \in Trades : SkipTrade(t) \/ BeginTrade(t)
  <2>1. /\ eng.pc \in {"adopting", "trades"} /\ pass' = pass
        /\ UNCHANGED <<clob, rows, credited, api>> /\ (Poll => eng.list = {})
    BY <1>1 DEF Poll, EndCycle, SkipTrade, BeginTrade
  <2>2. /\ eng'.pc \in {"idle", "trades", "submit"}
        /\ \/ EmptyHands(eng')
           \/ eng'.list = eng.list /\ eng'.order = eng.order
    BY <1>1, AdoptionShape, QueueShape DEF SameHands
  <2>3. eng.list = {} /\ eng.order = None
    BY <1>1, <2>1 DEF LedgerInv, CopyBooks, EndCycle, SkipTrade, BeginTrade
  <2>4. CopyBooks'
    BY <2>2, <2>3 DEF CopyBooks, EmptyHands
  <2>5. QED BY <2>1, <2>4, LedgerStill DEF InHand
<1>2. CASE SubmitRejected
  <2>1. /\ eng.pc = "submit" /\ pass' = pass /\ UNCHANGED <<clob, rows, credited, api>>
    BY <1>2 DEF SubmitRejected
  <2>2. eng'.pc = "recover" /\ eng'.list = eng.list /\ eng'.order = eng.order
    BY <1>2, SubmitShape DEF SameHands, CalmFaults
  <2>3. CopyBooks'
    BY <2>1, <2>2 DEF LedgerInv, CopyBooks
  <2>4. QED BY <2>1, <2>3, LedgerStill DEF InHand
<1>3. CASE SearchOpen
  <2>1. /\ eng.pc = "recover" /\ pass' = pass /\ UNCHANGED <<clob, rows, credited, api>>
    BY <1>3 DEF SearchOpen, LedgerInv, CopyBooks
  <2>2. eng'.pc = "recoverMatch" /\ eng'.list = {} /\ eng'.order = eng.order
    BY <1>3, <2>1, MatchShape, NothingToRecover DEF SameHands
  <2>3. CopyBooks'
    BY <2>1, <2>2 DEF LedgerInv, CopyBooks
  <2>4. QED BY <2>1, <2>3, LedgerStill DEF InHand
<1>4. ~MatchFound /\ ~MatchMissed
  BY NothingToRecover DEF MatchFound, MatchMissed, Matching
<1>5. CASE SearchFailed
  <2>1. /\ eng.pc = "recoverMatch" /\ pass' = pass
        /\ UNCHANGED <<clob, rows, credited, api>>
    BY <1>5 DEF SearchFailed, Matching, LedgerInv, CopyBooks
  <2>2. eng'.pc = "trades" /\ eng'.list = eng.list /\ eng'.order = eng.order
    BY <1>5, <2>1, MatchShape
  <2>3. CopyBooks'
    BY <2>1, <2>2 DEF LedgerInv, CopyBooks
  <2>4. QED BY <2>1, <2>3, LedgerStill DEF InHand
<1>6. QED BY <1>1, <1>2, <1>3, <1>4, <1>5, LedgerSubmitted, LedgerPoll, LedgerRecord, CalmSteps
       DEF Copying

\* The invariants of this module together.
BooksInv == TypeInv /\ OwnInv /\ CopiesInv /\ LedgerInv

LEMMA BooksInit == Init => BooksInv
<1> SUFFICES ASSUME Init PROVE BooksInv
  OBVIOUS
<1>1. /\ \A o \in Orders : clob[o].matched = 0 /\ credited[o] = 0 /\ ~rows[o].tracked
      /\ Unused = Orders /\ Tracked = {}
  BY DEF Init, NoRow, Unused, Tracked
<1>2. RowBooks
  BY <1>1 DEF RowBooks, NoOverCredit
<1>3. /\ eng.pc = "idle" /\ eng.list = {} /\ eng.order = None
      /\ PassIdle("cycle") /\ PassIdle("flush") /\ pass["cycle"].stage = "ask"
  BY DEF Init, IdleCycle, IdlePass, PassIdle, Reconcilers
<1>4. PassBooks /\ CopyBooks
  BY <1>3 DEF PassBooks, CopyBooks, PassIdle
<1>5. QED BY <1>2, <1>4, TypeInit, OwnInit, CopiesInit DEF Init, BooksInv, LedgerInv

LEMMA BooksStep ==
  ASSUME BooksInv, ShapesDiffer, Faults \subseteq CalmFaults, [Next]_vars
  PROVE  BooksInv'
<1>1. Faults \cap {"lost", "noId", "crash"} = {}
  BY DEF CalmFaults
<1>2. TypeInv' /\ OwnInv' /\ CopiesInv'
  <2>1. ~SubmitLost /\ ~SubmitNoId /\ ~Crash
    BY <1>1 DEF SubmitLost, SubmitNoId, Crash
  <2>2. QED BY <2>1, TypeStep, OwnStep, CopiesOtherwise, CopiesSubmitted DEF BooksInv
<1>3. LedgerInv'
  <2> USE DEF BooksInv
  <2>1. CASE Cycle
    BY <2>1, LedgerAdoption, LedgerCopying DEF Cycle
  <2>2. ASSUME NEW r \in Reconcilers, Reconcile(r) PROVE LedgerInv'
    <3>1. r = "cycle"
      BY <2>2, CalmSteps DEF Reconcilers
    <3>2. QED BY <2>2, <3>1, LedgerReconcile, CalmSteps
  <2>3. CASE Exchange
    BY <2>3, LedgerExchange, CalmSteps DEF Exchange
  <2>4. CASE UNCHANGED vars
    BY <2>4 DEF vars, LedgerInv, RowBooks, NoOverCredit, Counts, BookedUp, InHand, Unused,
       Tracked, PassBooks, PassIdle, Snapped, Answered, CopyBooks
  <2>5. QED BY <2>1, <2>2, <2>3, <2>4, CalmSteps DEF Next, Alive
<1>4. QED BY <1>2, <1>3 DEF BooksInv

\* An order that is neither unused, tracked nor in hand is booked up.
LEMMA SettledIsBooked == BooksInv => FillsBooked
<1> SUFFICES ASSUME BooksInv, NEW o \in Orders, Settled(o)
             PROVE  100 * (clob[o].matched - credited[o]) <= Size
  BY DEF FillsBooked
<1>1. o \notin Unused /\ o \notin Tracked /\ ~InHand(o)
  BY DEF Settled, InHand, Unused
<1>2. BookedUp(o)
  BY <1>1 DEF BooksInv, LedgerInv, RowBooks
<1>3. clob[o].matched \in 0..Size /\ credited[o] \in Nat /\ Size \in Nat
  BY InBounds DEF BooksInv
<1>4. QED BY <1>2, <1>3 DEF BookedUp, NearlyFull

\* When an order is settled all it matched is booked, but for the hundredth
\* under which the code calls an order full, as long as the exchange answers
\* every submission, the process stays up and nobody cancels or flushes:
\* failed status checks and lists, rejections and expiries lose nothing.
THEOREM SettledOrdersAreBooked ==
  ASSUME ShapesDiffer, Faults \subseteq CalmFaults
  PROVE  Spec => []FillsBooked
<1>1. BooksInv /\ [Next]_vars => BooksInv'
  BY BooksStep
<1>2. QED BY BooksInit, <1>1, SettledIsBooked, PTL DEF Spec

-----------------------------------------------------------------------------
(* The engine implements the ledger                                        *)

\* Nobody looks at o again: the passes only hold orders that have a row.
LetGo(o) ==
  clob[o].st = "closed" /\ o \notin Tracked /\ eng.order # o /\ o \notin eng.list

SettledOrders == {o \in Orders : Settled(o)}
LetGoOrders == {o \in Orders : LetGo(o)}

LEMMA SettledIsLetGo == TypeInv /\ LedgerInv => SettledOrders = LetGoOrders
<1> SUFFICES ASSUME TypeInv, LedgerInv, NEW o \in Orders PROVE Settled(o) <=> LetGo(o)
  BY DEF SettledOrders, LetGoOrders
<1>1. pass["cycle"].todo \subseteq Tracked /\ pass["cycle"].cur \in Tracked \cup {None}
  BY DEF LedgerInv, PassBooks, Snapped
<1>2. pass["flush"].todo = {} /\ pass["flush"].cur = None
  BY DEF LedgerInv, PassBooks, PassIdle
<1>3. o # None
  BY InBounds
<1>4. QED BY <1>1, <1>2, <1>3 DEF Settled, LetGo, Reconcilers

\* The ledger does not see what this step does to o.
Unseen(o) ==
  /\ clob'[o].matched = clob[o].matched /\ credited'[o] = credited[o]
  /\ LetGo(o)' <=> LetGo(o)

\* The ledger sees o advance, which was not let go.
Seen(o) ==
  /\ ~LetGo(o)
  /\ clob[o].matched <= clob'[o].matched /\ credited[o] <= credited'[o]

\* The step advances one order, or none.
OneOrder ==
  \/ \A o \in Orders : Unseen(o)
  \/ \E o \in Orders : Seen(o) /\ \A x \in Orders \ {o} : Unseen(x)

LEMMA OneOrderExchange ==
  ASSUME BooksInv, NEW o \in Orders, Fill(o) \/ Expire(o)
  PROVE  OneOrder
<1>1. /\ clob \in [Orders -> ClobOrder] /\ clob[o].st = "open"
      /\ UNCHANGED <<rows, credited, eng>> /\ clob[o].matched <= clob[o].matched
      /\ credited[o] <= credited[o] /\ clob[o].matched \in Nat
  BY Amounts DEF BooksInv, TypeInv, TypeOK, Fill, Expire, Open
<1>2. /\ \A x \in Orders \ {o} : clob'[x] = clob[x]
      /\ clob[o].matched <= clob'[o].matched
  <2>1. CASE Fill(o)
    <3>1. PICK m \in Levels :
            /\ m > clob[o].matched
            /\ clob' = [clob EXCEPT ![o].matched = m,
                                    ![o].st = IF m = Size THEN "closed" ELSE "open"]
      BY <2>1 DEF Fill
    <3>2. clob[o].matched <= m
      BY <1>1, <3>1, LevelsAreNat
    <3>3. QED BY <1>1, <3>1, <3>2 DEF ClobOrder
  <2>2. CASE Expire(o)
    <3>1. clob' = [clob EXCEPT ![o].st = "closed"]
      BY <2>2 DEF Expire
    <3>2. QED BY <1>1, <3>1 DEF ClobOrder
  <2>3. QED BY <2>1, <2>2
<1>3. Seen(o)
  BY <1>1, <1>2 DEF Seen, LetGo
<1>4. \A x \in Orders \ {o} : Unseen(x)
  BY <1>1, <1>2 DEF Unseen, LetGo, Tracked
<1>5. QED BY <1>3, <1>4 DEF OneOrder

LEMMA OneOrderReconcile ==
  ASSUME BooksInv, Reconcile("cycle"), ~CancelStale("cycle")
  PROVE  OneOrder
<1> USE DEF BooksInv
<1>1. ASSUME NEW o \in Orders, AskStatus("cycle", o) \/ StatusDown("cycle", o)
      PROVE  OneOrder
  BY <1>1 DEF AskStatus, StatusDown, OneOrder, Unseen, LetGo, Tracked
<1>2. CASE ApplyStatus("cycle")
  <2> DEFINE p == pass["cycle"]
             o == p.cur
  <2>1. p.cur # None /\ p.final \in BOOLEAN /\ Commit("cycle", p.final)
    <3>1. p \in Pass /\ "cycle" \in Reconcilers
      BY DEF TypeInv, TypeOK, Reconcilers
    <3>2. p.stage # "ask" => p.cur # None
      BY <3>1 DEF TypeInv, ControlInv
    <3>3. p.stage \in {"ask", "apply"}
      BY DEF LedgerInv, PassBooks
    <3>4. QED BY <1>2, <3>1, <3>2, <3>3 DEF ApplyStatus, Pass
  <2>2. /\ o \in Orders /\ o \in Tracked /\ UNCHANGED <<clob, eng>>
        /\ credited'[o] = credited[o] + (p.matched - rows[o].filled)
        /\ \A x \in Orders \ {o} : credited'[x] = credited[x] /\ rows'[x] = rows[x]
    BY <2>1, Booking
  <2>3. rows[o].filled <= p.matched
    BY <2>1 DEF LedgerInv, PassBooks, Answered
  <2>4. Seen(o)
    BY <2>2, <2>3, Amounts DEF Seen, LetGo
  <2>5. \A x \in Orders \ {o} : Unseen(x)
    BY <2>2 DEF Unseen, LetGo, Tracked
  <2>6. QED BY <2>2, <2>4, <2>5 DEF OneOrder
<1>3. QED BY <1>1, <1>2 DEF Reconcile

LEMMA OneOrderCycle ==
  ASSUME BooksInv, ShapesDiffer, Faults \subseteq CalmFaults, Cycle
  PROVE  OneOrder
<1> USE DEF BooksInv
<1>0. /\ eng.list \subseteq Orders
      /\ eng.pc \in {"adopted", "poll", "record"} => eng.order \in Orders
      /\ None \notin Orders
  BY Amounts, InBounds
<1>1. ASSUME UNCHANGED <<clob, rows, credited>>,
             \A o \in Orders : clob[o].st = "closed" /\ o \notin Tracked =>
               (eng'.order = o \/ o \in eng'.list <=> eng.order = o \/ o \in eng.list)
      PROVE  OneOrder
  BY <1>1 DEF OneOrder, Unseen, LetGo, Tracked
<1>2. CASE StartCycle \/ GateCloses \/ ListOpen \/ ListDown \/ DropTracked
  <2>1. UNCHANGED <<clob, rows, credited>>
    BY <1>2 DEF StartCycle, GateCloses, ListOpen, ListDown, DropTracked
  <2>2. eng.order = None /\ (eng.list = {} \/ DropTracked)
    BY <1>2 DEF StartCycle, GateCloses, ListOpen, ListDown, DropTracked, PendingDone,
       LedgerInv, CopyBooks
  <2>3. eng'.order = None
    BY <1>2, <2>2, AdoptionShape DEF SameHands, EmptyHands
  <2>4. \/ eng'.list \subseteq Open /\ eng.list = {}
        \/ eng'.list = eng.list \ Tracked
    BY <1>2, <2>2, AdoptionShape DEF EmptyHands
  <2>5. QED BY <1>0, <1>1, <2>1, <2>2, <2>3, <2>4 DEF Open
<1>3. CASE AskOrphan
  <2>1. UNCHANGED <<clob, rows, credited>> /\ eng.order = None
    BY <1>3 DEF AskOrphan, LedgerInv, CopyBooks
  <2>2. eng'.order \in eng.list /\ eng'.list = eng.list \ {eng'.order}
    BY <1>3, AdoptionShape
  <2>3. QED BY <1>0, <1>1, <2>1, <2>2
<1>4. CASE SaveOrphan
  <2> DEFINE o == eng.order
  <2>1. /\ eng.pc = "adopted" /\ UNCHANGED <<clob, credited>>
        /\ Upsert(o, eng.filled, Recovered)
        /\ eng'.list = eng.list /\ eng'.order = None
    BY <1>4, AdoptionShape DEF SaveOrphan
  <2>2. o \in Orders /\ rows'[o].tracked /\ \A x \in Orders \ {o} : rows'[x] = rows[x]
    BY <1>0, <2>1, UpsertedRow DEF TypeInv
  <2>3. \A x \in Orders : Unseen(x)
    BY <1>0, <2>1, <2>2 DEF Unseen, LetGo, Tracked
  <2>4. QED BY <2>3 DEF OneOrder
<1>5. CASE Poll \/ EndCycle \/ SubmitRejected \/ SearchOpen \/ SearchFailed
           \/ \E t \in Trades : SkipTrade(t) \/ BeginTrade(t)
  <2>1. UNCHANGED <<clob, rows, credited>> /\ eng.order = None /\ eng.list = {}
    <3>1. UNCHANGED <<clob, rows, credited>>
      BY <1>5 DEF Poll, EndCycle, SubmitRejected, SearchOpen, SearchFailed, SkipTrade,
         BeginTrade
    <3>2. /\ eng.pc \in {"adopting", "trades", "submit", "retry", "recover", "retryMatch",
                         "recoverMatch"}
          /\ eng.pc = "adopting" => eng.list = {}
      BY <1>5 DEF Poll, EndCycle, SubmitRejected, SearchOpen, SearchFailed, Matching,
         SkipTrade, BeginTrade
    <3>3. QED BY <3>1, <3>2 DEF LedgerInv, CopyBooks
  <2>2. eng'.order = None /\ eng'.list = {}
    <3>1. CASE SearchOpen
      BY <2>1, <3>1, MatchShape, NothingToRecover DEF SearchOpen, SameHands
    <3>2. CASE ~SearchOpen
      BY <1>5, <2>1, <3>2, AdoptionShape, QueueShape, SubmitShape, MatchShape
         DEF SameHands, EmptyHands
    <3>3. QED BY <3>1, <3>2
  <2>3. QED BY <1>0, <1>1, <2>1, <2>2
<1>6. CASE Submitted
  <2>1. PICK o \in Unused, m \in Levels :
          /\ eng'.order = o /\ Accept(o, m, eng.trade) /\ eng'.list = eng.list
    BY <1>6, SubmitShape
  <2>2. /\ o \in Orders /\ m \in Nat /\ clob'[o].matched = m
        /\ \A x \in Orders \ {o} : clob'[x] = clob[x]
    BY <2>1, LevelsAreNat DEF Unused, Accept, TypeInv, TypeOK
  <2>3. /\ clob[o].st = "unused" /\ clob[o].matched = 0 /\ eng.order = None
        /\ UNCHANGED <<rows, credited>> /\ credited[o] = 0
    BY <1>6 DEF Submitted, LedgerInv, RowBooks, CopyBooks, Unused
  <2>4. Seen(o)
    BY <2>2, <2>3 DEF Seen, LetGo
  <2>5. \A x \in Orders \ {o} : Unseen(x)
    BY <1>0, <2>1, <2>2, <2>3 DEF Unseen, LetGo, Tracked
  <2>6. QED BY <2>2, <2>4, <2>5 DEF OneOrder
<1>7. CASE PollFill
  <2>1. UNCHANGED <<clob, rows, credited>> /\ eng'.list = eng.list /\ eng'.order = eng.order
    BY <1>7, SubmitShape DEF PollFill
  <2>2. QED BY <1>1, <2>1
<1>8. CASE Record
  <2> DEFINE o == eng.order
  <2>1. /\ eng.pc = "record" /\ UNCHANGED clob
        /\ eng'.list = eng.list /\ eng'.order = None
    BY <1>8, MatchShape DEF Record
  <2>2. /\ o \in Orders /\ credited[o] = 0 /\ eng.filled \in Nat
    BY <1>0, <2>1, Amounts DEF LedgerInv, CopyBooks
  <2>3. /\ credited'[o] = eng.filled
        /\ \A x \in Orders \ {o} : credited'[x] = credited[x] /\ rows'[x] = rows[x]
    <3>1. credited' = [credited EXCEPT ![o] = @ + eng.filled]
      BY <1>8 DEF Record
    <3>2. Upsert(o, eng.filled, eng.trade) \/ rows' = rows
      BY <1>8 DEF Record
    <3>3. \A x \in Orders \ {o} : rows'[x] = rows[x]
      BY <2>2, <3>2, UpsertedRow DEF TypeInv
    <3>4. QED BY <2>2, <3>1, <3>3 DEF TypeInv, TypeOK
  <2>4. Seen(o)
    BY <2>1, <2>2, <2>3, InBounds DEF Seen, LetGo
  <2>5. \A x \in Orders \ {o} : Unseen(x)
    BY <1>0, <2>1, <2>3 DEF Unseen, LetGo, Tracked
  <2>6. QED BY <2>2, <2>4, <2>5 DEF OneOrder
<1>9. QED
  BY <1>2, <1>3, <1>4, <1>5, <1>6, <1>7, <1>8, NothingToRecover, CalmSteps
     DEF Cycle, Adoption, Copying, MatchFound, MatchMissed, Matching

LEMMA OneOrderStep ==
  ASSUME BooksInv, ShapesDiffer, Faults \subseteq CalmFaults, [Next]_vars
  PROVE  OneOrder
<1>1. CASE Cycle
  BY <1>1, OneOrderCycle
<1>2. ASSUME NEW r \in Reconcilers, Reconcile(r) PROVE OneOrder
  <2>1. r = "cycle"
    BY <1>2, CalmSteps DEF Reconcilers, BooksInv
  <2>2. QED BY <1>2, <2>1, OneOrderReconcile, CalmSteps DEF BooksInv
<1>3. CASE Exchange
  BY <1>3, OneOrderExchange, CalmSteps DEF Exchange, BooksInv
<1>4. CASE UNCHANGED vars
  BY <1>4 DEF vars, OneOrder, Unseen, LetGo, Tracked
<1>5. QED BY <1>1, <1>2, <1>3, <1>4, CalmSteps DEF Next, Alive, BooksInv

LEMMA SettledIsLetGoNext == (TypeInv /\ LedgerInv => SettledOrders = LetGoOrders)'
  BY SettledIsLetGo, PTL

LEMMA SettledIsBookedNext == BooksInv' => FillsBooked'
  BY SettledIsBooked, PTL

\* One order advances in the ledger as it advances in the engine.
LEMMA LedgerAdvances ==
  ASSUME BooksInv, BooksInv', NEW o \in Orders, Seen(o),
         \A x \in Orders \ {o} : Unseen(x)
  PROVE  Promise!Advance(o)
<1> DEFINE M == [x \in Orders |-> clob[x].matched]
           m == clob'[o].matched
           b == credited'[o]
<1>1. /\ credited \in [Orders -> Nat] /\ credited' \in [Orders -> Nat] /\ Size \in Nat \ {0}
      /\ clob[o].matched \in Nat
  BY Amounts, ConstantsOK DEF BooksInv, TypeInv, TypeOK
<1>2. /\ SettledOrders = LetGoOrders /\ SettledOrders' = LetGoOrders'
      /\ o \notin SettledOrders
  BY SettledIsLetGo, SettledIsLetGoNext DEF BooksInv, LetGoOrders, Seen
<1>3. m \in 0..Size /\ b \in 0..Size /\ b <= m
  <2>1. m \in 0..Size
    BY ConstantsOK DEF BooksInv, TypeInv, TypeOK, ClobOrder
  <2>2. b \in Nat /\ b <= m
    BY <1>1 DEF BooksInv, LedgerInv, RowBooks, NoOverCredit
  <2>3. QED BY <1>1, <2>1, <2>2
<1>4. M[o] <= m /\ M' = [M EXCEPT ![o] = m]
  BY DEF Seen, Unseen
<1>5. credited[o] <= b /\ credited' = [credited EXCEPT ![o] = b]
  BY <1>1 DEF Seen, Unseen
<1>6. \/ SettledOrders' = SettledOrders
      \/ SettledOrders' = SettledOrders \cup {o} /\ m - b <= Size \div 100
  <2>1. \A x \in Orders \ {o} : x \in LetGoOrders' <=> x \in LetGoOrders
    BY DEF Unseen, LetGoOrders
  <2>2. LetGoOrders \subseteq Orders /\ LetGoOrders' \subseteq Orders
    BY DEF LetGoOrders
  <2>3. LetGoOrders' = LetGoOrders \/ (o \in LetGoOrders' /\ LetGoOrders' = LetGoOrders \cup {o})
    BY <1>2, <2>1, <2>2
  <2>4. ASSUME o \in SettledOrders' PROVE m - b <= Size \div 100
    <3>1. 100 * (m - b) <= Size
      BY <2>4, SettledIsBookedNext DEF SettledOrders, FillsBooked
    <3>2. QED BY <1>1, <1>3, <3>1
  <2>5. QED BY <1>2, <2>3, <2>4
<1>7. QED
  BY <1>2, <1>3, <1>4, <1>5, <1>6 DEF Promise!Advance, SettledOrders

\* A step the ledger does not see.
LEMMA LedgerStutters ==
  ASSUME BooksInv, BooksInv', \A o \in Orders : Unseen(o)
  PROVE  UNCHANGED Promise!ledger
<1>1. credited \in [Orders -> Nat] /\ credited' \in [Orders -> Nat]
  BY DEF BooksInv, TypeInv, TypeOK
<1>2. SettledOrders' = SettledOrders
  BY SettledIsLetGo, SettledIsLetGoNext DEF BooksInv, LetGoOrders, Unseen
<1>3. credited' = credited
  BY <1>1 DEF Unseen
<1>4. [o \in Orders |-> clob[o].matched]' = [o \in Orders |-> clob[o].matched]
  BY DEF Unseen
<1>5. QED BY <1>2, <1>3, <1>4 DEF Promise!ledger, SettledOrders

\* The engine implements the ledger: at every step at most one order gains
\* matches or books them, books no more than matched, and is settled only when
\* the booked shares are within the slack of the matched ones.
THEOREM EngineKeepsLedger ==
  ASSUME ShapesDiffer, Faults \subseteq CalmFaults
  PROVE  Spec => FillsAreLedger
<1>1. Init => Promise!Init
  <2> SUFFICES ASSUME Init PROVE Promise!Init
    OBVIOUS
  <2>1. \A o \in Orders : clob[o].matched = 0 /\ clob[o].st = "unused"
    BY DEF Init
  <2>2. credited = [o \in Orders |-> 0]
    BY DEF Init
  <2>3. QED BY <2>1, <2>2 DEF Promise!Init, Settled
<1>2. BooksInv /\ [Next]_vars => BooksInv'
  BY BooksStep
<1>3. BooksInv /\ BooksInv' /\ [Next]_vars => [Promise!Next]_(Promise!ledger)
  <2> SUFFICES ASSUME BooksInv, BooksInv', [Next]_vars
               PROVE  [Promise!Next]_(Promise!ledger)
    OBVIOUS
  <2>1. OneOrder
    BY OneOrderStep
  <2>2. CASE \A o \in Orders : Unseen(o)
    BY <2>2, LedgerStutters
  <2>3. ASSUME NEW o \in Orders, Seen(o), \A x \in Orders \ {o} : Unseen(x)
        PROVE  Promise!Next
    BY <2>3, LedgerAdvances DEF Promise!Next
  <2>4. QED BY <2>1, <2>2, <2>3 DEF OneOrder
<1>4. QED
  BY BooksInit, <1>1, <1>2, <1>3, PTL DEF Spec, FillsAreLedger, Promise!Spec
=============================================================================
