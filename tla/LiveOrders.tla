------------------------------ MODULE LiveOrders ------------------------------
(***************************************************************************)
(* The life of live GTC orders of one account: the copy cycle submits an   *)
(* order for a leader trade, records what the CLOB accepted, and later     *)
(* cycles reconcile the pending_orders rows with the CLOB, while dashboard *)
(* requests cancel orders or flush the pending rows in the same process.   *)
(*                                                                         *)
(* A step of the engine is the code between two awaits.  An action that    *)
(* asks the CLOB takes its answer at one moment; the action that uses the  *)
(* answer runs later, and anything may happen in between.                  *)
(***************************************************************************)
EXTENDS Integers, FiniteSets

CONSTANTS
  Trades,      \* event keys of the leader trades the activity feed may return
  Orders,      \* CLOB order ids; each is given out once (a bound on orders)
  Size,        \* shares of an order
  Levels,      \* matched amounts an order may pass through (a bound on fills)
  Shape,       \* Shape[t]: token, side, price and size of the copy order of t
  RetryLimit,  \* execution.retryLimit
  Faults,      \* the events of AllFaults that may happen
  None, Recovered

AllFaults == {"statusDown", "listDown", "adoptDown", "lost", "reject", "noId",
              "stale", "expire", "apiCancel", "flush", "crash"}

ASSUME ConstantsOK ==
  /\ Size \in Nat \ {0}
  /\ Levels \subseteq 0..Size /\ {0, Size} \subseteq Levels
  /\ RetryLimit \in Nat
  /\ Faults \subseteq AllFaults
  /\ None \notin Trades \cup Orders
  /\ Recovered \notin Trades \cup {None}

VARIABLES
  clob,      \* the exchange's orders
  seen,      \* seen_trades: keys that are never copied again
  rows,      \* pending_orders
  credited,  \* credited[o]: shares of o added to positions, volume and audit
  pass,      \* processPendingOrders run by the cycle and by a flush request
  eng,       \* the running copy cycle
  api        \* a dashboard cancel request per order

vars == <<clob, seen, rows, credited, pass, eng, api>>

-----------------------------------------------------------------------------
NoRow == [tracked |-> FALSE, filled |-> 0, old |-> FALSE, trade |-> None]

Row == [tracked : BOOLEAN, filled : Levels, old : BOOLEAN,
        trade : Trades \cup {None, Recovered}]

Reconcilers == {"cycle", "flush"}

IdlePass == [todo |-> {}, snap |-> [o \in Orders |-> NoRow], stage |-> "ask",
             cur |-> None, matched |-> 0, final |-> FALSE]

IdleCycle == [pc |-> "idle", list |-> {}, queue |-> {}, trade |-> None,
              order |-> None, filled |-> 0, rest |-> 0, tries |-> 0,
              definite |-> FALSE]

ClobOrder == [st : {"unused", "open", "closed"}, matched : Levels,
              trade : Trades \cup {None}]

Pass == [todo : SUBSET Orders, snap : [Orders -> Row],
         stage : {"ask", "apply", "cancelled", "uncancelled"},
         cur : Orders \cup {None}, matched : Levels, final : BOOLEAN]

CopyCycle == [pc : {"idle", "pending", "listed", "adopting", "adopted",
                    "trades", "submit", "poll", "record", "retry", "retryMatch",
                    "recover", "recoverMatch"},
              list : SUBSET Orders, queue : SUBSET Trades,
              trade : Trades \cup {None}, order : Orders \cup {None},
              filled : Levels, rest : 0..Size, tries : 0..RetryLimit,
              definite : BOOLEAN]

TypeOK ==
  /\ clob \in [Orders -> ClobOrder]
  /\ seen \subseteq Trades
  /\ rows \in [Orders -> Row]
  /\ credited \in [Orders -> Nat]
  /\ pass \in [Reconcilers -> Pass]
  /\ eng \in CopyCycle
  /\ api \in [Orders -> {"none", "asked", "done"}]

Init ==
  /\ clob = [o \in Orders |-> [st |-> "unused", matched |-> 0, trade |-> None]]
  /\ seen = {}
  /\ rows = [o \in Orders |-> NoRow]
  /\ credited = [o \in Orders |-> 0]
  /\ pass = [r \in Reconcilers |-> IdlePass]
  /\ eng = IdleCycle
  /\ api = [o \in Orders |-> "none"]

Unused == {o \in Orders : clob[o].st = "unused"}
Open == {o \in Orders : clob[o].st = "open"}
Tracked == {o \in Orders : rows[o].tracked}
HalfFull(matched) == 100 * matched >= 50 * Size  \* (mutant)
NearlyFull(matched) == 100 * matched >= 99 * Size
PassIdle(r) == pass[r].todo = {} /\ pass[r].cur = None

-----------------------------------------------------------------------------
(* The exchange and the passing of time (external).                        *)

\* Another trader matches more of an open order; a full one leaves the book.
Fill(o) ==
  /\ o \in Open
  /\ \E m \in Levels :
       /\ m > clob[o].matched
       /\ clob' = [clob EXCEPT ![o].matched = m,
                               ![o].st = IF m = Size THEN "closed" ELSE "open"]
  /\ UNCHANGED <<seen, rows, credited, pass, eng, api>>

\* The exchange, or the user on its site, cancels the rest of an order.
Expire(o) ==
  /\ "expire" \in Faults
  /\ o \in Open
  /\ clob' = [clob EXCEPT ![o].st = "closed"]
  /\ UNCHANGED <<seen, rows, credited, pass, eng, api>>

\* A row becomes older than pendingOrderMaxAgeHours.
Age(o) ==
  /\ "stale" \in Faults
  /\ o \in Tracked /\ ~rows[o].old
  /\ rows' = [rows EXCEPT ![o].old = TRUE]
  /\ UNCHANGED <<clob, seen, credited, pass, eng, api>>

\* The process dies and is started again; only SQLite and the CLOB survive.
Crash ==
  /\ "crash" \in Faults
  /\ pass' = [r \in Reconcilers |-> IdlePass]
  /\ eng' = IdleCycle
  /\ api' = [o \in Orders |-> "none"]
  /\ UNCHANGED <<clob, seen, rows, credited>>

\* o is accepted by the exchange and m shares of it match at once.
Accept(o, m, t) ==
  clob' = [clob EXCEPT ![o] = [st |-> IF m = Size THEN "closed" ELSE "open",
                               matched |-> m, trade |-> t]]

-----------------------------------------------------------------------------
(* processPendingOrders                                                    *)

StartedPass == [IdlePass EXCEPT !.todo = Tracked, !.snap = rows]

\* A mode switch or "stop copying" flushes the rows while a cycle may run.  The
\* new mode applies to the cycles after it; they are not part of this module.
StartFlush ==
  /\ "flush" \in Faults
  /\ PassIdle("flush") /\ Tracked # {}
  /\ pass' = [pass EXCEPT !["flush"] = StartedPass]
  /\ UNCHANGED <<clob, seen, rows, credited, eng, api>>

\* (mutant) drops the terminal flag of the answer
OnlyFull(o) == NearlyFull(clob[o].matched)
Final(o) == clob[o].st = "closed" \/ NearlyFull(clob[o].matched)

\* Next row: the CLOB answers getOrderStatus.  An order that left the book
\* is answered from its trades, or as not_found when none matched.
AskStatus(r, o) ==
  /\ pass[r].cur = None /\ o \in pass[r].todo
  /\ pass' = [pass EXCEPT
               ![r].todo = @ \ {o}, ![r].cur = o, ![r].stage = "apply",
               ![r].matched = clob[o].matched,
               ![r].final = Final(o)]
  /\ UNCHANGED <<clob, seen, rows, credited, eng, api>>

\* The status check fails for a transient reason: the row waits for the next pass.
StatusDown(r, o) ==
  /\ "statusDown" \in Faults
  /\ pass[r].cur = None /\ o \in pass[r].todo
  /\ pass' = [pass EXCEPT ![r].todo = @ \ {o}, ![r].snap[o] = NoRow]
  /\ UNCHANGED <<clob, seen, rows, credited, eng, api>>

MustCancel(r) == ~pass[r].final /\ pass[r].snap[pass[r].cur].old

\* The stale order is cancelled with its status already taken.
CancelStale(r) ==
  /\ pass[r].stage = "apply" /\ MustCancel(r)
  /\ LET o == pass[r].cur
     IN \/ /\ clob[o].st = "open"
           /\ clob' = [clob EXCEPT ![o].st = "closed"]
           /\ pass' = [pass EXCEPT ![r].stage = "cancelled"]
        \/ /\ pass' = [pass EXCEPT ![r].stage = "uncancelled"]
           /\ UNCHANGED clob
  /\ UNCHANGED <<seen, rows, credited, eng, api>>

\* (mutant) forgets what the row has booked already
WholeMatched(matched, filled) == matched
FillDelta(matched, filled) == IF matched > filled THEN matched - filled ELSE 0

\* commitPendingOrderProgress: one transaction, from the row read at the start.
Commit(r, remove) ==
  LET p == pass[r]
      o == p.cur
  IN /\ credited' = [credited EXCEPT ![o] =
                       @ + FillDelta(p.matched, p.snap[o].filled)]
     /\ rows' = [rows EXCEPT ![o] =
                   IF remove THEN NoRow
                   ELSE IF @.tracked THEN [@ EXCEPT !.filled = p.matched] ELSE @]
     /\ pass' = [pass EXCEPT ![r] =
                   IF p.todo = {} THEN IdlePass
                   ELSE [p EXCEPT !.stage = "ask", !.cur = None, !.matched = 0,
                                  !.final = FALSE, !.snap[o] = NoRow]]
     /\ UNCHANGED <<clob, seen, eng, api>>

ApplyStatus(r) ==
  \/ pass[r].stage = "apply" /\ ~MustCancel(r) /\ Commit(r, pass[r].final)
  \/ pass[r].stage = "cancelled" /\ Commit(r, TRUE)
  \/ pass[r].stage = "uncancelled" /\ Commit(r, FALSE)

-----------------------------------------------------------------------------
(* runCopyCycle: pending pass, risk gate, adoption of untracked orders     *)

StartCycle ==
  /\ eng.pc = "idle"
  /\ eng' = [eng EXCEPT !.pc = "pending"]
  /\ pass' = [pass EXCEPT !["cycle"] = StartedPass]
  /\ UNCHANGED <<clob, seen, rows, credited, api>>

PendingDone == eng.pc = "pending" /\ PassIdle("cycle")

\* canTrade refuses: no order is placed and nothing is adopted.
GateCloses ==
  /\ PendingDone
  /\ eng' = IdleCycle
  /\ UNCHANGED <<clob, seen, rows, credited, pass, api>>

ListOpen ==
  /\ PendingDone
  /\ eng' = [eng EXCEPT !.pc = "listed", !.list = Open]
  /\ UNCHANGED <<clob, seen, rows, credited, pass, api>>

\* listOpenOrders swallows the error and answers an empty list.
ListDown ==
  /\ "listDown" \in Faults
  /\ PendingDone
  /\ eng' = [eng EXCEPT !.pc = "listed"]
  /\ UNCHANGED <<clob, seen, rows, credited, pass, api>>

NoOrphans(list) == {}  \* (mutant) adopts nothing
Orphans(list) == list \ Tracked

DropTracked ==
  /\ eng.pc = "listed"
  /\ eng' = [eng EXCEPT !.pc = "adopting", !.list = Orphans(@)]
  /\ UNCHANGED <<clob, seen, rows, credited, pass, api>>

\* The status of an orphan decides how much of it counts as already booked;
\* when the check fails the orphan is adopted with nothing booked.
MatchedSoFar(o) == clob[o].matched

AskOrphan ==
  /\ eng.pc = "adopting"
  /\ \E o \in eng.list :
       \E known \in {TRUE} \cup {FALSE : f \in Faults \cap {"adoptDown"}} :
         eng' = [eng EXCEPT !.pc = "adopted", !.list = @ \ {o}, !.order = o,
                            !.filled = IF known THEN MatchedSoFar(o) ELSE 0]
  /\ UNCHANGED <<clob, seen, rows, credited, pass, api>>

\* INSERT ... ON CONFLICT(order_id) DO UPDATE SET filled_shares
Upsert(o, filled, trade) ==
  rows' = [rows EXCEPT ![o] =
             IF @.tracked THEN [@ EXCEPT !.filled = filled]
             ELSE [tracked |-> TRUE, filled |-> filled, old |-> FALSE, trade |-> trade]]

SaveOrphan ==
  /\ eng.pc = "adopted"
  /\ Upsert(eng.order, eng.filled, Recovered)
  /\ eng' = [eng EXCEPT !.pc = "adopting", !.order = None, !.filled = 0]
  /\ UNCHANGED <<clob, seen, credited, pass, api>>

-----------------------------------------------------------------------------
(* runCopyCycle: the queue of leader trades                                *)

Poll ==
  /\ eng.pc = "adopting" /\ eng.list = {}
  /\ \E q \in SUBSET Trades : eng' = [eng EXCEPT !.pc = "trades", !.queue = q]
  /\ UNCHANGED <<clob, seen, rows, credited, pass, api>>

EndCycle ==
  /\ eng.pc = "trades" /\ eng.queue = {}
  /\ eng' = IdleCycle
  /\ UNCHANGED <<clob, seen, rows, credited, pass, api>>

\* t is already seen, or a filter, conflict rule, cap or balance check refuses
\* it; orders below the minimum and uncovered SELLs are also marked seen.
SkipTrade(t) ==
  /\ eng.pc = "trades" /\ t \in eng.queue
  /\ eng' = [eng EXCEPT !.queue = @ \ {t}]
  /\ seen' \in {seen, seen \cup {t}}
  /\ UNCHANGED <<clob, rows, credited, pass, api>>

IgnoreSeen(t) == TRUE  \* (mutant)
MayCopy(t) == t \notin seen

BeginTrade(t) ==
  /\ eng.pc = "trades" /\ t \in eng.queue
  /\ MayCopy(t)
  /\ Unused # {}
  /\ eng' = [eng EXCEPT !.pc = "submit", !.queue = @ \ {t}, !.trade = t]
  /\ UNCHANGED <<clob, seen, rows, credited, pass, api>>

\* What follows an exception of submitOrder: another try, or giving up.
AfterException == IF eng.tries < RetryLimit /\ Unused # {} THEN "retry" ELSE "recover"

Submitted ==
  /\ eng.pc = "submit"
  /\ \E o \in Unused, m \in Levels :
       /\ Accept(o, m, eng.trade)
       /\ eng' = [eng EXCEPT !.pc = "poll", !.order = o]
  /\ UNCHANGED <<seen, rows, credited, pass, api>>

\* The response never arrives; the exchange may have accepted the order.
SubmitLost ==
  /\ "lost" \in Faults
  /\ eng.pc = "submit"
  /\ \/ \E o \in Unused, m \in Levels : Accept(o, m, eng.trade)
     \/ UNCHANGED clob
  /\ eng' = [eng EXCEPT !.pc = AfterException]
  /\ UNCHANGED <<seen, rows, credited, pass, api>>

\* The exchange refuses the order, or its book is not available;
\* isDefiniteOrderRejection reads the message.
SubmitRejected ==
  /\ "reject" \in Faults
  /\ eng.pc = "submit"
  /\ \E d \in BOOLEAN : eng' = [eng EXCEPT !.pc = "recover", !.definite = d]
  /\ UNCHANGED <<clob, seen, rows, credited, pass, api>>

\* Accepted, but the response carries no order id.  A full immediate fill is
\* recorded as it is; otherwise the order is searched among the open ones.
SubmitNoId ==
  /\ "noId" \in Faults
  /\ eng.pc = "submit"
  /\ \E o \in Unused, m \in Levels :
       /\ Accept(o, m, eng.trade)
       /\ eng' = IF m = Size
                 THEN [eng EXCEPT !.pc = "record", !.order = o, !.filled = Size]
                 ELSE [eng EXCEPT !.pc = "recover"]
  /\ UNCHANGED <<seen, rows, credited, pass, api>>

\* pollOrderFill: a positive fill, a dead order, or the timeout (also when
\* gtcFillTimeoutMs is 0 and nothing is asked).
PollFill ==
  /\ eng.pc = "poll"
  /\ LET o == eng.order
         Answer(filled, rest) ==
           eng' = [eng EXCEPT !.pc = "record", !.filled = filled, !.rest = rest]
     IN \/ clob[o].matched > 0 /\ Answer(clob[o].matched, Size - clob[o].matched)
        \/ clob[o].matched = 0 /\ clob[o].st = "closed" /\ Answer(0, 0)
        \/ Answer(0, Size)
  /\ UNCHANGED <<clob, seen, rows, credited, pass, api>>

\* Is o an order like the one being placed: token, side, price and size?
AnyOpen(o) == clob[o].trade # None  \* (mutant)
LooksLikeOurs(o) == clob[o].trade # None /\ Shape[clob[o].trade] = Shape[eng.trade]

\* findMatchingOpenOrder, first await: open orders of the same shape.
SearchOpen ==
  /\ eng.pc \in {"retry", "recover"}
  /\ LET same == {o \in Open : LooksLikeOurs(o)}
     IN \E found \in {same} \cup {{} : f \in Faults \cap {"listDown"}} :
          eng' = [eng EXCEPT !.list = found,
                             !.pc = IF eng.pc = "retry" THEN "retryMatch" ELSE "recoverMatch"]
  /\ UNCHANGED <<clob, seen, rows, credited, pass, api>>

Matching == eng.pc \in {"retryMatch", "recoverMatch"}

\* Second await: the first candidate whose status is ok is taken for ours.
MatchFound ==
  /\ Matching
  /\ \E o \in eng.list :
       eng' = [eng EXCEPT !.pc = "record", !.order = o, !.list = {}, !.tries = 0,
                          !.filled = clob[o].matched, !.rest = Size - clob[o].matched,
                          !.definite = FALSE]
  /\ UNCHANGED <<clob, seen, rows, credited, pass, api>>

MatchMissed ==
  /\ Matching
  /\ \E o \in eng.list :
       /\ "statusDown" \in Faults \/ (clob[o].st = "closed" /\ clob[o].matched = 0)
       /\ eng' = [eng EXCEPT !.list = @ \ {o}]
  /\ UNCHANGED <<clob, seen, rows, credited, pass, api>>

\* Nothing recovered: submit again, or report the error and leave the trade
\* unseen unless the rejection was definite.
SearchFailed ==
  /\ Matching /\ eng.list = {}
  /\ IF eng.pc = "retryMatch"
     THEN /\ eng' = [eng EXCEPT !.pc = "submit", !.tries = @ + 1]
          /\ UNCHANGED seen
     ELSE /\ eng' = [eng EXCEPT !.pc = "trades", !.trade = None, !.tries = 0,
                                !.definite = FALSE]
          /\ seen' = IF eng.definite THEN seen \cup {eng.trade} ELSE seen
  /\ UNCHANGED <<clob, rows, credited, pass, api>>

\* recordLiveOrderAccepted: one transaction for dedup key, row and fill.
KeepUnseen == UNCHANGED seen  \* (mutant)
SeeOrder == seen' = seen \cup {eng.order}  \* (mutant) the wrong key
MarkSeen == seen' = seen \cup {eng.trade}

Record ==
  /\ eng.pc = "record"
  /\ MarkSeen
  /\ IF eng.rest > 0 THEN Upsert(eng.order, eng.filled, eng.trade) ELSE UNCHANGED rows
  /\ credited' = [credited EXCEPT ![eng.order] = @ + eng.filled]
  /\ eng' = [eng EXCEPT !.pc = "trades", !.trade = None, !.order = None,
                        !.filled = 0, !.rest = 0, !.tries = 0]
  /\ UNCHANGED <<clob, pass, api>>

-----------------------------------------------------------------------------
(* Dashboard: cancel one order, or all orders of a leader being removed    *)

CancelAsked(o) ==
  /\ "apiCancel" \in Faults
  /\ api[o] = "none" /\ o \in Tracked
  /\ api' = [api EXCEPT ![o] = "asked"]
  /\ UNCHANGED <<clob, seen, rows, credited, pass, eng>>

CancelAnswered(o) ==
  /\ api[o] = "asked"
  /\ \/ /\ clob[o].st = "open"
        /\ clob' = [clob EXCEPT ![o].st = "closed"]
        /\ api' = [api EXCEPT ![o] = "done"]
     \/ /\ api' = [api EXCEPT ![o] = "none"]
        /\ UNCHANGED clob
  /\ UNCHANGED <<seen, rows, credited, pass, eng>>

CancelSaved(o) ==
  /\ api[o] = "done"
  /\ rows' = [rows EXCEPT ![o] = NoRow]
  /\ api' = [api EXCEPT ![o] = "none"]
  /\ UNCHANGED <<clob, seen, credited, pass, eng>>

-----------------------------------------------------------------------------
Reconcile(r) ==
  \/ CancelStale(r) \/ ApplyStatus(r)
  \/ \E o \in Orders : AskStatus(r, o) \/ StatusDown(r, o)

Adoption == ListOpen \/ ListDown \/ DropTracked \/ AskOrphan \/ SaveOrphan

Copying ==
  \/ Poll \/ EndCycle \/ Submitted \/ SubmitLost \/ SubmitRejected \/ SubmitNoId
  \/ PollFill \/ SearchOpen \/ MatchFound \/ MatchMissed \/ SearchFailed \/ Record
  \/ \E t \in Trades : SkipTrade(t) \/ BeginTrade(t)

Cycle == StartCycle \/ GateCloses \/ Adoption \/ Copying

Dashboard == \E o \in Orders : CancelAsked(o) \/ CancelAnswered(o) \/ CancelSaved(o)

Exchange == \E o \in Orders : Fill(o) \/ Expire(o) \/ Age(o)

\* A step of a process that is not killed.
Alive ==
  Cycle \/ StartFlush \/ Dashboard \/ Exchange \/ \E r \in Reconcilers : Reconcile(r)

Next == Alive \/ Crash

Spec == Init /\ [][Next]_vars

\* The event loop runs the cycle whenever it can step, the exchange and the
\* risk gate do not refuse for ever, and the process stays up in the end.
FairSpec ==
  /\ Spec
  /\ WF_vars(Cycle \/ Reconcile("cycle"))
  /\ <>[][Alive]_vars
  /\ SF_vars(ListOpen)
  /\ \A o \in Orders : SF_vars(AskStatus("cycle", o))

-----------------------------------------------------------------------------
(* Properties                                                              *)

\* A share the exchange matched is added to the positions at most once.
NoOverCredit == \A o \in Orders : credited[o] <= clob[o].matched

\* No leader trade has two orders on the exchange.
NoDuplicateCopy ==
  \A o1, o2 \in Orders :
    clob[o1].trade # None /\ clob[o1].trade = clob[o2].trade => o1 = o2

\* A pending row never outruns the dedup key of the trade it copies.
RowsHaveSeenTrades == \A o \in Tracked : rows[o].trade \in seen \cup {Recovered}

\* A row books its fills to the trade its order was placed for, or to nobody.
RowsOwnTheirOrders == \A o \in Tracked : rows[o].trade \in {clob[o].trade, Recovered}

\* No row, pass or cycle still has o in hand.
Settled(o) ==
  /\ clob[o].st = "closed" /\ o \notin Tracked
  /\ eng.order # o /\ o \notin eng.list
  /\ \A r \in Reconcilers : pass[r].cur # o /\ o \notin pass[r].todo

\* When an order is settled, all it matched is booked, up to the 1% at which
\* the code calls an order full.
FillsBooked ==
  \A o \in Orders : Settled(o) => 100 * (clob[o].matched - credited[o]) <= Size

\* The engine implements the ledger of FillLedger.
Promise == INSTANCE FillLedger
  WITH Amounts <- 0..Size, Slack <- Size \div 100,
       matched <- [o \in Orders |-> clob[o].matched],
       booked <- credited,
       settled <- {o \in Orders : Settled(o)}
FillsAreLedger == Promise!Spec

\* An open order does not stay unknown to pending_orders for ever, however it
\* was lost.
OpenOrdersGetTracked ==
  \A o \in Orders : o \in Open ~> o \in Tracked \/ o \notin Open

\* The row of a closed order is eventually resolved.
ClosedRowsResolve ==
  \A o \in Orders : o \in Tracked /\ clob[o].st = "closed" ~> o \notin Tracked

-----------------------------------------------------------------------------
(* Inductive invariants of the proofs                                      *)

\* What a step of the engine needs to find in its own variables.
ControlInv ==
  /\ \A r \in Reconcilers : (pass[r].stage = "ask") <=> (pass[r].cur = None)
  /\ eng.pc \in {"submit", "poll", "record", "retry", "retryMatch", "recover",
                 "recoverMatch"} => eng.trade \in Trades
  /\ eng.pc \in {"adopted", "poll", "record"} => eng.order \in Orders
  /\ eng.pc \in {"retry", "retryMatch"} => eng.tries < RetryLimit

\* The events under which no share is booked twice.
SafeFaults == {"statusDown", "listDown", "stale", "expire", "apiCancel", "crash"}

\* One pass runs, in its own phase of the cycle, and no order is searched for.
PhaseInv ==
  /\ PassIdle("flush")
  /\ eng.pc # "pending" => PassIdle("cycle")
  /\ eng.pc \notin {"retry", "retryMatch", "recover", "recoverMatch"}

\* Whoever holds an amount of o as already booked holds no less than what is
\* booked and no more than what matched.
Covers(o, filled) == credited[o] <= filled /\ filled <= clob[o].matched

RowInv ==
  /\ NoOverCredit
  /\ \A o \in Unused : clob[o].matched = 0 /\ credited[o] = 0 /\ ~rows[o].tracked
  /\ \A o \in Tracked : Covers(o, rows[o].filled)

PassInv ==
  LET p == pass["cycle"]
  IN /\ \A o \in p.todo : o # p.cur /\ Covers(o, p.snap[o].filled)
     /\ p.cur # None =>
          /\ Covers(p.cur, p.snap[p.cur].filled) /\ Covers(p.cur, p.matched)
          /\ p.snap[p.cur].filled <= p.matched

CopyInv ==
  /\ eng.list \cap Unused = {}
  /\ eng.pc \in {"adopted", "poll", "record"} => eng.order \notin Unused
  /\ eng.pc = "adopted" => Covers(eng.order, eng.filled)
  /\ eng.pc \in {"poll", "record"} =>
       credited[eng.order] = 0 /\ eng.order \notin Tracked
  /\ eng.pc = "record" => eng.filled <= clob[eng.order].matched

IInv == TypeOK /\ ControlInv /\ PhaseInv /\ RowInv /\ PassInv /\ CopyInv
=============================================================================
