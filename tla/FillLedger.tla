------------------------------ MODULE FillLedger ------------------------------
(***************************************************************************)
(* What the account promises about the fills of its orders, without saying *)
(* how: a matched share is booked at most once, and an order is settled    *)
(* for good only when all it matched is booked, up to the slack under      *)
(* which the engine calls an order full.                                   *)
(***************************************************************************)
EXTENDS Integers

CONSTANTS
  Orders,
  Amounts,  \* the shares an order can have matched or booked
  Slack

VARIABLES
  matched,  \* shares the exchange matched of each order
  booked,   \* shares of it added to the positions
  settled   \* the orders nobody will look at again

ledger == <<matched, booked, settled>>

Init ==
  /\ matched = [o \in Orders |-> 0]
  /\ booked = [o \in Orders |-> 0]
  /\ settled = {}

\* The exchange matches, the engine books, or both let go of the order.
Advance(o) ==
  /\ o \notin settled
  /\ \E m \in Amounts :
       /\ matched[o] <= m
       /\ matched' = [matched EXCEPT ![o] = m]
       /\ \E b \in Amounts :
            /\ booked[o] <= b /\ b <= m
            /\ booked' = [booked EXCEPT ![o] = b]
            /\ \/ settled' = settled
               \/ settled' = settled \cup {o} /\ m - b <= Slack

Next == \E o \in Orders : Advance(o)

Spec == Init /\ [][Next]_ledger
=============================================================================
