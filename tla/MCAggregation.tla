----------------------------- MODULE MCAggregation ----------------------------
(* Constants of the model-checking run of Aggregation.                     *)
EXTENDS Aggregation

\* A pair of fills at one moment, a quick sequence, a fill of another group, and a combo
\* trade.
MCFills == 1..6
MCAt == <<1, 1, 4, 6, 9, 4>>
MCGroup == <<"a", "a", "a", "a", "b", "c">>
MCLeader == <<"x", "x", "x", "x", "x", "x">>
MCShares == <<1, 2, 3, 4, 5, 1>>
=============================================================================
