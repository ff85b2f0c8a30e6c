----------------------------- MODULE MCLiveOrders -----------------------------
(* Constants of the model-checking runs of LiveOrders.                     *)
EXTENDS LiveOrders, TLC

MCLevels == {0, 50, 99, 100}
MCHalves == {0, 50, 100}
MCAllOrNothing == {0, 100}

\* Every trade asks for an order of its own shape, or all for the same one.
DistinctShapes == [t \in Trades |-> t]
OneShape == [t \in Trades |-> 1]

MCSymmetry == Permutations(Orders) \cup Permutations(Trades)
===============================================================================
