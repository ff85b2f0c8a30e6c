----------------------------- MODULE MCSettlement -----------------------------
(* Constants of the model-checking runs of Settlement.                     *)
EXTENDS Settlement, TLC

\* Two tokens, the two outcomes of one market, or each of a market of its own.
OneMarket == [tok \in Tokens |-> CHOOSE c \in Conditions : TRUE]
OwnMarkets == [tok \in Tokens |-> tok]

MCSymmetry == Permutations(Leaders) \cup Permutations(Tokens)
=============================================================================
