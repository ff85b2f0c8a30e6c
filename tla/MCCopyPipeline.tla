--------------------------- MODULE MCCopyPipeline ---------------------------
(* Constants of the model-checking runs of CopyPipeline.                   *)
EXTENDS CopyPipeline, TLC

Make(leader, token, side, price, usd) ==
  [leader |-> leader, token |-> token, side |-> side, price |-> price, usd |-> usd]

MCLeaders == {"low", "high"}
MCTokens == {"A", "B"}
MCRank == [l \in MCLeaders |-> IF l = "high" THEN 2 ELSE 1]
NoOrphans == {}

\* One leader builds a position and sells it with a loss and with a profit,
\* another opens a second market; sizes round up and down, and no amount is a
\* whole number of cents of 10.
RiskTrades == 1..5
RiskTrade ==
  <<Make("low", "A", "BUY", 43, 80), Make("low", "A", "BUY", 54, 60),
    Make("low", "A", "SELL", 34, 35), Make("high", "B", "BUY", 27, 40),
    Make("low", "A", "SELL", 61, 120)>>
RiskVolumes == [l \in MCLeaders |-> IF l = "low" THEN 125 ELSE 90]
RiskCaps == [l \in MCLeaders |-> IF l = "low" THEN 120 ELSE 0]

\* Live: a leader buys and sells with a loss and with a profit; the SELLs can rest
\* together, and the answer of the losing one may be lost.
LiveLeaders == {"low", "_recovered"}
LiveTrades == 1..4
LiveOrphans == {4}
LiveTrade ==
  <<Make("low", "A", "BUY", 4, 8), Make("low", "A", "SELL", 3, 3),
    Make("low", "A", "SELL", 6, 12), Make("_recovered", "A", "SELL", 3, 0)>>

LiveRank == [l \in LiveLeaders |-> 1]
NoCaps == [l \in LiveLeaders |-> 0]
Generous == [l \in LiveLeaders |-> 100]
=============================================================================
