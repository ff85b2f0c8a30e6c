----------------------------- MODULE MCCycleFunds -----------------------------
(* Constants of the model-checking runs of CycleFunds.                     *)
EXTENDS CycleFunds

Main == <<"a">>
Dashed == <<"b", "-">>
Underlined == <<"b", "_">>
MCAccounts == {Main, Dashed, Underlined}

MCEoa == "k1" :> "e1" @@ "k2" :> "e2"
MCDerived == "k1" :> "d1" @@ "k2" :> "d1"
MCAddresses == {"p1", "p2", "e1", "e2", "d1"}
MCSpenders == {"ctf", "negRisk"}

P1 == [key |-> "k1", addr |-> "p1"]
P2 == [key |-> "k2", addr |-> "p2"]

MCUpdates == {[key |-> "k2", addr |-> None], P2}
MCDashedOnly == {WalletEnvSuffix(Dashed)}
MCMainOnly == {Main}

MCTrade ==
  [b1 |-> [acct |-> Main, side |-> "BUY", leader |-> "l1", usd |-> 200, spender |-> "ctf"],
   b2 |-> [acct |-> Main, side |-> "BUY", leader |-> "l2", usd |-> 200, spender |-> "negRisk"],
   s1 |-> [acct |-> Main, side |-> "SELL", leader |-> "l1", shares |-> 160, spender |-> "ctf"],
   s2 |-> [acct |-> Main, side |-> "SELL", leader |-> "l2", shares |-> 333, spender |-> "ctf"],
   s3 |-> [acct |-> Dashed, side |-> "SELL", leader |-> "l1", shares |-> 600, spender |-> "ctf"],
   s4 |-> [acct |-> Dashed, side |-> "SELL", leader |-> "l2", shares |-> 100, spender |-> "ctf"]]
MCTrades == DOMAIN MCTrade
MCTracked == [a \in MCAccounts |-> IF a = Main THEN "l1" :> 200 @@ "l2" :> 400 ELSE "l1" :> 600 @@ "l2" :> 0]

Owner == [key |-> "k1", addr |-> "e1"]
Approved(S) == [a \in MCAddresses |-> IF a \in S THEN MCSpenders ELSE {"ctf"}]
Two(trades) ==
  [accounts |-> {Main, Dashed}, env |-> (<< >> :> P1) @@ (WalletEnvSuffix(Dashed) :> P2),
   approved |-> Approved({"p1"}), funds |-> [pusd |-> 300, usdce |-> 0, token |-> 500],
   trades |-> trades]
One(a, wallet, pusd, usdce, trades) ==
  [accounts |-> {a}, env |-> WalletEnvSuffix(a) :> wallet, approved |-> Approved({"p1", "e1"}),
   funds |-> [pusd |-> pusd, usdce |-> usdce, token |-> 500], trades |-> trades]

\* Two proxy wallets of which one has to be approved first; one wallet, with buys that
\* share its cash, sells that share its tokens, or money the CLOB does not show; one
\* account that buys or sells with its owner's address, and one that sells what it does not hold.
MCStarts == {Two({"s3"}), One(Main, P1, 300, 0, {"b1", "b2"}), One(Main, P1, 300, 0, {"s1", "s2"}),
             One(Main, P1, 100, 100, {"b1"}), One(Main, Owner, 100, 100, {"b1"}),
             One(Main, Owner, 100, 0, {"s1"}), One(Dashed, P1, 100, 0, {"s4"})}
=============================================================================
