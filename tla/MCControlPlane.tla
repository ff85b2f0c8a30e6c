---------------------------- MODULE MCControlPlane ----------------------------
(* Constants of the model-checking run of ControlPlane.                   *)
EXTENDS ControlPlane, TLC

MCAccounts == {"default", "second", "ghost"}
MCBare == {"ghost"}
MCLeaders == {"star", "whale"}

On == [preview_mode |-> FALSE, risk |-> TRUE]
Paper == [preview_mode |-> TRUE, risk |-> TRUE]
ByName(enabled) == [enabled |-> enabled, by |-> "username"]
ByAddress == [enabled |-> TRUE, by |-> "address"]

\* One legacy account on paper, and two accounts of which the second is live.
MCTwo ==
  {Multi(Paper,
     <<[id |-> "default", enabled |-> TRUE, global |-> NoOverrides, leaders |-> "star" :> ByName(TRUE)],
       [id |-> "second", enabled |-> TRUE, global |-> [k \in {"preview_mode"} |-> FALSE],
        leaders |-> "whale" :> Sanitized(ByAddress, FALSE)]>>)}
\* One account on paper over defaults that would be live without copying, and a
\* disabled one without secrets.
MCOne ==
  {Multi([preview_mode |-> FALSE, risk |-> FALSE],
     <<[id |-> "default", enabled |-> TRUE, global |-> [k \in {"preview_mode"} |-> TRUE],
        leaders |-> NoLeaders],
       [id |-> "ghost", enabled |-> FALSE, global |-> NoOverrides,
        leaders |-> "star" :> ByName(TRUE)]>>)}
MCFiles ==
  {Legacy(Paper, "star" :> ByName(TRUE) @@ "whale" :> Sanitized(ByAddress, TRUE))} \cup MCTwo \cup MCOne

Ask(kind, a) == [kind |-> kind, acct |-> a]
MCScript ==
  [goLive |-> Ask("live", "default"),
   stop |-> Ask("stop", "second"),
   resume |-> Ask("live", "second"),
   paper |-> Ask("preview", "default"),
   patch |-> [kind |-> "patch", acct |-> "second", patch |-> [k \in {"risk"} |-> FALSE]],
   follow |-> [kind |-> "follow", acct |-> "second", leader |-> "star", entry |-> ByAddress],
   pause |-> [kind |-> "enable", acct |-> "default", leader |-> "star", enabled |-> FALSE],
   unfollow |-> [kind |-> "unfollow", acct |-> "default", leader |-> "star"],
   create |-> Ask("create", "second"),
   disable |-> [kind |-> "account", acct |-> "second", enabled |-> FALSE],
   enable |-> [kind |-> "account", acct |-> "ghost", enabled |-> TRUE],
   reload |-> Ask("reload", "default")]
MCRequests == DOMAIN MCScript
===============================================================================
