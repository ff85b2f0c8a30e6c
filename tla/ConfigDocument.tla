---------------------------- MODULE ConfigDocument ----------------------------
(***************************************************************************)
(* config.yaml as the dashboard's requests read, change and write it: the  *)
(* normalized document, its two formats on disk, the settings an account   *)
(* inherits and overrides, and the leaders it follows.                     *)
(*                                                                         *)
(* Of the global settings only the two that switch trading on and off are  *)
(* kept: preview_mode, and enable_copy_trading, which stands for the group *)
(* "risk".  The other keys take the same paths with other values.          *)
(***************************************************************************)
EXTENDS Integers, Sequences

CONSTANTS
  AccountIds,    \* ids of accounts, "default" among them
  LeaderIds,     \* ids of leaders
  Bare,          \* accounts for which .env has no key or no address
  LiveConfirmed  \* .env confirms live trading (POLYMIRROR_LIVE_CONFIRM)

Keys == {"preview_mode", "risk"}
Global == [Keys -> BOOLEAN]
Overrides == UNION {[K -> BOOLEAN] : K \in SUBSET Keys}
NoOverrides == [k \in {} |-> FALSE]

\* An entry of "leaders": how the trader is given, and whether it is copied.
Sources == {"address", "username", "none"}
LeaderEntry == [enabled : BOOLEAN, by : Sources]
LeaderTable == UNION {[L -> LeaderEntry] : L \in SUBSET LeaderIds}
NoLeaders == [l \in {} |-> FALSE]

Account == [id : AccountIds, enabled : BOOLEAN, global : Overrides,
            leaders : LeaderTable]

-----------------------------------------------------------------------------
(* Reading: normalizeConfigDocument, deepMergeGlobal                       *)

Legacy(global, leaders) ==
  [format |-> "legacy", defaults |-> global,
   accounts |-> <<[id |-> "default", enabled |-> TRUE, global |-> NoOverrides,
                   leaders |-> leaders]>>]

Multi(defaults, accounts) ==
  [format |-> "multi", defaults |-> defaults, accounts |-> accounts]

\* What a file may hold: accounts of different ids, in the legacy format the one
\* account that inherits everything.
IsDocument(doc) ==
  /\ DOMAIN doc = {"format", "defaults", "accounts"}
  /\ doc.format \in {"legacy", "multi"}
  /\ doc.defaults \in Global
  /\ doc.accounts \in Seq(Account) /\ Len(doc.accounts) > 0
  /\ \A i, j \in DOMAIN doc.accounts :
       doc.accounts[i].id = doc.accounts[j].id => i = j
  /\ doc.format = "legacy" => doc = Legacy(doc.defaults, doc.accounts[1].leaders)

Ids(doc) == {doc.accounts[i].id : i \in DOMAIN doc.accounts}
AccountOf(doc, a) ==
  doc.accounts[CHOOSE i \in DOMAIN doc.accounts : doc.accounts[i].id = a]

\* {...base, ...top}
Overlay(top, base) ==
  [k \in DOMAIN top \cup DOMAIN base |-> IF k \in DOMAIN top THEN top[k] ELSE base[k]]
DeepMerge(defaults, overrides) == Overlay(overrides, defaults)

MergedGlobal(doc, account) ==
  IF doc.format = "legacy" THEN doc.defaults
  ELSE DeepMerge(doc.defaults, account.global)

\* An enabled leader without a usable address or username does not parse.
Valid(entry) == entry.enabled => entry.by # "none"

\* sanitizeLeaderPlaceholders: a template placeholder is dropped and the leader
\* disabled, so that the document parses.
Sanitized(entry, placeholder) ==
  IF placeholder THEN [enabled |-> FALSE, by |-> "none"] ELSE entry

-----------------------------------------------------------------------------
(* Changing: what a request makes of the document it read                  *)

With(doc, a, account) ==
  [doc EXCEPT !.accounts = [i \in DOMAIN @ |-> IF @[i].id = a THEN account ELSE @[i]]]

\* normalizeConfigDocument of a legacy object takes the settings and the leaders
\* of the first account; what else was changed in the account is gone.
Renormalized(doc) ==
  IF doc.format = "legacy" THEN Legacy(doc.defaults, doc.accounts[1].leaders) ELSE doc

\* (mutant) keeps as overrides the keys of the request only
OnlyThePatch(doc, a, patch) ==
  IF doc.format = "legacy" THEN [doc EXCEPT !.defaults = Overlay(patch, @)]
  ELSE With(doc, a, [AccountOf(doc, a) EXCEPT !.global = patch])

\* The overrides of an account are the keys in which it differs from the defaults.
ApplyGlobalPatch(doc, a, patch) ==
  IF doc.format = "legacy" THEN [doc EXCEPT !.defaults = Overlay(patch, @)]
  ELSE LET merged == Overlay(patch, MergedGlobal(doc, AccountOf(doc, a)))
           changed == {k \in Keys : merged[k] # doc.defaults[k]}
       IN With(doc, a, [AccountOf(doc, a) EXCEPT !.global = [k \in changed |-> merged[k]]])

WithLeaders(doc, a, leaders) ==
  Renormalized(With(doc, a, [AccountOf(doc, a) EXCEPT !.leaders = leaders]))

UpsertLeader(doc, a, l, entry) ==
  WithLeaders(doc, a, Overlay([k \in {l} |-> entry], AccountOf(doc, a).leaders))

RemoveLeader(doc, a, l) ==
  LET leaders == AccountOf(doc, a).leaders
  IN WithLeaders(doc, a, [k \in DOMAIN leaders \ {l} |-> leaders[k]])

AddAccount(doc, a) ==
  Multi(doc.defaults,
        Append(doc.accounts, [id |-> a, enabled |-> TRUE, global |-> NoOverrides,
                              leaders |-> NoLeaders]))

EnableAccount(doc, a, enabled) ==
  Renormalized(With(doc, a, [AccountOf(doc, a) EXCEPT !.enabled = enabled]))

-----------------------------------------------------------------------------
(* Writing: the format on disk is kept while it can hold the document      *)

ToLegacy(doc) == Legacy(MergedGlobal(doc, doc.accounts[1]), doc.accounts[1].leaders)
ToMulti(doc) == Multi(doc.defaults, doc.accounts)

FirstAccountOnly(onDisk, doc) ==  \* (mutant) keeps the legacy format always
  IF onDisk.format = "legacy" THEN ToLegacy(doc) ELSE ToMulti(doc)
Written(onDisk, doc) ==
  IF onDisk.format = "legacy" /\ Len(doc.accounts) = 1 THEN ToLegacy(doc) ELSE ToMulti(doc)

-----------------------------------------------------------------------------
(* Loading: what the engine runs an account with                           *)

Config(doc, a) ==
  [global |-> MergedGlobal(doc, AccountOf(doc, a)), leaders |-> AccountOf(doc, a).leaders]

Live(config) == ~config.global["preview_mode"]
Copying(config) == config.global["risk"]

\* A leader given by username is resolved over the network at every load.
NeedsNetwork(config) ==
  \E l \in DOMAIN config.leaders :
    config.leaders[l].enabled /\ config.leaders[l].by = "username"

\* loadMultiAccountConfig: an account without its secrets is passed over while it is
\* disabled, and refused when it is enabled; some account must be left.
Loaded(doc) == Ids(doc) \ Bare
Loadable(doc) ==
  /\ Loaded(doc) # {}
  /\ \A i \in DOMAIN doc.accounts : doc.accounts[i].enabled => doc.accounts[i].id \notin Bare

\* assertLiveTradingForAccounts, asked at every reload of all accounts, the disabled too.
Reloadable(doc) ==
  Loadable(doc) /\ (LiveConfirmed \/ \A a \in Loaded(doc) : ~Live(Config(doc, a)))

\* validateAllAccounts and assertLiveTradingAllowed, asked at startup of the enabled
\* ones: live with copying disabled is refused, and live that is not confirmed.
Startable(doc) ==
  /\ Loadable(doc)
  /\ \A i \in DOMAIN doc.accounts :
       doc.accounts[i].enabled =>
         LET config == Config(doc, doc.accounts[i].id)
         IN Live(config) => Copying(config) /\ LiveConfirmed
===============================================================================
