------------------------------ MODULE ReadCaches ------------------------------
(***************************************************************************)
(* What the dashboard shows of other services: the PnL of an account, the  *)
(* leaderboard and a trader's page.  Each view is composed of parts that   *)
(* are fetched side by side and kept in a cache of the process; the trades *)
(* of a trader come from the cache of getActivity, so two caches lie on    *)
(* top of each other.  Requests overlap, and any fetch may fail.           *)
(*                                                                         *)
(* What is read is told apart by the moment it was read only.  Time is a   *)
(* clock of few moments.  The entries of different views, accounts, ranges *)
(* and traders do not meet: a behaviour is that of one of them.            *)
(***************************************************************************)
EXTENDS Integers

CONSTANTS
  Requests,     \* requests of the dashboard that may be under way at a time
  CacheTtl,     \* CACHE_MS and PNL_CACHE_TTL_MS (60 s)
  ActivityTtl,  \* ACTIVITY_CACHE_TTL_MS (10 s)
  MaxClock,     \* a bound on the time
  None,
  Error         \* the answer of a request that failed

\* A trader's profile is left out: it is read like the profit, and may be missing.
Parts == [board |-> {"rows"}, trader |-> {"trades", "stats"}, pnl |-> {"curve", "profit"}]
AllParts == UNION {Parts[v] : v \in DOMAIN Parts}

\* Something read at that moment, or missing; from an entry that had run out, if it is stale.
Reading == [asOf : Nat \cup {None}, stale : BOOLEAN]

ASSUME ConstantsOK ==
  /\ CacheTtl \in Nat \ {0} /\ ActivityTtl \in Nat \ {0} /\ MaxClock \in Nat
  /\ \A P \in SUBSET AllParts :
       Error \notin [P -> Reading] /\ None \notin [at : Nat, data : [P -> Reading]]

VARIABLES
  view,    \* the view asked for
  clock,
  cache,   \* its entry in pnlCache, traderDetailCache or the leaderboard's cache
  trades,  \* the trader's entry in activityCache
  req,     \* req[r]: the request
  answer,  \* the answer given last, until something else happens
  fetch,   \* fetch[r]: the call of getActivity it made
  shown    \* history: the view has been shown

vars == <<view, clock, cache, trades, req, answer, fetch, shown>>

-----------------------------------------------------------------------------

Optional == {"profit"}  \* fetchLbProfit: nothing instead of failing
Required == Parts[view] \ (Optional \cup {"trades"})

Datum(asOf) == [asOf |-> asOf, stale |-> FALSE]
Expired(d) == [d EXCEPT !.stale = TRUE]
Stale(data) == [p \in DOMAIN data |-> Expired(data[p])]
NoParts == [p \in {} |-> Datum(None)]
With(data, p, d) == [q \in DOMAIN data \cup {p} |-> IF q = p THEN d ELSE data[q]]

Unasked == [asked |-> None, hit |-> None, got |-> NoParts, before |-> FALSE]

Fresh(entry, ttl) == entry # None /\ clock - entry.at < ttl
Open(r) == req[r] # Unasked

\* The fetches of an answered request go on, and nothing looks at what they bring.
Answers(r, data) ==
  /\ req' = [req EXCEPT ![r] = Unasked]
  /\ answer' = [asked |-> req[r].asked, before |-> req[r].before, data |-> data]
  /\ shown' = (shown \/ data # Error)

\* A fresh entry is the answer; else all parts are asked for.  The entry is looked up once,
\* for the case that they fail too.
Ask(r) ==
  /\ ~Open(r) /\ fetch[r] = None
  /\ \/ /\ Fresh(cache, CacheTtl)
        /\ answer' = [asked |-> clock, before |-> shown, data |-> cache.data]
        /\ shown' = TRUE
        /\ UNCHANGED <<req, fetch>>
     \/ /\ ~Fresh(cache, CacheTtl)
        /\ LET known == view = "trader" /\ Fresh(trades, ActivityTtl)
           IN /\ req' = [req EXCEPT ![r] =
                   [asked |-> clock, hit |-> cache, before |-> shown,
                    got |-> IF known THEN With(NoParts, "trades", trades.data) ELSE NoParts]]
              /\ fetch' = IF view = "trader" /\ ~known
                          THEN [fetch EXCEPT ![r] = [at |-> clock, hit |-> trades, asOf |-> None]]
                          ELSE fetch
        /\ answer' = None
        /\ UNCHANGED shown
  /\ UNCHANGED <<view, clock, cache, trades>>

\* One part is read; it arrives with the others.
Part(r, p) ==
  /\ Open(r) /\ p \in Parts[view] \ (DOMAIN req[r].got \cup {"trades"})
  /\ \/ req' = [req EXCEPT ![r].got = With(@, p, Datum(clock))]
     \/ p \in Optional /\ req' = [req EXCEPT ![r].got = With(@, p, Datum(None))]
  /\ UNCHANGED <<view, clock, cache, trades, fetch, shown>>
  /\ answer' = None

\* (mutant) every entry counts from when it is stored
Now(r) == clock
\* An entry counts from the request that fetched it, the leaderboard's from when it is stored.
Stamp(r) == IF view = "board" THEN clock ELSE req[r].asked

Complete(r) ==
  /\ Open(r) /\ DOMAIN req[r].got = Parts[view]
  /\ cache' = [at |-> Stamp(r), data |-> req[r].got]
  /\ Answers(r, req[r].got)
  /\ UNCHANGED <<view, clock, trades, fetch>>

\* (mutant) an entry that ran out does not serve
NoEntry(r) == Error
\* A failure is answered with the entry found when the request came, if there was one; the
\* leaderboard's is always an error.  (Instead of the PnL the account's own figure is shown.)
Fallback(r) == IF req[r].hit = None \/ view = "board" THEN Error ELSE Stale(req[r].hit.data)

Fails(r) ==
  /\ Open(r) /\ ~(Required \subseteq DOMAIN req[r].got)
  /\ Answers(r, Fallback(r))
  /\ UNCHANGED <<view, clock, cache, trades, fetch>>

-----------------------------------------------------------------------------
(* The trades: getActivity, which goes on when the request has failed       *)

TradesRead(r) ==
  /\ fetch[r] # None /\ fetch[r].asOf = None
  /\ fetch' = [fetch EXCEPT ![r].asOf = clock]
  /\ UNCHANGED <<view, clock, cache, trades, req, shown>>
  /\ answer' = None

Obtain(r, d) == req' = IF Open(r) THEN [req EXCEPT ![r].got = With(@, "trades", d)] ELSE req

TradesArrive(r) ==
  /\ fetch[r] # None /\ fetch[r].asOf # None
  /\ trades' = [at |-> fetch[r].at, data |-> Datum(fetch[r].asOf)]
  /\ Obtain(r, Datum(fetch[r].asOf))
  /\ fetch' = [fetch EXCEPT ![r] = None]
  /\ answer' = None
  /\ UNCHANGED <<view, clock, cache, shown>>

\* A failure is answered from an entry of any age, which passes for one read now; without
\* an entry the request fails.
TradesFail(r) ==
  /\ fetch[r] # None
  /\ \/ /\ fetch[r].hit # None
        /\ Obtain(r, Expired(fetch[r].hit.data))
        /\ answer' = None /\ UNCHANGED shown
     \/ /\ fetch[r].hit = None /\ Open(r)
        /\ Answers(r, Fallback(r))
     \/ /\ fetch[r].hit = None /\ ~Open(r)
        /\ answer' = None /\ UNCHANGED <<req, shown>>
  /\ fetch' = [fetch EXCEPT ![r] = None]
  /\ UNCHANGED <<view, clock, cache, trades>>

-----------------------------------------------------------------------------

Tick ==
  /\ clock < MaxClock /\ clock' = clock + 1
  /\ answer' = None
  /\ UNCHANGED <<view, cache, trades, req, fetch, shown>>

Init ==
  /\ view \in DOMAIN Parts
  /\ clock = 0
  /\ cache = None /\ trades = None
  /\ req = [r \in Requests |-> Unasked]
  /\ answer = None
  /\ fetch = [r \in Requests |-> None]
  /\ shown = FALSE

Next ==
  \/ Tick
  \/ \E r \in Requests :
       \/ Ask(r) \/ Complete(r) \/ Fails(r)
       \/ \E p \in Parts[view] : Part(r, p)
       \/ TradesRead(r) \/ TradesArrive(r) \/ TradesFail(r)

Spec == Init /\ [][Next]_vars

-----------------------------------------------------------------------------
(* Properties                                                              *)

MaxAge(p) == IF p = "trades" THEN CacheTtl + ActivityTtl ELSE CacheTtl

\* However slow the fetches are and in whatever order they end, what a request is answered
\* with was read less than a time to live before it was made, trades less than both, unless
\* a fetch failed; that is claimed of the PnL and a trader's page, not of the leaderboard
\* (pnl.ts, discover.ts, data-api.ts).
AnswersAreFresh ==
  view # "board" /\ answer # None /\ answer.data # Error =>
    \A p \in DOMAIN answer.data :
      LET d == answer.data[p] IN
      d.asOf # None /\ ~d.stale => d.asOf > answer.asked - MaxAge(p)

\* What has been shown can be shown from then on: the PnL and a trader's page are answered
\* with an error only if they had not been shown when they were asked for, whatever fails
\* afterwards (pnl.ts, discover.ts).
ShownStaysShown ==
  view # "board" /\ answer # None /\ answer.data = Error => ~answer.before
=============================================================================
