------------------------------ MODULE Aggregation -----------------------------
(***************************************************************************)
(* From the leaders' activity feed to the queue of a copy cycle: a poll    *)
(* asks for the newest page of every leader, which may come from a cache;  *)
(* its fills are merged into batches by aggregateTrades, and a batch is    *)
(* passed over when any of its fills was handled before.                   *)
(*                                                                         *)
(* The data API lists fills some time after they were made, out of order.  *)
(* The queue is sorted by time in the code; here its batches are handled   *)
(* in any order.  Prices (a volume-weighted mean) are left out.            *)
(***************************************************************************)
EXTENDS Integers, Sequences, FiniteSets, SequencesExt

CONSTANTS
  Fills,   \* trade event keys of the leaders
  Combos,  \* those of combo trades, which the SDK cannot read and nobody copies
  Leader,  \* Leader[f]
  Group,   \* Group[f]: leader, token and side
  At,      \* At[f]: timestamp
  Shares,  \* Shares[f]: size
  Windows, \* values tradeAggregationWindowMs may have
  Limit,   \* activityLimit, the rows of a page
  Lag      \* a bound on how much later than others the API lists a fill

ASSUME ConstantsOK ==
  /\ At \in [Fills -> Nat] /\ Shares \in [Fills -> Nat \ {0}]
  /\ DOMAIN Group = Fills /\ DOMAIN Leader = Fills /\ Combos \subseteq Fills
  /\ Windows \subseteq Nat /\ Limit \in Nat \ {0} /\ Lag \in Nat

VARIABLES
  window,  \* tradeAggregationWindowMs
  listed,  \* fills the data API lists so far
  horizon, \* the moment maxTradeAgeHours ago
  cache,   \* cache[l]: the last page of l that was read
  seen,    \* seen_trades
  copies,  \* copies[f]: orders placed that include f
  queue,   \* batches the running cycle has still to handle
  feed     \* the fills it was made from

vars == <<window, listed, horizon, cache, seen, copies, queue, feed>>

Leaders == {Leader[f] : f \in Fills}

-----------------------------------------------------------------------------
(* aggregateTrades                                                         *)

Single(f) == [anchor |-> f, keys |-> {f}, size |-> Shares[f]]
Merged(b, f) == [b EXCEPT !.keys = @ \cup {f}, !.size = @ + Shares[f]]

\* How far f lies from the batch: from its newest fill.
FromLast(b, f) == Min({At[g] : g \in b.keys}) - At[f]  \* (mutant) a sliding window
Distance(b, f) == At[b.anchor] - At[f]

\* Map.set
Put(buckets, key, b) == [k \in DOMAIN buckets \cup {key} |-> IF k = key THEN b ELSE buckets[k]]

\* One fill is put into the buckets: outside the window it gets the bucket of
\* its timestamp, whatever is there.
AddFill(buckets, f) ==
  LET key == <<Group[f]>>
      late == <<Group[f], At[f]>>
  IN IF key \notin DOMAIN buckets THEN Put(buckets, key, Single(f))
     ELSE IF Distance(buckets[key], f) > window THEN Put(buckets, late, Single(f))
     ELSE Put(buckets, key, Merged(buckets[key], f))

\* The ways to sort S by time; fills of one moment come in any order.
NewestFirst(S) ==
  {q \in SetToSeqs(S) : \A i, j \in DOMAIN q : i < j => At[q[i]] >= At[q[j]]}

MergeAll(q) ==
  LET buckets[i \in 0..Len(q)] == IF i = 0 THEN <<>> ELSE AddFill(buckets[i - 1], q[i])
      all == buckets[Len(q)]
  IN {all[k] : k \in DOMAIN all}

AggregateTrades(q) ==
  IF window = 0 THEN {Single(q[i]) : i \in 1..Len(q)} ELSE MergeAll(q)

-----------------------------------------------------------------------------

Init ==
  /\ window \in Windows
  /\ listed = {} /\ horizon = 0 /\ seen = {}
  /\ cache = [l \in Leaders |-> {}]
  /\ copies = [f \in Fills |-> 0]
  /\ queue = {} /\ feed = {}

\* The API lists a trade of a leader.
Trade(f) ==
  /\ f \notin listed
  /\ \A g \in Fills \ listed : At[g] + Lag >= At[f]
  /\ listed' = listed \cup {f}
  /\ UNCHANGED <<window, horizon, cache, seen, copies, queue, feed>>

\* maxTradeAgeHours pass after f.
Age(f) ==
  /\ At[f] >= horizon
  /\ \A g \in Fills : At[g] < At[f] => At[g] < horizon
  /\ horizon' = At[f] + 1
  /\ UNCHANGED <<window, listed, cache, seen, copies, queue, feed>>

Recent == {f \in Fills : At[f] >= horizon}

-----------------------------------------------------------------------------
(* getActivity                                                             *)

RowsOf(l) == {f \in listed : Leader[f] = l}

\* The newest rows; which of those of one moment is up to the API.
Pages(l) ==
  LET rows == RowsOf(l)
      n == Cardinality(rows)
  IN {P \in SUBSET rows :
        /\ Cardinality(P) = IF n < Limit THEN n ELSE Limit
        /\ \A f \in P, g \in rows \ P : At[g] <= At[f]}

\* The SDK throws on a page with a combo; REST is asked then, and its mapper drops combos.
FetchActivityPage(l) == {P \in Pages(l) : P \cap Combos = {}}
MapRawActivity(P) == P \ Combos
FetchActivityPageRest(l) == {MapRawActivity(P) : P \in Pages(l) \ FetchActivityPage(l)}

\* (mutant) there is nothing but the SDK
SdkOnly(l) == FetchActivityPage(l)
FetchActivityUncached(l) == FetchActivityPage(l) \cup FetchActivityPageRest(l)

\* The leaders in F are asked and answer; of the others the cache is fresh, or it serves
\* because the request failed.
GetActivity(F) ==
  \E page \in [F -> UNION {FetchActivityUncached(l) : l \in F}] :
    /\ \A l \in F : page[l] \in FetchActivityUncached(l)
    /\ cache' = [l \in Leaders |-> IF l \in F THEN page[l] ELSE cache[l]]

\* pollLeaders; seen fills are not left out.
Poll(F) ==
  /\ queue = {}
  /\ GetActivity(F)
  /\ feed' = Recent \cap UNION {cache'[l] : l \in Leaders}
  /\ \E q \in NewestFirst(feed') : queue' = AggregateTrades(q)
  /\ UNCHANGED <<window, listed, horizon, seen, copies>>

Drop(b) == queue' = queue \ {b}

AnchorSeen(b) == b.anchor \in seen  \* (mutant) only the newest fill is looked up
AnySeen(b) == b.keys \cap seen # {}

\* isAnyTradeKeySeen: passed over, without a word.
PassOver(b) ==
  /\ b \in queue /\ AnySeen(b)
  /\ Drop(b)
  /\ UNCHANGED <<window, listed, horizon, cache, seen, copies, feed>>

\* A filter, the conflict rule or the risk gate refuses; it may be tried again.
Refuse(b) ==
  /\ b \in queue
  /\ Drop(b)
  /\ UNCHANGED <<window, listed, horizon, cache, seen, copies, feed>>

MarkSeenMany(b) == seen' = seen \cup b.keys

\* Below the minimum, an uncovered SELL, or a definite rejection.
Settle(b) ==
  /\ b \in queue /\ ~AnySeen(b)
  /\ Drop(b)
  /\ MarkSeenMany(b)
  /\ UNCHANGED <<window, listed, horizon, cache, copies, feed>>

Copy(b) ==
  /\ b \in queue /\ ~AnySeen(b)
  /\ Drop(b)
  /\ MarkSeenMany(b)
  /\ copies' = [f \in Fills |-> IF f \in b.keys THEN copies[f] + 1 ELSE copies[f]]
  /\ UNCHANGED <<window, listed, horizon, cache, feed>>

Handle(b) == PassOver(b) \/ Refuse(b) \/ Settle(b) \/ Copy(b)

\* A restart between two polls or batches empties the cache.
Restart ==
  /\ cache' = [l \in Leaders |-> {}]
  /\ queue' = {} /\ feed' = {}
  /\ UNCHANGED <<window, listed, horizon, seen, copies>>

Cycle == (\E F \in SUBSET Leaders : Poll(F)) \/ \E b \in queue : Handle(b)

Next == Cycle \/ Restart \/ \E f \in Fills : Trade(f) \/ Age(f)

Spec == Init /\ [][Next]_vars

\* Cycles run on, and now and then a leader is asked and answers.
FairSpec ==
  /\ Spec
  /\ WF_vars(Cycle)
  /\ \A l \in Leaders : SF_vars(\E F \in SUBSET Leaders : l \in F /\ Poll(F))

-----------------------------------------------------------------------------
(* Properties                                                              *)

\* The fills of the group of f within the window of its newest one.
Core(f) ==
  LET same == {g \in feed : Group[g] = Group[f]}
  IN {g \in same : \A h \in same : At[h] - At[g] <= window}

\* What a batch is: one older fill by itself, or the window of a group's
\* newest fill, whole and with the sum of its sizes.
BatchesAreWindows ==
  window > 0 =>
    \A b \in queue :
      /\ b.keys \subseteq feed
      /\ IF b.keys \cap Core(b.anchor) = {} THEN b = Single(b.anchor)
         ELSE b.keys = Core(b.anchor)
      /\ b.size = SumFunctionOnSet(Shares, b.keys)

\* A leader's fill is part of at most one order, however it was batched.
NoFillCopiedTwice == \A f \in Fills : copies[f] <= 1

\* A fill is crowded out when a page of newer rows fits before it.
CrowdedOut(f) ==
  Cardinality({g \in RowsOf(Leader[f]) \ {f} : At[g] >= At[f]}) >= Limit

\* Again and again a cycle looks at every recent fill the API lists of a leader, combos beside
\* it, failing requests and cached pages notwithstanding, unless it is crowded out.
ListedGetPolled ==
  \A l \in Leaders :
    []<>(\A f \in (RowsOf(l) \ Combos) \cap Recent : f \in feed \/ CrowdedOut(f))
=============================================================================
