-------------------------- MODULE ControlPlaneProofs --------------------------
(***************************************************************************)
(* Proofs about the engine around the cycles.                              *)
(*                                                                         *)
(* First the stores and the orders: whatever the requests make of          *)
(* config.yaml, the only way to lose sight of a live order is to close a   *)
(* store under the cycle that placed it.                                   *)
(*                                                                         *)
(* Then the documents: what each request makes of a document, said of the  *)
(* accounts and not of the sequence that holds them, and so what a write   *)
(* leaves alone and what can be started again.                             *)
(*                                                                         *)
(* Last the reloads: one that goes on account by account, waiting in       *)
(* between, ends with the runtimes the file describes, and so an answer    *)
(* "ok" means that the request has taken effect.                           *)
(***************************************************************************)
EXTENDS ControlPlane, FiniteSetTheorems, SequenceTheorems, TLAPS

-----------------------------------------------------------------------------
(* The invariant                                                           *)

IsRuntime(rt) ==
  /\ rt = [obj |-> rt.obj, enabled |-> rt.enabled, config |-> rt.config, store |-> rt.store]
  /\ rt.store.mode = ModeOf(rt.config)

\* A runtime has the last store that was opened for its account, in its mode.
RuntimesInv ==
  /\ opened \in [AccountIds -> Nat]
  /\ \A a \in AccountIds \cap DOMAIN runtimes :
       IsRuntime(runtimes[a]) /\ runtimes[a].store.n = opened[a]

OnTrade == loop.pc \in {"checks", "record"}
InCycle == loop.pc = "cycle" \/ OnTrade

\* A cycle has a store that was opened for its account, in the mode it runs in: the
\* one of the runtime, or one opened before that.
LoopInv ==
  /\ loop = [pc |-> loop.pc, todo |-> loop.todo, acct |-> loop.acct, config |-> loop.config,
             store |-> loop.store, queue |-> loop.queue, trade |-> loop.trade]
  /\ loop.pc \in {"idle", "turn", "cycle", "checks", "record"}
  /\ InCycle =>
       /\ loop.acct \in AccountIds
       /\ loop.store.mode = ModeOf(loop.config)
       /\ loop.store.n \in Nat /\ loop.store.n <= opened[loop.acct]
       /\ loop.acct \in DOMAIN runtimes /\ loop.store.n = opened[loop.acct]
            => runtimes[loop.acct].store = loop.store
  /\ OnTrade => loop.trade \in Trades

OrderTypes ==
  /\ seen \in [AccountIds -> [Modes -> SUBSET Trades]]
  /\ clob \in [AccountIds -> [Trades -> Nat]]

\* A cycle that is at a trade of a when its store is closed.
Stranded(a) == IF OnTrade /\ loop.acct = a /\ ~MaySave THEN 1 ELSE 0

\* The order of t is in the live database of a, or will be at once.
Known(a, t) == IF t \in seen[a]["live"] \/ InFlight(a, t) THEN 1 ELSE 0

\* Every order without a row, and the one a stranded cycle may still place, has a
\* store of its own that was closed.
OrdersInv ==
  \A a \in AccountIds :
    /\ IsFiniteSet(Unrecorded(a))
    /\ Cardinality(Unrecorded(a)) + Stranded(a) <= Closings(a)
    /\ \A t \in Trades : clob[a][t] + Stranded(a) <= Closings(a) + Known(a, t)
    /\ loop.pc = "checks" /\ loop.acct = a /\ Live(loop.config)
         => clob[a][loop.trade] + Stranded(a) <= Closings(a)

\* What was carried over is in the live database, and no live cycle is about to order it.
CarriedInv ==
  /\ carried \in [AccountIds -> SUBSET Trades]
  /\ \A a \in AccountIds : carried[a] \subseteq seen[a]["live"]
  /\ loop.pc = "checks" /\ Live(loop.config) => loop.trade \notin carried[loop.acct]

StoresInv == RuntimesInv /\ LoopInv /\ OrderTypes /\ OrdersInv /\ CarriedInv

-----------------------------------------------------------------------------
(* Stores are opened and closed                                            *)

\* What installing accounts, a crash or a start does to the store of an account: it
\* stays as it is, a new one is opened, or it is closed and the account dropped.
StoreStays(a) ==
  /\ a \in DOMAIN runtimes <=> a \in DOMAIN runtimes'
  /\ a \in DOMAIN runtimes => runtimes'[a].store = runtimes[a].store
  /\ opened'[a] = opened[a]
StoreOpens(a) == a \in DOMAIN runtimes' /\ opened'[a] = opened[a] + 1
StoreCloses(a) == a \in DOMAIN runtimes /\ a \notin DOMAIN runtimes' /\ opened'[a] = opened[a]

StoresMove ==
  /\ RuntimesInv'
  /\ \A a \in AccountIds : StoreStays(a) \/ StoreOpens(a) \/ StoreCloses(a)

\* The runtime an account gets has the mode of its configuration.
LEMMA InstalledFacts ==
  ASSUME RuntimesInv, NEW a \in AccountIds, NEW doc
  PROVE  /\ IsRuntime(Installed(a, doc))
         /\ \/ Installed(a, doc).store.n = opened[a] + 1
            \/ a \in DOMAIN runtimes /\ Installed(a, doc).store = runtimes[a].store
<1> DEFINE config == Config(doc, a)
           enabled == AccountOf(doc, a).enabled
           new == Installed(a, doc)
           fresh0 == [mode |-> ModeOf(config), n |-> opened[a] + 1]
<1>1. CASE a \in DOMAIN runtimes
  <2> DEFINE rt == runtimes[a]
             st == StoreFor(a, rt, config)
  <2>1. rt = [obj |-> rt.obj, enabled |-> rt.enabled, config |-> rt.config, store |-> rt.store]
    BY <1>1 DEF RuntimesInv, IsRuntime
  <2>2. new = [rt EXCEPT !.enabled = enabled, !.config = config, !.store = st]
    BY <1>1 DEF Installed
  <2>3. st \in {rt.store, fresh0} /\ st.mode = ModeOf(config)
    BY DEF StoreFor
  <2>4. fresh0.n = opened[a] + 1
    OBVIOUS
  <2> HIDE DEF new, rt, st, config, enabled
  <2>5. new = [obj |-> rt.obj, enabled |-> enabled, config |-> config, store |-> st]
    BY <2>1, <2>2
  <2>6. new.config = config /\ new.store = st /\ new.obj = rt.obj /\ new.enabled = enabled
    BY <2>5
  <2> QED BY <1>1, <2>3, <2>4, <2>5, <2>6 DEF IsRuntime, new, rt
<1>2. CASE a \notin DOMAIN runtimes
  <2>1. new = [obj |-> opened[a] + 1, enabled |-> enabled, config |-> config, store |-> fresh0]
    BY <1>2 DEF Installed
  <2>2. fresh0.n = opened[a] + 1 /\ fresh0.mode = ModeOf(config)
    OBVIOUS
  <2> HIDE DEF new, config, enabled, fresh0
  <2>3. new.obj = opened[a] + 1 /\ new.config = config /\ new.store = fresh0 /\ new.enabled = enabled
    BY <2>1
  <2> QED BY <2>1, <2>2, <2>3 DEF IsRuntime, new
<1> QED BY <1>1, <1>2

LEMMA InstallMoves ==
  ASSUME RuntimesInv, NEW doc, NEW now, NEW keep, Install(doc, now, keep)
  PROVE  StoresMove
<1> DEFINE D == (DOMAIN runtimes \cap keep) \cup now
<1>1. /\ DOMAIN runtimes' = D
      /\ \A a \in D : runtimes'[a] = IF a \in now THEN Installed(a, doc) ELSE runtimes[a]
  BY DEF Install
<1>2. opened \in [AccountIds -> Nat]
  BY DEF RuntimesInv
<1>3. \A a \in AccountIds :
        opened'[a] = IF a \in now /\ (a \notin DOMAIN runtimes
                                       \/ Installed(a, doc).store # runtimes[a].store)
                     THEN opened[a] + 1 ELSE opened[a]
  BY DEF Install
<1>4. opened' \in [AccountIds -> Nat]
  BY <1>2 DEF Install
<1>5. ASSUME NEW a \in AccountIds
      PROVE  /\ a \in DOMAIN runtimes' => IsRuntime(runtimes'[a]) /\ runtimes'[a].store.n = opened'[a]
             /\ StoreStays(a) \/ StoreOpens(a) \/ StoreCloses(a)
  <2>1. /\ IsRuntime(Installed(a, doc))
        /\ \/ Installed(a, doc).store.n = opened[a] + 1
           \/ a \in DOMAIN runtimes /\ Installed(a, doc).store = runtimes[a].store
    BY InstalledFacts
  <2>2. a \in DOMAIN runtimes => IsRuntime(runtimes[a]) /\ runtimes[a].store.n = opened[a]
    BY DEF RuntimesInv
  <2>3. opened[a] \in Nat
    BY <1>2
  <2>4. CASE a \in now
    <3>1. a \in DOMAIN runtimes' /\ runtimes'[a] = Installed(a, doc)
      BY <1>1, <2>4
    <3>2. CASE a \in DOMAIN runtimes /\ Installed(a, doc).store = runtimes[a].store
      <4>1. opened'[a] = opened[a]
        BY <1>3, <3>2
      <4> QED BY <2>1, <2>2, <3>1, <3>2, <4>1 DEF StoreStays
    <3>3. CASE ~(a \in DOMAIN runtimes /\ Installed(a, doc).store = runtimes[a].store)
      <4>1. opened'[a] = opened[a] + 1
        BY <1>3, <2>4, <3>3
      <4> QED BY <2>1, <3>1, <3>3, <4>1 DEF StoreOpens
    <3> QED BY <3>2, <3>3
  <2>5. CASE a \notin now
    <3>1. opened'[a] = opened[a]
      BY <1>3, <2>5
    <3>2. CASE a \in DOMAIN runtimes'
      <4>1. a \in DOMAIN runtimes /\ runtimes'[a] = runtimes[a]
        BY <1>1, <2>5, <3>2
      <4> QED BY <2>2, <3>1, <3>2, <4>1 DEF StoreStays
    <3>3. CASE a \notin DOMAIN runtimes'
      BY <3>1, <3>3 DEF StoreStays, StoreCloses
    <3> QED BY <3>2, <3>3
  <2> QED BY <2>4, <2>5
<1> QED BY <1>4, <1>5 DEF StoresMove, RuntimesInv

LEMMA CrashMoves ==
  ASSUME RuntimesInv, Crash
  PROVE  StoresMove
<1>1. DOMAIN runtimes' = {} /\ opened' = opened
  BY DEF Crash
<1> QED BY <1>1 DEF StoresMove, RuntimesInv, StoreStays, StoreCloses

LEMMA NothingMoves ==
  ASSUME RuntimesInv, UNCHANGED <<runtimes, opened>>
  PROVE  StoresMove
BY DEF StoresMove, RuntimesInv, StoreStays

\* The live database of an account takes over what preview has seen, when live is
\* asked for; else the databases and the memory of it stay as they are.
SeenMoves ==
  \/ UNCHANGED <<seen, carried>>
  \/ \E a \in AccountIds :
       /\ seen' = [seen EXCEPT ![a]["live"] = seen[a]["live"] \cup seen[a]["preview"]]
       /\ carried' = [carried EXCEPT ![a] = Carried(a)]

\* Requests, their reloads and the start of the process leave the cycle and the orders
\* alone.
LEMMA OutsideSteps ==
  ASSUME RuntimesInv,
         Start \/ \E r \in Requests : Direct(r) \/ StartFlush(r) \/ StartUnfollow(r) \/ RequestStep(r)
  PROVE  StoresMove /\ SeenMoves /\ UNCHANGED <<loop, clob>>
<1> DEFINE Goal == StoresMove /\ SeenMoves /\ UNCHANGED <<loop, clob>>
<1>1. ASSUME NEW r, NEW doc, NEW now, NEW rest, NEW keep, Proceed(r, doc, now, rest, keep)
      PROVE  StoresMove
  <2>1. Install(doc, now \ Bare, keep \ Bare)
    BY <1>1 DEF Proceed
  <2> QED BY <2>1, InstallMoves
<1>2. ASSUME NEW r, NEW doc, WriteAndReload(r, doc) PROVE StoresMove
  <2>1. BeginReload(r) => StoresMove
    BY <1>1 DEF BeginReload
  <2>2. FailReload(r) => StoresMove
    BY NothingMoves DEF FailReload
  <2> QED BY <1>2, <2>1, <2>2 DEF WriteAndReload
<1>3. ASSUME NEW r, Refuse(r) PROVE StoresMove
  BY <1>3, NothingMoves DEF Refuse
<1>4. ASSUME Start PROVE Goal
  <2>1. Install(file, Loaded(file), {})
    BY <1>4 DEF Start
  <2> QED BY <1>4, <2>1, InstallMoves DEF Start, SeenMoves
<1>5. ASSUME NEW r \in Requests, Direct(r) PROVE Goal
  <2>1. StoresMove
    BY <1>2, <1>3, <1>5 DEF Direct
  <2>2. SeenMoves
    <3>1. Script[r].acct \in AccountIds
      BY ConstantsOK
    <3> QED BY <1>5, <3>1 DEF Direct, SeenMoves, Migrate
  <2> QED BY <1>5, <2>1, <2>2 DEF Direct
<1>6. ASSUME NEW r \in Requests, StartFlush(r) PROVE Goal
  BY <1>6, NothingMoves DEF StartFlush, SeenMoves
<1>7. ASSUME NEW r \in Requests, StartUnfollow(r) PROVE Goal
  <2>1. StoresMove
    BY <1>3, <1>7, NothingMoves DEF StartUnfollow
  <2> QED BY <1>7, <2>1 DEF StartUnfollow, SeenMoves
<1>8. ASSUME NEW r \in Requests, EndFlush(r) PROVE Goal
  <2>1. StoresMove
    BY <1>2, <1>3, <1>8 DEF EndFlush
  <2> QED BY <1>8, <2>1 DEF EndFlush, SeenMoves
<1>9. ASSUME NEW r \in Requests, EndUnfollow(r) PROVE Goal
  <2>1. StoresMove
    BY <1>2, <1>3, <1>9 DEF EndUnfollow
  <2> QED BY <1>9, <2>1 DEF EndUnfollow, SeenMoves
<1>10. ASSUME NEW r \in Requests, Resolved(r) PROVE Goal
  <2>1. StoresMove
    BY <1>1, <1>10 DEF Resolved
  <2> QED BY <1>10, <2>1 DEF Resolved, SeenMoves
<1>11. ASSUME NEW r \in Requests, NotResolved(r) PROVE Goal
  BY <1>11, NothingMoves DEF NotResolved, FailReload, SeenMoves
<1> HIDE DEF Goal
<1>12. Goal
  BY <1>4, <1>5, <1>6, <1>7, <1>8, <1>9, <1>10, <1>11 DEF RequestStep
<1> QED BY <1>12 DEF Goal

-----------------------------------------------------------------------------
(* Requests, reloads, crashes and starts keep the invariant                *)

LEMMA OneMore ==
  ASSUME NEW S, IsFiniteSet(S), NEW x
  PROVE  /\ IsFiniteSet(S \cup {x}) /\ Cardinality(S \cup {x}) \in Nat
         /\ Cardinality(S \cup {x}) <= Cardinality(S) + 1
<1>1. Cardinality(S) \in Nat
  BY FS_CardinalityType
<1>2. /\ IsFiniteSet(S \cup {x})
      /\ Cardinality(S \cup {x}) = IF x \in S THEN Cardinality(S) ELSE Cardinality(S) + 1
  BY FS_AddElement
<1> QED BY <1>1, <1>2

LEMMA CountTypes ==
  ASSUME StoresInv, NEW a \in AccountIds
  PROVE  /\ opened[a] \in Nat /\ Closings(a) \in Int
         /\ Stranded(a) \in {0, 1}
         /\ Cardinality(Unrecorded(a)) \in Nat
         /\ \A t \in Trades : clob[a][t] \in Nat /\ Known(a, t) \in {0, 1}
<1>1. opened[a] \in Nat /\ \A t \in Trades : clob[a][t] \in Nat
  BY DEF StoresInv, RuntimesInv, OrderTypes
<1>2. Cardinality(Unrecorded(a)) \in Nat
  BY FS_CardinalityType DEF StoresInv, OrdersInv
<1> QED BY <1>1, <1>2 DEF Closings, Stranded, Known

\* A store that is closed under the cycle is counted when the cycle is stranded.
LEMMA ClosingsCount ==
  ASSUME StoresInv, loop' = loop, NEW a \in AccountIds,
         StoreStays(a) \/ StoreOpens(a) \/ StoreCloses(a)
  PROVE  /\ Closings(a)' \in Int /\ Stranded(a)' \in {0, 1}
         /\ Closings(a) - Stranded(a) <= Closings(a)' - Stranded(a)'
<1>1. opened[a] \in Nat /\ Closings(a) \in Int /\ Stranded(a) \in {0, 1}
  BY CountTypes
<1>2. CASE StoreStays(a)
  <2>1. Closings(a)' = Closings(a)
    BY <1>2 DEF StoreStays, Closings
  <2>2. loop.acct = a => MaySave' = MaySave
    BY <1>2 DEF StoreStays, MaySave, IsOpen
  <2>3. Stranded(a)' = Stranded(a)
    BY <2>2 DEF Stranded, OnTrade
  <2> QED BY <1>1, <2>1, <2>3
<1>3. CASE StoreOpens(a)
  <2>1. CASE a \in DOMAIN runtimes
    <3>1. Closings(a)' = Closings(a) + 1
      BY <1>1, <1>3, <2>1 DEF StoreOpens, Closings
    <3>2. Stranded(a)' \in {0, 1}
      BY DEF Stranded
    <3> QED BY <1>1, <3>1, <3>2
  <2>2. CASE a \notin DOMAIN runtimes
    <3>1. Closings(a)' = Closings(a)
      BY <1>1, <1>3, <2>2 DEF StoreOpens, Closings
    <3>2. Stranded(a)' \in {0, 1} /\ Stranded(a)' <= Stranded(a)
      BY <2>2 DEF Stranded, MaySave, IsOpen, OnTrade
    <3> QED BY <1>1, <3>1, <3>2
  <2> QED BY <2>1, <2>2
<1>4. CASE StoreCloses(a)
  <2>1. Closings(a)' = Closings(a) + 1
    BY <1>1, <1>4 DEF StoreCloses, Closings
  <2>2. Stranded(a)' \in {0, 1}
    BY DEF Stranded
  <2> QED BY <1>1, <2>1, <2>2
<1> QED BY <1>2, <1>3, <1>4

\* Live databases only gain rows.
LEMMA SeenGrows ==
  ASSUME OrderTypes, SeenMoves
  PROVE  /\ seen' \in [AccountIds -> [Modes -> SUBSET Trades]]
         /\ \A a \in AccountIds : seen[a]["live"] \subseteq seen'[a]["live"]
<1>1. "live" \in Modes /\ "preview" \in Modes
  BY DEF Modes
<1>2. CASE UNCHANGED <<seen, carried>>
  BY <1>2 DEF OrderTypes
<1>3. ASSUME NEW b \in AccountIds,
             seen' = [seen EXCEPT ![b]["live"] = seen[b]["live"] \cup seen[b]["preview"]]
      PROVE  /\ seen' \in [AccountIds -> [Modes -> SUBSET Trades]]
             /\ \A a \in AccountIds : seen[a]["live"] \subseteq seen'[a]["live"]
  <2> DEFINE more == seen[b]["live"] \cup seen[b]["preview"]
  <2>1. more \in SUBSET Trades /\ seen[b]["live"] \subseteq more /\ seen[b] \in [Modes -> SUBSET Trades]
    BY <1>1 DEF OrderTypes
  <2> HIDE DEF more
  <2>2. [seen[b] EXCEPT !["live"] = more] \in [Modes -> SUBSET Trades]
    BY <2>1
  <2>3. seen' = [seen EXCEPT ![b] = [seen[b] EXCEPT !["live"] = more]]
    BY <1>3 DEF more, OrderTypes
  <2> QED BY <1>1, <2>1, <2>2, <2>3 DEF OrderTypes
<1> QED BY <1>2, <1>3 DEF SeenMoves

LEMMA OutsideKeeps ==
  ASSUME StoresInv, StoresMove, SeenMoves, UNCHANGED <<loop, clob>>
  PROVE  StoresInv'
<1> USE DEF StoresInv
<1>1. RuntimesInv'
  BY DEF StoresMove
<1>2. LoopInv'
  <2>1. loop.pc \in {"idle", "turn", "cycle", "checks", "record"} /\ (OnTrade => loop.trade \in Trades)
    BY DEF LoopInv
  <2>2. ASSUME InCycle
        PROVE  /\ loop.acct \in AccountIds
               /\ loop.store.mode = ModeOf(loop.config)
               /\ loop.store.n \in Nat /\ loop.store.n <= opened'[loop.acct]
               /\ loop.acct \in DOMAIN runtimes' /\ loop.store.n = opened'[loop.acct]
                    => runtimes'[loop.acct].store = loop.store
    <3> DEFINE a == loop.acct
    <3>1. /\ a \in AccountIds /\ loop.store.mode = ModeOf(loop.config)
          /\ loop.store.n \in Nat /\ loop.store.n <= opened[a]
          /\ a \in DOMAIN runtimes /\ loop.store.n = opened[a] => runtimes[a].store = loop.store
      BY <2>2 DEF LoopInv
    <3>2. opened[a] \in Nat
      BY <3>1, CountTypes
    <3>3. StoreStays(a) \/ StoreOpens(a) \/ StoreCloses(a)
      BY <3>1 DEF StoresMove
    <3> HIDE DEF a
    <3>4. CASE StoreStays(a)
      BY <3>1, <3>4 DEF StoreStays, a
    <3>5. CASE StoreOpens(a)
      BY <3>1, <3>2, <3>5 DEF StoreOpens, a
    <3>6. CASE StoreCloses(a)
      BY <3>1, <3>6 DEF StoreCloses, a
    <3> QED BY <3>3, <3>4, <3>5, <3>6
  <2>3. loop = [pc |-> loop.pc, todo |-> loop.todo, acct |-> loop.acct, config |-> loop.config,
                store |-> loop.store, queue |-> loop.queue, trade |-> loop.trade]
    BY DEF LoopInv
  <2> QED BY <2>1, <2>2, <2>3 DEF LoopInv, InCycle, OnTrade
<1>3. OrderTypes'
  BY SeenGrows DEF OrderTypes
<1>4. OrdersInv'
  <2> SUFFICES ASSUME NEW a \in AccountIds
               PROVE  /\ IsFiniteSet(Unrecorded(a)')
                      /\ Cardinality(Unrecorded(a)') + Stranded(a)' <= Closings(a)'
                      /\ \A t \in Trades : clob[a][t] + Stranded(a)' <= Closings(a)' + Known(a, t)'
                      /\ loop.pc = "checks" /\ loop.acct = a /\ Live(loop.config)
                           => clob[a][loop.trade] + Stranded(a)' <= Closings(a)'
    BY DEF OrdersInv
  <2>1. /\ Closings(a)' \in Int /\ Stranded(a)' \in {0, 1}
        /\ Closings(a) - Stranded(a) <= Closings(a)' - Stranded(a)'
    BY ClosingsCount DEF StoresMove
  <2>2. \A t : InFlight(a, t)' <=> InFlight(a, t)
    BY DEF InFlight
  <2>3. seen[a]["live"] \subseteq seen'[a]["live"]
    BY SeenGrows
  <2>4. Unrecorded(a)' \subseteq Unrecorded(a)
    BY <2>2, <2>3 DEF Unrecorded
  <2>5. \A t \in Trades : Known(a, t)' \in {0, 1} /\ Known(a, t) <= Known(a, t)'
    BY <2>2, <2>3 DEF Known
  <2>6. /\ IsFiniteSet(Unrecorded(a))
        /\ Cardinality(Unrecorded(a)) + Stranded(a) <= Closings(a)
        /\ \A t \in Trades : clob[a][t] + Stranded(a) <= Closings(a) + Known(a, t)
        /\ loop.pc = "checks" /\ loop.acct = a /\ Live(loop.config)
             => clob[a][loop.trade] + Stranded(a) <= Closings(a)
    BY DEF OrdersInv
  <2>7. /\ IsFiniteSet(Unrecorded(a)') /\ Cardinality(Unrecorded(a)') \in Nat
        /\ Cardinality(Unrecorded(a)') <= Cardinality(Unrecorded(a))
    BY <2>4, <2>6, FS_Subset, FS_CardinalityType
  <2>8. /\ Closings(a) \in Int /\ Stranded(a) \in {0, 1} /\ Cardinality(Unrecorded(a)) \in Nat
        /\ \A t \in Trades : clob[a][t] \in Nat /\ Known(a, t) \in {0, 1}
    BY CountTypes
  <2>9. \A t \in Trades : clob[a][t] + Stranded(a)' <= Closings(a)' + Known(a, t)'
    <3> TAKE t \in Trades
    <3>1. /\ clob[a][t] \in Nat /\ Known(a, t) \in {0, 1} /\ Known(a, t)' \in {0, 1}
          /\ Known(a, t) <= Known(a, t)' /\ clob[a][t] + Stranded(a) <= Closings(a) + Known(a, t)
      BY <2>5, <2>6, <2>8
    <3> QED BY <3>1, <2>1, <2>8
  <2>10. loop.pc = "checks" /\ loop.acct = a /\ Live(loop.config)
           => clob[a][loop.trade] + Stranded(a)' <= Closings(a)'
    <3> HAVE loop.pc = "checks" /\ loop.acct = a /\ Live(loop.config)
    <3>1. clob[a][loop.trade] \in Nat
      BY <2>8 DEF LoopInv, OnTrade
    <3> QED BY <3>1, <2>1, <2>6, <2>8
  <2> QED BY <2>1, <2>6, <2>7, <2>8, <2>9, <2>10
<1>5. CarriedInv'
  <2>1. \A a \in AccountIds : seen[a]["live"] \subseteq seen'[a]["live"]
    BY SeenGrows
  <2>2. CASE UNCHANGED <<seen, carried>>
    BY <2>2 DEF CarriedInv
  <2>3. ASSUME NEW b \in AccountIds,
               seen' = [seen EXCEPT ![b]["live"] = seen[b]["live"] \cup seen[b]["preview"]],
               carried' = [carried EXCEPT ![b] = Carried(b)]
        PROVE  CarriedInv'
    <3>1. carried \in [AccountIds -> SUBSET Trades]
      BY DEF CarriedInv
    <3>2. Carried(b) \subseteq seen[b]["preview"] /\ seen[b]["preview"] \in SUBSET Trades
      BY DEF Carried, OrderTypes, Modes
    <3>3. carried' \in [AccountIds -> SUBSET Trades]
      BY <2>3, <3>1, <3>2
    <3>4. seen[b]["preview"] \subseteq seen'[b]["live"]
      BY <2>3 DEF OrderTypes, Modes
    <3>5. \A a \in AccountIds : carried'[a] \subseteq seen'[a]["live"]
      BY <2>1, <2>3, <3>1, <3>2, <3>4 DEF CarriedInv
    <3>6. loop.pc = "checks" /\ Live(loop.config) => loop.trade \notin carried'[loop.acct]
      <4> HAVE loop.pc = "checks" /\ Live(loop.config)
      <4>1. loop.acct \in AccountIds
        BY DEF LoopInv, InCycle, OnTrade
      <4>2. loop.acct = b => loop.trade \notin Carried(b)
        BY DEF Carried, UnderWay
      <4> QED BY <2>3, <3>1, <4>1, <4>2 DEF CarriedInv
    <3> QED BY <3>3, <3>5, <3>6 DEF CarriedInv
  <2> QED BY <2>2, <2>3 DEF SeenMoves
<1> QED BY <1>1, <1>2, <1>3, <1>4, <1>5

\* A crash closes every store; the order of the cycle may be without a row from then on.
LEMMA CrashKeeps ==
  ASSUME StoresInv, Crash
  PROVE  StoresInv'
<1> USE DEF StoresInv
<1>1. StoresMove
  BY CrashMoves
<1>2. DOMAIN runtimes' = {} /\ loop' = IdleLoop /\ UNCHANGED <<opened, seen, clob, carried>>
  BY DEF Crash
<1>3. loop'.pc = "idle" /\ LoopInv'
  BY <1>2 DEF LoopInv, IdleLoop, InCycle, OnTrade
<1>4. OrdersInv'
  <2> SUFFICES ASSUME NEW a \in AccountIds
               PROVE  /\ IsFiniteSet(Unrecorded(a)')
                      /\ Cardinality(Unrecorded(a)') + Stranded(a)' <= Closings(a)'
                      /\ \A t \in Trades : clob[a][t] + Stranded(a)' <= Closings(a)' + Known(a, t)'
    BY <1>2, <1>3 DEF OrdersInv
  <2> DEFINE held == IF OnTrade /\ loop.acct = a THEN 1 ELSE 0
  <2>1. Stranded(a)' = 0 /\ \A t : ~InFlight(a, t)'
    BY <1>3 DEF Stranded, OnTrade, InFlight
  <2>2. Closings(a)' = opened[a]
    BY <1>2, CountTypes DEF Closings
  <2>3. /\ opened[a] \in Nat /\ Closings(a) \in Int /\ Stranded(a) \in {0, 1}
        /\ Cardinality(Unrecorded(a)) \in Nat
        /\ \A t \in Trades : clob[a][t] \in Nat /\ Known(a, t) \in {0, 1}
    BY CountTypes
  <2>4. Closings(a) + held - Stranded(a) <= Closings(a)' /\ held \in {0, 1}
    <3>1. CASE a \in DOMAIN runtimes
      BY <2>2, <2>3, <3>1 DEF Closings
    <3>2. CASE a \notin DOMAIN runtimes
      BY <2>2, <2>3, <3>2 DEF Closings, Stranded, MaySave, IsOpen
    <3> QED BY <3>1, <3>2
  <2>5. \A t \in Trades : Known(a, t)' \in {0, 1} /\ Known(a, t) <= Known(a, t)' + held
    BY <1>2, <2>1 DEF Known, InFlight, OnTrade
  <2>6. Unrecorded(a)' \subseteq Unrecorded(a) \cup (IF held = 1 THEN {loop.trade} ELSE {})
    BY <1>2, <2>1 DEF Unrecorded, InFlight, OnTrade
  <2> HIDE DEF held
  <2>7. /\ IsFiniteSet(Unrecorded(a))
        /\ Cardinality(Unrecorded(a)) + Stranded(a) <= Closings(a)
        /\ \A t \in Trades : clob[a][t] + Stranded(a) <= Closings(a) + Known(a, t)
    BY DEF OrdersInv
  <2>8. /\ IsFiniteSet(Unrecorded(a)') /\ Cardinality(Unrecorded(a)') \in Nat
        /\ Cardinality(Unrecorded(a)') <= Cardinality(Unrecorded(a)) + held
    <3> DEFINE more == Unrecorded(a) \cup {loop.trade}
    <3>1. CASE held = 0
      BY <2>3, <2>6, <2>7, <3>1, FS_Subset, FS_CardinalityType
    <3>2. CASE held = 1
      <4>1. IsFiniteSet(more) /\ Cardinality(more) <= Cardinality(Unrecorded(a)) + 1
            /\ Cardinality(more) \in Nat
        BY <2>7, OneMore
      <4>2. Unrecorded(a)' \subseteq more
        BY <2>6, <3>2
      <4>3. IsFiniteSet(Unrecorded(a)') /\ Cardinality(Unrecorded(a)') <= Cardinality(more)
            /\ Cardinality(Unrecorded(a)') \in Nat
        BY <4>1, <4>2, FS_Subset, FS_CardinalityType
      <4> HIDE DEF more
      <4> QED BY <2>3, <3>2, <4>1, <4>3
    <3> QED BY <2>4, <3>1, <3>2
  <2>9. \A t \in Trades : clob[a][t] + Stranded(a)' <= Closings(a)' + Known(a, t)'
    <3> TAKE t \in Trades
    <3>1. /\ clob[a][t] \in Nat /\ Known(a, t) \in {0, 1} /\ Known(a, t)' \in {0, 1}
          /\ Known(a, t) <= Known(a, t)' + held /\ clob'[a][t] = clob[a][t]
          /\ clob[a][t] + Stranded(a) <= Closings(a) + Known(a, t)
      BY <1>2, <2>3, <2>5, <2>7
    <3> QED BY <3>1, <2>1, <2>2, <2>3, <2>4
  <2> QED BY <1>2, <2>1, <2>2, <2>3, <2>4, <2>7, <2>8, <2>9
<1>5. CarriedInv' /\ OrderTypes' /\ RuntimesInv'
  BY <1>1, <1>2, <1>3 DEF CarriedInv, OrderTypes, StoresMove
<1> QED BY <1>3, <1>4, <1>5

-----------------------------------------------------------------------------
(* The steps of the scheduler keep the invariant                           *)

Outside == <<runtimes, opened>>

\* Between trades nothing is under way.
LEMMA OffTradeKeeps ==
  ASSUME StoresInv, loop.pc # "record", ~OnTrade', LoopInv',
         UNCHANGED <<Outside, seen, clob, carried>>
  PROVE  StoresInv'
<1> USE DEF StoresInv, Outside
<1>1. RuntimesInv' /\ OrderTypes' /\ CarriedInv'
  BY DEF RuntimesInv, OrderTypes, CarriedInv, OnTrade
<1>2. OrdersInv'
  <2> SUFFICES ASSUME NEW a \in AccountIds
               PROVE  /\ IsFiniteSet(Unrecorded(a)')
                      /\ Cardinality(Unrecorded(a)') + Stranded(a)' <= Closings(a)'
                      /\ \A t \in Trades : clob[a][t] + Stranded(a)' <= Closings(a)' + Known(a, t)'
    BY DEF OrdersInv, OnTrade
  <2>1. Stranded(a)' = 0 /\ Closings(a)' = Closings(a)
    BY DEF Stranded, Closings
  <2>2. \A t : ~InFlight(a, t)' /\ ~InFlight(a, t)
    BY DEF InFlight, OnTrade
  <2>3. Unrecorded(a)' = Unrecorded(a) /\ \A t \in Trades : Known(a, t)' = Known(a, t)
    BY <2>2 DEF Unrecorded, Known
  <2>4. /\ Closings(a) \in Int /\ Stranded(a) \in {0, 1} /\ Cardinality(Unrecorded(a)) \in Nat
        /\ \A t \in Trades : clob[a][t] \in Nat /\ Known(a, t) \in {0, 1}
    BY CountTypes
  <2>5. /\ IsFiniteSet(Unrecorded(a))
        /\ Cardinality(Unrecorded(a)) + Stranded(a) <= Closings(a)
        /\ \A t \in Trades : clob[a][t] + Stranded(a) <= Closings(a) + Known(a, t)
    BY DEF OrdersInv
  <2>6. \A t \in Trades : clob[a][t] + 0 <= Closings(a) + Known(a, t)
    BY <2>4, <2>5
  <2> QED BY <2>1, <2>3, <2>4, <2>5, <2>6
<1> QED BY <1>1, <1>2

LEMMA SchedulerKeeps ==
  ASSUME StoresInv,
         \/ Tick \/ TickDone \/ EndCycle \/ RefuseTrade
         \/ \E a \in AccountIds : \E n \in 1..opened[a] : Turn(a, n)
  PROVE  StoresInv'
<1> USE DEF StoresInv, Outside
<1>1. UNCHANGED <<Outside, seen, clob, carried>>
  BY DEF Tick, TickDone, EndCycle, RefuseTrade, Turn
<1>2. loop = [pc |-> loop.pc, todo |-> loop.todo, acct |-> loop.acct, config |-> loop.config,
              store |-> loop.store, queue |-> loop.queue, trade |-> loop.trade]
  BY DEF LoopInv
<1>3. CASE Tick \/ TickDone \/ EndCycle
  <2>1. loop' = IdleLoop \/ loop' = BackToTurns \/ loop' = [loop EXCEPT !.pc = "turn", !.todo = EnabledOnes]
    BY <1>3 DEF Tick, TickDone, EndCycle
  <2>2. loop.pc # "record"
    BY <1>3 DEF Tick, TickDone, EndCycle
  <2>3. LoopInv' /\ ~OnTrade'
    <3>0. CASE loop' = IdleLoop
      BY <3>0 DEF LoopInv, IdleLoop, InCycle, OnTrade
    <3>1. CASE loop' = BackToTurns
      BY <3>1 DEF LoopInv, IdleLoop, BackToTurns, InCycle, OnTrade
    <3>2. CASE loop' = [loop EXCEPT !.pc = "turn", !.todo = EnabledOnes]
      <4>1. loop' = [pc |-> "turn", todo |-> EnabledOnes, acct |-> loop.acct,
                     config |-> loop.config, store |-> loop.store, queue |-> loop.queue,
                     trade |-> loop.trade]
        BY <1>2, <3>2
      <4> QED BY <4>1 DEF LoopInv, InCycle, OnTrade
    <3> QED BY <2>1, <3>0, <3>1, <3>2
  <2> QED BY <1>1, <2>2, <2>3, OffTradeKeeps
<1>4. CASE RefuseTrade
  <2>1. loop.pc = "checks"
        /\ loop' = IF MaySave THEN [loop EXCEPT !.pc = "cycle", !.trade = None] ELSE BackToTurns
    BY <1>4 DEF RefuseTrade
  <2>2. LoopInv' /\ ~OnTrade'
    <3>1. CASE loop' = BackToTurns
      BY <3>1 DEF LoopInv, IdleLoop, BackToTurns, InCycle, OnTrade
    <3>2. CASE loop' = [loop EXCEPT !.pc = "cycle", !.trade = None]
      <4>1. loop' = [pc |-> "cycle", todo |-> loop.todo, acct |-> loop.acct,
                     config |-> loop.config, store |-> loop.store, queue |-> loop.queue,
                     trade |-> None]
        BY <1>2, <3>2
      <4> QED BY <1>1, <2>1, <4>1 DEF LoopInv, InCycle, OnTrade
    <3> QED BY <2>1, <3>1, <3>2
  <2> QED BY <1>1, <2>1, <2>2, OffTradeKeeps
<1>5. ASSUME NEW a \in AccountIds, NEW n \in 1..opened[a], Turn(a, n)
      PROVE  StoresInv'
  <2>1. loop.pc = "turn"
    BY <1>5 DEF Turn
  <2>2. LoopInv' /\ ~OnTrade'
    <3>1. CASE loop' = [loop EXCEPT !.todo = @ \ {<<a, n>>}]
      <4>1. loop' = [pc |-> "turn", todo |-> loop.todo \ {<<a, n>>}, acct |-> loop.acct,
                     config |-> loop.config, store |-> loop.store, queue |-> loop.queue,
                     trade |-> loop.trade]
        BY <1>2, <2>1, <3>1
      <4> QED BY <4>1 DEF LoopInv, InCycle, OnTrade
    <3>2. ASSUME NEW q, a \in DOMAIN runtimes,
                 loop' = [loop EXCEPT !.pc = "cycle", !.todo = @ \ {<<a, n>>}, !.acct = a,
                                      !.config = runtimes[a].config, !.store = runtimes[a].store,
                                      !.queue = q]
          PROVE  LoopInv' /\ ~OnTrade'
      <4>1. loop' = [pc |-> "cycle", todo |-> loop.todo \ {<<a, n>>}, acct |-> a,
                     config |-> runtimes[a].config, store |-> runtimes[a].store, queue |-> q,
                     trade |-> loop.trade]
        BY <1>2, <3>2
      <4>2. IsRuntime(runtimes[a]) /\ runtimes[a].store.n = opened[a] /\ opened[a] \in Nat
        BY <3>2 DEF RuntimesInv
      <4> QED BY <1>1, <4>1, <4>2 DEF LoopInv, InCycle, OnTrade, IsRuntime
    <3> QED BY <1>5, <3>1, <3>2 DEF Turn
  <2> QED BY <1>1, <2>1, <2>2, OffTradeKeeps
<1> QED BY <1>3, <1>4, <1>5

\* A trade is only ordered if the live database does not know it.
LEMMA DetectKeeps ==
  ASSUME StoresInv, NEW t \in Trades, Detect(t)
  PROVE  StoresInv'
<1> USE DEF StoresInv, Outside
<1> DEFINE a == loop.acct
<1>1. UNCHANGED <<Outside, seen, clob, carried>> /\ loop.pc = "cycle" /\ MaySave
  BY DEF Detect
<1>2. loop = [pc |-> loop.pc, todo |-> loop.todo, acct |-> loop.acct, config |-> loop.config,
              store |-> loop.store, queue |-> loop.queue, trade |-> loop.trade]
  BY DEF LoopInv
<1>3. /\ a \in AccountIds /\ loop.store.mode = ModeOf(loop.config)
      /\ loop.store.n \in Nat /\ loop.store.n <= opened[a]
      /\ a \in DOMAIN runtimes /\ loop.store.n = opened[a] => runtimes[a].store = loop.store
  BY <1>1 DEF LoopInv, InCycle
<1>4. CASE loop' = [loop EXCEPT !.queue = @ \ {t}]
  <2>1. loop' = [pc |-> "cycle", todo |-> loop.todo, acct |-> a, config |-> loop.config,
                 store |-> loop.store, queue |-> loop.queue \ {t}, trade |-> loop.trade]
    BY <1>1, <1>2, <1>4
  <2>2. LoopInv' /\ ~OnTrade'
    BY <1>1, <1>3, <2>1 DEF LoopInv, InCycle, OnTrade
  <2> QED BY <1>1, <2>2, OffTradeKeeps
<1>5. CASE ~IsSeen(t) /\ loop' = [loop EXCEPT !.pc = "checks", !.queue = @ \ {t}, !.trade = t]
  <2>1. loop' = [pc |-> "checks", todo |-> loop.todo, acct |-> a, config |-> loop.config,
                 store |-> loop.store, queue |-> loop.queue \ {t}, trade |-> t]
    BY <1>1, <1>2, <1>5
  <2>2. LoopInv'
    BY <1>1, <1>3, <2>1 DEF LoopInv, InCycle, OnTrade
  <2>3. RuntimesInv' /\ OrderTypes'
    BY <1>1 DEF RuntimesInv, OrderTypes
  <2>4. Live(loop.config) => t \notin seen[a]["live"]
    BY <1>3, <1>5 DEF IsSeen, ModeOf
  <2>5. CarriedInv'
    BY <1>1, <1>3, <2>1, <2>4 DEF CarriedInv
  <2>6. OrdersInv'
    <3> SUFFICES ASSUME NEW b \in AccountIds
                 PROVE  /\ IsFiniteSet(Unrecorded(b)')
                        /\ Cardinality(Unrecorded(b)') + Stranded(b)' <= Closings(b)'
                        /\ \A u \in Trades : clob[b][u] + Stranded(b)' <= Closings(b)' + Known(b, u)'
                        /\ a = b /\ Live(loop.config) => clob[b][t] + Stranded(b)' <= Closings(b)'
      BY <1>1, <2>1 DEF OrdersInv
    <3>1. MaySave' = MaySave
      BY <1>1, <2>1 DEF MaySave, IsOpen
    <3>2. Stranded(b)' = 0 /\ Stranded(b) = 0 /\ Closings(b)' = Closings(b)
      BY <1>1, <3>1 DEF Stranded, Closings, OnTrade
    <3>3. \A u : ~InFlight(b, u)' /\ ~InFlight(b, u)
      BY <1>1, <2>1 DEF InFlight
    <3>4. Unrecorded(b)' = Unrecorded(b) /\ \A u \in Trades : Known(b, u)' = Known(b, u)
      BY <1>1, <3>3 DEF Unrecorded, Known
    <3>5. a = b /\ Live(loop.config) => Known(b, t) = 0
      BY <2>4, <3>3 DEF Known
    <3>6. /\ IsFiniteSet(Unrecorded(b))
          /\ Cardinality(Unrecorded(b)) + Stranded(b) <= Closings(b)
          /\ \A u \in Trades : clob[b][u] + Stranded(b) <= Closings(b) + Known(b, u)
      BY DEF OrdersInv
    <3>7. Closings(b) \in Int /\ clob[b][t] \in Nat
      BY CountTypes
    <3>8. a = b /\ Live(loop.config) => clob[b][t] + 0 <= Closings(b)
      BY <3>2, <3>5, <3>6, <3>7
    <3> QED BY <3>2, <3>4, <3>6, <3>8
  <2> QED BY <2>2, <2>3, <2>5, <2>6
<1> QED BY <1>4, <1>5 DEF Detect

LEMMA PlaceOrderKeeps ==
  ASSUME StoresInv, PlaceOrder
  PROVE  StoresInv'
<1> USE DEF StoresInv, Outside
<1> DEFINE a == loop.acct
           t == loop.trade
<1>1. /\ UNCHANGED <<Outside, seen, carried>> /\ loop.pc = "checks"
      /\ loop' = [loop EXCEPT !.pc = "record"]
      /\ clob' = IF Live(loop.config) THEN [clob EXCEPT ![a][t] = @ + 1] ELSE clob
  BY DEF PlaceOrder
<1>2. loop = [pc |-> loop.pc, todo |-> loop.todo, acct |-> loop.acct, config |-> loop.config,
              store |-> loop.store, queue |-> loop.queue, trade |-> loop.trade]
  BY DEF LoopInv
<1>3. loop' = [pc |-> "record", todo |-> loop.todo, acct |-> a, config |-> loop.config,
               store |-> loop.store, queue |-> loop.queue, trade |-> t]
  BY <1>1, <1>2
<1>4. /\ a \in AccountIds /\ t \in Trades /\ loop.store.mode = ModeOf(loop.config)
      /\ loop.store.n \in Nat /\ loop.store.n <= opened[a]
      /\ a \in DOMAIN runtimes /\ loop.store.n = opened[a] => runtimes[a].store = loop.store
  BY <1>1 DEF LoopInv, InCycle, OnTrade
<1>5. /\ clob' \in [AccountIds -> [Trades -> Nat]]
      /\ \A b \in AccountIds, u \in Trades :
           clob'[b][u] = IF Live(loop.config) /\ b = a /\ u = t THEN clob[b][u] + 1 ELSE clob[b][u]
  <2>1. clob \in [AccountIds -> [Trades -> Nat]]
    BY DEF OrderTypes
  <2> HIDE DEF a, t
  <2>2. CASE Live(loop.config)
    <3>1. clob' = [clob EXCEPT ![a] = [clob[a] EXCEPT ![t] = clob[a][t] + 1]]
      BY <1>1, <1>4, <2>1, <2>2
    <3>2. [clob[a] EXCEPT ![t] = clob[a][t] + 1] \in [Trades -> Nat]
      BY <1>4, <2>1
    <3> QED BY <1>4, <2>1, <2>2, <3>1, <3>2
  <2>3. CASE ~Live(loop.config)
    BY <1>1, <2>1, <2>3
  <2> QED BY <2>2, <2>3
<1>6. LoopInv' /\ RuntimesInv' /\ OrderTypes' /\ CarriedInv'
  BY <1>1, <1>3, <1>4, <1>5
     DEF LoopInv, InCycle, OnTrade, RuntimesInv, OrderTypes, CarriedInv
<1> HIDE DEF a, t
<1>7. OrdersInv'
  <2> SUFFICES ASSUME NEW b \in AccountIds
               PROVE  /\ IsFiniteSet(Unrecorded(b)')
                      /\ Cardinality(Unrecorded(b)') + Stranded(b)' <= Closings(b)'
                      /\ \A u \in Trades : clob'[b][u] + Stranded(b)' <= Closings(b)' + Known(b, u)'
    BY <1>3 DEF OrdersInv
  <2>1. MaySave' = MaySave
    BY <1>1, <1>3 DEF MaySave, IsOpen, a
  <2>2. Stranded(b)' = Stranded(b) /\ Closings(b)' = Closings(b)
    BY <1>1, <1>3, <2>1 DEF Stranded, Closings, OnTrade, a
  <2>3. \A u : /\ InFlight(b, u)' <=> b = a /\ u = t /\ Live(loop.config)
              /\ ~InFlight(b, u)
    BY <1>1, <1>3 DEF InFlight
  <2>4. Unrecorded(b)' \subseteq Unrecorded(b)
    BY <1>1, <1>5, <2>3 DEF Unrecorded
  <2>5. \A u \in Trades : Known(b, u)' = IF b = a /\ u = t /\ Live(loop.config) THEN 1 ELSE Known(b, u)
    BY <1>1, <2>3 DEF Known
  <2>6. /\ IsFiniteSet(Unrecorded(b))
        /\ Cardinality(Unrecorded(b)) + Stranded(b) <= Closings(b)
        /\ \A u \in Trades : clob[b][u] + Stranded(b) <= Closings(b) + Known(b, u)
        /\ b = a /\ Live(loop.config) => clob[b][t] + Stranded(b) <= Closings(b)
    BY <1>1 DEF OrdersInv, a, t
  <2>7. /\ Closings(b) \in Int /\ Stranded(b) \in {0, 1} /\ Cardinality(Unrecorded(b)) \in Nat
        /\ \A u \in Trades : clob[b][u] \in Nat
    BY CountTypes
  <2>8. /\ IsFiniteSet(Unrecorded(b)') /\ Cardinality(Unrecorded(b)') \in Nat
        /\ Cardinality(Unrecorded(b)') <= Cardinality(Unrecorded(b))
    BY <2>4, <2>6, FS_Subset, FS_CardinalityType
  <2>9. \A u \in Trades : clob'[b][u] + Stranded(b) <= Closings(b) + Known(b, u)'
    <3> TAKE u \in Trades
    <3>1. CASE b = a /\ u = t /\ Live(loop.config)
      <4>1. clob'[b][u] = clob[b][t] + 1 /\ Known(b, u)' = 1 /\ clob[b][t] \in Nat
        BY <1>5, <2>5, <2>7, <3>1
      <4> QED BY <2>6, <2>7, <3>1, <4>1
    <3>2. CASE ~(b = a /\ u = t /\ Live(loop.config))
      BY <1>5, <2>5, <2>6, <3>2
    <3> QED BY <3>1, <3>2
  <2> QED BY <2>2, <2>6, <2>7, <2>8, <2>9
<1> QED BY <1>6, <1>7

\* Only the order of a stranded cycle stays without a row.
LEMMA RecordKeeps ==
  ASSUME StoresInv, Record
  PROVE  StoresInv'
<1> USE DEF StoresInv, Outside
<1> DEFINE a == loop.acct
           t == loop.trade
           m == loop.store.mode
<1>1. /\ UNCHANGED <<Outside, clob, carried>> /\ loop.pc = "record"
      /\ IF MaySave
         THEN /\ seen' = [seen EXCEPT ![a][m] = @ \cup {t}]
              /\ loop' = [loop EXCEPT !.pc = "cycle", !.trade = None]
         ELSE UNCHANGED seen /\ loop' = BackToTurns
  BY DEF Record
<1>2. loop = [pc |-> loop.pc, todo |-> loop.todo, acct |-> loop.acct, config |-> loop.config,
              store |-> loop.store, queue |-> loop.queue, trade |-> loop.trade]
  BY DEF LoopInv
<1>3. /\ a \in AccountIds /\ t \in Trades /\ m = ModeOf(loop.config) /\ m \in Modes
      /\ loop.store.n \in Nat /\ loop.store.n <= opened[a]
      /\ a \in DOMAIN runtimes /\ loop.store.n = opened[a] => runtimes[a].store = loop.store
  BY <1>1 DEF LoopInv, InCycle, OnTrade, ModeOf, Modes
<1>4. LoopInv' /\ ~OnTrade'
  <2>1. CASE MaySave
    <3>1. loop' = [pc |-> "cycle", todo |-> loop.todo, acct |-> a, config |-> loop.config,
                   store |-> loop.store, queue |-> loop.queue, trade |-> None]
      BY <1>1, <1>2, <2>1
    <3> QED BY <1>1, <1>3, <3>1 DEF LoopInv, InCycle, OnTrade
  <2>2. CASE ~MaySave
    BY <1>1, <2>2 DEF LoopInv, IdleLoop, BackToTurns, InCycle, OnTrade
  <2> QED BY <2>1, <2>2
<1> HIDE DEF a, t, m
<1>5. /\ seen' \in [AccountIds -> [Modes -> SUBSET Trades]]
      /\ \A b \in AccountIds : seen[b]["live"] \subseteq seen'[b]["live"]
      /\ MaySave /\ Live(loop.config) => t \in seen'[a]["live"]
  <2>1. seen \in [AccountIds -> [Modes -> SUBSET Trades]] /\ "live" \in Modes
    BY DEF OrderTypes, Modes
  <2>2. CASE MaySave
    <3> DEFINE row == [seen[a] EXCEPT ![m] = seen[a][m] \cup {t}]
    <3>1. row \in [Modes -> SUBSET Trades] /\ seen[a]["live"] \subseteq row["live"]
          /\ t \in row[m]
      BY <1>3, <2>1
    <3>2. seen' = [seen EXCEPT ![a] = row]
      BY <1>1, <1>3, <2>1, <2>2
    <3>3. Live(loop.config) => m = "live"
      BY <1>3 DEF ModeOf
    <3> HIDE DEF row
    <3> QED BY <1>3, <2>1, <3>1, <3>2, <3>3
  <2>3. CASE ~MaySave
    BY <1>1, <2>1, <2>3
  <2> QED BY <2>2, <2>3
<1>6. RuntimesInv' /\ OrderTypes'
  BY <1>1, <1>5 DEF RuntimesInv, OrderTypes
<1>7. CarriedInv'
  BY <1>1, <1>4, <1>5 DEF CarriedInv, OnTrade
<1>8. OrdersInv'
  <2> SUFFICES ASSUME NEW b \in AccountIds
               PROVE  /\ IsFiniteSet(Unrecorded(b)')
                      /\ Cardinality(Unrecorded(b)') + Stranded(b)' <= Closings(b)'
                      /\ \A u \in Trades : clob[b][u] + Stranded(b)' <= Closings(b)' + Known(b, u)'
    BY <1>1, <1>4 DEF OrdersInv, OnTrade
  <2>1. Stranded(b)' = 0 /\ Closings(b)' = Closings(b) /\ \A u : ~InFlight(b, u)'
    BY <1>1, <1>4 DEF Stranded, Closings, InFlight, OnTrade
  <2>2. Stranded(b) = IF b = a /\ ~MaySave THEN 1 ELSE 0
    BY <1>1 DEF Stranded, OnTrade, a
  <2>3. \A u : InFlight(b, u) => b = a /\ u = t /\ Live(loop.config)
    BY DEF InFlight, a, t
  <2>4. Unrecorded(b)' \subseteq Unrecorded(b) \cup (IF Stranded(b) = 1 THEN {t} ELSE {})
    BY <1>1, <1>5, <2>1, <2>2, <2>3 DEF Unrecorded
  <2>5. \A u \in Trades : Known(b, u)' \in {0, 1} /\ Known(b, u) <= Known(b, u)' + Stranded(b)
    <3> TAKE u \in Trades
    <3>1. CASE u \in seen[b]["live"]
      BY <1>5, <2>2, <3>1 DEF Known
    <3>2. CASE u \notin seen[b]["live"] /\ InFlight(b, u) /\ MaySave
      BY <1>5, <2>2, <2>3, <3>2 DEF Known
    <3>3. CASE u \notin seen[b]["live"] /\ (~InFlight(b, u) \/ ~MaySave)
      BY <2>2, <2>3, <3>3 DEF Known
    <3> QED BY <3>1, <3>2, <3>3
  <2>6. /\ IsFiniteSet(Unrecorded(b))
        /\ Cardinality(Unrecorded(b)) + Stranded(b) <= Closings(b)
        /\ \A u \in Trades : clob[b][u] + Stranded(b) <= Closings(b) + Known(b, u)
    BY DEF OrdersInv
  <2>7. /\ Closings(b) \in Int /\ Stranded(b) \in {0, 1} /\ Cardinality(Unrecorded(b)) \in Nat
        /\ \A u \in Trades : clob[b][u] \in Nat /\ Known(b, u) \in {0, 1}
    BY CountTypes
  <2>8. /\ IsFiniteSet(Unrecorded(b)') /\ Cardinality(Unrecorded(b)') \in Nat
        /\ Cardinality(Unrecorded(b)') <= Cardinality(Unrecorded(b)) + Stranded(b)
    <3>1. CASE Stranded(b) = 0
      BY <2>4, <2>6, <2>7, <3>1, FS_Subset, FS_CardinalityType
    <3>2. CASE Stranded(b) = 1
      <4> DEFINE more == Unrecorded(b) \cup {t}
      <4>1. IsFiniteSet(more) /\ Cardinality(more) <= Cardinality(Unrecorded(b)) + 1
            /\ Cardinality(more) \in Nat
        BY <2>6, OneMore
      <4>2. Unrecorded(b)' \subseteq more
        BY <2>4, <3>2
      <4>3. IsFiniteSet(Unrecorded(b)') /\ Cardinality(Unrecorded(b)') <= Cardinality(more)
            /\ Cardinality(Unrecorded(b)') \in Nat
        BY <4>1, <4>2, FS_Subset, FS_CardinalityType
      <4> HIDE DEF more
      <4> QED BY <2>7, <3>2, <4>1, <4>3
    <3> QED BY <2>7, <3>1, <3>2
  <2>9. \A u \in Trades : clob[b][u] + 0 <= Closings(b) + Known(b, u)'
    <3> TAKE u \in Trades
    <3>1. /\ clob[b][u] \in Nat /\ Known(b, u) \in {0, 1} /\ Known(b, u)' \in {0, 1}
          /\ Known(b, u) <= Known(b, u)' + Stranded(b)
          /\ clob[b][u] + Stranded(b) <= Closings(b) + Known(b, u)
      BY <2>5, <2>6, <2>7
    <3> QED BY <3>1, <2>7
  <2> QED BY <2>1, <2>6, <2>7, <2>8, <2>9
<1> QED BY <1>4, <1>6, <1>7, <1>8

-----------------------------------------------------------------------------
(* The theorems                                                            *)

LEMMA StoresInit ==
  ASSUME Init
  PROVE  StoresInv
<1>1. RuntimesInv
  <2>1. opened \in [AccountIds -> Nat]
    BY DEF Init
  <2> SUFFICES ASSUME NEW a \in AccountIds, a \in DOMAIN runtimes
               PROVE  IsRuntime(runtimes[a]) /\ runtimes[a].store.n = opened[a]
    BY <2>1 DEF RuntimesInv
  <2> DEFINE e == AccountOf(file, a).enabled
             c == Config(file, a)
  <2>2. a \in Loaded(file)
    BY DEF Init
  <2>3. runtimes[a] = [obj |-> 1, enabled |-> e, config |-> c, store |-> [mode |-> ModeOf(c), n |-> 1]]
    BY <2>2 DEF Init
  <2>4. opened[a] = 1
    BY <2>2 DEF Init
  <2> HIDE DEF e, c
  <2> QED BY <2>3, <2>4 DEF IsRuntime
<1>2. LoopInv /\ ~OnTrade
  BY DEF Init, LoopInv, IdleLoop, InCycle, OnTrade
<1>3. OrderTypes
  BY DEF Init, OrderTypes, Modes
<1>4. OrdersInv
  <2> SUFFICES ASSUME NEW a \in AccountIds
               PROVE  /\ IsFiniteSet(Unrecorded(a))
                      /\ Cardinality(Unrecorded(a)) + Stranded(a) <= Closings(a)
                      /\ \A t \in Trades : clob[a][t] + Stranded(a) <= Closings(a) + Known(a, t)
    BY <1>2 DEF OrdersInv, OnTrade
  <2>1. Unrecorded(a) = {}
    BY DEF Init, Unrecorded
  <2>2. Stranded(a) = 0 /\ Closings(a) = 0 /\ \A t \in Trades : clob[a][t] = 0 /\ Known(a, t) = 0
    BY <1>2 DEF Init, Stranded, Closings, Known, Modes, InFlight, OnTrade
  <2> QED BY <2>1, <2>2, FS_EmptySet
<1>5. CarriedInv
  BY <1>2 DEF Init, CarriedInv, OnTrade
<1> QED BY <1>1, <1>2, <1>3, <1>4, <1>5 DEF StoresInv

LEMMA StoresStep ==
  ASSUME StoresInv, [Next]_vars
  PROVE  StoresInv'
<1>1. CASE UNCHANGED vars
  <2>1. UNCHANGED <<runtimes, opened, seen, clob, loop, carried>>
    BY <1>1 DEF vars
  <2>2. StoresMove /\ SeenMoves
    BY <2>1, NothingMoves DEF SeenMoves, StoresInv
  <2> QED BY <2>1, <2>2, OutsideKeeps
<1>2. CASE Start \/ \E r \in Requests : Direct(r) \/ StartFlush(r) \/ StartUnfollow(r) \/ RequestStep(r)
  BY <1>2, OutsideSteps, OutsideKeeps DEF StoresInv
<1>3. CASE LoopStep
  BY <1>3, SchedulerKeeps, DetectKeeps, PlaceOrderKeeps, RecordKeeps DEF LoopStep
<1>4. CASE Crash
  BY <1>4, CrashKeeps
<1> QED BY <1>1, <1>2, <1>3, <1>4 DEF Next

\* A live order that has no row was placed by a cycle whose store was closed under it,
\* whatever the requests, their reloads, failing lookups and crashes do, and however
\* many there are.
THEOREM LostWithStoresOnly == Spec => []OrdersLostWithStoresOnly
<1>1. Init => StoresInv
  BY StoresInit
<1>2. StoresInv /\ [Next]_vars => StoresInv'
  BY StoresStep
<1>3. StoresInv => OrdersLostWithStoresOnly
  <2> SUFFICES ASSUME StoresInv, NEW a \in AccountIds
               PROVE  /\ Cardinality(Unrecorded(a)) <= Closings(a)
                      /\ \A t \in Trades : clob[a][t] <= 1 + Closings(a)
    BY DEF OrdersLostWithStoresOnly
  <2>1. /\ Closings(a) \in Int /\ Stranded(a) \in {0, 1} /\ Cardinality(Unrecorded(a)) \in Nat
        /\ \A t \in Trades : clob[a][t] \in Nat /\ Known(a, t) \in {0, 1}
    BY CountTypes
  <2>2. /\ Cardinality(Unrecorded(a)) + Stranded(a) <= Closings(a)
        /\ \A t \in Trades : clob[a][t] + Stranded(a) <= Closings(a) + Known(a, t)
    BY DEF StoresInv, OrdersInv
  <2>3. \A t \in Trades : clob[a][t] <= 1 + Closings(a)
    <3> TAKE t \in Trades
    <3>1. clob[a][t] \in Nat /\ Known(a, t) \in {0, 1} /\ clob[a][t] + Stranded(a) <= Closings(a) + Known(a, t)
      BY <2>1, <2>2
    <3> QED BY <2>1, <3>1
  <2> QED BY <2>1, <2>2, <2>3
<1> QED BY <1>1, <1>2, <1>3, PTL DEF Spec

\* Only a cycle orders, a trade its live database does not know; what was carried over
\* is there.
THEOREM CarriedNeverOrdered == Spec => SwitchKeepsSeen
<1> DEFINE Held == \A a \in AccountIds, t \in Trades : clob'[a][t] > clob[a][t] => t \notin carried[a]
<1>1. Init => StoresInv
  BY StoresInit
<1>2. StoresInv /\ [Next]_vars => StoresInv'
  BY StoresStep
<1>3. StoresInv /\ [Next]_vars => [Held]_vars
  <2> SUFFICES ASSUME StoresInv, Next, NEW a \in AccountIds, NEW t \in Trades, clob'[a][t] > clob[a][t]
               PROVE  t \notin carried[a]
    OBVIOUS
  <2>1. clob[a][t] \in Nat
    BY CountTypes
  <2>2. clob' # clob
    BY <2>1
  <2>3. PlaceOrder
    <3>1. ~(Start \/ \E r \in Requests : Direct(r) \/ StartFlush(r) \/ StartUnfollow(r) \/ RequestStep(r))
      BY <2>2, OutsideSteps DEF StoresInv
    <3> QED BY <2>2, <3>1
            DEF Next, LoopStep, Crash, Tick, TickDone, EndCycle, RefuseTrade, Record, Turn, Detect
  <2>4. /\ loop.pc = "checks" /\ Live(loop.config)
        /\ clob' = [clob EXCEPT ![loop.acct][loop.trade] = @ + 1]
    BY <2>2, <2>3 DEF PlaceOrder
  <2>5. loop.acct \in AccountIds /\ loop.trade \in Trades /\ clob \in [AccountIds -> [Trades -> Nat]]
    BY <2>4 DEF StoresInv, LoopInv, OrderTypes, InCycle, OnTrade
  <2>6. a = loop.acct /\ t = loop.trade
    BY <2>1, <2>4, <2>5
  <2> QED BY <2>4, <2>6 DEF StoresInv, CarriedInv
<1>4. Spec => [][Held]_vars
  BY <1>1, <1>2, <1>3, PTL DEF Spec
<1> QED BY <1>4 DEF SwitchKeepsSeen

-----------------------------------------------------------------------------
(* Documents                                                               *)

\* What reloading needs of a document: accounts in a sequence, with ids that differ.
AccountFields == {"id", "enabled", "global", "leaders"}
AccountsInv(accounts) ==
  /\ accounts \in Seq({accounts[i] : i \in DOMAIN accounts}) /\ Len(accounts) > 0
  /\ \A i \in DOMAIN accounts :
       DOMAIN accounts[i] = AccountFields /\ accounts[i].id \in AccountIds
  /\ \A i, j \in DOMAIN accounts : accounts[i].id = accounts[j].id => i = j
DocumentInv(doc) ==
  DOMAIN doc = {"format", "defaults", "accounts"} /\ AccountsInv(doc.accounts)

LEMMA SeqDomain ==
  ASSUME NEW s, s \in Seq({s[i] : i \in DOMAIN s})
  PROVE  /\ DOMAIN s = 1..Len(s) /\ Len(s) \in Nat
         /\ s = [i \in 1..Len(s) |-> s[i]]
<1> DEFINE S == {s[i] : i \in DOMAIN s}
<1> HIDE DEF S
<1>1. s \in Seq(S)
  BY DEF S
<1> QED BY <1>1, LenProperties

LEMMA SeqOfDomain ==
  ASSUME NEW n \in Nat, NEW s, s = [i \in 1..n |-> s[i]]
  PROVE  s \in Seq({s[i] : i \in DOMAIN s}) /\ Len(s) = n
<1>1. DOMAIN s = 1..n
  OBVIOUS
<1> DEFINE S == {s[i] : i \in DOMAIN s}
<1>2. \A i \in 1..n : s[i] \in S
  BY <1>1
<1> HIDE DEF S
<1>3. s \in [1..n -> S]
  BY <1>2
<1>4. s \in Seq(S) /\ Len(s) = n
  BY <1>3
<1> QED BY <1>4 DEF S

LEMMA LegacyDocument ==
  ASSUME NEW global, NEW leaders
  PROVE  DocumentInv(Legacy(global, leaders))
<1> DEFINE acc == [id |-> "default", enabled |-> TRUE, global |-> NoOverrides, leaders |-> leaders]
           accounts == <<acc>>
<1>1. DOMAIN acc = AccountFields /\ acc.id = "default"
  BY DEF AccountFields
<1>2. Legacy(global, leaders) = [format |-> "legacy", defaults |-> global, accounts |-> accounts]
  BY DEF Legacy
<1> HIDE DEF acc
<1>3. DOMAIN accounts = 1..1 /\ accounts[1] = acc /\ Len(accounts) = 1
  OBVIOUS
<1>4. accounts = [i \in 1..1 |-> accounts[i]]
  BY <1>3
<1> HIDE DEF accounts
<1>5. accounts \in Seq({accounts[i] : i \in DOMAIN accounts})
  BY <1>4, SeqOfDomain
<1>6. AccountsInv(accounts)
  BY <1>1, <1>3, <1>5, ConstantsOK DEF AccountsInv
<1> QED BY <1>2, <1>6 DEF DocumentInv

\* A document as it is given to start with.
LEMMA GivenDocument ==
  ASSUME NEW doc, IsDocument(doc)
  PROVE  DocumentInv(doc)
<1> DEFINE accounts == doc.accounts
           n == Len(accounts)
<1>1. accounts \in Seq(Account) /\ n > 0
      /\ (\A i, j \in DOMAIN accounts : accounts[i].id = accounts[j].id => i = j)
      /\ DOMAIN doc = {"format", "defaults", "accounts"}
  BY DEF IsDocument
<1>2. n \in Nat /\ DOMAIN accounts = 1..n /\ accounts \in [1..n -> Account]
  BY <1>1
<1> HIDE DEF n, accounts
<1>3. accounts = [i \in 1..n |-> accounts[i]]
  BY <1>2
<1>4. accounts \in Seq({accounts[i] : i \in DOMAIN accounts}) /\ Len(accounts) = n
  BY <1>2, <1>3, SeqOfDomain
<1>5. \A i \in DOMAIN accounts : DOMAIN accounts[i] = AccountFields /\ accounts[i].id \in AccountIds
  <2> TAKE i \in DOMAIN accounts
  <2>1. accounts[i] \in [id : AccountIds, enabled : BOOLEAN, global : Overrides, leaders : LeaderTable]
    BY <1>2 DEF Account
  <2> QED BY <2>1 DEF AccountFields
<1>6. AccountsInv(accounts)
  BY <1>1, <1>4, <1>5 DEF AccountsInv
<1> QED BY <1>1, <1>6 DEF DocumentInv, accounts

LEMMA WithDocument ==
  ASSUME NEW doc, DocumentInv(doc), NEW a, NEW account,
         a \in Ids(doc) => DOMAIN account = AccountFields /\ account.id = a
  PROVE  DocumentInv(With(doc, a, account)) /\ With(doc, a, account).format = doc.format
<1> DEFINE accounts == doc.accounts
           n == Len(accounts)
           changed == [i \in DOMAIN accounts |-> IF accounts[i].id = a THEN account ELSE accounts[i]]
           new == [doc EXCEPT !.accounts = changed]
<1>1. With(doc, a, account) = new
  BY DEF With
<1>2. AccountsInv(accounts) /\ DOMAIN doc = {"format", "defaults", "accounts"}
  BY DEF DocumentInv
<1>3. \A i \in DOMAIN accounts : accounts[i].id = a => a \in Ids(doc)
  BY DEF Ids
<1>4. DOMAIN new = {"format", "defaults", "accounts"} /\ new.accounts = changed /\ new.format = doc.format
  BY <1>2
<1> HIDE DEF accounts
<1>5. DOMAIN accounts = 1..n /\ n \in Nat
  BY <1>2, SeqDomain DEF AccountsInv
<1>6. DOMAIN changed = 1..n /\ changed = [i \in 1..n |-> changed[i]]
  BY <1>5
<1>7. \A i \in 1..n : /\ changed[i] = IF accounts[i].id = a THEN account ELSE accounts[i]
                      /\ DOMAIN changed[i] = AccountFields /\ changed[i].id = accounts[i].id
  BY <1>2, <1>3, <1>5 DEF AccountsInv
<1> HIDE DEF changed, new, n
<1>8. changed \in Seq({changed[i] : i \in DOMAIN changed}) /\ Len(changed) = n
  BY <1>5, <1>6, SeqOfDomain
<1>9. AccountsInv(changed)
  BY <1>2, <1>5, <1>6, <1>7, <1>8 DEF AccountsInv
<1>10. DocumentInv(new)
  BY <1>4, <1>9 DEF DocumentInv
<1> QED BY <1>1, <1>4, <1>10

\* The account that is found under an id has it.
LEMMA FoundAccount ==
  ASSUME NEW doc, DocumentInv(doc), NEW a \in Ids(doc)
  PROVE  /\ DOMAIN AccountOf(doc, a) = AccountFields /\ AccountOf(doc, a).id = a
         /\ \E i \in DOMAIN doc.accounts : AccountOf(doc, a) = doc.accounts[i]
<1>1. PICK i \in DOMAIN doc.accounts : doc.accounts[i].id = a
  BY DEF Ids
<1>2. \E j : j \in DOMAIN doc.accounts /\ doc.accounts[j].id = a
  BY <1>1
<1> DEFINE c == CHOOSE j \in DOMAIN doc.accounts : doc.accounts[j].id = a
<1>3. c \in DOMAIN doc.accounts /\ doc.accounts[c].id = a
  BY <1>1
<1>4. AccountOf(doc, a) = doc.accounts[c]
  BY DEF AccountOf
<1> HIDE DEF c
<1> QED BY <1>3, <1>4 DEF DocumentInv, AccountsInv

LEMMA AddedDocument ==
  ASSUME NEW doc, DocumentInv(doc), NEW a \in AccountIds, a \notin Ids(doc)
  PROVE  DocumentInv(AddAccount(doc, a))
<1> DEFINE accounts == doc.accounts
           n == Len(accounts)
           e == [id |-> a, enabled |-> TRUE, global |-> NoOverrides, leaders |-> NoLeaders]
           S == {accounts[i] : i \in DOMAIN accounts}
           T == S \cup {e}
           new == Append(accounts, e)
<1>1. AccountsInv(accounts)
  BY DEF DocumentInv
<1>2. DOMAIN e = AccountFields /\ e.id = a
  BY DEF AccountFields
<1>3. \A i \in DOMAIN accounts : accounts[i].id # a
  BY DEF Ids
<1>4. AddAccount(doc, a) = [format |-> "multi", defaults |-> doc.defaults, accounts |-> new]
  BY DEF AddAccount, Multi
<1> HIDE DEF accounts, e
<1>5. DOMAIN accounts = 1..n /\ n \in Nat
  BY <1>1, SeqDomain DEF AccountsInv
<1>6. accounts \in Seq(T)
  <2>1. accounts \in Seq(S)
    BY <1>1 DEF AccountsInv
  <2>2. \A i \in 1..n : accounts[i] \in T
    BY <1>5
  <2> HIDE DEF S, T
  <2> QED BY <1>5, <2>1, <2>2
<1>7. e \in T
  OBVIOUS
<1> HIDE DEF T, S
<1>8. /\ new \in Seq(T) /\ Len(new) = n + 1
      /\ \A i \in 1..n : new[i] = accounts[i]
      /\ new[n + 1] = e
  BY <1>6, <1>7, AppendProperties
<1> HIDE DEF new
<1>9. DOMAIN new = 1..(n + 1) /\ new = [i \in 1..(n + 1) |-> new[i]]
  BY <1>5, <1>8
<1>10. new \in Seq({new[i] : i \in DOMAIN new})
  BY <1>5, <1>9, SeqOfDomain
<1>11. \A i \in 1..(n + 1) : i \in 1..n \/ i = n + 1
  BY <1>5
<1>12. AccountsInv(new)
  <2>1. \A i \in DOMAIN new : DOMAIN new[i] = AccountFields /\ new[i].id \in AccountIds
    BY <1>1, <1>2, <1>5, <1>8, <1>9, <1>11 DEF AccountsInv
  <2>2. ASSUME NEW i \in DOMAIN new, NEW j \in DOMAIN new, new[i].id = new[j].id PROVE i = j
    BY <1>1, <1>2, <1>3, <1>5, <1>8, <1>9, <1>11, <2>2 DEF AccountsInv
  <2>3. Len(new) > 0
    BY <1>5, <1>8
  <2> QED BY <1>10, <2>1, <2>2, <2>3 DEF AccountsInv
<1> QED BY <1>4, <1>12 DEF DocumentInv

-----------------------------------------------------------------------------
(* What a document says of each account                                    *)

\* A document as the file holds it: settings by key, overrides of them, and in the
\* legacy format the one account that inherits everything.
Normal(doc) ==
  /\ DocumentInv(doc)
  /\ doc.format \in {"legacy", "multi"}
  /\ doc.defaults = [k \in Keys |-> doc.defaults[k]]
  /\ \A i \in DOMAIN doc.accounts : DOMAIN doc.accounts[i].global \subseteq Keys
  /\ doc.format = "legacy" => doc = Legacy(doc.defaults, doc.accounts[1].leaders)

LEMMA AccountAt ==
  ASSUME NEW doc, DocumentInv(doc), NEW i \in DOMAIN doc.accounts
  PROVE  doc.accounts[i].id \in Ids(doc) /\ AccountOf(doc, doc.accounts[i].id) = doc.accounts[i]
<1> DEFINE a == doc.accounts[i].id
           c == CHOOSE j \in DOMAIN doc.accounts : doc.accounts[j].id = a
<1>1. c \in DOMAIN doc.accounts /\ doc.accounts[c].id = a
  OBVIOUS
<1>2. AccountOf(doc, a) = doc.accounts[c] /\ a \in Ids(doc)
  BY DEF AccountOf, Ids
<1> HIDE DEF c
<1> QED BY <1>1, <1>2 DEF DocumentInv, AccountsInv

LEMMA LegacyView ==
  ASSUME NEW global, NEW leaders
  PROVE  /\ Ids(Legacy(global, leaders)) = {"default"}
         /\ AccountOf(Legacy(global, leaders), "default")
              = [id |-> "default", enabled |-> TRUE, global |-> NoOverrides, leaders |-> leaders]
<1> DEFINE doc == Legacy(global, leaders)
           acc == [id |-> "default", enabled |-> TRUE, global |-> NoOverrides, leaders |-> leaders]
<1>1. doc = [format |-> "legacy", defaults |-> global, accounts |-> <<acc>>]
  BY DEF Legacy
<1>2. DocumentInv(doc)
  BY LegacyDocument
<1>3. acc.id = "default"
  OBVIOUS
<1> HIDE DEF doc, acc
<1>4. DOMAIN doc.accounts = {1} /\ doc.accounts[1] = acc
  BY <1>1
<1>5. Ids(doc) = {"default"}
  BY <1>3, <1>4 DEF Ids
<1>6. AccountOf(doc, "default") = acc
  BY <1>2, <1>3, <1>4, AccountAt
<1> QED BY <1>5, <1>6 DEF doc, acc

\* An account of another configuration in the place of one with its id.
LEMMA WithView ==
  ASSUME NEW doc, DocumentInv(doc), NEW a \in Ids(doc), NEW account,
         DOMAIN account = AccountFields, account.id = a
  PROVE  LET new == With(doc, a, account)
         IN  /\ new.format = doc.format /\ new.defaults = doc.defaults
             /\ Len(new.accounts) = Len(doc.accounts)
             /\ Ids(new) = Ids(doc)
             /\ AccountOf(new, a) = account
             /\ \A b \in Ids(doc) \ {a} : AccountOf(new, b) = AccountOf(doc, b)
             /\ \A i \in DOMAIN new.accounts :
                  new.accounts[i] = account \/ \E j \in DOMAIN doc.accounts : new.accounts[i] = doc.accounts[j]
<1> DEFINE accounts == doc.accounts
           changed == [i \in DOMAIN accounts |-> IF accounts[i].id = a THEN account ELSE accounts[i]]
           new == With(doc, a, account)
<1>1. new = [doc EXCEPT !.accounts = changed] /\ DOMAIN doc = {"format", "defaults", "accounts"}
  BY DEF With, DocumentInv
<1>2. DocumentInv(new)
  BY WithDocument
<1> HIDE DEF new, changed
<1>3. new.format = doc.format /\ new.defaults = doc.defaults /\ new.accounts = changed
  BY <1>1
<1> USE DEF changed
<1>4. /\ DOMAIN new.accounts = DOMAIN accounts
      /\ \A i \in DOMAIN accounts :
           /\ new.accounts[i] = IF accounts[i].id = a THEN account ELSE accounts[i]
           /\ new.accounts[i].id = accounts[i].id
  BY <1>3
<1> HIDE DEF changed
<1>5. Ids(new) = Ids(doc)
  BY <1>4 DEF Ids
<1>6. Len(new.accounts) = Len(doc.accounts)
  BY <1>2, <1>4, SeqDomain DEF DocumentInv, AccountsInv
<1>7. ASSUME NEW b \in Ids(doc)
      PROVE  AccountOf(new, b) = IF b = a THEN account ELSE AccountOf(doc, b)
  <2>1. PICK i \in DOMAIN accounts : accounts[i].id = b
    BY DEF Ids
  <2>2. AccountOf(doc, b) = accounts[i]
    BY <2>1, AccountAt
  <2>3. AccountOf(new, b) = new.accounts[i]
    BY <1>2, <1>4, <2>1, AccountAt
  <2> QED BY <1>4, <2>1, <2>2, <2>3
<1> QED BY <1>3, <1>4, <1>5, <1>6, <1>7 DEF new

LEMMA AddView ==
  ASSUME NEW doc, DocumentInv(doc), NEW a \in AccountIds, a \notin Ids(doc)
  PROVE  LET new == AddAccount(doc, a)
         IN  /\ new.format = "multi" /\ new.defaults = doc.defaults
             /\ Len(new.accounts) > 1
             /\ Ids(new) = Ids(doc) \cup {a}
             /\ AccountOf(new, a) = [id |-> a, enabled |-> TRUE, global |-> NoOverrides, leaders |-> NoLeaders]
             /\ \A b \in Ids(doc) : AccountOf(new, b) = AccountOf(doc, b)
             /\ \A i \in DOMAIN new.accounts :
                  \/ new.accounts[i].global = NoOverrides
                  \/ \E j \in DOMAIN doc.accounts : new.accounts[i] = doc.accounts[j]
<1> DEFINE accounts == doc.accounts
           n == Len(accounts)
           e == [id |-> a, enabled |-> TRUE, global |-> NoOverrides, leaders |-> NoLeaders]
           added == Append(accounts, e)
           new == AddAccount(doc, a)
           S == {accounts[i] : i \in DOMAIN accounts}
<1>1. new = [format |-> "multi", defaults |-> doc.defaults, accounts |-> added]
  BY DEF AddAccount, Multi
<1>2. DocumentInv(new)
  BY AddedDocument
<1>3. AccountsInv(accounts)
  BY DEF DocumentInv
<1>4. e.id = a /\ e.global = NoOverrides
  OBVIOUS
<1> HIDE DEF new, e
<1>5. new.format = "multi" /\ new.defaults = doc.defaults /\ new.accounts = added
  BY <1>1
<1>6. accounts \in Seq(S) /\ DOMAIN accounts = 1..n /\ n \in Nat /\ n > 0
  BY <1>3, SeqDomain DEF AccountsInv
<1> HIDE DEF S, accounts
<1>7. Len(added) = n + 1 /\ (\A i \in 1..n : added[i] = accounts[i]) /\ added[n + 1] = e
      /\ DOMAIN added = 1..(n + 1)
  BY <1>6
<1> HIDE DEF added, n
<1>8. \A i \in 1..(n + 1) : i \in 1..n \/ i = n + 1
  BY <1>6
<1>9. \A i \in 1..n : i \in 1..(n + 1)
  BY <1>6
<1>10. Ids(new) = Ids(doc) \cup {a}
  BY <1>4, <1>5, <1>6, <1>7, <1>8, <1>9 DEF Ids, accounts
<1>11. AccountOf(new, a) = e
  <2>1. n + 1 \in DOMAIN new.accounts /\ new.accounts[n + 1] = e
    BY <1>5, <1>6, <1>7
  <2> QED BY <1>2, <1>4, <2>1, AccountAt
<1>12. ASSUME NEW b \in Ids(doc) PROVE AccountOf(new, b) = AccountOf(doc, b)
  <2>1. PICK i \in DOMAIN accounts : accounts[i].id = b
    BY DEF Ids, accounts
  <2>2. AccountOf(doc, b) = accounts[i]
    BY <2>1, AccountAt DEF accounts
  <2>3. i \in DOMAIN new.accounts /\ new.accounts[i] = accounts[i]
    BY <1>5, <1>6, <1>7, <1>9
  <2>4. AccountOf(new, b) = new.accounts[i]
    BY <1>2, <2>1, <2>3, AccountAt
  <2> QED BY <2>2, <2>3, <2>4
<1>13. \A i \in DOMAIN new.accounts :
         new.accounts[i].global = NoOverrides \/ \E j \in DOMAIN accounts : new.accounts[i] = accounts[j]
  BY <1>4, <1>5, <1>6, <1>7, <1>8
<1>14. Len(new.accounts) > 1
  BY <1>5, <1>6, <1>7
<1> QED BY <1>5, <1>10, <1>11, <1>12, <1>13, <1>14 DEF new, e, accounts

\* An account runs with its overrides over the defaults, in both formats.
LEMMA ConfigView ==
  ASSUME NEW doc, Normal(doc), NEW b \in Ids(doc)
  PROVE  /\ Config(doc, b) = [global |-> Overlay(AccountOf(doc, b).global, doc.defaults),
                              leaders |-> AccountOf(doc, b).leaders]
         /\ DOMAIN AccountOf(doc, b).global \subseteq Keys
         /\ DOMAIN Config(doc, b).global = Keys
<1>1. DOMAIN AccountOf(doc, b).global \subseteq Keys /\ DOMAIN doc.defaults = Keys
  BY FoundAccount DEF Normal
<1>2. DOMAIN Overlay(AccountOf(doc, b).global, doc.defaults) = Keys
  BY <1>1 DEF Overlay
<1>3. MergedGlobal(doc, AccountOf(doc, b)) = Overlay(AccountOf(doc, b).global, doc.defaults)
  <2>1. CASE doc.format = "legacy"
    <3>1. AccountOf(doc, b).global = NoOverrides
      <4>1. doc = Legacy(doc.defaults, doc.accounts[1].leaders)
        BY <2>1 DEF Normal
      <4>2. /\ Ids(doc) = {"default"}
            /\ AccountOf(doc, "default") = [id |-> "default", enabled |-> TRUE, global |-> NoOverrides,
                                            leaders |-> doc.accounts[1].leaders]
        BY <4>1, LegacyView
      <4> QED BY <4>2
    <3>2. DOMAIN NoOverrides = {}
      BY DEF NoOverrides
    <3>3. Overlay(NoOverrides, doc.defaults) = [k \in Keys |-> doc.defaults[k]]
      BY <1>1, <3>2 DEF Overlay
    <3> QED BY <2>1, <3>1, <3>3 DEF MergedGlobal, Normal
  <2>2. CASE doc.format # "legacy"
    BY <2>2 DEF MergedGlobal, DeepMerge
  <2> QED BY <2>1, <2>2
<1>4. Config(doc, b) = [global |-> Overlay(AccountOf(doc, b).global, doc.defaults),
                        leaders |-> AccountOf(doc, b).leaders]
  BY <1>3 DEF Config
<1> QED BY <1>1, <1>2, <1>4

\* What is written says the same of every account, whatever its format: a document of
\* the multi format replaces a legacy file only when it has more accounts.
LEMMA WrittenView ==
  ASSUME NEW onDisk, NEW doc, Normal(doc),
         onDisk.format = "legacy" /\ doc.format = "multi" => Len(doc.accounts) # 1
  PROVE  LET new == Written(onDisk, doc)
         IN  /\ Normal(new) /\ new.defaults = doc.defaults /\ Ids(new) = Ids(doc)
             /\ \A b \in Ids(doc) : AccountOf(new, b) = AccountOf(doc, b)
             /\ \A b \in Ids(doc) : Config(new, b) = Config(doc, b)
             /\ onDisk.format # "legacy" => new.format = "multi"
             /\ onDisk.format = doc.format => new.format = doc.format
<1> DEFINE new == Written(onDisk, doc)
<1>1. CASE onDisk.format = "legacy" /\ Len(doc.accounts) = 1
  <2>1. doc = Legacy(doc.defaults, doc.accounts[1].leaders) /\ doc.format = "legacy"
    BY <1>1 DEF Normal
  <2>2. new = ToLegacy(doc)
    BY <1>1 DEF Written
  <2>3. new = doc
    BY <2>1, <2>2 DEF ToLegacy, MergedGlobal
  <2> HIDE DEF new
  <2>4. new.format = "legacy"
    BY <2>1, <2>3
  <2> QED BY <1>1, <2>3, <2>4 DEF new
<1>2. CASE ~(onDisk.format = "legacy" /\ Len(doc.accounts) = 1)
  <2>1. new = [format |-> "multi", defaults |-> doc.defaults, accounts |-> doc.accounts]
    BY <1>2 DEF Written, ToMulti, Multi
  <2> HIDE DEF new
  <2>2. /\ new.format = "multi" /\ new.defaults = doc.defaults /\ new.accounts = doc.accounts
        /\ DOMAIN new = {"format", "defaults", "accounts"}
    BY <2>1
  <2>3. Normal(new)
    BY <2>2 DEF Normal, DocumentInv
  <2>4. Ids(new) = Ids(doc) /\ \A b \in Ids(doc) : AccountOf(new, b) = AccountOf(doc, b)
    BY <2>2 DEF Ids, AccountOf
  <2>5. ASSUME NEW b \in Ids(doc) PROVE Config(new, b) = Config(doc, b)
    BY <2>2, <2>3, <2>4, ConfigView
  <2>6. onDisk.format = doc.format => doc.format = "multi"
    <3> SUFFICES ASSUME onDisk.format = "legacy", doc.format = "legacy" PROVE FALSE
      BY DEF Normal
    <3>1. doc = Legacy(doc.defaults, doc.accounts[1].leaders)
      BY DEF Normal
    <3>2. DOMAIN doc.accounts = {1}
      BY <3>1 DEF Legacy
    <3>3. DOMAIN doc.accounts = 1..Len(doc.accounts) /\ Len(doc.accounts) \in Nat
      BY SeqDomain DEF Normal, DocumentInv, AccountsInv
    <3> DEFINE n == Len(doc.accounts)
    <3>4. n \in Nat /\ 1..n = {1} /\ n # 1
      BY <1>2, <3>2, <3>3
    <3> HIDE DEF n
    <3>5. n \in 1..n \/ n = 0
      BY <3>4
    <3> QED BY <3>4, <3>5
  <2> QED BY <2>2, <2>3, <2>4, <2>5, <2>6 DEF new
<1> QED BY <1>1, <1>2

-----------------------------------------------------------------------------
(* What each request makes of a document                                   *)

\* Every account but a is as it was.
OthersKept(doc, new, a) ==
  \A b \in Ids(doc) \ {a} :
    AccountOf(new, b).enabled = AccountOf(doc, b).enabled /\ Config(new, b) = Config(doc, b)

LEMMA LegacyIds ==
  ASSUME NEW doc, Normal(doc), doc.format = "legacy"
  PROVE  /\ Ids(doc) = {"default"}
         /\ AccountOf(doc, "default")
              = [id |-> "default", enabled |-> TRUE, global |-> NoOverrides, leaders |-> doc.accounts[1].leaders]
         /\ doc = Legacy(doc.defaults, doc.accounts[1].leaders)
<1>1. doc = Legacy(doc.defaults, doc.accounts[1].leaders)
  BY DEF Normal
<1>2. /\ Ids(doc) = {"default"}
      /\ AccountOf(doc, "default") = [id |-> "default", enabled |-> TRUE, global |-> NoOverrides,
                                      leaders |-> doc.accounts[1].leaders]
  BY <1>1, LegacyView
<1> QED BY <1>1, <1>2

\* The document of the legacy format that has these settings and leaders.
LEMMA NormalLegacy ==
  ASSUME NEW global, global = [k \in Keys |-> global[k]], NEW leaders
  PROVE  /\ Normal(Legacy(global, leaders))
         /\ Legacy(global, leaders).format = "legacy" /\ Legacy(global, leaders).defaults = global
<1> DEFINE acc == [id |-> "default", enabled |-> TRUE, global |-> NoOverrides, leaders |-> leaders]
           doc == Legacy(global, leaders)
<1>1. doc = [format |-> "legacy", defaults |-> global, accounts |-> <<acc>>]
  BY DEF Legacy
<1>2. DocumentInv(doc)
  BY LegacyDocument
<1>3. acc.global = NoOverrides /\ acc.leaders = leaders
  OBVIOUS
<1> HIDE DEF acc, doc
<1>4. DOMAIN doc.accounts = {1} /\ doc.accounts[1] = acc /\ doc.defaults = global /\ doc.format = "legacy"
  BY <1>1
<1>5. DOMAIN NoOverrides \subseteq Keys
  BY DEF NoOverrides
<1>6. doc = Legacy(doc.defaults, doc.accounts[1].leaders)
  BY <1>3, <1>4 DEF doc
<1>7. Normal(doc)
  BY <1>2, <1>3, <1>4, <1>5, <1>6 DEF Normal
<1> QED BY <1>4, <1>7 DEF doc

LEMMA PatchView ==
  ASSUME NEW doc, Normal(doc), NEW a \in Ids(doc), NEW patch, DOMAIN patch \subseteq Keys
  PROVE  LET new == ApplyGlobalPatch(doc, a, patch)
         IN  /\ Normal(new) /\ new.format = doc.format
             /\ Ids(new) = Ids(doc) /\ OthersKept(doc, new, a)
             /\ AccountOf(new, a).enabled = AccountOf(doc, a).enabled
             /\ Config(new, a).leaders = Config(doc, a).leaders
             /\ \A k \in Keys :
                  Config(new, a).global[k] = IF k \in DOMAIN patch THEN patch[k] ELSE Config(doc, a).global[k]
<1> DEFINE new == ApplyGlobalPatch(doc, a, patch)
           acc == AccountOf(doc, a)
<1>1. /\ Config(doc, a) = [global |-> Overlay(acc.global, doc.defaults), leaders |-> acc.leaders]
      /\ DOMAIN acc.global \subseteq Keys /\ DOMAIN Config(doc, a).global = Keys
  BY ConfigView
<1>2. DocumentInv(doc) /\ DOMAIN doc = {"format", "defaults", "accounts"} /\ DOMAIN doc.defaults = Keys
  BY DEF Normal, DocumentInv
<1>3. CASE doc.format = "legacy"
  <2> DEFINE merged == Overlay(patch, doc.defaults)
             leaders == doc.accounts[1].leaders
  <2>1. merged = [k \in Keys |-> IF k \in DOMAIN patch THEN patch[k] ELSE doc.defaults[k]]
    BY <1>2 DEF Overlay
  <2>2. /\ Ids(doc) = {"default"} /\ doc = Legacy(doc.defaults, leaders)
        /\ acc = [id |-> "default", enabled |-> TRUE, global |-> NoOverrides, leaders |-> leaders]
    BY <1>3, LegacyIds
  <2>3. new = [doc EXCEPT !.defaults = merged]
    BY <1>3 DEF ApplyGlobalPatch
  <2> HIDE DEF merged, leaders, acc, new
  <2>4. new = Legacy(merged, leaders)
    <3> DEFINE e == <<[id |-> "default", enabled |-> TRUE, global |-> NoOverrides, leaders |-> leaders]>>
    <3>1. /\ Legacy(doc.defaults, leaders) = [format |-> "legacy", defaults |-> doc.defaults, accounts |-> e]
          /\ Legacy(merged, leaders) = [format |-> "legacy", defaults |-> merged, accounts |-> e]
      BY DEF Legacy
    <3> HIDE DEF e
    <3>2. doc = [format |-> "legacy", defaults |-> doc.defaults, accounts |-> e]
      BY <2>2, <3>1
    <3> QED BY <2>3, <3>1, <3>2
  <2>5. merged = [k \in Keys |-> merged[k]]
    BY <2>1
  <2>6. Normal(new) /\ new.format = "legacy" /\ new.defaults = merged
    BY <2>4, <2>5, NormalLegacy
  <2>7. Ids(new) = {"default"} /\ AccountOf(new, "default") = acc
    BY <2>2, <2>4, LegacyView
  <2>8. a = "default"
    BY <2>2
  <2>9. /\ acc.global = NoOverrides /\ DOMAIN NoOverrides = {}
        /\ AccountOf(doc, a) = acc
    BY <2>2 DEF NoOverrides, acc
  <2>10. /\ Config(new, a) = [global |-> Overlay(acc.global, merged), leaders |-> acc.leaders]
         /\ Config(doc, a) = [global |-> Overlay(acc.global, doc.defaults), leaders |-> acc.leaders]
    BY <1>1, <2>6, <2>7, <2>8, ConfigView
  <2>11. \A k \in Keys : /\ Overlay(acc.global, merged)[k] = merged[k]
                         /\ Overlay(acc.global, doc.defaults)[k] = doc.defaults[k]
    BY <1>2, <2>1, <2>9 DEF Overlay
  <2>12. \A k \in Keys :
           Config(new, a).global[k] = IF k \in DOMAIN patch THEN patch[k] ELSE Config(doc, a).global[k]
    BY <2>1, <2>10, <2>11
  <2>13. Config(new, a).leaders = Config(doc, a).leaders
    BY <2>10
  <2>14. OthersKept(doc, new, a)
    BY <2>2, <2>8 DEF OthersKept
  <2> QED BY <1>3, <2>2, <2>6, <2>7, <2>8, <2>9, <2>12, <2>13, <2>14 DEF new
<1>4. CASE doc.format # "legacy"
  <2> DEFINE merged == Overlay(patch, MergedGlobal(doc, acc))
             changed == {k \in Keys : merged[k] # doc.defaults[k]}
             global == [k \in changed |-> merged[k]]
             account == [acc EXCEPT !.global = global]
  <2>1. new = With(doc, a, account)
    BY <1>4 DEF ApplyGlobalPatch
  <2>2. MergedGlobal(doc, acc) = Config(doc, a).global
    BY DEF Config
  <2>3. merged = [k \in Keys |-> IF k \in DOMAIN patch THEN patch[k] ELSE Config(doc, a).global[k]]
    <3>1. merged = [k \in DOMAIN patch \cup Keys |-> IF k \in DOMAIN patch THEN patch[k] ELSE Config(doc, a).global[k]]
      BY <1>1, <2>2 DEF Overlay
    <3>2. DOMAIN patch \cup Keys = Keys
      OBVIOUS
    <3> QED BY <3>1, <3>2
  <2>4. DOMAIN acc = AccountFields /\ acc.id = a
    BY <1>2, FoundAccount
  <2> HIDE DEF merged, acc
  <2>5. DOMAIN global = changed /\ changed \subseteq Keys /\ \A k \in changed : global[k] = merged[k]
    OBVIOUS
  <2>6. \A k \in Keys \ changed : merged[k] = doc.defaults[k]
    OBVIOUS
  <2> HIDE DEF global, changed
  <2>7. /\ DOMAIN account = AccountFields /\ account.id = a /\ account.global = global
        /\ account.enabled = acc.enabled /\ account.leaders = acc.leaders
    BY <2>4 DEF AccountFields
  <2> HIDE DEF account, new
  <2>8. /\ new.format = doc.format /\ new.defaults = doc.defaults /\ Ids(new) = Ids(doc)
        /\ AccountOf(new, a) = account
        /\ \A b \in Ids(doc) \ {a} : AccountOf(new, b) = AccountOf(doc, b)
        /\ \A i \in DOMAIN new.accounts :
             new.accounts[i] = account \/ \E j \in DOMAIN doc.accounts : new.accounts[i] = doc.accounts[j]
    BY <1>2, <2>1, <2>7, WithView
  <2>9. DocumentInv(new)
    BY <1>2, <2>1, <2>7, WithDocument
  <2>10. Normal(new)
    BY <1>4, <2>5, <2>7, <2>8, <2>9 DEF Normal
  <2>11. Config(new, a) = [global |-> Overlay(global, doc.defaults), leaders |-> acc.leaders]
    BY <2>7, <2>8, <2>10, ConfigView
  <2>12. \A k \in Keys : Overlay(global, doc.defaults)[k] = merged[k]
    BY <1>2, <2>5, <2>6 DEF Overlay
  <2>13. \A k \in Keys :
           Config(new, a).global[k] = IF k \in DOMAIN patch THEN patch[k] ELSE Config(doc, a).global[k]
    BY <2>3, <2>11, <2>12
  <2>14. Config(new, a).leaders = Config(doc, a).leaders
    BY <1>1, <2>11 DEF acc
  <2>15. OthersKept(doc, new, a)
    <3> SUFFICES ASSUME NEW b \in Ids(doc) \ {a}
                 PROVE  AccountOf(new, b).enabled = AccountOf(doc, b).enabled /\ Config(new, b) = Config(doc, b)
      BY DEF OthersKept
    <3> QED BY <2>8, <2>10, ConfigView
  <2> QED BY <2>7, <2>8, <2>10, <2>13, <2>14, <2>15 DEF new, acc
<1> QED BY <1>3, <1>4

\* An account with other leaders, or enabled otherwise, before it is normalized.
LEMMA AccountView ==
  ASSUME NEW doc, Normal(doc), NEW a \in Ids(doc), NEW account,
         DOMAIN account = AccountFields, account.id = a, account.global = AccountOf(doc, a).global
  PROVE  LET new == Renormalized(With(doc, a, account))
         IN  /\ Normal(new) /\ new.format = doc.format
             /\ Ids(new) = Ids(doc) /\ OthersKept(doc, new, a)
             /\ Config(new, a).global = Config(doc, a).global
             /\ Config(new, a).leaders = account.leaders
             /\ AccountOf(new, a).enabled
                  = IF doc.format = "legacy" THEN AccountOf(doc, a).enabled ELSE account.enabled
<1> DEFINE new == Renormalized(With(doc, a, account))
           put == With(doc, a, account)
<1>1. DocumentInv(doc) /\ Config(doc, a).global = Overlay(account.global, doc.defaults)
      /\ DOMAIN account.global \subseteq Keys
  BY ConfigView DEF Normal
<1>2. DocumentInv(put)
  BY <1>1, WithDocument
<1>3. /\ put.format = doc.format /\ put.defaults = doc.defaults /\ Ids(put) = Ids(doc)
      /\ AccountOf(put, a) = account
      /\ \A b \in Ids(doc) \ {a} : AccountOf(put, b) = AccountOf(doc, b)
      /\ \A i \in DOMAIN put.accounts :
           put.accounts[i] = account \/ \E j \in DOMAIN doc.accounts : put.accounts[i] = doc.accounts[j]
  BY <1>1, WithView
<1> HIDE DEF put
<1>4. CASE doc.format = "legacy"
  <2> DEFINE leaders == put.accounts[1].leaders
  <2>1. /\ Ids(doc) = {"default"} /\ a = "default"
        /\ AccountOf(doc, a).enabled = TRUE /\ AccountOf(doc, a).global = NoOverrides
    BY <1>4, LegacyIds
  <2>2. 1 \in DOMAIN put.accounts
    <3>1. DOMAIN put.accounts = 1..Len(put.accounts) /\ Len(put.accounts) \in Nat /\ Len(put.accounts) > 0
      BY <1>2, SeqDomain DEF DocumentInv, AccountsInv
    <3> QED BY <3>1
  <2>3. put.accounts[1] = account
    <3>1. /\ put.accounts[1].id \in Ids(put)
          /\ AccountOf(put, put.accounts[1].id) = put.accounts[1]
      BY <1>2, <2>2, AccountAt
    <3> QED BY <1>3, <2>1, <3>1
  <2>4. new = Legacy(doc.defaults, account.leaders)
    BY <1>3, <1>4, <2>3 DEF Renormalized, put
  <2>5. doc.defaults = [k \in Keys |-> doc.defaults[k]]
    BY DEF Normal
  <2> HIDE DEF new
  <2>6. Normal(new) /\ new.format = "legacy" /\ new.defaults = doc.defaults
    BY <2>4, <2>5, NormalLegacy
  <2>7. /\ Ids(new) = {"default"}
        /\ AccountOf(new, a) = [id |-> "default", enabled |-> TRUE, global |-> NoOverrides,
                                leaders |-> account.leaders]
    BY <2>1, <2>4, LegacyView
  <2>8. /\ AccountOf(new, a).enabled = TRUE /\ AccountOf(new, a).global = NoOverrides
        /\ AccountOf(new, a).leaders = account.leaders
    BY <2>7
  <2>9. Config(new, a) = [global |-> Overlay(NoOverrides, doc.defaults), leaders |-> account.leaders]
    BY <2>1, <2>6, <2>7, <2>8, ConfigView
  <2>10. Config(doc, a).global = Overlay(NoOverrides, doc.defaults)
    BY <1>1, <2>1
  <2>11. OthersKept(doc, new, a)
    BY <2>1 DEF OthersKept
  <2>12. /\ Normal(new) /\ new.format = doc.format
         /\ Ids(new) = Ids(doc) /\ OthersKept(doc, new, a)
         /\ AccountOf(new, a).enabled = AccountOf(doc, a).enabled
    BY <1>4, <2>1, <2>6, <2>7, <2>8, <2>11
  <2>13. Config(new, a).global = Config(doc, a).global /\ Config(new, a).leaders = account.leaders
    BY <2>9, <2>10
  <2> QED BY <1>4, <2>12, <2>13 DEF new
<1>5. CASE doc.format # "legacy"
  <2>1. new = put
    BY <1>3, <1>5 DEF Renormalized, put
  <2>2. Normal(put)
    BY <1>1, <1>2, <1>3, <1>5 DEF Normal
  <2>3. Config(put, a) = [global |-> Overlay(account.global, doc.defaults), leaders |-> account.leaders]
    BY <1>3, <2>2, ConfigView
  <2>4. OthersKept(doc, put, a)
    <3> SUFFICES ASSUME NEW b \in Ids(doc) \ {a}
                 PROVE  AccountOf(put, b).enabled = AccountOf(doc, b).enabled /\ Config(put, b) = Config(doc, b)
      BY DEF OthersKept
    <3> QED BY <1>3, <2>2, ConfigView
  <2> HIDE DEF new
  <2>5. /\ Normal(new) /\ new.format = doc.format
        /\ Ids(new) = Ids(doc) /\ OthersKept(doc, new, a)
        /\ Config(new, a).global = Config(doc, a).global
        /\ Config(new, a).leaders = account.leaders
        /\ AccountOf(new, a).enabled = account.enabled
    BY <1>1, <1>3, <2>1, <2>2, <2>3, <2>4
  <2> QED BY <1>5, <2>5 DEF new
<1> QED BY <1>4, <1>5

LEMMA LeadersView ==
  ASSUME NEW doc, Normal(doc), NEW a \in Ids(doc), NEW leaders
  PROVE  LET new == WithLeaders(doc, a, leaders)
         IN  /\ Normal(new) /\ new.format = doc.format
             /\ Ids(new) = Ids(doc) /\ OthersKept(doc, new, a)
             /\ Config(new, a).global = Config(doc, a).global
             /\ Config(new, a).leaders = leaders
             /\ AccountOf(new, a).enabled = AccountOf(doc, a).enabled
<1> DEFINE acc == AccountOf(doc, a)
           account == [acc EXCEPT !.leaders = leaders]
<1>1. DOMAIN acc = AccountFields /\ acc.id = a
  BY FoundAccount DEF Normal
<1> HIDE DEF acc
<1>2. /\ DOMAIN account = AccountFields /\ account.id = a /\ account.global = acc.global
      /\ account.leaders = leaders /\ account.enabled = acc.enabled
  BY <1>1 DEF AccountFields
<1>3. WithLeaders(doc, a, leaders) = Renormalized(With(doc, a, account))
  BY DEF WithLeaders, acc
<1> HIDE DEF account
<1>4. account.global = AccountOf(doc, a).global /\ account.enabled = AccountOf(doc, a).enabled
  BY <1>2 DEF acc
<1> QED BY <1>2, <1>3, <1>4, AccountView

LEMMA EnableView ==
  ASSUME NEW doc, Normal(doc), NEW a \in Ids(doc), NEW enabled
  PROVE  LET new == EnableAccount(doc, a, enabled)
         IN  /\ Normal(new) /\ new.format = doc.format
             /\ Ids(new) = Ids(doc) /\ OthersKept(doc, new, a)
             /\ Config(new, a).global = Config(doc, a).global
             /\ Config(new, a).leaders = Config(doc, a).leaders
             /\ AccountOf(new, a).enabled
                  = IF doc.format = "legacy" THEN AccountOf(doc, a).enabled ELSE enabled
<1> DEFINE acc == AccountOf(doc, a)
           account == [acc EXCEPT !.enabled = enabled]
<1>1. DOMAIN acc = AccountFields /\ acc.id = a /\ Config(doc, a).leaders = acc.leaders
  BY FoundAccount, ConfigView DEF Normal
<1> HIDE DEF acc
<1>2. /\ DOMAIN account = AccountFields /\ account.id = a /\ account.global = acc.global
      /\ account.leaders = acc.leaders /\ account.enabled = enabled
  BY <1>1 DEF AccountFields
<1>3. EnableAccount(doc, a, enabled) = Renormalized(With(doc, a, account))
  BY DEF EnableAccount, acc
<1> HIDE DEF account
<1>4. account.global = AccountOf(doc, a).global /\ account.leaders = Config(doc, a).leaders
  BY <1>1, <1>2 DEF acc
<1> QED BY <1>2, <1>3, <1>4, AccountView

LEMMA CreateView ==
  ASSUME NEW doc, Normal(doc), NEW a \in AccountIds, a \notin Ids(doc)
  PROVE  LET new == AddAccount(doc, a)
         IN  /\ Normal(new) /\ new.format = "multi" /\ Len(new.accounts) # 1
             /\ Ids(new) = Ids(doc) \cup {a} /\ OthersKept(doc, new, a)
             /\ Config(new, a).global = doc.defaults
<1> DEFINE new == AddAccount(doc, a)
           acc == [id |-> a, enabled |-> TRUE, global |-> NoOverrides, leaders |-> NoLeaders]
<1>1. DocumentInv(doc) /\ DOMAIN doc.defaults = Keys
  BY DEF Normal
<1>2. DocumentInv(new)
  BY <1>1, AddedDocument
<1>3. /\ new.format = "multi" /\ new.defaults = doc.defaults /\ Len(new.accounts) > 1
      /\ Ids(new) = Ids(doc) \cup {a} /\ AccountOf(new, a) = acc
      /\ \A b \in Ids(doc) : AccountOf(new, b) = AccountOf(doc, b)
      /\ \A i \in DOMAIN new.accounts :
           \/ new.accounts[i].global = NoOverrides
           \/ \E j \in DOMAIN doc.accounts : new.accounts[i] = doc.accounts[j]
  BY <1>1, AddView
<1>4. acc.global = NoOverrides /\ DOMAIN NoOverrides = {}
  BY DEF NoOverrides
<1> HIDE DEF new, acc
<1>5. Normal(new)
  BY <1>2, <1>3, <1>4 DEF Normal
<1>6. Config(new, a).global = doc.defaults
  <2>1. Config(new, a).global = Overlay(NoOverrides, doc.defaults)
    BY <1>3, <1>4, <1>5, ConfigView
  <2>2. Overlay(NoOverrides, doc.defaults) = [k \in Keys |-> doc.defaults[k]]
    BY <1>1, <1>4 DEF Overlay
  <2> QED BY <2>1, <2>2 DEF Normal
<1>7. OthersKept(doc, new, a)
  <2> SUFFICES ASSUME NEW b \in Ids(doc) \ {a}
               PROVE  AccountOf(new, b).enabled = AccountOf(doc, b).enabled /\ Config(new, b) = Config(doc, b)
    BY DEF OthersKept
  <2>1. b \in Ids(new) /\ AccountOf(new, b) = AccountOf(doc, b) /\ new.defaults = doc.defaults
    BY <1>3
  <2> QED BY <1>5, <2>1, ConfigView
<1>8. Len(new.accounts) # 1
  <2> DEFINE n == Len(new.accounts)
  <2>1. n \in Nat /\ n > 1
    BY <1>2, <1>3, SeqDomain DEF DocumentInv, AccountsInv
  <2> HIDE DEF n
  <2>2. n # 1
    BY <2>1
  <2> QED BY <2>2 DEF n
<1> QED BY <1>3, <1>5, <1>6, <1>7, <1>8 DEF new

SettingsKinds == {"stop", "preview", "live", "patch"}
LeaderKinds == {"follow", "enable", "unfollow"}

\* The leader a request is about is in the table as it asked.
LeaderView(r, leaders) ==
  LET kind == Script[r].kind
      l == Script[r].leader
  IN /\ kind = "follow" => l \in DOMAIN leaders /\ leaders[l] = Script[r].entry
     /\ kind = "enable" => l \in DOMAIN leaders /\ leaders[l].enabled = Script[r].enabled
     /\ kind = "unfollow" => l \notin DOMAIN leaders

\* What a request makes of doc: the file that it writes says this of every account.
RequestView(doc, new, r) ==
  LET a == Script[r].acct
      kind == Script[r].kind
  IN /\ Ids(new) = IF kind = "create" THEN Ids(doc) \cup {a} ELSE Ids(doc)
     /\ OthersKept(doc, new, a)
     /\ kind = "create" => Config(new, a).global = doc.defaults
     /\ kind \in SettingsKinds =>
          \A k \in Keys : Config(new, a).global[k]
                           = IF k \in DOMAIN Patch(r) THEN Patch(r)[k] ELSE Config(doc, a).global[k]
     /\ kind \in LeaderKinds \cup {"account"} => Config(new, a).global = Config(doc, a).global
     /\ kind \in SettingsKinds \cup {"account"} => Config(new, a).leaders = Config(doc, a).leaders
     /\ LeaderView(r, Config(new, a).leaders)
     /\ kind \in SettingsKinds \cup LeaderKinds => AccountOf(new, a).enabled = AccountOf(doc, a).enabled
     /\ kind = "account" => AccountOf(new, a).enabled
                            = IF doc.format = "legacy" THEN AccountOf(doc, a).enabled ELSE Script[r].enabled

LEMMA PatchKeys ==
  ASSUME NEW r \in Requests, Script[r].kind \in SettingsKinds
  PROVE  DOMAIN Patch(r) \subseteq Keys
<1>1. CASE Script[r].kind = "stop"
  BY <1>1 DEF Patch, Keys
<1>2. CASE Script[r].kind = "preview"
  BY <1>2 DEF Patch, Keys
<1>3. CASE Script[r].kind = "live"
  BY <1>3 DEF Patch, LivePatch, Keys
<1>4. CASE Script[r].kind = "patch"
  <2>1. DOMAIN Script[r].patch \subseteq Keys
    <3>1. Script[r].patch \in Overrides
      BY <1>4, ConstantsOK
    <3>2. PICK K \in SUBSET Keys : Script[r].patch \in [K -> BOOLEAN]
      BY <3>1 DEF Overrides
    <3> QED BY <3>2
  <2>2. DOMAIN Overlay(Script[r].patch, [k \in {"risk"} |-> TRUE]) \subseteq Keys
    BY <2>1 DEF Overlay, Keys
  <2> QED BY <1>4, <2>1, <2>2 DEF Patch
<1> QED BY <1>1, <1>2, <1>3, <1>4 DEF SettingsKinds

LEMMA ChangedView ==
  ASSUME NEW doc, Normal(doc), NEW r \in Requests, Script[r].kind # "reload",
         Script[r].acct \in Ids(doc) <=> Script[r].kind # "create"
  PROVE  LET new == Changed(doc, r)
         IN  /\ Normal(new) /\ RequestView(doc, new, r)
             /\ IF Script[r].kind = "create" THEN new.format = "multi" /\ Len(new.accounts) # 1
                ELSE new.format = doc.format
<1> DEFINE a == Script[r].acct
           new == Changed(doc, r)
           Goal == /\ Normal(new) /\ RequestView(doc, new, r)
                   /\ IF Script[r].kind = "create" THEN new.format = "multi" /\ Len(new.accounts) # 1
                      ELSE new.format = doc.format
<1>1. Script[r].kind \in Kinds /\ a \in AccountIds
  BY ConstantsOK
<1>2. ASSUME Script[r].kind \in SettingsKinds PROVE Goal
  <2>1. new = ApplyGlobalPatch(doc, a, Patch(r)) /\ a \in Ids(doc)
    BY <1>2 DEF Changed, SettingsKinds
  <2>2. DOMAIN Patch(r) \subseteq Keys
    BY <1>2, PatchKeys
  <2> HIDE DEF new, a
  <2>3. /\ Normal(new) /\ new.format = doc.format
        /\ Ids(new) = Ids(doc) /\ OthersKept(doc, new, a)
        /\ AccountOf(new, a).enabled = AccountOf(doc, a).enabled
        /\ Config(new, a).leaders = Config(doc, a).leaders
        /\ \A k \in Keys :
             Config(new, a).global[k] = IF k \in DOMAIN Patch(r) THEN Patch(r)[k] ELSE Config(doc, a).global[k]
    BY <2>1, <2>2, PatchView
  <2>4. RequestView(doc, new, r)
    BY <1>2, <2>3 DEF RequestView, LeaderView, SettingsKinds, LeaderKinds, a
  <2> QED BY <1>2, <2>3, <2>4 DEF SettingsKinds
<1>3. ASSUME Script[r].kind \in LeaderKinds PROVE Goal
  <2>1. \E leaders : new = WithLeaders(doc, a, leaders) /\ LeaderView(r, leaders)
    <3>1. CASE Script[r].kind = "unfollow"
      <4> DEFINE old == AccountOf(doc, a).leaders
                 leaders == [k \in DOMAIN old \ {Script[r].leader} |-> old[k]]
      <4>1. new = WithLeaders(doc, a, leaders)
        BY <3>1 DEF Changed, RemoveLeader
      <4>2. Script[r].leader \notin DOMAIN leaders
        OBVIOUS
      <4> HIDE DEF leaders
      <4>3. LeaderView(r, leaders)
        BY <3>1, <4>2 DEF LeaderView
      <4> QED BY <4>1, <4>3
    <3>2. ASSUME NEW entry, new = UpsertLeader(doc, a, Script[r].leader, entry)
          PROVE  \E leaders : /\ new = WithLeaders(doc, a, leaders)
                              /\ Script[r].leader \in DOMAIN leaders
                              /\ leaders[Script[r].leader] = entry
      <4> DEFINE leaders == Overlay([k \in {Script[r].leader} |-> entry], AccountOf(doc, a).leaders)
      <4>1. new = WithLeaders(doc, a, leaders)
        BY <3>2 DEF UpsertLeader
      <4>2. Script[r].leader \in DOMAIN leaders /\ leaders[Script[r].leader] = entry
        BY DEF Overlay
      <4> HIDE DEF leaders
      <4> QED BY <4>1, <4>2
    <3>3. CASE Script[r].kind = "follow"
      <4>1. new = UpsertLeader(doc, a, Script[r].leader, Script[r].entry)
        BY <3>3 DEF Changed
      <4>2. PICK leaders : /\ new = WithLeaders(doc, a, leaders)
                           /\ Script[r].leader \in DOMAIN leaders
                           /\ leaders[Script[r].leader] = Script[r].entry
        BY <3>2, <4>1
      <4>3. LeaderView(r, leaders)
        BY <3>3, <4>2 DEF LeaderView
      <4> QED BY <4>2, <4>3
    <3>4. CASE Script[r].kind = "enable"
      <4> DEFINE entry == Switched(doc, r)
      <4>1. new = UpsertLeader(doc, a, Script[r].leader, entry)
        BY <3>4 DEF Changed
      <4>2. entry.enabled = Script[r].enabled
        BY DEF Switched
      <4> HIDE DEF entry
      <4>3. PICK leaders : /\ new = WithLeaders(doc, a, leaders)
                           /\ Script[r].leader \in DOMAIN leaders
                           /\ leaders[Script[r].leader] = entry
        BY <3>2, <4>1
      <4>4. LeaderView(r, leaders)
        BY <3>4, <4>2, <4>3 DEF LeaderView
      <4> QED BY <4>3, <4>4
    <3> QED BY <1>3, <3>1, <3>3, <3>4 DEF LeaderKinds
  <2>2. PICK leaders : new = WithLeaders(doc, a, leaders) /\ LeaderView(r, leaders)
    BY <2>1
  <2>3. a \in Ids(doc)
    BY <1>3 DEF LeaderKinds
  <2> HIDE DEF new, a
  <2>4. /\ Normal(new) /\ new.format = doc.format
        /\ Ids(new) = Ids(doc) /\ OthersKept(doc, new, a)
        /\ Config(new, a).global = Config(doc, a).global
        /\ Config(new, a).leaders = leaders
        /\ AccountOf(new, a).enabled = AccountOf(doc, a).enabled
    BY <2>2, <2>3, LeadersView
  <2>5. RequestView(doc, new, r)
    BY <1>3, <2>2, <2>4 DEF RequestView, SettingsKinds, LeaderKinds, a
  <2> QED BY <1>3, <2>4, <2>5 DEF LeaderKinds
<1>4. ASSUME Script[r].kind = "account" PROVE Goal
  <2>1. new = EnableAccount(doc, a, Script[r].enabled) /\ a \in Ids(doc)
    BY <1>4 DEF Changed
  <2> HIDE DEF new, a
  <2>2. /\ Normal(new) /\ new.format = doc.format
        /\ Ids(new) = Ids(doc) /\ OthersKept(doc, new, a)
        /\ Config(new, a).global = Config(doc, a).global
        /\ Config(new, a).leaders = Config(doc, a).leaders
        /\ AccountOf(new, a).enabled
             = IF doc.format = "legacy" THEN AccountOf(doc, a).enabled ELSE Script[r].enabled
    BY <2>1, EnableView
  <2>3. RequestView(doc, new, r)
    BY <1>4, <2>2 DEF RequestView, LeaderView, SettingsKinds, LeaderKinds, a
  <2> QED BY <1>4, <2>2, <2>3
<1>5. ASSUME Script[r].kind = "create" PROVE Goal
  <2>1. new = AddAccount(doc, a) /\ a \notin Ids(doc)
    BY <1>5 DEF Changed
  <2> HIDE DEF new, a
  <2>2. /\ Normal(new) /\ new.format = "multi" /\ Len(new.accounts) # 1
        /\ Ids(new) = Ids(doc) \cup {a} /\ OthersKept(doc, new, a)
        /\ Config(new, a).global = doc.defaults
    BY <1>1, <2>1, CreateView
  <2>3. RequestView(doc, new, r)
    BY <1>5, <2>2 DEF RequestView, LeaderView, SettingsKinds, LeaderKinds, a
  <2> QED BY <1>5, <2>2, <2>3
<1>6. Goal
  BY <1>1, <1>2, <1>3, <1>4, <1>5 DEF Kinds, SettingsKinds, LeaderKinds
<1> QED BY <1>6

\* What is written says what the request makes of the document it read.
LEMMA NewFileView ==
  ASSUME Normal(file), NEW doc, Normal(doc), doc.format = "multi" => file.format = "multi",
         NEW r \in Requests, Script[r].kind # "reload",
         Script[r].acct \in Ids(doc) <=> Script[r].kind # "create"
  PROVE  LET new == NewFile(r, doc)
         IN  /\ Normal(new) /\ RequestView(doc, new, r)
             /\ file.format = "multi" => new.format = "multi"
             /\ Script[r].kind # "create" /\ file.format = doc.format => new.format = file.format
<1> DEFINE mid == Changed(doc, r)
           new == Written(file, mid)
           a == Script[r].acct
<1>1. NewFile(r, doc) = new
  BY DEF NewFile
<1>2. /\ Normal(mid) /\ RequestView(doc, mid, r)
      /\ IF Script[r].kind = "create" THEN mid.format = "multi" /\ Len(mid.accounts) # 1
         ELSE mid.format = doc.format
  BY ChangedView
<1>3. file.format = "legacy" /\ mid.format = "multi" => Len(mid.accounts) # 1
  BY <1>2
<1> HIDE DEF mid
<1>4. /\ Normal(new) /\ Ids(new) = Ids(mid)
      /\ \A b \in Ids(mid) : AccountOf(new, b) = AccountOf(mid, b)
      /\ \A b \in Ids(mid) : Config(new, b) = Config(mid, b)
      /\ file.format # "legacy" => new.format = "multi"
      /\ file.format = mid.format => new.format = mid.format
  BY <1>2, <1>3, WrittenView
<1> HIDE DEF new
<1>5. a \in Ids(mid) /\ Ids(doc) \subseteq Ids(mid)
  BY <1>2 DEF RequestView
<1>6. AccountOf(new, a) = AccountOf(mid, a) /\ Config(new, a) = Config(mid, a)
  BY <1>4, <1>5
<1>7. OthersKept(doc, new, a)
  <2>1. OthersKept(doc, mid, a)
    BY <1>2 DEF RequestView
  <2> QED BY <1>4, <1>5, <2>1 DEF OthersKept
<1>8. RequestView(doc, new, r)
  BY <1>2, <1>4, <1>6, <1>7 DEF RequestView
<1> QED BY <1>1, <1>2, <1>4, <1>8

-----------------------------------------------------------------------------
(* Requests and the file                                                   *)

RequestShapes ==
  /\ DOMAIN req = Requests
  /\ \A r \in Requests : DOMAIN req[r] = {"stage", "store", "doc", "todo", "answer"}

\* What r may write was made of doc: it read it after the file came to be of its format,
\* and found the account it is about; to ask for live it has to be confirmed.
ReadBy(r, doc) ==
  /\ GoesLive(r) => LiveConfirmed
  /\ Normal(doc)
  /\ doc.format = "multi" => file.format = "multi"
  /\ Script[r].kind # "reload" => (Script[r].acct \in Ids(doc) <=> Script[r].kind # "create")

\* The file and the documents of unfollows that have still to write are normal.
FileInv ==
  /\ RequestShapes
  /\ Normal(file)
  /\ \A r \in Requests :
       req[r].stage = "unwind" => Script[r].kind = "unfollow" /\ ReadBy(r, req[r].doc)

\* A step in which r writes what it made of doc and begins its reload.
Writes(r, doc) ==
  /\ ReadBy(r, doc)
  /\ req[r].stage \in {"new", "flush", "unwind"}
  /\ doc = file \/ (req[r].stage = "unwind" /\ doc = req[r].doc)
  /\ WriteAndReload(r, NewFile(r, doc))
  /\ up /\ up' = up

\* The request is answered, whatever the answer, or waits with what is left.
LEMMA AnsweredRequest ==
  ASSUME RequestShapes, NEW r \in Requests, NEW answer, Done(r, answer)
  PROVE  /\ RequestShapes'
         /\ req'[r].stage = "done" /\ req'[r].answer = answer
         /\ \A q \in Requests \ {r} : req'[q] = req[q]
<1> DEFINE new == [NewRequest EXCEPT !.stage = "done", !.answer = answer]
<1>1. /\ new.stage = "done" /\ new.answer = answer
      /\ DOMAIN new = {"stage", "store", "doc", "todo", "answer"}
  BY DEF NewRequest
<1>2. req' = [req EXCEPT ![r] = new]
  BY DEF Done
<1> HIDE DEF new
<1> QED BY <1>1, <1>2 DEF RequestShapes

Waits(r, doc, rest) ==
  req' = [req EXCEPT ![r].stage = "reload", ![r].store = ContextStore(r),
                     ![r].doc = doc, ![r].todo = rest]

LEMMA WaitingRequest ==
  ASSUME RequestShapes, NEW r \in Requests, NEW doc, NEW rest, Waits(r, doc, rest)
  PROVE  /\ RequestShapes'
         /\ req'[r].stage = "reload" /\ req'[r].doc = doc /\ req'[r].todo = rest
         /\ req'[r].answer = req[r].answer
         /\ \A q \in Requests \ {r} : req'[q] = req[q]
<1> DEFINE R == req[r]
           store == ContextStore(r)
           new == [R EXCEPT !.stage = "reload", !.store = store, !.doc = doc, !.todo = rest]
<1>1. DOMAIN R = {"stage", "store", "doc", "todo", "answer"} /\ DOMAIN req = Requests
  BY DEF RequestShapes
<1>2. req' = [req EXCEPT ![r] = new]
  BY <1>1 DEF Waits
<1> HIDE DEF R, store
<1>3. /\ DOMAIN new = {"stage", "store", "doc", "todo", "answer"}
      /\ new.stage = "reload" /\ new.doc = doc /\ new.todo = rest /\ new.answer = R.answer
  BY <1>1
<1> HIDE DEF new
<1>4. /\ req'[r] = new /\ \A q \in Requests \ {r} : req'[q] = req[q]
      /\ DOMAIN req' = Requests
  BY <1>1, <1>2
<1>5. RequestShapes'
  BY <1>3, <1>4 DEF RequestShapes
<1> QED BY <1>3, <1>4, <1>5 DEF R

LEMMA ProceedRequest ==
  ASSUME RequestShapes, NEW r \in Requests, NEW doc, NEW now, NEW rest, NEW keep,
         Proceed(r, doc, now, rest, keep)
  PROVE  /\ RequestShapes'
         /\ rest = << >> => req'[r].stage = "done"
         /\ rest # << >> => /\ req'[r].stage = "reload" /\ req'[r].doc = doc
                           /\ req'[r].todo = rest /\ req'[r].answer = req[r].answer
         /\ \A q \in Requests \ {r} : req'[q] = req[q]
<1>1. CASE rest = << >>
  BY <1>1, AnsweredRequest DEF Proceed
<1>2. CASE rest # << >>
  <2>1. Waits(r, doc, rest)
    BY <1>2 DEF Proceed, Waits
  <2>2. /\ RequestShapes'
        /\ req'[r].stage = "reload" /\ req'[r].doc = doc
        /\ req'[r].todo = rest /\ req'[r].answer = req[r].answer
        /\ \A q \in Requests \ {r} : req'[q] = req[q]
    BY <2>1, WaitingRequest
  <2> QED BY <1>2, <2>2
<1> QED BY <1>1, <1>2

\* A request that waits for its flush, or for its orders and positions to be unwound.
LEMMA FlushRequest ==
  ASSUME RequestShapes, NEW r \in Requests, StartFlush(r)
  PROVE  /\ RequestShapes'
         /\ req[r].stage = "new" /\ req'[r].stage = "flush" /\ req'[r].answer = req[r].answer
         /\ \A q \in Requests \ {r} : req'[q] = req[q]
<1> DEFINE R == req[r]
           new == [R EXCEPT !.stage = "flush", !.store = runtimes[Script[r].acct].store]
<1>1. DOMAIN R = {"stage", "store", "doc", "todo", "answer"} /\ DOMAIN req = Requests
  BY DEF RequestShapes
<1>2. req' = [req EXCEPT ![r] = new] /\ req[r].stage = "new"
  BY <1>1 DEF StartFlush, MayAsk
<1> HIDE DEF R
<1>3. /\ DOMAIN new = {"stage", "store", "doc", "todo", "answer"}
      /\ new.stage = "flush" /\ new.answer = R.answer
  BY <1>1
<1> HIDE DEF new
<1>4. /\ req'[r] = new /\ \A q \in Requests \ {r} : req'[q] = req[q]
      /\ DOMAIN req' = Requests
  BY <1>1, <1>2
<1>5. RequestShapes'
  BY <1>3, <1>4 DEF RequestShapes
<1> QED BY <1>2, <1>3, <1>4, <1>5 DEF R

LEMMA UnwindRequest ==
  ASSUME RequestShapes, NEW r \in Requests, StartUnfollow(r), Accepts(file, r)
  PROVE  /\ RequestShapes'
         /\ req[r].stage = "new" /\ req'[r].stage = "unwind" /\ req'[r].answer = req[r].answer
         /\ req'[r].doc = file /\ Script[r].kind = "unfollow"
         /\ \A q \in Requests \ {r} : req'[q] = req[q]
         /\ UNCHANGED <<file, runtimes, opened, fresh>>
<1> DEFINE R == req[r]
           new == [R EXCEPT !.stage = "unwind", !.doc = file, !.store = runtimes[Script[r].acct].store]
<1>1. DOMAIN R = {"stage", "store", "doc", "todo", "answer"} /\ DOMAIN req = Requests
  BY DEF RequestShapes
<1>2. /\ req' = [req EXCEPT ![r] = new] /\ req[r].stage = "new" /\ Script[r].kind = "unfollow"
      /\ UNCHANGED <<file, runtimes, opened, fresh>>
  BY <1>1 DEF StartUnfollow, MayAsk
<1> HIDE DEF R
<1>3. /\ DOMAIN new = {"stage", "store", "doc", "todo", "answer"}
      /\ new.stage = "unwind" /\ new.answer = R.answer /\ new.doc = file
  BY <1>1
<1> HIDE DEF new
<1>4. /\ req'[r] = new /\ \A q \in Requests \ {r} : req'[q] = req[q]
      /\ DOMAIN req' = Requests
  BY <1>1, <1>2
<1>5. RequestShapes'
  BY <1>3, <1>4 DEF RequestShapes
<1> QED BY <1>2, <1>3, <1>4, <1>5 DEF R

\* A crash ends every request that is under way, without an answer of "ok".
LEMMA CrashedRequests ==
  ASSUME RequestShapes, Crash
  PROVE  /\ RequestShapes'
         /\ \A r \in Requests : /\ req'[r].stage \in {"new", "done"}
                                /\ req'[r] = req[r] \/ req'[r].answer = "error"
         /\ ~up' /\ file' = file
<1> DEFINE over == [NewRequest EXCEPT !.stage = "done", !.answer = "error"]
<1>1. /\ over.stage = "done" /\ DOMAIN over = {"stage", "store", "doc", "todo", "answer"}
      /\ over.answer = "error"
  BY DEF NewRequest
<1>2. /\ ~up' /\ file' = file
      /\ req' = [r \in Requests |-> IF req[r].stage \in {"new", "done"} THEN req[r] ELSE over]
  BY DEF Crash
<1> HIDE DEF over
<1> QED BY <1>1, <1>2 DEF RequestShapes

LEMMA AcceptedIsRead ==
  ASSUME FileInv, NEW r \in Requests, Accepts(file, r)
  PROVE  ReadBy(r, file)
<1>1. Script[r].kind \in Kinds
  BY ConstantsOK
<1>2. Script[r].kind # "reload" => (Script[r].acct \in Ids(file) <=> Script[r].kind # "create")
  BY <1>1 DEF Accepts, Kinds
<1>3. GoesLive(r) => LiveConfirmed
  BY DEF Accepts, GoesLive
<1> QED BY <1>2, <1>3 DEF ReadBy, FileInv

\* What a request does: it writes, begins to wait, goes on with its reload or ends.
LEMMA RequestKinds ==
  ASSUME FileInv, NEW r \in Requests,
         Direct(r) \/ StartFlush(r) \/ StartUnfollow(r) \/ RequestStep(r)
  PROVE  \/ \E doc : Writes(r, doc)
         \/ Refuse(r) /\ req[r].stage \in {"new", "flush", "unwind"} /\ up' = up
         \/ StartFlush(r)
         \/ StartUnfollow(r) /\ Accepts(file, r)
         \/ Resolved(r)
         \/ NotResolved(r)
<1>1. ASSUME Accepts(file, r), WriteAndReload(r, NewFile(r, file)), up, up' = up,
             req[r].stage \in {"new", "flush"}
      PROVE  \E doc : Writes(r, doc)
  <2>1. ReadBy(r, file)
    BY <1>1, AcceptedIsRead
  <2>2. Writes(r, file)
    BY <1>1, <2>1 DEF Writes
  <2> QED BY <2>2
<1>2. CASE Direct(r)
  <2>1. req[r].stage = "new" /\ up /\ up' = up
    BY <1>2 DEF Direct, MayAsk
  <2>2. IF Accepts(file, r) THEN WriteAndReload(r, NewFile(r, file)) ELSE Refuse(r)
    BY <1>2, Zenon DEF Direct
  <2> QED BY <1>1, <2>1, <2>2
<1>3. CASE EndFlush(r)
  BY <1>1, <1>3 DEF EndFlush
<1>4. CASE EndUnfollow(r)
  <2>1. CASE WriteAndReload(r, NewFile(r, req[r].doc))
    <3>1. ReadBy(r, req[r].doc)
      BY <1>4 DEF EndUnfollow, FileInv
    <3>2. Writes(r, req[r].doc)
      BY <1>4, <2>1, <3>1 DEF EndUnfollow, Writes
    <3> QED BY <3>2
  <2> QED BY <1>4, <2>1 DEF EndUnfollow
<1>5. CASE StartUnfollow(r)
  BY <1>5 DEF StartUnfollow, MayAsk
<1> QED BY <1>2, <1>3, <1>4, <1>5 DEF RequestStep

\* The file that is written is normal again and says what the request made of doc.
LEMMA WrittenFile ==
  ASSUME FileInv, NEW r \in Requests, NEW doc, Writes(r, doc)
  PROVE  /\ Normal(file')
         /\ file.format = "multi" => file'.format = "multi"
         /\ Script[r].kind = "reload" => file' = file
         /\ Script[r].kind # "reload" => RequestView(doc, file', r)
         /\ Script[r].kind \notin {"create", "reload"} /\ file.format = doc.format => file'.format = file.format
<1>1. file' = NewFile(r, doc)
  BY DEF Writes, WriteAndReload
<1>2. CASE Script[r].kind = "reload"
  BY <1>1, <1>2 DEF NewFile, FileInv
<1>3. CASE Script[r].kind # "reload"
  <2>1. Normal(file) /\ Normal(doc) /\ (doc.format = "multi" => file.format = "multi")
        /\ (Script[r].acct \in Ids(doc) <=> Script[r].kind # "create")
    BY <1>3 DEF FileInv, Writes, ReadBy
  <2> DEFINE new == NewFile(r, doc)
  <2>2. /\ Normal(new) /\ RequestView(doc, new, r)
        /\ file.format = "multi" => new.format = "multi"
        /\ Script[r].kind # "create" /\ file.format = doc.format => new.format = file.format
    BY <1>3, <2>1, NewFileView
  <2> QED BY <1>1, <1>3, <2>2
<1> QED BY <1>2, <1>3

LEMMA WritesRequest ==
  ASSUME RequestShapes, NEW r \in Requests, NEW doc, Writes(r, doc)
  PROVE  /\ RequestShapes'
         /\ req'[r].stage \in {"done", "reload"} /\ req'[r] # req[r]
         /\ \A q \in Requests \ {r} : req'[q] = req[q]
<1> DEFINE Moved == /\ RequestShapes'
                    /\ req'[r].stage \in {"done", "reload"}
                    /\ \A q \in Requests \ {r} : req'[q] = req[q]
<1>1. ASSUME BeginReload(r) PROVE Moved
  <2>1. \E d, now, rest, keep : Proceed(r, d, now, rest, keep)
    BY <1>1 DEF BeginReload
  <2> QED BY <2>1, ProceedRequest
<1>2. ASSUME FailReload(r) PROVE Moved
  BY <1>2, AnsweredRequest DEF FailReload
<1> HIDE DEF Moved
<1>3. Moved
  BY <1>1, <1>2 DEF Writes, WriteAndReload
<1> QED BY <1>3 DEF Writes, Moved

\* A step that writes nothing, and after which no other request unwinds than before.
LEMMA FileKept ==
  ASSUME FileInv, RequestShapes', file' = file,
         \A r \in Requests : req'[r] = req[r] \/ req'[r].stage # "unwind"
                             \/ (Script[r].kind = "unfollow" /\ ReadBy(r, req'[r].doc))
  PROVE  FileInv'
<1>1. \A r \in Requests : \A doc : ReadBy(r, doc) => ReadBy(r, doc)'
  BY DEF ReadBy
<1>2. Normal(file')
  BY DEF FileInv
<1>3. ASSUME NEW r \in Requests, req'[r].stage = "unwind"
      PROVE  Script[r].kind = "unfollow" /\ ReadBy(r, req'[r].doc)
  BY <1>3 DEF FileInv
<1> QED BY <1>1, <1>2, <1>3 DEF FileInv

LEMMA FileInit ==
  ASSUME Init
  PROVE  FileInv
<1> DEFINE accounts == file.accounts
<1>1. IsDocument(file) /\ DocumentInv(file)
  BY GivenDocument, ConstantsOK DEF Init
<1>2. file.defaults = [k \in Keys |-> file.defaults[k]]
  BY <1>1 DEF IsDocument, Global
<1>3. \A i \in DOMAIN accounts : DOMAIN accounts[i].global \subseteq Keys
  <2>1. accounts \in Seq(Account)
    BY <1>1 DEF IsDocument
  <2> TAKE i \in DOMAIN accounts
  <2>2. accounts[i] \in Account
    BY <2>1, ElementOfSeq
  <2>3. accounts[i].global \in Overrides
    BY <2>2 DEF Account
  <2>4. PICK K \in SUBSET Keys : accounts[i].global \in [K -> BOOLEAN]
    BY <2>3 DEF Overrides
  <2> QED BY <2>4
<1>4. Normal(file)
  BY <1>1, <1>2, <1>3 DEF IsDocument, Normal
<1>5. req = [r \in Requests |-> NewRequest]
  BY DEF Init
<1>6. RequestShapes /\ \A r \in Requests : req[r].stage # "unwind"
  BY <1>5 DEF RequestShapes, NewRequest
<1> QED BY <1>4, <1>6 DEF FileInv

LEMMA RequestsKeepFile ==
  ASSUME FileInv, NEW r \in Requests,
         Direct(r) \/ StartFlush(r) \/ StartUnfollow(r) \/ RequestStep(r)
  PROVE  FileInv' /\ (file' # file => \E doc : Writes(r, doc))
<1>1. ASSUME NEW doc, Writes(r, doc)
      PROVE  FileInv'
  <2>1. /\ Normal(file')
        /\ file.format = "multi" => file'.format = "multi"
    BY <1>1, WrittenFile
  <2>2. /\ RequestShapes'
        /\ req'[r].stage # "unwind"
        /\ \A q \in Requests \ {r} : req'[q] = req[q]
    BY <1>1, WritesRequest DEF FileInv
  <2>3. \A q \in Requests : \A d : ReadBy(q, d) => ReadBy(q, d)'
    BY <2>1 DEF ReadBy
  <2>4. ASSUME NEW q \in Requests, req'[q].stage = "unwind"
        PROVE  Script[q].kind = "unfollow" /\ ReadBy(q, req'[q].doc)
    BY <2>2, <2>4 DEF FileInv
  <2> QED BY <2>1, <2>2, <2>3, <2>4 DEF FileInv
<1>2. ASSUME NEW answer, Done(r, answer), file' = file
      PROVE  FileInv'
  <2>1. /\ RequestShapes'
        /\ req'[r].stage = "done"
        /\ \A q \in Requests \ {r} : req'[q] = req[q]
    BY <1>2, AnsweredRequest DEF FileInv
  <2> QED BY <1>2, <2>1, FileKept
<1>3. CASE Refuse(r)
  BY <1>2, <1>3 DEF Refuse
<1>4. CASE StartFlush(r)
  <2>1. file' = file
    BY <1>4 DEF StartFlush
  <2>2. /\ RequestShapes'
        /\ req'[r].stage = "flush"
        /\ \A q \in Requests \ {r} : req'[q] = req[q]
    BY <1>4, FlushRequest DEF FileInv
  <2> QED BY <2>1, <2>2, FileKept
<1>5. CASE StartUnfollow(r) /\ Accepts(file, r)
  <2>1. /\ RequestShapes' /\ file' = file /\ req'[r].doc = file
        /\ Script[r].kind = "unfollow"
        /\ \A q \in Requests \ {r} : req'[q] = req[q]
    BY <1>5, UnwindRequest DEF FileInv
  <2>2. ReadBy(r, file)
    BY <1>5, AcceptedIsRead
  <2> QED BY <2>1, <2>2, FileKept
<1>6. CASE Resolved(r)
  <2>1. file' = file /\ \E d, now, rest, keep : Proceed(r, d, now, rest, keep)
    BY <1>6 DEF Resolved
  <2>2. /\ RequestShapes'
        /\ req'[r].stage # "unwind"
        /\ \A q \in Requests \ {r} : req'[q] = req[q]
    BY <2>1, ProceedRequest DEF FileInv
  <2> QED BY <2>1, <2>2, FileKept
<1>7. CASE NotResolved(r)
  BY <1>2, <1>7 DEF NotResolved, FailReload
<1>8. file' # file => \E doc : Writes(r, doc)
  BY RequestKinds DEF Refuse, StartFlush, StartUnfollow, Resolved, NotResolved
<1> QED BY <1>1, <1>3, <1>4, <1>5, <1>6, <1>7, <1>8, RequestKinds

LEMMA FileStep ==
  ASSUME FileInv, [Next]_vars
  PROVE  FileInv' /\ (file' # file => \E r \in Requests : \E doc : Writes(r, doc))
<1>1. ASSUME UNCHANGED <<file, req>>
      PROVE  FileInv'
  <2>1. RequestShapes'
    BY <1>1 DEF FileInv, RequestShapes
  <2> QED BY <1>1, <2>1, FileKept
<1>2. CASE UNCHANGED vars
  BY <1>1, <1>2 DEF vars
<1>3. CASE \E r \in Requests : Direct(r) \/ StartFlush(r) \/ StartUnfollow(r) \/ RequestStep(r)
  BY <1>3, RequestsKeepFile
<1>4. CASE LoopStep
  <2>1. UNCHANGED <<file, req>>
    BY <1>4 DEF LoopStep, Tick, TickDone, EndCycle, RefuseTrade, PlaceOrder, Record, Turn, Detect
  <2> QED BY <1>1, <2>1
<1>5. CASE Crash
  <2>1. RequestShapes' /\ file' = file /\ \A r \in Requests : req'[r].stage # "unwind"
    BY <1>5, CrashedRequests DEF FileInv
  <2> QED BY <2>1, FileKept
<1>6. CASE Start
  <2>1. UNCHANGED <<file, req>>
    BY <1>6 DEF Start
  <2> QED BY <1>1, <2>1
<1> QED BY <1>2, <1>3, <1>4, <1>5, <1>6 DEF Next

-----------------------------------------------------------------------------
(* What a write changes                                                    *)

LEMMA WriteIsOwn ==
  ASSUME FileInv, NEW r \in Requests, NEW doc, Writes(r, doc), file' # file
  PROVE  OnlyItsOwn(r) \/ StaleUnfollow(r)
<1> DEFINE a == Script[r].acct
           kind == Script[r].kind
<1>1. CASE doc # file
  BY <1>1 DEF Writes, StaleUnfollow
<1>2. CASE doc = file
  <2>1. /\ kind # "reload" /\ Normal(file) /\ Normal(file')
        /\ RequestView(file, file', r)
        /\ a \in Ids(file) <=> kind # "create"
    BY <1>2, WrittenFile DEF Writes, ReadBy, FileInv
  <2>2. kind \in Kinds
    BY ConstantsOK
  <2>3. ASSUME NEW b \in AccountIds \ {a}
        PROVE  /\ b \in Ids(file) <=> b \in Ids(file')
               /\ b \in Ids(file) => /\ Config(file, b) = Config(file', b)
                                     /\ AccountOf(file, b).enabled = AccountOf(file', b).enabled
    BY <2>1 DEF RequestView, OthersKept
  <2>4. ASSUME a \in Ids(file)
        PROVE  /\ a \in Ids(file') /\ kind # "create"
               /\ kind \in LeaderKinds \cup {"account"} => Config(file, a).global = Config(file', a).global
               /\ kind \in SettingsKinds =>
                    \A k \in Keys \ DOMAIN Patch(r) :
                      Config(file, a).global[k] = Config(file', a).global[k]
               /\ kind \in SettingsKinds \cup {"account"} =>
                    Config(file, a).leaders = Config(file', a).leaders
               /\ kind \in SettingsKinds \cup LeaderKinds =>
                    AccountOf(file, a).enabled = AccountOf(file', a).enabled
    BY <2>1, <2>4 DEF RequestView
  <2>5. ASSUME a \in Ids(file), Config(file, a).global = Config(file', a).global
        PROVE  SettingsOf(file, a) = SettingsOf(file', a)
    BY <2>1, <2>4, <2>5, ConfigView DEF SettingsOf
  <2> QED BY <2>1, <2>2, <2>3, <2>4, <2>5 DEF OnlyItsOwn, Kinds, SettingsKinds, LeaderKinds
<1> QED BY <1>1, <1>2

\* Whatever requests do to the file, and however their reloads overlap, a write leaves
\* the accounts and settings it is not about as they were, but for a stale unfollow.
THEOREM OthersAreKept == Spec => WritesKeepOthers
<1> DEFINE Own == file' # file => \E r \in Requests :
                    req'[r] # req[r] /\ (OnlyItsOwn(r) \/ StaleUnfollow(r))
<1>1. Init => FileInv
  BY FileInit
<1>2. FileInv /\ [Next]_vars => FileInv'
  BY FileStep
<1>3. FileInv /\ [Next]_vars => [Own]_vars
  <2> SUFFICES ASSUME FileInv, [Next]_vars, file' # file
               PROVE  \E r \in Requests : req'[r] # req[r] /\ (OnlyItsOwn(r) \/ StaleUnfollow(r))
    OBVIOUS
  <2>1. PICK r \in Requests : \E doc : Writes(r, doc)
    BY FileStep
  <2>2. PICK doc : Writes(r, doc)
    BY <2>1
  <2>3. req'[r] # req[r]
    BY <2>2, WritesRequest DEF FileInv
  <2>4. OnlyItsOwn(r) \/ StaleUnfollow(r)
    BY <2>2, WriteIsOwn
  <2> QED BY <2>3, <2>4
<1>4. Spec => [][Own]_vars
  BY <1>1, <1>2, <1>3, PTL DEF Spec
<1> QED BY <1>4 DEF WritesKeepOthers

-----------------------------------------------------------------------------
(* What can be started again                                               *)

RunsSafe(doc, a) ==
  AccountOf(doc, a).enabled =>
    a \notin Bare /\ (Live(Config(doc, a)) => Copying(Config(doc, a)) /\ LiveConfirmed)

LEMMA StartableView ==
  ASSUME NEW doc, Normal(doc)
  PROVE  Startable(doc) <=> Loaded(doc) # {} /\ \A a \in Ids(doc) : RunsSafe(doc, a)
<1>1. \A i \in DOMAIN doc.accounts :
        doc.accounts[i].id \in Ids(doc) /\ AccountOf(doc, doc.accounts[i].id) = doc.accounts[i]
  BY AccountAt DEF Normal
<1>2. \A a \in Ids(doc) : \E i \in DOMAIN doc.accounts : a = doc.accounts[i].id
  BY DEF Ids
<1>3. Startable(doc) <=> /\ Loaded(doc) # {}
                         /\ \A i \in DOMAIN doc.accounts : RunsSafe(doc, doc.accounts[i].id)
  BY <1>1 DEF Startable, Loadable, RunsSafe
<1> QED BY <1>1, <1>2, <1>3

LEMMA WriteIsStartable ==
  ASSUME FileInv, NEW r \in Requests, NEW doc, Writes(r, doc), Startable(file), ~Startable(file')
  PROVE  \/ Script[r].kind \in {"patch", "account"} \/ StaleUnfollow(r)
         \/ Script[r].kind = "create" /\ DefaultsFail(file)
<1> DEFINE a == Script[r].acct
           kind == Script[r].kind
<1>1. CASE doc # file
  BY <1>1 DEF Writes, StaleUnfollow
<1>2. CASE doc = file
  <2>1. /\ kind # "reload" /\ Normal(file) /\ Normal(file')
        /\ RequestView(file, file', r)
        /\ a \in Ids(file) <=> kind # "create"
    BY <1>2, WrittenFile DEF Writes, ReadBy, FileInv
  <2>2. kind \in Kinds
    BY ConstantsOK
  <2>3. Loaded(file) # {} /\ \A b \in Ids(file) : RunsSafe(file, b)
    BY <2>1, StartableView
  <2>4. PICK b \in Ids(file') : ~RunsSafe(file', b)
    <3>1. Loaded(file') # {}
      BY <2>1, <2>3 DEF RequestView, Loaded
    <3> QED BY <2>1, <3>1, StartableView
  <2>5. b = a
    <3> SUFFICES ASSUME b # a PROVE FALSE
      OBVIOUS
    <3>1. b \in Ids(file)
      BY <2>1, <2>4 DEF RequestView
    <3>2. AccountOf(file', b).enabled = AccountOf(file, b).enabled /\ Config(file', b) = Config(file, b)
      BY <2>1, <3>1 DEF RequestView, OthersKept
    <3> QED BY <2>3, <2>4, <3>1, <3>2 DEF RunsSafe
  <2> SUFFICES ASSUME kind # "account" PROVE kind = "patch" \/ (kind = "create" /\ DefaultsFail(file))
    OBVIOUS
  <2>6. /\ Live(Config(file', a)) /\ ~(Copying(Config(file', a)) /\ LiveConfirmed)
        /\ AccountOf(file', a).enabled
    <3>1. a \notin Bare
      BY <2>1, ConstantsOK
    <3> QED BY <2>4, <2>5, <3>1 DEF RunsSafe
  <2>7. /\ ~Config(file', a).global["preview_mode"]
        /\ ~(Config(file', a).global["risk"] /\ LiveConfirmed)
    BY <2>6 DEF Live, Copying
  <2>8. kind \notin {"stop", "preview", "live"}
    <3>1. ASSUME kind \in SettingsKinds, NEW k \in Keys, k \in DOMAIN Patch(r)
          PROVE  Config(file', a).global[k] = Patch(r)[k]
      BY <2>1, <3>1 DEF RequestView
    <3>2. ASSUME kind \in {"stop", "preview"} PROVE FALSE
      <4>1. "preview_mode" \in DOMAIN Patch(r) /\ Patch(r)["preview_mode"] = TRUE
        BY <3>2 DEF Patch
      <4> QED BY <2>7, <3>1, <3>2, <4>1 DEF SettingsKinds, Keys
    <3>3. ASSUME kind = "live" PROVE FALSE
      <4>1. /\ "risk" \in DOMAIN Patch(r) /\ Patch(r)["risk"] = TRUE
            /\ "preview_mode" \in DOMAIN Patch(r) /\ Patch(r)["preview_mode"] = FALSE
        BY <3>3 DEF Patch, LivePatch
      <4>2. LiveConfirmed
        BY <3>3, <4>1 DEF Writes, ReadBy, GoesLive
      <4> QED BY <2>7, <3>1, <3>3, <4>1, <4>2 DEF SettingsKinds, Keys
    <3> QED BY <3>2, <3>3
  <2>9. kind \notin LeaderKinds
    <3> SUFFICES ASSUME kind \in LeaderKinds PROVE FALSE
      OBVIOUS
    <3>1. /\ a \in Ids(file)
          /\ Config(file', a).global = Config(file, a).global
          /\ AccountOf(file', a).enabled = AccountOf(file, a).enabled
      BY <2>1 DEF RequestView, LeaderKinds
    <3> QED BY <2>3, <2>6, <3>1 DEF RunsSafe, Live, Copying
  <2>10. kind = "create" => DefaultsFail(file)
    <3> SUFFICES ASSUME kind = "create" PROVE DefaultsFail(file)
      OBVIOUS
    <3>1. Config(file', a).global = file.defaults
      BY <2>1 DEF RequestView
    <3> QED BY <2>7, <3>1 DEF DefaultsFail, Live, Copying
  <2> QED BY <2>1, <2>2, <2>8, <2>9, <2>10 DEF Kinds, LeaderKinds
<1> QED BY <1>1, <1>2

\* A file the program could be started with stays one, but for a settings patch, an
\* account that is enabled or takes defaults that are live and do not copy, and an
\* unfollow that writes what it read before.
THEOREM StartsAgain == Spec => RestartBrokenByPatchOnly
<1> DEFINE Allowed == Startable(file) /\ ~Startable(file') => \E r \in Requests :
                        /\ req'[r] # req[r]
                        /\ \/ Script[r].kind \in {"patch", "account"} \/ StaleUnfollow(r)
                           \/ Script[r].kind = "create" /\ DefaultsFail(file)
<1>1. Init => FileInv
  BY FileInit
<1>2. FileInv /\ [Next]_vars => FileInv'
  BY FileStep
<1>3. FileInv /\ [Next]_vars => [Allowed]_vars
  <2> SUFFICES ASSUME FileInv, [Next]_vars, Startable(file), ~Startable(file')
               PROVE  Allowed
    OBVIOUS
  <2>1. file' # file
    OBVIOUS
  <2>2. PICK r \in Requests : \E doc : Writes(r, doc)
    BY <2>1, FileStep
  <2>3. PICK doc : Writes(r, doc)
    BY <2>2
  <2>4. req'[r] # req[r]
    BY <2>3, WritesRequest DEF FileInv
  <2>5. \/ Script[r].kind \in {"patch", "account"} \/ StaleUnfollow(r)
        \/ Script[r].kind = "create" /\ DefaultsFail(file)
    BY <2>3, WriteIsStartable
  <2> QED BY <2>4, <2>5
<1>4. Spec => [][Allowed]_vars
  BY <1>1, <1>2, <1>3, PTL DEF Spec
<1> QED BY <1>4 DEF RestartBrokenByPatchOnly

-----------------------------------------------------------------------------
(* Accounts that wait to be installed                                      *)

Elements(s) == {s[i] : i \in DOMAIN s}
IsQueue(s) ==
  /\ s \in Seq({s[i] : i \in DOMAIN s})
  /\ \A i, j \in DOMAIN s : s[i] = s[j] => i = j

\* The accounts up to some place are taken from the queue; the rest stays one.
LEMMA SplitQueue ==
  ASSUME NEW s, IsQueue(s), NEW J \in SUBSET DOMAIN s,
         \A i \in J : \A j \in 1..i : j \in J
  PROVE  LET now == {s[i] : i \in J}
             rest == After(s, Cardinality(now))
         IN  /\ IsQueue(rest)
             /\ now \cup Elements(rest) = Elements(s)
             /\ rest = << >> \/ Len(rest) > 0
<1> DEFINE now == {s[i] : i \in J}
           n == Cardinality(now)
           rest == After(s, n)
           len == Len(s)
<1>1. DOMAIN s = 1..len /\ len \in Nat
  BY SeqDomain DEF IsQueue
<1> HIDE DEF len
<1>2. IsFiniteSet(1..len) /\ Cardinality(1..len) = len
  BY <1>1, FS_Interval
<1>3. IsFiniteSet(J) /\ Cardinality(J) \in Nat
  BY <1>1, <1>2, FS_Subset, FS_CardinalityType
<1>4. n = Cardinality(J)
  <2> DEFINE f == [i \in J |-> s[i]]
  <2>1. f \in Bijection(J, now)
    BY DEF IsQueue, Bijection, Injection, Surjection, IsInjective
  <2> HIDE DEF f
  <2>2. ExistsBijection(J, now)
    BY <2>1 DEF ExistsBijection
  <2> QED BY <1>3, <2>2, FS_Bijection
<1> HIDE DEF n
<1>5. J = 1..n
  <2>1. \A i \in J : i <= n
    <3> TAKE i \in J
    <3>1. i \in Nat /\ 1 <= i /\ 1..i \in SUBSET J
      BY <1>1
    <3>2. Cardinality(1..i) = i
      BY <3>1, FS_Interval
    <3> QED BY <1>3, <1>4, <3>1, <3>2, FS_Subset
  <2>2. J \in SUBSET (1..n) /\ n \in Nat
    BY <1>1, <1>3, <1>4, <2>1
  <2>3. IsFiniteSet(1..n) /\ Cardinality(1..n) = n
    BY <2>2, FS_Interval
  <2> QED BY <1>4, <2>2, <2>3, FS_Subset
<1>6. n \in Nat /\ n <= len
  <2>1. n \in Nat
    BY <1>3, <1>4
  <2>2. CASE n = 0
    BY <1>1, <2>2
  <2>3. CASE n # 0
    <3>1. n \in J
      BY <1>5, <2>1, <2>3
    <3>2. n \in 1..len
      BY <1>1, <3>1
    <3> QED BY <1>1, <2>1, <3>2
  <2> QED BY <2>2, <2>3
<1> DEFINE S == {s[i] : i \in DOMAIN s}
<1>7. \A i \in (n + 1)..len : s[i] \in S
  <2>1. \A i \in (n + 1)..len : i \in 1..len
    BY <1>1, <1>6
  <2>2. \A i \in 1..len : s[i] \in S
    BY <1>1
  <2> HIDE DEF S
  <2> QED BY <2>1, <2>2
<1>8. rest = SubSeq(s, n + 1, len)
  BY DEF After, len
<1> HIDE DEF S, rest
<1>9. /\ rest \in Seq(S)
      /\ Len(rest) = IF n + 1 <= len THEN len - n ELSE 0
      /\ \A i \in 1..(len - n) : rest[i] = s[n + i]
  <2>1. /\ SubSeq(s, n + 1, len) \in Seq(S)
        /\ Len(SubSeq(s, n + 1, len)) = IF n + 1 <= len THEN len - (n + 1) + 1 ELSE 0
        /\ \A i \in 1..(len - (n + 1) + 1) : SubSeq(s, n + 1, len)[i] = s[n + 1 + i - 1]
    BY <1>1, <1>6, <1>7, SubSeqProperties
  <2>2. len - (n + 1) + 1 = len - n /\ \A i \in 1..(len - n) : n + 1 + i - 1 = n + i
    BY <1>1, <1>6
  <2> QED BY <1>8, <2>1, <2>2
<1>10. Len(rest) = len - n /\ DOMAIN rest = 1..(len - n) /\ len - n \in Nat
  BY <1>1, <1>6, <1>9
<1>11. IsQueue(rest)
  <2>1. rest = [i \in 1..(len - n) |-> rest[i]]
    BY <1>9, <1>10
  <2>2. rest \in Seq({rest[i] : i \in DOMAIN rest})
    BY <1>10, <2>1, SeqOfDomain
  <2>3. ASSUME NEW i \in DOMAIN rest, NEW j \in DOMAIN rest, rest[i] = rest[j] PROVE i = j
    <3>1. n + i \in DOMAIN s /\ n + j \in DOMAIN s /\ s[n + i] = s[n + j]
      BY <1>1, <1>6, <1>9, <1>10, <2>3
    <3>2. n + i = n + j
      BY <3>1 DEF IsQueue
    <3> QED BY <1>6, <1>10, <3>2
  <2> QED BY <2>2, <2>3 DEF IsQueue
<1>12. Elements(rest) = {s[i] : i \in (n + 1)..len}
  <2>1. ASSUME NEW a \in Elements(rest) PROVE a \in {s[i] : i \in (n + 1)..len}
    <3>1. PICK i \in 1..(len - n) : a = rest[i]
      BY <1>10, <2>1 DEF Elements
    <3>2. n + i \in (n + 1)..len /\ a = s[n + i]
      BY <1>1, <1>6, <1>9, <3>1
    <3> QED BY <3>2
  <2>2. ASSUME NEW i \in (n + 1)..len PROVE s[i] \in Elements(rest)
    <3>1. i - n \in 1..(len - n) /\ n + (i - n) = i
      BY <1>1, <1>6
    <3>2. rest[i - n] = s[i]
      BY <1>9, <3>1
    <3> QED BY <1>10, <3>1, <3>2 DEF Elements
  <2> QED BY <2>1, <2>2
<1>13. now \cup Elements(rest) = Elements(s)
  <2>1. \A i \in 1..len : i \in 1..n \/ i \in (n + 1)..len
    BY <1>1, <1>6
  <2>2. \A i : i \in 1..n \/ i \in (n + 1)..len => i \in 1..len
    BY <1>1, <1>6
  <2>3. Elements(s) = {s[i] : i \in 1..len} /\ now = {s[i] : i \in 1..n}
    BY <1>1, <1>5 DEF Elements
  <2> QED BY <1>12, <2>1, <2>2, <2>3
<1>14. rest = << >> \/ Len(rest) > 0
  <2>1. CASE Len(rest) = 0
    BY <1>9, <2>1
  <2>2. CASE Len(rest) # 0
    BY <1>10, <2>2
  <2> QED BY <2>1, <2>2
<1> QED BY <1>11, <1>13, <1>14 DEF n, rest

-----------------------------------------------------------------------------
(* The invariant of reloading                                              *)

\* A runtime is as the document says of its account.
AsIn(doc, a, rt) ==
  /\ rt.enabled = AccountOf(doc, a).enabled
  /\ rt.config = Config(doc, a)
  /\ rt.store.mode = ModeOf(Config(doc, a))

\* The document says what r asked of it.
Asked(r, doc) ==
  LET a == Script[r].acct
      kind == Script[r].kind
  IN /\ kind # "reload" => a \in Ids(doc)
     /\ kind \in SettingsKinds => \A k \in DOMAIN Patch(r) : Config(doc, a).global[k] = Patch(r)[k]
     /\ LeaderView(r, Config(doc, a).leaders)
     /\ kind = "account" => doc.format = "legacy" \/ AccountOf(doc, a).enabled = Script[r].enabled

\* One reload at a time, none while the process is down.
OneReload ==
  /\ \A r, q \in Reloading : r = q
  /\ ~up => Reloading = {}

\* No account is enabled without its secrets.
NoneBare(doc) == \A a \in Ids(doc) \cap Bare : ~AccountOf(doc, a).enabled

\* A reload that waits has the document of the file, which says what was asked; the
\* accounts it has left to install are the only ones that may not run as the file
\* says, and what left the file is gone.
ReloadInv ==
  \A r \in Reloading :
    /\ req[r].doc = file /\ Asked(r, file) /\ NoneBare(file)
    /\ IsQueue(req[r].todo) /\ Len(req[r].todo) > 0
    /\ Elements(req[r].todo) \subseteq Ids(file)
    /\ DOMAIN runtimes \subseteq Loaded(file)
    /\ \A a \in Loaded(file) \ Elements(req[r].todo) :
         a \in DOMAIN runtimes /\ AsIn(file, a, runtimes[a])

FollowInv == OneReload /\ ReloadInv /\ RuntimesFollowFile

\* An account that is installed runs as the document says.
LEMMA InstalledFollows ==
  ASSUME RuntimesInv, NEW a \in AccountIds, NEW doc
  PROVE  AsIn(doc, a, Installed(a, doc))
<1> DEFINE config == Config(doc, a)
           enabled == AccountOf(doc, a).enabled
           new == Installed(a, doc)
<1>1. new.store.mode = ModeOf(new.config)
  BY InstalledFacts DEF IsRuntime
<1>2. new.config = config /\ new.enabled = enabled
  <2>1. CASE a \in DOMAIN runtimes
    <3> DEFINE rt == runtimes[a]
               st == StoreFor(a, rt, config)
    <3>1. rt = [obj |-> rt.obj, enabled |-> rt.enabled, config |-> rt.config, store |-> rt.store]
      BY <2>1 DEF RuntimesInv, IsRuntime
    <3>2. new = [rt EXCEPT !.enabled = enabled, !.config = config, !.store = st]
      BY <2>1 DEF Installed
    <3> HIDE DEF new, rt, st, config, enabled
    <3> QED BY <3>1, <3>2
  <2>2. CASE a \notin DOMAIN runtimes
    <3>1. new = [obj |-> opened[a] + 1, enabled |-> enabled, config |-> config,
                 store |-> [mode |-> ModeOf(config), n |-> opened[a] + 1]]
      BY <2>2 DEF Installed
    <3> HIDE DEF new, config, enabled
    <3> QED BY <3>1
  <2> QED BY <2>1, <2>2
<1> QED BY <1>1, <1>2 DEF AsIn

LEMMA IdsAreAccounts ==
  ASSUME NEW doc, DocumentInv(doc)
  PROVE  Ids(doc) \subseteq AccountIds
BY DEF DocumentInv, AccountsInv, Ids

\* A reload goes on: what it takes follows the file afterwards, and the rest waits.
LEMMA ProceedFollows ==
  ASSUME RuntimesInv, RequestShapes, up, up' = up, Normal(file'),
         NEW r \in Requests, \A q \in Reloading : q = r, Asked(r, file'), NoneBare(file'),
         NEW now, NEW rest, NEW keep, Proceed(r, file', now, rest, keep),
         IsQueue(rest), rest = << >> \/ Len(rest) > 0,
         now \cup Elements(rest) \subseteq Ids(file'),
         DOMAIN runtimes \cap keep \subseteq Ids(file'),
         \A a \in Loaded(file') \ (now \cup Elements(rest)) :
           a \in DOMAIN runtimes /\ a \in keep /\ AsIn(file', a, runtimes[a])
  PROVE  /\ FollowInv'
         /\ \/ Reloading' = {} /\ fresh'
            \/ Reloading' = {r} /\ req'[r].answer = req[r].answer
<1>1. /\ DOMAIN runtimes' = (DOMAIN runtimes \cap (keep \ Bare)) \cup (now \ Bare)
      /\ \A a \in DOMAIN runtimes' :
           runtimes'[a] = IF a \in now \ Bare THEN Installed(a, file') ELSE runtimes[a]
  BY DEF Proceed, Install
<1>2. \A a \in now : AsIn(file', a, Installed(a, file'))
  <2> TAKE a \in now
  <2>1. a \in AccountIds
    BY IdsAreAccounts DEF Normal
  <2> QED BY <2>1, InstalledFollows
<1>3. DOMAIN runtimes' \subseteq Loaded(file')
  BY <1>1 DEF Loaded
<1>4. ASSUME NEW a \in Loaded(file'), a \notin Elements(rest)
      PROVE  a \in DOMAIN runtimes' /\ AsIn(file', a, runtimes'[a])
  <2>0. a \notin Bare
    BY DEF Loaded
  <2>1. CASE a \in now
    BY <1>1, <1>2, <2>0, <2>1
  <2>2. CASE a \notin now
    BY <1>1, <1>4, <2>0, <2>2
  <2> QED BY <2>1, <2>2
<1>5. \A q \in Requests \ {r} : req[q].stage # "reload"
  BY DEF Reloading
<1>6. CASE rest = << >>
  <2>1. Done(r, Answer(r)) /\ fresh'
    BY <1>6 DEF Proceed
  <2>2. req'[r].stage = "done" /\ \A q \in Requests \ {r} : req'[q] = req[q]
    BY <2>1, AnsweredRequest
  <2>3. Reloading' = {}
    BY <1>5, <2>2 DEF Reloading
  <2>4. Elements(rest) = {}
    BY <1>6 DEF Elements
  <2>5. RuntimesFollowFile'
    BY <1>3, <1>4, <2>4 DEF RuntimesFollowFile, AsIn
  <2> QED BY <2>1, <2>3, <2>5 DEF FollowInv, OneReload, ReloadInv
<1>7. CASE rest # << >>
  <2>2. /\ req'[r].stage = "reload" /\ req'[r].doc = file' /\ req'[r].todo = rest
        /\ req'[r].answer = req[r].answer
        /\ \A q \in Requests \ {r} : req'[q] = req[q]
    BY <1>7, ProceedRequest
  <2>3. Reloading' = {r}
    BY <1>5, <2>2 DEF Reloading
  <2>4. OneReload'
    BY <2>3 DEF OneReload
  <2>5. Asked(r, file)'
    BY DEF Asked, LeaderView
  <2>6. ReloadInv'
    BY <1>3, <1>4, <1>7, <2>2, <2>3, <2>5 DEF ReloadInv
  <2>7. RuntimesFollowFile'
    BY <2>3 DEF RuntimesFollowFile
  <2> QED BY <2>2, <2>3, <2>4, <2>6, <2>7 DEF FollowInv
<1> QED BY <1>6, <1>7

-----------------------------------------------------------------------------
(* Every step keeps it                                                     *)

\* What r asked is in the file that it writes.
LEMMA AskedIsWritten ==
  ASSUME FileInv, NEW r \in Requests, NEW doc, Writes(r, doc)
  PROVE  Asked(r, file')
<1> DEFINE a == Script[r].acct
           kind == Script[r].kind
<1>1. CASE kind = "reload"
  BY <1>1 DEF Asked, LeaderView, SettingsKinds
<1>2. CASE kind # "reload"
  <2>1. /\ RequestView(doc, file', r)
        /\ kind \notin {"create", "reload"} /\ file.format = doc.format => file'.format = file.format
    BY <1>2, WrittenFile
  <2>2. a \in Ids(doc) <=> kind # "create"
    BY <1>2 DEF Writes, ReadBy
  <2>3. kind = "account" => doc = file
    BY DEF Writes, FileInv
  <2>4. a \in Ids(file')
    BY <2>1, <2>2 DEF RequestView
  <2>5. kind \in SettingsKinds => \A k \in DOMAIN Patch(r) : Config(file', a).global[k] = Patch(r)[k]
    BY <2>1, PatchKeys DEF RequestView
  <2>6. LeaderView(r, Config(file', a).leaders)
    BY <2>1 DEF RequestView
  <2>7. kind = "account" => file'.format = "legacy" \/ AccountOf(file', a).enabled = Script[r].enabled
    BY <2>1, <2>3 DEF RequestView
  <2> QED BY <2>4, <2>5, <2>6, <2>7 DEF Asked
<1> QED BY <1>1, <1>2

\* What is installed at once is the queue up to some place.
LEMMA UpToIsPrefix ==
  ASSUME NEW doc, NEW s, IsQueue(s)
  PROVE  \E J \in SUBSET DOMAIN s :
           UpTo(doc, s) = {s[i] : i \in J} /\ \A i \in J : \A j \in 1..i : j \in J
<1> DEFINE J == {i \in DOMAIN s : \A j \in 1..i : ~AwaitsNetwork(doc, s[j])}
<1>1. DOMAIN s = 1..Len(s) /\ Len(s) \in Nat
  BY SeqDomain DEF IsQueue
<1>2. \A i \in J : \A j \in 1..i : j \in J
  <2> TAKE i \in J
  <2> TAKE j \in 1..i
  <2>1. j \in DOMAIN s /\ 1..j \subseteq 1..i
    BY <1>1
  <2> QED BY <2>1
<1>3. UpTo(doc, s) = {s[i] : i \in J}
  BY DEF UpTo
<1> QED BY <1>2, <1>3

\* A file that the reload accepts enables no account that has no secrets.
LEMMA ReloadableIsNoneBare ==
  ASSUME NEW doc, Normal(doc), Reloadable(doc)
  PROVE  NoneBare(doc)
<1>1. \A i \in DOMAIN doc.accounts : AccountOf(doc, doc.accounts[i].id) = doc.accounts[i]
  BY AccountAt DEF Normal
<1>2. \A a \in Ids(doc) : \E i \in DOMAIN doc.accounts : a = doc.accounts[i].id
  BY DEF Ids
<1> QED BY <1>1, <1>2 DEF NoneBare, Reloadable, Loadable

LEMMA BeginFollows ==
  ASSUME RuntimesInv, FileInv, FollowInv, "overlap" \notin Faults,
         NEW r \in Requests, NEW doc, Writes(r, doc), Reloadable(file')
  PROVE  /\ FollowInv'
         /\ \/ Reloading' = {} /\ fresh'
            \/ Reloading' = {r} /\ req'[r].answer = req[r].answer
<1> DEFINE todo == InFileOrder(file')
           now == UpTo(file', todo)
           rest == After(todo, Cardinality(now))
           accounts == file'.accounts
<1>1. /\ Reloading = {} /\ up /\ up' = up
      /\ Proceed(r, file', now, rest, Ids(file'))
  BY DEF Writes, WriteAndReload, BeginReload, ReloadMayBegin
<1>2. Normal(file') /\ Asked(r, file') /\ NoneBare(file')
  BY WrittenFile, AskedIsWritten, ReloadableIsNoneBare
<1>3. AccountsInv(accounts)
  BY <1>2 DEF Normal, DocumentInv
<1>4. DOMAIN accounts = 1..Len(accounts) /\ Len(accounts) \in Nat
  BY <1>3, SeqDomain DEF AccountsInv
<1>5. /\ DOMAIN todo = DOMAIN accounts /\ \A i \in DOMAIN accounts : todo[i] = accounts[i].id
      /\ Elements(todo) = Ids(file')
  BY DEF InFileOrder, Elements, Ids
<1>6. IsQueue(todo)
  <2>1. todo = [i \in 1..Len(accounts) |-> todo[i]]
    BY <1>4 DEF InFileOrder
  <2> HIDE DEF todo
  <2>2. todo \in Seq({todo[i] : i \in DOMAIN todo})
    BY <1>4, <2>1, SeqOfDomain
  <2> QED BY <1>3, <1>5, <2>2 DEF IsQueue, AccountsInv
<1> HIDE DEF todo
<1>7. PICK J \in SUBSET DOMAIN todo :
        now = {todo[i] : i \in J} /\ \A i \in J : \A j \in 1..i : j \in J
  BY <1>6, UpToIsPrefix
<1> HIDE DEF now
<1>8. /\ IsQueue(rest) /\ now \cup Elements(rest) = Elements(todo)
      /\ rest = << >> \/ Len(rest) > 0
  BY <1>6, <1>7, SplitQueue
<1> HIDE DEF rest
<1> QED BY <1>1, <1>2, <1>5, <1>8, ProceedFollows DEF FileInv, Loaded

\* Without another reload, one that fails leaves the engine with what it had.
LEMMA FailFollows ==
  ASSUME RequestShapes, NEW r \in Requests, \A q \in Reloading : q = r, FailReload(r)
  PROVE  /\ FollowInv'
         /\ Reloading' = {} /\ req'[r].answer = "error"
<1>1. /\ req'[r].stage = "done" /\ req'[r].answer = "error"
      /\ \A q \in Requests \ {r} : req'[q] = req[q]
  BY AnsweredRequest DEF FailReload
<1>2. Reloading' = {}
  BY <1>1 DEF Reloading
<1>3. ~fresh'
  BY DEF FailReload
<1> QED BY <1>1, <1>2, <1>3 DEF FollowInv, OneReload, ReloadInv, RuntimesFollowFile

LEMMA WriteFollows ==
  ASSUME RuntimesInv, FileInv, FollowInv, "overlap" \notin Faults,
         NEW r \in Requests, NEW doc, Writes(r, doc)
  PROVE  /\ FollowInv'
         /\ \/ Reloading' = {} /\ fresh' /\ NoneBare(file')
            \/ Reloading' = {r} /\ req'[r].answer = req[r].answer
            \/ req'[r].answer = "error"
<1>1. CASE Reloadable(file')
  <2>1. NoneBare(file')
    BY <1>1, WrittenFile, ReloadableIsNoneBare
  <2>2. /\ FollowInv'
        /\ \/ Reloading' = {} /\ fresh'
           \/ Reloading' = {r} /\ req'[r].answer = req[r].answer
    BY <1>1, BeginFollows
  <2> QED BY <2>1, <2>2
<1>2. CASE ~Reloadable(file')
  <2>1. Reloading = {} /\ FailReload(r)
    BY <1>2 DEF Writes, WriteAndReload, ReloadMayBegin
  <2> QED BY <2>1, FailFollows DEF FileInv
<1> QED BY <1>1, <1>2

LEMMA ResolvedFollows ==
  ASSUME RuntimesInv, FileInv, FollowInv, NEW r \in Requests, Resolved(r)
  PROVE  /\ FollowInv'
         /\ \/ Reloading' = {} /\ fresh'
            \/ Reloading' = {r} /\ req'[r].answer = req[r].answer
<1> DEFINE todo == req[r].todo
           now == {todo[1]} \cup UpTo(req[r].doc, Tail(todo))
           rest == After(todo, Cardinality(now))
           S == {todo[i] : i \in DOMAIN todo}
<1>1. r \in Reloading /\ \A q \in Reloading : q = r
  BY DEF Resolved, Reloading, FollowInv, OneReload
<1>2. /\ up /\ up' = up /\ file' = file
      /\ Proceed(r, req[r].doc, now, rest, DOMAIN runtimes)
  BY DEF Resolved
<1>3. /\ req[r].doc = file /\ Asked(r, file) /\ IsQueue(todo) /\ Len(todo) > 0
      /\ Elements(todo) \subseteq Ids(file) /\ NoneBare(file)
      /\ DOMAIN runtimes \subseteq Loaded(file)
      /\ \A a \in Loaded(file) \ Elements(todo) : a \in DOMAIN runtimes /\ AsIn(file, a, runtimes[a])
  BY <1>1 DEF FollowInv, ReloadInv
<1> HIDE DEF todo
<1>4. DOMAIN todo = 1..Len(todo) /\ Len(todo) \in Nat /\ 1 \in DOMAIN todo
  BY <1>3, SeqDomain DEF IsQueue
<1>5. /\ DOMAIN Tail(todo) = 1..(Len(todo) - 1)
      /\ Len(todo) - 1 \in Nat
      /\ \A i \in 1..(Len(todo) - 1) : Tail(todo)[i] = todo[i + 1]
      /\ IsQueue(Tail(todo))
  <2> DEFINE tail == Tail(todo)
  <2>1. todo \in Seq(S) /\ todo # << >>
    BY <1>3 DEF IsQueue
  <2> HIDE DEF S
  <2>2. /\ tail \in Seq(S) /\ Len(tail) = Len(todo) - 1
        /\ \A i \in 1..Len(tail) : tail[i] = todo[i + 1]
    BY <2>1, HeadTailProperties
  <2> HIDE DEF tail
  <2>3. DOMAIN tail = 1..(Len(todo) - 1) /\ Len(todo) - 1 \in Nat
    BY <1>3, <1>4, <2>2
  <2>4. tail = [i \in 1..(Len(todo) - 1) |-> tail[i]]
    BY <2>2, <2>3
  <2>5. tail \in Seq({tail[i] : i \in DOMAIN tail})
    BY <2>3, <2>4, SeqOfDomain
  <2>6. ASSUME NEW i \in DOMAIN tail, NEW j \in DOMAIN tail, tail[i] = tail[j] PROVE i = j
    <3>1. i + 1 \in DOMAIN todo /\ j + 1 \in DOMAIN todo /\ todo[i + 1] = todo[j + 1]
      BY <1>4, <2>2, <2>3, <2>6
    <3>2. i + 1 = j + 1
      BY <1>3, <3>1 DEF IsQueue
    <3> QED BY <2>3, <3>2
  <2>7. IsQueue(tail)
    BY <2>5, <2>6 DEF IsQueue
  <2> QED BY <2>2, <2>3, <2>7 DEF tail
<1>6. \E J \in SUBSET DOMAIN todo :
        now = {todo[i] : i \in J} /\ \A i \in J : \A j \in 1..i : j \in J
  <2>1. PICK K \in SUBSET DOMAIN Tail(todo) :
          /\ UpTo(req[r].doc, Tail(todo)) = {Tail(todo)[i] : i \in K}
          /\ \A i \in K : \A j \in 1..i : j \in K
    BY <1>5, UpToIsPrefix
  <2> DEFINE J == {1} \cup {i + 1 : i \in K}
  <2>2. J \in SUBSET DOMAIN todo
    BY <1>4, <1>5, <2>1
  <2>3. \A i \in J : \A j \in 1..i : j \in J
    <3> SUFFICES ASSUME NEW i \in J, NEW j \in 1..i, j # 1 PROVE j \in J
      OBVIOUS
    <3>1. PICK k \in K : i = k + 1
      <4>1. i # 1
        OBVIOUS
      <4> QED BY <4>1
    <3>2. k \in 1..(Len(todo) - 1)
      BY <1>5, <2>1
    <3>3. j - 1 \in 1..k /\ j = (j - 1) + 1
      BY <1>5, <3>1, <3>2
    <3>4. j - 1 \in K
      BY <2>1, <3>3
    <3> QED BY <3>3, <3>4
  <2>4. {Tail(todo)[i] : i \in K} = {todo[i + 1] : i \in K}
    BY <1>5, <2>1
  <2>5. now = {todo[i] : i \in J}
    BY <2>1, <2>4
  <2> QED BY <2>2, <2>3, <2>5
<1>7. PICK J \in SUBSET DOMAIN todo :
        now = {todo[i] : i \in J} /\ \A i \in J : \A j \in 1..i : j \in J
  BY <1>6
<1> HIDE DEF now
<1>8. /\ IsQueue(rest) /\ now \cup Elements(rest) = Elements(todo)
      /\ rest = << >> \/ Len(rest) > 0
  BY <1>3, <1>7, SplitQueue
<1> HIDE DEF rest
<1>9. Normal(file') /\ RequestShapes /\ Asked(r, file') /\ NoneBare(file')
  BY <1>2, <1>3 DEF FileInv
<1>10. Proceed(r, file', now, rest, DOMAIN runtimes)
  BY <1>2, <1>3
<1>11. /\ now \cup Elements(rest) \subseteq Ids(file')
       /\ DOMAIN runtimes \cap DOMAIN runtimes \subseteq Ids(file')
       /\ \A a \in Loaded(file') \ (now \cup Elements(rest)) :
            a \in DOMAIN runtimes /\ AsIn(file', a, runtimes[a])
  BY <1>2, <1>3, <1>8 DEF Loaded
<1> QED BY <1>1, <1>2, <1>8, <1>9, <1>10, <1>11, ProceedFollows

\* A step after which requests wait, or have ended, that were not reloading.
LEMMA AsideFollows ==
  ASSUME FollowInv, UNCHANGED <<file, runtimes, up, fresh>>,
         \A r \in Requests :
           req'[r] = req[r] \/ (req[r].stage # "reload" /\ req'[r].stage # "reload")
  PROVE  FollowInv'
<1>1. Reloading' = Reloading /\ \A r \in Reloading : req'[r] = req[r]
  BY DEF Reloading
<1>2. OneReload'
  BY <1>1 DEF FollowInv, OneReload
<1>3. \A r \in Reloading : Asked(r, file)' = Asked(r, file)
  BY DEF Asked, LeaderView
<1>4. ReloadInv'
  BY <1>1, <1>3 DEF FollowInv, ReloadInv
<1>5. RuntimesFollowFile'
  BY <1>1 DEF FollowInv, RuntimesFollowFile
<1> QED BY <1>2, <1>4, <1>5 DEF FollowInv

LEMMA RequestsFollow ==
  ASSUME RuntimesInv, FileInv, FollowInv, "overlap" \notin Faults, NEW r \in Requests,
         Direct(r) \/ StartFlush(r) \/ StartUnfollow(r) \/ RequestStep(r)
  PROVE  FollowInv'
<1>1. CASE \E doc : Writes(r, doc)
  BY <1>1, WriteFollows
<1>2. CASE Refuse(r) /\ req[r].stage \in {"new", "flush", "unwind"} /\ up' = up
  <2>1. req'[r].stage = "done" /\ \A q \in Requests \ {r} : req'[q] = req[q]
    BY <1>2, AnsweredRequest DEF Refuse, FileInv
  <2>2. UNCHANGED <<file, runtimes, up, fresh>>
    BY <1>2 DEF Refuse
  <2> QED BY <1>2, <2>1, <2>2, AsideFollows
<1>3. CASE StartFlush(r)
  <2>1. /\ req[r].stage = "new" /\ req'[r].stage = "flush"
        /\ \A q \in Requests \ {r} : req'[q] = req[q]
    BY <1>3, FlushRequest DEF FileInv
  <2>2. UNCHANGED <<file, runtimes, up, fresh>>
    BY <1>3 DEF StartFlush
  <2> QED BY <2>1, <2>2, AsideFollows
<1>4. CASE StartUnfollow(r) /\ Accepts(file, r)
  <2>1. /\ req[r].stage = "new" /\ req'[r].stage = "unwind"
        /\ \A q \in Requests \ {r} : req'[q] = req[q]
        /\ UNCHANGED <<file, runtimes, fresh>>
    BY <1>4, UnwindRequest DEF FileInv
  <2>2. up' = up
    BY <1>4 DEF StartUnfollow
  <2> QED BY <2>1, <2>2, AsideFollows
<1>5. CASE Resolved(r)
  BY <1>5, ResolvedFollows
<1>6. CASE NotResolved(r)
  <2>1. FailReload(r) /\ r \in Reloading
    BY <1>6 DEF NotResolved, Reloading
  <2>2. \A q \in Reloading : q = r
    BY <2>1 DEF FollowInv, OneReload
  <2> QED BY <2>1, <2>2, FailFollows DEF FileInv
<1> QED BY <1>1, <1>2, <1>3, <1>4, <1>5, <1>6, RequestKinds

LEMMA ProcessFollows ==
  ASSUME RuntimesInv, FileInv, FollowInv, Crash \/ Start
  PROVE  FollowInv'
<1>1. CASE Crash
  <2>1. ~up' /\ \A r \in Requests : req'[r].stage \in {"new", "done"}
    BY <1>1, CrashedRequests DEF FileInv
  <2>2. Reloading' = {}
    BY <2>1 DEF Reloading
  <2> QED BY <2>1, <2>2 DEF FollowInv, OneReload, ReloadInv, RuntimesFollowFile
<1>2. CASE Start
  <2>1. /\ UNCHANGED <<file, req>> /\ Reloading = {} /\ Install(file, Loaded(file), {})
    BY <1>2 DEF Start, FollowInv, OneReload
  <2>2. Reloading' = {}
    BY <2>1 DEF Reloading
  <2>3. /\ DOMAIN runtimes' = Loaded(file)
        /\ \A a \in Loaded(file) : runtimes'[a] = Installed(a, file)
    BY <2>1 DEF Install
  <2>4. \A a \in Loaded(file) : AsIn(file, a, runtimes'[a])
    <3> TAKE a \in Loaded(file)
    <3>1. a \in AccountIds
      BY IdsAreAccounts DEF FileInv, Normal, Loaded
    <3> QED BY <2>3, <3>1, InstalledFollows
  <2>5. RuntimesFollowFile'
    BY <2>1, <2>3, <2>4 DEF RuntimesFollowFile, AsIn, Loaded
  <2> QED BY <2>2, <2>5 DEF FollowInv, OneReload, ReloadInv
<1> QED BY <1>1, <1>2

LEMMA FollowInit ==
  ASSUME Init
  PROVE  FollowInv
<1>1. Reloading = {}
  BY DEF Init, Reloading, NewRequest
<1>2. RuntimesFollowFile
  <2> SUFFICES ASSUME NEW a \in Loaded(file)
               PROVE  AsIn(file, a, runtimes[a])
    BY DEF Init, RuntimesFollowFile, AsIn
  <2> DEFINE e == AccountOf(file, a).enabled
             c == Config(file, a)
  <2>1. runtimes[a] = [obj |-> 1, enabled |-> e, config |-> c, store |-> [mode |-> ModeOf(c), n |-> 1]]
    BY DEF Init
  <2> HIDE DEF e, c
  <2>2. runtimes[a].enabled = e /\ runtimes[a].config = c /\ runtimes[a].store.mode = ModeOf(c)
    BY <2>1
  <2> QED BY <2>2 DEF AsIn, e, c
<1> QED BY <1>1, <1>2 DEF FollowInv, OneReload, ReloadInv

LEMMA FollowStep ==
  ASSUME "overlap" \notin Faults, RuntimesInv, FileInv, FollowInv, [Next]_vars
  PROVE  FollowInv'
<1>1. CASE UNCHANGED vars
  BY <1>1, AsideFollows DEF vars
<1>2. CASE \E r \in Requests : Direct(r) \/ StartFlush(r) \/ StartUnfollow(r) \/ RequestStep(r)
  BY <1>2, RequestsFollow
<1>3. CASE LoopStep
  <2>1. UNCHANGED <<file, runtimes, req, up, fresh>>
    BY <1>3 DEF LoopStep, Tick, TickDone, EndCycle, RefuseTrade, PlaceOrder, Record, Turn, Detect
  <2> QED BY <2>1, AsideFollows
<1>4. CASE Crash \/ Start
  BY <1>4, ProcessFollows
<1> QED BY <1>1, <1>2, <1>3, <1>4 DEF Next

\* When reloads do not overlap, the engine runs what config.yaml says as soon as the
\* last reload has ended well, whatever was written, failed, or crashed before.
THEOREM EngineFollowsFile ==
  ASSUME "overlap" \notin Faults
  PROVE  Spec => []RuntimesFollowFile
<1>1. Init => StoresInv /\ FileInv /\ FollowInv
  BY StoresInit, FileInit, FollowInit
<1>2. StoresInv /\ FileInv /\ FollowInv /\ [Next]_vars => (StoresInv /\ FileInv /\ FollowInv)'
  BY StoresStep, FileStep, FollowStep DEF StoresInv
<1>3. FollowInv => RuntimesFollowFile
  BY DEF FollowInv
<1> QED BY <1>1, <1>2, <1>3, PTL DEF Spec

-----------------------------------------------------------------------------
(* The answer "ok"                                                         *)

\* A request that is answered ok has just ended its reload.
LEMMA OkEndsReload ==
  ASSUME RuntimesInv, FileInv, FollowInv, "overlap" \notin Faults, [Next]_vars,
         NEW r \in Requests, req[r].answer = None, req'[r].answer = "ok"
  PROVE  up' /\ Reloading' = {} /\ fresh' /\ Asked(r, file') /\ NoneBare(file')
<1> DEFINE Ends == up' /\ Reloading' = {} /\ fresh' /\ Asked(r, file') /\ NoneBare(file')
<1>1. None # "ok" /\ None # "error" /\ req'[r] # req[r]
  BY ConstantsOK
<1>2. ASSUME NEW q \in Requests,
             Direct(q) \/ StartFlush(q) \/ StartUnfollow(q) \/ RequestStep(q)
      PROVE  Ends
  <2>1. CASE \E doc : Writes(q, doc)
    <3>1. PICK doc : Writes(q, doc)
      BY <2>1
    <3>2. q = r
      BY <1>1, <3>1, WritesRequest DEF FileInv
    <3>3. \/ Reloading' = {} /\ fresh' /\ NoneBare(file')
          \/ req'[r].answer \in {req[r].answer, "error"}
      BY <3>1, <3>2, WriteFollows
    <3> QED BY <1>1, <3>1, <3>2, <3>3, AskedIsWritten DEF Writes
  <2>2. CASE Resolved(q)
    <3>1. \E d, now, rest, keep : Proceed(q, d, now, rest, keep)
      BY <2>2 DEF Resolved
    <3>2. q = r
      BY <1>1, <3>1, ProceedRequest DEF FileInv
    <3>3. (Reloading' = {} /\ fresh') \/ req'[r].answer = req[r].answer
      BY <2>2, <3>2, ResolvedFollows
    <3>4. up' /\ file' = file /\ Asked(r, file) /\ NoneBare(file)
      BY <2>2, <3>2 DEF Resolved, Reloading, FollowInv, ReloadInv
    <3> QED BY <1>1, <3>3, <3>4
  <2>3. ASSUME Done(q, "error") PROVE FALSE
    BY <1>1, <2>3, AnsweredRequest DEF FileInv
  <2>4. CASE StartFlush(q)
    BY <1>1, <2>4, FlushRequest DEF FileInv
  <2>5. CASE StartUnfollow(q) /\ Accepts(file, q)
    BY <1>1, <2>5, UnwindRequest DEF FileInv
  <2> QED BY <1>2, <2>1, <2>2, <2>3, <2>4, <2>5, RequestKinds DEF Refuse, NotResolved, FailReload
<1>3. CASE Crash
  BY <1>1, <1>3, CrashedRequests DEF FileInv
<1>4. CASE req' = req
  BY <1>1, <1>4
<1>5. ASSUME Start \/ LoopStep \/ UNCHANGED vars
      PROVE  req' = req
  BY <1>5 DEF Start, vars, LoopStep, Tick, TickDone, EndCycle, RefuseTrade, PlaceOrder, Record, Turn, Detect
<1> QED BY <1>2, <1>3, <1>4, <1>5 DEF Next

LEMMA OkHasEffect ==
  ASSUME RuntimesFollowFile', NEW r \in Requests,
         up', Reloading' = {}, fresh', Asked(r, file'), NoneBare(file')
  PROVE  Effect(r)'
<1> DEFINE a == Script[r].acct
           kind == Script[r].kind
<1>1. /\ DOMAIN runtimes' = Loaded(file')
      /\ \A b \in Loaded(file') : /\ runtimes'[b].config = Config(file', b)
                                  /\ runtimes'[b].enabled = AccountOf(file', b).enabled
                                  /\ runtimes'[b].store.mode = ModeOf(Config(file', b))
  BY DEF RuntimesFollowFile
<1>2. kind \in Kinds
  BY ConstantsOK
<1>3. kind \notin {"account", "reload"} => a \in Loaded(file')
  BY ConstantsOK DEF Asked, Loaded
<1>4. CASE kind \in SettingsKinds
  <2>1. a \in Loaded(file')
    BY <1>3, <1>4 DEF SettingsKinds
  <2> SUFFICES ASSUME NEW k \in DOMAIN Patch(r)
               PROVE  /\ runtimes'[a].config.global[k] = Patch(r)[k]
                      /\ k = "preview_mode" =>
                           runtimes'[a].store.mode = IF Patch(r)[k] THEN "preview" ELSE "live"
    BY <1>4 DEF Effect, SettingsKinds
  <2>2. Config(file', a).global[k] = Patch(r)[k]
    BY <1>4 DEF Asked
  <2> QED BY <1>1, <2>1, <2>2 DEF ModeOf, Live
<1>5. CASE kind \in {"follow", "enable", "unfollow"}
  <2>1. a \in Loaded(file') /\ LeaderView(r, Config(file', a).leaders)
    BY <1>3, <1>5 DEF Asked
  <2>2. LeaderView(r, runtimes'[a].config.leaders)
    BY <1>1, <2>1
  <2> QED BY <1>5, <2>2 DEF Effect, LeaderView
<1>6. CASE kind = "create"
  BY <1>1, <1>3, <1>6 DEF Effect
<1>7. CASE kind = "account"
  <2>1. a \in Ids(file')
    BY <1>7 DEF Asked
  <2>2. file'.format = "legacy" \/ AccountOf(file', a).enabled = Script[r].enabled
    BY <1>7 DEF Asked
  <2>3. a \in Bare => ~AccountOf(file', a).enabled
    BY <2>1 DEF NoneBare
  <2>4. a \notin Bare => a \in Loaded(file')
    BY <2>1 DEF Loaded
  <2> QED BY <1>1, <1>7, <2>2, <2>3, <2>4 DEF Effect
<1>8. CASE kind = "reload"
  BY <1>8 DEF Effect
<1> QED BY <1>2, <1>4, <1>5, <1>6, <1>7, <1>8 DEF Kinds, SettingsKinds

\* When reloads do not overlap, a request that is answered ok has taken effect: every
\* setting it named, the database of its mode and the entry of the leader it named are
\* what the engine runs its account with.  A stop is answered ok from preview; after live
\* trading its answer is an error, as the store it was called with is closed by then.
THEOREM OkIsDone ==
  ASSUME "overlap" \notin Faults
  PROVE  Spec => OkMeansDone
<1> DEFINE Kept == \A r \in Requests :
                     req[r].answer = None /\ req'[r].answer = "ok" => Effect(r)'
           IInv == StoresInv /\ FileInv /\ FollowInv
<1>1. Init => IInv
  BY StoresInit, FileInit, FollowInit
<1>2. IInv /\ [Next]_vars => IInv'
  BY StoresStep, FileStep, FollowStep DEF StoresInv
<1>3. IInv /\ [Next]_vars => [Kept]_vars
  <2> SUFFICES ASSUME IInv, [Next]_vars, NEW r \in Requests,
                      req[r].answer = None, req'[r].answer = "ok"
               PROVE  Effect(r)'
    OBVIOUS
  <2>1. up' /\ Reloading' = {} /\ fresh' /\ Asked(r, file') /\ NoneBare(file')
    BY OkEndsReload DEF StoresInv
  <2>2. RuntimesFollowFile'
    BY <1>2 DEF FollowInv
  <2> QED BY <2>1, <2>2, OkHasEffect
<1>4. Spec => [][Kept]_vars
  <2> HIDE DEF Kept, IInv
  <2> QED BY <1>1, <1>2, <1>3, PTL DEF Spec
<1> QED BY <1>4 DEF OkMeansDone
=============================================================================
