----------------------------- MODULE ControlPlane -----------------------------
(***************************************************************************)
(* The engine around the copy cycles: dashboard requests that change       *)
(* config.yaml, the reload that follows each of them, the runtimes of the  *)
(* accounts with their databases, and the scheduler that runs one copy     *)
(* cycle after the other.                                                  *)
(*                                                                         *)
(* A step is the code between two awaits.  A request reads and writes the  *)
(* file and begins the reload in one step; the reload waits for the        *)
(* network at every account that follows a leader by username, and what    *)
(* lies between two such accounts is installed in one step.                *)
(***************************************************************************)
EXTENDS ConfigDocument, FiniteSets

CONSTANTS
  Trades,       \* trades of the leaders, the same for every account
  Requests,     \* the requests that may be made, each at most once
  MaxRequests,  \* a bound on those that are made
  Script,       \* Script[r]: kind, acct and what else the request carries
  InitFiles,    \* documents the program may be started with
  Faults,       \* the events of AllFaults that may happen
  MaxRestarts,  \* a bound on crashes
  None

AllFaults == {"netDown", "crash", "overlap"}

Kinds == {"stop", "preview", "live", "patch", "follow", "enable", "unfollow",
          "create", "account", "reload"}

ASSUME ConstantsOK ==
  /\ "default" \in AccountIds
  /\ Faults \subseteq AllFaults
  /\ MaxRestarts \in Nat /\ MaxRequests \in Nat
  /\ None \notin {"ok", "error"}
  /\ \A r \in Requests :
       /\ Script[r].kind \in Kinds /\ Script[r].acct \in AccountIds
       /\ Script[r].kind = "patch" => Script[r].patch \in Overrides
       \* (createAccount writes the secrets; the others are routed to a runtime only)
       /\ Script[r].kind \notin {"account", "reload"} => Script[r].acct \notin Bare
  /\ LiveConfirmed \in BOOLEAN
  /\ \A doc \in InitFiles : IsDocument(doc) /\ Startable(doc)

VARIABLES
  file,      \* config.yaml
  runtimes,  \* AccountManager.runtimes
  opened,    \* opened[a]: how many stores were opened for a
  seen,      \* seen[a][m]: seen_trades in the database of a for mode m
  clob,      \* clob[a][t]: orders placed at the exchange for a and t
  req,       \* the requests
  loop,      \* the scheduler and the cycle it runs
  up,        \* the process runs
  restarts,
  carried,   \* history: what preview had seen when a last asked for live, see Carried
  fresh      \* history: the last reload ended well, and nothing was written since

vars == <<file, runtimes, opened, seen, clob, req, loop, up, restarts, carried, fresh>>

Modes == {"preview", "live"}
ModeOf(config) == IF Live(config) THEN "live" ELSE "preview"

IdleLoop == [pc |-> "idle", todo |-> {}, acct |-> None, config |-> None,
             store |-> None, queue |-> {}, trade |-> None]
NewRequest == [stage |-> "new", store |-> None, doc |-> None, todo |-> << >>,
               answer |-> None]

-----------------------------------------------------------------------------
(* Runtimes                                                                *)

\* Storing through a handle works while it is the open one of its account.
IsOpen(a, h) == a \in DOMAIN runtimes /\ runtimes[a].store = h

\* reloadConfig installs the account: a new runtime, or a new store when the
\* mode changed, and the configuration in place of the old one.
KeepStore(a, rt, config) == rt.store  \* (mutant) keeps the database of the old mode
StoreFor(a, rt, config) ==
  IF rt.store.mode = ModeOf(config) THEN rt.store
  ELSE [mode |-> ModeOf(config), n |-> opened[a] + 1]

Installed(a, doc) ==
  LET config == Config(doc, a)
      enabled == AccountOf(doc, a).enabled
  IN IF a \in DOMAIN runtimes
     THEN [runtimes[a] EXCEPT !.enabled = enabled, !.config = config,
                              !.store = StoreFor(a, runtimes[a], config)]
     ELSE [obj |-> opened[a] + 1, enabled |-> enabled, config |-> config,
           store |-> [mode |-> ModeOf(config), n |-> opened[a] + 1]]

\* The accounts of now are installed from doc, those outside keep are dropped.
Install(doc, now, keep) ==
  /\ runtimes' = [a \in (DOMAIN runtimes \cap keep) \cup now |->
                    IF a \in now THEN Installed(a, doc) ELSE runtimes[a]]
  /\ opened' = [a \in AccountIds |->
                  IF a \in now /\ (a \notin DOMAIN runtimes
                                   \/ Installed(a, doc).store # runtimes[a].store)
                  THEN opened[a] + 1 ELSE opened[a]]

InFileOrder(doc) == [i \in DOMAIN doc.accounts |-> doc.accounts[i].id]

\* What the reload has dealt with before it has to wait again.
AwaitsNetwork(doc, a) == a \notin Bare /\ NeedsNetwork(Config(doc, a))
UpTo(doc, todo) ==
  {todo[i] : i \in {i \in DOMAIN todo : \A j \in 1..i : ~AwaitsNetwork(doc, todo[j])}}
After(todo, n) == SubSeq(todo, n + 1, Len(todo))

-----------------------------------------------------------------------------
(* Requests: the write, the reload, the answer                             *)

Reloading == {r \in Requests : req[r].stage = "reload"}

\* Nothing in the code keeps two reloads apart.  They can only meet when a leader
\* is given by username; without "overlap" a second request comes after the first.
ReloadMayBegin == Reloading = {} \/ "overlap" \in Faults

\* The store of the account context that the request was given when it was routed.
ContextStore(r) ==
  LET a == Script[r].acct IN
  IF req[r].stage # "new" THEN req[r].store
  ELSE IF a \in DOMAIN runtimes THEN runtimes[a].store ELSE None

\* stopCopyTrading builds its answer from that store, which the reload has closed when
\* the account was live.
Answer(r) ==
  LET a == Script[r].acct IN
  CASE Script[r].kind \in {"preview", "live", "follow", "enable"} ->
         IF a \in DOMAIN runtimes' THEN "ok" ELSE "error"
    [] Script[r].kind = "stop" ->
         IF a \in DOMAIN runtimes' /\ runtimes'[a].store = ContextStore(r) THEN "ok" ELSE "error"
    [] OTHER -> "ok"

Done(r, answer) ==
  req' = [req EXCEPT ![r] = [NewRequest EXCEPT !.stage = "done", !.answer = answer]]

\* Installs what can be loaded of now, and waits for the network before rest, or answers.
Proceed(r, doc, now, rest, keep) ==
  /\ Install(doc, now \ Bare, keep \ Bare)
  /\ IF rest = << >> THEN Done(r, Answer(r))
     ELSE req' = [req EXCEPT ![r].stage = "reload", ![r].store = ContextStore(r),
                             ![r].doc = doc, ![r].todo = rest]
  /\ fresh' = IF rest = << >> THEN fresh \/ doc = file'
              ELSE IF req[r].stage = "reload" THEN fresh ELSE FALSE

\* The reload reads the file: accounts that left are dropped, and installing begins.
BeginReload(r) ==
  LET todo == InFileOrder(file')
      now == UpTo(file', todo)
  IN Proceed(r, file', now, After(todo, Cardinality(now)), Ids(file'))

\* The reload fails: the request gets an error, and the engine keeps what it has.
FailReload(r) == Done(r, "error") /\ fresh' = FALSE /\ UNCHANGED <<runtimes, opened>>

\* The file becomes doc, whether or not the reload then accepts it.
WriteAndReload(r, doc) ==
  /\ ReloadMayBegin
  /\ file' = doc
  /\ IF Reloadable(file') THEN BeginReload(r) ELSE FailReload(r)

Refuse(r) == Done(r, "error") /\ UNCHANGED <<file, runtimes, opened, fresh>>

ModeOnly == [k \in {"preview_mode"} |-> FALSE]  \* (mutant)
LivePatch == [preview_mode |-> FALSE, risk |-> TRUE]

\* Switching to live enables copying unless the request says otherwise.
Patch(r) ==
  CASE Script[r].kind = "stop" -> [preview_mode |-> TRUE, risk |-> FALSE]
    [] Script[r].kind = "preview" -> [k \in {"preview_mode"} |-> TRUE]
    [] Script[r].kind = "live" -> LivePatch
    [] Script[r].kind = "patch" ->
         IF "preview_mode" \in DOMAIN Script[r].patch /\ ~Script[r].patch["preview_mode"]
         THEN Overlay(Script[r].patch, [k \in {"risk"} |-> TRUE]) ELSE Script[r].patch

GoesLive(r) ==
  /\ Script[r].kind \in {"live", "patch"}
  /\ "preview_mode" \in DOMAIN Patch(r) /\ ~Patch(r)["preview_mode"]
GoesPreview(r) ==
  /\ Script[r].kind \in {"stop", "preview", "patch"}
  /\ "preview_mode" \in DOMAIN Patch(r) /\ Patch(r)["preview_mode"]

\* The entry of the leader, enabled or disabled as asked.
Switched(doc, r) ==
  [enabled |-> Script[r].enabled,
   by |-> AccountOf(doc, Script[r].acct).leaders[Script[r].leader].by]
Follows(doc, r) == Script[r].leader \in DOMAIN AccountOf(doc, Script[r].acct).leaders

\* The request finds in doc what it is about, and what it asks for is valid.
Accepts(doc, r) ==
  LET a == Script[r].acct IN
  CASE Script[r].kind = "create" -> a \notin Ids(doc)
    [] Script[r].kind = "reload" -> TRUE
    [] Script[r].kind \in {"stop", "preview", "live", "patch", "account"} ->
         a \in Ids(doc) /\ (GoesLive(r) => LiveConfirmed)
    [] Script[r].kind = "follow" -> a \in Ids(doc) /\ ~Follows(doc, r) /\ Valid(Script[r].entry)
    [] Script[r].kind = "unfollow" -> a \in Ids(doc) /\ Follows(doc, r)
    [] Script[r].kind = "enable" ->
         a \in Ids(doc) /\ Follows(doc, r) /\ Valid(Switched(doc, r))

\* What the request makes of the document it read.
Changed(doc, r) ==
  LET a == Script[r].acct IN
  CASE Script[r].kind \in {"stop", "preview", "live", "patch"} -> ApplyGlobalPatch(doc, a, Patch(r))
    [] Script[r].kind = "follow" -> UpsertLeader(doc, a, Script[r].leader, Script[r].entry)
    [] Script[r].kind = "enable" ->
         UpsertLeader(doc, a, Script[r].leader, Switched(doc, r))
    [] Script[r].kind = "unfollow" -> RemoveLeader(doc, a, Script[r].leader)
    [] Script[r].kind = "create" -> AddAccount(doc, a)
    [] Script[r].kind = "account" -> EnableAccount(doc, a, Script[r].enabled)
    [] Script[r].kind = "reload" -> doc

NewFile(r, doc) == IF Script[r].kind = "reload" THEN file ELSE Written(file, Changed(doc, r))

IsLive(a) == Live(runtimes[a].config)

NoMigration(a) == seen' = seen  \* (mutant) leaves the live database as it was
\* migratePreviewToLiveDb: what preview has handled is not copied again live.
Migrate(a) == seen' = [seen EXCEPT ![a]["live"] = @ \cup seen[a]["preview"]]

\* A trade for which a live cycle of a awaits the balances is too late to be held back.
UnderWay(a) ==
  IF loop.pc = "checks" /\ loop.acct = a /\ Live(loop.config) THEN {loop.trade} ELSE {}
Carried(a) == seen[a]["preview"] \ UnderWay(a)

MayAsk(r) ==
  /\ up /\ req[r].stage = "new"
  /\ Cardinality({q \in Requests : req[q].stage # "new"}) < MaxRequests

Unrouted == {"create", "account", "reload"}  \* requests not about a runtime

\* The request is answered at once: nothing to flush, nothing to unwind.
Direct(r) ==
  LET a == Script[r].acct IN
  /\ MayAsk(r)
  /\ Script[r].kind # "unfollow"
  /\ Script[r].kind \notin Unrouted => a \in DOMAIN runtimes
  /\ ~(GoesPreview(r) /\ IsLive(a))
  /\ IF GoesLive(r) /\ LiveConfirmed /\ ~IsLive(a)
     THEN Migrate(a) /\ carried' = [carried EXCEPT ![a] = Carried(a)]
     ELSE UNCHANGED <<seen, carried>>
  /\ IF Accepts(file, r) THEN WriteAndReload(r, NewFile(r, file)) ELSE Refuse(r)
  /\ UNCHANGED <<clob, loop, up, restarts>>

\* flushLivePendingBeforePreview asks the CLOB about the pending rows.
StartFlush(r) ==
  /\ MayAsk(r)
  /\ GoesPreview(r)
  /\ Script[r].acct \in DOMAIN runtimes /\ IsLive(Script[r].acct)
  /\ req' = [req EXCEPT ![r].stage = "flush", ![r].store = runtimes[Script[r].acct].store]
  /\ UNCHANGED <<file, runtimes, opened, seen, clob, loop, up, restarts, carried, fresh>>

\* With a closed store the flush fails, unless no row was pending.
EndFlush(r) ==
  /\ up /\ req[r].stage = "flush"
  /\ \/ Accepts(file, r) /\ WriteAndReload(r, NewFile(r, file))
     \/ ~Accepts(file, r) /\ Refuse(r)
     \/ ~IsOpen(Script[r].acct, req[r].store) /\ Refuse(r)
  /\ UNCHANGED <<seen, clob, loop, up, restarts, carried>>

\* deleteLeader reads the document before it cancels orders and sells positions.
StartUnfollow(r) ==
  LET a == Script[r].acct IN
  /\ MayAsk(r)
  /\ Script[r].kind = "unfollow"
  /\ a \in DOMAIN runtimes
  /\ IF Accepts(file, r)
     THEN /\ req' = [req EXCEPT ![r].stage = "unwind", ![r].doc = file,
                                ![r].store = runtimes[a].store]
          /\ UNCHANGED <<file, runtimes, opened, fresh>>
     ELSE Refuse(r)
  /\ UNCHANGED <<seen, clob, loop, up, restarts, carried>>

\* (mutant) an error of the closed store is not caught: nothing is answered
NoAnswerIfClosed(r) ==
  /\ up /\ req[r].stage = "unwind"
  /\ IsOpen(Script[r].acct, req[r].store)
  /\ WriteAndReload(r, NewFile(r, req[r].doc))
  /\ UNCHANGED <<seen, clob, loop, up, restarts, carried>>

\* ... and writes that document without the leader.
EndUnfollow(r) ==
  /\ up /\ req[r].stage = "unwind"
  /\ IF IsOpen(Script[r].acct, req[r].store)
     THEN WriteAndReload(r, NewFile(r, req[r].doc))
     ELSE Refuse(r)
  /\ UNCHANGED <<seen, clob, loop, up, restarts, carried>>

\* The usernames of an account are resolved: it is installed, and the accounts
\* after it that need no network.
Resolved(r) ==
  LET todo == req[r].todo
      now == {todo[1]} \cup UpTo(req[r].doc, Tail(todo))
  IN /\ up /\ req[r].stage = "reload"
     /\ UNCHANGED file
     /\ Proceed(r, req[r].doc, now, After(todo, Cardinality(now)), DOMAIN runtimes)
     /\ UNCHANGED <<seen, clob, loop, up, restarts, carried>>

\* The lookup fails: the accounts that are left keep what they have.
NotResolved(r) ==
  /\ "netDown" \in Faults
  /\ up /\ req[r].stage = "reload"
  /\ FailReload(r)
  /\ UNCHANGED <<file, seen, clob, loop, up, restarts, carried>>

RequestStep(r) == EndFlush(r) \/ EndUnfollow(r) \/ Resolved(r) \/ NotResolved(r)

-----------------------------------------------------------------------------
(* The scheduler: one cycle at a time, over the accounts enabled at the tick *)

\* (mutant) polls the default account only
DefaultOnly == {<<a, runtimes[a].obj>> : a \in DOMAIN runtimes \cap {"default"}}
EnabledOnes == {<<a, runtimes[a].obj>> : a \in {a \in DOMAIN runtimes : runtimes[a].enabled}}

Tick ==
  /\ up /\ loop.pc = "idle"
  /\ loop' = [loop EXCEPT !.pc = "turn", !.todo = EnabledOnes]
  /\ UNCHANGED <<file, runtimes, opened, seen, clob, req, up, restarts, carried, fresh>>

TickDone ==
  /\ up /\ loop.pc = "turn" /\ loop.todo = {}
  /\ loop' = IdleLoop
  /\ UNCHANGED <<file, runtimes, opened, seen, clob, req, up, restarts, carried, fresh>>

\* The cycle takes configuration and store as they are at its turn.  A runtime
\* that was dropped has a closed store: its cycle fails at once.
Turn(a, n) ==
  /\ up /\ loop.pc = "turn" /\ <<a, n>> \in loop.todo
  /\ \/ /\ a \in DOMAIN runtimes /\ runtimes[a].obj = n
        /\ \E q \in SUBSET Trades :
             loop' = [loop EXCEPT !.pc = "cycle", !.todo = @ \ {<<a, n>>}, !.acct = a,
                                  !.config = runtimes[a].config, !.store = runtimes[a].store,
                                  !.queue = q]
     \/ /\ ~(a \in DOMAIN runtimes /\ runtimes[a].obj = n)
        /\ loop' = [loop EXCEPT !.todo = @ \ {<<a, n>>}]
  /\ UNCHANGED <<file, runtimes, opened, seen, clob, req, up, restarts, carried, fresh>>

BackToTurns == [IdleLoop EXCEPT !.pc = "turn", !.todo = loop.todo]
MaySave == IsOpen(loop.acct, loop.store)

\* The queue is empty, a gate is closed, or a statement fails on a closed store.
EndCycle ==
  /\ up /\ loop.pc = "cycle"
  /\ loop.queue = {} \/ ~Copying(loop.config) \/ ~MaySave
     \/ \A l \in DOMAIN loop.config.leaders : ~loop.config.leaders[l].enabled
  /\ loop' = BackToTurns
  /\ UNCHANGED <<file, runtimes, opened, seen, clob, req, up, restarts, carried, fresh>>

IgnoreSeen(t) == FALSE  \* (mutant)
IsSeen(t) == t \in seen[loop.acct][loop.store.mode]

\* DETECT is written and the trade checked; a seen one is passed over.
Detect(t) ==
  /\ up /\ loop.pc = "cycle" /\ t \in loop.queue
  /\ MaySave /\ Copying(loop.config)
  /\ \E l \in DOMAIN loop.config.leaders : loop.config.leaders[l].enabled
  /\ loop' = IF IsSeen(t) THEN [loop EXCEPT !.queue = @ \ {t}]
             ELSE [loop EXCEPT !.pc = "checks", !.queue = @ \ {t}, !.trade = t]
  /\ UNCHANGED <<file, runtimes, opened, seen, clob, req, up, restarts, carried, fresh>>

\* A check refuses the trade; saying so fails on a closed store.
RefuseTrade ==
  /\ up /\ loop.pc = "checks"
  /\ loop' = IF MaySave THEN [loop EXCEPT !.pc = "cycle", !.trade = None] ELSE BackToTurns
  /\ UNCHANGED <<file, runtimes, opened, seen, clob, req, up, restarts, carried, fresh>>

\* Balances and prices were awaited; no statement runs before the order is placed.
PlaceOrder ==
  /\ up /\ loop.pc = "checks"
  /\ loop' = [loop EXCEPT !.pc = "record"]
  /\ clob' = IF Live(loop.config) THEN [clob EXCEPT ![loop.acct][loop.trade] = @ + 1] ELSE clob
  /\ UNCHANGED <<file, runtimes, opened, seen, req, up, restarts, carried, fresh>>

Record ==
  /\ up /\ loop.pc = "record"
  /\ IF MaySave
     THEN /\ seen' = [seen EXCEPT ![loop.acct][loop.store.mode] = @ \cup {loop.trade}]
          /\ loop' = [loop EXCEPT !.pc = "cycle", !.trade = None]
     ELSE UNCHANGED seen /\ loop' = BackToTurns
  /\ UNCHANGED <<file, runtimes, opened, clob, req, up, restarts, carried, fresh>>

LoopStep ==
  \/ Tick \/ TickDone \/ EndCycle \/ RefuseTrade \/ PlaceOrder \/ Record
  \/ \E a \in AccountIds : \E n \in 1..opened[a] : Turn(a, n)
  \/ \E t \in Trades : Detect(t)

-----------------------------------------------------------------------------
(* The process                                                             *)

Crash ==
  /\ "crash" \in Faults /\ restarts < MaxRestarts
  /\ up
  /\ up' = FALSE /\ restarts' = restarts + 1
  /\ runtimes' = [a \in {} |-> FALSE]
  /\ req' = [r \in Requests |->
               IF req[r].stage \in {"new", "done"} THEN req[r]
               ELSE [NewRequest EXCEPT !.stage = "done", !.answer = "error"]]
  /\ loop' = IdleLoop
  /\ UNCHANGED <<file, opened, seen, clob, carried, fresh>>

\* AccountManager.create: the file must pass the checks made at startup.
Start ==
  /\ ~up /\ Startable(file)
  /\ up' = TRUE /\ fresh' = TRUE
  /\ Install(file, Loaded(file), {})
  /\ UNCHANGED <<file, seen, clob, req, loop, restarts, carried>>

Init ==
  /\ file \in InitFiles
  /\ runtimes = [a \in Loaded(file) |->
                   [obj |-> 1, enabled |-> AccountOf(file, a).enabled, config |-> Config(file, a),
                    store |-> [mode |-> ModeOf(Config(file, a)), n |-> 1]]]
  /\ opened = [a \in AccountIds |-> IF a \in Loaded(file) THEN 1 ELSE 0]
  /\ seen = [a \in AccountIds |-> [m \in Modes |-> {}]]
  /\ clob = [a \in AccountIds |-> [t \in Trades |-> 0]]
  /\ req = [r \in Requests |-> NewRequest]
  /\ loop = IdleLoop
  /\ up = TRUE /\ restarts = 0
  /\ carried = [a \in AccountIds |-> {}]
  /\ fresh = TRUE

Next ==
  \/ \E r \in Requests : Direct(r) \/ StartFlush(r) \/ StartUnfollow(r) \/ RequestStep(r)
  \/ LoopStep
  \/ Crash \/ Start

Spec == Init /\ [][Next]_vars

\* The network answers or times out, the CLOB too; the process is started again.
Fairness ==
  /\ WF_vars(\E r \in Requests : RequestStep(r))
  /\ WF_vars(LoopStep)
  /\ WF_vars(Start)

FairSpec == Spec /\ Fairness

-----------------------------------------------------------------------------
(* Safety                                                                  *)

\* Once the last reload has ended well and none is running, the engine runs
\* exactly what config.yaml says: its accounts that have their secrets, the settings
\* and leaders of each, and the database of its mode.  (AccountManager.reloadConfig)
RuntimesFollowFile ==
  up /\ fresh /\ Reloading = {} =>
    /\ DOMAIN runtimes = Loaded(file)
    /\ \A a \in DOMAIN runtimes :
         /\ runtimes[a].enabled = AccountOf(file, a).enabled
         /\ runtimes[a].config = Config(file, a)
         /\ runtimes[a].store.mode = ModeOf(Config(file, a))

InFlight(a, t) == loop.pc = "record" /\ loop.acct = a /\ loop.trade = t /\ Live(loop.config)
Unrecorded(a) ==
  {t \in Trades : clob[a][t] > 0 /\ t \notin seen[a]["live"] /\ ~InFlight(a, t)}
Closings(a) == opened[a] - (IF a \in DOMAIN runtimes THEN 1 ELSE 0)

\* A live order whose trade the live database does not know is one order per
\* store that was closed under a cycle, by a mode switch, a removal or a crash;
\* without one, no trade is ordered twice and no order goes unrecorded.
OrdersLostWithStoresOnly ==
  \A a \in AccountIds :
    /\ Cardinality(Unrecorded(a)) <= Closings(a)
    /\ \A t \in Trades : clob[a][t] <= 1 + Closings(a)

\* A write changes what its request is about and nothing else of any account,
\* in both formats of the file and across the migration; only an unfollow, which
\* writes a document read earlier, may undo what was written meanwhile.
SettingsOf(doc, a) ==
  IF a \in Ids(doc) THEN [Config(doc, a) EXCEPT !.leaders = NoLeaders] ELSE None
OnlyItsOwn(r) ==
  /\ \A a \in AccountIds \ {Script[r].acct} :
       /\ a \in Ids(file) <=> a \in Ids(file')
       /\ a \in Ids(file) => /\ Config(file, a) = Config(file', a)
                             /\ AccountOf(file, a).enabled = AccountOf(file', a).enabled
  /\ LET a == Script[r].acct
     IN a \in Ids(file) =>
          /\ a \in Ids(file')
          /\ Script[r].kind \notin {"stop", "preview", "live", "patch"} =>
               SettingsOf(file, a) = SettingsOf(file', a)
          /\ Script[r].kind \in {"stop", "preview", "live", "patch"} =>
               \A k \in Keys \ DOMAIN Patch(r) :
                 Config(file, a).global[k] = Config(file', a).global[k]
          /\ Script[r].kind \notin {"follow", "enable", "unfollow"} =>
               Config(file, a).leaders = Config(file', a).leaders
          /\ Script[r].kind # "account" =>
               AccountOf(file, a).enabled = AccountOf(file', a).enabled
StaleUnfollow(r) == req[r].stage = "unwind" /\ req[r].doc # file
WritesKeepOthers ==
  [][file' # file => \E r \in Requests :
       req'[r] # req[r] /\ (OnlyItsOwn(r) \/ StaleUnfollow(r))]_vars

\* A trade that preview had handled when live was asked for is never ordered, unless a
\* cycle of an earlier spell of live trading had checked it before and was about to.
SwitchKeepsSeen ==
  [][\A a \in AccountIds, t \in Trades :
       clob'[a][t] > clob[a][t] => t \notin carried[a]]_vars

\* An answer "ok" means that the engine runs the account as the request asked: every
\* setting it named, in the database of the mode it named, and the entry of the leader
\* it named as it gave it.  (In the legacy format a change of the account itself is
\* dropped and answered ok; a disabled account without secrets has no runtime.)
Effect(r) ==
  LET a == Script[r].acct
      rt == runtimes[a]
      leaders == rt.config.leaders
  IN CASE Script[r].kind \in {"stop", "preview", "live", "patch"} ->
            \A k \in DOMAIN Patch(r) :
              /\ rt.config.global[k] = Patch(r)[k]
              /\ k = "preview_mode" => rt.store.mode = IF Patch(r)[k] THEN "preview" ELSE "live"
       [] Script[r].kind = "follow" ->
            Script[r].leader \in DOMAIN leaders /\ leaders[Script[r].leader] = Script[r].entry
       [] Script[r].kind = "enable" ->
            Script[r].leader \in DOMAIN leaders
            /\ leaders[Script[r].leader].enabled = Script[r].enabled
       [] Script[r].kind = "unfollow" -> Script[r].leader \notin DOMAIN leaders
       [] Script[r].kind = "create" -> a \in DOMAIN runtimes
       [] Script[r].kind = "account" ->
            \/ file.format = "legacy"
            \/ a \in DOMAIN runtimes /\ rt.enabled = Script[r].enabled
            \/ a \in Bare /\ ~Script[r].enabled
       [] OTHER -> TRUE
OkMeansDone ==
  [][\A r \in Requests : req[r].answer = None /\ req'[r].answer = "ok" => Effect(r)']_vars

\* What the dashboard writes can be started again after a crash, unless a settings
\* patch, the enabling of an account or a new account, which takes the defaults, left
\* one live with copying off, which the reload accepts and the checks at startup do
\* not, or enabled one that the reload refused when the file was already written.
DefaultsFail(doc) ==
  LET config == [global |-> doc.defaults]
  IN Live(config) /\ ~(Copying(config) /\ LiveConfirmed)
RestartBrokenByPatchOnly ==
  [][Startable(file) /\ ~Startable(file') => \E r \in Requests :
       /\ req'[r] # req[r]
       /\ \/ Script[r].kind \in {"patch", "account"} \/ StaleUnfollow(r)
          \/ Script[r].kind = "create" /\ DefaultsFail(file)]_vars

-----------------------------------------------------------------------------
(* Liveness                                                                *)

\* Every request is answered, whatever it awaits: again and again none is open.
Waiting(r) == req[r].stage \in {"flush", "unwind", "reload"}
RequestsEnd == []<>(\A r \in Requests : ~Waiting(r))

\* An account that stays enabled is polled again and again, whatever the cycles
\* of the others do.
EnabledArePolled ==
  \A a \in AccountIds :
    []<>(\/ ~up \/ a \notin DOMAIN runtimes \/ loop.acct = a
         \/ a \in DOMAIN runtimes /\ ~runtimes[a].enabled)
===============================================================================
