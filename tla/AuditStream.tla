------------------------------ MODULE AuditStream ------------------------------
(***************************************************************************)
(* A dashboard tab and the server: login, the active account, and the      *)
(* activity page, which shows the audit rows it polls merged with those    *)
(* the event stream brings.                                                *)
(*                                                                         *)
(* Every account has an audit log per mode, in a database of its own with  *)
(* row ids of its own.  The server pushes what its cursor has not passed   *)
(* yet, the tab reconnects with the last id it has seen.  The query cache  *)
(* of the tab is a library (@tanstack/react-query): a query in flight is   *)
(* started anew by an invalidation if it has data, and else goes on.       *)
(***************************************************************************)
EXTENDS Integers, Sequences, FiniteSets

CONSTANTS
  Accounts, Default,  \* the accounts, and the first of them
  Kinds,              \* kinds of audit rows (their leader and action)
  KindAt, TiedAt,     \* the i-th row of a log: its kind, and whether it has the ts of the last
  Filters,            \* what the page can be filtered by: kinds, or "all"
  Tokens,             \* values of DASHBOARD_TOKEN
  FirstSecrets,       \* what it may be at the start, None for unset
  Page,               \* rows per push, per poll and on the page (100)
  OldRows,            \* rows of the logs at the start
  MaxRows,            \* a bound on the rows the engine adds
  MaxEvents,          \* a bound on faults, switches and what the user does
  None

Modes == {"preview", "live"}

VARIABLES
  log,        \* log[a, m]: the number of rows, which have the ids from 1 on
  mode,       \* mode[a]
  secret,     \* the DASHBOARD_TOKEN the server runs with, or None
  served,     \* the server listens on the port the tab was loaded from
  conn,       \* the server's side of the stream
  wire,       \* what is under way from it to the tab
  hook,       \* useAuditStream of the tab
  page,       \* "login", "home" or "activity"
  token,      \* sessionStorage: the token the tab sends
  active,     \* sessionStorage: the active account
  filter,     \* the filter of the activity page
  live,       \* liveRows, the newest first
  cache,      \* cache[f]: the data of the query ["audit", f]
  ask,        \* ask[f]: the request of it in flight
  added,      \* rows the engine has added
  events,
  delivered,  \* history: rows the hook has handed to the page since that was opened
  mixed       \* history: account or mode have changed since then

vars == <<log, mode, secret, served, conn, wire, hook, page, token, active, filter, live, cache,
          ask, added, events, delivered, mixed>>
serverVars == <<secret, served>>
streamVars == <<conn, wire, hook>>
tabVars == <<page, token, active, filter, live, cache, ask, delivered, mixed>>

ASSUME ConstantsOK ==
  /\ Default \in Accounts
  /\ "all" \in Filters /\ Filters \subseteq Kinds \cup {"all"}
  /\ Page \in Nat \ {0} /\ MaxRows \in Nat /\ MaxEvents \in Nat
  /\ None \notin Accounts \cup Tokens /\ FirstSecrets \subseteq Tokens \cup {None}
  /\ OldRows \in [Accounts \X Modes -> Nat]
  /\ \A d \in DOMAIN OldRows : \A i \in 1..(OldRows[d] + MaxRows) :
       KindAt[i] \in Kinds /\ TiedAt[i] \in BOOLEAN

-----------------------------------------------------------------------------
(* The audit logs                                                          *)

Db(a) == <<a, mode[a]>>
RowOf(d, i) == [db |-> d, id |-> i, kind |-> KindAt[i]]
Passes(f, r) == f = "all" \/ r.kind = f
Matching(d, f) == {r \in {RowOf(d, i) : i \in 1..log[d]} : Passes(f, r)}

\* Moment of a row: rows written in the same millisecond have the same.
Ts(i) == Cardinality({j \in 2..i : ~TiedAt[j]})

\* listAuditAfterId
AfterId(d, id) ==
  LET last == IF log[d] < id + Page THEN log[d] ELSE id + Page
  IN [i \in 1..(IF last > id THEN last - id ELSE 0) |-> RowOf(d, id + i)]

\* listAuditLog: the newest rows by ts, in any order when that is equal.
Latest(d, f) ==
  LET rows == Matching(d, f)
      n == Cardinality(rows)
  IN {S \in SUBSET rows :
        /\ Cardinality(S) = IF n < Page THEN n ELSE Page
        /\ \A r \in S, q \in rows \ S : Ts(q.id) <= Ts(r.id)}

Happens == events < MaxEvents /\ events' = events + 1

\* store.audit, by whatever the engine does
Audit ==
  /\ added < MaxRows /\ added' = added + 1
  /\ \E a \in Accounts : log' = [log EXCEPT ![Db(a)] = @ + 1]
  /\ UNCHANGED <<mode, serverVars, streamVars, tabVars, events>>

-----------------------------------------------------------------------------
(* The event stream                                                        *)

Off == [pc |-> "off", lastId |-> 0]
Mounted == [pc |-> "fetch", lastId |-> 0]
Ready(id) == [type |-> "ready", lastId |-> id]
Event(r) == [type |-> "audit", row |-> r]
End == [type |-> "end"]

Events(rows) == [i \in DOMAIN rows |-> Event(rows[i])]

Named(a) == IF a = None THEN Default ELSE a
Allowed(t) == secret = None \/ t = secret
Accepts(t) == served /\ Allowed(t)
Refuses(t) == served /\ ~Allowed(t)
\* No answer, by a fault or because nobody listens
Unanswered == (served /\ Happens) \/ (~served /\ UNCHANGED events)

\* (mutant) the cursor of the connection stays where it was
KeepCursor(id, rows) == id
Cursor(id, rows) == id + Len(rows)

\* (mutant) the tab asks for the log from its first row
FromStart(id) == 0
Resume(id) == id

\* handleAuditEventStream: "ready" and the first push.  A tab with the wrong token stops;
\* without an answer it waits and tries again.
Connect ==
  /\ hook.pc = "fetch"
  /\ \/ /\ Accepts(token)
        /\ LET d == Db(Named(active))
               from == Resume(hook.lastId)
               rows == AfterId(d, from)
           IN /\ conn' = [db |-> d, lastId |-> Cursor(from, rows), open |-> TRUE]
              /\ wire' = <<Ready(from)>> \o Events(rows)
        /\ hook' = [hook EXCEPT !.pc = "reading"]
        /\ UNCHANGED events
     \/ /\ Refuses(token)
        /\ hook' = [hook EXCEPT !.pc = "stopped"]
        /\ UNCHANGED <<conn, wire, events>>
     \/ /\ Unanswered
        /\ hook' = [hook EXCEPT !.pc = "wait"]
        /\ UNCHANGED <<conn, wire>>
  /\ UNCHANGED <<log, mode, serverVars, tabVars, added>>

\* Every two seconds; the store of a connection may have been closed meanwhile.
Push ==
  /\ conn # None
  /\ \/ /\ conn.open
        /\ LET rows == AfterId(conn.db, conn.lastId) IN
             /\ rows # << >>
             /\ wire' = wire \o Events(rows)
             /\ conn' = [conn EXCEPT !.lastId = Cursor(@, rows)]
     \/ /\ ~conn.open
        /\ wire' = Append(wire, End)
        /\ conn' = None
  /\ UNCHANGED <<log, mode, serverVars, hook, tabVars, added, events>>

Retry ==
  /\ hook.pc = "wait"
  /\ hook' = [hook EXCEPT !.pc = "fetch"]
  /\ UNCHANGED <<log, mode, serverVars, conn, wire, tabVars, added, events>>

-----------------------------------------------------------------------------
(* The activity page                                                       *)

Request(a) == [acct |-> a, token |-> token]

\* invalidateQueries for the filter the page shows
Invalidated(a) == [ask EXCEPT ![filter] = IF @ = None \/ cache[filter] # None THEN Request(a) ELSE @]

Later(x, y) == IF x < y THEN y ELSE x

\* onAudit: a row that passes the filter and is not there yet, at most Page of them.
Shows(r) ==
  IF Passes(filter, r)
  THEN /\ live' = IF \E i \in DOMAIN live : live[i].id = r.id THEN live
                  ELSE SubSeq(<<r>> \o live, 1, IF Len(live) < Page THEN Len(live) + 1 ELSE Page)
       /\ ask' = Invalidated(active)
  ELSE UNCHANGED <<live, ask>>

\* parseSseChunk
NextEvent == Head(wire)

Read ==
  /\ hook.pc = "reading" /\ wire # << >>
  /\ wire' = Tail(wire)
  /\ LET m == NextEvent IN
       \/ /\ m.type = "ready"
          /\ hook' = [hook EXCEPT !.lastId = m.lastId]
          /\ UNCHANGED <<live, ask, delivered>>
       \/ /\ m.type = "audit"
          /\ hook' = [hook EXCEPT !.lastId = Later(@, m.row.id)]
          /\ delivered' = Append(delivered, m.row)
          /\ Shows(m.row)
       \/ /\ m.type = "end"
          /\ hook' = [hook EXCEPT !.pc = "fetch"]
          /\ UNCHANGED <<live, ask, delivered>>
  /\ UNCHANGED <<log, mode, serverVars, conn, page, token, active, filter, cache, added, events, mixed>>

\* Every 15 seconds, and when the page shows another filter.
Poll ==
  /\ page = "activity" /\ ask[filter] = None
  /\ ask' = [ask EXCEPT ![filter] = Request(active)]
  /\ UNCHANGED <<log, mode, serverVars, streamVars, page, token, active, filter, live, cache,
                 added, events, delivered, mixed>>

Close ==
  /\ hook' = Off /\ conn' = None /\ wire' = << >>
  /\ live' = << >> /\ filter' = "all"
  /\ delivered' = << >> /\ mixed' = FALSE

\* apiFetch: the token is dropped and the page loaded anew.
Unauthorized ==
  /\ token' = None /\ page' = "login"
  /\ Close
  /\ cache' = [f \in Filters |-> None] /\ ask' = [f \in Filters |-> None]
  /\ UNCHANGED active

\* The answer to a request, which may also get lost; it is tried again then.
Answer ==
  /\ \E f \in Filters :
       /\ ask[f] # None
       /\ \/ /\ Accepts(ask[f].token)
             /\ \E rows \in Latest(Db(Named(ask[f].acct)), f) : cache' = [cache EXCEPT ![f] = rows]
             /\ ask' = [ask EXCEPT ![f] = None]
             /\ UNCHANGED <<streamVars, page, token, active, filter, live, delivered, mixed, events>>
          \/ Refuses(ask[f].token) /\ Unauthorized /\ UNCHANGED events
          \/ /\ ask' = [ask EXCEPT ![f] = None] /\ Unanswered
             /\ UNCHANGED <<streamVars, page, token, active, filter, live, cache, delivered, mixed>>
  /\ UNCHANGED <<log, mode, serverVars, added>>

\* What the page shows: of two rows with one id the polled one, and the highest ids.
Merged ==
  LET polled == IF cache[filter] = None THEN {} ELSE cache[filter]
      streamed == {live[i] : i \in DOMAIN live}
  IN polled \cup {r \in streamed : \A q \in polled : q.id # r.id}
Shown == {r \in Merged : Cardinality({q \in Merged : q.id > r.id}) < Page}

-----------------------------------------------------------------------------
(* The tab                                                                 *)

\* The layout asks for the accounts every 15 seconds.
PollAccounts ==
  /\ page # "login"
  /\ \/ Refuses(token) /\ Unauthorized
     \/ /\ Accepts(token) /\ active = None
        /\ active' = Default
        /\ UNCHANGED <<streamVars, page, token, filter, live, cache, ask, delivered, mixed>>
  /\ UNCHANGED <<log, mode, serverVars, added, events>>

Login ==
  /\ page = "login" /\ served
  /\ \/ /\ secret = None
        /\ page' = "home"
        /\ UNCHANGED <<streamVars, token, active, filter, live, cache, ask, delivered, mixed,
                       events>>
     \/ /\ secret # None /\ Happens
        /\ \E t \in Tokens :
             IF t = secret
             THEN /\ token' = t /\ active' = Default /\ page' = "home"
                  /\ UNCHANGED <<streamVars, filter, live, cache, ask, delivered, mixed>>
             ELSE Unauthorized
  /\ UNCHANGED <<log, mode, serverVars, added>>

Logout ==
  /\ page # "login" /\ Happens
  /\ token' = None /\ page' = "login"
  /\ Close
  /\ UNCHANGED <<log, mode, serverVars, active, cache, ask, added>>

OpenActivity ==
  /\ page = "home" /\ page' = "activity"
  /\ hook' = Mounted
  /\ UNCHANGED <<log, mode, serverVars, conn, wire, token, active, filter, live, cache, ask,
                 added, events, delivered, mixed>>

LeaveActivity ==
  /\ page = "activity" /\ page' = "home" /\ Happens
  /\ Close
  /\ UNCHANGED <<log, mode, serverVars, token, active, cache, ask, added>>

\* The stream goes on for the account it was opened for.
SwitchAccount ==
  /\ page # "login" /\ Happens
  /\ \E a \in Accounts \ {Named(active)} :
       /\ active' = a
       /\ ask' = IF page = "activity" THEN Invalidated(a) ELSE ask
  /\ mixed' = (page = "activity")
  /\ UNCHANGED <<log, mode, serverVars, streamVars, page, token, filter, live, cache, added, delivered>>

SetFilter ==
  /\ page = "activity" /\ Happens
  /\ \E f \in Filters \ {filter} : filter' = f
  /\ live' = << >>
  /\ UNCHANGED <<log, mode, serverVars, streamVars, page, token, active, cache, ask, added,
                 delivered, mixed>>

-----------------------------------------------------------------------------
(* The server                                                              *)

\* setPreviewMode and the like, as ControlPlane has them: the store is closed.
SwitchMode ==
  /\ Happens
  /\ \E a \in Accounts :
       /\ mode' = [mode EXCEPT ![a] = IF @ = "live" THEN "preview" ELSE "live"]
       /\ conn' = IF conn # None /\ conn.db[1] = a THEN [conn EXCEPT !.open = FALSE] ELSE conn
       /\ mixed' = (mixed \/ (page = "activity" /\ a = Named(active)))
  /\ UNCHANGED <<log, serverVars, wire, hook, page, token, active, filter, live, cache, ask,
                 added, delivered>>

\* (mutant) an error ends the loop of the tab
LoopEnds ==
  /\ conn' = None /\ wire' = << >>
  /\ hook' = IF hook.pc = "reading" THEN [hook EXCEPT !.pc = "off"] ELSE hook
Broken ==
  /\ conn' = None /\ wire' = << >>
  /\ hook' = IF hook.pc = "reading" THEN [hook EXCEPT !.pc = "wait"] ELSE hook

\* What was pushed and not read is lost.
StreamBreaks ==
  /\ hook.pc = "reading" /\ Happens
  /\ Broken
  /\ UNCHANGED <<log, mode, serverVars, tabVars, added>>

\* DASHBOARD_TOKEN is read when the server starts.
Restart ==
  /\ Happens
  /\ secret' \in Tokens \cup {None}
  /\ Broken
  /\ ask' = [f \in Filters |-> None]
  /\ UNCHANGED <<log, mode, served, page, token, active, filter, live, cache, added, delivered, mixed>>

\* syncApiServer, when health_port has changed: the old server closes.  What was opened
\* before goes on, and the tab goes on asking at the port it was loaded from.
MovePort ==
  /\ Happens
  /\ served' = ~served
  /\ UNCHANGED <<log, mode, secret, streamVars, tabVars, added>>

-----------------------------------------------------------------------------

Init ==
  /\ log = OldRows /\ mode = [a \in Accounts |-> "preview"]
  /\ secret \in FirstSecrets /\ served = TRUE
  /\ conn = None /\ wire = << >> /\ hook = Off
  /\ page = "home" /\ token = secret /\ active = None
  /\ filter = "all" /\ live = << >>
  /\ cache = [f \in Filters |-> None] /\ ask = [f \in Filters |-> None]
  /\ added = 0 /\ events = 0
  /\ delivered = << >> /\ mixed = FALSE

Hook == Connect \/ Read \/ Retry

Next ==
  \/ Audit \/ Push \/ Hook
  \/ Poll \/ Answer \/ PollAccounts
  \/ Login \/ Logout \/ OpenActivity \/ LeaveActivity \/ SwitchAccount \/ SetFilter
  \/ SwitchMode \/ StreamBreaks \/ Restart \/ MovePort

Spec == Init /\ [][Next]_vars

\* Timers fire, and requests are answered or fail.
FairSpec ==
  /\ Spec
  /\ WF_vars(Push) /\ WF_vars(Hook)
  /\ WF_vars(Poll) /\ WF_vars(Answer) /\ WF_vars(PollAccounts)

-----------------------------------------------------------------------------
(* Properties                                                              *)

\* However often the stream breaks, ends and is opened again, the tab is given no row
\* twice, no row after a newer one, and of one log every row up to the newest it has
\* (events.ts, useAuditStream.ts).
EachRowOnce ==
  /\ \A i, j \in DOMAIN delivered : i < j => delivered[i].id < delivered[j].id
  /\ ~mixed => \A i \in DOMAIN delivered : delivered[i].id = i

\* The page stays open for an account that keeps its mode, with a token that is right, at a
\* port that is served.
Settled == page = "activity" /\ ~mixed /\ Accepts(token)

AllDelivered == Len(delivered) = log[Db(Named(active))]

\* In the end the page shows the newest rows of the account it is open for, and the
\* stream has brought every row, unless it was refused once (Activity.tsx, useAuditStream.ts).
RowsArrive ==
  <>[]Settled => <>[](/\ Shown \in Latest(Db(Named(active)), filter)
                      /\ AllDelivered \/ hook.pc = "stopped")
=============================================================================
