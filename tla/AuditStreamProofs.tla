--------------------------- MODULE AuditStreamProofs ---------------------------
(***************************************************************************)
(* Proofs about the event stream of AuditStream: whatever happens to the   *)
(* server, the stream and the tab, the rows the tab is given are those     *)
(* with the ids from 1 on, one after the other.                            *)
(***************************************************************************)
EXTENDS AuditStream, SequenceTheorems, TLAPS

Dbs == Accounts \X Modes
Rows == {RowOf(d, i) : d \in Dbs, i \in Nat}
Messages == {Ready(n) : n \in Nat} \cup {Event(r) : r \in Rows} \cup {End}
Connection == [db : Dbs, lastId : Nat, open : BOOLEAN]
TabHook == [pc : {"off", "fetch", "reading", "wait", "stopped"}, lastId : Nat]

StreamTypes ==
  /\ log \in [Dbs -> Nat] /\ mode \in [Accounts -> Modes]
  /\ active \in Accounts \cup {None}
  /\ conn \in Connection \cup {None}
  /\ wire \in Seq(Messages)
  /\ hook \in TabHook
  /\ delivered \in Seq(Rows)

\* The messages of a connection begin with "ready", which brings no row.
Greets(w) == IF w # << >> /\ w[1].type = "ready" THEN 1 ELSE 0

\* What is under way goes on where the tab is: the rows after the last it has,
\* in order, and then the end.
WireInv ==
  \A k \in 1..Len(wire) :
    /\ wire[k].type = "ready" => k = 1 /\ wire[k].lastId = hook.lastId
    /\ wire[k].type = "audit" => wire[k].row.id = hook.lastId + k - Greets(wire)
    /\ wire[k].type = "end" => k = Len(wire) /\ conn = None

\* The cursor of the connection is behind what is under way.
CursorInv == conn # None => conn.lastId = hook.lastId + Len(wire) - Greets(wire)

\* The tab has the rows from 1 to the last it has.
TabInv ==
  /\ hook.lastId = Len(delivered)
  /\ \A i \in 1..Len(delivered) : delivered[i].id = i

\* Without a stream there is nothing under way.
QuietInv ==
  /\ hook.pc # "reading" => conn = None /\ wire = << >>
  /\ page # "activity" => hook.pc = "off" /\ delivered = << >>

StreamInv == StreamTypes /\ WireInv /\ CursorInv /\ TabInv /\ QuietInv

-----------------------------------------------------------------------------
(* Rows and messages                                                       *)

LEMMA RowFacts == \A r \in Rows : r.id \in Nat
  BY DEF Rows, RowOf

\* A message is one of three kinds, and each kind has its content.
LEMMA MessageFacts ==
  /\ \A n \in Nat : Ready(n) \in Messages /\ Ready(n).type = "ready" /\ Ready(n).lastId = n
  /\ \A r \in Rows : Event(r) \in Messages /\ Event(r).type = "audit" /\ Event(r).row = r
  /\ End \in Messages /\ End.type = "end"
<1>1. \A n \in Nat : Ready(n) \in Messages /\ Ready(n).type = "ready" /\ Ready(n).lastId = n
  BY DEF Messages, Ready
<1>2. \A r \in Rows : Event(r) \in Messages /\ Event(r).type = "audit" /\ Event(r).row = r
  BY DEF Messages, Event
<1>3. End \in Messages /\ End.type = "end"
  BY DEF Messages, End
<1> QED BY <1>1, <1>2, <1>3

LEMMA MessageKinds ==
  \A m \in Messages :
    /\ m.type \in {"ready", "audit", "end"}
    /\ m.type = "audit" => m.row \in Rows
<1> SUFFICES ASSUME NEW m \in Messages
             PROVE  /\ m.type \in {"ready", "audit", "end"}
                    /\ m.type = "audit" => m.row \in Rows
  OBVIOUS
<1>1. CASE \E n \in Nat : m = Ready(n)
  BY <1>1, MessageFacts
<1>2. CASE \E r \in Rows : m = Event(r)
  BY <1>2, MessageFacts
<1>3. CASE m = End
  BY <1>3, MessageFacts
<1> QED BY <1>1, <1>2, <1>3 DEF Messages

\* listAuditAfterId answers with the rows that follow the id, without a gap.
LEMMA RowsFollow ==
  ASSUME NEW d \in Dbs, NEW id \in Nat, log \in [Dbs -> Nat]
  PROVE  /\ AfterId(d, id) \in Seq(Rows)
         /\ \A i \in 1..Len(AfterId(d, id)) : AfterId(d, id)[i].id = id + i
<1> DEFINE last == IF log[d] < id + Page THEN log[d] ELSE id + Page
           n == IF last > id THEN last - id ELSE 0
<1>1. log[d] \in Nat /\ Page \in Nat
  BY ConstantsOK
<1>2. n \in Nat
  BY <1>1
<1>3. AfterId(d, id) = [i \in 1..n |-> RowOf(d, id + i)]
  BY DEF AfterId
<1> HIDE DEF n
<1>4. \A i \in 1..n : RowOf(d, id + i) \in Rows /\ RowOf(d, id + i).id = id + i
  BY <1>2 DEF Rows, RowOf
<1>5. AfterId(d, id) \in Seq(Rows) /\ Len(AfterId(d, id)) = n
  BY <1>2, <1>3, <1>4
<1> QED BY <1>3, <1>4, <1>5

\* Every row becomes one message, in the same place.
LEMMA EventFacts ==
  ASSUME NEW rows \in Seq(Rows)
  PROVE  /\ Events(rows) \in Seq(Messages) /\ Len(Events(rows)) = Len(rows)
         /\ \A i \in 1..Len(rows) : Events(rows)[i] = Event(rows[i])
<1>1. Len(rows) \in Nat /\ DOMAIN rows = 1..Len(rows)
  BY LenProperties
<1>2. Events(rows) = [i \in 1..Len(rows) |-> Event(rows[i])]
  BY <1>1 DEF Events
<1>3. \A i \in 1..Len(rows) : Event(rows[i]) \in Messages
  BY MessageFacts, ElementOfSeq
<1> DEFINE n == Len(rows)
<1> HIDE DEF n
<1>4. Events(rows) \in Seq(Messages) /\ Len(Events(rows)) = n
  BY <1>1, <1>2, <1>3 DEF n
<1> QED BY <1>2, <1>4 DEF n

\* Two sequences of messages after one another.
LEMMA Joined ==
  ASSUME NEW s \in Seq(Messages), NEW t \in Seq(Messages)
  PROVE  /\ s \o t \in Seq(Messages) /\ Len(s \o t) = Len(s) + Len(t)
         /\ \A i \in 1..Len(s) : (s \o t)[i] = s[i]
         /\ \A i \in 1..Len(t) : (s \o t)[Len(s) + i] = t[i]
<1> DEFINE joined == s \o t
<1>1. Len(s) \in Nat /\ Len(t) \in Nat
  BY LenProperties
<1>2. joined \in Seq(Messages) /\ Len(joined) = Len(s) + Len(t)
  BY ConcatProperties
<1>3. \A i \in 1..(Len(s) + Len(t)) : joined[i] = IF i <= Len(s) THEN s[i] ELSE t[i - Len(s)]
  BY ConcatProperties
<1> HIDE DEF joined
<1>4. \A i \in 1..Len(s) : i \in 1..(Len(s) + Len(t)) /\ i <= Len(s)
  BY <1>1
<1>5. \A i \in 1..Len(t) : /\ Len(s) + i \in 1..(Len(s) + Len(t))
                           /\ ~(Len(s) + i <= Len(s)) /\ (Len(s) + i) - Len(s) = i
  BY <1>1
<1>6. /\ joined \in Seq(Messages) /\ Len(joined) = Len(s) + Len(t)
      /\ \A i \in 1..Len(s) : joined[i] = s[i]
      /\ \A i \in 1..Len(t) : joined[Len(s) + i] = t[i]
  BY <1>2, <1>3, <1>4, <1>5
<1> QED BY <1>6 DEF joined

LEMMA RequestedDb ==
  ASSUME StreamTypes
  PROVE  Db(Named(active)) \in Dbs
BY ConstantsOK DEF StreamTypes, Db, Named, Dbs

-----------------------------------------------------------------------------
(* What the steps do to the stream                                         *)

\* The page has been left or the tab loaded anew.
StreamClosed ==
  /\ UNCHANGED <<log, mode>>
  /\ hook' = Off /\ conn' = None /\ wire' = << >> /\ delivered' = << >>

\* A step that concerns the stream by itself.
StreamSteps == Push \/ Connect \/ Read \/ Retry \/ OpenActivity \/ SwitchMode \/ StreamBreaks \/ Restart

\* Every other step leaves the stream alone or closes it.
LEMMA OtherSteps ==
  ASSUME StreamTypes, Next, ~StreamSteps
  PROVE  /\ active' \in Accounts \cup {None}
         /\ \/ /\ UNCHANGED <<conn, wire, hook, delivered, mode>>
               /\ log' \in [Dbs -> Nat]
               /\ page' = page \/ (page # "activity" /\ page' # "activity")
            \/ StreamClosed
<1> DEFINE Goal ==
         /\ active' \in Accounts \cup {None}
         /\ \/ /\ UNCHANGED <<conn, wire, hook, delivered, mode>>
               /\ log' \in [Dbs -> Nat]
               /\ page' = page \/ (page # "activity" /\ page' # "activity")
            \/ StreamClosed
<1>1. ASSUME Audit PROVE Goal
  <2>1. PICK a \in Accounts : log' = [log EXCEPT ![Db(a)] = @ + 1]
    BY <1>1 DEF Audit
  <2>2. Db(a) \in Dbs
    BY DEF StreamTypes, Db, Dbs
  <2>3. log' \in [Dbs -> Nat]
    BY <2>1, <2>2 DEF StreamTypes
  <2> QED BY <2>3, <1>1 DEF Audit, StreamTypes, streamVars, tabVars
<1>2. ASSUME Unauthorized, UNCHANGED <<log, mode>> PROVE Goal
  BY <1>2 DEF Unauthorized, Close, StreamClosed, StreamTypes
<1>3. ASSUME Poll \/ MovePort \/ SetFilter PROVE Goal
  BY <1>3 DEF Poll, MovePort, SetFilter, StreamTypes, streamVars, tabVars
<1>4. ASSUME Answer PROVE Goal
  <2>1. CASE Unauthorized
    BY <2>1, <1>2, <1>4 DEF Answer
  <2>2. CASE UNCHANGED <<streamVars, page, active, delivered>>
    BY <2>2, <1>4 DEF Answer, StreamTypes, streamVars
  <2> QED BY <2>1, <2>2, <1>4 DEF Answer, streamVars
<1>5. ASSUME PollAccounts PROVE Goal
  <2>1. CASE Unauthorized
    BY <2>1, <1>2, <1>5 DEF PollAccounts
  <2>2. CASE UNCHANGED <<streamVars, page, delivered>> /\ active' = Default
    BY <2>2, <1>5, ConstantsOK DEF PollAccounts, StreamTypes, streamVars
  <2> QED BY <2>1, <2>2, <1>5 DEF PollAccounts, streamVars
<1>6. ASSUME Login PROVE Goal
  <2>1. CASE Unauthorized
    BY <2>1, <1>2, <1>6 DEF Login
  <2>2. CASE /\ UNCHANGED <<streamVars, delivered>> /\ page' = "home"
             /\ active' \in {active, Default}
    BY <2>2, <1>6, ConstantsOK DEF Login, StreamTypes, streamVars
  <2> QED BY <2>1, <2>2, <1>6 DEF Login, streamVars
<1>7. ASSUME Logout \/ LeaveActivity PROVE Goal
  BY <1>7 DEF Logout, LeaveActivity, Close, StreamClosed, StreamTypes
<1>8. ASSUME SwitchAccount PROVE Goal
  BY <1>8 DEF SwitchAccount, StreamTypes, streamVars
<1> HIDE DEF Goal
<1>9. Goal
  BY <1>1, <1>3, <1>4, <1>5, <1>6, <1>7, <1>8 DEF Next, Hook, StreamSteps
<1> QED BY <1>9 DEF Goal

-----------------------------------------------------------------------------
(* The invariant                                                           *)

LEMMA StreamInit ==
  ASSUME Init
  PROVE  StreamInv
<1>1. StreamTypes
  BY ConstantsOK, EmptySeq DEF Init, StreamTypes, Off, TabHook, Dbs, Modes
<1>2. Len(wire) = 0 /\ Len(delivered) = 0
  BY DEF Init
<1> QED BY <1>1, <1>2 DEF Init, StreamInv, WireInv, CursorInv, TabInv, QuietInv, Off

LEMMA StreamIsClosed ==
  ASSUME StreamTypes, StreamClosed, active' \in Accounts \cup {None}
  PROVE  StreamInv'
<1>1. StreamTypes'
  BY EmptySeq DEF StreamClosed, StreamTypes, Off, TabHook
<1>2. Len(wire') = 0 /\ Len(delivered') = 0
  BY DEF StreamClosed
<1> QED BY <1>1, <1>2 DEF StreamClosed, StreamInv, WireInv, CursorInv, TabInv, QuietInv, Off

LEMMA StreamStaysAlone ==
  ASSUME StreamInv, UNCHANGED <<conn, wire, hook, delivered, mode>>,
         log' \in [Dbs -> Nat], active' \in Accounts \cup {None},
         page' = page \/ (page # "activity" /\ page' # "activity")
  PROVE  StreamInv'
BY DEF StreamInv, StreamTypes, WireInv, CursorInv, TabInv, QuietInv

\* The first message and the first rows of a connection.
LEMMA ConnectKeeps ==
  ASSUME StreamInv, Connect
  PROVE  StreamInv'
<1> USE DEF StreamInv
<1> DEFINE d == Db(Named(active))
           rows == AfterId(d, hook.lastId)
<1>1. hook.lastId \in Nat /\ hook \in TabHook /\ hook.pc = "fetch" /\ d \in Dbs
  BY RequestedDb DEF StreamTypes, TabHook, Connect
<1>2. conn = None /\ wire = << >> /\ page = "activity"
  BY <1>1 DEF QuietInv
<1>3. UNCHANGED <<log, mode, active, page, delivered>>
  BY DEF Connect, tabVars
<1>4. CASE Accepts(token) /\ hook' = [hook EXCEPT !.pc = "reading"]
           /\ conn' = [db |-> d, lastId |-> Cursor(hook.lastId, rows), open |-> TRUE]
           /\ wire' = <<Ready(hook.lastId)>> \o Events(rows)
  <2>1. /\ rows \in Seq(Rows)
        /\ \A i \in 1..Len(rows) : rows[i].id = hook.lastId + i
    BY <1>1, RowsFollow DEF StreamTypes
  <2>2. Len(rows) \in Nat
    BY <2>1, LenProperties
  <2> DEFINE first == <<Ready(hook.lastId)>>
             rest == Events(rows)
  <2>3. /\ rest \in Seq(Messages) /\ Len(rest) = Len(rows)
        /\ \A i \in 1..Len(rows) : rest[i] = Event(rows[i])
    BY <2>1, EventFacts
  <2>4. first \in Seq(Messages) /\ Len(first) = 1 /\ first[1] = Ready(hook.lastId)
    BY <1>1, MessageFacts
  <2> HIDE DEF first, rest, rows, d
  <2>5. wire' = first \o rest
    BY <1>4 DEF first, rest
  <2>6. /\ wire' \in Seq(Messages) /\ Len(wire') = 1 + Len(rows)
        /\ wire'[1] = Ready(hook.lastId)
        /\ \A k \in 2..(1 + Len(rows)) : wire'[k] = Event(rows[k - 1])
    <3>1. /\ wire' \in Seq(Messages) /\ Len(wire') = 1 + Len(rows)
          /\ wire'[1] = first[1]
          /\ \A i \in 1..Len(rows) : wire'[1 + i] = rest[i]
      <4>1. /\ first \o rest \in Seq(Messages) /\ Len(first \o rest) = Len(first) + Len(rest)
            /\ \A i \in 1..Len(first) : (first \o rest)[i] = first[i]
            /\ \A i \in 1..Len(rest) : (first \o rest)[Len(first) + i] = rest[i]
        BY <2>3, <2>4, Joined
      <4>2. 1 \in 1..1
        OBVIOUS
      <4> QED BY <4>1, <4>2, <2>3, <2>4, <2>5
    <3>2. \A k \in 2..(1 + Len(rows)) : k - 1 \in 1..Len(rows) /\ k = 1 + (k - 1)
      BY <2>2
    <3>3. \A k \in 2..(1 + Len(rows)) : wire'[k] = Event(rows[k - 1])
      <4> TAKE k \in 2..(1 + Len(rows))
      <4>1. k - 1 \in 1..Len(rows) /\ k = 1 + (k - 1)
        BY <3>2
      <4>2. wire'[1 + (k - 1)] = rest[k - 1] /\ rest[k - 1] = Event(rows[k - 1])
        BY <4>1, <3>1, <2>3
      <4> QED BY <4>1, <4>2
    <3> QED BY <3>1, <3>3, <2>4
  <2>7. Ready(hook.lastId).type = "ready" /\ Ready(hook.lastId).lastId = hook.lastId
    BY <1>1, MessageFacts
  <2>8. wire' # << >> /\ Greets(wire') = 1
    BY <2>2, <2>6, <2>7 DEF Greets
  <2>9. hook' \in TabHook /\ hook'.lastId = hook.lastId /\ hook'.pc = "reading"
    BY <1>1, <1>4 DEF TabHook
  <2>10. conn' \in Connection /\ conn'.lastId = hook.lastId + Len(rows)
    BY <1>1, <1>4, <2>2 DEF Connection, Cursor
  <2>11. StreamTypes'
    BY <1>3, <2>6, <2>9, <2>10 DEF StreamTypes
  <2>12. WireInv'
    <3>1. SUFFICES ASSUME NEW k \in 1..Len(wire')
                   PROVE  /\ wire'[k].type = "ready" => k = 1 /\ wire'[k].lastId = hook.lastId
                          /\ wire'[k].type = "audit" => wire'[k].row.id = hook.lastId + k - 1
                          /\ wire'[k].type # "end"
      BY <2>8, <2>9 DEF WireInv
    <3>2. CASE k = 1
      BY <3>2, <2>6, <2>7
    <3>3. CASE k # 1
      <4>1. k \in 2..(1 + Len(rows)) /\ k - 1 \in 1..Len(rows)
        BY <3>3, <2>2, <2>6
      <4>2. rows[k - 1] \in Rows
        BY <4>1, <2>1, ElementOfSeq
      <4>3. wire'[k].type = "audit" /\ wire'[k].row = rows[k - 1]
        BY <4>1, <4>2, <2>6, MessageFacts
      <4> QED BY <4>1, <4>3, <2>1, <1>1
    <3> QED BY <3>2, <3>3
  <2>13. CursorInv'
    BY <2>2, <2>6, <2>8, <2>9, <2>10, <1>1 DEF CursorInv
  <2> QED BY <2>11, <2>12, <2>13, <2>9, <1>2, <1>3 DEF TabInv, QuietInv
<1>5. CASE /\ hook' \in {[hook EXCEPT !.pc = "stopped"], [hook EXCEPT !.pc = "wait"]}
           /\ UNCHANGED <<conn, wire>>
  <2>1. hook' \in TabHook /\ hook'.lastId = hook.lastId /\ hook'.pc \in {"stopped", "wait"}
    BY <1>1, <1>5 DEF TabHook
  <2> QED BY <2>1, <1>2, <1>3, <1>5 DEF StreamTypes, WireInv, CursorInv, TabInv, QuietInv
<1>6. Resume(hook.lastId) = hook.lastId
  BY DEF Resume
<1> QED BY <1>4, <1>5, <1>6 DEF Connect

\* Every push brings the rows that follow those under way; a closed store ends the stream.
LEMMA PushKeeps ==
  ASSUME StreamInv, Push
  PROVE  StreamInv'
<1> USE DEF StreamInv
<1>1. /\ conn \in Connection /\ conn # None /\ hook.lastId \in Nat /\ hook.pc = "reading"
      /\ wire \in Seq(Messages) /\ Len(wire) \in Nat
  BY LenProperties DEF StreamTypes, TabHook, Push, QuietInv
<1>2. UNCHANGED <<log, mode, active, page, delivered, hook>>
  BY DEF Push, tabVars
<1>3. conn.db \in Dbs /\ conn.lastId \in Nat
  BY <1>1 DEF Connection
<1>4. Greets(wire) \in {0, 1} /\ conn.lastId = hook.lastId + Len(wire) - Greets(wire)
  BY <1>1 DEF Greets, CursorInv
<1>5. \A k \in 1..Len(wire) : wire[k].type # "end"
  BY <1>1 DEF WireInv
<1>6. ASSUME NEW w \in Seq(Messages), Len(wire) <= Len(w), Len(w) \in Nat,
             \A k \in 1..Len(wire) : w[k] = wire[k],
             Len(w) > Len(wire) => w[Len(wire) + 1].type # "ready"
      PROVE  Greets(w) = Greets(wire)
  <2>1. CASE wire = << >>
    <3>1. Greets(wire) = 0 /\ Len(wire) = 0
      BY <2>1 DEF Greets
    <3>2. w # << >> => Len(w) > 0
      BY <1>6, EmptySeq
    <3> QED BY <3>1, <3>2, <1>6 DEF Greets
  <2>2. CASE wire # << >>
    <3>1. Len(wire) > 0
      BY <2>2, <1>1, EmptySeq
    <3>2. w # << >> /\ w[1] = wire[1]
      BY <3>1, <1>1, <1>6
    <3> QED BY <2>2, <3>2 DEF Greets
  <2> QED BY <2>1, <2>2
<1>7. CASE conn.open
  <2> DEFINE rows == AfterId(conn.db, conn.lastId)
             more == Events(rows)
  <2>1. /\ rows \in Seq(Rows)
        /\ \A i \in 1..Len(rows) : rows[i].id = conn.lastId + i
    BY <1>3, RowsFollow DEF StreamTypes
  <2>2. Len(rows) \in Nat
    BY <2>1, LenProperties
  <2>3. /\ more \in Seq(Messages) /\ Len(more) = Len(rows)
        /\ \A i \in 1..Len(rows) : more[i] = Event(rows[i])
    BY <2>1, EventFacts
  <2>4. wire' = wire \o more /\ conn' = [conn EXCEPT !.lastId = conn.lastId + Len(rows)]
    BY <1>7 DEF Push, Cursor
  <2> HIDE DEF rows, more
  <2>5. /\ wire' \in Seq(Messages) /\ Len(wire') = Len(wire) + Len(rows)
        /\ \A k \in 1..Len(wire) : wire'[k] = wire[k]
        /\ \A i \in 1..Len(rows) : wire'[Len(wire) + i] = more[i]
    BY <1>1, <2>3, <2>4, Joined
  <2>6. \A k \in 1..Len(wire) : wire'[k] = wire[k]
    BY <2>5
  <2>7. \A i \in 1..Len(rows) : wire'[Len(wire) + i] = Event(rows[i])
    BY <2>3, <2>5
  <2>8. \A i \in 1..Len(rows) : /\ wire'[Len(wire) + i].type = "audit"
                                /\ wire'[Len(wire) + i].row.id = conn.lastId + i
    <3> TAKE i \in 1..Len(rows)
    <3>1. rows[i] \in Rows
      BY <2>1, ElementOfSeq
    <3>2. Event(rows[i]).type = "audit" /\ Event(rows[i]).row = rows[i]
      BY <3>1, MessageFacts
    <3> QED BY <3>2, <2>1, <2>7
  <2>9. Greets(wire') = Greets(wire)
    <3>1. Len(wire') > Len(wire) => wire'[Len(wire) + 1].type # "ready"
      <4>1. Len(wire') > Len(wire) => 1 \in 1..Len(rows)
        BY <1>1, <2>2, <2>5
      <4>2. Len(wire') > Len(wire) => wire'[Len(wire) + 1].type = "audit"
        BY <4>1, <2>8
      <4> QED BY <4>2
    <3>2. Len(wire') \in Nat /\ Len(wire) <= Len(wire')
      BY <1>1, <2>2, <2>5
    <3> QED BY <1>6, <2>5, <2>6, <3>1, <3>2
  <2>10. conn' \in Connection /\ conn'.lastId = conn.lastId + Len(rows)
    BY <1>1, <1>3, <2>2, <2>4 DEF Connection
  <2>11. StreamTypes'
    BY <1>2, <2>5, <2>10 DEF StreamTypes
  <2>12. WireInv'
    <3>1. SUFFICES ASSUME NEW k \in 1..Len(wire')
                   PROVE  /\ wire'[k].type = "ready" => k = 1 /\ wire'[k].lastId = hook.lastId
                          /\ wire'[k].type = "audit" =>
                               wire'[k].row.id = hook.lastId + k - Greets(wire)
                          /\ wire'[k].type # "end"
      BY <1>2, <2>9 DEF WireInv
    <3>2. CASE k <= Len(wire)
      <4>1. k \in 1..Len(wire)
        BY <3>2, <1>1, <2>2, <2>5
      <4> QED BY <4>1, <2>6, <1>5 DEF WireInv
    <3>3. CASE ~(k <= Len(wire))
      <4>1. PICK i \in 1..Len(rows) : k = Len(wire) + i
        <5>1. k - Len(wire) \in 1..Len(rows) /\ k = Len(wire) + (k - Len(wire))
          BY <3>3, <1>1, <2>2, <2>5
        <5> QED BY <5>1
      <4>2. wire'[k].type = "audit" /\ wire'[k].row.id = conn.lastId + i
        BY <4>1, <2>8
      <4> QED BY <4>1, <4>2, <1>1, <1>4, <2>2
    <3> QED BY <3>2, <3>3
  <2>13. CursorInv'
    BY <1>1, <1>2, <1>4, <2>2, <2>5, <2>9, <2>10 DEF CursorInv
  <2> QED BY <2>11, <2>12, <2>13, <1>1, <1>2 DEF TabInv, QuietInv
<1>8. CASE ~conn.open
  <2>1. wire' = Append(wire, End) /\ conn' = None
    BY <1>8 DEF Push
  <2>2. /\ wire' \in Seq(Messages) /\ Len(wire') = Len(wire) + 1
        /\ \A k \in 1..Len(wire) : wire'[k] = wire[k]
        /\ wire'[Len(wire) + 1] = End
    BY <1>1, <2>1, MessageFacts, AppendProperties
  <2>3. Greets(wire') = Greets(wire)
    <3>1. wire'[Len(wire) + 1].type # "ready" /\ Len(wire') \in Nat /\ Len(wire) <= Len(wire')
      BY <1>1, <2>2, MessageFacts
    <3> QED BY <1>6, <2>2, <3>1
  <2>4. WireInv'
    <3>1. SUFFICES ASSUME NEW k \in 1..Len(wire')
                   PROVE  /\ wire'[k].type = "ready" => k = 1 /\ wire'[k].lastId = hook.lastId
                          /\ wire'[k].type = "audit" =>
                               wire'[k].row.id = hook.lastId + k - Greets(wire)
                          /\ wire'[k].type = "end" => k = Len(wire')
      BY <1>2, <2>1, <2>3 DEF WireInv
    <3>2. CASE k \in 1..Len(wire)
      BY <3>2, <2>2, <1>5 DEF WireInv
    <3>3. CASE k = Len(wire) + 1
      BY <3>3, <2>2, MessageFacts
    <3> QED BY <3>2, <3>3, <1>1, <2>2
  <2> QED BY <1>1, <1>2, <2>1, <2>2, <2>4 DEF StreamTypes, CursorInv, TabInv, QuietInv
<1> QED BY <1>7, <1>8

\* The tab takes the next message: it is where the messages left go on.
LEMMA ReadKeeps ==
  ASSUME StreamInv, Read
  PROVE  StreamInv'
<1> USE DEF StreamInv
<1>1. /\ wire \in Seq(Messages) /\ wire # << >> /\ hook \in TabHook /\ hook.lastId \in Nat
      /\ hook.pc = "reading" /\ delivered \in Seq(Rows)
  BY DEF StreamTypes, TabHook, Read
<1> DEFINE m == wire[1]
           n == Len(wire)
<1>2. /\ Head(wire) = m /\ n \in Nat /\ n >= 1 /\ m \in Messages
  <2>1. n \in Nat /\ n # 0
    BY <1>1, LenProperties, EmptySeq
  <2>2. 1 \in 1..Len(wire)
    BY <2>1
  <2> QED BY <1>1, <2>1, <2>2, HeadTailProperties, ElementOfSeq
<1>3. /\ wire' \in Seq(Messages) /\ Len(wire') = n - 1
      /\ \A i \in 1..(n - 1) : wire'[i] = wire[i + 1]
  <2>1. wire' = Tail(wire)
    BY DEF Read
  <2> QED BY <1>1, <1>2, <2>1, HeadTailProperties
<1>4. UNCHANGED <<log, mode, active, page, conn>>
  BY DEF Read
<1>5. /\ m.type \in {"ready", "audit", "end"}
      /\ m.type = "audit" => m.row \in Rows /\ m.row.id \in Nat
  BY <1>2, MessageKinds, RowFacts
<1> HIDE DEF m, n
<1>6. \/ /\ m.type = "ready" /\ hook' = [hook EXCEPT !.lastId = m.lastId] /\ delivered' = delivered
      \/ /\ m.type = "audit" /\ hook' = [hook EXCEPT !.lastId = Later(hook.lastId, m.row.id)]
         /\ delivered' = Append(delivered, m.row)
      \/ m.type = "end" /\ hook' = [hook EXCEPT !.pc = "fetch"] /\ delivered' = delivered
  BY <1>2 DEF Read, NextEvent
<1>7. Greets(wire) = IF m.type = "ready" THEN 1 ELSE 0
  BY <1>1 DEF Greets, m
<1>8. 1 \in 1..n
  BY <1>2
<1>9. \A i \in 1..(n - 1) : /\ i \in Nat /\ i >= 1 /\ i + 1 \in 1..n /\ i + 1 # 1
                          /\ wire'[i].type # "ready"
  <2> TAKE i \in 1..(n - 1)
  <2>1. i \in Nat /\ i >= 1 /\ i + 1 \in 1..n /\ i + 1 # 1
    BY <1>2
  <2>2. wire[i + 1].type # "ready"
    BY <2>1 DEF WireInv, n
  <2> QED BY <2>1, <2>2, <1>3
<1>10. Greets(wire') = 0
  <2>1. wire' # << >> => Len(wire') # 0
    BY <1>3, EmptySeq
  <2>2. wire' # << >> => 1 \in 1..(n - 1)
    BY <2>1, <1>2, <1>3
  <2> QED BY <2>2, <1>9 DEF Greets
<1>11. CASE m.type = "ready"
  <2>1. m.lastId = hook.lastId
    BY <1>8, <1>11 DEF WireInv, m, n
  <2>2. hook' = hook /\ delivered' = delivered
    BY <2>1, <1>1, <1>6, <1>11 DEF TabHook
  <2>3. WireInv'
    <3>1. SUFFICES ASSUME NEW k \in 1..(n - 1)
                   PROVE  /\ wire'[k].type = "audit" => wire'[k].row.id = hook.lastId + k
                          /\ wire'[k].type = "end" => k = n - 1 /\ conn = None
      BY <2>2, <1>1, <1>3, <1>4, <1>9, <1>10 DEF WireInv
    <3>2. wire[k + 1].type = "audit" => wire[k + 1].row.id = hook.lastId + (k + 1) - 1
      BY <1>7, <1>9, <1>11 DEF WireInv, n
    <3>3. wire[k + 1].type = "end" => k + 1 = n /\ conn = None
      BY <1>9 DEF WireInv, n
    <3>4. wire'[k] = wire[k + 1] /\ k \in Nat
      BY <1>3, <1>9
    <3>5. wire'[k].type = "end" => k = n - 1 /\ conn = None
      BY <3>3, <3>4, <1>2
    <3> QED BY <3>2, <3>4, <3>5, <1>1
  <2>4. CursorInv'
    BY <2>2, <1>1, <1>2, <1>3, <1>4, <1>7, <1>10, <1>11 DEF CursorInv, n
  <2> QED BY <2>2, <2>3, <2>4, <1>1, <1>3, <1>4 DEF StreamTypes, TabInv, QuietInv
<1>12. CASE m.type = "audit"
  <2>1. m.row.id = hook.lastId + 1
    BY <1>1, <1>7, <1>8, <1>12 DEF WireInv, m, n
  <2>2. hook'.lastId = hook.lastId + 1 /\ hook' \in TabHook /\ hook'.pc = "reading"
    BY <2>1, <1>1, <1>6, <1>12 DEF TabHook, Later
  <2>3. /\ delivered' \in Seq(Rows) /\ Len(delivered') = Len(delivered) + 1
        /\ \A i \in 1..Len(delivered) : delivered'[i] = delivered[i]
        /\ delivered'[Len(delivered) + 1] = m.row
    <3>1. m.row \in Rows /\ delivered' = Append(delivered, m.row)
      BY <1>5, <1>6, <1>12
    <3> QED BY <3>1, <1>1, AppendProperties
  <2>4. Len(delivered) \in Nat
    BY <1>1, LenProperties
  <2>5. TabInv'
    <3>1. hook'.lastId = Len(delivered')
      BY <2>2, <2>3 DEF TabInv
    <3>2. \A i \in 1..Len(delivered') : delivered'[i].id = i
      <4> TAKE i \in 1..Len(delivered')
      <4>1. CASE i \in 1..Len(delivered)
        BY <4>1, <2>3 DEF TabInv
      <4>2. CASE i = Len(delivered) + 1
        BY <4>2, <2>1, <2>3 DEF TabInv
      <4> QED BY <4>1, <4>2, <2>3, <2>4
    <3> QED BY <3>1, <3>2 DEF TabInv
  <2>6. WireInv'
    <3>1. SUFFICES ASSUME NEW k \in 1..(n - 1)
                   PROVE  /\ wire'[k].type = "audit" => wire'[k].row.id = (hook.lastId + 1) + k
                          /\ wire'[k].type = "end" => k = n - 1 /\ conn = None
      BY <2>2, <1>1, <1>3, <1>4, <1>9, <1>10 DEF WireInv
    <3>2. wire[k + 1].type = "audit" => wire[k + 1].row.id = hook.lastId + (k + 1) - 0
      BY <1>7, <1>9, <1>12 DEF WireInv, n
    <3>3. wire[k + 1].type = "end" => k + 1 = n /\ conn = None
      BY <1>9 DEF WireInv, n
    <3>4. wire'[k] = wire[k + 1] /\ k \in Nat
      BY <1>3, <1>9
    <3>5. wire'[k].type = "end" => k = n - 1 /\ conn = None
      BY <3>3, <3>4, <1>2
    <3>6. hook.lastId + (k + 1) - 0 = (hook.lastId + 1) + k
      BY <1>1, <3>4
    <3> QED BY <3>2, <3>4, <3>5, <3>6
  <2>7. CursorInv'
    BY <2>2, <1>1, <1>2, <1>3, <1>4, <1>7, <1>10, <1>12 DEF CursorInv, n
  <2>8. page = "activity"
    BY <1>1 DEF QuietInv
  <2> QED BY <2>2, <2>3, <2>5, <2>6, <2>7, <2>8, <1>3, <1>4 DEF StreamTypes, QuietInv
<1>13. CASE m.type = "end"
  <2>1. n = 1 /\ conn = None
    BY <1>8, <1>13 DEF WireInv, m, n
  <2>2. wire' = << >>
    BY <2>1, <1>3, EmptySeq
  <2>3. hook'.lastId = hook.lastId /\ hook' \in TabHook /\ hook'.pc = "fetch" /\ delivered' = delivered
    BY <1>1, <1>6, <1>13 DEF TabHook
  <2>4. Len(wire') = 0 /\ page = "activity"
    BY <2>1, <1>1, <1>3 DEF QuietInv
  <2> QED BY <2>1, <2>2, <2>3, <2>4, <1>3, <1>4
          DEF StreamTypes, WireInv, CursorInv, TabInv, QuietInv
<1> QED BY <1>5, <1>11, <1>12, <1>13

\* The steps that leave what is under way as it is, or lose it.
LEMMA BreaksKeep ==
  ASSUME StreamInv, Retry \/ OpenActivity \/ SwitchMode \/ StreamBreaks \/ Restart
  PROVE  StreamInv'
<1> USE DEF StreamInv
<1>1. hook \in TabHook /\ hook.lastId \in Nat
  BY DEF StreamTypes, TabHook
<1>2. CASE Retry
  <2>1. hook'.lastId = hook.lastId /\ hook' \in TabHook /\ hook'.pc = "fetch" /\ hook.pc = "wait"
    BY <1>1, <1>2 DEF TabHook, Retry
  <2>2. UNCHANGED <<log, mode, active, page, conn, wire, delivered>>
    BY <1>2 DEF Retry, tabVars
  <2> QED BY <2>1, <2>2 DEF StreamTypes, WireInv, CursorInv, TabInv, QuietInv
<1>3. CASE OpenActivity
  <2>1. hook'.lastId = 0 /\ hook' \in TabHook /\ hook'.pc = "fetch"
    BY <1>3 DEF TabHook, OpenActivity, Mounted
  <2>2. UNCHANGED <<log, mode, active, conn, wire, delivered>> /\ page = "home" /\ page' = "activity"
    BY <1>3 DEF OpenActivity
  <2>3. hook.pc = "off" /\ conn = None /\ wire = << >> /\ delivered = << >>
    BY <2>2 DEF QuietInv
  <2>4. Len(wire) = 0 /\ Len(delivered) = 0
    BY <2>3
  <2> QED BY <2>1, <2>2, <2>3, <2>4 DEF StreamTypes, WireInv, CursorInv, TabInv, QuietInv
<1>4. CASE SwitchMode
  <2>1. UNCHANGED <<log, active, page, wire, hook, delivered>>
    BY <1>4 DEF SwitchMode
  <2>2. mode' \in [Accounts -> Modes]
    <3>1. PICK a \in Accounts :
            mode' = [mode EXCEPT ![a] = IF mode[a] = "live" THEN "preview" ELSE "live"]
      BY <1>4 DEF SwitchMode
    <3> QED BY <3>1 DEF StreamTypes, Modes
  <2>3. conn' \in {conn, [conn EXCEPT !.open = FALSE]} /\ (conn = None => conn' = None)
    BY <1>4 DEF SwitchMode
  <2>4. conn # None => conn' \in Connection /\ conn'.lastId = conn.lastId
    <3>1. SUFFICES ASSUME conn # None, conn' = [conn EXCEPT !.open = FALSE]
                   PROVE  conn' \in Connection /\ conn'.lastId = conn.lastId
      BY <2>3, <1>4 DEF StreamTypes, SwitchMode
    <3> QED BY <3>1 DEF StreamTypes, Connection
  <2>5. StreamTypes'
    BY <2>1, <2>2, <2>3, <2>4 DEF StreamTypes
  <2> QED BY <2>1, <2>3, <2>4, <2>5 DEF WireInv, CursorInv, TabInv, QuietInv
<1>5. CASE StreamBreaks \/ Restart
  <2>1. /\ UNCHANGED <<log, mode, active, page, delivered>>
        /\ conn' = None /\ wire' = << >>
        /\ hook' = IF hook.pc = "reading" THEN [hook EXCEPT !.pc = "wait"] ELSE hook
    BY <1>5 DEF StreamBreaks, Restart, Broken, tabVars
  <2>2. /\ hook' \in TabHook /\ hook'.lastId = hook.lastId
        /\ hook'.pc = IF hook.pc = "reading" THEN "wait" ELSE hook.pc
    BY <2>1, <1>1 DEF TabHook
  <2>3. Len(wire') = 0 /\ wire' \in Seq(Messages)
    BY <2>1, EmptySeq
  <2> QED BY <2>1, <2>2, <2>3 DEF StreamTypes, WireInv, CursorInv, TabInv, QuietInv
<1> QED BY <1>2, <1>3, <1>4, <1>5

LEMMA StreamStep ==
  ASSUME StreamInv, [Next]_vars
  PROVE  StreamInv'
<1>1. CASE UNCHANGED vars
  <2>1. UNCHANGED <<conn, wire, hook, delivered, mode, log, active, page>>
    BY <1>1 DEF vars
  <2> QED BY <2>1, StreamStaysAlone DEF StreamInv, StreamTypes
<1>2. CASE Next /\ ~StreamSteps
  BY <1>2, OtherSteps, StreamIsClosed, StreamStaysAlone DEF StreamInv
<1>3. CASE StreamSteps
  BY <1>3, ConnectKeeps, PushKeeps, ReadKeeps, BreaksKeep DEF StreamSteps
<1> QED BY <1>1, <1>2, <1>3

\* Whatever breaks, is closed, opened, switched or restarted, the tab is given the rows
\* from the first on, each once and in order.
THEOREM RowsComeOnce == Spec => []EachRowOnce
<1>1. Init => StreamInv
  BY StreamInit
<1>2. StreamInv /\ [Next]_vars => StreamInv'
  BY StreamStep
<1>3. StreamInv => EachRowOnce
  <2> SUFFICES ASSUME StreamInv PROVE EachRowOnce
    OBVIOUS
  <2>1. Len(delivered) \in Nat /\ DOMAIN delivered = 1..Len(delivered)
    BY LenProperties DEF StreamInv, StreamTypes
  <2> QED BY <2>1 DEF StreamInv, TabInv, EachRowOnce
<1> QED BY <1>1, <1>2, <1>3, PTL DEF Spec
=============================================================================
