--------------------------- MODULE ReadCachesProofs ---------------------------
(***************************************************************************)
(* Proofs about ReadCaches: how old an answer may be and that what was     *)
(* shown is not lost, for any times to live and any number of requests.    *)
(***************************************************************************)
EXTENDS ReadCaches, TLAPS

-----------------------------------------------------------------------------
(* Types                                                                   *)

Data == UNION {[P -> Reading] : P \in SUBSET AllParts}
Entry == [at : Nat, data : Data]
Activity == [at : Nat, data : Reading]
Request == [asked : Nat, hit : Entry \cup {None}, got : Data, before : BOOLEAN]
Call == [at : Nat, hit : Activity \cup {None}, asOf : Nat \cup {None}]

TypeOK ==
  /\ view \in DOMAIN Parts /\ clock \in Nat /\ shown \in BOOLEAN
  /\ cache \in Entry \cup {None} /\ trades \in Activity \cup {None}
  /\ req \in [Requests -> Request \cup {Unasked}]
  /\ fetch \in [Requests -> Call \cup {None}]

\* None is no entry, and an error no data.
LEMMA Distinct == None \notin Entry /\ Error \notin Data
  BY ConstantsOK DEF Data, Entry

LEMMA DataType ==
  ASSUME NEW d
  PROVE  d \in Data <=> /\ DOMAIN d \subseteq AllParts
                        /\ d = [p \in DOMAIN d |-> d[p]]
                        /\ \A p \in DOMAIN d : d[p] \in Reading
  BY DEF Data

LEMMA WithType ==
  ASSUME NEW d \in Data, NEW p \in AllParts, NEW x \in Reading
  PROVE  /\ With(d, p, x) \in Data
         /\ DOMAIN With(d, p, x) = DOMAIN d \cup {p}
         /\ With(d, p, x)[p] = x
         /\ \A q \in DOMAIN d : q # p => With(d, p, x)[q] = d[q]
  BY DataType DEF With

LEMMA NoPartsType == NoParts \in Data /\ DOMAIN NoParts = {}
  BY DataType DEF NoParts

LEMMA ReadingType ==
  /\ \A n \in Nat \cup {None} : Datum(n) \in Reading
  /\ \A d \in Reading : Expired(d) \in Reading /\ Expired(d).stale = TRUE
  BY DEF Datum, Expired, Reading

LEMMA StaleType ==
  ASSUME NEW d \in Data
  PROVE  /\ Stale(d) \in Data /\ DOMAIN Stale(d) = DOMAIN d
         /\ \A p \in DOMAIN d : Stale(d)[p].stale = TRUE
  BY DataType, ReadingType DEF Stale

LEMMA PartsType ==
  /\ \A v \in DOMAIN Parts : Parts[v] \subseteq AllParts
  /\ "trades" \in AllParts
<1>1. "trades" \in Parts["trader"] /\ "trader" \in DOMAIN Parts
  BY DEF Parts
<1>2. QED BY <1>1 DEF AllParts

LEMMA OpenType ==
  ASSUME TypeOK, NEW r \in Requests, Open(r)
  PROVE  req[r] \in Request
  BY DEF TypeOK, Open

LEMMA FallbackType ==
  ASSUME TypeOK, NEW r \in Requests, Open(r)
  PROVE  \/ Fallback(r) = Error /\ (view = "board" \/ req[r].hit = None)
         \/ /\ Fallback(r) \in Data /\ req[r].hit \in Entry
            /\ \A p \in DOMAIN Fallback(r) : Fallback(r)[p].stale = TRUE
  BY OpenType, StaleType DEF Fallback, Request, Entry

\* What a call of getActivity brings becomes a part of the request, if that is still open.
LEMMA ObtainType ==
  ASSUME TypeOK, NEW r \in Requests, NEW d \in Reading, Obtain(r, d)
  PROVE  req' \in [Requests -> Request \cup {Unasked}]
<1>1. CASE Open(r)
  <2>1. With(req[r].got, "trades", d) \in Data
    BY <1>1, OpenType, WithType, PartsType DEF Request
  <2>2. QED BY <1>1, <2>1, OpenType DEF TypeOK, Obtain, Request
<1>2. QED BY <1>1 DEF TypeOK, Obtain

LEMMA InitType == Init => TypeOK
<1> SUFFICES ASSUME Init PROVE TypeOK
  OBVIOUS
<1>1. view \in DOMAIN Parts /\ clock \in Nat /\ cache = None /\ trades = None /\ shown \in BOOLEAN
  BY DEF Init
<1>2. req \in [Requests -> Request \cup {Unasked}]
  BY DEF Init
<1>3. fetch \in [Requests -> Call \cup {None}]
  BY DEF Init
<1>4. QED BY <1>1, <1>2, <1>3 DEF TypeOK

\* The steps of the requests leave every variable its type.
LEMMA NextType == TypeOK /\ [Next]_vars => TypeOK'
<1> SUFFICES ASSUME TypeOK, [Next]_vars PROVE TypeOK'
  OBVIOUS
<1>1. CASE UNCHANGED vars
  BY <1>1 DEF TypeOK, vars
<1>2. CASE Tick
  BY <1>2 DEF TypeOK, Tick
<1>3. ASSUME NEW r \in Requests, Ask(r) PROVE TypeOK'
  <2>1. CASE Fresh(cache, CacheTtl) /\ UNCHANGED <<req, fetch>> /\ shown' = TRUE
    BY <1>3, <2>1 DEF TypeOK, Ask
  <2>2. CASE ~Fresh(cache, CacheTtl)
    <3>1. trades # None => With(NoParts, "trades", trades.data) \in Data
      BY WithType, NoPartsType, PartsType DEF TypeOK, Activity
    <3>2. req' \in [Requests -> Request \cup {Unasked}]
      BY <1>3, <2>2, <3>1, NoPartsType DEF TypeOK, Ask, Request, Fresh
    <3>3. fetch' \in [Requests -> Call \cup {None}]
      BY <1>3, <2>2 DEF TypeOK, Ask, Call
    <3>4. QED BY <1>3, <2>2, <3>2, <3>3 DEF TypeOK, Ask
  <2>3. QED BY <1>3, <2>1, <2>2 DEF Ask
<1>4. ASSUME NEW r \in Requests, NEW p \in Parts[view], Part(r, p) PROVE TypeOK'
  <2>1. req[r] \in Request /\ p \in AllParts
    BY <1>4, OpenType, PartsType DEF Part, TypeOK
  <2>2. \A n \in Nat \cup {None} : With(req[r].got, p, Datum(n)) \in Data
    BY <2>1, WithType, ReadingType DEF Request
  <2>3. req' \in [Requests -> Request \cup {Unasked}]
    BY <1>4, <2>1, <2>2 DEF TypeOK, Part, Request
  <2>4. QED BY <1>4, <2>3 DEF TypeOK, Part
<1>5. ASSUME NEW r \in Requests, Complete(r) PROVE TypeOK'
  <2>1. Stamp(r) \in Nat /\ req[r].got \in Data
    BY <1>5, OpenType DEF Complete, Stamp, Request, TypeOK
  <2>2. QED BY <1>5, <2>1 DEF TypeOK, Complete, Answers, Entry
<1>6. ASSUME NEW r \in Requests, Fails(r) PROVE TypeOK'
  BY <1>6 DEF TypeOK, Fails, Answers
<1>7. ASSUME NEW r \in Requests, TradesRead(r) PROVE TypeOK'
  BY <1>7 DEF TypeOK, TradesRead, Call
<1>8. ASSUME NEW r \in Requests, TradesArrive(r) PROVE TypeOK'
  <2>1. fetch[r] \in Call /\ Datum(fetch[r].asOf) \in Reading
    BY <1>8, ReadingType DEF TypeOK, TradesArrive, Call
  <2>2. req' \in [Requests -> Request \cup {Unasked}]
    BY <1>8, <2>1, ObtainType DEF TradesArrive
  <2>3. trades' \in Activity
    BY <1>8, <2>1 DEF TradesArrive, Activity, Call
  <2>4. QED BY <1>8, <2>2, <2>3 DEF TypeOK, TradesArrive
<1>9. ASSUME NEW r \in Requests, TradesFail(r) PROVE TypeOK'
  <2>1. CASE fetch[r].hit # None /\ Obtain(r, Expired(fetch[r].hit.data)) /\ UNCHANGED shown
    <3>1. Expired(fetch[r].hit.data) \in Reading
      BY <1>9, <2>1, ReadingType DEF TypeOK, TradesFail, Call, Activity
    <3>2. req' \in [Requests -> Request \cup {Unasked}]
      BY <2>1, <3>1, ObtainType
    <3>3. QED BY <1>9, <2>1, <3>2 DEF TypeOK, TradesFail
  <2>2. CASE Open(r) /\ Answers(r, Fallback(r))
    BY <1>9, <2>2 DEF TypeOK, TradesFail, Answers
  <2>3. CASE UNCHANGED <<req, shown>>
    BY <1>9, <2>3 DEF TypeOK, TradesFail
  <2>4. QED BY <1>9, <2>1, <2>2, <2>3 DEF TradesFail
<1>10. QED
  BY <1>1, <1>2, <1>3, <1>4, <1>5, <1>6, <1>7, <1>8, <1>9 DEF Next

-----------------------------------------------------------------------------
(* How old what is kept may be                                             *)

Slack(p) == IF p = "trades" THEN ActivityTtl ELSE 1
Dated(d, at) ==
  \A p \in DOMAIN d : d[p].asOf # None /\ ~d[p].stale => d[p].asOf + Slack(p) > at

\* The parts of a request, and of an entry made of them, were read since it was made, the
\* trades since their own cache's time to live before.
AgeInv ==
  /\ view # "board" /\ cache # None => Dated(cache.data, cache.at)
  /\ trades # None /\ trades.data.asOf # None /\ ~trades.data.stale
       => trades.data.asOf >= trades.at
  /\ \A r \in Requests :
       /\ Open(r) => req[r].asked <= clock /\ Dated(req[r].got, req[r].asked)
       /\ fetch[r] # None =>
            /\ fetch[r].at <= clock
            /\ fetch[r].asOf # None => fetch[r].asOf >= fetch[r].at
            /\ Open(r) => fetch[r].at = req[r].asked

\* What was shown has an entry, which a request made since has found; an entry stays.
HeldInv ==
  view # "board" =>
    /\ shown => cache # None
    /\ \A r \in Requests : Open(r) =>
         /\ req[r].before => req[r].hit # None
         /\ req[r].hit # None => cache # None

IInv == TypeOK /\ AgeInv /\ HeldInv /\ AnswersAreFresh /\ ShownStaysShown

LEMMA InitInv == Init => IInv
<1> SUFFICES ASSUME Init PROVE IInv
  OBVIOUS
<1>1. cache = None /\ trades = None /\ answer = None /\ ~shown
  BY DEF Init
<1>2. \A r \in Requests : ~Open(r) /\ fetch[r] = None
  BY DEF Init, Open
<1>3. QED
  BY <1>1, <1>2, InitType DEF IInv, AgeInv, HeldInv, AnswersAreFresh, ShownStaysShown

LEMMA WithDated ==
  ASSUME NEW d \in Data, NEW at \in Nat, Dated(d, at), NEW p \in AllParts, NEW x \in Reading,
         x.asOf # None /\ ~x.stale => x.asOf + Slack(p) > at
  PROVE  Dated(With(d, p, x), at)
<1> DEFINE w == With(d, p, x)
<1>1. DOMAIN w = DOMAIN d \cup {p} /\ w[p] = x /\ \A q \in DOMAIN d : q # p => w[q] = d[q]
  BY WithType
<1> HIDE DEF w
<1>2. ASSUME NEW q \in DOMAIN w, w[q].asOf # None, ~w[q].stale
      PROVE  w[q].asOf + Slack(q) > at
  <2>1. CASE q = p
    BY <1>1, <1>2, <2>1
  <2>2. CASE q # p
    <3>1. q \in DOMAIN d /\ w[q] = d[q]
      BY <1>1, <1>2, <2>2
    <3>2. QED BY <1>2, <3>1 DEF Dated
  <2>3. QED BY <2>1, <2>2
<1>3. QED BY <1>2 DEF Dated, w

\* Data that old was read recently enough for a request that its entry could answer.
LEMMA DatedFresh ==
  ASSUME NEW d \in Data, NEW at \in Nat, Dated(d, at), NEW asked \in Nat, asked < at + CacheTtl
  PROVE  \A p \in DOMAIN d :
           d[p].asOf # None /\ ~d[p].stale => d[p].asOf > asked - MaxAge(p)
<1> SUFFICES ASSUME NEW p \in DOMAIN d, d[p].asOf # None, ~d[p].stale
             PROVE  d[p].asOf > asked - MaxAge(p)
  OBVIOUS
<1>1. d[p].asOf \in Nat
  BY DataType DEF Reading
<1>2. d[p].asOf + Slack(p) > at
  BY DEF Dated
<1>3. QED BY <1>1, <1>2, ConstantsOK DEF Slack, MaxAge

\* An answer of request r, made of its own data or of an expired entry's, is fresh; an error
\* is given only if there was no entry.
LEMMA AnswersFresh ==
  ASSUME IInv, NEW r \in Requests, Open(r), view' = view,
         NEW d, Answers(r, d),
         \/ d = req[r].got
         \/ d = Fallback(r)
  PROVE  AnswersAreFresh' /\ ShownStaysShown'
<1>1. req[r] \in Request /\ Dated(req[r].got, req[r].asked)
  BY OpenType DEF IInv, AgeInv
<1>2. answer' = [asked |-> req[r].asked, before |-> req[r].before, data |-> d]
  BY DEF Answers
<1>3. CASE d = req[r].got
  <2>1. d \in Data /\ d # Error
    BY <1>1, <1>3, Distinct DEF Request
  <2>2. ASSUME NEW p \in DOMAIN d, d[p].asOf # None, ~d[p].stale
        PROVE  d[p].asOf > req[r].asked - MaxAge(p)
    BY <1>1, <1>3, <2>1, <2>2, DatedFresh, ConstantsOK DEF Request
  <2>3. QED BY <1>2, <2>1, <2>2 DEF AnswersAreFresh, ShownStaysShown
<1>4. CASE d = Fallback(r)
  <2>1. CASE d = Error /\ (view = "board" \/ req[r].hit = None)
    BY <1>2, <2>1 DEF IInv, HeldInv, AnswersAreFresh, ShownStaysShown
  <2>2. CASE d \in Data /\ \A p \in DOMAIN d : d[p].stale = TRUE
    BY <1>2, <2>2, Distinct DEF AnswersAreFresh, ShownStaysShown
  <2>3. QED BY <1>4, <2>1, <2>2, FallbackType DEF IInv
<1>5. QED BY <1>3, <1>4

\* What getActivity brings was read since the request was made, or is expired.
LEMMA ObtainDated ==
  ASSUME IInv, NEW r \in Requests, NEW d \in Reading, Obtain(r, d),
         Open(r) /\ d.asOf # None /\ ~d.stale => d.asOf >= req[r].asked
  PROVE  /\ \A s \in Requests : Open(s)' => /\ Open(s) /\ req'[s].asked = req[s].asked
                                           /\ req'[s].hit = req[s].hit
                                           /\ req'[s].before = req[s].before
                                           /\ Dated(req'[s].got, req[s].asked)
<1> SUFFICES ASSUME NEW s \in Requests, Open(s)'
             PROVE  /\ Open(s) /\ req'[s].asked = req[s].asked
                    /\ req'[s].hit = req[s].hit /\ req'[s].before = req[s].before
                    /\ Dated(req'[s].got, req[s].asked)
  OBVIOUS
<1>1. CASE Open(r) /\ s = r
  <2>1. req[r] \in Request /\ Dated(req[r].got, req[r].asked)
    BY <1>1, OpenType DEF IInv, AgeInv
  <2>2. req'[r] = [req[r] EXCEPT !.got = With(@, "trades", d)]
    BY <1>1 DEF Obtain, IInv, TypeOK
  <2>3. d.asOf # None /\ ~d.stale => d.asOf + Slack("trades") > req[r].asked
    BY <1>1, <2>1, ConstantsOK DEF Slack, Reading, Request
  <2>4. Dated(With(req[r].got, "trades", d), req[r].asked)
    BY <2>1, <2>3, WithDated, PartsType DEF Request
  <2>5. QED BY <1>1, <2>1, <2>2, <2>4 DEF Request
<1>2. CASE ~(Open(r) /\ s = r)
  <2>1. req'[s] = req[s]
    BY <1>2 DEF Obtain, IInv, TypeOK
  <2>2. QED BY <2>1 DEF Open, IInv, AgeInv
<1>3. QED BY <1>1, <1>2

\* Answering r leaves the other requests as they are.
LEMMA AnswersKeep ==
  ASSUME IInv, NEW r \in Requests, NEW d, Answers(r, d)
  PROVE  \A s \in Requests : Open(s)' => s # r /\ Open(s) /\ req'[s] = req[s]
  BY DEF Answers, Open, IInv, TypeOK

-----------------------------------------------------------------------------
(* Every step keeps the invariant                                          *)

LEMMA AskInv ==
  ASSUME IInv, TypeOK', NEW r \in Requests, Ask(r)
  PROVE  IInv'
<1>1. UNCHANGED <<view, clock, cache, trades>> /\ ~Open(r) /\ fetch[r] = None
  BY DEF Ask
<1>2. CASE /\ Fresh(cache, CacheTtl) /\ UNCHANGED <<req, fetch>> /\ shown' = TRUE
           /\ answer' = [asked |-> clock, before |-> shown, data |-> cache.data]
  <2>1. cache # None /\ cache \in Entry /\ clock < cache.at + CacheTtl
    BY <1>2, ConstantsOK DEF Fresh, IInv, TypeOK, Entry
  <2>2. cache.data # Error
    BY <2>1, Distinct DEF Entry
  <2>3. AnswersAreFresh'
    <3>1. ASSUME view # "board", NEW p \in DOMAIN cache.data,
                 cache.data[p].asOf # None, ~cache.data[p].stale
          PROVE  cache.data[p].asOf > clock - MaxAge(p)
      <4>1. Dated(cache.data, cache.at) /\ cache.data \in Data /\ cache.at \in Nat /\ clock \in Nat
        BY <2>1, <3>1 DEF IInv, AgeInv, Entry, TypeOK
      <4>2. QED BY <2>1, <3>1, <4>1, DatedFresh
    <3>2. QED BY <1>1, <1>2, <3>1 DEF AnswersAreFresh
  <2>4. ShownStaysShown'
    BY <1>2, <2>2 DEF ShownStaysShown
  <2>5. AgeInv' /\ HeldInv'
    BY <1>1, <1>2, <2>1 DEF IInv, AgeInv, HeldInv, Open
  <2>6. QED BY <2>3, <2>4, <2>5 DEF IInv
<1>3. CASE ~Fresh(cache, CacheTtl) /\ answer' = None /\ UNCHANGED shown
  <2> DEFINE known == view = "trader" /\ Fresh(trades, ActivityTtl)
             got == IF known THEN With(NoParts, "trades", trades.data) ELSE NoParts
  <2>1. req' = [req EXCEPT ![r] = [asked |-> clock, hit |-> cache, before |-> shown, got |-> got]]
    BY <1>3 DEF Ask, Fresh
  <2>2. \/ fetch' = fetch
        \/ fetch' = [fetch EXCEPT ![r] = [at |-> clock, hit |-> trades, asOf |-> None]]
    BY <1>3 DEF Ask, Fresh
  <2>3. Dated(got, clock)
    <3>1. CASE known
      <4>1. trades # None /\ trades \in Activity /\ clock - trades.at < ActivityTtl
        BY <3>1 DEF Fresh, IInv, TypeOK
      <4>2. trades.data.asOf # None /\ ~trades.data.stale => trades.data.asOf >= trades.at
        BY <4>1 DEF IInv, AgeInv
      <4>3. trades.data.asOf # None /\ ~trades.data.stale
              => trades.data.asOf + Slack("trades") > clock
        BY <4>1, <4>2, ConstantsOK DEF Slack, Activity, Reading, IInv, TypeOK
      <4>4. Dated(NoParts, clock)
        BY NoPartsType DEF Dated
      <4>5. QED
        BY <3>1, <4>1, <4>3, <4>4, WithDated, NoPartsType, PartsType
           DEF Activity, IInv, TypeOK
    <3>2. CASE ~known
      BY <3>2, NoPartsType DEF Dated
    <3>3. QED BY <3>1, <3>2
  <2> HIDE DEF known, got
  <2>4. /\ req'[r].asked = clock /\ req'[r].got = got /\ req'[r].hit = cache /\ req'[r].before = shown
        /\ \A s \in Requests \ {r} : req'[s] = req[s]
    BY <2>1 DEF IInv, TypeOK
  <2>5. \A s \in Requests \ {r} : fetch'[s] = fetch[s] /\ (Open(s)' <=> Open(s))
    BY <2>2, <2>4 DEF IInv, TypeOK, Open
  <2>6. fetch'[r] # None => fetch'[r].at = clock /\ fetch'[r].asOf = None
    BY <1>1, <2>2 DEF IInv, TypeOK
  <2>7. clock \in Nat
    BY DEF IInv, TypeOK
  <2>8. AgeInv'
    BY <1>1, <2>3, <2>4, <2>5, <2>6, <2>7 DEF IInv, AgeInv
  <2>9. HeldInv'
    BY <1>1, <1>3, <2>4, <2>5 DEF IInv, HeldInv
  <2>10. QED BY <1>3, <2>8, <2>9 DEF IInv, AnswersAreFresh, ShownStaysShown
<1>4. QED BY <1>2, <1>3 DEF Ask

\* The requests that are still open have what they had, and nothing is answered.
LEMMA QuietInv ==
  ASSUME IInv, TypeOK', UNCHANGED <<view, clock, cache, trades, shown>>, answer' = None,
         \A s \in Requests : Open(s)' => /\ Open(s) /\ req'[s].asked = req[s].asked
                                        /\ req'[s].hit = req[s].hit
                                        /\ req'[s].before = req[s].before
                                        /\ Dated(req'[s].got, req[s].asked),
         \A s \in Requests : fetch'[s] # None =>
           /\ fetch[s] # None /\ fetch'[s].at = fetch[s].at
           /\ fetch'[s].asOf # None => fetch'[s].asOf >= fetch'[s].at
  PROVE  IInv'
<1>1. AgeInv' /\ HeldInv'
  BY DEF IInv, AgeInv, HeldInv
<1>2. QED BY <1>1 DEF IInv, AnswersAreFresh, ShownStaysShown

LEMMA PartInv ==
  ASSUME IInv, TypeOK', NEW r \in Requests, NEW p \in Parts[view], Part(r, p)
  PROVE  IInv'
<1>1. req[r] \in Request /\ Dated(req[r].got, req[r].asked) /\ req[r].asked <= clock /\ clock \in Nat
  BY OpenType DEF Part, IInv, AgeInv, TypeOK
<1>2. PICK d \in {Datum(clock), Datum(None)} : req' = [req EXCEPT ![r].got = With(@, p, d)]
  BY DEF Part
<1>3. d \in Reading /\ p \in AllParts
  BY <1>1, ReadingType, PartsType DEF IInv, TypeOK
<1>4. d.asOf # None /\ ~d.stale => d.asOf + Slack(p) > req[r].asked
  BY <1>1, <1>2, ConstantsOK DEF Slack, Datum, Request
<1>5. Dated(With(req[r].got, p, d), req[r].asked)
  BY <1>1, <1>3, <1>4, WithDated DEF Request
<1>6. req'[r] = [req[r] EXCEPT !.got = With(@, p, d)] /\ \A s \in Requests \ {r} : req'[s] = req[s]
  BY <1>2 DEF IInv, TypeOK
<1>7. ASSUME NEW s \in Requests, Open(s)'
      PROVE  /\ Open(s) /\ req'[s].asked = req[s].asked /\ req'[s].hit = req[s].hit
             /\ req'[s].before = req[s].before /\ Dated(req'[s].got, req[s].asked)
  <2>1. CASE s = r
    BY <1>1, <1>5, <1>6, <2>1 DEF Part, Request
  <2>2. CASE s # r
    BY <1>6, <1>7, <2>2 DEF Open, IInv, AgeInv
  <2>3. QED BY <2>1, <2>2
<1>8. UNCHANGED <<view, clock, cache, trades, shown, fetch>> /\ answer' = None
  BY DEF Part
<1>9. \A s \in Requests : fetch[s] # None /\ fetch[s].asOf # None => fetch[s].asOf >= fetch[s].at
  BY DEF IInv, AgeInv
<1>10. QED BY <1>7, <1>8, <1>9, QuietInv

LEMMA TradesReadInv ==
  ASSUME IInv, TypeOK', NEW r \in Requests, TradesRead(r)
  PROVE  IInv'
<1>1. fetch[r] \in Call /\ fetch[r].at <= clock /\ clock \in Nat
  BY DEF TradesRead, IInv, AgeInv, TypeOK
<1>2. /\ fetch'[r] = [fetch[r] EXCEPT !.asOf = clock]
      /\ \A s \in Requests \ {r} : fetch'[s] = fetch[s]
  BY DEF TradesRead, IInv, TypeOK
<1>3. ASSUME NEW s \in Requests, fetch'[s] # None
      PROVE  /\ fetch[s] # None /\ fetch'[s].at = fetch[s].at
             /\ fetch'[s].asOf # None => fetch'[s].asOf >= fetch'[s].at
  <2>1. CASE s = r
    BY <1>1, <1>2, <2>1 DEF TradesRead, Call
  <2>2. CASE s # r
    BY <1>2, <1>3, <2>2 DEF IInv, AgeInv
  <2>3. QED BY <2>1, <2>2
<1>4. UNCHANGED <<view, clock, cache, trades, shown, req>> /\ answer' = None
  BY DEF TradesRead
<1>5. \A s \in Requests : Open(s)' => Open(s) /\ Dated(req[s].got, req[s].asked)
  BY <1>4 DEF Open, IInv, AgeInv
<1>6. QED BY <1>3, <1>4, <1>5, QuietInv

\* A call that is over.
LEMMA FetchOver ==
  ASSUME IInv, NEW r \in Requests, fetch' = [fetch EXCEPT ![r] = None]
  PROVE  /\ fetch'[r] = None
         /\ \A s \in Requests : fetch'[s] # None =>
              /\ fetch'[s] = fetch[s] /\ fetch[s] # None
              /\ fetch'[s].asOf # None => fetch'[s].asOf >= fetch'[s].at
  BY DEF IInv, TypeOK, AgeInv

LEMMA TradesArriveInv ==
  ASSUME IInv, TypeOK', NEW r \in Requests, TradesArrive(r)
  PROVE  IInv'
<1> DEFINE d == Datum(fetch[r].asOf)
<1>1. /\ fetch[r] \in Call /\ fetch[r].asOf \in Nat /\ fetch[r].asOf >= fetch[r].at
      /\ Open(r) => fetch[r].at = req[r].asked
  BY DEF TradesArrive, IInv, AgeInv, TypeOK, Call
<1>2. d \in Reading /\ d.asOf = fetch[r].asOf
  BY <1>1, ReadingType DEF Datum
<1>3. Obtain(r, d) /\ trades' = [at |-> fetch[r].at, data |-> d]
  BY DEF TradesArrive
<1> HIDE DEF d
<1>4. \A s \in Requests : Open(s)' => /\ Open(s) /\ req'[s].asked = req[s].asked
                                     /\ req'[s].hit = req[s].hit
                                     /\ req'[s].before = req[s].before
                                     /\ Dated(req'[s].got, req[s].asked)
  BY <1>1, <1>2, <1>3, ObtainDated
<1>5. \A s \in Requests : fetch'[s] # None =>
        /\ fetch'[s] = fetch[s] /\ fetch[s] # None
        /\ fetch'[s].asOf # None => fetch'[s].asOf >= fetch'[s].at
  BY FetchOver DEF TradesArrive
<1>6. UNCHANGED <<view, clock, cache, shown>> /\ answer' = None
  BY DEF TradesArrive
<1>7. trades'.data.asOf >= trades'.at
  BY <1>1, <1>2, <1>3
<1>8. AgeInv'
  BY <1>4, <1>5, <1>6, <1>7 DEF IInv, AgeInv
<1>9. HeldInv'
  BY <1>4, <1>6 DEF IInv, HeldInv
<1>10. QED BY <1>6, <1>8, <1>9 DEF IInv, AnswersAreFresh, ShownStaysShown

\* A request is answered; no entry of a view is lost.
LEMMA AnsweredInv ==
  ASSUME IInv, TypeOK', NEW r \in Requests, Open(r), NEW d, Answers(r, d),
         \/ d = req[r].got /\ cache' # None
         \/ d = Fallback(r) /\ cache' = cache,
         view # "board" /\ cache' # None => Dated(cache'.data, cache'.at),
         UNCHANGED <<view, clock, trades>>,
         \A s \in Requests : fetch'[s] # None =>
           /\ fetch'[s] = fetch[s] /\ fetch[s] # None
           /\ fetch'[s].asOf # None => fetch'[s].asOf >= fetch'[s].at
  PROVE  IInv'
<1>1. AnswersAreFresh' /\ ShownStaysShown'
  BY AnswersFresh
<1>2. \A s \in Requests : Open(s)' => s # r /\ Open(s) /\ req'[s] = req[s]
  BY AnswersKeep
<1>3. AgeInv'
  BY <1>2 DEF IInv, AgeInv
<1>4. HeldInv'
  <2>1. SUFFICES ASSUME view # "board" PROVE shown' => cache' # None
    BY <1>2 DEF IInv, HeldInv
  <2>2. CASE d = req[r].got /\ cache' # None
    BY <2>2
  <2>3. CASE d = Fallback(r) /\ cache' = cache
    <3>1. CASE shown
      BY <2>1, <2>3, <3>1 DEF IInv, HeldInv
    <3>2. CASE d # Error
      <4>1. req[r].hit \in Entry
        BY <2>1, <2>3, <3>2, FallbackType DEF IInv
      <4>2. QED BY <2>1, <2>3, <4>1, Distinct DEF IInv, HeldInv
    <3>3. QED BY <3>1, <3>2 DEF Answers
  <2>4. QED BY <2>2, <2>3
<1>5. QED BY <1>1, <1>3, <1>4 DEF IInv

LEMMA CompleteInv ==
  ASSUME IInv, TypeOK', NEW r \in Requests, Complete(r)
  PROVE  IInv'
<1>1. req[r] \in Request /\ Dated(req[r].got, req[r].asked)
  BY OpenType DEF Complete, IInv, AgeInv
<1>2. cache' = [at |-> Stamp(r), data |-> req[r].got] /\ cache' # None
  <2>1. Stamp(r) \in Nat /\ req[r].got \in Data
    BY <1>1 DEF Stamp, Request, IInv, TypeOK
  <2>2. [at |-> Stamp(r), data |-> req[r].got] \in Entry
    BY <2>1 DEF Entry
  <2>3. QED BY <2>2, Distinct DEF Complete
<1>3. view # "board" => Dated(cache'.data, cache'.at)
  BY <1>1, <1>2 DEF Stamp
<1>4. UNCHANGED <<view, clock, trades, fetch>> /\ Open(r) /\ Answers(r, req[r].got)
  BY DEF Complete
<1>5. \A s \in Requests : fetch'[s] # None =>
        /\ fetch'[s] = fetch[s] /\ fetch[s] # None
        /\ fetch'[s].asOf # None => fetch'[s].asOf >= fetch'[s].at
  BY <1>4 DEF IInv, AgeInv
<1>6. QED BY <1>2, <1>3, <1>4, <1>5, AnsweredInv

\* A request that fails is answered by its fallback.
LEMMA FallenBack ==
  ASSUME IInv, TypeOK', NEW r \in Requests, Open(r), Answers(r, Fallback(r)),
         UNCHANGED <<view, clock, cache, trades>>,
         fetch' = fetch \/ fetch' = [fetch EXCEPT ![r] = None]
  PROVE  IInv'
<1>1. \A s \in Requests : fetch'[s] # None =>
        /\ fetch'[s] = fetch[s] /\ fetch[s] # None
        /\ fetch'[s].asOf # None => fetch'[s].asOf >= fetch'[s].at
  BY FetchOver DEF IInv, AgeInv
<1>2. view # "board" /\ cache' # None => Dated(cache'.data, cache'.at)
  BY DEF IInv, AgeInv
<1>3. QED BY <1>1, <1>2, AnsweredInv

LEMMA TradesFailInv ==
  ASSUME IInv, TypeOK', NEW r \in Requests, TradesFail(r)
  PROVE  IInv'
<1>1. /\ UNCHANGED <<view, clock, cache, trades>> /\ fetch[r] \in Call
      /\ fetch' = [fetch EXCEPT ![r] = None]
  BY DEF TradesFail, IInv, TypeOK
<1>2. \A s \in Requests : fetch'[s] # None =>
        /\ fetch'[s] = fetch[s] /\ fetch[s] # None
        /\ fetch'[s].asOf # None => fetch'[s].asOf >= fetch'[s].at
  BY <1>1, FetchOver
<1>3. CASE /\ fetch[r].hit # None /\ answer' = None /\ UNCHANGED shown
           /\ Obtain(r, Expired(fetch[r].hit.data))
  <2> DEFINE d == Expired(fetch[r].hit.data)
  <2>1. d \in Reading /\ d.stale = TRUE
    BY <1>1, <1>3, ReadingType DEF Call, Activity
  <2>2. Obtain(r, d)
    BY <1>3
  <2> HIDE DEF d
  <2>3. \A s \in Requests : Open(s)' => /\ Open(s) /\ req'[s].asked = req[s].asked
                                       /\ req'[s].hit = req[s].hit
                                       /\ req'[s].before = req[s].before
                                       /\ Dated(req'[s].got, req[s].asked)
    BY <2>1, <2>2, ObtainDated
  <2>4. QED BY <1>1, <1>2, <1>3, <2>3, QuietInv
<1>4. CASE Open(r) /\ Answers(r, Fallback(r))
  BY <1>1, <1>4, FallenBack
<1>5. CASE answer' = None /\ UNCHANGED <<req, shown>>
  <2>1. \A s \in Requests : Open(s)' => Open(s) /\ Dated(req[s].got, req[s].asked)
    BY <1>5 DEF Open, IInv, AgeInv
  <2>2. QED BY <1>1, <1>2, <1>5, <2>1, QuietInv
<1>6. QED BY <1>3, <1>4, <1>5 DEF TradesFail

LEMMA TickInv ==
  ASSUME IInv, TypeOK', Tick
  PROVE  IInv'
<1>1. clock' = clock + 1 /\ clock \in Nat /\ answer' = None
      /\ UNCHANGED <<view, cache, trades, req, fetch, shown>>
  BY DEF Tick, IInv, TypeOK
<1>2. \A r \in Requests : Open(r)' <=> Open(r)
  BY <1>1 DEF Open
<1>3. AgeInv'
  <2>1. ASSUME NEW r \in Requests, Open(r)
        PROVE  req[r].asked <= clock + 1 /\ Dated(req[r].got, req[r].asked)
    <3>1. req[r].asked \in Nat /\ req[r].asked <= clock
      BY <2>1, OpenType DEF IInv, AgeInv, Request
    <3>2. QED BY <1>1, <2>1, <3>1 DEF IInv, AgeInv
  <2>2. ASSUME NEW r \in Requests, fetch[r] # None
        PROVE  /\ fetch[r].at <= clock + 1
               /\ fetch[r].asOf # None => fetch[r].asOf >= fetch[r].at
               /\ Open(r) => fetch[r].at = req[r].asked
    <3>1. fetch[r].at \in Nat /\ fetch[r].at <= clock
      BY <2>2 DEF IInv, AgeInv, TypeOK, Call
    <3>2. QED BY <1>1, <2>2, <3>1 DEF IInv, AgeInv
  <2>3. QED BY <1>1, <1>2, <2>1, <2>2 DEF IInv, AgeInv
<1>4. HeldInv'
  BY <1>1, <1>2 DEF IInv, HeldInv
<1>5. QED BY <1>1, <1>3, <1>4 DEF IInv, AnswersAreFresh, ShownStaysShown

LEMMA NextInv == IInv /\ [Next]_vars => IInv'
<1> SUFFICES ASSUME IInv, [Next]_vars PROVE IInv'
  OBVIOUS
<1>1. TypeOK'
  BY NextType DEF IInv
<1>2. CASE UNCHANGED vars
  <2>1. UNCHANGED <<view, clock, cache, trades, req, answer, fetch, shown>>
    BY <1>2 DEF vars
  <2>2. AgeInv' /\ HeldInv' /\ AnswersAreFresh' /\ ShownStaysShown'
    BY <2>1 DEF IInv, AgeInv, HeldInv, AnswersAreFresh, ShownStaysShown, Open
  <2>3. QED BY <1>1, <2>2 DEF IInv
<1>3. CASE Tick
  BY <1>1, <1>3, TickInv
<1>4. ASSUME NEW r \in Requests, Ask(r) PROVE IInv'
  BY <1>1, <1>4, AskInv
<1>5. ASSUME NEW r \in Requests, NEW p \in Parts[view], Part(r, p) PROVE IInv'
  BY <1>1, <1>5, PartInv
<1>6. ASSUME NEW r \in Requests, Complete(r) PROVE IInv'
  BY <1>1, <1>6, CompleteInv
<1>7. ASSUME NEW r \in Requests, Fails(r) PROVE IInv'
  BY <1>1, <1>7, FallenBack DEF Fails
<1>8. ASSUME NEW r \in Requests, TradesRead(r) PROVE IInv'
  BY <1>1, <1>8, TradesReadInv
<1>9. ASSUME NEW r \in Requests, TradesArrive(r) PROVE IInv'
  BY <1>1, <1>9, TradesArriveInv
<1>10. ASSUME NEW r \in Requests, TradesFail(r) PROVE IInv'
  BY <1>1, <1>10, TradesFailInv
<1>11. QED
  BY <1>2, <1>3, <1>4, <1>5, <1>6, <1>7, <1>8, <1>9, <1>10 DEF Next

-----------------------------------------------------------------------------
(* Theorems                                                                *)

LEMMA Invariant == Spec => []IInv
<1>1. Init => IInv
  BY InitInv
<1>2. IInv /\ [Next]_vars => IInv'
  BY NextInv
<1>3. QED BY <1>1, <1>2, PTL DEF Spec

\* Every variable of ReadCaches keeps its type (pnl.ts, discover.ts, data-api.ts).
THEOREM TypeCorrect == Spec => []TypeOK
<1>1. IInv => TypeOK
  BY DEF IInv
<1>2. QED BY <1>1, Invariant, PTL

\* What an answer holds, unless a fetch failed, is never older than its cache allows (trades:
\* than both caches allow), for any times to live and any number of requests that overlap
\* (pnl.ts, discover.ts, data-api.ts).
THEOREM AnswersStayFresh == Spec => []AnswersAreFresh
<1>1. IInv => AnswersAreFresh
  BY DEF IInv
<1>2. QED BY <1>1, Invariant, PTL

\* The PnL, or a trader's page, that was shown is not answered with an error when it is asked
\* for afterwards (pnl.ts, discover.ts).
THEOREM ShownIsKept == Spec => []ShownStaysShown
<1>1. IInv => ShownStaysShown
  BY DEF IInv
<1>2. QED BY <1>1, Invariant, PTL
===============================================================================
