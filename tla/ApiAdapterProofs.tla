-------------------------- MODULE ApiAdapterProofs --------------------------
(***************************************************************************)
(* Proofs about ApiAdapter, for any threads, pages, limits and bounds.     *)
(*                                                                         *)
(* The argument: a token that was cached after a 401 is one the service    *)
(* accepted at that time or later, so no thread that has been denied can   *)
(* be handed the old one by another.                                       *)
(*                                                                         *)
(* A report is exact as long as the log holds all the retries since the    *)
(* call began: those of the call itself are then all among them            *)
(* (ReportInv).  A listing holds the items of the pages it has visited,    *)
(* which are a trail along the chain of page tokens (ListInv).             *)
(***************************************************************************)
EXTENDS ApiAdapter, FiniteSetTheorems, TLAPS

-----------------------------------------------------------------------------
(* The invariant *)

\* What a call x has, when the cache holds c and the service accepts a: no token
\* it may be given is older than the one that was accepted when it was denied.
Sound(x, c, a) ==
    /\ x \in Call
    /\ x.denied <= a
    /\ c = NoToken \/ c >= x.denied
    /\ x.phase \in {"token", "send", "answered"} => x.page \in Page
    /\ x.phase = "send" => x.token \in Nat /\ x.token >= x.denied

\* The rest of the state: the retry log holds the last retries, without gaps.
Entry == [seq : Int, thread : Thread]

LogIsDense(entries, last) ==
    /\ entries \in Seq(Entry) /\ Len(entries) <= LogSize
    /\ \A i \in DOMAIN entries : entries[i].seq = last - Len(entries) + i

ChainIsTyped(c) ==
    \A p \in DOMAIN c : p \in Page /\ c[p] \in (Page \ {FirstPage}) \cup {NoPage}

RestInv ==
    /\ cached \in 0..accepted \cup {NoToken}
    /\ seq \in Nat /\ LogIsDense(log, seq)
    /\ accepted \in 0..MaxExpiries
    /\ written \in [Thread -> Nat]
    /\ ChainIsTyped(chain)

AdapterInv ==
    /\ RestInv
    /\ DOMAIN calls = Thread /\ calls = [t \in Thread |-> calls[t]]
    /\ \A t \in Thread : Sound(calls[t], cached, accepted)

\* The invariant gives the property.
LEMMA AdapterInvSuffices == AdapterInv => NewTokenAfterDenial
<1> SUFFICES ASSUME AdapterInv PROVE NewTokenAfterDenial
  OBVIOUS
<1>1. calls \in [Thread -> Call]
  BY DEF AdapterInv, Sound
<1>2. \A i \in DOMAIN log : log[i] = [seq |-> seq - Len(log) + i, thread |-> log[i].thread]
  <2> SUFFICES ASSUME NEW i \in DOMAIN log
               PROVE  log[i] = [seq |-> seq - Len(log) + i, thread |-> log[i].thread]
    OBVIOUS
  <2>1. log[i] \in Entry /\ log[i].seq = seq - Len(log) + i
    BY DEF AdapterInv, RestInv, LogIsDense
  <2> QED
    BY <2>1 DEF Entry
<1>3. AdapterTypes
  BY <1>1, <1>2 DEF AdapterInv, RestInv, LogIsDense, ChainIsTyped, AdapterTypes
<1> QED
  BY <1>3 DEF AdapterInv, Sound, NewTokenAfterDenial

-----------------------------------------------------------------------------
(* Lemmas *)

\* Phases, answers and bounds.
LEMMA WordFacts ==
    /\ {"idle", "token", "send", "answered", "returned", "raised"} \subseteq Phase
    /\ "none" \in Answer
    /\ 1 \in 1..MaxAttempts /\ 0 \in 0..MaxAgain
BY BoundAssumption DEF Phase, Answer

\* A thread goes on with the call x, while the cache may be filled or emptied.
LEMMA CallStep ==
    ASSUME AdapterInv, NEW t \in Thread, NEW x, calls' = [calls EXCEPT ![t] = x],
           cached' \in {cached, accepted, NoToken}, Sound(x, cached', accepted),
           accepted' = accepted, written' \in [Thread -> Nat],
           seq' \in Nat, LogIsDense(log', seq'), ChainIsTyped(chain')
    PROVE  AdapterInv'
<1>1. RestInv'
  BY DEF AdapterInv, RestInv
<1>2. ASSUME NEW u \in Thread PROVE Sound(calls'[u], cached', accepted')
  <2>1. CASE u = t
    BY <2>1 DEF AdapterInv
  <2>2. CASE u # t
    <3>1. calls'[u] = calls[u] /\ Sound(calls[u], cached, accepted)
      BY <2>2 DEF AdapterInv
    <3>2. cached' = NoToken \/ cached' >= calls[u].denied
      BY <3>1 DEF Sound
    <3> QED
      BY <3>1, <3>2 DEF Sound
  <2> QED
    BY <2>1, <2>2
<1>3. DOMAIN calls' = Thread /\ calls' = [u \in Thread |-> calls'[u]]
  BY DEF AdapterInv
<1> QED
  BY <1>1, <1>2, <1>3 DEF AdapterInv

\* A thread that has not begun.
LEMMA IdleIsCall ==
    Idle \in Call /\ Idle.phase = "idle" /\ Idle.denied = 0 /\ Idle.limit \in Limits
<1>1. PICK some \in Limits : some = Idle.limit
  BY LimitAssumption DEF Idle
<1> QED
  BY <1>1, BoundAssumption, PageAssumption DEF Idle, Call, Phase, Answer, Kind

\* The report is a number.
LEMMA ReportIsNumber ==
    ASSUME log \in Seq(Entry), NEW marker, NEW t
    PROVE  RetriesSince(marker, t) \in Nat
<1>1. IsFiniteSet(DOMAIN log)
  BY FS_Interval
<1>2. IsFiniteSet({i \in DOMAIN log : log[i].seq > marker /\ log[i].thread = t})
  BY <1>1, FS_Subset
<1> QED
  BY <1>2, FS_CardinalityType DEF RetriesSince

\* A workflow that is over.
LEMMA EndedIsSound ==
    ASSUME log \in Seq(Entry), NEW x \in Call, NEW t, NEW phase \in {"returned", "raised"},
           NEW c \in Nat \cup {NoToken}, NEW a \in Nat
    PROVE  Sound(Ended(x, t, phase), c, a)
<1>1. PICK n \in Nat : n = RetriesSince(x.marker, t)
  BY ReportIsNumber
<1>2. PICK y : y = [x EXCEPT !.phase = phase, !.report = n, !.token = NoToken,
                              !.answer = "none", !.attempt = 1, !.again = 0, !.denied = 0]
  OBVIOUS
<1>3. y \in Call /\ y.phase = phase /\ y.denied = 0
  BY <1>2, WordFacts DEF Call
<1>4. Sound(y, c, a)
  BY <1>3 DEF Sound
<1> QED
  BY <1>1, <1>2, <1>4 DEF Ended

\* The log after one more retry.
LEMMA LoggedIsDense ==
    ASSUME seq \in Nat, LogIsDense(log, seq), NEW t \in Thread
    PROVE  LogIsDense(Logged(log, t), seq + 1)
<1>1. PICK e : e = [seq |-> seq + 1, thread |-> t]
  OBVIOUS
<1>2. PICK l : l = Append(log, e)
  OBVIOUS
<1>3. e \in Entry /\ e.seq = seq + 1
  BY <1>1 DEF Entry
<1>4. /\ l \in Seq(Entry) /\ Len(l) = Len(log) + 1
      /\ \A i \in 1..Len(l) : l[i].seq = seq + 1 - Len(l) + i
  BY <1>2, <1>3 DEF LogIsDense
<1>5. CASE Len(l) > LogSize
  <2>1. PICK m : m = Tail(l)
    OBVIOUS
  <2>2. /\ m \in Seq(Entry) /\ Len(m) = Len(l) - 1
        /\ \A i \in 1..Len(m) : m[i] = l[i + 1]
    BY <1>4, <2>1
  <2>3. \A i \in 1..Len(m) : m[i].seq = seq + 1 - Len(m) + i
    BY <1>4, <2>2
  <2>4. Logged(log, t) = m
    BY <1>1, <1>2, <1>5, <2>1 DEF Logged
  <2>5. Len(m) <= LogSize
    BY <1>4, <2>2, BoundAssumption DEF LogIsDense
  <2>6. DOMAIN m = 1..Len(m)
    BY <2>2
  <2>7. LogIsDense(m, seq + 1)
    BY <2>2, <2>3, <2>5, <2>6 DEF LogIsDense
  <2> QED
    BY <2>4, <2>7
<1>6. CASE ~(Len(l) > LogSize)
  <2>1. Logged(log, t) = l
    BY <1>1, <1>2, <1>6 DEF Logged
  <2>2. Len(l) <= LogSize /\ DOMAIN l = 1..Len(l)
    BY <1>4, <1>6, BoundAssumption
  <2>3. LogIsDense(l, seq + 1)
    BY <1>4, <2>2 DEF LogIsDense
  <2> QED
    BY <2>1, <2>3
<1> QED
  BY <1>5, <1>6

-----------------------------------------------------------------------------
(* Every step *)

\* A workflow begins.
LEMMA StartPart ==
    ASSUME AdapterInv, NEW t \in Thread, StartList(t) \/ StartCases(t) \/ StartWrite(t)
    PROVE  AdapterInv'
<1>2. PICK kind \in Kind, start \in Page, limit \in Limits : Start(t, kind, start, limit)
  BY IdleIsCall, PageAssumption DEF StartList, StartCases, StartWrite, Kind
<1>3. PICK x : x = [Idle EXCEPT !.kind = kind, !.phase = "token", !.marker = seq,
                                !.start = start, !.page = start, !.limit = limit]
  OBVIOUS
<1>4. /\ cached \in Nat \cup {NoToken} /\ accepted \in Nat /\ seq \in Nat
      /\ LogIsDense(log, seq) /\ ChainIsTyped(chain) /\ written \in [Thread -> Nat]
  BY DEF AdapterInv, RestInv
<1>5. x \in Call /\ x.phase = "token" /\ x.page = start /\ x.denied = 0
  BY <1>2, <1>3, <1>4, IdleIsCall, WordFacts DEF Call
<1>6. Sound(x, cached, accepted)
  BY <1>4, <1>5 DEF Sound
<1> QED
  BY <1>2, <1>3, <1>4, <1>6, CallStep DEF Start

\* A thread takes a token.
LEMMA TokenPart ==
    ASSUME AdapterInv, NEW t \in Thread, GetToken(t)
    PROVE  AdapterInv'
<1>1. /\ Sound(calls[t], cached, accepted) /\ calls[t] \in Call /\ calls[t].phase = "token"
      /\ RestInv
  BY DEF AdapterInv, Sound, GetToken
<1>2. cached' \in {cached, accepted} /\ cached' \in Nat /\ cached' >= calls[t].denied
  BY <1>1, TokenAssumption DEF GetToken, Sound, RestInv, Call
<1>3. PICK x : x = [calls[t] EXCEPT !.phase = "send", !.token = cached']
  OBVIOUS
<1>4. /\ x \in Call /\ x.phase = "send" /\ x.token = cached' /\ x.denied = calls[t].denied
      /\ x.page = calls[t].page
  BY <1>1, <1>2, <1>3 DEF Call, Phase
<1>5. Sound(x, cached', accepted)
  BY <1>1, <1>2, <1>4 DEF Sound
<1>6. calls' = [calls EXCEPT ![t] = x]
  BY <1>3 DEF GetToken, AdapterInv
<1> QED
  BY <1>1, <1>2, <1>5, <1>6, CallStep DEF GetToken, RestInv

\* The service answers.
LEMMA SendPart ==
    ASSUME AdapterInv, NEW t \in Thread, Send(t)
    PROVE  AdapterInv'
<1>1. /\ Sound(calls[t], cached, accepted) /\ calls[t] \in Call /\ calls[t].phase = "send"
      /\ RestInv
  BY DEF AdapterInv, Sound, Send
<1>2. PICK answer \in Answer, runs \in {0, 1} :
        /\ calls' = [calls EXCEPT ![t].phase = "answered", ![t].answer = answer]
        /\ written' = IF calls[t].kind = "write" THEN [written EXCEPT ![t] = @ + runs] ELSE written
  BY DEF Send
<1>3. PICK x : x = [calls[t] EXCEPT !.phase = "answered", !.answer = answer]
  OBVIOUS
<1>4. /\ x \in Call /\ x.phase = "answered" /\ x.denied = calls[t].denied
      /\ x.page = calls[t].page
  BY <1>1, <1>3 DEF Call, Phase
<1>5. Sound(x, cached, accepted)
  BY <1>1, <1>4 DEF Sound
<1>6. calls' = [calls EXCEPT ![t] = x]
  BY <1>2, <1>3 DEF AdapterInv
<1>7. written' \in [Thread -> Nat]
  BY <1>1, <1>2 DEF RestInv
<1> QED
  BY <1>1, <1>5, <1>6, <1>7, CallStep DEF Send, RestInv

\* The request is made again: with a new token, after an error, or from the start.
LEMMA AgainPart ==
    ASSUME AdapterInv, NEW t \in Thread, TryNewToken(t) \/ Retry(t) \/ StartOver(t)
    PROVE  AdapterInv'
<1>1. /\ Sound(calls[t], cached, accepted) /\ calls[t] \in Call /\ calls[t].phase = "answered"
      /\ RestInv /\ calls[t].page \in Page
  BY DEF AdapterInv, Sound, TryNewToken, Retry, StartOver, Answered
<1>2. CASE TryNewToken(t)
  <2>a. accepted \in Nat
    BY <1>1 DEF RestInv
  <2>0. PICK n \in 1..MaxAttempts, a \in Nat : n = calls[t].attempt + 1 /\ a = accepted
    BY <1>2, <2>a, BoundAssumption DEF TryNewToken
  <2>1. PICK x : x = [calls[t] EXCEPT !.phase = "token", !.token = NoToken, !.answer = "none",
                                      !.attempt = n, !.denied = a]
    OBVIOUS
  <2>2. x \in Call /\ x.phase = "token" /\ x.page = calls[t].page /\ x.denied = accepted
    BY <1>1, <2>0, <2>1, WordFacts DEF Call
  <2>3. Sound(x, NoToken, accepted)
    BY <1>1, <2>2 DEF Sound, RestInv
  <2>4. calls' = [calls EXCEPT ![t] = x]
    BY <1>1, <1>2, <2>0, <2>1 DEF TryNewToken, NextAttempt, TokenWanted, Call
  <2> QED
    BY <1>1, <1>2, <2>3, <2>4, CallStep DEF TryNewToken, Invalidated, RestInv
<1>3. CASE Retry(t)
  <2>a. calls[t].attempt \in 1..MaxAttempts /\ calls[t].retried \in Nat
    BY <1>1 DEF Call
  <2>0. PICK n \in 1..MaxAttempts, k \in Nat : n = calls[t].attempt + 1 /\ k = calls[t].retried + 1
    BY <1>3, <2>a, BoundAssumption DEF Retry
  <2>1. PICK x : x = [calls[t] EXCEPT !.phase = "token", !.token = NoToken, !.answer = "none",
                                      !.attempt = n, !.retried = k]
    OBVIOUS
  <2>2. x \in Call /\ x.phase = "token" /\ x.page = calls[t].page /\ x.denied = calls[t].denied
    BY <1>1, <2>1, WordFacts DEF Call
  <2>3. Sound(x, cached, accepted)
    BY <1>1, <2>2 DEF Sound
  <2>4. calls' = [calls EXCEPT ![t] = x]
    BY <1>1, <1>3, <2>0, <2>1 DEF Retry, Retried, NextAttempt, TokenWanted, Call
  <2>5. seq' \in Nat /\ LogIsDense(log', seq')
    BY <1>1, <1>3, LoggedIsDense DEF Retry, RestInv
  <2> QED
    BY <1>1, <1>3, <2>3, <2>4, <2>5, CallStep DEF Retry, RestInv
<1>4. CASE StartOver(t)
  <2>0. PICK n \in 0..MaxAgain : n = calls[t].again + 1
    BY <1>1, <1>4, BoundAssumption DEF StartOver, Call
  <2>1. PICK x : x = [calls[t] EXCEPT !.phase = "token", !.token = NoToken, !.answer = "none",
                                      !.attempt = 1, !.again = n]
    OBVIOUS
  <2>2. x \in Call /\ x.phase = "token" /\ x.page = calls[t].page /\ x.denied = calls[t].denied
    BY <1>1, <2>1, WordFacts DEF Call
  <2>3. Sound(x, cached, accepted)
    BY <1>1, <2>2 DEF Sound
  <2>4. calls' = [calls EXCEPT ![t] = x]
    BY <1>1, <1>4, <2>0, <2>1 DEF StartOver, Over, TokenWanted, Call
  <2> QED
    BY <1>1, <1>4, <2>3, <2>4, CallStep DEF StartOver, RestInv
<1> QED
  BY <1>2, <1>3, <1>4

\* The workflow is over.
LEMMA EndPart ==
    ASSUME AdapterInv, NEW t \in Thread, Raise(t) \/ Return(t)
    PROVE  AdapterInv'
<1>1. /\ calls[t] \in Call /\ RestInv /\ log \in Seq(Entry)
      /\ cached \in Nat \cup {NoToken} /\ accepted \in Nat
  BY DEF AdapterInv, RestInv, Sound, LogIsDense
<1>2. PICK phase \in {"returned", "raised"} : calls' = [calls EXCEPT ![t] = Ended(calls[t], t, phase)]
  BY DEF Raise, Return, AdapterInv
<1>3. PICK z : z = calls[t]
  OBVIOUS
<1>4. PICK x : x = Ended(z, t, phase)
  OBVIOUS
<1>5. Sound(x, cached, accepted)
  BY <1>1, <1>3, <1>4, EndedIsSound
<1>6. calls' = [calls EXCEPT ![t] = x]
  BY <1>2, <1>3, <1>4
<1> QED
  BY <1>1, <1>5, <1>6, CallStep DEF Raise, Return, RestInv

\* What becomes of the listing z, whose items with those of the page would be
\* `items`, and which is y when the page is counted in.
AfterPage(z, items, next, y, t) ==
    IF LimitReached(z, items) \/ next = NoPage THEN Ended(y, t, "returned")
    ELSE IF Repeated(z, next) THEN Ended(y, t, "raised")
    ELSE IF y.pages >= MaxPages THEN Ended([y EXCEPT !.seen = @ \cup {next}], t, "returned")
    ELSE [TokenWanted(y) EXCEPT !.attempt = 1, !.denied = 0, !.seen = @ \cup {next}]

\* The items of a page, and those a listing has when the page is counted in.
LEMMA PageItems ==
    ASSUME NEW z \in Call, NEW p \in Page
    PROVE  /\ Items(p) \in Seq(Page \X (1..PageSize)) /\ Len(Items(p)) = PageSize
           /\ Cut(z, z.items \o Items(p)) \in Seq(Page \X (1..PageSize))
<1>1. Items(p) \in Seq(Page \X (1..PageSize)) /\ Len(Items(p)) = PageSize
  BY BoundAssumption DEF Items
<1>2. PICK items : items = z.items \o Items(p)
  OBVIOUS
<1>3. items \in Seq(Page \X (1..PageSize)) /\ z.limit \in (Nat \ {0}) \cup {NoLimit}
  <2>1. z.items \in Seq(Page \X (1..PageSize)) /\ z.limit \in Limits
    BY DEF Call
  <2>2. PICK a \in Seq(Page \X (1..PageSize)), b \in Seq(Page \X (1..PageSize)) :
          a = z.items /\ b = Items(p)
    BY <1>1, <2>1
  <2>3. a \o b \in Seq(Page \X (1..PageSize))
    OBVIOUS
  <2> QED
    BY <1>2, <2>1, <2>2, <2>3, LimitAssumption
<1>4. ASSUME LimitReached(z, items) PROVE SubSeq(items, 1, z.limit) \in Seq(Page \X (1..PageSize))
  BY <1>3, <1>4 DEF LimitReached
<1>5. Cut(z, items) \in Seq(Page \X (1..PageSize))
  BY <1>3, <1>4 DEF Cut
<1> QED
  BY <1>1, <1>2, <1>5

\* A page has come.
LEMMA PagePart ==
    ASSUME AdapterInv, NEW t \in Thread, PageFetched(t)
    PROVE  AdapterInv'
<1>1. /\ Sound(calls[t], cached, accepted) /\ RestInv /\ log \in Seq(Entry)
      /\ cached \in Nat \cup {NoToken} /\ accepted \in Nat
      /\ calls[t].phase = "answered"
  BY DEF AdapterInv, RestInv, LogIsDense, PageFetched, Answered
<1>2. PICK z \in Call : z = calls[t]
  BY <1>1 DEF Sound
<1>3. z.page \in Page /\ z.denied <= accepted
  BY <1>1, <1>2 DEF Sound
<1>4. PICK items : items = z.items \o Items(z.page)
  OBVIOUS
<1>5. PICK next \in (Page \ {FirstPage}) \cup {NoPage} :
        /\ chain' = [p \in DOMAIN chain \cup {z.page} |-> IF p = z.page THEN next ELSE chain[p]]
        /\ \E y : /\ y = [z EXCEPT !.pages = @ + 1, !.items = Cut(z, items), !.page = next]
                 /\ calls' = [calls EXCEPT ![t] = AfterPage(z, items, next, y, t)]
  BY <1>2, <1>4 DEF PageFetched, AfterPage
<1> PICK y : /\ y = [z EXCEPT !.pages = @ + 1, !.items = Cut(z, items), !.page = next]
             /\ calls' = [calls EXCEPT ![t] = AfterPage(z, items, next, y, t)]
  BY <1>5
<1>6. y \in Call /\ y.page = next /\ y.seen = z.seen
  <2>1. Cut(z, items) \in Seq(Page \X (1..PageSize))
    BY <1>2, <1>3, <1>4, PageItems
  <2>2. PICK its \in Seq(Page \X (1..PageSize)), n \in Nat : its = Cut(z, items) /\ n = z.pages + 1
    BY <1>2, <2>1 DEF Call
  <2>3. y = [z EXCEPT !.pages = n, !.items = its, !.page = next]
    BY <2>2
  <2> QED
    BY <1>2, <2>3 DEF Call
<1>7. ChainIsTyped(chain')
  <2>1. /\ DOMAIN chain' = DOMAIN chain \cup {z.page}
        /\ \A p \in DOMAIN chain \ {z.page} : chain'[p] = chain[p]
        /\ chain'[z.page] = next
    BY <1>5
  <2> SUFFICES ASSUME NEW p \in DOMAIN chain'
               PROVE  p \in Page /\ chain'[p] \in (Page \ {FirstPage}) \cup {NoPage}
    BY DEF ChainIsTyped
  <2>2. CASE p = z.page
    BY <1>3, <2>1, <2>2
  <2>3. CASE p # z.page
    BY <1>1, <2>1, <2>3 DEF RestInv, ChainIsTyped
  <2> QED
    BY <2>2, <2>3
<1>8. PICK x : x = AfterPage(z, items, next, y, t)
  OBVIOUS
<1>9. Sound(x, cached, accepted)
  <2>1. CASE x = Ended(y, t, "returned") \/ x = Ended(y, t, "raised")
    <3>1. PICK phase \in {"returned", "raised"} : x = Ended(y, t, phase)
      BY <2>1
    <3> QED
      BY <1>1, <1>6, <3>1, EndedIsSound
  <2>2. CASE next # NoPage /\ x = Ended([y EXCEPT !.seen = @ \cup {next}], t, "returned")
    <3>1. PICK w : w = [y EXCEPT !.seen = @ \cup {next}]
      OBVIOUS
    <3>2. w \in Call
      BY <1>6, <2>2, <3>1 DEF Call
    <3> QED
      BY <1>1, <2>2, <3>1, <3>2, EndedIsSound
  <2>3. CASE next # NoPage /\ x = [TokenWanted(y) EXCEPT !.attempt = 1, !.denied = 0,
                                                         !.seen = @ \cup {next}]
    <3>0. PICK seen \in SUBSET Page : seen = y.seen \cup {next}
      BY <1>6, <2>3 DEF Call
    <3>1. x = [y EXCEPT !.phase = "token", !.token = NoToken, !.answer = "none",
                        !.attempt = 1, !.denied = 0, !.seen = seen]
      BY <1>6, <2>3, <3>0 DEF TokenWanted, Call
    <3>2. x \in Call /\ x.phase = "token" /\ x.page = next /\ x.denied = 0
      BY <1>6, <3>1, WordFacts DEF Call
    <3> QED
      BY <1>1, <2>3, <3>2 DEF Sound
  <2> QED
    BY <1>8, <2>1, <2>2, <2>3 DEF AfterPage
<1> QED
  BY <1>1, <1>7, <1>8, <1>9, CallStep DEF PageFetched, RestInv

LEMMA AdapterInvInit == Init => AdapterInv
<1> SUFFICES ASSUME Init PROVE AdapterInv
  OBVIOUS
<1>3. Sound(Idle, NoToken, 0)
  BY IdleIsCall DEF Sound
<1>4. RestInv
  BY BoundAssumption DEF Init, RestInv, LogIsDense, ChainIsTyped
<1> QED
  BY <1>3, <1>4 DEF Init, AdapterInv

LEMMA AdapterInvStep == AdapterInv /\ [Next]_vars => AdapterInv'
<1> SUFFICES ASSUME AdapterInv, [Next]_vars PROVE AdapterInv'
  OBVIOUS
<1>1. CASE \E t \in Thread : StartList(t) \/ StartCases(t) \/ StartWrite(t)
  BY <1>1, StartPart
<1>2. CASE \E t \in Thread : Request(t)
  BY <1>2, TokenPart, SendPart, AgainPart, EndPart, PagePart DEF Request
<1>3. CASE Expire
  <2>1. RestInv /\ accepted \in Nat
    BY DEF AdapterInv, RestInv
  <2>2. RestInv'
    BY <1>3, <2>1, BoundAssumption DEF Expire, RestInv
  <2>3. ASSUME NEW t \in Thread PROVE Sound(calls[t], cached, accepted + 1)
    BY <2>1 DEF AdapterInv, Sound, Call
  <2> QED
    BY <1>3, <2>2, <2>3 DEF Expire, AdapterInv
<1>4. CASE UNCHANGED vars
  BY <1>4 DEF vars, AdapterInv, RestInv
<1> QED
  BY <1>1, <1>2, <1>3, <1>4 DEF Next

-----------------------------------------------------------------------------
(* Theorems *)

\* The types, and no thread sends a token older than the one the service accepted
\* when it denied the thread the last time, however the threads take turns.
THEOREM DeniedIsNotRepeated == Spec => []NewTokenAfterDenial
BY AdapterInvInit, AdapterInvStep, AdapterInvSuffices, PTL DEF Spec

-----------------------------------------------------------------------------
(* What a workflow reports *)

\* The numbers of the retries of t after the marker that are still in the log.
RetriedAt(entries, marker, t) ==
    {entries[i].seq : i \in {j \in DOMAIN entries : entries[j].seq > marker
                                                    /\ entries[j].thread = t}}

Working == {"token", "send", "answered"}

\* A workflow has counted the retries that the log holds, and all of them as long
\* as none can have been dropped; a write was executed once for each of them, and
\* perhaps by the attempt that was just answered.
Honest(x, t, entries, last, n) ==
    /\ x.phase = "idle" => n = 0
    /\ x.phase \in Working =>
          /\ x.marker <= last
          /\ Cardinality(RetriedAt(entries, x.marker, t)) <= x.retried
          /\ last - x.marker <= LogSize =>
                Cardinality(RetriedAt(entries, x.marker, t)) = x.retried
          /\ x.kind = "write" =>
                n <= x.retried + (IF x.phase = "answered" /\ x.answer # "denied" THEN 1 ELSE 0)
    /\ x.phase = "answered" /\ x.answer = "internal" => x.kind # "write"

ReportInv == \A t \in Thread : Honest(calls[t], t, log, seq, written[t])

\* Counting the entries is counting their numbers.
LEMMA ReportCounts ==
    ASSUME seq \in Nat, LogIsDense(log, seq), NEW marker, NEW t
    PROVE  /\ IsFiniteSet(RetriedAt(log, marker, t))
           /\ RetriesSince(marker, t) = Cardinality(RetriedAt(log, marker, t))
<1> DEFINE I == {i \in DOMAIN log : log[i].seq > marker /\ log[i].thread = t}
           f == [i \in I |-> log[i].seq]
<1>1. log \in Seq(Entry) /\ DOMAIN log = 1..Len(log) /\ Len(log) \in Nat
  BY DEF LogIsDense
<1>2. IsFiniteSet(DOMAIN log) /\ IsFiniteSet(I)
  <2>1. IsFiniteSet(DOMAIN log)
    BY <1>1, FS_Interval
  <2> QED
    BY <2>1, FS_Subset
<1>3. \A i \in DOMAIN log : log[i].seq = seq - Len(log) + i
  BY DEF LogIsDense
<1>4. \A i, j \in I : f[i] = f[j] => i = j
  BY <1>1, <1>3
<1>5. RetriedAt(log, marker, t) = {f[i] : i \in I}
  BY DEF RetriedAt
<1>6. f \in Bijection(I, RetriedAt(log, marker, t))
  <2> HIDE DEF I
  <2>1. f \in [I -> RetriedAt(log, marker, t)] /\ DOMAIN f = I
    BY <1>5
  <2>2. \A s \in RetriedAt(log, marker, t) : \E i \in I : f[i] = s
    BY <1>5
  <2> QED
    BY <1>4, <2>1, <2>2 DEF Bijection, Injection, Surjection, IsInjective
<1> QED
  BY <1>2, <1>6, FS_Bijection DEF ExistsBijection, RetriesSince

\* No retry has a number beyond the last.
LEMMA NumbersAreBounded ==
    ASSUME seq \in Nat, LogIsDense(log, seq), NEW marker, NEW t
    PROVE  \A s \in RetriedAt(log, marker, t) : s \in Int /\ s <= seq /\ s > marker
<1>1. DOMAIN log = 1..Len(log) /\ Len(log) \in Nat
  BY DEF LogIsDense
<1>2. \A i \in DOMAIN log : log[i].seq = seq - Len(log) + i
  BY DEF LogIsDense
<1> QED
  BY <1>1, <1>2 DEF RetriedAt

\* The number that a retry of u adds to those of t.
NumberOf(u, t) == IF u = t THEN {seq + 1} ELSE {}

\* The retry of u adds its number to those of u, and what is dropped is older than
\* every marker for which the log has had room.
LEMMA LoggedNumbers ==
    ASSUME seq \in Nat, LogIsDense(log, seq), NEW u \in Thread, NEW t \in Thread,
           NEW marker \in Nat, marker <= seq
    PROVE  /\ RetriedAt(Logged(log, u), marker, t)
                 \subseteq RetriedAt(log, marker, t) \cup NumberOf(u, t)
           /\ seq + 1 - marker <= LogSize =>
                 RetriedAt(Logged(log, u), marker, t)
                    = RetriedAt(log, marker, t) \cup NumberOf(u, t)
<1>0. PICK more : more = NumberOf(u, t) /\ more = IF u = t THEN {seq + 1} ELSE {}
  BY DEF NumberOf
<1>1. PICK e : e = [seq |-> seq + 1, thread |-> u]
  OBVIOUS
<1>2. PICK l : l = Append(log, e)
  OBVIOUS
<1>3. e \in Entry /\ e.seq = seq + 1 /\ e.thread = u
  BY <1>1 DEF Entry
<1>4. PICK n \in Nat : /\ n = Len(log) /\ n <= LogSize /\ DOMAIN log = 1..n
                       /\ log \in Seq(Entry)
                       /\ \A i \in 1..n : log[i].seq = seq - n + i
  BY DEF LogIsDense
<1>5. /\ l \in Seq(Entry) /\ Len(l) = n + 1 /\ DOMAIN l = 1..(n + 1) /\ l[n + 1] = e
      /\ \A i \in 1..n : l[i] = log[i]
  BY <1>2, <1>3, <1>4
<1>6. RetriedAt(l, marker, t) = RetriedAt(log, marker, t) \cup more
  <2>1. ASSUME NEW s PROVE s \in RetriedAt(l, marker, t) <=>
            \E i \in 1..(n + 1) : s = l[i].seq /\ l[i].seq > marker /\ l[i].thread = t
    BY <1>5 DEF RetriedAt
  <2>2. ASSUME NEW s PROVE s \in RetriedAt(log, marker, t) <=>
            \E i \in 1..n : s = log[i].seq /\ log[i].seq > marker /\ log[i].thread = t
    BY <1>4 DEF RetriedAt
  <2>3. ASSUME NEW s PROVE s \in more <=>
            s = l[n + 1].seq /\ l[n + 1].seq > marker /\ l[n + 1].thread = t
    BY <1>0, <1>3, <1>5
  <2>4. ASSUME NEW s PROVE s \in RetriedAt(l, marker, t) <=>
            \/ s \in RetriedAt(log, marker, t)
            \/ s \in more
    <3>1. \A i : i \in 1..(n + 1) <=> i \in 1..n \/ i = n + 1
      BY <1>4
    <3>2. ASSUME s \in RetriedAt(l, marker, t)
          PROVE  s \in RetriedAt(log, marker, t) \/ s \in more
      <4>1. PICK i \in 1..(n + 1) : s = l[i].seq /\ l[i].seq > marker /\ l[i].thread = t
        BY <2>1, <3>2
      <4>2. CASE i = n + 1
        BY <2>3, <4>1, <4>2
      <4>3. CASE i \in 1..n
        <5>1. l[i] = log[i]
          BY <1>5, <4>3
        <5>2. s \in RetriedAt(log, marker, t)
          BY <2>2, <4>1, <4>3, <5>1
        <5> QED
          BY <5>2
      <4> QED
        BY <3>1, <4>1, <4>2, <4>3
    <3>3. ASSUME s \in RetriedAt(log, marker, t) PROVE s \in RetriedAt(l, marker, t)
      BY <1>5, <2>1, <2>2, <3>1, <3>3
    <3>4. ASSUME s \in more PROVE s \in RetriedAt(l, marker, t)
      BY <2>1, <2>3, <3>1, <3>4
    <3> QED
      BY <3>2, <3>3, <3>4
  <2> QED
    BY <2>4
<1>7. CASE Len(l) > LogSize
  <2>1. PICK m : m = Tail(l)
    OBVIOUS
  <2>2. Logged(log, u) = m /\ n = LogSize
    BY <1>1, <1>2, <1>4, <1>5, <1>7, <2>1, BoundAssumption DEF Logged
  <2>3. /\ Len(m) = n /\ DOMAIN m = 1..n
        /\ \A i \in 1..n : m[i] = l[i + 1]
    BY <1>4, <1>5, <2>1
  <2>4. ASSUME NEW s PROVE s \in RetriedAt(m, marker, t) <=>
            \E i \in 1..n : s = l[i + 1].seq /\ l[i + 1].seq > marker /\ l[i + 1].thread = t
    BY <2>3 DEF RetriedAt
  <2>5. ASSUME NEW s PROVE s \in RetriedAt(l, marker, t) <=>
            \E i \in 1..(n + 1) : s = l[i].seq /\ l[i].seq > marker /\ l[i].thread = t
    BY <1>5 DEF RetriedAt
  <2>6. \A i \in 1..n : i + 1 \in 1..(n + 1)
    BY <1>4
  <2>7. RetriedAt(m, marker, t) \subseteq RetriedAt(l, marker, t)
    BY <2>4, <2>5, <2>6
  <2>8. ASSUME seq + 1 - marker <= LogSize, NEW s \in RetriedAt(l, marker, t)
        PROVE  s \in RetriedAt(m, marker, t)
    <3>1. PICK i \in 1..(n + 1) : s = l[i].seq /\ l[i].seq > marker /\ l[i].thread = t
      BY <2>5, <2>8
    <3>2. l[i].seq = seq - n + i
      BY <1>3, <1>4, <1>5
    <3>3. i # 1
      BY <1>4, <2>2, <2>8, <3>1, <3>2
    <3>4. i - 1 \in 1..n /\ (i - 1) + 1 = i
      BY <1>4, <3>3
    <3> QED
      BY <2>4, <3>1, <3>4
  <2> QED
    BY <1>0, <1>6, <2>2, <2>7, <2>8
<1>8. CASE ~(Len(l) > LogSize)
  <2>1. Logged(log, u) = l
    BY <1>1, <1>2, <1>8 DEF Logged
  <2> QED
    BY <1>0, <1>6, <2>1
<1> QED
  BY <1>0, <1>7, <1>8

\* A thread goes on with the call x, and nobody retries.
LEMMA QuietReport ==
    ASSUME AdapterInv, ReportInv, NEW t \in Thread, NEW x, calls' = [calls EXCEPT ![t] = x],
           UNCHANGED <<log, seq>>, \A u \in Thread \ {t} : written'[u] = written[u],
           Honest(x, t, log, seq, written'[t])
    PROVE  ReportInv'
<1> SUFFICES ASSUME NEW u \in Thread PROVE Honest(calls'[u], u, log', seq', written'[u])
  BY DEF ReportInv
<1>1. calls'[t] = x /\ (u # t => calls'[u] = calls[u])
  BY DEF AdapterInv
<1>2. Honest(calls[u], u, log, seq, written[u])
  BY DEF ReportInv
<1>3. CASE u = t
  BY <1>1, <1>3
<1>4. CASE u # t
  BY <1>1, <1>2, <1>4
<1> QED
  BY <1>3, <1>4

\* What a call in progress has counted stays right while it goes on as the same
\* workflow; only an attempt that was not denied may add an execution.
LEMMA GoesOnHonestly ==
    ASSUME NEW y \in Call, NEW x, NEW t, NEW n \in Nat, NEW m \in Nat,
           Honest(y, t, log, seq, n), y.phase \in Working, x.phase \in Working,
           x.marker = y.marker, x.retried = y.retried, x.kind = y.kind,
           x.phase = "answered" /\ x.answer = "internal" => x.kind # "write",
           \/ m = n /\ (y.phase = "answered" /\ x.kind = "write" => y.answer = "denied")
           \/ y.phase # "answered" /\ x.phase = "answered" /\ x.answer # "denied" /\ m <= n + 1
    PROVE  Honest(x, t, log, seq, m)
<1>1. x.phase # "idle" /\ y.retried \in Nat
  BY DEF Working, Call
<1>2. x.kind = "write" => n <= y.retried + (IF y.phase = "answered" /\ y.answer # "denied" THEN 1 ELSE 0)
  BY DEF Honest
<1>3. x.kind = "write" => m <= x.retried + (IF x.phase = "answered" /\ x.answer # "denied" THEN 1 ELSE 0)
  BY <1>1, <1>2
<1> QED
  BY <1>1, <1>3 DEF Honest

\* A workflow that is over has nothing left to count.
LEMMA EndsHonestly ==
    ASSUME NEW x, NEW t, NEW n, NEW entries, NEW last, x.phase \in {"returned", "raised"}
    PROVE  Honest(x, t, entries, last, n)
BY DEF Honest, Working

\* What the report of a workflow says, and what it keeps of the call.
LEMMA EndedReports ==
    ASSUME NEW y \in Call, NEW t, NEW phase \in {"returned", "raised"},
           NEW n \in Nat, RetriesSince(y.marker, t) = n
    PROVE  /\ Ended(y, t, phase).phase = phase
           /\ Ended(y, t, phase).report = n /\ Ended(y, t, phase).retried = y.retried
<1>1. PICK x : x = [y EXCEPT !.phase = phase, !.report = n, !.token = NoToken,
                             !.answer = "none", !.attempt = 1, !.again = 0, !.denied = 0]
  OBVIOUS
<1>2. x.phase = phase /\ x.report = n /\ x.retried = y.retried
  BY <1>1 DEF Call
<1> QED
  BY <1>1, <1>2 DEF Ended

\* The workflow of t ends: it reports what the log holds of its retries.
Ends(t) ==
    /\ calls[t].phase = "answered"
    /\ calls'[t].phase \in {"returned", "raised"}
    /\ calls'[t].report = RetriesSince(calls[t].marker, t)
    /\ calls'[t].retried = calls[t].retried
    /\ UNCHANGED <<log, seq, written>>

\* A step of a thread that ends its workflow ends it like that.
LEMMA EndingSteps ==
    ASSUME AdapterInv, NEW t \in Thread, Raise(t) \/ Return(t)
    PROVE  Ends(t) /\ \E x : x = calls'[t] /\ calls' = [calls EXCEPT ![t] = x]
<1>1. calls[t] \in Call /\ log \in Seq(Entry) /\ calls[t].phase = "answered"
  BY DEF AdapterInv, RestInv, Sound, LogIsDense, Raise, Return, Answered
<1>2. PICK z : z = calls[t]
  OBVIOUS
<1>3. PICK phase \in {"returned", "raised"} : calls' = [calls EXCEPT ![t] = Ended(z, t, phase)]
  BY <1>2 DEF Raise, Return, AdapterInv
<1>4. PICK n \in Nat : n = RetriesSince(z.marker, t)
  BY <1>1, ReportIsNumber
<1>5. PICK x : x = Ended(z, t, phase)
  OBVIOUS
<1>6. x.phase = phase /\ x.report = n /\ x.retried = z.retried
  BY <1>1, <1>2, <1>4, <1>5, EndedReports
<1>7. calls'[t] = x
  BY <1>3, <1>5 DEF AdapterInv
<1> QED
  BY <1>1, <1>2, <1>3, <1>4, <1>5, <1>6, <1>7 DEF Ends, Raise, Return

\* What a page makes of the listing z: x, which is over or asks for `next`.
Turned(z, x, next, t) ==
    /\ x.kind = z.kind /\ x.start = z.start /\ x.limit = z.limit
    /\ x.marker = z.marker /\ x.retried = z.retried
    /\ x.pages = z.pages + 1 /\ x.page = next
    /\ x.items = Cut(z, z.items \o Items(z.page))
    /\ x.phase \in {"returned", "raised"} => x.report = RetriesSince(z.marker, t)
    /\ \/ /\ x.phase = "returned"
          /\ LimitReached(z, z.items \o Items(z.page)) \/ next = NoPage
       \/ x.phase = "raised"
       \/ /\ x.phase = "returned" /\ x.pages >= MaxPages
       \/ /\ x.phase = "token" /\ x.pages < MaxPages /\ next # NoPage
          /\ next \notin z.seen /\ x.seen = z.seen \cup {next}
          /\ ~LimitReached(z, z.items \o Items(z.page))

\* What remains of a call whose workflow ends.
LEMMA EndedKeeps ==
    ASSUME NEW y \in Call, NEW t, NEW phase
    PROVE  /\ Ended(y, t, phase).kind = y.kind /\ Ended(y, t, phase).start = y.start
           /\ Ended(y, t, phase).limit = y.limit /\ Ended(y, t, phase).marker = y.marker
           /\ Ended(y, t, phase).retried = y.retried /\ Ended(y, t, phase).pages = y.pages
           /\ Ended(y, t, phase).page = y.page /\ Ended(y, t, phase).items = y.items
           /\ Ended(y, t, phase).phase = phase
           /\ Ended(y, t, phase).report = RetriesSince(y.marker, t)
<1>1. PICK n : n = RetriesSince(y.marker, t)
  OBVIOUS
<1>2. PICK x : x = [y EXCEPT !.phase = phase, !.report = n, !.token = NoToken,
                             !.answer = "none", !.attempt = 1, !.again = 0, !.denied = 0]
  OBVIOUS
<1>3. /\ x.kind = y.kind /\ x.start = y.start /\ x.limit = y.limit /\ x.marker = y.marker
      /\ x.retried = y.retried /\ x.pages = y.pages /\ x.page = y.page /\ x.items = y.items
      /\ x.phase = phase /\ x.report = n
  BY <1>2 DEF Call
<1> QED
  BY <1>1, <1>2, <1>3 DEF Ended

\* A page that has come turns the listing like that and extends the chain.
LEMMA PageSteps ==
    ASSUME AdapterInv, NEW t \in Thread, PageFetched(t)
    PROVE  \E next \in (Page \ {FirstPage}) \cup {NoPage} : \E x :
              /\ calls' = [calls EXCEPT ![t] = x]
              /\ Turned(calls[t], x, next, t)
              /\ calls[t].page \in DOMAIN chain => next = chain[calls[t].page]
              /\ chain' = [p \in DOMAIN chain \cup {calls[t].page} |->
                              IF p = calls[t].page THEN next ELSE chain[p]]
<1>1. Sound(calls[t], cached, accepted) /\ calls[t].phase = "answered"
  BY DEF AdapterInv, PageFetched, Answered
<1>2. PICK z \in Call : z = calls[t]
  BY <1>1 DEF Sound
<1>3. z.page \in Page
  BY <1>1, <1>2 DEF Sound
<1>4. PICK items : items = z.items \o Items(z.page)
  OBVIOUS
<1>5. PICK next \in (Page \ {FirstPage}) \cup {NoPage} :
        /\ z.page \in DOMAIN chain => next = chain[z.page]
        /\ chain' = [p \in DOMAIN chain \cup {z.page} |-> IF p = z.page THEN next ELSE chain[p]]
        /\ \E y : /\ y = [z EXCEPT !.pages = @ + 1, !.items = Cut(z, items), !.page = next]
                 /\ calls' = [calls EXCEPT ![t] = AfterPage(z, items, next, y, t)]
  BY <1>2, <1>4 DEF PageFetched, AfterPage
<1>y. PICK y : /\ y = [z EXCEPT !.pages = @ + 1, !.items = Cut(z, items), !.page = next]
               /\ calls' = [calls EXCEPT ![t] = AfterPage(z, items, next, y, t)]
  BY <1>5
<1>6. PICK its, n : n \in Nat /\ its = Cut(z, items) /\ n = z.pages + 1
  BY <1>2 DEF Call
<1>7. its \in Seq(Page \X (1..PageSize))
  BY <1>2, <1>3, <1>4, <1>6, PageItems
<1>8. y = [z EXCEPT !.pages = n, !.items = its, !.page = next]
  BY <1>y, <1>6
<1>9. /\ y \in Call /\ y.page = next /\ y.seen = z.seen /\ y.items = its /\ y.pages = n
      /\ y.kind = z.kind /\ y.start = z.start /\ y.limit = z.limit
      /\ y.marker = z.marker /\ y.retried = z.retried
  <2>1. y \in Call
    BY <1>2, <1>6, <1>7, <1>8 DEF Call
  <2>2. /\ y.page = next /\ y.seen = z.seen /\ y.items = its /\ y.pages = n
        /\ y.kind = z.kind /\ y.start = z.start /\ y.limit = z.limit
        /\ y.marker = z.marker /\ y.retried = z.retried
    BY <1>2, <1>8 DEF Call
  <2> QED
    BY <2>1, <2>2
<1>10. PICK x : x = AfterPage(z, items, next, y, t)
  OBVIOUS
<1>11. ASSUME LimitReached(z, items) \/ next = NoPage
       PROVE  Turned(z, x, next, t)
  <2>1. x = Ended(y, t, "returned")
    BY <1>10, <1>11 DEF AfterPage
  <2> QED
    BY <1>4, <1>6, <1>9, <1>11, <2>1, EndedKeeps DEF Turned
<1>12. ASSUME ~LimitReached(z, items) /\ next # NoPage /\ next \in z.seen
       PROVE  Turned(z, x, next, t)
  <2>1. x = Ended(y, t, "raised")
    BY <1>10, <1>12 DEF AfterPage, Repeated
  <2> QED
    BY <1>4, <1>6, <1>9, <1>12, <2>1, EndedKeeps DEF Turned
<1>13. ASSUME ~LimitReached(z, items) /\ next # NoPage /\ next \notin z.seen /\ n >= MaxPages
       PROVE  Turned(z, x, next, t)
  <2>1. PICK v : v = [y EXCEPT !.seen = @ \cup {next}]
    OBVIOUS
  <2>2. /\ v \in Call /\ v.page = next /\ v.items = its /\ v.pages = n
        /\ v.kind = z.kind /\ v.start = z.start /\ v.limit = z.limit
        /\ v.marker = z.marker /\ v.retried = z.retried
    BY <1>9, <1>13, <2>1 DEF Call
  <2>3. x = Ended(v, t, "returned")
    BY <1>9, <1>10, <1>13, <2>1 DEF AfterPage, Repeated
  <2> QED
    BY <1>4, <1>6, <1>13, <2>2, <2>3, EndedKeeps DEF Turned
<1>14. ASSUME ~LimitReached(z, items) /\ next # NoPage /\ next \notin z.seen /\ ~(n >= MaxPages)
       PROVE  Turned(z, x, next, t)
  <2>0. PICK seen \in SUBSET Page : seen = z.seen \cup {next}
    BY <1>9, <1>14 DEF Call
  <2>1. x = [TokenWanted(y) EXCEPT !.attempt = 1, !.denied = 0, !.seen = @ \cup {next}]
    BY <1>9, <1>10, <1>14 DEF AfterPage, Repeated
  <2>2. x = [y EXCEPT !.phase = "token", !.token = NoToken, !.answer = "none",
                      !.attempt = 1, !.denied = 0, !.seen = seen]
    BY <1>9, <2>0, <2>1 DEF TokenWanted, Call
  <2>3. /\ x.page = next /\ x.items = its /\ x.pages = n /\ x.phase = "token" /\ x.seen = seen
        /\ x.kind = z.kind /\ x.start = z.start /\ x.limit = z.limit
        /\ x.marker = z.marker /\ x.retried = z.retried
    BY <1>9, <2>2 DEF Call
  <2>4. n < MaxPages
    BY <1>6, <1>14, BoundAssumption
  <2> QED
    <3>1. /\ x.phase = "token" /\ x.pages < MaxPages /\ next # NoPage
          /\ next \notin z.seen /\ x.seen = z.seen \cup {next}
          /\ ~LimitReached(z, z.items \o Items(z.page))
      BY <1>4, <1>14, <2>0, <2>3, <2>4
    <3>2. x.phase \notin {"returned", "raised"}
      BY <3>1
    <3> QED
      BY <1>4, <1>6, <2>3, <3>1, <3>2 DEF Turned
<1>15. Turned(z, x, next, t)
  BY <1>11, <1>12, <1>13, <1>14
<1>16. calls' = [calls EXCEPT ![t] = x]
  BY <1>y, <1>10
<1>17. Turned(calls[t], x, next, t)
  BY <1>2, <1>15
<1>18. /\ calls[t].page \in DOMAIN chain => next = chain[calls[t].page]
       /\ chain' = [p \in DOMAIN chain \cup {calls[t].page} |->
                       IF p = calls[t].page THEN next ELSE chain[p]]
  BY <1>2, <1>5
<1>19. next \in (Page \ {FirstPage}) \cup {NoPage}
  OBVIOUS
<1> QED
  BY <1>16, <1>17, <1>18, <1>19

\* A workflow begins with nothing to report.
LEMMA StartIsHonest ==
    ASSUME AdapterInv, ReportInv, NEW t \in Thread, StartList(t) \/ StartCases(t) \/ StartWrite(t)
    PROVE  ReportInv'
<1>1. PICK kind \in Kind, start \in Page, limit \in Limits : Start(t, kind, start, limit)
  BY IdleIsCall, PageAssumption DEF StartList, StartCases, StartWrite, Kind
<1>2. PICK x : x = [Idle EXCEPT !.kind = kind, !.phase = "token", !.marker = seq,
                                !.start = start, !.page = start, !.limit = limit]
  OBVIOUS
<1>3. /\ x.phase = "token" /\ x.marker = seq /\ x.retried = 0
      /\ seq \in Nat /\ LogIsDense(log, seq)
  BY <1>2 DEF Idle, AdapterInv, RestInv
<1>4. calls[t].phase = "idle" /\ written[t] = 0
  BY <1>1 DEF Start, ReportInv, Honest
<1>5. RetriedAt(log, seq, t) = {}
  <2>1. \A s \in RetriedAt(log, seq, t) : s \in Int /\ s <= seq /\ s > seq
    BY <1>3, NumbersAreBounded
  <2>2. \A s \in RetriedAt(log, seq, t) : FALSE
    BY <1>3, <2>1
  <2> QED
    BY <2>2
<1>6. Cardinality(RetriedAt(log, seq, t)) = 0
  BY <1>5, FS_EmptySet
<1>7. Honest(x, t, log, seq, written[t])
  BY <1>3, <1>4, <1>6 DEF Honest
<1>8. calls' = [calls EXCEPT ![t] = x] /\ UNCHANGED <<log, seq, written>>
  BY <1>1, <1>2 DEF Start
<1> QED
  BY <1>7, <1>8, QuietReport

\* Whatever a request does but retry: what is counted stays.
LEMMA RequestIsHonest ==
    ASSUME AdapterInv, ReportInv, NEW t \in Thread,
           GetToken(t) \/ Send(t) \/ TryNewToken(t) \/ StartOver(t)
    PROVE  ReportInv'
<1>1. PICK y \in Call : y = calls[t]
  BY DEF AdapterInv, Sound
<1>2. PICK n \in Nat : n = written[t]
  BY DEF AdapterInv, RestInv
<1>3. Honest(y, t, log, seq, n) /\ written \in [Thread -> Nat]
  BY <1>1, <1>2 DEF ReportInv, AdapterInv, RestInv
<1>4. CASE GetToken(t)
  <2>1. PICK x : x = [y EXCEPT !.phase = "send", !.token = cached']
    OBVIOUS
  <2>2. x.phase = "send" /\ x.marker = y.marker /\ x.retried = y.retried /\ x.kind = y.kind
    BY <2>1 DEF Call
  <2>3. calls' = [calls EXCEPT ![t] = x] /\ y.phase = "token" /\ UNCHANGED <<log, seq, written>>
    BY <1>1, <1>4, <2>1 DEF GetToken, AdapterInv
  <2>4. Honest(x, t, log, seq, n)
    BY <1>3, <2>2, <2>3, GoesOnHonestly DEF Working
  <2> QED
    BY <1>2, <2>3, <2>4, QuietReport
<1>5. CASE Send(t)
  <2>1. PICK answer \in Answer, runs \in {0, 1} :
          /\ answer = "denied" => runs = 0
          /\ answer = "internal" => y.kind = "cases"
          /\ calls' = [calls EXCEPT ![t].phase = "answered", ![t].answer = answer]
          /\ written' = IF y.kind = "write" THEN [written EXCEPT ![t] = @ + runs] ELSE written
    BY <1>1, <1>5 DEF Send
  <2>2. PICK x : x = [y EXCEPT !.phase = "answered", !.answer = answer]
    OBVIOUS
  <2>3. /\ x.phase = "answered" /\ x.marker = y.marker /\ x.retried = y.retried
        /\ x.kind = y.kind /\ x.answer = answer
    BY <2>2 DEF Call
  <2>4. /\ calls' = [calls EXCEPT ![t] = x] /\ y.phase = "send" /\ UNCHANGED <<log, seq>>
        /\ \A u \in Thread \ {t} : written'[u] = written[u]
    BY <1>1, <1>3, <1>5, <2>1, <2>2 DEF Send, AdapterInv
  <2>5. PICK m \in Nat : m = written'[t] /\ m <= n + 1 /\ (answer = "denied" => m = n)
    BY <1>2, <1>3, <2>1
  <2>6. Honest(x, t, log, seq, m)
    BY <1>3, <2>1, <2>3, <2>4, <2>5, GoesOnHonestly DEF Working
  <2> QED
    BY <2>4, <2>5, <2>6, QuietReport
<1>6. CASE TryNewToken(t)
  <2>1. PICK k, a : k = y.attempt + 1 /\ a = accepted
    OBVIOUS
  <2>2. PICK x : x = [y EXCEPT !.phase = "token", !.token = NoToken, !.answer = "none",
                               !.attempt = k, !.denied = a]
    OBVIOUS
  <2>3. x.phase = "token" /\ x.marker = y.marker /\ x.retried = y.retried /\ x.kind = y.kind
    BY <2>2 DEF Call
  <2>4. /\ calls' = [calls EXCEPT ![t] = x] /\ y.phase = "answered" /\ y.answer = "denied"
        /\ UNCHANGED <<log, seq, written>>
    BY <1>1, <1>6, <2>1, <2>2 DEF TryNewToken, NextAttempt, TokenWanted, Answered, Call
  <2>5. Honest(x, t, log, seq, n)
    BY <1>3, <2>3, <2>4, GoesOnHonestly DEF Working
  <2> QED
    BY <1>2, <2>4, <2>5, QuietReport
<1>7. CASE StartOver(t)
  <2>1. PICK k : k = y.again + 1
    OBVIOUS
  <2>2. PICK x : x = [y EXCEPT !.phase = "token", !.token = NoToken, !.answer = "none",
                               !.attempt = 1, !.again = k]
    OBVIOUS
  <2>3. x.phase = "token" /\ x.marker = y.marker /\ x.retried = y.retried /\ x.kind = y.kind
    BY <2>2 DEF Call
  <2>4. /\ calls' = [calls EXCEPT ![t] = x] /\ y.phase = "answered" /\ y.answer = "internal"
        /\ UNCHANGED <<log, seq, written>>
    BY <1>1, <1>7, <2>1, <2>2 DEF StartOver, Over, TokenWanted, Answered, Call
  <2>5. y.kind # "write"
    BY <1>3, <2>4 DEF Honest
  <2>6. Honest(x, t, log, seq, n)
    BY <1>3, <2>3, <2>4, <2>5, GoesOnHonestly DEF Working
  <2> QED
    BY <1>2, <2>4, <2>6, QuietReport
<1> QED
  BY <1>4, <1>5, <1>6, <1>7

\* A call in progress is honest if its count c is right.
LEMMA HonestBy ==
    ASSUME NEW x, NEW t, NEW entries, NEW last \in Nat, NEW n \in Nat, NEW c,
           x.marker \in Nat, x.retried \in Nat,
           c = Cardinality(RetriedAt(entries, x.marker, t)),
           x.phase # "idle", x.marker <= last, c <= x.retried,
           last - x.marker <= LogSize => c = x.retried,
           x.kind = "write" =>
              n <= x.retried + (IF x.phase = "answered" /\ x.answer # "denied" THEN 1 ELSE 0),
           x.phase = "answered" /\ x.answer = "internal" => x.kind # "write"
    PROVE  Honest(x, t, entries, last, n)
BY DEF Honest

\* One more retry, of u, in the count of t.
LEMMA LoggedCount ==
    ASSUME seq \in Nat, LogIsDense(log, seq), NEW u \in Thread, NEW t \in Thread,
           NEW y \in Call, NEW n, Honest(y, t, log, seq, n), y.phase \in Working,
           NEW one, one = IF u = t THEN 1 ELSE 0
    PROVE  /\ Cardinality(RetriedAt(Logged(log, u), y.marker, t)) <= y.retried + one
           /\ seq + 1 - y.marker <= LogSize =>
                 Cardinality(RetriedAt(Logged(log, u), y.marker, t)) = y.retried + one
<1>1. PICK m \in Nat, k \in Nat : m = y.marker /\ k = y.retried
  BY DEF Call
<1>2. PICK old : old = RetriedAt(log, m, t)
  OBVIOUS
<1>3. PICK new : new = RetriedAt(Logged(log, u), m, t)
  OBVIOUS
<1>4. PICK more : more = NumberOf(u, t) /\ more = IF u = t THEN {seq + 1} ELSE {}
  BY DEF NumberOf
<1>5. /\ m <= seq /\ Cardinality(old) <= k
      /\ seq - m <= LogSize => Cardinality(old) = k
  BY <1>1, <1>2 DEF Honest
<1>6. IsFiniteSet(old) /\ Cardinality(old) \in Nat
  BY <1>2, ReportCounts, FS_CardinalityType
<1>7. seq + 1 \notin old
  BY <1>2, NumbersAreBounded
<1>8. IsFiniteSet(old \cup more) /\ Cardinality(old \cup more) = Cardinality(old) + one
  <2>1. CASE u = t
    BY <1>4, <1>6, <1>7, <2>1, FS_AddElement
  <2>2. CASE u # t
    <3>1. more = {} /\ one = 0
      BY <1>4, <2>2
    <3>2. old \cup {} = old
      OBVIOUS
    <3> QED
      BY <1>6, <3>1, <3>2
  <2> QED
    BY <2>1, <2>2
<1>9. new \subseteq old \cup more /\ (seq + 1 - m <= LogSize => new = old \cup more)
  <2>1. /\ RetriedAt(Logged(log, u), m, t) \subseteq RetriedAt(log, m, t) \cup NumberOf(u, t)
        /\ seq + 1 - m <= LogSize =>
              RetriedAt(Logged(log, u), m, t) = RetriedAt(log, m, t) \cup NumberOf(u, t)
    BY <1>5, LoggedNumbers
  <2> QED
    BY <1>2, <1>3, <1>4, <2>1
<1>10. Cardinality(new) <= Cardinality(old) + one /\ Cardinality(new) \in Nat
  BY <1>8, <1>9, FS_Subset, FS_CardinalityType
<1>11. one \in Nat
  OBVIOUS
<1>12. Cardinality(new) <= k + one
  BY <1>5, <1>6, <1>10, <1>11
<1>13. ASSUME seq + 1 - m <= LogSize PROVE Cardinality(new) = k + one
  <2>1. seq - m <= LogSize
    BY <1>13, BoundAssumption
  <2> QED
    BY <1>5, <1>8, <1>9, <1>13, <2>1
<1> QED
  BY <1>1, <1>3, <1>12, <1>13

\* A retry is counted by the workflow that makes it, and by no other.
LEMMA RetryIsHonest ==
    ASSUME AdapterInv, ReportInv, NEW t \in Thread, Retry(t)
    PROVE  ReportInv'
<1>1. /\ seq \in Nat /\ LogIsDense(log, seq) /\ seq' = seq + 1 /\ log' = Logged(log, t)
      /\ UNCHANGED written /\ written \in [Thread -> Nat]
  BY DEF AdapterInv, RestInv, Retry
<1>2. PICK z \in Call : z = calls[t]
  BY DEF AdapterInv, Sound
<1>3. PICK k, j \in Nat : k = z.attempt + 1 /\ j = z.retried + 1
  BY DEF Call
<1>4. PICK x : x = [z EXCEPT !.phase = "token", !.token = NoToken, !.answer = "none",
                             !.attempt = k, !.retried = j]
  OBVIOUS
<1>5. x.phase = "token" /\ x.marker = z.marker /\ x.retried = z.retried + 1 /\ x.kind = z.kind
  BY <1>3, <1>4 DEF Call
<1>6. calls' = [calls EXCEPT ![t] = x] /\ z.phase = "answered"
  BY <1>2, <1>3, <1>4 DEF Retry, Retried, NextAttempt, TokenWanted, Answered, Call
<1>l. PICK last \in Nat : last = seq + 1
  BY <1>1
<1> SUFFICES ASSUME NEW u \in Thread
             PROVE  Honest(calls'[u], u, Logged(log, t), last, written[u])
  BY <1>1, <1>l DEF ReportInv
<1>7. PICK n \in Nat : n = written[u]
  BY <1>1
<1>8. CASE u = t
  <2>1. Honest(z, t, log, seq, n) /\ z.phase \in Working
    BY <1>2, <1>6, <1>7, <1>8 DEF ReportInv, Working
  <2>2. /\ Cardinality(RetriedAt(Logged(log, t), z.marker, t)) <= z.retried + 1
        /\ seq + 1 - z.marker <= LogSize =>
              Cardinality(RetriedAt(Logged(log, t), z.marker, t)) = z.retried + 1
    BY <1>1, <2>1, LoggedCount
  <2>3. z.marker <= seq /\ z.marker \in Nat /\ z.retried \in Nat
    BY <2>1 DEF Honest, Call
  <2>4. z.kind = "write" => n <= z.retried + 1
    BY <2>1, <2>3 DEF Honest
  <2>5. z.marker <= last
    BY <1>1, <1>l, <2>3
  <2>6. PICK c : c = Cardinality(RetriedAt(Logged(log, t), z.marker, t))
    OBVIOUS
  <2>7. c <= z.retried + 1 /\ (last - z.marker <= LogSize => c = z.retried + 1)
    BY <1>1, <1>l, <2>2, <2>3, <2>6
  <2>8. x.phase # "idle" /\ x.phase # "answered" /\ x.retried + 0 = z.retried + 1
    BY <1>5, <2>3
  <2>9. Honest(x, t, Logged(log, t), last, n)
    <3>1. x.marker <= last /\ (x.kind = "write" => n <= x.retried + 0)
      BY <1>5, <2>3, <2>4, <2>5
    <3>2. c <= x.retried /\ c = Cardinality(RetriedAt(Logged(log, t), x.marker, t))
      BY <1>5, <2>6, <2>7
    <3>3. last - x.marker <= LogSize => c = x.retried
      BY <1>5, <2>7
    <3> QED
      BY <1>5, <2>3, <2>8, <3>1, <3>2, <3>3, HonestBy
  <2> QED
    BY <1>6, <1>7, <1>8, <2>9 DEF AdapterInv
<1>9. CASE u # t
  <2>1. PICK y \in Call : y = calls[u] /\ y = calls'[u]
    BY <1>6, <1>9 DEF AdapterInv, Sound
  <2>2. Honest(y, u, log, seq, n)
    BY <1>7, <2>1 DEF ReportInv
  <2>3. CASE y.phase \in Working
    <3>1. PICK c : c = Cardinality(RetriedAt(Logged(log, t), y.marker, u))
      OBVIOUS
    <3>2. y.marker <= seq /\ y.marker \in Nat /\ y.retried \in Nat /\ y.phase # "idle"
      BY <2>2, <2>3 DEF Honest, Call, Working
    <3>3. c <= y.retried + 0 /\ (seq + 1 - y.marker <= LogSize => c = y.retried + 0)
      BY <1>1, <1>9, <2>2, <2>3, <3>1, LoggedCount
    <3>4. c <= y.retried /\ (seq + 1 - y.marker <= LogSize => c = y.retried)
      BY <3>2, <3>3
    <3>5. y.marker <= last /\ (last - y.marker <= LogSize => c = y.retried)
      BY <1>1, <1>l, <3>2, <3>4
    <3> QED
      <4>1. Honest(y, u, Logged(log, t), last, n)
        <5>1. /\ y.phase = "answered" /\ y.answer = "internal" => y.kind # "write"
              /\ y.kind = "write" =>
                    n <= y.retried + (IF y.phase = "answered" /\ y.answer # "denied" THEN 1 ELSE 0)
          BY <2>2, <2>3 DEF Honest
        <5> QED
          BY <3>1, <3>2, <3>4, <3>5, <5>1, HonestBy
      <4> QED
        BY <1>7, <2>1, <4>1
  <2>4. CASE y.phase \notin Working
    BY <1>7, <2>1, <2>2, <2>4 DEF Honest
  <2> QED
    BY <2>3, <2>4
<1> QED
  BY <1>8, <1>9

\* A page that has come ends the listing or lets it go on.
LEMMA PageEnding ==
    ASSUME AdapterInv, NEW t \in Thread, PageFetched(t)
    PROVE  \/ Ends(t)
           \/ calls'[t].phase = "token"
<1>1. PICK next \in (Page \ {FirstPage}) \cup {NoPage} : \E x :
        calls' = [calls EXCEPT ![t] = x] /\ Turned(calls[t], x, next, t)
  BY PageSteps
<1>2. PICK x : calls' = [calls EXCEPT ![t] = x] /\ Turned(calls[t], x, next, t)
  BY <1>1
<1>3. calls'[t] = x /\ calls[t].phase = "answered" /\ UNCHANGED <<log, seq, written>>
  BY <1>2 DEF AdapterInv, PageFetched, Answered
<1>4. CASE x.phase = "token"
  BY <1>3, <1>4
<1>5. CASE x.phase \in {"returned", "raised"}
  BY <1>2, <1>3, <1>5 DEF Turned, Ends
<1> QED
  BY <1>2, <1>4, <1>5 DEF Turned

\* The end of a workflow and the next page leave the counts as they are.
LEMMA EndIsHonest ==
    ASSUME AdapterInv, ReportInv, NEW t \in Thread, Raise(t) \/ Return(t) \/ PageFetched(t)
    PROVE  ReportInv'
<1>1. CASE Raise(t) \/ Return(t)
  <2>1. PICK x : x = calls'[t] /\ calls' = [calls EXCEPT ![t] = x]
    BY <1>1, EndingSteps
  <2>2. x.phase \in {"returned", "raised"} /\ UNCHANGED <<log, seq, written>>
    BY <1>1, <2>1, EndingSteps DEF Ends
  <2>3. Honest(x, t, log, seq, written[t])
    BY <2>2, EndsHonestly
  <2> QED
    BY <2>1, <2>2, <2>3, QuietReport
<1>2. CASE PageFetched(t)
  <2>1. PICK next \in (Page \ {FirstPage}) \cup {NoPage} : \E x :
          calls' = [calls EXCEPT ![t] = x] /\ Turned(calls[t], x, next, t)
    BY <1>2, PageSteps
  <2>2. PICK x : calls' = [calls EXCEPT ![t] = x] /\ Turned(calls[t], x, next, t)
    BY <2>1
  <2>3. /\ UNCHANGED <<log, seq, written>> /\ calls[t].phase = "answered"
        /\ calls[t].kind = "list"
    BY <1>2 DEF PageFetched, Answered
  <2>4. PICK y \in Call, n \in Nat : y = calls[t] /\ n = written[t]
    BY DEF AdapterInv, RestInv, Sound
  <2>5. Honest(y, t, log, seq, n)
    BY <2>4 DEF ReportInv
  <2>6. CASE x.phase = "token"
    <3>1. x.marker = y.marker /\ x.retried = y.retried /\ x.kind = "list" /\ y.kind = "list"
      BY <2>2, <2>3, <2>4 DEF Turned
    <3>2. Honest(x, t, log, seq, n)
      BY <2>3, <2>4, <2>5, <2>6, <3>1, GoesOnHonestly DEF Working
    <3> QED
      BY <2>2, <2>3, <2>4, <3>2, QuietReport
  <2>7. CASE x.phase \in {"returned", "raised"}
    <3>1. Honest(x, t, log, seq, n)
      BY <2>7, EndsHonestly
    <3> QED
      BY <2>2, <2>3, <2>4, <3>1, QuietReport
  <2> QED
    BY <2>2, <2>6, <2>7 DEF Turned
<1> QED
  BY <1>1, <1>2

\* The token the service accepts changes nothing that is counted.
LEMMA ReportInvStep == AdapterInv /\ ReportInv /\ [Next]_vars => ReportInv'
<1> SUFFICES ASSUME AdapterInv, ReportInv, [Next]_vars PROVE ReportInv'
  OBVIOUS
<1>1. CASE \E t \in Thread : StartList(t) \/ StartCases(t) \/ StartWrite(t)
  BY <1>1, StartIsHonest
<1>2. CASE \E t \in Thread : Request(t)
  BY <1>2, RequestIsHonest, RetryIsHonest, EndIsHonest DEF Request
<1>3. CASE Expire \/ UNCHANGED vars
  BY <1>3 DEF Expire, vars, ReportInv
<1> QED
  BY <1>1, <1>2, <1>3 DEF Next

\* Nobody has begun.
LEMMA ReportInvInit == Init => ReportInv
BY DEF Init, Idle, ReportInv, Honest, Working

\* The invariants hold throughout.
LEMMA ReportInvHolds == Spec => [](AdapterInv /\ ReportInv)
BY AdapterInvInit, AdapterInvStep, ReportInvInit, ReportInvStep, PTL DEF Spec

\* What a request does before a page has come does not touch the listing.
LEMMA RequestKeepsListing ==
    ASSUME AdapterInv, NEW t \in Thread,
           GetToken(t) \/ Send(t) \/ TryNewToken(t) \/ Retry(t) \/ StartOver(t)
    PROVE  \E x : /\ calls' = [calls EXCEPT ![t] = x] /\ chain' = chain
                  /\ calls[t].phase \in Working /\ x.phase \in Working
                  /\ x.kind = calls[t].kind /\ x.start = calls[t].start
                  /\ x.limit = calls[t].limit /\ x.page = calls[t].page
                  /\ x.seen = calls[t].seen /\ x.pages = calls[t].pages
                  /\ x.items = calls[t].items
<1>1. PICK y \in Call : y = calls[t]
  BY DEF AdapterInv, Sound
<1> DEFINE Same(x) == /\ x.kind = y.kind /\ x.start = y.start /\ x.limit = y.limit
                      /\ x.page = y.page /\ x.seen = y.seen /\ x.pages = y.pages
                      /\ x.items = y.items /\ x.phase \in Working
<1> SUFFICES /\ chain' = chain /\ y.phase \in Working
             /\ \E x : calls' = [calls EXCEPT ![t] = x] /\ Same(x)
  BY <1>1
<1>2. CASE GetToken(t)
  <2>1. PICK x : x = [y EXCEPT !.phase = "send", !.token = cached']
    OBVIOUS
  <2>2. Same(x)
    BY <2>1 DEF Working, Call
  <2>3. calls' = [calls EXCEPT ![t] = x]
    BY <1>1, <1>2, <2>1 DEF GetToken, AdapterInv
  <2> HIDE DEF Same
  <2> QED
    BY <1>1, <1>2, <2>2, <2>3 DEF GetToken, Working
<1>3. CASE Send(t)
  <2>1. PICK answer : calls' = [calls EXCEPT ![t].phase = "answered", ![t].answer = answer]
    BY <1>3 DEF Send
  <2>2. PICK x : x = [y EXCEPT !.phase = "answered", !.answer = answer]
    OBVIOUS
  <2>3. Same(x)
    BY <2>2 DEF Working, Call
  <2>4. calls' = [calls EXCEPT ![t] = x]
    BY <1>1, <2>1, <2>2 DEF AdapterInv
  <2> HIDE DEF Same
  <2> QED
    BY <1>1, <1>3, <2>3, <2>4 DEF Send, Working
<1>4. CASE TryNewToken(t) \/ Retry(t) \/ StartOver(t)
  <2>1. PICK k, a : k = y.attempt + 1 /\ a = accepted
    OBVIOUS
  <2>2. PICK b, r : b = y.again + 1 /\ r = y.retried + 1
    OBVIOUS
  <2>3. CASE TryNewToken(t)
    <3>1. PICK x : x = [y EXCEPT !.phase = "token", !.token = NoToken, !.answer = "none",
                                 !.attempt = k, !.denied = a]
      OBVIOUS
    <3>2. Same(x)
      BY <3>1 DEF Working, Call
    <3>3. calls' = [calls EXCEPT ![t] = x]
      BY <1>1, <2>1, <2>3, <3>1 DEF TryNewToken, NextAttempt, TokenWanted, Call
    <3> HIDE DEF Same
    <3> QED
      BY <1>1, <2>3, <3>2, <3>3 DEF TryNewToken, Answered, Working
  <2>4. CASE Retry(t)
    <3>1. PICK x : x = [y EXCEPT !.phase = "token", !.token = NoToken, !.answer = "none",
                                 !.attempt = k, !.retried = r]
      OBVIOUS
    <3>2. Same(x)
      BY <3>1 DEF Working, Call
    <3>3. calls' = [calls EXCEPT ![t] = x]
      BY <1>1, <2>1, <2>2, <2>4, <3>1 DEF Retry, Retried, NextAttempt, TokenWanted, Call
    <3> HIDE DEF Same
    <3> QED
      BY <1>1, <2>4, <3>2, <3>3 DEF Retry, Answered, Working
  <2>5. CASE StartOver(t)
    <3>1. PICK x : x = [y EXCEPT !.phase = "token", !.token = NoToken, !.answer = "none",
                                 !.attempt = 1, !.again = b]
      OBVIOUS
    <3>2. Same(x)
      BY <3>1 DEF Working, Call
    <3>3. calls' = [calls EXCEPT ![t] = x]
      BY <1>1, <2>2, <2>5, <3>1 DEF StartOver, Over, TokenWanted, Call
    <3> HIDE DEF Same
    <3> QED
      BY <1>1, <2>5, <3>2, <3>3 DEF StartOver, Answered, Working
  <2> QED
    BY <1>4, <2>3, <2>4, <2>5
<1> QED
  BY <1>2, <1>3, <1>4

\* A step that ends a workflow is one of these.
LEMMA OnlyEndings ==
    ASSUME AdapterInv, [Next]_vars, NEW t \in Thread,
           calls'[t].phase # calls[t].phase, calls'[t].phase \in {"returned", "raised"}
    PROVE  Ends(t)
<1>1. calls'[t] # calls[t]
  OBVIOUS
<1>2. ~ UNCHANGED vars /\ ~ Expire
  BY <1>1 DEF vars, Expire
<1>3. PICK u \in Thread : StartList(u) \/ StartCases(u) \/ StartWrite(u) \/ Request(u)
  BY <1>2 DEF Next
<1>4. \/ \E x : calls' = [calls EXCEPT ![u] = x] /\ x.phase \in Working
      \/ Raise(u) \/ Return(u) \/ PageFetched(u)
  <2>1. CASE StartList(u) \/ StartCases(u) \/ StartWrite(u)
    <3>1. PICK kind, start, limit : Start(u, kind, start, limit)
      BY <2>1 DEF StartList, StartCases, StartWrite
    <3>2. PICK x : x = [Idle EXCEPT !.kind = kind, !.phase = "token", !.marker = seq,
                                    !.start = start, !.page = start, !.limit = limit]
      OBVIOUS
    <3>3. x.phase = "token"
      BY <3>2 DEF Idle
    <3> QED
      BY <3>1, <3>2, <3>3 DEF Start, Working
  <2>2. CASE GetToken(u) \/ Send(u) \/ TryNewToken(u) \/ Retry(u) \/ StartOver(u)
    BY <2>2, RequestKeepsListing
  <2> QED
    BY <1>3, <2>1, <2>2 DEF Request
<1>5. ASSUME NEW x, calls' = [calls EXCEPT ![u] = x] PROVE u = t /\ calls'[t] = x
  BY <1>1, <1>5 DEF AdapterInv
<1>6. CASE \E x : calls' = [calls EXCEPT ![u] = x] /\ x.phase \in Working
  BY <1>5, <1>6 DEF Working
<1>7. CASE Raise(u) \/ Return(u)
  BY <1>5, <1>7, EndingSteps
<1>8. CASE PageFetched(u)
  <2>1. PICK next \in (Page \ {FirstPage}) \cup {NoPage} : \E x : calls' = [calls EXCEPT ![u] = x]
    BY <1>8, PageSteps
  <2>2. u = t
    BY <1>5, <2>1
  <2> QED
    BY <1>8, <2>2, PageEnding
<1> QED
  BY <1>4, <1>6, <1>7, <1>8

\* A workflow never reports a retry it did not make, and reports all of its own as
\* long as the log has had room for those of every thread; a caller that reads the
\* report of a write then knows how often it may have been executed.
THEOREM ReportsAreExact == Spec => ReportIsExact
<1>1. AdapterInv /\ ReportInv /\ [Next]_vars =>
        [\A t \in Thread :
          calls'[t].phase # calls[t].phase /\ calls'[t].phase \in {"returned", "raised"} =>
              /\ calls'[t].report <= calls'[t].retried
              /\ seq - calls[t].marker <= LogSize =>
                    /\ calls'[t].report = calls'[t].retried
                    /\ calls[t].kind = "write" => written'[t] <= 1 + calls'[t].report]_vars
  <2> SUFFICES ASSUME AdapterInv, ReportInv, [Next]_vars, NEW t \in Thread,
                      calls'[t].phase # calls[t].phase, calls'[t].phase \in {"returned", "raised"}
               PROVE  /\ calls'[t].report <= calls'[t].retried
                      /\ seq - calls[t].marker <= LogSize =>
                            /\ calls'[t].report = calls'[t].retried
                            /\ calls[t].kind = "write" => written'[t] <= 1 + calls'[t].report
    OBVIOUS
  <2>1. Ends(t)
    BY OnlyEndings
  <2>2. PICK y \in Call, n \in Nat : y = calls[t] /\ n = written[t]
    BY DEF AdapterInv, RestInv, Sound
  <2>3. Honest(y, t, log, seq, n) /\ y.phase = "answered"
    BY <2>1, <2>2 DEF ReportInv, Ends
  <2>4. PICK c : c = Cardinality(RetriedAt(log, y.marker, t))
    OBVIOUS
  <2>5. /\ y.retried \in Nat /\ c <= y.retried
        /\ seq - y.marker <= LogSize => c = y.retried
        /\ y.kind = "write" => n <= y.retried + 1
    BY <2>2, <2>3, <2>4 DEF Honest, Working, Call
  <2>6. calls'[t].report = c /\ calls'[t].retried = y.retried /\ written'[t] = n
    BY <2>1, <2>2, <2>4, ReportCounts DEF Ends, AdapterInv, RestInv
  <2> QED
    BY <2>2, <2>5, <2>6
<1> QED
  BY <1>1, ReportInvHolds, PTL DEF Spec, ReportIsExact

-----------------------------------------------------------------------------
(* Induction, over a set of numbers instead of an operator, and division *)

\* A set of numbers has a least one.
LEMMA LeastNumber ==
    ASSUME NEW T \in SUBSET Nat, T # {}
    PROVE  \E n \in T : \A m \in T : n <= m
<1> DEFINE Below(n) == 1..n
           Belows == {Below(n) : n \in T}
<1>1. ASSUME NEW n \in Nat PROVE Below(n) \in FiniteSubsetsOf(Nat)
  <2>1. IsFiniteSet(Below(n))
    BY <1>1, FS_Interval
  <2> QED
    BY <2>1 DEF FiniteSubsetsOf
<1>2. Belows \subseteq FiniteSubsetsOf(Nat) /\ Belows # {}
  BY <1>1
<1>3. PICK b \in Belows : \A c \in Belows : <<c, b>> \notin StrictSubsetOrdering(Nat)
  <2> HIDE DEF Belows
  <2> QED
    BY <1>2, FS_StrictSubsetOrderingWellFounded, WFMin
<1>4. PICK n \in T : b = Below(n)
  BY <1>3
<1>5. ASSUME NEW m \in T, ~(n <= m) PROVE FALSE
  <2>1. Below(m) \in Belows /\ Below(m) \subseteq Below(n) /\ Below(m) # Below(n)
    <3>1. n \in Below(n) /\ n \notin Below(m)
      BY <1>5
    <3> QED
      BY <1>5, <3>1
  <2>2. <<Below(m), Below(n)>> \in StrictSubsetOrdering(Nat)
    BY <2>1 DEF StrictSubsetOrdering
  <2> QED
    BY <1>3, <1>4, <2>1, <2>2
<1> QED
  BY <1>5

\* What holds of 0, and of the successor of each number it holds of, holds of all.
LEMMA SetInduction ==
    ASSUME NEW S, 0 \in S, \A n \in Nat : n \in S => n + 1 \in S
    PROVE  Nat \subseteq S
<1> SUFFICES ASSUME Nat \ S # {} PROVE FALSE
  OBVIOUS
<1>1. PICK n \in Nat \ S : \A m \in Nat \ S : n <= m
  BY LeastNumber
<1>2. n # 0 /\ n - 1 \in Nat /\ n - 1 + 1 = n /\ ~(n <= n - 1)
  BY <1>1
<1>3. n - 1 \in S
  BY <1>1, <1>2
<1> QED
  BY <1>2, <1>3

\* The items of n pages and of one more.
LEMMA PagesTimesSize ==
    ASSUME NEW n \in Nat
    PROVE  /\ PageSize * n \in Nat /\ PageSize * (n + 1) = PageSize * n + PageSize
           /\ PageSize * 0 = 0
BY BoundAssumption

\* Which page an item is on, and where.
LEMMA PageOfItem ==
    ASSUME NEW n \in Nat, NEW r \in 0..(PageSize - 1)
    PROVE  /\ (PageSize * n + r) \div PageSize = n
           /\ (PageSize * n + r) % PageSize = r
BY BoundAssumption

\* An item of the first n pages is on one of them.
LEMMA ItemIsOnPage ==
    ASSUME NEW n \in Nat, NEW k \in Nat, k < PageSize * n
    PROVE  k \div PageSize \in 0..(n - 1)
<1>1. PICK p \in Nat \ {0} : p = PageSize
  BY BoundAssumption
<1>2. PICK q \in Int, r \in 0..(p - 1) : q = k \div p /\ k = p * q + r
  BY <1>1
<1>3. q >= 0
  BY <1>1, <1>2
<1>4. q < n
  BY <1>1, <1>2
<1> QED
  BY <1>1, <1>2, <1>3, <1>4

-----------------------------------------------------------------------------
(* The pages a listing visits *)

\* What follows in the walk along the chain c.
After(p, c) == IF p = NoPage THEN NoPage ELSE c[p]

\* f is the walk from s along c, as far as n.
IsWalk(f, n, s, c) == f = [i \in 1..n |-> IF i = 1 THEN s ELSE After(f[i - 1], c)]

\* There is a walk of any length.
LEMMA WalkExists ==
    ASSUME NEW s, NEW c, NEW n \in Nat
    PROVE  \E f : IsWalk(f, n + 1, s, c)
<1> DEFINE S == {m \in Nat : \E f : IsWalk(f, m + 1, s, c)}
<1>1. 0 \in S
  <2>1. PICK f : f = [i \in 1..1 |-> s]
    OBVIOUS
  <2>2. IsWalk(f, 0 + 1, s, c)
    BY <2>1 DEF IsWalk
  <2> QED
    BY <2>2
<1>2. ASSUME NEW m \in Nat, m \in S PROVE m + 1 \in S
  <2>1. PICK f : IsWalk(f, m + 1, s, c)
    BY <1>2
  <2>2. PICK g : g = [i \in 1..(m + 2) |-> IF i = m + 2 THEN After(f[m + 1], c) ELSE f[i]]
    OBVIOUS
  <2>3. ASSUME NEW i \in 1..(m + 2)
        PROVE  g[i] = IF i = 1 THEN s ELSE After(g[i - 1], c)
    <3>1. CASE i = m + 2
      BY <2>2, <3>1
    <3>2. CASE i # m + 2
      <4>1. i \in 1..(m + 1) /\ (i # 1 => i - 1 \in 1..(m + 2) /\ i - 1 # m + 2)
        BY <3>2
      <4>2. f[i] = IF i = 1 THEN s ELSE After(f[i - 1], c)
        BY <2>1, <4>1 DEF IsWalk
      <4>3. g[i] = f[i] /\ (i # 1 => g[i - 1] = f[i - 1])
        BY <2>2, <3>2, <4>1
      <4> QED
        BY <4>2, <4>3
    <3> QED
      BY <3>1, <3>2
  <2>4. g = [i \in 1..(m + 2) |-> IF i = 1 THEN s ELSE After(g[i - 1], c)]
    BY <2>2, <2>3
  <2>5. IsWalk(g, (m + 1) + 1, s, c)
    <3>1. (m + 1) + 1 = m + 2
      OBVIOUS
    <3> QED
      BY <2>4, <3>1 DEF IsWalk
  <2> QED
    BY <2>5
<1> HIDE DEF S
<1>3. Nat \subseteq S
  BY <1>1, <1>2, SetInduction
<1> QED
  BY <1>3 DEF S

\* The pages that are visited are such a walk.
LEMMA VisitedIsWalk ==
    ASSUME NEW t
    PROVE  IsWalk(Visited(t), MaxPages + 1, calls[t].start, chain)
<1>1. PICK f : IsWalk(f, MaxPages + 1, calls[t].start, chain)
  BY WalkExists, BoundAssumption
<1> DEFINE walk == CHOOSE g : g = [i \in 1..(MaxPages + 1) |->
                                     IF i = 1 THEN calls[t].start
                                     ELSE IF g[i - 1] = NoPage THEN NoPage ELSE chain[g[i - 1]]]
<1>2. walk = [i \in 1..(MaxPages + 1) |->
                IF i = 1 THEN calls[t].start
                ELSE IF walk[i - 1] = NoPage THEN NoPage ELSE chain[walk[i - 1]]]
  <2>1. \E g : g = [i \in 1..(MaxPages + 1) |->
                      IF i = 1 THEN calls[t].start
                      ELSE IF g[i - 1] = NoPage THEN NoPage ELSE chain[g[i - 1]]]
    BY <1>1 DEF IsWalk, After
  <2> QED
    BY <2>1
<1>3. Visited(t) = walk
  BY DEF Visited
<1> QED
  BY <1>2, <1>3 DEF IsWalk, After

\* The item that is the k-th of the pages of w.
ItemAt(w, k) == <<w[((k - 1) \div PageSize) + 1], ((k - 1) % PageSize) + 1>>

\* w is the way the listing x has come along the chain c: its pages, all of them
\* different from the second on, and the one that follows.
Trail(w, x, c) ==
    /\ DOMAIN w = 1..(x.pages + 1) /\ w[1] = x.start /\ w[x.pages + 1] = x.page
    /\ \A i \in 1..x.pages : w[i] \in DOMAIN c /\ w[i + 1] = c[w[i]]
    /\ \A i, j \in 2..x.pages : w[i] = w[j] => i = j

\* It has their items, or as many as were wanted.
Collected(w, x) ==
    /\ Len(x.items) = IF x.limit # NoLimit /\ x.limit < PageSize * x.pages THEN x.limit
                      ELSE PageSize * x.pages
    /\ \A k \in 1..Len(x.items) : x.items[k] = ItemAt(w, k)

\* As long as it goes on it wants more, and has not asked for a page twice.
GoesOn(w, x) ==
    x.phase \in Working =>
        /\ x.pages < MaxPages
        /\ x.seen = {w[i] : i \in 2..(x.pages + 1)}
        /\ \A i, j \in 2..(x.pages + 1) : w[i] = w[j] => i = j
        /\ x.limit # NoLimit => PageSize * x.pages < x.limit

\* It stops for want of pages, at the cap or at the limit.
Stops(x) ==
    x.phase = "returned" =>
        /\ x.pages <= MaxPages
        /\ x.page = NoPage \/ x.pages = MaxPages \/ Len(x.items) = x.limit

ListingOK(x, c) ==
    x.kind = "list" /\ x.phase \in Working \cup {"returned"} =>
        /\ \E w : Trail(w, x, c) /\ Collected(w, x) /\ GoesOn(w, x)
        /\ Stops(x)

ListInv == \A t \in Thread : ListingOK(calls[t], chain)

\* The chain only grows.
LEMMA TrailStays ==
    ASSUME NEW w, NEW x, NEW c, NEW d, Trail(w, x, c),
           \A p \in DOMAIN c : p \in DOMAIN d /\ d[p] = c[p]
    PROVE  Trail(w, x, d)
BY DEF Trail

\* A listing that is on its way with what it has.
LEMMA SameListing ==
    ASSUME NEW y, NEW x, NEW c, NEW d, ListingOK(y, c), y.phase \in Working,
           \A p \in DOMAIN c : p \in DOMAIN d /\ d[p] = c[p],
           x.phase \in Working, x.kind = y.kind, x.start = y.start, x.limit = y.limit,
           x.page = y.page, x.seen = y.seen, x.pages = y.pages, x.items = y.items
    PROVE  ListingOK(x, d)
<1> SUFFICES ASSUME y.kind = "list"
             PROVE  (\E w : Trail(w, x, d) /\ Collected(w, x) /\ GoesOn(w, x)) /\ Stops(x)
  BY DEF ListingOK
<1>1. PICK w : Trail(w, y, c) /\ Collected(w, y) /\ GoesOn(w, y)
  BY DEF ListingOK
<1>2. Trail(w, y, d)
  BY <1>1, TrailStays
<1>3. Trail(w, x, d)
  BY <1>2 DEF Trail
<1>4. Collected(w, x) /\ GoesOn(w, x)
  BY <1>1 DEF Collected, GoesOn
<1>5. Stops(x)
  BY DEF Stops, Working
<1> QED
  BY <1>3, <1>4, <1>5

\* One that has not gone on.
LEMMA ListingStays ==
    ASSUME NEW x, NEW c, NEW d, ListingOK(x, c),
           \A p \in DOMAIN c : p \in DOMAIN d /\ d[p] = c[p]
    PROVE  ListingOK(x, d)
<1> SUFFICES ASSUME x.kind = "list", x.phase \in Working \cup {"returned"}
             PROVE  (\E w : Trail(w, x, d) /\ Collected(w, x) /\ GoesOn(w, x)) /\ Stops(x)
  BY DEF ListingOK
<1>1. PICK w : Trail(w, x, c) /\ Collected(w, x) /\ GoesOn(w, x)
  BY DEF ListingOK
<1>2. Stops(x) /\ Trail(w, x, d)
  BY <1>1, TrailStays DEF ListingOK
<1> QED
  BY <1>1, <1>2

\* A listing that is over or no listing.
LEMMA NoListing ==
    ASSUME NEW x, NEW c, x.kind # "list" \/ x.phase \in {"idle", "raised"}
    PROVE  ListingOK(x, c)
BY DEF ListingOK, Working

\* A trail of n + 1 with one more, and the chain with what follows a page.
Longer(w, n, next) == [i \in 1..(n + 2) |-> IF i = n + 2 THEN next ELSE w[i]]
Extended(c, page, next) == [p \in DOMAIN c \cup {page} |-> IF p = page THEN next ELSE c[p]]

\* The trail with one more page.
LEMMA TrailGrows ==
    ASSUME NEW z, NEW x, NEW w, NEW c, NEW next, NEW n \in Nat,
           Trail(w, z, c), n = z.pages,
           z.page \in DOMAIN c => next = c[z.page],
           x.pages = n + 1, x.start = z.start, x.page = next,
           \A i, j \in 2..(n + 1) : w[i] = w[j] => i = j
    PROVE  Trail(Longer(w, n, next), x, Extended(c, z.page, next))
<1> PICK v : /\ v = Longer(w, n, next)
             /\ v = [i \in 1..(n + 2) |-> IF i = n + 2 THEN next ELSE w[i]]
  BY DEF Longer
<1> PICK d : /\ d = Extended(c, z.page, next)
             /\ d = [p \in DOMAIN c \cup {z.page} |-> IF p = z.page THEN next ELSE c[p]]
  BY DEF Extended
<1>1. DOMAIN v = 1..(x.pages + 1) /\ v[1] = x.start /\ v[x.pages + 1] = x.page
  <2>1. w[1] = z.start
    BY DEF Trail
  <2> QED
    BY <2>1
<1>2. ASSUME NEW i \in 1..(n + 1) PROVE v[i] \in DOMAIN d /\ v[i + 1] = d[v[i]]
  <2>1. v[i] = w[i]
    OBVIOUS
  <2>2. CASE i = n + 1
    <3>1. w[i] = z.page /\ v[i + 1] = next
      BY <2>2 DEF Trail
    <3> QED
      BY <2>1, <3>1
  <2>3. CASE i # n + 1
    <3>1. i \in 1..n /\ v[i + 1] = w[i + 1]
      BY <2>3
    <3>2. w[i] \in DOMAIN c /\ w[i + 1] = c[w[i]]
      BY <3>1 DEF Trail
    <3>3. w[i] \in DOMAIN d /\ d[w[i]] = c[w[i]]
      BY <3>2
    <3> QED
      BY <2>1, <3>1, <3>2, <3>3
  <2> QED
    BY <2>2, <2>3
<1>3. ASSUME NEW i \in 2..(n + 1), NEW j \in 2..(n + 1), v[i] = v[j] PROVE i = j
  <2>1. v[i] = w[i] /\ v[j] = w[j]
    OBVIOUS
  <2> QED
    BY <1>3, <2>1
<1>4. Trail(v, x, d)
  BY <1>1, <1>2, <1>3 DEF Trail
<1> QED
  BY <1>4

\* The items are those of n pages of the trail v.
ItemsOf(items, v, n) ==
    /\ items \in Seq(Page \X (1..PageSize)) /\ Len(items) = PageSize * n
    /\ \A k \in 1..Len(items) : items[k] = ItemAt(v, k)

\* The items of one more page are those that come next on the trail.
LEMMA ItemsGrow ==
    ASSUME NEW z \in Call, NEW w, NEW n \in Nat, n = z.pages, z.page \in Page,
           w[n + 1] = z.page, Collected(w, z),
           z.limit # NoLimit => PageSize * n < z.limit, NEW next
    PROVE  ItemsOf(z.items \o Items(z.page), Longer(w, n, next), n + 1)
<1> PICK page \in Page : page = z.page
  OBVIOUS
<1> PICK items : items = z.items \o Items(page)
  OBVIOUS
<1> PICK v : /\ v = Longer(w, n, next)
             /\ v = [i \in 1..(n + 2) |-> IF i = n + 2 THEN next ELSE w[i]]
  BY DEF Longer
<1>1. PICK p \in Nat \ {0} : p = PageSize
  BY BoundAssumption
<1>2. PICK a \in Seq(Page \X (1..PageSize)), b \in Seq(Page \X (1..PageSize)) :
        a = z.items /\ b = Items(page)
  BY PageItems DEF Call
<1>3. PICK m \in Nat : m = PageSize * n /\ m + p = PageSize * (n + 1)
  BY <1>1, PagesTimesSize
<1>4. z.limit # NoLimit => ~(z.limit < m)
  <2>1. z.limit \in Nat \cup {NoLimit}
    BY LimitAssumption DEF Call
  <2> QED
    BY <1>3, <2>1
<1>5. Len(a) = m /\ Len(b) = p /\ \A k \in 1..m : a[k] = ItemAt(w, k)
  <2>1. Len(a) = m
    BY <1>2, <1>3, <1>4 DEF Collected
  <2> QED
    BY <1>1, <1>2, <2>1, PageItems DEF Collected
<1>6. /\ items \in Seq(Page \X (1..PageSize)) /\ Len(items) = m + p
      /\ \A k \in 1..m : items[k] = a[k]
      /\ \A k \in 1..p : items[m + k] = b[k]
  <2>1. items = a \o b
    BY <1>2
  <2>2. a \o b \in Seq(Page \X (1..PageSize))
    OBVIOUS
  <2>3. Len(a \o b) = m + p
    <3>1. Len(a \o b) = Len(a) + Len(b)
      OBVIOUS
    <3> QED
      BY <1>5, <3>1
  <2>4. ASSUME NEW k \in 1..m PROVE (a \o b)[k] = a[k]
    BY <1>5
  <2>5. ASSUME NEW k \in 1..p PROVE (a \o b)[m + k] = b[k]
    <3>1. PICK i \in Nat : i = m + k /\ i <= m + p /\ i > m /\ i - m = k /\ i # 0
      OBVIOUS
    <3>2. i \in 1..(Len(a) + Len(b)) /\ ~(i <= Len(a)) /\ i - Len(a) = k
      BY <1>5, <3>1
    <3>3. (a \o b)[i] = b[i - Len(a)]
      BY <3>2
    <3> QED
      BY <3>1, <3>2, <3>3
  <2> QED
    BY <2>1, <2>2, <2>3, <2>4, <2>5
<1>7. ASSUME NEW k \in 1..m PROVE items[k] = ItemAt(v, k)
  <2>1. PICK q : q = (k - 1) \div PageSize
    OBVIOUS
  <2>2. q \in 0..(n - 1)
    <3>1. k - 1 \in Nat /\ k - 1 < PageSize * n
      BY <1>3
    <3> QED
      BY <2>1, <3>1, ItemIsOnPage
  <2>3. v[q + 1] = w[q + 1]
    <3>1. PICK j \in 1..n : j = q + 1
      BY <2>2
    <3>2. v[j] = w[j]
      OBVIOUS
    <3> QED
      BY <3>1, <3>2
  <2>4. ItemAt(v, k) = <<v[q + 1], ((k - 1) % PageSize) + 1>>
    BY <2>1 DEF ItemAt
  <2>5. ItemAt(w, k) = <<w[q + 1], ((k - 1) % PageSize) + 1>>
    BY <2>1 DEF ItemAt
  <2> QED
    BY <1>5, <1>6, <2>3, <2>4, <2>5
<1>8. ASSUME NEW k \in 1..p PROVE items[m + k] = ItemAt(v, m + k)
  <2>1. PICK r \in 0..(PageSize - 1) : r = k - 1 /\ r + 1 = k /\ (m + k) - 1 = PageSize * n + r
    BY <1>1, <1>3
  <2>2. ((m + k) - 1) \div PageSize = n /\ ((m + k) - 1) % PageSize = r
    BY <2>1, PageOfItem
  <2>3. v[n + 1] = page
    OBVIOUS
  <2>4. b[k] = <<page, k>>
    BY <1>1, <1>2 DEF Items
  <2> QED
    BY <1>6, <2>1, <2>2, <2>3, <2>4 DEF ItemAt
<1>9. ASSUME NEW k \in 1..Len(items) PROVE items[k] = ItemAt(v, k)
  <2>1. CASE k \in 1..m
    BY <1>7, <2>1
  <2>2. CASE k \notin 1..m
    <3>1. PICK j \in 1..p : k = m + j
      <4>1. k - m \in 1..p /\ k = m + (k - m)
        BY <1>6, <2>2
      <4> QED
        BY <4>1
    <3> QED
      BY <1>8, <3>1
  <2> QED
    BY <2>1, <2>2
<1>10. ItemsOf(items, v, n + 1)
  BY <1>3, <1>6, <1>9 DEF ItemsOf
<1> QED
  BY <1>10

\* What is kept of the items of n pages.
LEMMA CutCollects ==
    ASSUME NEW z \in Call, NEW x, NEW v, NEW n \in Nat, x.pages = n, x.limit = z.limit,
           NEW items, ItemsOf(items, v, n), x.items = Cut(z, items)
    PROVE  /\ Collected(v, x)
           /\ LimitReached(z, items) => Len(x.items) = x.limit
           /\ ~LimitReached(z, items) => (x.limit # NoLimit => PageSize * n < x.limit)
<1>0. /\ items \in Seq(Page \X (1..PageSize)) /\ Len(items) = PageSize * n
      /\ \A k \in 1..Len(items) : items[k] = ItemAt(v, k)
  BY DEF ItemsOf
<1>1. PICK m \in Nat : m = PageSize * n
  BY PagesTimesSize
<1>2. z.limit \in (Nat \ {0}) \cup {NoLimit}
  <2>1. z.limit \in Limits
    BY DEF Call
  <2> QED
    BY <2>1, LimitAssumption
<1>3. CASE LimitReached(z, items)
  <2>1. PICK l \in Nat \ {0} : l = z.limit /\ l <= m /\ l # NoLimit
    BY <1>0, <1>1, <1>2, <1>3, LimitAssumption DEF LimitReached
  <2>2. x.items = SubSeq(items, 1, l)
    BY <1>3, <2>1 DEF Cut
  <2>3. Len(x.items) = l /\ \A k \in 1..l : x.items[k] = items[k]
    <3>1. PICK s : s = SubSeq(items, 1, l)
      OBVIOUS
    <3>2. Len(s) = l /\ \A k \in 1..l : s[k] = items[k]
      BY <1>0, <1>1, <2>1, <3>1
    <3> QED
      BY <2>2, <3>1, <3>2
  <2>4. \A k \in 1..l : x.items[k] = ItemAt(v, k)
    BY <1>0, <1>1, <2>1, <2>3
  <2>5. Len(x.items) = IF x.limit # NoLimit /\ x.limit < PageSize * x.pages THEN x.limit
                       ELSE PageSize * x.pages
    BY <1>0, <1>1, <2>1, <2>3
  <2>6. Collected(v, x)
    BY <2>3, <2>4, <2>5 DEF Collected
  <2> QED
    BY <1>3, <2>1, <2>3, <2>6
<1>4. CASE ~LimitReached(z, items)
  <2>1. x.items = items
    BY <1>4 DEF Cut
  <2>2. z.limit # NoLimit => z.limit \in Nat /\ m < z.limit
    BY <1>0, <1>1, <1>2, <1>4 DEF LimitReached
  <2>3. Len(x.items) = IF x.limit # NoLimit /\ x.limit < PageSize * x.pages THEN x.limit
                       ELSE PageSize * x.pages
    BY <1>0, <1>1, <2>1, <2>2
  <2>4. Collected(v, x)
    BY <1>0, <2>1, <2>3 DEF Collected
  <2> QED
    BY <1>0, <1>1, <1>4, <2>2, <2>4
<1> QED
  BY <1>3, <1>4

\* A listing that has fetched a page is as it should be.
LEMMA PageIsListed ==
    ASSUME NEW z \in Call, NEW x, NEW t, NEW c, NEW next, ListingOK(z, c),
           z.kind = "list", z.phase = "answered", z.page \in Page,
           z.page \in DOMAIN c => next = c[z.page],
           Turned(z, x, next, t)
    PROVE  ListingOK(x, Extended(c, z.page, next))
<1>1. PICK w : Trail(w, z, c) /\ Collected(w, z) /\ GoesOn(w, z)
  BY DEF ListingOK, Working
<1>2. PICK n \in Nat, page \in Page : n = z.pages /\ page = z.page
  BY DEF Call
<1>3. /\ n < MaxPages /\ z.seen = {w[i] : i \in 2..(n + 1)}
      /\ \A i, j \in 2..(n + 1) : w[i] = w[j] => i = j
      /\ z.limit # NoLimit => PageSize * n < z.limit
  BY <1>1, <1>2 DEF GoesOn, Working
<1>4. PICK v : /\ v = Longer(w, n, next)
               /\ v = [i \in 1..(n + 2) |-> IF i = n + 2 THEN next ELSE w[i]]
  BY DEF Longer
<1>d. PICK d : d = Extended(c, z.page, next)
  OBVIOUS
<1>5. PICK items : items = z.items \o Items(page)
  OBVIOUS
<1>6. /\ x.kind = "list" /\ x.start = z.start /\ x.limit = z.limit /\ x.pages = n + 1
      /\ x.page = next /\ x.items = Cut(z, items)
  BY <1>2, <1>5 DEF Turned
<1>7. Trail(v, x, d)
  <2>1. Trail(w, z, c) /\ n = z.pages
    BY <1>1, <1>2
  <2>2. x.pages = n + 1 /\ x.start = z.start /\ x.page = next
    BY <1>6
  <2>3. z.page \in DOMAIN c => next = c[z.page]
    OBVIOUS
  <2>4. \A i, j \in 2..(n + 1) : w[i] = w[j] => i = j
    BY <1>3
  <2>5. Trail(Longer(w, n, next), x, Extended(c, z.page, next))
    BY <2>1, <2>2, <2>3, <2>4, TrailGrows, Zenon
  <2> QED
    BY <1>d, <1>4, <2>5
<1>8. ItemsOf(items, v, n + 1)
  <2>1. w[n + 1] = z.page
    BY <1>1, <1>2 DEF Trail
  <2>2. n = z.pages /\ Collected(w, z) /\ (z.limit # NoLimit => PageSize * n < z.limit)
    BY <1>1, <1>2, <1>3
  <2>3. ItemsOf(z.items \o Items(z.page), Longer(w, n, next), n + 1)
    BY <2>1, <2>2, ItemsGrow
  <2> QED
    BY <1>2, <1>4, <1>5, <2>3
<1>9. /\ Collected(v, x)
      /\ LimitReached(z, items) => Len(x.items) = x.limit
      /\ ~LimitReached(z, items) => (x.limit # NoLimit => PageSize * (n + 1) < x.limit)
  <2>1. PICK m \in Nat : m = n + 1
    OBVIOUS
  <2> QED
    BY <1>6, <1>8, <2>1, CutCollects
<1>10. Stops(x)
  <2> SUFFICES ASSUME x.phase = "returned"
               PROVE  x.pages <= MaxPages
                      /\ (x.page = NoPage \/ x.pages = MaxPages \/ Len(x.items) = x.limit)
    BY DEF Stops
  <2>1. x.pages <= MaxPages
    BY <1>3, <1>6, BoundAssumption
  <2>2. LimitReached(z, items) \/ next = NoPage \/ x.pages >= MaxPages
    BY <1>2, <1>5 DEF Turned
  <2>3. x.pages >= MaxPages => x.pages = MaxPages
    BY <1>6, <2>1, BoundAssumption
  <2> QED
    BY <1>6, <1>9, <2>1, <2>2, <2>3
<1>11. GoesOn(v, x)
  <2> SUFFICES ASSUME x.phase \in Working
               PROVE  /\ x.pages < MaxPages
                      /\ x.seen = {v[i] : i \in 2..(n + 2)}
                      /\ \A i, j \in 2..(n + 2) : v[i] = v[j] => i = j
                      /\ x.limit # NoLimit => PageSize * (n + 1) < x.limit
    <3>1. x.pages + 1 = n + 2
      BY <1>6
    <3> QED
      BY <1>6, <3>1 DEF GoesOn
  <2>1. /\ x.pages < MaxPages /\ next \notin z.seen /\ x.seen = z.seen \cup {next}
        /\ ~LimitReached(z, items)
    BY <1>2, <1>5 DEF Turned, Working
  <2>2. \A i \in 2..(n + 1) : v[i] = w[i] /\ w[i] # next
    <3>1. \A i \in 2..(n + 1) : v[i] = w[i]
      BY <1>4
    <3> QED
      BY <1>3, <2>1, <3>1
  <2>3. v[n + 2] = next /\ \A i : i \in 2..(n + 2) <=> i \in 2..(n + 1) \/ i = n + 2
    BY <1>4
  <2>4. x.seen = {v[i] : i \in 2..(n + 2)}
    <3>1. ASSUME NEW s \in x.seen PROVE \E i \in 2..(n + 2) : s = v[i]
      <4>1. CASE s = next
        BY <2>3, <4>1
      <4>2. CASE s \in z.seen
        <5>1. PICK i \in 2..(n + 1) : s = w[i]
          BY <1>3, <4>2
        <5> QED
          BY <2>2, <2>3, <5>1
      <4> QED
        BY <2>1, <4>1, <4>2
    <3>2. ASSUME NEW i \in 2..(n + 2) PROVE v[i] \in x.seen
      <4>1. CASE i = n + 2
        BY <2>1, <2>3, <4>1
      <4>2. CASE i \in 2..(n + 1)
        <5>1. w[i] \in z.seen
          BY <1>3, <4>2
        <5> QED
          BY <2>1, <2>2, <4>2, <5>1
      <4> QED
        BY <2>3, <4>1, <4>2
    <3> QED
      BY <3>1, <3>2
  <2>5. ASSUME NEW i \in 2..(n + 2), NEW j \in 2..(n + 2), v[i] = v[j] PROVE i = j
    BY <1>3, <2>2, <2>3, <2>5
  <2> QED
    BY <1>9, <2>1, <2>4, <2>5
<1> QED
  BY <1>d, <1>7, <1>9, <1>10, <1>11 DEF ListingOK

\* A thread goes on with the call x while the chain grows.
LEMMA ListingStep ==
    ASSUME AdapterInv, ListInv, NEW t \in Thread, NEW x, calls' = [calls EXCEPT ![t] = x],
           \A p \in DOMAIN chain : p \in DOMAIN chain' /\ chain'[p] = chain[p],
           ListingOK(x, chain')
    PROVE  ListInv'
<1> SUFFICES ASSUME NEW u \in Thread PROVE ListingOK(calls'[u], chain')
  BY DEF ListInv
<1>1. CASE u = t
  BY <1>1 DEF AdapterInv
<1>2. CASE u # t
  <2>1. PICK y : y = calls[u] /\ y = calls'[u] /\ ListingOK(y, chain)
    BY <1>2 DEF AdapterInv, ListInv
  <2>2. PICK c, d : c = chain /\ d = chain'
    OBVIOUS
  <2>3. ListingOK(y, d)
    BY <2>1, <2>2, ListingStays
  <2> QED
    BY <2>1, <2>2, <2>3
<1> QED
  BY <1>1, <1>2

\* A listing begins at its first page, with nothing.
LEMMA StartIsListed ==
    ASSUME AdapterInv, ListInv, NEW t \in Thread, StartList(t) \/ StartCases(t) \/ StartWrite(t)
    PROVE  ListInv'
<1>1. PICK kind \in Kind, start \in Page, limit \in Limits : Start(t, kind, start, limit)
  BY IdleIsCall, PageAssumption DEF StartList, StartCases, StartWrite, Kind
<1>2. PICK x : x = [Idle EXCEPT !.kind = kind, !.phase = "token", !.marker = seq,
                                !.start = start, !.page = start, !.limit = limit]
  OBVIOUS
<1>3. /\ x.phase = "token" /\ x.start = start /\ x.page = start /\ x.limit = limit
      /\ x.pages = 0 /\ x.items = <<>> /\ x.seen = {}
  BY <1>2 DEF Idle
<1>4. PICK w : w = [i \in 1..1 |-> start]
  OBVIOUS
<1>5. Trail(w, x, chain)
  BY <1>3, <1>4 DEF Trail
<1>6. limit # NoLimit => limit \in Nat \ {0}
  BY LimitAssumption
<1>7. PageSize * 0 = 0
  BY PagesTimesSize
<1>8. Collected(w, x)
  <2>1. Len(x.items) = 0
    BY <1>3
  <2>2. PageSize * x.pages = 0
    BY <1>3, <1>7
  <2>3. ~(x.limit # NoLimit /\ x.limit < 0)
    BY <1>3, <1>6
  <2>4. \A k \in 1..0 : FALSE
    OBVIOUS
  <2> QED
    BY <2>1, <2>2, <2>3, <2>4 DEF Collected
<1>9. GoesOn(w, x)
  <2>1. x.seen = {w[i] : i \in 2..(x.pages + 1)}
    <3>1. 2..(0 + 1) = {}
      OBVIOUS
    <3> QED
      BY <1>3, <3>1
  <2>2. \A i, j \in 2..(x.pages + 1) : w[i] = w[j] => i = j
    BY <1>3
  <2>3. x.limit # NoLimit => PageSize * x.pages < x.limit
    BY <1>3, <1>6, <1>7
  <2>4. x.pages < MaxPages
    BY <1>3, BoundAssumption
  <2> QED
    BY <2>1, <2>2, <2>3, <2>4 DEF GoesOn
<1>10. ListingOK(x, chain)
  BY <1>3, <1>5, <1>8, <1>9 DEF ListingOK, Stops
<1>11. calls' = [calls EXCEPT ![t] = x] /\ chain' = chain
  BY <1>1, <1>2 DEF Start
<1> QED
  BY <1>10, <1>11, ListingStep

\* A request that goes on leaves every listing as it should be.
LEMMA RequestIsListed ==
    ASSUME AdapterInv, ListInv, NEW t \in Thread,
           GetToken(t) \/ Send(t) \/ TryNewToken(t) \/ Retry(t) \/ StartOver(t)
    PROVE  ListInv'
<1>1. PICK y : y = calls[t]
  OBVIOUS
<1>2. PICK x : /\ calls' = [calls EXCEPT ![t] = x] /\ chain' = chain
               /\ y.phase \in Working /\ x.phase \in Working
               /\ x.kind = y.kind /\ x.start = y.start /\ x.limit = y.limit
               /\ x.page = y.page /\ x.seen = y.seen /\ x.pages = y.pages
               /\ x.items = y.items
  BY <1>1, RequestKeepsListing
<1>3. PICK c : c = chain /\ ListingOK(y, c)
  BY <1>1 DEF ListInv
<1>4. \A p \in DOMAIN c : p \in DOMAIN c /\ c[p] = c[p]
  OBVIOUS
<1>5. ListingOK(x, c)
  BY <1>2, <1>3, <1>4, SameListing
<1> QED
  BY <1>2, <1>3, <1>5, ListingStep

\* A workflow that ends without a page is no listing, or has raised.
LEMMA EndIsListed ==
    ASSUME AdapterInv, ListInv, NEW t \in Thread, Raise(t) \/ Return(t)
    PROVE  ListInv'
<1>1. PICK y \in Call : y = calls[t]
  BY DEF AdapterInv, Sound
<1>2. PICK phase : /\ calls' = [calls EXCEPT ![t] = Ended(y, t, phase)]
                   /\ phase = "raised" \/ y.kind # "list"
  BY <1>1 DEF Raise, Return, AdapterInv
<1>3. PICK x : x = Ended(y, t, phase)
  OBVIOUS
<1>4. x.kind # "list" \/ x.phase \in {"idle", "raised"}
  BY <1>1, <1>2, <1>3, EndedKeeps
<1>5. ListingOK(x, chain')
  BY <1>4, NoListing
<1>6. calls' = [calls EXCEPT ![t] = x] /\ chain' = chain
  BY <1>2, <1>3 DEF Raise, Return
<1> QED
  BY <1>5, <1>6, ListingStep

\* A page that has come.
LEMMA PageKeepsListing ==
    ASSUME AdapterInv, ListInv, NEW t \in Thread, PageFetched(t)
    PROVE  ListInv'
<1>1. /\ Sound(calls[t], cached, accepted)
      /\ calls[t].phase = "answered" /\ calls[t].kind = "list"
  BY DEF AdapterInv, PageFetched, Answered
<1>2. PICK z \in Call : z = calls[t]
  BY <1>1 DEF Sound
<1>3. z.page \in Page /\ z.phase = "answered" /\ z.kind = "list" /\ ListingOK(z, chain)
  BY <1>1, <1>2 DEF Sound, ListInv
<1>4. PICK next \in (Page \ {FirstPage}) \cup {NoPage} : \E x :
              /\ calls' = [calls EXCEPT ![t] = x]
              /\ Turned(z, x, next, t)
              /\ z.page \in DOMAIN chain => next = chain[z.page]
              /\ chain' = Extended(chain, z.page, next)
  BY <1>2, PageSteps DEF Extended
<1>5. PICK x : /\ calls' = [calls EXCEPT ![t] = x]
               /\ Turned(z, x, next, t)
  BY <1>4
<1>6. ListingOK(x, chain')
  BY <1>3, <1>4, <1>5, PageIsListed
<1>7. \A p \in DOMAIN chain : p \in DOMAIN chain' /\ chain'[p] = chain[p]
  BY <1>4 DEF Extended
<1> QED
  BY <1>5, <1>6, <1>7, ListingStep

\* One case for each action.
LEMMA ListInvStep == AdapterInv /\ ListInv /\ [Next]_vars => ListInv'
<1> SUFFICES ASSUME AdapterInv, ListInv, [Next]_vars PROVE ListInv'
  OBVIOUS
<1>1. CASE \E t \in Thread : StartList(t) \/ StartCases(t) \/ StartWrite(t)
  BY <1>1, StartIsListed
<1>2. CASE \E t \in Thread : Request(t)
  BY <1>2, RequestIsListed, EndIsListed, PageKeepsListing DEF Request
<1>3. CASE Expire \/ UNCHANGED vars
  BY <1>3 DEF Expire, vars, ListInv
<1> QED
  BY <1>1, <1>2, <1>3 DEF Next

\* Nobody lists at first.
LEMMA ListInvInit == Init => ListInv
BY NoListing DEF Init, Idle, ListInv

\* The invariants hold throughout.
LEMMA ListInvHolds == Spec => [](AdapterInv /\ ListInv)
BY AdapterInvInit, AdapterInvStep, ListInvInit, ListInvStep, PTL DEF Spec

\* The pages a listing has visited are those of its trail.
LEMMA TrailIsVisited ==
    ASSUME ChainIsTyped(chain), NEW t, NEW w, NEW n \in Nat, n = calls[t].pages, n <= MaxPages,
           Trail(w, calls[t], chain)
    PROVE  \A i \in 1..(n + 1) : Visited(t)[i] = w[i]
<1>1. PICK f : f = Visited(t) /\ IsWalk(f, MaxPages + 1, calls[t].start, chain)
  BY VisitedIsWalk
<1> DEFINE S == {i \in Nat : i <= n => f[i + 1] = w[i + 1]}
<1>2. \A i \in 1..(MaxPages + 1) :
        f[i] = IF i = 1 THEN calls[t].start ELSE After(f[i - 1], chain)
  BY <1>1 DEF IsWalk
<1>3. 0 \in S
  <2>1. 1 \in 1..(MaxPages + 1)
    BY BoundAssumption
  <2>2. f[1] = w[1]
    BY <1>2, <2>1 DEF Trail
  <2> QED
    BY <2>2
<1>4. ASSUME NEW i \in Nat, i \in S PROVE i + 1 \in S
  <2> SUFFICES ASSUME i + 1 <= n PROVE f[(i + 1) + 1] = w[(i + 1) + 1]
    OBVIOUS
  <2>1. PICK j \in 1..n : j = i + 1 /\ (i + 1) + 1 = j + 1
    OBVIOUS
  <2>2. f[j] = w[j]
    BY <1>4, <2>1
  <2>3. w[j] \in DOMAIN chain /\ w[j + 1] = chain[w[j]]
    BY <2>1 DEF Trail
  <2>4. w[j] # NoPage
    BY <2>3, PageAssumption DEF ChainIsTyped
  <2>5. j + 1 \in 1..(MaxPages + 1) /\ j + 1 # 1 /\ (j + 1) - 1 = j
    BY BoundAssumption
  <2>6. f[j + 1] = After(f[j], chain)
    BY <1>2, <2>5
  <2> QED
    BY <2>1, <2>2, <2>3, <2>4, <2>6 DEF After
<1> HIDE DEF S
<1>5. Nat \subseteq S
  BY <1>3, <1>4, SetInduction
<1>6. ASSUME NEW i \in 1..(n + 1) PROVE f[i] = w[i]
  <2>1. PICK j \in Nat : i = j + 1 /\ j <= n
    <3>1. i - 1 \in Nat /\ i = (i - 1) + 1 /\ i - 1 <= n
      OBVIOUS
    <3> QED
      BY <3>1
  <2>2. j \in S
    BY <1>5
  <2> QED
    BY <2>1, <2>2 DEF S
<1> QED
  BY <1>1, <1>6

\* A listing that returns has the items of the pages it visited, in order, as many
\* as were wanted, and the token of the page that follows; it has stopped for want
\* of pages, at the cap or at the limit, and has fetched no page twice but perhaps
\* the one it started with.
THEOREM ListingsAreExact == Spec => []ListingIsExact
<1>1. AdapterInv /\ ListInv => ListingIsExact
  <2> SUFFICES ASSUME AdapterInv, ListInv, NEW t \in Thread,
                      calls[t].kind = "list", calls[t].phase = "returned"
               PROVE  LET call == calls[t]
                          size == PageSize * call.pages
                      IN  /\ call.page = Visited(t)[call.pages + 1]
                          /\ Len(call.items) = IF call.limit # NoLimit /\ call.limit < size
                                               THEN call.limit ELSE size
                          /\ \A i \in DOMAIN call.items :
                                call.items[i] = <<Visited(t)[((i - 1) \div PageSize) + 1],
                                                  ((i - 1) % PageSize) + 1>>
                          /\ call.page = NoPage \/ call.pages = MaxPages
                                \/ Len(call.items) = call.limit
                          /\ \A i, j \in 2..call.pages : Visited(t)[i] = Visited(t)[j] => i = j
    BY DEF ListingIsExact
  <2>1. PICK z \in Call : z = calls[t]
    BY DEF AdapterInv, Sound
  <2>2. ListingOK(z, chain)
    BY <2>1 DEF ListInv
  <2>3. PICK w : Trail(w, z, chain) /\ Collected(w, z)
    BY <2>1, <2>2 DEF ListingOK
  <2>4. PICK n \in Nat : n = z.pages /\ n <= MaxPages
    BY <2>1, <2>2 DEF ListingOK, Stops, Call
  <2>5. PICK f : f = Visited(t) /\ \A i \in 1..(n + 1) : f[i] = w[i]
    <3>1. ChainIsTyped(chain) /\ n = calls[t].pages /\ Trail(w, calls[t], chain)
      BY <2>1, <2>3, <2>4 DEF AdapterInv, RestInv
    <3>2. \A i \in 1..(n + 1) : Visited(t)[i] = w[i]
      BY <2>4, <3>1, TrailIsVisited
    <3> QED
      BY <3>2
  <2>6. z.page = f[n + 1]
    BY <2>3, <2>4, <2>5 DEF Trail
  <2>7. PICK m \in Nat : m = PageSize * n
    BY PagesTimesSize
  <2>8. z.items \in Seq(Page \X (1..PageSize)) /\ z.limit \in Nat \cup {NoLimit}
    BY LimitAssumption DEF Call
  <2>9. Len(z.items) = (IF z.limit # NoLimit /\ z.limit < m THEN z.limit ELSE m)
    BY <2>3, <2>4, <2>7 DEF Collected
  <2>10. ASSUME NEW i \in DOMAIN z.items
         PROVE  z.items[i] = <<f[((i - 1) \div PageSize) + 1], ((i - 1) % PageSize) + 1>>
    <3>1. i \in 1..Len(z.items) /\ i - 1 \in Nat /\ i - 1 < m
      BY <2>7, <2>8, <2>9
    <3>2. PICK q : q = (i - 1) \div PageSize
      OBVIOUS
    <3>3. q \in 0..(n - 1)
      BY <2>7, <3>1, <3>2, ItemIsOnPage
    <3>4. f[q + 1] = w[q + 1]
      <4>1. PICK j \in 1..(n + 1) : j = q + 1
        BY <3>3
      <4> QED
        BY <2>5, <4>1
    <3>5. z.items[i] = ItemAt(w, i)
      BY <2>3, <3>1 DEF Collected
    <3>6. ItemAt(w, i) = <<w[q + 1], ((i - 1) % PageSize) + 1>>
      BY <3>2 DEF ItemAt
    <3> QED
      BY <3>2, <3>4, <3>5, <3>6
  <2>11. z.page = NoPage \/ z.pages = MaxPages \/ Len(z.items) = z.limit
    BY <2>1, <2>2 DEF ListingOK, Stops
  <2>12. ASSUME NEW i \in 2..n, NEW j \in 2..n, f[i] = f[j] PROVE i = j
    <3>1. f[i] = w[i] /\ f[j] = w[j]
      BY <2>5
    <3> QED
      BY <2>3, <2>4, <2>12, <3>1 DEF Trail
  <2> QED
    BY <2>1, <2>4, <2>5, <2>6, <2>7, <2>9, <2>10, <2>11, <2>12
<1> QED
  BY <1>1, ListInvHolds, PTL
=============================================================================
