----------------------------- MODULE ApiAdapter -----------------------------
(***************************************************************************)
(* The REST client (adapters/google_secops.py: _request and the retry      *)
(* log), the credentials it takes its tokens from (engine/auth.py, gcloud  *)
(* strategy) and the page walk the list workflows make with it             *)
(* (engine/pagination.py).                                                 *)
(*                                                                         *)
(* Threads share one adapter and one credential provider; each thread runs *)
(* one workflow, which takes a marker of the retry log, makes its requests *)
(* and at the end asks which retries were made since.                      *)
(*                                                                         *)
(* The service is outside: it accepts one token at a time, may answer any  *)
(* attempt with an error, and may execute a request whose answer is lost.  *)
(***************************************************************************)
EXTENDS Naturals, Sequences, FiniteSets

CONSTANTS Thread,
          Lister,       \* the threads that list pages; the others read cases or write
          Page,         \* the pages of the listing, named by their page tokens
          FirstPage,    \* the one that is fetched without a token
          NoPage,       \* no next page
          Resume,       \* the pages callers start from
          NoToken,      \* the token cache is empty
          NoLimit,      \* no max_results
          Limits,       \* the max_results in use
          PageSize,
          MaxPages,     \* DEFAULT_MAX_PAGES
          MaxAttempts,  \* max_retries
          MaxAgain,     \* max_500_retries
          LogSize,      \* maxlen of the retry log
          MaxExpiries   \* how often the token the service accepts changes

ASSUME ListerAssumption == Lister \subseteq Thread
ASSUME PageAssumption == FirstPage \in Page /\ NoPage \notin Page /\ Resume \subseteq Page
ASSUME LimitAssumption ==
    Limits # {} /\ Limits \subseteq (Nat \ {0}) \cup {NoLimit} /\ NoLimit \notin Nat
ASSUME TokenAssumption == NoToken \notin Nat
ASSUME BoundAssumption ==
    /\ PageSize \in Nat \ {0} /\ MaxPages \in Nat \ {0} /\ MaxAttempts \in Nat \ {0}
    /\ MaxAgain \in Nat /\ LogSize \in Nat /\ MaxExpiries \in Nat

VARIABLES calls,     \* the workflow of each thread
          cached,    \* the provider's cached token
          log,       \* the retry log: who retried, with which number
          seq,       \* the number of the last retry
          accepted,  \* the token the service accepts
          written,   \* how often the service executed the write of each thread
          chain      \* the page that follows each page fetched so far

vars == <<calls, cached, log, seq, accepted, written, chain>>

-----------------------------------------------------------------------------
(* Workflows *)

\* A listing walks the pages, cases reads one page and retries a 500, a write
\* sends one POST.
Kind   == {"list", "cases", "write"}
Phase  == {"idle", "token", "send", "answered", "returned", "raised"}
Answer == {"none", "ok", "denied", "transient", "network", "internal", "refused"}

Call == [kind    : Kind,
         phase   : Phase,
         marker  : Nat,
         token   : Nat \cup {NoToken},
         attempt : 1..MaxAttempts,
         again   : 0..MaxAgain,
         answer  : Answer,
         start   : Page,                   \* the listing: where it starts,
         limit   : Limits,                 \* max_results,
         page    : Page \cup {NoPage},     \* the page to fetch, or the token returned
         seen    : SUBSET Page,
         pages   : Nat,
         items   : Seq(Page \X (1..PageSize)),
         report  : Nat,                    \* api_retries
         retried : Nat,                    \* attempts that were followed by another
         denied  : Nat]                    \* the token accepted when one was denied

Idle == [kind |-> "write", phase |-> "idle", marker |-> 0, token |-> NoToken, attempt |-> 1,
         again |-> 0, answer |-> "none", start |-> FirstPage, limit |-> CHOOSE l \in Limits : TRUE,
         page |-> FirstPage, seen |-> {}, pages |-> 0, items |-> <<>>, report |-> 0,
         retried |-> 0, denied |-> 0]

Init ==
    /\ calls = [t \in Thread |-> Idle]
    /\ cached = NoToken
    /\ log = <<>> /\ seq = 0
    /\ accepted = 0
    /\ written = [t \in Thread |-> 0]
    /\ chain = <<>>

Start(t, kind, start, limit) ==
    /\ calls[t].phase = "idle"
    /\ calls' = [calls EXCEPT ![t] =
                    [Idle EXCEPT !.kind = kind, !.phase = "token", !.marker = seq,
                                 !.start = start, !.page = start, !.limit = limit]]
    /\ UNCHANGED <<cached, log, seq, accepted, written, chain>>

StartList(t) ==
    t \in Lister /\ \E start \in Resume, limit \in Limits : Start(t, "list", start, limit)

StartCases(t) == t \notin Lister /\ Start(t, "cases", FirstPage, Idle.limit)
StartWrite(t) == t \notin Lister /\ Start(t, "write", FirstPage, Idle.limit)

-----------------------------------------------------------------------------
(* Credentials *)

\* Mutant: the cached token stays.
InvalidatedNot(cache) == cache

Invalidated(cache) == NoToken

\* get_token: the cached token, unless it is too old; or else a new one, which
\* is cached.  The lock is held while the subprocess runs.
GetToken(t) ==
    /\ calls[t].phase = "token"
    /\ \/ cached # NoToken /\ UNCHANGED cached
       \/ cached' = accepted
    /\ calls' = [calls EXCEPT ![t].phase = "send", ![t].token = cached']
    /\ UNCHANGED <<log, seq, accepted, written, chain>>

\* The service stops accepting the token before the cache gives it up.
Expire ==
    /\ accepted < MaxExpiries
    /\ accepted' = accepted + 1
    /\ UNCHANGED <<calls, cached, log, seq, written, chain>>

-----------------------------------------------------------------------------
(* Requests *)

\* The service's part of an attempt: an error may come before or after the
\* request was executed.  "internal" is the 500 that list_cases looks for,
\* "refused" any other error, among them a 500 to another call.
Send(t) ==
    /\ calls[t].phase = "send"
    /\ \E answer \in Answer \ {"none"}, runs \in {0, 1} :
          /\ (answer = "denied") = (calls[t].token # accepted)
          /\ answer = "ok" => runs = 1
          /\ answer = "denied" => runs = 0
          /\ answer = "internal" => calls[t].kind = "cases"
          /\ calls' = [calls EXCEPT ![t].phase = "answered", ![t].answer = answer]
          /\ written' = IF calls[t].kind = "write" THEN [written EXCEPT ![t] = @ + runs] ELSE written
    /\ UNCHANGED <<cached, log, seq, accepted, chain>>

Answered(t, answers) == calls[t].phase = "answered" /\ calls[t].answer \in answers

\* Mutant: the retries of all threads are reported.
RetriesSinceAll(marker, t) == Cardinality({i \in DOMAIN log : log[i].seq > marker})

\* retries_since(marker)
RetriesSince(marker, t) ==
    Cardinality({i \in DOMAIN log : log[i].seq > marker /\ log[i].thread = t})

\* The workflow is over and asks for its report.
Ended(call, t, phase) ==
    [call EXCEPT !.phase = phase, !.report = RetriesSince(call.marker, t),
                 !.token = NoToken, !.answer = "none", !.attempt = 1, !.again = 0, !.denied = 0]

TokenWanted(call) == [call EXCEPT !.phase = "token", !.token = NoToken, !.answer = "none"]

NextAttempt(call) == [TokenWanted(call) EXCEPT !.attempt = @ + 1]

\* A 401 to the first attempt: forget the token and try again; not a retry that
\* is recorded.
TryNewToken(t) ==
    /\ Answered(t, {"denied"})
    /\ calls[t].attempt = 1 /\ MaxAttempts > 1
    /\ cached' = Invalidated(cached)
    /\ calls' = [calls EXCEPT ![t] = [NextAttempt(@) EXCEPT !.denied = accepted]]
    /\ UNCHANGED <<log, seq, accepted, written, chain>>

\* The log with one more retry: a deque that drops its oldest entry.
Logged(entries, t) ==
    LET longer == Append(entries, [seq |-> seq + 1, thread |-> t])
    IN  IF Len(longer) > LogSize THEN Tail(longer) ELSE longer

Retried(call) == [NextAttempt(call) EXCEPT !.retried = @ + 1]

\* 429, 502, 503, 504, a timeout or a network error before the last attempt,
\* whatever the method.
Retry(t) ==
    /\ Answered(t, {"transient", "network"})
    /\ calls[t].attempt < MaxAttempts
    /\ seq' = seq + 1 /\ log' = Logged(log, t)
    /\ calls' = [calls EXCEPT ![t] = Retried(@)]
    /\ UNCHANGED <<cached, accepted, written, chain>>

Over(call) == [TokenWanted(call) EXCEPT !.attempt = 1, !.again = @ + 1]

\* list_cases: a 500 starts the request over.
StartOver(t) ==
    /\ calls[t].again < MaxAgain
    /\ Answered(t, {"internal"})
    /\ calls' = [calls EXCEPT ![t] = Over(@)]
    /\ UNCHANGED <<cached, log, seq, accepted, written, chain>>

\* Every other error goes to the caller, with whatever was listed before.
Raise(t) ==
    /\ \/ Answered(t, {"denied"}) /\ ~(calls[t].attempt = 1 /\ MaxAttempts > 1)
       \/ Answered(t, {"transient", "network"}) /\ calls[t].attempt = MaxAttempts
       \/ Answered(t, {"internal"}) /\ calls[t].again = MaxAgain
       \/ Answered(t, {"refused"})
    /\ calls' = [calls EXCEPT ![t] = Ended(@, t, "raised")]
    /\ UNCHANGED <<cached, log, seq, accepted, written, chain>>

Return(t) ==
    /\ Answered(t, {"ok"}) /\ calls[t].kind # "list"
    /\ calls' = [calls EXCEPT ![t] = Ended(@, t, "returned")]
    /\ UNCHANGED <<cached, log, seq, accepted, written, chain>>

-----------------------------------------------------------------------------
(* collect_pages *)

Items(page) == [i \in 1..PageSize |-> <<page, i>>]

\* Mutant: a page token is not remembered.
RepeatedNever(call, next) == FALSE

Repeated(call, next) == next \in call.seen

LimitReached(call, items) == call.limit # NoLimit /\ Len(items) >= call.limit

Cut(call, items) == IF LimitReached(call, items) THEN SubSeq(items, 1, call.limit) ELSE items

\* What the walk makes of the page it asked for.
PageFetched(t) ==
    /\ Answered(t, {"ok"}) /\ calls[t].kind = "list"
    /\ \E next \in (Page \ {FirstPage}) \cup {NoPage} :
       LET call  == calls[t]
           items == call.items \o Items(call.page)
           fetched == [call EXCEPT !.pages = @ + 1, !.items = Cut(call, items), !.page = next]
       IN  /\ call.page \in DOMAIN chain => next = chain[call.page]
           /\ chain' = [p \in DOMAIN chain \cup {call.page} |-> IF p = call.page THEN next ELSE chain[p]]
           /\ calls' = [calls EXCEPT ![t] =
              IF LimitReached(call, items) \/ next = NoPage THEN Ended(fetched, t, "returned")
              ELSE IF Repeated(call, next) THEN Ended(fetched, t, "raised")
              ELSE IF fetched.pages >= MaxPages
                   THEN Ended([fetched EXCEPT !.seen = @ \cup {next}], t, "returned")
              ELSE [TokenWanted(fetched) EXCEPT !.attempt = 1, !.denied = 0,
                                                !.seen = @ \cup {next}]]
    /\ UNCHANGED <<cached, log, seq, accepted, written>>

Request(t) ==
    \/ GetToken(t) \/ Send(t) \/ TryNewToken(t) \/ Retry(t) \/ StartOver(t) \/ Raise(t)
    \/ Return(t) \/ PageFetched(t)

Next ==
    \/ \E t \in Thread : StartList(t) \/ StartCases(t) \/ StartWrite(t) \/ Request(t)
    \/ Expire

Spec == Init /\ [][Next]_vars

-----------------------------------------------------------------------------
(* Properties *)

AdapterTypes ==
    /\ calls \in [Thread -> Call]
    /\ cached \in 0..accepted \cup {NoToken}
    /\ Len(log) <= LogSize /\ seq \in Nat
    /\ \A i \in DOMAIN log : log[i] = [seq |-> seq - Len(log) + i, thread |-> log[i].thread]
    /\ accepted \in 0..MaxExpiries
    /\ written \in [Thread -> Nat]
    /\ \A p \in DOMAIN chain : p \in Page /\ chain[p] \in (Page \ {FirstPage}) \cup {NoPage}

\* The state is well formed, and after a 401 no thread goes on with a token older
\* than the one the service accepted then, whatever other threads cached or
\* invalidated in between.
NewTokenAfterDenial ==
    /\ AdapterTypes
    /\ \A t \in Thread : calls[t].phase = "send" => calls[t].token >= calls[t].denied

\* "Every retry is recorded so workflows can attach it to their results": a
\* workflow reports its own retries and no others, as long as the log had room
\* for all that were made since its marker; a caller that reads the report then
\* knows how often its write may have been made.
ReportIsExact ==
    [][\A t \in Thread :
          calls'[t].phase # calls[t].phase /\ calls'[t].phase \in {"returned", "raised"} =>
              /\ calls'[t].report <= calls'[t].retried
              /\ seq - calls[t].marker <= LogSize => 
                    /\ calls'[t].report = calls'[t].retried
                    /\ calls[t].kind = "write" => written'[t] <= 1 + calls'[t].report]_vars

\* The pages in the order of the chain, from the page the walk starts with.
Visited(t) ==
    LET walk[i \in 1..(MaxPages + 1)] ==
            IF i = 1 THEN calls[t].start
            ELSE IF walk[i - 1] = NoPage THEN NoPage ELSE chain[walk[i - 1]]
    IN  walk

\* A listing returns the items of the pages it visited, in order, up to
\* max_results, and the token that follows; it ends early only for a limit; and
\* it fetches no page twice but the one it started with.
ListingIsExact ==
    \A t \in Thread :
        LET call == calls[t]
            size == PageSize * call.pages
        IN  call.kind = "list" /\ call.phase = "returned" =>
            /\ call.page = Visited(t)[call.pages + 1]
            /\ Len(call.items) = IF call.limit # NoLimit /\ call.limit < size THEN call.limit ELSE size
            /\ \A i \in DOMAIN call.items :
                  call.items[i] = <<Visited(t)[((i - 1) \div PageSize) + 1], ((i - 1) % PageSize) + 1>>
            /\ call.page = NoPage \/ call.pages = MaxPages \/ Len(call.items) = call.limit
            /\ \A i, j \in 2..call.pages : Visited(t)[i] = Visited(t)[j] => i = j

=============================================================================
