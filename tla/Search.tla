------------------------------- MODULE Search -------------------------------
(***************************************************************************)
(* Search.ts: Search starts searches, a SearchSession follows one of them  *)
(* by the id the daemon granted, if it granted one.  The daemon keeps the  *)
(* searches of a connection in a ring, in which the oldest gives way; its  *)
(* ed2k searches share one live slot.  Without multi-search there are no   *)
(* ids, and every request is about the last search.                        *)
(***************************************************************************)
EXTENDS Naturals, Sequences, SequencesExt

CONSTANTS
  RingSize,       \* kMaxEcSearches (20)
  SearchLimit,    \* bound: searches started
  AskLimit        \* bound: requests made about them

VARIABLES
  multiSearch,    \* EC_TAG_CAN_MULTI_SEARCH was negotiated
  ring,           \* the searches the daemon keeps, oldest first
  live,           \* those still finding results
  found,          \* how many results each search ever found
  requests,       \* made and not yet answered, oldest first
  started,        \* the SearchSessions, in the order they were asked for
  asked           \* requests about sessions made

searchVars == <<multiSearch, ring, live, found, requests, started, asked>>

Kinds == {"ed2k", "kad"}
NoId == 0
Searches == DOMAIN found

SearchTypeOK ==
  /\ multiSearch \in BOOLEAN /\ Range(ring) \subseteq Searches /\ live \subseteq Searches
  /\ \A i \in DOMAIN started : started[i].id \in Searches \union {NoId}

SearchInit ==
  /\ multiSearch = TRUE /\ ring = <<>> /\ live = {} /\ found = <<>>
  /\ requests = <<>> /\ started = <<>> /\ asked = 0

-----------------------------------------------------------------------------
(* The daemon (external). *)

(* The searches addressed by an id; by none, the last one. *)
Addressed(id) ==
  IF id = NoId THEN IF ring = <<>> THEN {} ELSE {Last(ring)}
  ELSE {id} \intersect Range(ring)

Evicted(searches) ==
  IF Len(searches) > RingSize THEN Tail(searches) ELSE searches

Finds ==
  /\ \E s \in live : found[s].results < 2 /\ found' = [found EXCEPT ![s].results = @ + 1]
  /\ UNCHANGED <<multiSearch, ring, live, requests, started, asked>>

-----------------------------------------------------------------------------
(* The client. *)

(* What the handshake settled, before anything is searched. *)
NegotiateSearch ==
  /\ requests = <<>> /\ found = <<>> /\ multiSearch' = FALSE
  /\ UNCHANGED <<ring, live, found, requests, started, asked>>

(* Search.start(): the request goes to the end of the queue. *)
Start(kind) ==
  /\ Len(started) + Len(SelectSeq(requests, LAMBDA r : r.op = "start")) < SearchLimit
  /\ requests' = Append(requests, [op |-> "start", kind |-> kind])
  /\ UNCHANGED <<multiSearch, ring, live, found, started, asked>>

(* Mutant: the request leaves out EC_TAG_SEARCH_ID. *)
AlwaysLast(session) == NoId

(* addIdTag(): the id the session has, if any. *)
AddIdTag(session) == session.id

(* stop(), fetch() of a session, requestMore(): built at once. *)
Ask(i, op) ==
  /\ asked < AskLimit /\ asked' = asked + 1
  /\ requests' = Append(requests, [op |-> op, by |-> i, id |-> AddIdTag(started[i])])
  /\ UNCHANGED <<multiSearch, ring, live, found, started>>

Next1 == Head(requests)
Replies(op) == requests # <<>> /\ Next1.op = op /\ requests' = Tail(requests)

(* The session of start(); its results are those of no search yet.  An     *)
(* ed2k search finalizes the one that was live.                            *)
StartAnswered ==
  /\ Replies("start")
  /\ LET s == Len(found) + 1
         others == IF multiSearch THEN ring ELSE <<>>
     IN /\ found' = Append(found, [kind |-> Next1.kind, results |-> 0])
        /\ ring' = Evicted(Append(others, s))
        /\ live' = {s} \union {other \in live : /\ Next1.kind = "kad" \/ found[other].kind = "kad"
                                               /\ other \in Range(others)}
        /\ started' = Append(started, [id |-> IF multiSearch THEN s ELSE NoId, search |-> s,
                                       results |-> {}])
  /\ UNCHANGED <<multiSearch, asked>>

(* Mutant: a reply marked as expired is taken for one without results. *)
IgnoreExpired(session, results, expired) == results

ResultsShown(session, results, expired) == IF expired THEN session.results ELSE results

(* SearchSession.fetch(): the results replace those of before.  A search   *)
(* the daemon no longer knows is EC_TAG_SEARCH_EXPIRED: fetch() throws and *)
(* keeps what it had.                                                      *)
ResultsAnswered ==
  /\ Replies("fetch")
  /\ LET searches == Addressed(Next1.id) IN
     started' = [started EXCEPT ![Next1.by].results =
                   ResultsShown(started[Next1.by],
                         UNION {{s} \X (1..found[s].results) : s \in searches},
                         searches = {} /\ Next1.id # NoId)]
  /\ UNCHANGED <<multiSearch, ring, live, found, asked>>

(* stop(): close also frees the results and the place in the ring. *)
StopAnswered ==
  /\ \E op \in {"stop", "close"} : Replies(op)
  /\ live' = live \ Addressed(Next1.id)
  /\ IF Next1.op = "stop" \/ Addressed(Next1.id) = {} THEN UNCHANGED ring
     ELSE \E n \in DOMAIN ring : ring[n] \in Addressed(Next1.id) /\ ring' = RemoveAt(ring, n)
  /\ UNCHANGED <<multiSearch, found, started, asked>>

(* requestMore(): a Kad search asks again. *)
MoreAnswered ==
  /\ Replies("more")
  /\ live' = live \union {s \in Addressed(Next1.id) : found[s].kind = "kad"}
  /\ UNCHANGED <<multiSearch, ring, found, started, asked>>

(* Refused or lost: the call throws, start() without a session. *)
SearchFails ==
  /\ requests # <<>> /\ requests' = Tail(requests)
  /\ UNCHANGED <<multiSearch, ring, live, found, started, asked>>

SearchNext ==
  \/ NegotiateSearch \/ Finds
  \/ \E kind \in Kinds : Start(kind)
  \/ \E i \in DOMAIN started : \E op \in {"fetch", "stop", "close", "more"} : Ask(i, op)
  \/ StartAnswered \/ ResultsAnswered \/ StopAnswered \/ MoreAnswered \/ SearchFails

SearchSpec == SearchInit /\ [][SearchNext]_searchVars

-----------------------------------------------------------------------------
(* A session that has an id shows results of its own search only, with     *)
(* other searches started, stopped and evicted meanwhile.                  *)
ResultsAreOwn ==
  \A i \in DOMAIN started : started[i].id # NoId
    => \A result \in started[i].results : result[1] = started[i].search

(* A session that has an id never loses results: a search that is stopped, *)
(* finalized by another or evicted keeps those it had (fetch() throws      *)
(* instead).  Only without ids may another search take its place.          *)
ResultsOnlyGrow ==
  [][\A i \in DOMAIN started : started[i].id # NoId
       => started[i].results \subseteq started'[i].results]_searchVars
=============================================================================
