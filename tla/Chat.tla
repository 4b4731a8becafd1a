-------------------------------- MODULE Chat --------------------------------
(***************************************************************************)
(* Chat.ts: the daemon keeps chat sessions and their messages, numbered    *)
(* through the whole store; the client polls with one cursor for all of    *)
(* them and merges what it gets.  A request carries the cursor of the      *)
(* moment of the call, and may wait behind others before it is answered.   *)
(***************************************************************************)
EXTENDS Naturals, Sequences

CONSTANTS
  Peers,          \* clients of the network one can chat with (client ids)
  ChatSessions,   \* remoteCapabilities.chatSessions
  MaxMessages,    \* bound: messages in the store
  MaxPolls        \* bound: requests made

VARIABLES
  log,            \* the store: the session of each message ever, by its id
  gone,           \* the messages whose session was closed
  open,           \* the sessions that are open
  polls,          \* the requests made and not yet answered, oldest first
  sessions,       \* what the client tracks: the message ids of each session
  cursor,         \* its resume point
  backfilled,     \* a reply to fetchHistory() has moved the cursor
  made            \* requests made

chatVars == <<log, gone, open, polls, sessions, cursor, backfilled, made>>

Ids == 1..Len(log)
Of(peer, after) == {id \in Ids \ gone : log[id] = peer /\ id > after}

ChatTypeOK ==
  /\ log \in Seq(Peers) /\ gone \subseteq Ids /\ open \subseteq Peers
  /\ DOMAIN sessions \subseteq Peers /\ cursor \in 0..Len(log)
  /\ \A peer \in DOMAIN sessions : sessions[peer] \subseteq Ids

ChatInit ==
  /\ log = <<>> /\ gone = {} /\ open = {} /\ polls = <<>>
  /\ sessions = <<>> /\ cursor = 0 /\ backfilled = FALSE /\ made = 0

-----------------------------------------------------------------------------
(* The daemon (external). *)

Store(peer) ==
  /\ Len(log) < MaxMessages
  /\ log' = Append(log, peer) /\ open' = open \union {peer}

Close(peer) ==
  /\ open' = open \ {peer}
  /\ gone' = gone \union Of(peer, 0)

(* A peer writes; another client closes a session. *)
Elsewhere(peer) ==
  /\ \/ Store(peer) /\ UNCHANGED gone
     \/ peer \in open /\ Close(peer) /\ UNCHANGED log
  /\ UNCHANGED <<polls, sessions, cursor, backfilled, made>>

-----------------------------------------------------------------------------
(* The calls: each builds its request at once. *)

Poll(request) ==
  /\ ChatSessions /\ made < MaxPolls /\ made' = made + 1
  /\ polls' = Append(polls, request)
  /\ UNCHANGED <<log, gone, open, sessions, cursor, backfilled>>

CallFetch == Poll([op |-> "fetch", after |-> cursor])
CallHistory(peer, after) == Poll([op |-> "history", peer |-> peer, after |-> after])
CallSend(peer) == Poll([op |-> "send", peer |-> peer])
CallClose(peer) == Poll([op |-> "close", peer |-> peer])

(* Mutant: what arrives replaces what was there. *)
NewestMessages(previous, incoming) == IF incoming = {} THEN previous ELSE incoming

(* mergeMessages(): by id, in order. *)
MergeMessages(previous, incoming) == previous \union incoming

Previous(peer) == IF peer \in DOMAIN sessions THEN sessions[peer] ELSE {}

Head1 == Head(polls)
Answer(op) == polls # <<>> /\ Head1.op = op /\ polls' = Tail(polls)

(* fetch(): the sessions of the reply are the sessions there are. *)
FetchAnswered ==
  /\ Answer("fetch")
  /\ cursor' = Len(log)
  /\ sessions' = [peer \in open |-> MergeMessages(Previous(peer), Of(peer, Head1.after))]
  /\ UNCHANGED <<log, gone, open, backfilled, made>>

(* fetchHistory(): one session, or none if the reply leaves it out; its    *)
(* top-level id is, for all the client knows, the last of the store, the   *)
(* last of that session, or absent.                                        *)
HistoryAnswered ==
  /\ Answer("history")
  /\ \/ cursor' = Len(log)
     \/ cursor' \in {id \in Of(Head1.peer, 0) : \A other \in Of(Head1.peer, 0) : other <= id}
     \/ cursor' = cursor
  /\ \/ /\ Head1.peer \in open
        /\ sessions' = [peer \in DOMAIN sessions \union {Head1.peer} |->
                          IF peer = Head1.peer
                          THEN MergeMessages(Previous(peer), Of(peer, Head1.after))
                          ELSE sessions[peer]]
     \/ UNCHANGED sessions
  /\ backfilled' = (backfilled \/ cursor' # cursor)
  /\ UNCHANGED <<log, gone, open, made>>

(* sendToSession(), sendToAddress(): the daemon opens the session if it    *)
(* has none.  closeSession().  Neither touches what is tracked.            *)
SendAnswered ==
  /\ Answer("send") /\ Store(Head1.peer)
  /\ UNCHANGED <<gone, sessions, cursor, backfilled, made>>

CloseAnswered ==
  /\ Answer("close") /\ Head1.peer \in open /\ Close(Head1.peer)
  /\ UNCHANGED <<log, sessions, cursor, backfilled, made>>

(* EC_OP_FAILED, another opcode, or no answer: the call throws before it   *)
(* has changed anything.                                                   *)
PollFails ==
  /\ polls # <<>> /\ polls' = Tail(polls)
  /\ UNCHANGED <<log, gone, open, sessions, cursor, backfilled, made>>

ChatNext ==
  \/ CallFetch
  \/ \E peer \in Peers : \/ Elsewhere(peer) \/ CallSend(peer) \/ CallClose(peer)
                         \/ \E after \in {0, cursor} : CallHistory(peer, after)
  \/ FetchAnswered \/ HistoryAnswered \/ SendAnswered \/ CloseAnswered \/ PollFails

ChatSpec == ChatInit /\ [][ChatNext]_chatVars

-----------------------------------------------------------------------------
(* Polling misses nothing: as long as only fetch() has moved the cursor,   *)
(* every message up to it that is still in the store is held, although     *)
(* sessions are closed and opened again and calls overlap, a request       *)
(* carrying a cursor older than the one it finds when it is answered.      *)
PollingMissesNothing ==
  ~backfilled => \A message \in (1..cursor) \ gone :
                   log[message] \in DOMAIN sessions /\ message \in sessions[log[message]]

(* No answer takes messages away from a session that stays: a backfill     *)
(* that brings older ones, a poll that brings none.                        *)
MessagesAreKept ==
  [][\A peer \in DOMAIN sessions \intersect DOMAIN sessions' :
       sessions[peer] \subseteq sessions'[peer]]_chatVars
=============================================================================
