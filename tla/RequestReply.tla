---------------------------- MODULE RequestReply ----------------------------
(***************************************************************************)
(* What ECConnection.request() promises its callers, whatever happens to   *)
(* the socket underneath: calls settle in the order they were made, one at *)
(* a time, each with the reply to its own request or with an error, and    *)
(* each settles eventually.                                                *)
(***************************************************************************)
EXTENDS Sequences

CONSTANT Call     \* the calls; the reply to a call is named by the call

VARIABLES
  pending,        \* the calls made and not settled, oldest first
  outcome         \* what each call settled with

callVars == <<pending, outcome>>

Init == pending = <<>> /\ outcome = [c \in Call |-> "none"]

Request(c) ==
  /\ outcome[c] = "none"
  /\ \A i \in DOMAIN pending : pending[i] # c
  /\ pending' = Append(pending, c)
  /\ UNCHANGED outcome

(* The oldest call settles, with its own reply or with an error. *)
Settle ==
  /\ pending # <<>>
  /\ pending' = Tail(pending)
  /\ \E o \in {Head(pending), "error"} :
       outcome' = [outcome EXCEPT ![Head(pending)] = o]

Next == Settle \/ \E c \in Call : Request(c)

Spec == Init /\ [][Next]_callVars

FairSpec == Spec /\ WF_callVars(Settle)
=============================================================================
