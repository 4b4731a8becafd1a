---------------------------- MODULE PacketChannel ----------------------------
(***************************************************************************)
(* What the byte stream of a connection promises: the packets of a socket  *)
(* come out whole, once each and in the order they were posted, and a new  *)
(* socket starts with none.                                                *)
(***************************************************************************)
EXTENDS Naturals, Sequences

CONSTANT Posted       \* what can be posted

VARIABLES sent, received

channelVars == <<sent, received>>

Init == sent = <<>> /\ received = <<>>

Post(p) == sent' = Append(sent, p) /\ UNCHANGED received

Receive ==
  /\ Len(received) < Len(sent)
  /\ received' = Append(received, sent[Len(received) + 1])
  /\ UNCHANGED sent

Replace == sent' = <<>> /\ received' = <<>>

Next == Receive \/ Replace \/ \E p \in Posted : Post(p)

Spec == Init /\ [][Next]_channelVars
=============================================================================
