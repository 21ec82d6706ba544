---------------------------- MODULE AbstractFifo ----------------------------
(***************************************************************************)
(* What a pipe promises: bytes come out in the order they went in, each     *)
(* once, and at most Capacity of them are in between.                      *)
(***************************************************************************)
EXTENDS Integers, Sequences

CONSTANTS Byte, Capacity

VARIABLES sent, received   \* everything ever put in, everything ever taken out

Init == sent = <<>> /\ received = <<>>

Put(b) ==
  /\ Len(sent) - Len(received) < Capacity
  /\ sent' = Append(sent, b)
  /\ UNCHANGED received

Get ==
  /\ Len(received) < Len(sent)
  /\ received' = Append(received, sent[Len(received) + 1])
  /\ UNCHANGED sent

Next == Get \/ \E b \in Byte : Put(b)

Spec == Init /\ [][Next]_<<sent, received>>
=============================================================================
