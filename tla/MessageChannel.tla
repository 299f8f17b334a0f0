--------------------------- MODULE MessageChannel ----------------------------
(***************************************************************************)
(* What one direction of a connection promises: the messages written by    *)
(* all the writers, in the one order the writer's mutex gives them, are    *)
(* returned by the reader one by one, each as it was written.              *)
(***************************************************************************)
EXTENDS Naturals, Sequences

CONSTANTS
  Messages,   \* the messages an application may write
  AsSeen(_)   \* a written message as the reader returns it

VARIABLES sent, got

Init == sent = <<>> /\ got = <<>>

Send ==
  /\ \E m \in Messages : sent' = Append(sent, m)
  /\ UNCHANGED got

Deliver ==
  /\ Len(got) < Len(sent)
  /\ got' = Append(got, AsSeen(sent[Len(got) + 1]))
  /\ UNCHANGED sent

Next == Send \/ Deliver

Spec == Init /\ [][Next]_<<sent, got>> /\ WF_<<sent, got>>(Deliver)
=============================================================================
