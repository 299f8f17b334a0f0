------------------------------ MODULE MCDuplex -------------------------------
(* Small instances of Duplex.                                              *)
EXTENDS Duplex

CONSTANTS LeftWrites, RightWrites
MCMaxWrites == [e \in Ends |-> IF e = Left THEN LeftWrites ELSE RightWrites]

\* The left end publishes, the right one only pings.
MCMessages ==
  [e \in Ends |-> IF e = Left THEN {DataMessage(3, 3), DataMessage(1, 1)} ELSE {<<Ping>>}]
=============================================================================
