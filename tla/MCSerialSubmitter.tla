------------------------- MODULE MCSerialSubmitter -------------------------
(* Instances of SerialSubmitter for TLC: the sets of messages by kind.     *)
EXTENDS SerialSubmitter

CONSTANTS o1, o2

OneOrigin == {o1}
TwoOrigins == {o1, o2}

NoMessages == {}
SecondOfO1 == {<<o1, 1>>}
FirstOfEach == {<<o1, 0>>, <<o2, 0>>}
=============================================================================
