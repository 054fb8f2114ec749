---------------------------- MODULE MCLossyChannel ----------------------------
(* What the applications send in each of the runs.                         *)
EXTENDS LossyChannel

MCPayload == {"a", "b", "c", "d"}
\* three packets one way: gaps of one and of two, requests and resends
OneWay == [e \in Ends |-> IF e = Opener THEN <<"a", "b", "c">> ELSE <<>>]
\* two and one: acks ride on content
TwoWays == [e \in Ends |-> IF e = Opener THEN <<"a", "b">> ELSE <<"c">>]

==============================================================================
