---------------------------- MODULE MCFifoChannel -----------------------------
(* The opener sends its first packet, one whose loss a later packet         *)
(* uncovers, that later one, and an end; the responder one packet and an    *)
(* end.                                                                    *)
EXTENDS FifoChannel

MCAmount == [e \in Ends |-> IF e = Opener THEN 3 ELSE 1]

==============================================================================
