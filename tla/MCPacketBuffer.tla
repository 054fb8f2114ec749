---------------------------- MODULE MCPacketBuffer ----------------------------
(* Five nodes, sequence numbers 0..3 and two packets for two of them: every *)
(* shape of a list of up to four nodes, and a duplicate with other content. *)
EXTENDS PacketBuffer, TLC

MCPacket == {[seq |-> s, tag |-> "first"] : s \in 0..3}
            \union {[seq |-> s, tag |-> "second"] : s \in {1, 3}}
NodeSymmetry == Permutations(Node)

==============================================================================
