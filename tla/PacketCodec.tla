----------------------------- MODULE PacketCodec ------------------------------
(***************************************************************************)
(* THPacket: encode puts a two byte length, the json and the body behind   *)
(* each other, packetData: splits them again.  A json object is here its   *)
(* length in bytes, 0 for none; a body is any value.  The length a packet  *)
(* was read with (jsonLength) is kept with it, and encode writes the       *)
(* larger of the two.                                                      *)
(***************************************************************************)
EXTENDS Integers

\* Bytes of {"c":id}, and of a field behind it.
Digits(n) == IF n < 10 THEN 1 ELSE IF n < 100 THEN 2 ELSE 3
IdBytes(id) == 6 + Digits(id)
EndBytes(id) == IdBytes(id) + 11

Encode(json, jsonLength, body) ==
  [header |-> IF json > jsonLength THEN json ELSE jsonLength,
   json   |-> json,
   body   |-> body]

\* A header below 2 stands for no json; any other must end with the object,
\* as what is behind it in its bytes is the body's, and no part of it.
Parses(d) == IF d.header < 2 THEN d.json = 0 ELSE d.header = d.json

==============================================================================
