------------------------------- MODULE MCSeek ---------------------------------
EXTENDS Seek

me == <<0, 0>>
target == <<1, 15>>
met == <<<<1, 0>>, <<1, 8>>, <<2, 0>>, <<0, 1>>>>
==============================================================================
