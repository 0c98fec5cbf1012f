------------------------------ MODULE MCCodec ------------------------------
(* Codec for TLC: lengths at and next to the limits of the fields and of   *)
(* the counts' bytes; times before, at and after 2^31 and 2^32.            *)
EXTENDS Codec

(* A string of length n.  The characters do not matter, as long as         *)
(* neighbours differ and none is NUL.                                      *)
StringOf(n) == [k \in 1 .. n |-> 1 + ((k * 7) % 120)]

MCNames == {StringOf(n) : n \in {0, 1, 2, 9, 48, 49}}
MCTypedNames == {StringOf(n) : n \in {1, 2, 48, 49, 50, 51, 99, 100}}
MCTexts == {StringOf(n) : n \in {0, 1, 2, 253, 254, 255, 256, 257, 511, 998, 999}}
MCReplies == {StringOf(n) : n \in {0, 1, 2, 61, 98, 99}}
MCTimes == {<<0, 0, 0, 0, 0, 0, 0, 0>>,
            <<0, 0, 0, 0, 104, 1, 2, 3>>,
            <<0, 0, 0, 0, 255, 255, 255, 255>>,
            <<0, 0, 0, 1, 0, 0, 0, 5>>}
MCRoomIds == {0, 1, 5, 6, 127, 128, 255}
=============================================================================
