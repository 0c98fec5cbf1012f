------------------------------- MODULE Arrays -------------------------------
(***************************************************************************)
(* The one algorithm the server's two arrays share.  Both pollfd_array.c   *)
(* and room.c delete an element by copying the last live element over it   *)
(* and decrementing the length, so the order of the others changes.        *)
(* A C array with its length is a sequence of the live elements; C index   *)
(* i is position i + 1.                                                    *)
(***************************************************************************)
EXTENDS Naturals, Sequences

(* a[i] = a[len - 1]; len--  (a position past the end only drops the last) *)
SwapRemove(s, i) ==
  [k \in 1 .. (Len(s) - 1) |-> IF k = i THEN s[Len(s)] ELSE s[k]]

(* No element occurs at two positions. *)
NoRepeats(s) == \A j, k \in 1 .. Len(s) : s[j] = s[k] => j = k

(* e occurs in s. *)
Occurs(e, s) == \E k \in 1 .. Len(s) : s[k] = e
=============================================================================
