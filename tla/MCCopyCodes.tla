---------------------------- MODULE MCCopyCodes ----------------------------
(* Three books: two that share a prefix, and one whose prefix is its own.  *)
EXTENDS CopyCodes, TLC
CONSTANTS b1, b2, b3, x, y, s

Prefixes == b1 :> x @@ b2 :> x @@ b3 :> y
Schools  == [b \in Books |-> s]
=============================================================================
