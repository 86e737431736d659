----------------------------- MODULE MCScreens -----------------------------
(* A small instance of Screens.  Each book has a prefix of its own: eight  *)
(* digits of a random id; Codes is the run where two books share one.      *)
EXTENDS Screens

OwnPrefix == [b \in Books |-> b]
OneSchool == [b \in Books |-> "school"]
=============================================================================
