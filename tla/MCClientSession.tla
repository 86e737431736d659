-------------------------- MODULE MCClientSession --------------------------
(* Small instances of ClientSession. *)
EXTENDS ClientSessionClaims, TLC

\* Each site has an account of its own.
HomeOfPeople == CHOOSE f \in [People -> Sites] : \A s \in Sites : \E p \in People : f[p] = s

Here  == CHOOSE s \in Schools : TRUE
There == CHOOSE s \in Schools \ {Here} : TRUE
First == CHOOSE t \in Tabs : TRUE
Trip(one, rest, n) == [t \in Tabs |-> [sites |-> IF t = First THEN one ELSE rest, calls |-> n]]

\* Two schools side by side, two tabs of one school, one tab that goes from
\* school to school, and two tabs of the super administrator.
SomeTrips == {Trip({Here}, {There}, 1), Trip({Here}, {Here}, 1), Trip({Here, There}, {}, 2), Trip({Root}, {Root}, 1)}
=============================================================================
