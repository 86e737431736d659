---------------------------- MODULE LendingDesk ----------------------------
(***************************************************************************)
(* What the circulation desk promises about one copy: it is on the shelf   *)
(* or with one reader, whoever asks and in whatever order; a loan can be   *)
(* extended once; only a return ends it.  Lending is POST /borrow,         *)
(* extending POST /borrow/:id/renew, taking back POST /borrow/:id/return.  *)
(***************************************************************************)
CONSTANTS Copies, Users, Nobody

VARIABLES holder,    \* who has each copy
          extended   \* the copies whose present loan was renewed

vars == <<holder, extended>>

TypeOK == holder \in [Copies -> Users \cup {Nobody}] /\ extended \subseteq Copies

Init == holder = [c \in Copies |-> Nobody] /\ extended = {}

Lend(c, u) ==
    /\ holder[c] = Nobody
    /\ holder' = [holder EXCEPT ![c] = u]
    /\ UNCHANGED extended

Extend(c) ==
    /\ holder[c] # Nobody /\ c \notin extended
    /\ extended' = extended \cup {c}
    /\ UNCHANGED holder

TakeBack(c) ==
    /\ holder[c] # Nobody
    /\ holder' = [holder EXCEPT ![c] = Nobody]
    /\ extended' = extended \ {c}

Next == \E c \in Copies : Extend(c) \/ TakeBack(c) \/ \E u \in Users : Lend(c, u)

Spec == Init /\ [][Next]_vars
=============================================================================
