--------------------------- MODULE MCCirculation ---------------------------
(* Small instances of Circulation, and the workloads that the runs send.   *)
EXTENDS CirculationInv, TLC

(* Copies over books, books and readers over schools: each gets some. *)
Spread(S, T) == CHOOSE f \in [S -> T] : \A t \in T : \E x \in S : f[x] = t

BookOfCopies   == Spread(Copies, Books)
SchoolOfBooks  == Spread(Books, Schools)
SchoolOfUsers  == Spread(Users, Schools)

LendWork    == {"borrow", "return", "renew", "copy_new", "copy_delete", "copy_patch"}
LimitWork   == {"borrow", "return", "user_patch", "copy_new", "copy_patch"}
QueueWork   == {"borrow", "return", "reserve", "resv_patch", "copy_delete"}
FineWork    == {"borrow", "return", "renew", "settle", "reserve"}
AloneWork   == {"borrow", "return", "renew", "reserve", "settle", "user_patch"}

Disabling == {[status |-> "disabled", max |-> 1]}

Symmetry == Permutations(Procs) \cup Permutations(Users) \cup Permutations(Copies)
=============================================================================
