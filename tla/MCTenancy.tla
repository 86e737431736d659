----------------------------- MODULE MCTenancy -----------------------------
(* Two schools that are open from the start, and one that registers. *)
EXTENDS TenancyClaims, TLC
CONSTANTS demo, other, fresh, root, head, clerk, guest, warden, founder

SchoolOfPeople == root :> None @@ head :> demo @@ clerk :> demo
                    @@ guest :> other @@ warden :> other @@ founder :> fresh
AdminOfSchool  == demo :> head @@ other :> warden @@ fresh :> founder
SignIns        == {<<head, demo>>, <<head, other>>, <<clerk, demo>>, <<guest, other>>,
                   <<founder, fresh>>, <<root, demo>>}
PeopleWork     == {"login", "refresh", "logout", "user_patch", "user_create"}
SchoolWork     == {"login", "refresh", "super_login", "register"} \cup Transitions
Work           == {PeopleWork, SchoolWork}
Demotions      == {[status |-> "active", role |-> "librarian"],
                   [status |-> "disabled", role |-> "librarian"]}
Symmetry       == Permutations(Procs)
=============================================================================
