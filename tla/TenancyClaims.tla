---------------------------- MODULE TenancyClaims ----------------------------
(* What Tenancy promises, whatever requests overlap. *)
EXTENDS Tenancy

(* A school that is open, or was suspended and may be reactivated, has     *)
(* been approved by a super admin at some time, although transitions act   *)
(* on a status they read earlier (school.go:271-318).                      *)
OpenWasApproved ==
    \A s \in Schools : school[s].status \in {"approved", "suspended"} => school[s].approvedAt

(* Nobody holds a token of a school before its approval: an admin cannot   *)
(* sign in to a school that is pending (middleware.go:55-58).              *)
TokensNeedApproval ==
    \A t \in tokens : SchoolOf[t.user] # None => school[SchoolOf[t.user]].approvedAt

(* requireAuth trusts the token for role and identity.  Rights that the    *)
(* account no longer has, because it is barred or its role has changed,    *)
(* end AccessTTL after the change, however the holder refreshes.           *)
StaleRightsExpire ==
    \A t \in tokens :
        /\ t.kind = "access"
        /\ account[t.user].status # "active" \/ account[t.user].role # t.role
        => t.left + since[t.user] <= AccessTTL

Staff == {"admin", "librarian"}

(* An account changes by a request whose token came from an admin of the   *)
(* same school; librarians create only students and teachers, and the      *)
(* registration of a school creates its first admin.                       *)
RightsComeFromAdmins ==
    [][\A u \in People : account'[u] # account[u] =>
          \/ /\ account[u].status = "none"
             /\ school[SchoolOf[u]].status = "none" /\ u = FirstAdmin[SchoolOf[u]]
          \/ \E p \in Procs :
               /\ req[p].step = "handle" /\ req'[p].step = "idle"
               /\ SchoolOf[req[p].user] = SchoolOf[u]
               /\ \/ req[p].role = "admin"
                  \/ /\ req[p].role = "librarian" /\ account[u].status = "none"
                     /\ account'[u].role \notin Staff
      ]_vars
-----------------------------------------------------------------------------
(* The inductive invariant behind these: what a request that is under way  *)
(* knows stays true while it waits.                                        *)
FreeSlugs ==
    \A s \in Schools : school[s].status = "none" =>
        /\ ~school[s].approvedAt
        /\ \A u \in People : SchoolOf[u] = s => account[u].status = "none"
TransitionOK(r) ==
    r.step \in {"check", "write"} =>
        /\ r.op \in Transitions /\ r.school \in Schools
        /\ r.step = "write" /\ r.op \in {"suspend", "reactivate"}
             => school[r.school].approvedAt
AdmittedOK(r) ==
    r.step \in {"read", "issue", "handle"} =>
        /\ r.user \in People
        /\ r.school # None => school[r.school].approvedAt
SignInOK(r) ==
    r.step = "issue" =>
        /\ SchoolOf[r.user] = r.school /\ r.role \in AnyRole
        /\ \/ since[r.user] = 0
           \/ account[r.user] = [status |-> "active", role |-> r.role]
HandlerOK(r) ==
    r.step = "handle" =>
        /\ SchoolOf[r.user] = r.school /\ r.school \in Schools
        /\ MayCall(r.op, r.role)
RequestOK(r) == TransitionOK(r) /\ AdmittedOK(r) /\ SignInOK(r) /\ HandlerOK(r)
IInv ==
    /\ TypeOK /\ OpenWasApproved /\ TokensNeedApproval /\ StaleRightsExpire
    /\ FreeSlugs
    /\ \A p \in Procs : RequestOK(req[p])
=============================================================================
