------------------------ MODULE ClientSessionClaims ------------------------
(* What the texts say of the sessions of the client, and the code does not *)
(* keep to.                                                                *)
EXTENDS ClientSession

\* A page of one school, opened while the stored session is another school's,
\* leads to the login page of its own (docs/SRS.md:675; AppShell asks for it),
\* also when no tab is in the middle of writing what they share.
ForcedToLogin ==
  [][\A t \in Tabs :
       (\A u \in Tabs : Ready(u)) /\ at[t] \in Schools /\ token # None /\ slug # at[t] /\ Redirect(t)
         => screen'[t] = "login"]_vars

\* The stored token is the token of the school its slug names (api.ts:49)
\* whenever no tab is between the two writes.
TokenMatchesSlug ==
  (\A t \in Tabs : Ready(t)) /\ token # None /\ slug # None => HomeOf[token] = slug
=============================================================================
