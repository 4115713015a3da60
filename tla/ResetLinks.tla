----------------------------- MODULE ResetLinks -----------------------------
(***************************************************************************)
(* What the reset links promise: of the links mailed for an account at     *)
(* most one is live, the newest; a link is admitted only while it is live, *)
(* and only for the account it was mailed for; the first use of a link     *)
(* ends it, and the live link of the account with it.  Once dead, by use,  *)
(* age or a newer link, a link is never admitted again.  A request that    *)
(* was admitted before may still use it: requests that present one link at *)
(* the same time can all succeed.                                          *)
(***************************************************************************)
CONSTANTS
  Users,     \* accounts
  Requests,  \* requests; a link is named after the one that generated it
  None       \* no link

VARIABLES
  live,     \* the link of an account that is accepted now, or None
  dead,     \* the links that were live once
  holding,  \* the admitted uses in progress, as <<request, link, account>>
  used      \* the uses that set a password

linkVars == <<live, dead, holding, used>>

LinksInit ==
  /\ live = [u \in Users |-> None]
  /\ dead = {}
  /\ holding = {}
  /\ used = {}

(* The link of u dies and new takes its place. *)
Replace(u, new) ==
  /\ live' = [live EXCEPT ![u] = new]
  /\ dead' = dead \cup ({live[u]} \ {None})

(* A new link: one that was never live. *)
Issue(k, u) ==
  /\ k \notin dead
  /\ \A v \in Users : live[v] # k
  /\ Replace(u, k)
  /\ UNCHANGED <<holding, used>>

Expires(u) ==
  /\ live[u] # None
  /\ Replace(u, None)
  /\ UNCHANGED <<holding, used>>

Admit(r, u) ==
  /\ live[u] # None
  /\ holding' = holding \cup {<<r, live[u], u>>}
  /\ UNCHANGED <<live, dead, used>>

Use(r, k, u) ==
  /\ <<r, k, u>> \in holding
  /\ holding' = holding \ {<<r, k, u>>}
  /\ used' = used \cup {<<r, k, u>>}
  /\ Replace(u, None)

Drop(r, k, u) ==
  /\ <<r, k, u>> \in holding
  /\ holding' = holding \ {<<r, k, u>>}
  /\ UNCHANGED <<live, dead, used>>

LinksNext ==
  \E u \in Users :
    \/ Expires(u)
    \/ \E r \in Requests : Admit(r, u) \/ Issue(r, u)
    \/ \E r, k \in Requests : Use(r, k, u) \/ Drop(r, k, u)

LinksSpec == LinksInit /\ [][LinksNext]_linkVars
=============================================================================
