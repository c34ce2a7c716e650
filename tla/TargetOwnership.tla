--------------------------- MODULE TargetOwnership ---------------------------
(***************************************************************************)
(* What target ownership promises, without tabs, indexes or staging: a     *)
(* root generation (one debugger session of a page) has at most one        *)
(* settled owner, and an adoption is all or nothing.  A provisional claim  *)
(* changes no owner until it settles; when the page is replaced by a new   *)
(* generation the settled owner follows it and the claim does not.         *)
(* TargetRegistry implements this (src/target-registry.ts, interface       *)
(* TargetOwnership).                                                       *)
(***************************************************************************)
CONSTANTS Generation,  \* identities of root generations
          BrSession,   \* BrowserRig sessions
          None

VARIABLES owner,  \* owner[g]: the settled owner of a live generation, or None
          live,   \* the generations that are attached now
          claim   \* the claim in flight: [gen, session], or None

vars == <<owner, live, claim>>

NoClaimOn(g) == IF claim # None /\ claim.gen = g THEN None ELSE claim

Init ==
  /\ owner = [g \in Generation |-> None]
  /\ live = {}
  /\ claim = None

(* A page is attached, with the owner the caller names or none.            *)
Register(g, s) ==
  /\ g \notin live
  /\ live' = live \cup {g}
  /\ owner' = [owner EXCEPT ![g] = s]
  /\ UNCHANGED claim

(* Generation h takes the place of g in g's tab.                           *)
Succeed(g, h) ==
  /\ g \in live /\ h \notin live
  /\ live' = (live \ {g}) \cup {h}
  /\ owner' = [owner EXCEPT ![g] = None, ![h] = owner[g]]
  /\ claim' = NoClaimOn(g)

Retire(g) ==
  /\ g \in live
  /\ live' = live \ {g}
  /\ owner' = [owner EXCEPT ![g] = None]
  /\ claim' = NoClaimOn(g)

Claim(g, s) ==
  /\ g \in live /\ claim = None /\ owner[g] \in {s, None}
  /\ claim' = [gen |-> g, session |-> s]
  /\ UNCHANGED <<owner, live>>

(* The claim becomes the owner; the session lets go of the page G (at most *)
(* one generation) that it owned before.                                   *)
Settle(G) ==
  /\ claim # None /\ claim.gen \in live
  /\ \A g \in G : g # claim.gen /\ owner[g] = claim.session
  /\ owner' = [g \in Generation |->
       IF g = claim.gen THEN claim.session ELSE IF g \in G THEN None ELSE owner[g]]
  /\ claim' = None
  /\ UNCHANGED live

Withdraw ==
  /\ claim # None
  /\ claim' = None
  /\ UNCHANGED <<owner, live>>

(* A session that claims the page it owns may release it meanwhile: a new    *)
(* generation still takes the owner over, but the end of the claim does not  *)
(* give it back.                                                            *)
WithdrawReleased ==
  /\ claim # None /\ owner[claim.gen] = claim.session
  /\ claim' = None
  /\ owner' = [owner EXCEPT ![claim.gen] = None]
  /\ UNCHANGED live

Release(g, s) ==
  /\ owner[g] = s
  /\ owner' = [owner EXCEPT ![g] = None]
  /\ UNCHANGED <<live, claim>>

(* The extension connection is replaced: every generation is forgotten.    *)
Forget ==
  /\ owner' = [g \in Generation |-> None]
  /\ live' = {}
  /\ claim' = None

Next ==
  \/ \E g \in Generation, s \in BrSession \cup {None} : Register(g, s)
  \/ \E g, h \in Generation : Succeed(g, h)
  \/ \E g \in Generation : Retire(g)
  \/ \E g \in Generation, s \in BrSession : Claim(g, s) \/ Release(g, s)
  \/ Settle({}) \/ \E g \in Generation : Settle({g})
  \/ Withdraw \/ WithdrawReleased
  \/ Forget

Spec == Init /\ [][Next]_vars
=============================================================================
