---------------------------- MODULE MCCdpClients ----------------------------
(* A client of a session and one of none, two tabs; what is inside pages is  *)
(* in the first.                                                            *)
EXTENDS CdpClients, TLC

CONSTANTS raw, own, rig, t1, t2, page1, page2, frame, popup, k1, k2

MCRigOf == (raw :> None) @@ (own :> rig)
MCAttachedAs == (t1 :> {<<"user", None>>, <<"relay", rig>>}) @@ (t2 :> {})
MCBefore == (t1 :> [tab |-> t1, session |-> 1, page |-> page1, owner |-> "user", rig |-> None])
         @@ (t2 :> [tab |-> t2, session |-> 2, page |-> page2, owner |-> "relay", rig |-> None])
MCWithin == {[session |-> k1, target |-> frame, parent |-> 1, exposed |-> TRUE]}
MCTabOf == [x \in Page \cup Inside |-> IF x = page2 THEN t2 ELSE t1]
=============================================================================
