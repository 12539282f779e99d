----------------------------- MODULE MCVmBackup -----------------------------
(***************************************************************************)
(* The two ARM tools for TLC: two subscriptions, each with a vault and a   *)
(* VM.  The VMs have one name and lie in different groups; only the first  *)
(* has ever been backed up.                                                *)
(***************************************************************************)
EXTENDS VmActivity, TLC

CONSTANTS s1, s2, v1, v2, m1, m2, g1, g2, vmAdmin, vmAlert, diskAdmin, netAdmin, alien

MCHomeOf == (v1 :> s1) @@ (v2 :> s2) @@ (m1 :> s1) @@ (m2 :> s2)
MCGroupOf == (m1 :> g1) @@ (m2 :> g2)
MCItemStates == (m1 :> {"on", "off", "unclear"}) @@ (m2 :> {})

At(sub, group, category, on) == [sub |-> sub, group |-> group, category |-> category, on |-> on]

\* Two events on the first VM, one beside it in its group, one in another group of its
\* subscription and one in the other subscription.
MCEventAt ==
    (vmAdmin :> At(s1, g1, "Administrative", m1)) @@ (vmAlert :> At(s1, g1, "other", m1)) @@
    (diskAdmin :> At(s1, g1, "Administrative", None)) @@
    (netAdmin :> At(s1, g2, "Administrative", None)) @@ (alien :> At(s2, g2, "ServiceHealth", None))
=============================================================================
