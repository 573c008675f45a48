------------------------ MODULE MCMultisigWorkbench ------------------------
(***************************************************************************)
(* Two tasks: the 2-of-3 task of the store's seed data, with one signature *)
(* collected, and a 2-of-2 task without any.                               *)
(***************************************************************************)
EXTENDS MultisigWorkbench, TLC

CONSTANTS alice, bob, carol, t1, t2

MCSigners   == {alice, bob, carol}
MCSignersOf == (t1 :> MCSigners) @@ (t2 :> {alice, bob})
MCThreshold == (t1 :> 2) @@ (t2 :> 2)
MCSeed ==
    (t1 :> [approved |-> {alice}, pending |-> {bob, carol}, status |-> "approving"])
    @@ (t2 :> [approved |-> {}, pending |-> {alice, bob}, status |-> "pending"])
=============================================================================
