----------------------------- MODULE MCTorDrain ----------------------------
(***************************************************************************)
(* Instances of TorDrain for TLC: one thread of the host enqueues while    *)
(* the host drains.                                                        *)
(***************************************************************************)
EXTENDS TorDrain, TLC

CONSTANTS r1, r2, r3, h1, host

Sizes    == [r \in Report |-> IF r = r3 THEN 2 ELSE 1]
OwnerOne == h1 :> host
=============================================================================
