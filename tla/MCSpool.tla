------------------------------ MODULE MCSpool ------------------------------
(***************************************************************************)
(* Instances of Spool for TLC: the host application with two threads, or   *)
(* with one beside the crash monitor, and reports of one, two or four      *)
(* units, the last beyond a budget of three.                               *)
(***************************************************************************)
EXTENDS Spool, TLC

CONSTANTS r1, r2, r3, r4, h1, h2, host, monitor

ReportsOf3 == {r1, r2, r3}
SizesOf3   == r1 :> 1 @@ r2 :> 2 @@ r3 :> 4

\* A thread of the host and the monitor's handler.
OwnerBoth == h1 :> host @@ h2 :> monitor

ReportsOf4 == {r1, r2, r3, r4}
SizesOf4   == r1 :> 1 @@ r2 :> 2 @@ r3 :> 2 @@ r4 :> 4

OwnerAlone == h1 :> host
=============================================================================
