-------------------------- MODULE MCSandboxAccount --------------------------
(***************************************************************************)
(* Instances of SandboxAccount for TLC.                                    *)
(***************************************************************************)
EXTENDS SandboxAccountChecks, TLC

CONSTANTS o1, o2, o3, o4, b1, b2, api1, api2, ws1, poll1

OneUnit == {-1, 1}
TwoUnits == {-2, -1, 1, 2}
NoHolding == [b \in {} |-> 0]
OneHeld == b1 :> 1
Flat == {0}
GainOrLoss == {-1, 1}

OrderSymmetry == Permutations(OrderIds)
RequestSymmetry == Permutations(OrderIds) \cup Permutations(ApiThreads)
=============================================================================
