----------------------------- MODULE MCPromote -----------------------------
(***************************************************************************)
(* Promote for TLC: two source files, one on the mountpath of the object   *)
(* and one elsewhere, with different contents.                             *)
(***************************************************************************)
EXTENDS Promote, TLC

CONSTANTS near, far, a, b

\* The calls are interchangeable: each chooses what it does when it begins.
CallerSymmetry == Permutations(Callers)

TwoSources   == {near, far}
NearOnly     == {near}
TwoContents  == {a, b}
NearAFarB    == (near :> a) @@ (far :> b)

\* Every combination of source, DeleteSrc, OverwriteDst and checksum.
AllParams    == PromoteParams

\* Calls that must not overwrite, with no checksum of their own.
KeepDst      == {p \in PromoteParams : ~p.OverwriteDst /\ p.Cksum = NoCksum}

=============================================================================
