------------------------------ MODULE MCDeployment ------------------------------
(***************************************************************************)
(* Instances of Deployment for TLC.                                        *)
(***************************************************************************)
EXTENDS Deployment

CONSTANTS combined, code1, code2, art1, art2

\* The older artifact release lacks what the last code needs.
WorkingReleases ==
  {r \in Release : ~(r.code = code2 /\ r.artifact = art1)}

=============================================================================
