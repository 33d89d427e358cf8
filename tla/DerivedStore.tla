------------------------------ MODULE DerivedStore ------------------------------
(***************************************************************************)
(* What a store derived from the canonical database promises its readers   *)
(* (app/derived/manifest.py, README.md M10.8-E): at every moment it either *)
(* refuses them or shows them one whole projection, exactly as it was      *)
(* extracted from the database.  It changes by being withdrawn or by       *)
(* publishing another whole projection, never piece by piece.              *)
(*                                                                         *)
(* The Neo4j graph and the semantic index of StorePublication implement    *)
(* it, the graph by a manifest that says BUILDING while the content is     *)
(* replaced in batches, the index by one atomic os.replace.                *)
(***************************************************************************)
CONSTANT
  Withdrawn   \* the store refuses to be read

VARIABLES
  shown,      \* the projection readers are shown, or Withdrawn
  extracted   \* every projection extracted from the database so far

storeVars == <<shown, extracted>>

StoreInit ==
  /\ shown = Withdrawn
  /\ extracted = {}

\* A job reads the database.
Extract ==
  /\ extracted \subseteq extracted'
  /\ UNCHANGED shown

\* The store refuses its readers from here on.
Withdraw ==
  /\ shown' = Withdrawn
  /\ UNCHANGED extracted

\* Readers are shown a projection, whole and as extracted.
Publish ==
  /\ shown' \in extracted
  /\ UNCHANGED extracted

StoreNext == Extract \/ Withdraw \/ Publish

StoreSpec == StoreInit /\ [][StoreNext]_storeVars

=============================================================================
