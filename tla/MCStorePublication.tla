--------------------------- MODULE MCStorePublication ---------------------------
(***************************************************************************)
(* Instances of StorePublication for TLC.  Two funds and an organization   *)
(* come from the sources; each fund may hold one security.                 *)
(***************************************************************************)
EXTENDS StorePublication

CONSTANTS fund1, fund2, org, security, managed1, managed2, corrected1, holds1, holds2

Entities == {fund1, fund2, org, security}
Products == {fund1, fund2}
HoldsFacts == {holds1, holds2}
Facts == {managed1, managed2, corrected1} \cup HoldsFacts
Subjects == [f \in Facts |-> IF f \in {managed2, holds2} THEN fund2 ELSE fund1]
Objects == [f \in Facts |-> IF f \in HoldsFacts THEN security ELSE org]

\* The second release derives a fact, and a product, more than the first.
Additive == <<{managed1}, {managed1, managed2}>>

\* One release.
Single == <<{managed1}>>

\* The third release no longer derives the product that the second added.
Varying == <<{managed1}, {managed1, managed2}, {managed1}>>

\* Both releases derive the same product, related by different facts.
Corrected == <<{managed1}, {corrected1}>>

=============================================================================
