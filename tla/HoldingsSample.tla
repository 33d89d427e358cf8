---------------------------- MODULE HoldingsSample ----------------------------
(***************************************************************************)
(* Products and responses for TLC.  p1 answers with a share and cash, with *)
(* the share alone, or after the cutoff; p2 with a share, with another     *)
(* one on a later day, or with a corrected weight beside a derivative; p3  *)
(* is in the catalog and in no workbook.                                   *)
(***************************************************************************)
EXTENDS Functions

Position(code, form, name, asset, weight) ==
  [code |-> code, form |-> form, name |-> name, asset |-> asset,
   market |-> "listed", weight |-> weight, amount |-> "share"]

A == Position("a", "digits", "company", "Equity", "share")
Deposit == Position("won", "deposit", "cash", "Cash", "share")
M == Position("m", "digits", "company", "Equity", "share")
C == Position("c", "digits", "company", "Equity", "share")
Corrected == [C EXCEPT !.amount = "over"]
D == Position("d", "derivative", "company", "Futures", "share")
L == Position("l", "letters", "company", "Equity", "share")

Answer(day, items) ==
  [items |-> items, formed |-> TRUE, counted |-> TRUE, named |-> TRUE, day |-> day]

Replies == [r \in {"whole", "part", "late", "other", "moved", "mixed"} |->
  CASE r = "whole" -> Answer(1, <<A, Deposit>>)
    [] r = "part" -> Answer(1, <<A>>)
    [] r = "late" -> Answer(3, <<A, L>>)
    [] r = "other" -> Answer(1, <<C>>)
    [] r = "moved" -> Answer(2, <<M>>)
    [] r = "mixed" -> Answer(1, <<Corrected, D>>)]

Products == <<"p1", "p2", "p3">>
Known == [isin |-> 0, ticker |-> 1, whole |-> TRUE, safe |-> TRUE]
Unknown == [isin |-> 0, ticker |-> 0, whole |-> FALSE, safe |-> FALSE]
Listed == [p \in Range(Products) |-> IF p = "p3" THEN Unknown ELSE Known]
Listings ==
  [s \in {"kodex", "tiger", "ishares"} |->
     IF s = "ishares" THEN {{"p1", "p2"}, Range(Products)} ELSE {Range(Products)}]

Offered == [p \in Range(Products) |->
  CASE p = "p1" -> {"whole", "late"} [] p = "p2" -> {"other", "moved", "mixed"} [] p = "p3" -> {}]
Steady == [p \in Range(Products) |->
  CASE p = "p1" -> {"whole", "part"} [] p = "p2" -> {"other", "mixed"} [] p = "p3" -> {}]
=============================================================================
