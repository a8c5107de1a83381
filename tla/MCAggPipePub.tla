----------------------------- MODULE MCAggPipePub -----------------------------
(* Instances of AggPipePub for TLC.  Versions 2 and 3 are equal for          *)
(* IsAggEqual, 1 is not.                                                     *)
EXTENDS AggPipePub, TLC

AllModes == AggPipePubUpdateMode

(* NewClient without a filter, and with one that refuses version 2 although  *)
(* it is equal to 3.                                                         *)
SomeFilters == {Versions, {3}}
(* A publisher that has been filled with one id, and a new one. *)
OldData == {1 :> 1}
NewOnly == {empty}

NoFilter == {Versions}

(* The clients are interchangeable. *)
Symmetry == Permutations(Clients)
===============================================================================
