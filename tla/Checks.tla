------------------------------- MODULE Checks -------------------------------
(***************************************************************************)
(* Checks in the order in which the code makes them: each passes or says   *)
(* what the call is refused with, and the first refusal counts.            *)
(***************************************************************************)

Passed == <<>>

Refuse(condition, refusal) == IF condition THEN <<refusal>> ELSE Passed

first ?? second == IF first = Passed THEN second ELSE first
=============================================================================
