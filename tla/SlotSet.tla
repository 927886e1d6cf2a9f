------------------------------ MODULE SlotSet ------------------------------
(***************************************************************************)
(* What a status list is to a consumer: a set of revoked slots among the   *)
(* first n, that only grows.                                               *)
(***************************************************************************)
EXTENDS Integers

VARIABLES slots, revoked

vars == <<slots, revoked>>

Init == slots \in Nat /\ revoked = {}

Revoke(i) ==
    /\ i \in 0 .. slots - 1
    /\ revoked' = revoked \cup {i}
    /\ UNCHANGED slots

Next == \E i \in 0 .. slots - 1 : Revoke(i)

Spec == Init /\ [][Next]_vars
=============================================================================
