----------------------------- MODULE StatusList -----------------------------
(***************************************************************************)
(* The status list under construction (pkg/statuslist): one bit per slot,  *)
(* kept in bytes. A byte is the set of its bit positions, 0 the least      *)
(* significant. publish makes a list for max(next, 8) slots and revokes    *)
(* the slot of each revoked entry, in any order; a consumer of the token   *)
(* reads bit i % 8 of byte i / 8.                                          *)
(***************************************************************************)
EXTENDS Integers

CONSTANT MaxSlots   \* BOUND: the largest n a list is made for
ASSUME MaxSlotsAssumption == MaxSlots \in Nat

VARIABLES bits,     \* byte number -> set of bit positions
          size      \* the number of slots Revoke accepts

vars == <<bits, size>>

Bytes(n) == 0 .. ((n + 7) \div 8) - 1

TypeOK == /\ size \in Nat
          /\ bits \in [Bytes(size) -> SUBSET (0..7)]

\* Defects for the runs to find, here and below.
InitUnrounded ==
    \E n \in 0..MaxSlots :
        /\ size = IF n < 8 THEN 8 ELSE n
        /\ bits = [b \in 0 .. (size \div 8) - 1 |-> {}]

\* New(n): never fewer than eight slots, and whole bytes.
Init ==
    \E n \in 0..MaxSlots :
        /\ size = IF n < 8 THEN 8 ELSE n
        /\ bits = [b \in Bytes(size) |-> {}]

RevokePadding(i) ==
    /\ 0 <= i /\ i < 8 * ((size + 7) \div 8)
    /\ bits' = [bits EXCEPT ![i \div 8] = @ \cup {i % 8}]
    /\ UNCHANGED size

RevokeReversed(i) ==
    /\ 0 <= i /\ i < size
    /\ bits' = [bits EXCEPT ![i \div 8] = @ \cup {7 - (i % 8)}]
    /\ UNCHANGED size

\* Any other index is refused, and the list is left alone.
Revoke(i) ==
    /\ 0 <= i /\ i < size
    /\ bits' = [bits EXCEPT ![i \div 8] = @ \cup {i % 8}]
    /\ UNCHANGED size

\* BOUND: TLC offers indices up to two beyond the list.
Next == \E i \in -2 .. size + 1 : Revoke(i)

Spec == Init /\ [][Next]_vars

IsRevoked(i) == /\ 0 <= i /\ i < size
                /\ (i % 8) \in bits[i \div 8]

\* What a consumer finds in the published string, padding included.
Published == {i \in 0 .. 8 * ((size + 7) \div 8) - 1 : (i % 8) \in bits[i \div 8]}

----------------------------------------------------------------------------
\* The bytes implement the set: revoking a slot sets its bit and no other slot's,
\* on both sides of a byte boundary and in a list whose last byte is partly used.
Slots == INSTANCE SlotSet WITH slots <- size, revoked <- Published

ImplementsSlotSet == Slots!Spec

\* What IsRevoked answers is what the published string says, for every index a
\* caller may ask about: the padding of the last byte is never set.
PublishedAgrees == Published = {i \in -8 .. size + 8 : IsRevoked(i)}
=============================================================================
