-------------------------- MODULE StatusListProofs --------------------------
(***************************************************************************)
(* For lists of every size: the bytes implement the set of slots.          *)
(***************************************************************************)
EXTENDS StatusList, TLAPS

\* A slot is its byte and its position in it.
LEMMA SlotPosition ==
    ASSUME NEW n \in Nat, NEW i \in 0 .. 8 * ((n + 7) \div 8) - 1
    PROVE  /\ i \div 8 \in Bytes(n) /\ i % 8 \in 0..7
           /\ \A j \in Nat : i \div 8 = j \div 8 /\ i % 8 = j % 8 => i = j
<1>1. i \in Nat /\ i \div 8 \in 0 .. ((n + 7) \div 8) - 1
  OBVIOUS
<1>2. i % 8 \in 0..7
  BY <1>1
<1>3. \A j \in Nat : i \div 8 = j \div 8 /\ i % 8 = j % 8 => i = j
  <2>1. \A j, k \in Nat : j \div 8 = k \div 8 /\ j % 8 = k % 8 => j = k
    OBVIOUS
  <2> QED BY <1>1, <2>1
<1> QED BY <1>1, <1>2, <1>3 DEF Bytes

\* The slots Revoke accepts are in the published string.
LEMMA SlotsFit == ASSUME NEW n \in Nat PROVE 0 .. n - 1 \subseteq 0 .. 8 * ((n + 7) \div 8) - 1
<1>1. n <= 8 * ((n + 7) \div 8)
  OBVIOUS
<1> QED BY <1>1

LEMMA InitType == Init => TypeOK
BY MaxSlotsAssumption DEF Init, TypeOK

LEMMA NextType == TypeOK /\ [Next]_vars => TypeOK'
<1> SUFFICES ASSUME TypeOK, [Next]_vars PROVE TypeOK'
  OBVIOUS
<1>1. ASSUME NEW i \in Int, Revoke(i) PROVE TypeOK'
  <2>1. i \in 0 .. 8 * ((size + 7) \div 8) - 1
    BY <1>1, SlotsFit DEF TypeOK, Revoke
  <2>2. i % 8 \in 0..7
    BY <2>1, SlotPosition DEF TypeOK
  <2> QED BY <1>1, <2>2 DEF TypeOK, Revoke
<1>2. CASE UNCHANGED vars
  BY <1>2 DEF TypeOK, vars
<1> QED BY <1>1, <1>2 DEF Next, TypeOK

LEMMA TypeInvariance == Spec => []TypeOK
BY InitType, NextType, PTL DEF Spec

\* Revoke adds its slot to the published string, and nothing else.
LEMMA RevokeAddsSlot ==
    ASSUME TypeOK, NEW i \in Int, Revoke(i)
    PROVE  i \in 0 .. size - 1 /\ Published' = Published \cup {i}
<1>1. i \in 0 .. size - 1 /\ size' = size
  BY DEF TypeOK, Revoke
<1>2. i \in 0 .. 8 * ((size + 7) \div 8) - 1
  BY <1>1, SlotsFit DEF TypeOK
<1>3. ASSUME NEW j \in 0 .. 8 * ((size + 7) \div 8) - 1
      PROVE  (j % 8) \in bits'[j \div 8] <=> (j % 8) \in bits[j \div 8] \/ j = i
  <2>1. /\ j \div 8 \in Bytes(size)
        /\ j \div 8 = i \div 8 /\ j % 8 = i % 8 => j = i
    BY <1>2, SlotPosition DEF TypeOK
  <2>2. CASE j \div 8 = i \div 8
    <3>1. bits'[j \div 8] = bits[j \div 8] \cup {i % 8}
      BY <2>1, <2>2 DEF TypeOK, Revoke
    <3> QED BY <2>1, <2>2, <3>1
  <2>3. CASE j \div 8 # i \div 8
    <3>1. bits'[j \div 8] = bits[j \div 8]
      BY <2>1, <2>3 DEF TypeOK, Revoke
    <3> QED BY <2>3, <3>1
  <2> QED BY <2>2, <2>3
<1> QED BY <1>1, <1>2, <1>3 DEF Published

\* The list of every size implements the set of its slots: revoking one sets its
\* bit and leaves every other slot as it was.
THEOREM ListImplementsSlotSet == Spec => ImplementsSlotSet
<1>1. Init => Slots!Init
  <2> SUFFICES ASSUME Init PROVE Slots!Init
    OBVIOUS
  <2>1. size \in Nat /\ bits = [b \in Bytes(size) |-> {}]
    BY MaxSlotsAssumption DEF Init
  <2>2. Published = {}
    BY <2>1, SlotPosition DEF Published
  <2> QED BY <2>1, <2>2 DEF Slots!Init
<1>2. TypeOK /\ [Next]_vars => [Slots!Next]_Slots!vars
  <2> SUFFICES ASSUME TypeOK, [Next]_vars PROVE [Slots!Next]_Slots!vars
    OBVIOUS
  <2>1. ASSUME NEW i \in Int, Revoke(i) PROVE Slots!Next
    BY <2>1, RevokeAddsSlot DEF Revoke, Slots!Next, Slots!Revoke
  <2>2. CASE UNCHANGED vars
    BY <2>2 DEF vars, Slots!vars, Published
  <2> QED BY <2>1, <2>2 DEF Next, TypeOK
<1> QED BY <1>1, <1>2, TypeInvariance, PTL DEF Spec, ImplementsSlotSet, Slots!Spec

\* What is published is about slots only: the padding of the last byte stays clear.
NoPadding == Published \subseteq 0 .. size - 1

LEMMA PaddingStaysClear == Spec => []NoPadding
<1>1. Init => NoPadding
  <2> SUFFICES ASSUME Init PROVE NoPadding
    OBVIOUS
  <2>1. size \in Nat /\ bits = [b \in Bytes(size) |-> {}]
    BY MaxSlotsAssumption DEF Init
  <2> QED BY <2>1, SlotPosition DEF Published, NoPadding
<1>2. TypeOK /\ NoPadding /\ [Next]_vars => NoPadding'
  <2> SUFFICES ASSUME TypeOK, NoPadding, [Next]_vars PROVE NoPadding'
    OBVIOUS
  <2>1. ASSUME NEW i \in Int, Revoke(i) PROVE NoPadding'
    BY <2>1, RevokeAddsSlot DEF Revoke, NoPadding
  <2>2. CASE UNCHANGED vars
    BY <2>2 DEF vars, Published, NoPadding
  <2> QED BY <2>1, <2>2 DEF Next, TypeOK
<1> QED BY <1>1, <1>2, TypeInvariance, PTL DEF Spec

\* For a list of every size, what IsRevoked answers is what the published string says, for
\* every index near the list, padding included.
THEOREM AnswersAgree == Spec => []PublishedAgrees
<1>1. TypeOK /\ NoPadding => PublishedAgrees
  <2> SUFFICES ASSUME TypeOK, NoPadding PROVE PublishedAgrees
    OBVIOUS
  <2>1. size \in Nat
    BY DEF TypeOK
  <2>2. ASSUME NEW i \in Published PROVE i \in -8 .. size + 8 /\ IsRevoked(i)
    <3>1. i \in 0 .. size - 1 /\ (i % 8) \in bits[i \div 8]
      BY DEF NoPadding, Published
    <3> QED BY <2>1, <3>1 DEF IsRevoked
  <2>3. ASSUME NEW i \in -8 .. size + 8, IsRevoked(i) PROVE i \in Published
    <3>1. i \in 0 .. size - 1 /\ (i % 8) \in bits[i \div 8]
      BY <2>1, <2>3 DEF IsRevoked
    <3> QED BY <2>1, <3>1, SlotsFit DEF Published
  <2> QED BY <2>2, <2>3 DEF PublishedAgrees
<1> QED BY <1>1, PaddingStaysClear, TypeInvariance, PTL
=============================================================================
