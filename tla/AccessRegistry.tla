--------------------------- MODULE AccessRegistry ---------------------------
(***************************************************************************)
(* What a deployment promises the outside, one command at a time: a        *)
(* certificate, once recorded, has a status list slot of its own and keeps *)
(* it; a revocation is recorded before it is public and is never undone;   *)
(* each publication says all that is recorded when it is made.             *)
(***************************************************************************)
EXTENDS Naturals

CONSTANT Certificates

VARIABLES
    slot,      \* the slot of each recorded certificate
    revoked,   \* the certificates recorded as revoked
    crl,       \* the certificates on the published CRL
    bits       \* the slots set in the published status list

vars == <<slot, revoked, crl, bits>>

Injective(f) == \A s, t \in DOMAIN f : f[s] = f[t] => s = t

TypeOK ==
    /\ DOMAIN slot \subseteq Certificates
    /\ slot \in [DOMAIN slot -> Nat]
    /\ revoked \subseteq DOMAIN slot
    /\ crl \subseteq Certificates
    /\ bits \subseteq Nat

Init ==
    /\ slot = [s \in {} |-> 0]
    /\ revoked = {} /\ crl = {} /\ bits = {}

\* A command records new certificates, new revocations, or both.
Record ==
    /\ DOMAIN slot \subseteq DOMAIN slot'
    /\ DOMAIN slot' \subseteq Certificates
    /\ slot' \in [DOMAIN slot' -> Nat]
    /\ \A s \in DOMAIN slot : slot'[s] = slot[s]
    /\ Injective(slot')
    /\ revoked \subseteq revoked'
    /\ revoked' \subseteq DOMAIN slot'
    /\ UNCHANGED <<crl, bits>>

PublishCRL ==
    /\ crl' = revoked
    /\ UNCHANGED <<slot, revoked, bits>>

PublishList ==
    /\ bits' = {slot[s] : s \in revoked}
    /\ UNCHANGED <<slot, revoked, crl>>

Next == Record \/ PublishCRL \/ PublishList

Spec == Init /\ [][Next]_vars
=============================================================================
