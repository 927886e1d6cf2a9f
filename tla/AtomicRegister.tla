--------------------------- MODULE AtomicRegister ---------------------------
(***************************************************************************)
(* register.json as the commands take it, and as Deployment models it: a   *)
(* save puts the next version in place at once, and whoever opens the file *)
(* has what was saved last and keeps that. Nothing is promised once two    *)
(* saves have overlapped.                                                  *)
(***************************************************************************)
EXTENDS Naturals

CONSTANTS Readers, Unknown

VARIABLES
    held,    \* the version saved last, or Unknown
    using,   \* the readers that have the file open
    got      \* the version each reader has opened last, or Unknown

vars == <<held, using, got>>

TypeOK ==
    /\ held \in Nat \cup {Unknown}
    /\ using \subseteq Readers
    /\ got \in [Readers -> Nat \cup {Unknown}]

Init ==
    /\ held = 0
    /\ using = {}
    /\ got = [r \in Readers |-> 0]

Save ==
    /\ held # Unknown
    /\ held' \in Nat
    /\ held' > held
    /\ UNCHANGED <<using, got>>

Open(r) ==
    /\ r \notin using
    /\ using' = using \cup {r}
    /\ got' = [got EXCEPT ![r] = held]
    /\ UNCHANGED held

Close(r) ==
    /\ r \in using
    /\ using' = using \ {r}
    /\ UNCHANGED <<held, got>>

Overlap ==
    /\ held' = Unknown
    /\ using' = {}
    /\ got' = [r \in Readers |-> Unknown]

Next == Save \/ (\E r \in Readers : Open(r) \/ Close(r)) \/ Overlap

Spec == Init /\ [][Next]_vars
=============================================================================
