------------------------------- MODULE KeyPool -------------------------------
(***************************************************************************)
(* The PKCS#11 session pools of one process (pkg/keyref). Every key that   *)
(* is resolved on a token takes a reference to the token's pool and gives  *)
(* it back when it is closed; the pool is opened for the first reference   *)
(* and closed with the last. The commands resolve and close keys in any    *)
(* order, some of them twice, and a lookup may fail with the pool open.    *)
(*                                                                         *)
(* External: pkcs11pool initialises the module when a pool is opened and   *)
(* finalises it when the pool is closed (keyref.go:23-26). Two tokens of   *)
(* one module are two pools here as in the code, which keys them by        *)
(* module, token label and slot (keyref.go:155).                           *)
(***************************************************************************)
EXTENDS Integers, FiniteSets

CONSTANTS
    Tokens,        \* module, token label and slot: what a pool is keyed by
    Handles,       \* the keys a process resolves
    NoToken

ASSUME NoTokenAssumption == NoToken \notin Tokens
ASSUME HandlesAssumption == IsFiniteSet(Handles)

VARIABLES
    pools,      \* the tokens that have a pool
    refs,       \* the reference count of each pool
    token,      \* the token of each handle
    state       \* unused, looking (it has the pool, not yet the key), open,
                \* closed, failed (no handle was returned: nobody closes it)

vars == <<pools, refs, token, state>>

TypeOK ==
    /\ pools \subseteq Tokens
    /\ refs \in [Tokens -> Nat]
    /\ token \in [Handles -> Tokens \cup {NoToken}]
    /\ state \in [Handles -> {"unused", "looking", "open", "closed", "failed"}]

Init ==
    /\ pools = {}
    /\ refs = [t \in Tokens |-> 0]
    /\ token = [h \in Handles |-> NoToken]
    /\ state = [h \in Handles |-> "unused"]

AcquireUncounted(t) ==
    /\ pools' = pools \cup {t}
    /\ refs' = [refs EXCEPT ![t] = IF t \in pools THEN @ + 1 ELSE 0]

\* acquirePool, under the mutex. (When the pool cannot be opened nothing changes.)
Acquire(t) ==
    /\ pools' = pools \cup {t}
    /\ refs' = [refs EXCEPT ![t] = IF t \in pools THEN @ + 1 ELSE 1]

\* releasePool, under the mutex.
Release(t) ==
    IF t \notin pools
    THEN UNCHANGED <<pools, refs>>
    ELSE /\ refs' = [refs EXCEPT ![t] = @ - 1]
         /\ pools' = IF refs[t] > 1 THEN pools ELSE pools \ {t}

\* resolvePKCS11, up to the lookup. A handle stands for one resolution after
\* another: one that was closed or failed may be resolved anew.
Resolve(h, t) ==
    /\ state[h] \in {"unused", "closed", "failed"}
    /\ Acquire(t)
    /\ token' = [token EXCEPT ![h] = t]
    /\ state' = [state EXCEPT ![h] = "looking"]

Found(h) ==
    /\ state[h] = "looking"
    /\ state' = [state EXCEPT ![h] = "open"]
    /\ UNCHANGED <<pools, refs, token>>

NotFoundKept(h) ==
    /\ state[h] = "looking"
    /\ state' = [state EXCEPT ![h] = "failed"]
    /\ UNCHANGED <<pools, refs, token>>

\* No key of that label: the reference is given back at once.
NotFound(h) ==
    /\ state[h] = "looking"
    /\ Release(token[h])
    /\ state' = [state EXCEPT ![h] = "failed"]
    /\ UNCHANGED token

CloseEvery(h) ==
    /\ state[h] \in {"open", "closed"}
    /\ Release(token[h])
    /\ state' = [state EXCEPT ![h] = "closed"]
    /\ UNCHANGED token

\* Resolved.Close: a sync.Once, so only the first call releases.
Close(h) ==
    /\ state[h] \in {"open", "closed"}
    /\ IF state[h] = "open" THEN Release(token[h]) ELSE UNCHANGED <<pools,
                                                                    refs>>
    /\ state' = [state EXCEPT ![h] = "closed"]
    /\ UNCHANGED token

Next == \E h \in Handles :
           \/ \E t \in Tokens : Resolve(h, t)
           \/ Found(h) \/ NotFound(h) \/ Close(h)

Spec == Init /\ [][Next]_vars

----------------------------------------------------------------------------
Holders(t) == {h \in Handles : token[h] = t /\ state[h] \in {"looking", "open"}}

\* A key that was resolved and not closed has its pool under it, whatever is
\* closed, closed twice or not found elsewhere: "Closing twice must not drop two
\* references" (keyref.go:176-177).
OpenKeysWork == \A t \in Tokens : Holders(t) # {} => t \in pools

\* A pool is open for no longer than it is needed: a failed lookup does not
\* "keep the module initialised for the process lifetime" (keyref.go:168-169).
NothingLeaks == \A t \in pools : Holders(t) # {}
=============================================================================
