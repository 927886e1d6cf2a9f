----------------------------- MODULE Freshness -----------------------------
(***************************************************************************)
(* Time. One published document, be it the CRL, the status list token or a *)
(* list of trust anchors (LoTE or TSL): how long what is published lasts,  *)
(* who republishes it when, and for how long a consumer who fetches it     *)
(* through an HTTP cache may go on using an old one. A LoTE is two files,  *)
(* the document and, unless --sign=false, the signed one consumers fetch.  *)
(*                                                                         *)
(* A timer starts a publication every Period; one round in a row may fail, *)
(* the "room to fail once and be retried" of store.go:93-96. The operator  *)
(* publishes too, with `revoke` or any other command. A publication opens  *)
(* the register, signs, and writes, and takes at most Delay.               *)
(*                                                                         *)
(* There is no clock: the state has ages, which Tick increases as far as   *)
(* they still tell anything, so that a run of any length is a finite graph.*)
(***************************************************************************)
EXTENDS Integers

CONSTANTS
    Validities, \* crl_validity, status_list_validity or --next-update
    TTL,        \* statusListTTL
    MaxAge,     \* max-age of the server's answers
    Period,     \* between two rounds of the timer
    Delay,      \* the longest a publication takes
    Horizon,    \* the age beyond which ages are not told apart
    Never

ASSUME TimesAssumption ==
    /\ Validities \subseteq Nat \ {0}
    /\ {TTL, MaxAge, Period, Delay} \subseteq Nat \ {0}
    /\ Never \notin Nat
    /\ Delay < Period

\* No list can be of use when it, or its revocation, is this old.
ASSUME HorizonAssumption ==
    /\ Horizon \in Nat
    /\ 2 * Period + 2 * Delay + MaxAge + TTL < Horizon
    /\ \A v \in Validities : v + Delay <= Horizon

VARIABLES
    kind,       \* which document this is about
    validity,   \* and how long it is good for, as the deployment has it
    revoked,    \* how long ago the one revocation was recorded
    due,        \* how long until the timer's next round
    failed,     \* its last round failed
    pc,
    running,    \* how long ago each publication opened the register
    draft,      \* what it is going to write
    published,  \* the public file
    jws,        \* the LoTE's signed file
    unsigned,   \* some LoTE was published without one (history)
    grows,      \* each one consumers fetch had a number larger than all before (history)
    cache,      \* an HTTP cache before the server: a document, and how long it has it
    copy        \* the consumer's

files == <<published, jws, unsigned, grows>>
vars == <<kind, validity, revoked, due, failed, pc, running, draft, files, cache, copy>>

Kinds == {"crl", "list", "lote", "tsl"}
Procs == {"timer", "operator"}

\* How long a consumer uses its copy before it fetches again. The status list
\* says so, with a ttl that is never longer than the token is valid. For the
\* others, a consumer who asks each time.
KeepUncapped(k) == IF k = "list" THEN TTL ELSE 0
Keep(k) == CASE k # "list" -> 0
             [] k = "list" /\ TTL > validity -> validity
             [] k = "list" /\ TTL <= validity -> TTL

Documents == [age : 0..Horizon, lists : BOOLEAN]

TypeOK ==
    /\ kind \in Kinds /\ validity \in Validities
    /\ revoked \in (0..Horizon) \cup {Never}
    /\ due \in 0..Period
    /\ failed \in BOOLEAN
    /\ pc \in [Procs -> {"idle", "opened", "made", "written"}]
    /\ running \in [Procs -> 0..Delay]
    /\ draft \in [Procs -> Documents]
    /\ published \in Documents /\ jws \in Documents
    /\ unsigned \in BOOLEAN
    /\ grows \in BOOLEAN
    /\ cache \in [doc : Documents, age : 0..MaxAge]
    /\ copy \in [doc : Documents, age : 0..Horizon + 1]

Blank == [age |-> 0, lists |-> FALSE]

\* `init` has just published.
Init ==
    /\ kind \in Kinds /\ validity \in Validities
    /\ revoked = Never
    /\ due = Period
    /\ failed = FALSE
    /\ pc = [p \in Procs |-> "idle"]
    /\ running = [p \in Procs |-> 0]
    /\ draft = [p \in Procs |-> Blank]
    /\ published = Blank /\ jws = Blank
    /\ unsigned = FALSE
    /\ grows = TRUE
    /\ cache = [doc |-> Blank, age |-> 0]
    /\ copy = [doc |-> Blank, age |-> 0]

----------------------------------------------------------------------------
\* Publishing. Defects for the runs to find stand before what they replace.

\* What the document is going to say is what the register says now.
OpenRegister(p, revocation) ==
    /\ pc[p] = "idle"
    /\ pc' = [pc EXCEPT ![p] = "opened"]
    /\ running' = [running EXCEPT ![p] = 0]
    /\ draft' = [draft EXCEPT ![p] = [age |-> 0, lists |-> revocation # Never]]

StartRoundResigns ==
    /\ due = 0
    /\ due' = Period
    /\ OpenRegister("timer", IF published.lists THEN 0 ELSE Never)
    /\ UNCHANGED <<kind, validity, revoked, failed, files, cache, copy>>

StartRound ==
    /\ due = 0
    /\ due' = Period
    /\ OpenRegister("timer", revoked)
    /\ UNCHANGED <<kind, validity, revoked, failed, files, cache, copy>>

\* Any command of the operator that publishes the document.
StartCommand ==
    /\ OpenRegister("operator", revoked)
    /\ UNCHANGED <<kind, validity, revoked, due, failed, files, cache, copy>>

\* `revoke`, from where it has saved the revocation. Trust lists have none.
StartRevoke ==
    /\ kind \in {"crl", "list"}
    /\ revoked = Never
    /\ revoked' = 0
    /\ OpenRegister("operator", 0)
    /\ UNCHANGED <<kind, validity, due, failed, files, cache, copy>>

MakeUnlessSame(p) ==
    /\ pc[p] = "opened"
    /\ pc' = [pc EXCEPT ![p] = "made"]
    /\ draft' = [draft EXCEPT ![p].age = IF draft[p].lists = published.lists
                                         THEN published.age ELSE 0]
    /\ UNCHANGED <<kind, validity, revoked, due, failed, running, files, cache, copy>>

MakeAhead(p) ==
    /\ pc[p] = "opened"
    /\ pc' = [pc EXCEPT ![p] = "made"]
    /\ draft' = [draft EXCEPT ![p].age = -1]
    /\ UNCHANGED <<kind, validity, revoked, due, failed, running, files, cache, copy>>

\* thisUpdate, iat or the issue time is now, and the document is good for validity.
Make(p) ==
    /\ pc[p] = "opened"
    /\ pc' = [pc EXCEPT ![p] = "made"]
    /\ draft' = [draft EXCEPT ![p].age = 0]
    /\ UNCHANGED <<kind, validity, revoked, due, failed, running, files, cache, copy>>

CreateCRL(p) == kind = "crl" /\ Make(p)
SignList(p) == kind = "list" /\ Make(p)
BuildLoTE(p) == kind = "lote" /\ Make(p)
BuildTSL(p) == kind = "tsl" /\ Make(p)

End(p) ==
    /\ pc' = [pc EXCEPT ![p] = "idle"]
    /\ running' = [running EXCEPT ![p] = 0]
    /\ draft' = [draft EXCEPT ![p] = Blank]
    /\ UNCHANGED <<kind, validity, revoked, due, cache, copy>>

Succeed(p) ==
    /\ failed' = (failed /\ p # "timer")
    /\ End(p)

\* Whether the number of a document is larger than those of all before it. A CRL's is
\* random. A trust list's is the operator's --sequence, or else CRLNumber, which
\* nothing advances. A status list has none, as if each were larger.
Larger(k) == IF k = "list" THEN {TRUE} ELSE BOOLEAN

Numbered == \E larger \in Larger(kind) : grows' = (grows /\ larger)

\* The CRL, the status list, a TSL: one file.
Write(p) ==
    /\ kind # "lote"
    /\ pc[p] = "made"
    /\ published' = draft[p]
    /\ Numbered
    /\ Succeed(p)
    /\ UNCHANGED <<jws, unsigned>>

WriteUnsignedLoTE(p) ==
    /\ kind = "lote"
    /\ pc[p] = "made"
    /\ published' = draft[p]
    /\ unsigned' = TRUE
    /\ Succeed(p)
    /\ UNCHANGED <<jws, grows>>

WriteLoTE(p) ==
    /\ kind = "lote"
    /\ pc[p] = "made"
    /\ published' = draft[p]
    /\ pc' = [pc EXCEPT ![p] = "written"]
    /\ UNCHANGED <<kind, validity, revoked, due, failed, running, draft, jws, unsigned,
                   grows, cache, copy>>

WriteJWS(p) ==
    /\ pc[p] = "written"
    /\ jws' = draft[p]
    /\ Numbered
    /\ Succeed(p)
    /\ UNCHANGED <<published, unsigned>>

\* An error return or a kill. The timer's next round then gets through.
Fail(p) ==
    /\ pc[p] # "idle"
    /\ p = "timer" => ~failed
    /\ failed' = (failed \/ p = "timer")
    /\ End(p)
    /\ UNCHANGED files

Up(age, most) == IF age < most THEN age + 1 ELSE most
Older(d) == [d EXCEPT !.age = Up(@, validity)]

\* Time waits for what is due.
Tick ==
    /\ due > 0
    /\ \A p \in Procs : pc[p] # "idle" => running[p] < Delay
    /\ due' = due - 1
    /\ revoked' = IF revoked = Never THEN Never ELSE Up(revoked, Horizon)
    /\ running' = [p \in Procs |-> IF pc[p] = "idle" THEN 0 ELSE running[p] + 1]
    /\ draft' = [p \in Procs |-> IF pc[p] \in {"made", "written"}
                                 THEN Older(draft[p]) ELSE draft[p]]
    /\ published' = Older(published)
    /\ jws' = IF kind = "lote" THEN Older(jws) ELSE jws
    /\ cache' = [doc |-> Older(cache.doc), age |-> Up(cache.age, MaxAge)]
    /\ copy' = [doc |-> Older(copy.doc), age |-> Up(copy.age, Keep(kind) + 1)]
    /\ UNCHANGED <<kind, validity, failed, pc, unsigned, grows>>

----------------------------------------------------------------------------
\* Fetching.

Served == IF kind = "lote" THEN jws ELSE published

\* Somebody's request goes through to the server, which reads the file anew.
Refill ==
    /\ cache' = [doc |-> Served, age |-> 0]
    /\ UNCHANGED <<kind, validity, revoked, due, failed, pc, running, draft, files, copy>>

CachedForever == cache.age <= MaxAge

\* Cache-Control: max-age.
Cached == cache.age < MaxAge

\* The consumer ignores a CRL whose number goes backwards (store.go:68-69), and may
\* skip a trust list whose sequence number it has (pkg/lote/lote.go:55-56).
Fetch ==
    /\ Cached
    /\ \/ copy' = [doc |-> cache.doc, age |-> 0]
       \/ /\ ~grows
          /\ copy' = [copy EXCEPT !.age = 0]
    /\ UNCHANGED <<kind, validity, revoked, due, failed, pc, running, draft, files, cache>>

Next == \/ StartRound \/ StartCommand \/ StartRevoke \/ Tick
        \/ \E p \in Procs :
              \/ CreateCRL(p) \/ SignList(p) \/ BuildLoTE(p) \/ BuildTSL(p)
              \/ Write(p) \/ WriteUnsignedLoTE(p) \/ WriteLoTE(p) \/ WriteJWS(p)
              \/ Fail(p)
        \/ Refill \/ Fetch

Spec == Init /\ [][Next]_vars

----------------------------------------------------------------------------
\* After nextUpdate or exp.
Expired(d) == d.age >= validity

\* The copy may still be used, by what ttl says; and by what exp says, too.
InUse == copy.age <= Keep(kind)
Accepted == InUse /\ ~Expired(copy.doc) /\ ~copy.doc.lists

\* From a revocation, or from the making of a document, until the last consumer takes a
\* copy that is older: two periods, a slow publication after a slow one, and the cache.
LastTaken == 2 * Period + 2 * Delay + MaxAge

\* How much longer the copy lives, as statusListTTL says it, cap or no cap.
Hint == IF kind = "list" THEN TTL ELSE 0

Latest == LastTaken + Hint

\* "well inside the shorter of the two" (README.md:76-77), and what that comes to.
WellInside == Latest < validity

\* What is published never expires, although a round may fail and a slower
\* publication may put back what it made earlier: the validity gives the schedule
\* "room to fail once and be retried" (store.go:93-96). The signed LoTE neither, unless
\* one was published without it.
PublishedUnexpired ==
    WellInside => /\ ~Expired(published)
                  /\ kind = "lote" /\ ~unsigned => ~Expired(jws)

\* A consumer who follows ttl is never left with an expired document, "expired most of
\* the time" (statuslist.go:84-86), through a cache, or by skipping numbers as long as
\* they grow.
NeverWithout ==
    WellInside /\ grows /\ ~unsigned /\ InUse => ~Expired(copy.doc)

\* As long as the numbers grow, which a CRL's random one seldom does for long, a revocation
\* on record is heeded after the timer has got through once and the caches have run out,
\* whether or not `revoke` published it and whatever older list was put back
\* (serve.go:101-103, README.md:73-75): by a consumer who goes by ttl alone and never looks
\* at exp, too, who keeps no copy for longer than a validity since "ttl is capped at
\* validity so the two never contradict each other" (statuslist.go:88).
RevocationHeeded ==
    revoked # Never /\ grows /\ InUse /\ ~copy.doc.lists =>
        revoked <= Latest /\ revoked <= LastTaken + validity

\* exp "bounds how long an old one may live" (README.md:75): whatever is
\* published or skipped afterwards, and with no schedule at all, a list made from a
\* register without the revocation is of no use after a publication's time and the
\* validity.
ExpiryBounds ==
    revoked # Never /\ Accepted => revoked < Delay + validity
=============================================================================
