-------------------------- MODULE FreshnessProofs --------------------------
(***************************************************************************)
(* The theorems about Freshness, for any validity, ttl, max-age, period    *)
(* and publication time.                                                   *)
(***************************************************************************)
EXTENDS Freshness, TLAPS

LEMMA Constants ==
    /\ TTL \in Nat /\ MaxAge \in Nat /\ Period \in Nat /\ Delay \in Nat /\ Horizon \in Nat
    /\ TTL > 0 /\ MaxAge > 0 /\ Delay > 0 /\ Delay < Period
    /\ Never \notin Nat
    /\ \A v \in Validities : v \in 1..Horizon
  BY TimesAssumption, HorizonAssumption

LEMMA ValidityBounded == TypeOK => validity \in Nat /\ 0 < validity /\ validity <= Horizon
  BY Constants DEF TypeOK

\* The cap: a copy is kept for no longer than the document was good for, nor than ttl.
LEMMA KeepCapped ==
    TypeOK => Keep(kind) \in Nat /\ Keep(kind) <= validity /\ Keep(kind) <= Hint
  BY Constants, ValidityBounded DEF Keep, Hint, TypeOK

LEMMA UpStays == ASSUME NEW most \in Nat, NEW age \in Nat
                 PROVE  /\ Up(age, most) \in 0..most
                        /\ Up(age, most) <= age + 1
  BY DEF Up

LEMMA OlderStays == ASSUME TypeOK, NEW d \in Documents
                    PROVE  /\ Older(d) \in Documents
                           /\ Older(d).lists = d.lists
                           /\ Older(d).age <= d.age + 1
                           /\ Older(d).age = d.age + 1 \/ Expired(Older(d))
  BY Constants, ValidityBounded DEF Expired, Older, Up, Documents

----------------------------------------------------------------------------
LEMMA BlankIsDocument == Blank \in Documents
  BY Constants DEF Blank, Documents

LEMMA TypeInit == Init => TypeOK
<1> SUFFICES ASSUME Init PROVE TypeOK
    OBVIOUS
<1>1. kind \in Kinds /\ validity \in Validities /\ revoked = Never /\ due \in 0..Period
    BY Constants DEF Init
<1>2. failed \in BOOLEAN /\ unsigned \in BOOLEAN /\ grows \in BOOLEAN
    BY DEF Init
<1>3. /\ pc \in [Procs -> {"idle", "opened", "made", "written"}]
      /\ running \in [Procs -> 0..Delay]
    BY Constants DEF Init
<1>4. draft \in [Procs -> Documents] /\ published \in Documents /\ jws \in Documents
    BY BlankIsDocument DEF Init
<1>5. /\ cache \in [doc : Documents, age : 0..MaxAge]
      /\ copy \in [doc : Documents, age : 0..Horizon + 1]
    BY Constants, BlankIsDocument DEF Init
<1> QED
    BY <1>1, <1>2, <1>3, <1>4, <1>5 DEF TypeOK

LEMMA TypeStep == TypeOK /\ [Next]_vars => TypeOK'
<1> SUFFICES ASSUME TypeOK, [Next]_vars PROVE TypeOK'
    OBVIOUS
<1> USE Constants
<1>1. CASE StartRound
    BY <1>1 DEF TypeOK, StartRound, OpenRegister, files, Documents, Procs
<1>2. CASE StartCommand
    BY <1>2 DEF TypeOK, StartCommand, OpenRegister, files, Documents, Procs
<1>3. CASE StartRevoke
    BY <1>3 DEF TypeOK, StartRevoke, OpenRegister, files, Documents, Procs
<1>4. CASE Tick
  <2>0. \A d \in Documents : Older(d) \in Documents
      BY OlderStays
  <2>1. published' \in Documents /\ jws' \in Documents
      BY <1>4, <2>0 DEF TypeOK, Tick
  <2>2. cache' \in [doc : Documents, age : 0..MaxAge]
      BY <1>4, <2>0, UpStays DEF TypeOK, Tick
  <2>3. copy' \in [doc : Documents, age : 0..Horizon + 1]
    <3>1. Keep(kind) \in 0..Horizon
        BY KeepCapped, ValidityBounded
    <3>2. copy.age \in Nat /\ Keep(kind) + 1 \in Nat
        BY <3>1 DEF TypeOK
    <3>3. Up(copy.age, Keep(kind) + 1) \in 0..(Keep(kind) + 1)
        BY <3>2, UpStays
    <3>4. Up(copy.age, Keep(kind) + 1) \in 0..Horizon + 1
        BY <3>1, <3>3
    <3>5. Older(copy.doc) \in Documents
        BY OlderStays DEF TypeOK
    <3> QED
        BY <1>4, <3>4, <3>5 DEF Tick
  <2>4. draft' \in [Procs -> Documents]
      BY <1>4, OlderStays DEF TypeOK, Tick
  <2>5. due' \in 0..Period
      BY <1>4 DEF TypeOK, Tick
  <2>6. \A p \in Procs : running'[p] \in 0..Delay
      BY <1>4 DEF TypeOK, Tick
  <2>7. running' \in [Procs -> 0..Delay]
      BY <1>4, <2>6 DEF Tick
  <2>8. revoked' \in (0..Horizon) \cup {Never}
      BY <1>4, UpStays DEF TypeOK, Tick
  <2> QED
      BY <1>4, <2>1, <2>2, <2>3, <2>4, <2>5, <2>7, <2>8 DEF TypeOK, Tick
<1>5. CASE Refill
    BY <1>5 DEF TypeOK, Refill, Served, files
<1>6. CASE Fetch
    BY <1>6 DEF TypeOK, Fetch, files
<1>7. ASSUME NEW p \in Procs,
             CreateCRL(p) \/ SignList(p) \/ BuildLoTE(p) \/ BuildTSL(p)
      PROVE  TypeOK'
    BY <1>7 DEF TypeOK, CreateCRL, SignList, BuildLoTE, BuildTSL, Make, files, Documents
<1>8. ASSUME NEW p \in Procs, Write(p) PROVE TypeOK'
    BY <1>8 DEF TypeOK, Write, Numbered, Larger, Succeed, End, Blank, Documents
<1>9. ASSUME NEW p \in Procs, WriteUnsignedLoTE(p) PROVE TypeOK'
    BY <1>9 DEF TypeOK, WriteUnsignedLoTE, Succeed, End, Blank, Documents
<1>10. ASSUME NEW p \in Procs, WriteLoTE(p) PROVE TypeOK'
    BY <1>10 DEF TypeOK, WriteLoTE
<1>11. ASSUME NEW p \in Procs, WriteJWS(p) PROVE TypeOK'
    BY <1>11 DEF TypeOK, WriteJWS, Numbered, Larger, Succeed, End, Blank, Documents
<1>12. ASSUME NEW p \in Procs, Fail(p) PROVE TypeOK'
    BY <1>12 DEF TypeOK, Fail, End, Blank, Documents, files
<1>13. CASE UNCHANGED vars
    BY <1>13 DEF TypeOK, vars, files
<1> QED
    BY <1>1, <1>2, <1>3, <1>4, <1>5, <1>6, <1>7, <1>8, <1>9, <1>10, <1>11, <1>12, <1>13
       DEF Next

\* Every variable keeps its type: the ages stay within what they are bounded by, and no
\* publication runs for longer than Delay.
THEOREM TypeCorrect == Spec => []TypeOK
  BY TypeInit, TypeStep, PTL DEF Spec

----------------------------------------------------------------------------
\* With the revocation recorded r ago, d was made from a register without it.
Stale(r, d) == r # Never /\ ~d.lists

\* d was made at most n ago, and says all that was on record n ago.
Within(r, d, n) == d.age <= n /\ (Stale(r, d) => r <= n)

\* The revocation was recorded at most a publication's time before d was made.
Lags(r, d) == Stale(r, d) /\ ~Expired(d) => r <= d.age + Delay

Revocations == Nat \cup {Never}
Aged(r) == IF r = Never THEN Never ELSE Up(r, Horizon)

LEMMA RevocationType == TypeOK => revoked \in Revocations
  BY Constants DEF TypeOK, Revocations

LEMMA WithinOlder ==
    ASSUME TypeOK, NEW r \in Revocations, NEW d \in Documents, NEW n \in Int, Within(r, d, n),
           NEW e \in {d, Older(d)}
    PROVE  Within(Aged(r), e, n + 1)
<1>1. r # Never => Aged(r) \in 0..Horizon /\ Aged(r) <= r + 1
    BY Constants, UpStays DEF Aged, Revocations
<1>2. r = Never => Aged(r) = Never
    BY DEF Aged
<1>3. e.age \in Int /\ d.age \in Int /\ e.age <= d.age + 1 /\ e.lists = d.lists
    BY OlderStays DEF Documents
<1>4. Stale(Aged(r), e) => Stale(r, d)
    BY <1>2, <1>3 DEF Stale
<1>5. Stale(Aged(r), e) => Aged(r) <= n + 1
    BY <1>1, <1>4, Constants DEF Within, Stale, Revocations
<1> QED
    BY <1>3, <1>5 DEF Within

LEMMA WithinLonger ==
    ASSUME NEW r \in Revocations, NEW d \in Documents, NEW n \in Int, NEW m \in Int,
           n <= m, Within(r, d, n)
    PROVE  Within(r, d, m)
  BY DEF Within, Stale, Revocations, Documents

LEMMA WithinRevoked ==
    ASSUME NEW d \in Documents, NEW n \in Int, Within(Never, d, n)
    PROVE  Within(0, d, n)
  BY DEF Within, Stale, Documents

LEMMA LagsOlder ==
    ASSUME TypeOK, NEW r \in Revocations, NEW d \in Documents, Lags(r, d)
    PROVE  Lags(Aged(r), Older(d))
<1>1. r # Never => Aged(r) \in 0..Horizon /\ Aged(r) <= r + 1
    BY Constants, UpStays DEF Aged, Revocations
<1>2. r = Never => Aged(r) = Never
    BY DEF Aged
<1>3. /\ Older(d).age \in Int /\ d.age \in Int /\ Older(d).lists = d.lists
      /\ Older(d).age = d.age + 1 \/ Expired(Older(d))
    BY OlderStays DEF Documents
<1> QED
    BY <1>1, <1>2, <1>3, Constants, ValidityBounded DEF Lags, Stale, Revocations, Expired

\* A trust list has no revocation and only a LoTE a second file; the timer's publication
\* began when it was due; and what a publication has in hand is no older than it is.
InHand(p) == pc[p] # "idle" => Within(revoked, draft[p], running[p])

Rounds ==
    /\ kind \in {"lote", "tsl"} => revoked = Never
    /\ kind # "lote" => ~unsigned
    /\ pc["timer"] # "idle" => running["timer"] = Period - due
    /\ \A p \in Procs : InHand(p)
    /\ \A p \in Procs : pc[p] = "written" => kind = "lote"

LEMMA Opens ==
    ASSUME TypeOK, NEW p \in Procs, NEW revocation, OpenRegister(p, revocation)
    PROVE  /\ pc[p] = "idle" /\ pc'[p] = "opened"
           /\ running'[p] = 0 /\ draft'[p].age = 0
           /\ revocation # Never => draft'[p].lists
           /\ \A q \in Procs \ {p} : /\ pc'[q] = pc[q] /\ running'[q] = running[q]
                                     /\ draft'[q] = draft[q]
  BY DEF OpenRegister, TypeOK

LEMMA Ends ==
    ASSUME TypeOK, NEW p \in Procs, End(p)
    PROVE  /\ pc'[p] = "idle"
           /\ \A q \in Procs \ {p} : /\ pc'[q] = pc[q] /\ running'[q] = running[q]
                                     /\ draft'[q] = draft[q]
           /\ kind' = kind /\ revoked' = revoked /\ due' = due
           /\ cache' = cache /\ copy' = copy
  BY DEF End, TypeOK

LEMMA EndKeepsRounds ==
    ASSUME TypeOK, Rounds, NEW p \in Procs, End(p), kind # "lote" => ~unsigned'
    PROVE  Rounds'
<1>1. /\ kind' \in {"lote", "tsl"} => revoked' = Never
      /\ kind' # "lote" => ~unsigned'
    BY Ends DEF Rounds
<1>2. pc'["timer"] # "idle" => running'["timer"] = Period - due'
    BY Ends DEF Rounds, Procs
<1>3. \A q \in Procs : InHand(q)'
    BY Ends DEF Rounds, InHand
<1>4. \A q \in Procs : pc'[q] = "written" => kind' = "lote"
    BY Ends DEF Rounds
<1> QED
    BY <1>1, <1>2, <1>3, <1>4 DEF Rounds

LEMMA RoundsStep == TypeOK /\ Rounds /\ [Next]_vars => Rounds'
<1> SUFFICES ASSUME TypeOK, Rounds, [Next]_vars PROVE Rounds'
    OBVIOUS
<1> USE Constants
<1>1. CASE StartRound
  <2>1. /\ OpenRegister("timer", revoked) /\ due' = Period /\ kind' = kind
        /\ revoked' = revoked /\ unsigned' = unsigned /\ "timer" \in Procs
      BY <1>1 DEF StartRound, Procs, files
  <2>2. /\ kind' \in {"lote", "tsl"} => revoked' = Never
        /\ kind' # "lote" => ~unsigned'
        /\ pc'["timer"] # "idle" => running'["timer"] = Period - due'
      BY <2>1, Opens DEF Rounds
  <2>3. InHand("timer")'
      BY <2>1, Opens DEF InHand, Within, Stale
  <2>4. \A q \in Procs \ {"timer"} : InHand(q)'
      BY <2>1, Opens DEF Rounds, InHand
  <2>5. \A q \in Procs : pc'[q] = "written" => kind' = "lote"
      BY <2>1, Opens DEF Rounds
  <2> QED
      BY <2>2, <2>3, <2>4, <2>5 DEF Rounds
<1>2. CASE StartCommand
  <2>1. /\ OpenRegister("operator", revoked) /\ due' = due /\ kind' = kind
        /\ revoked' = revoked /\ unsigned' = unsigned /\ "operator" \in Procs
      BY <1>2 DEF StartCommand, Procs, files
  <2>2. /\ kind' \in {"lote", "tsl"} => revoked' = Never
        /\ kind' # "lote" => ~unsigned'
        /\ pc'["timer"] # "idle" => running'["timer"] = Period - due'
      BY <2>1, Opens DEF Rounds, Procs
  <2>3. InHand("operator")'
      BY <2>1, Opens DEF InHand, Within, Stale
  <2>4. \A q \in Procs \ {"operator"} : InHand(q)'
      BY <2>1, Opens DEF Rounds, InHand
  <2>5. \A q \in Procs : pc'[q] = "written" => kind' = "lote"
      BY <2>1, Opens DEF Rounds
  <2> QED
      BY <2>2, <2>3, <2>4, <2>5 DEF Rounds
<1>3. CASE StartRevoke
  <2>1. /\ OpenRegister("operator", 0) /\ due' = due /\ kind' = kind
        /\ kind \in {"crl", "list"} /\ revoked = Never /\ revoked' = 0
        /\ unsigned' = unsigned /\ "operator" \in Procs /\ 0 # Never
      BY <1>3 DEF StartRevoke, Procs, files
  <2>2. /\ kind' \in {"lote", "tsl"} => revoked' = Never
        /\ kind' # "lote" => ~unsigned'
        /\ pc'["timer"] # "idle" => running'["timer"] = Period - due'
      BY <2>1, Opens DEF Rounds, Procs
  <2>3. InHand("operator")'
      BY <2>1, Opens DEF InHand, Within, Stale
  <2>4. ASSUME NEW q \in Procs \ {"operator"} PROVE InHand(q)'
    <3>1. draft[q] \in Documents /\ running[q] \in Int
        BY DEF TypeOK
    <3> QED
        BY <2>1, <3>1, Opens, WithinRevoked DEF Rounds, InHand
  <2>5. \A q \in Procs : pc'[q] = "written" => kind' = "lote"
      BY <2>1, Opens DEF Rounds
  <2> QED
      BY <2>2, <2>3, <2>4, <2>5 DEF Rounds
<1>4. CASE Tick
  <2>1. /\ kind' \in {"lote", "tsl"} => revoked' = Never
        /\ kind' # "lote" => ~unsigned'
        /\ \A q \in Procs : pc'[q] = "written" => kind' = "lote"
      BY <1>4 DEF Rounds, Tick
  <2>2. pc'["timer"] # "idle" => running'["timer"] = Period - due'
      BY <1>4 DEF TypeOK, Rounds, Tick, Procs
  <2>3. ASSUME NEW q \in Procs, pc[q] # "idle" PROVE InHand(q)'
    <3>1. running'[q] = running[q] + 1 /\ draft'[q] \in {draft[q], Older(draft[q])}
        BY <1>4, <2>3 DEF Tick
    <3>2. revoked' = Aged(revoked) /\ revoked \in Revocations
        BY <1>4, RevocationType DEF Tick, Aged
    <3>3. draft[q] \in Documents /\ running[q] \in Int /\ Within(revoked, draft[q], running[q])
        BY <2>3 DEF TypeOK, Rounds, InHand
    <3> QED
        BY <3>1, <3>2, <3>3, WithinOlder DEF InHand
  <2>4. \A q \in Procs : InHand(q)'
      BY <1>4, <2>3 DEF InHand, Tick
  <2> QED
      BY <2>1, <2>2, <2>4 DEF Rounds
<1>5. CASE Refill
    BY <1>5 DEF Rounds, InHand, Refill, files
<1>6. CASE Fetch
    BY <1>6 DEF Rounds, InHand, Fetch, files
<1>7. ASSUME NEW p \in Procs,
             CreateCRL(p) \/ SignList(p) \/ BuildLoTE(p) \/ BuildTSL(p)
      PROVE  Rounds'
  <2>1. /\ Make(p) /\ UNCHANGED <<kind, revoked, due, running, unsigned>>
        /\ pc[p] = "opened" /\ pc'[p] = "made"
        /\ draft'[p].age = 0 /\ draft'[p].lists = draft[p].lists
        /\ \A q \in Procs \ {p} : pc'[q] = pc[q] /\ draft'[q] = draft[q]
      BY <1>7 DEF TypeOK, CreateCRL, SignList, BuildLoTE, BuildTSL, Make, files, Documents
  <2>2. /\ kind' \in {"lote", "tsl"} => revoked' = Never
        /\ kind' # "lote" => ~unsigned'
        /\ pc'["timer"] # "idle" => running'["timer"] = Period - due'
        /\ \A q \in Procs : pc'[q] = "written" => kind' = "lote"
      BY <2>1 DEF Rounds, Procs
  <2>3. \A q \in Procs \ {p} : InHand(q)'
      BY <2>1 DEF Rounds, InHand
  <2>4. running[p] \in Nat /\ Within(revoked, draft[p], running[p])
      BY <2>1 DEF TypeOK, Rounds, InHand
  <2>5. InHand(p)'
      BY <2>1, <2>4 DEF InHand, Within, Stale
  <2> QED
      BY <2>2, <2>3, <2>5 DEF Rounds
<1>8. ASSUME NEW p \in Procs, Write(p) \/ WriteUnsignedLoTE(p) \/ WriteJWS(p) \/ Fail(p)
      PROVE  Rounds'
  <2>1. End(p) /\ (kind # "lote" => ~unsigned')
      BY <1>8 DEF Write, WriteUnsignedLoTE, WriteJWS, Fail, Succeed, Rounds, files
  <2> QED
      BY <2>1, EndKeepsRounds
<1>9. ASSUME NEW p \in Procs, WriteLoTE(p) PROVE Rounds'
  <2>1. /\ UNCHANGED <<kind, revoked, due, running, draft, unsigned>>
        /\ pc[p] # "idle" /\ kind = "lote"
        /\ \A q \in Procs \ {p} : pc'[q] = pc[q]
      BY <1>9 DEF TypeOK, WriteLoTE
  <2>2. \A q \in Procs : InHand(q)'
      BY <2>1 DEF Rounds, InHand
  <2>3. pc'["timer"] # "idle" => running'["timer"] = Period - due'
      BY <2>1 DEF Rounds, Procs
  <2> QED
      BY <2>1, <2>2, <2>3 DEF Rounds
<1>10. CASE UNCHANGED vars
    BY <1>10 DEF Rounds, InHand, vars, files
<1> QED
    BY <1>1, <1>2, <1>3, <1>4, <1>5, <1>6, <1>7, <1>8, <1>9, <1>10 DEF Next

\* Every publication under way works from a register no older than itself.
THEOREM RoundsKept == Spec => []Rounds
<1>1. Init => Rounds
    BY DEF Init, Rounds, InHand, Procs
<1> QED
    BY <1>1, TypeCorrect, RoundsStep, PTL DEF Spec

----------------------------------------------------------------------------
\* A revocation is recorded before a document that says it is made, or at most a
\* publication's time after one that does not began to be made.
Lagging == Lags(revoked, published) /\ Lags(revoked, cache.doc) /\ Lags(revoked, copy.doc)

LEMMA WithinLags ==
    ASSUME NEW r \in Revocations, NEW d \in Documents, NEW n \in Int, n <= Delay,
           Within(r, d, n)
    PROVE  Lags(r, d)
  BY Constants DEF Within, Lags, Stale, Revocations, Documents

LEMMA InHandLags ==
    ASSUME TypeOK, Rounds, NEW p \in Procs, pc[p] # "idle"
    PROVE  Lags(revoked, draft[p])
<1>1. /\ draft[p] \in Documents /\ running[p] \in Int /\ running[p] <= Delay
      /\ Within(revoked, draft[p], running[p])
    BY Constants DEF TypeOK, Rounds, InHand
<1> QED
    BY <1>1, RevocationType, WithinLags

LEMMA NoRevocationNoLag == ASSUME NEW d PROVE Lags(Never, d)
  BY DEF Lags, Stale

LEMMA ServedLags == TypeOK /\ Rounds /\ Lagging => Lags(revoked, Served)
  BY NoRevocationNoLag DEF Rounds, Lagging, Served

LEMMA SettingStays == [Next]_vars => validity' = validity /\ Keep(kind)' = Keep(kind)
<1> SUFFICES ASSUME [Next]_vars PROVE kind' = kind /\ validity' = validity
    BY DEF Keep
<1> QED
    BY DEF Next, StartRound, StartCommand, StartRevoke, Tick, CreateCRL, SignList, BuildLoTE,
           BuildTSL, Make, Write, WriteUnsignedLoTE, WriteLoTE, WriteJWS, Fail, Succeed,
           End, Refill, Fetch, vars

LEMMA LaggingStep == TypeOK /\ Rounds /\ Lagging /\ [Next]_vars => Lagging'
<1> SUFFICES ASSUME TypeOK, Rounds, Lagging, [Next]_vars PROVE Lagging'
    OBVIOUS
<1>0. validity' = validity
    BY SettingStays
<1> USE DEF Lags, Expired
<1>1. CASE StartRound \/ StartCommand
    BY <1>0, <1>1 DEF Lagging, StartRound, StartCommand, files
<1>2. CASE StartRevoke
  <2>1. revoked' = 0 /\ UNCHANGED <<published, cache, copy>>
      BY <1>2 DEF StartRevoke, files
  <2>2. \A d \in Documents : Lags(0, d)
      BY Constants DEF Lags, Documents
  <2> QED
      BY <1>0, <2>1, <2>2 DEF Lagging, TypeOK
<1>3. CASE Tick
  <2>1. /\ revoked' = Aged(revoked) /\ published' = Older(published)
        /\ cache'.doc = Older(cache.doc) /\ copy'.doc = Older(copy.doc)
      BY <1>3 DEF Tick, Aged
  <2>2. published \in Documents /\ cache.doc \in Documents /\ copy.doc \in Documents
      BY DEF TypeOK
  <2> QED
      BY <1>0, <2>1, <2>2, RevocationType, LagsOlder DEF Lagging
<1>4. CASE Refill
    BY <1>0, <1>4, ServedLags DEF Lagging, Refill, files
<1>5. CASE Fetch
    BY <1>0, <1>5 DEF Lagging, Fetch, files, TypeOK
<1>6. ASSUME NEW p \in Procs,
             CreateCRL(p) \/ SignList(p) \/ BuildLoTE(p) \/ BuildTSL(p)
      PROVE  Lagging'
    BY <1>0, <1>6 DEF Lagging, CreateCRL, SignList, BuildLoTE, BuildTSL, Make, files
<1>7. ASSUME NEW p \in Procs, Write(p) \/ WriteUnsignedLoTE(p) \/ WriteLoTE(p)
      PROVE  Lagging'
    BY <1>0, <1>7, InHandLags
       DEF Lagging, Write, WriteUnsignedLoTE, WriteLoTE, Succeed, End
<1>8. ASSUME NEW p \in Procs, WriteJWS(p) \/ Fail(p) PROVE Lagging'
    BY <1>0, <1>8 DEF Lagging, WriteJWS, Fail, Succeed, End, files
<1>9. CASE UNCHANGED vars
    BY <1>0, <1>9 DEF Lagging, vars, files
<1> QED
    BY <1>1, <1>2, <1>3, <1>4, <1>5, <1>6, <1>7, <1>8, <1>9 DEF Next

LEMMA LaggingIsExpiryBounds == TypeOK /\ Lagging => ExpiryBounds
<1> SUFFICES ASSUME TypeOK, Lagging, revoked # Never, Accepted
             PROVE  revoked < Delay + validity
    BY DEF ExpiryBounds
<1>1. copy.doc \in Documents /\ revoked \in Nat /\ validity \in Nat
    BY Constants, ValidityBounded DEF TypeOK
<1>2. ~copy.doc.lists /\ copy.doc.age < validity
    BY <1>1, Constants DEF Accepted, Expired, Documents
<1> QED
    BY <1>1, <1>2, Constants DEF Lagging, Lags, Stale, Documents, Accepted

\* Whatever is published or skipped after a revocation, and if nothing is, a document
\* without it is of no use after a publication's time and the validity.
THEOREM ExpiryBoundsHolds == Spec => []ExpiryBounds
<1>1. Init => Lagging
    BY DEF Init, Lagging, Lags, Stale
<1> QED
    BY <1>1, TypeCorrect, RoundsKept, LaggingStep, LaggingIsExpiryBounds, PTL DEF Spec

----------------------------------------------------------------------------
\* How old what is published can be now: the timer's last round began a period before the
\* next, or two if one failed or is under way, three if both, and a publication's time
\* earlier if a slower one put back what it had made.
Bound ==
    Delay + Period - due + (IF failed THEN Period ELSE 0)
                         + (IF pc["timer"] = "idle" THEN 0 ELSE Period)
Worst == 2 * Period + 2 * Delay

\* Between its two writes the timer has published what somebody had in hand since.
Renewed ==
    /\ Within(revoked, published, Bound)
    /\ kind = "lote" /\ ~unsigned => Within(revoked, jws, Bound)
    /\ pc["timer"] = "written" => Within(revoked, published, Delay + running["timer"])

LEMMA BoundFacts ==
    TypeOK /\ Rounds => /\ Bound \in Int /\ Bound <= Worst
                        /\ Delay <= Bound /\ Delay + Period - due <= Bound
<1> SUFFICES ASSUME TypeOK, Rounds
             PROVE  /\ Bound \in Int /\ Bound <= Worst
                    /\ Delay <= Bound /\ Delay + Period - due <= Bound
    OBVIOUS
<1>1. due \in Nat /\ due <= Period /\ running["timer"] \in Nat /\ running["timer"] <= Delay
    BY Constants DEF TypeOK, Procs
<1>2. pc["timer"] # "idle" => Period - due <= Delay
    BY <1>1 DEF Rounds
<1> QED
    BY <1>1, <1>2, Constants DEF Bound, Worst

\* What a publication writes is as new as what is published has to be.
LEMMA InHandRenews ==
    ASSUME TypeOK, Rounds, NEW p \in Procs, pc[p] # "idle", NEW n \in Int,
           Delay <= n \/ (p = "timer" /\ Period - due <= n)
    PROVE  Within(revoked, draft[p], n)
<1>1. /\ draft[p] \in Documents /\ running[p] \in Int /\ running[p] <= Delay
      /\ Within(revoked, draft[p], running[p]) /\ due \in Int
      /\ p = "timer" => running[p] = Period - due
    BY Constants DEF TypeOK, Rounds, InHand
<1>2. running[p] <= n
    BY <1>1, Constants
<1> QED
    BY <1>1, <1>2, RevocationType, WithinLonger

LEMMA RenewedOnStart ==
    ASSUME TypeOK, Rounds, Renewed, StartRound \/ StartCommand \/ StartRevoke
    PROVE  Renewed'
<1> USE Constants
<1>1. /\ UNCHANGED <<kind, published, jws, unsigned, failed>>
      /\ published \in Documents /\ jws \in Documents /\ Bound \in Int
    BY BoundFacts DEF StartRound, StartCommand, StartRevoke, files, TypeOK
<1>2. CASE StartRound
  <2>1. pc["timer"] = "idle" /\ pc'["timer"] = "opened" /\ due = 0 /\ due' = Period
      BY <1>2, Opens DEF StartRound, Procs
  <2>2. Bound' = Bound
      BY <1>1, <2>1 DEF Bound
  <2> QED
      BY <1>1, <1>2, <2>1, <2>2 DEF Renewed, StartRound
<1>3. CASE StartCommand \/ StartRevoke
  <2>1. /\ pc'["timer"] = pc["timer"] /\ running'["timer"] = running["timer"] /\ due' = due
        /\ running["timer"] \in Int
      BY <1>3, Opens DEF StartCommand, StartRevoke, Procs, TypeOK
  <2>2. Bound' = Bound
      BY <1>1, <2>1 DEF Bound
  <2>3. CASE revoked' = revoked
      BY <1>1, <2>1, <2>2, <2>3 DEF Renewed
  <2>4. CASE revoked = Never /\ revoked' = 0
      BY <1>1, <2>1, <2>2, <2>4, WithinRevoked DEF Renewed
  <2> QED
      BY <1>3, <2>3, <2>4 DEF StartCommand, StartRevoke
<1> QED
    BY <1>2, <1>3

LEMMA RenewedOnTick == ASSUME TypeOK, Rounds, Renewed, Tick PROVE Renewed'
<1>1. /\ UNCHANGED <<kind, pc, unsigned, failed>> /\ revoked' = Aged(revoked)
      /\ published' = Older(published) /\ (kind = "lote" => jws' = Older(jws))
      /\ published \in Documents /\ jws \in Documents
      /\ due' = due - 1 /\ due \in Int /\ Bound \in Int /\ running["timer"] \in Int
      /\ pc["timer"] # "idle" => running'["timer"] = running["timer"] + 1
    BY BoundFacts DEF Tick, Aged, TypeOK, Procs
<1>2. Bound' = Bound + 1
    BY <1>1, Constants DEF Bound
<1>3. pc'["timer"] = "written" => Within(revoked', published', Delay + running'["timer"])
  <2>1. SUFFICES ASSUME pc["timer"] = "written"
                 PROVE  Within(Aged(revoked), Older(published), Delay + (running["timer"] + 1))
      BY <1>1
  <2>2. Delay + running["timer"] \in Int
      BY <1>1, Constants
  <2>3. Within(Aged(revoked), Older(published), (Delay + running["timer"]) + 1)
      BY <1>1, <2>1, <2>2, RevocationType, WithinOlder DEF Renewed
  <2>4. Delay + (running["timer"] + 1) = (Delay + running["timer"]) + 1
      BY <1>1, Constants
  <2> QED
      BY <2>3, <2>4
<1>4. Within(revoked', published', Bound')
    BY <1>1, <1>2, RevocationType, WithinOlder DEF Renewed
<1>5. kind' = "lote" /\ ~unsigned' => Within(revoked', jws', Bound')
    BY <1>1, <1>2, RevocationType, WithinOlder DEF Renewed
<1> QED
    BY <1>3, <1>4, <1>5 DEF Renewed

\* The operator's steps leave the bound alone, the timer's last brings it down to what its
\* round deserves.
LEMMA EndBound ==
    ASSUME TypeOK, Rounds, NEW p \in Procs, Succeed(p)
    PROVE  Bound' = IF p = "timer" THEN Delay + Period - due ELSE Bound
<1>1. due' = due /\ pc'[p] = "idle" /\ (p = "timer" => ~failed')
    BY Ends DEF Succeed
<1>2. p # "timer" => pc'["timer"] = pc["timer"] /\ failed' = failed
    BY Ends DEF Succeed, Procs, TypeOK
<1>3. due \in Int /\ Delay + Period - due \in Int
    BY Constants DEF TypeOK
<1> QED
    BY <1>1, <1>2, <1>3, Constants DEF Bound

LEMMA RenewedOnWrite ==
    ASSUME TypeOK, Rounds, Renewed, NEW p \in Procs, Write(p) \/ WriteUnsignedLoTE(p)
    PROVE  Renewed'
<1>1. /\ Succeed(p) /\ pc[p] = "made" /\ published' = draft[p]
      /\ kind = "lote" => unsigned'
    BY DEF Write, WriteUnsignedLoTE
<1>2. End(p) /\ kind' = kind /\ revoked' = revoked
    BY <1>1, Ends DEF Succeed
<1>3. Within(revoked, draft[p], Bound')
  <2>1. due \in Int /\ due <= Period /\ Bound \in Int /\ Delay <= Bound
      BY Constants, BoundFacts DEF TypeOK
  <2>2. Bound' \in Int /\ Delay <= Bound'
      BY <1>1, <2>1, EndBound, Constants
  <2> QED
      BY <1>1, <2>2, InHandRenews
<1>4. ASSUME pc'["timer"] = "written"
      PROVE  Within(revoked, draft[p], Delay + running'["timer"])
  <2>1. p # "timer" /\ running'["timer"] = running["timer"] /\ running["timer"] \in Nat
      BY <1>2, <1>4, Ends DEF Procs, TypeOK
  <2>2. Delay + running'["timer"] \in Int /\ Delay <= Delay + running'["timer"]
      BY <2>1, Constants
  <2> QED
      BY <1>1, <2>2, InHandRenews
<1> QED
    BY <1>1, <1>2, <1>3, <1>4 DEF Renewed

LEMMA RenewedOnWriteLoTE ==
    ASSUME TypeOK, Rounds, Renewed, NEW p \in Procs, WriteLoTE(p)
    PROVE  Renewed'
<1>1. /\ pc[p] = "made" /\ published' = draft[p] /\ pc'[p] = "written"
      /\ p # "timer" => pc'["timer"] = pc["timer"]
      /\ UNCHANGED <<kind, revoked, due, failed, running, jws, unsigned>>
    BY DEF WriteLoTE, TypeOK, Procs
<1>2. Bound' = Bound
    BY <1>1 DEF Bound
<1>3. /\ running["timer"] \in Nat /\ Bound \in Int /\ Delay <= Bound
      /\ Delay + running["timer"] \in Int /\ Delay <= Delay + running["timer"]
    BY Constants, BoundFacts DEF TypeOK, Procs
<1>4. /\ Within(revoked, draft[p], Bound)
      /\ Within(revoked, draft[p], Delay + running["timer"])
    BY <1>1, <1>3, InHandRenews
<1> QED
    BY <1>1, <1>2, <1>4 DEF Renewed

LEMMA RenewedOnWriteJWS ==
    ASSUME TypeOK, Rounds, Renewed, NEW p \in Procs, WriteJWS(p)
    PROVE  Renewed'
<1>1. /\ Succeed(p) /\ End(p) /\ pc[p] = "written" /\ jws' = draft[p]
      /\ UNCHANGED <<published, unsigned>>
    BY DEF WriteJWS, Succeed
<1>2. kind' = kind /\ revoked' = revoked /\ pc'[p] = "idle"
    BY <1>1, Ends
<1>3. /\ due \in Int /\ due <= Period /\ Bound \in Int /\ Delay <= Bound
      /\ Bound' = IF p = "timer" THEN Delay + Period - due ELSE Bound
    BY <1>1, Constants, BoundFacts, EndBound DEF TypeOK
<1>4. Bound' \in Int /\ Delay <= Bound'
    BY <1>3, Constants
<1>5. Within(revoked, draft[p], Bound')
    BY <1>1, <1>4, InHandRenews
<1>6. Within(revoked, published, Bound')
  <2>1. CASE p = "timer"
    <3>1. running["timer"] = Period - due /\ Within(revoked, published, Delay + running["timer"])
        BY <1>1, <2>1 DEF Rounds, Renewed
    <3>2. Delay + running["timer"] = Bound'
        BY <1>3, <2>1, <3>1, Constants
    <3> QED
        BY <3>1, <3>2
  <2>2. CASE p # "timer"
      BY <1>3, <2>2 DEF Renewed
  <2> QED
      BY <2>1, <2>2
<1>7. pc'["timer"] = "written" => pc["timer"] = "written" /\ running'["timer"] = running["timer"]
    BY <1>1, <1>2, Ends DEF Procs
<1> QED
    BY <1>1, <1>2, <1>5, <1>6, <1>7 DEF Renewed

LEMMA RenewedOnFail ==
    ASSUME TypeOK, Rounds, Renewed, NEW p \in Procs, Fail(p)
    PROVE  Renewed'
<1>1. /\ End(p) /\ pc[p] # "idle" /\ UNCHANGED files
      /\ p = "timer" => ~failed /\ failed'
      /\ p # "timer" => failed' = failed
    BY DEF Fail, TypeOK
<1>2. /\ kind' = kind /\ revoked' = revoked /\ due' = due /\ pc'[p] = "idle"
      /\ p # "timer" => pc'["timer"] = pc["timer"] /\ running'["timer"] = running["timer"]
    BY <1>1, Ends DEF Procs
<1>3. due \in Int
    BY DEF TypeOK
<1>4. Bound' = Bound
    BY <1>1, <1>2, <1>3, Constants DEF Bound
<1> QED
    BY <1>1, <1>2, <1>4 DEF Renewed, files

LEMMA RenewedStep == TypeOK /\ Rounds /\ Renewed /\ [Next]_vars => Renewed'
<1> SUFFICES ASSUME TypeOK, Rounds, Renewed, [Next]_vars PROVE Renewed'
    OBVIOUS
<1>1. ASSUME NEW p \in Procs,
             CreateCRL(p) \/ SignList(p) \/ BuildLoTE(p) \/ BuildTSL(p)
      PROVE  Renewed'
  <2>1. /\ UNCHANGED <<kind, revoked, due, failed, running, published, jws, unsigned>>
        /\ pc[p] = "opened" /\ pc'[p] = "made"
        /\ \A q \in Procs \ {p} : pc'[q] = pc[q]
      BY <1>1 DEF TypeOK, CreateCRL, SignList, BuildLoTE, BuildTSL, Make, files
  <2>2. /\ pc'["timer"] = "idle" <=> pc["timer"] = "idle"
        /\ pc'["timer"] = "written" => pc["timer"] = "written"
      BY <2>1 DEF Procs
  <2>3. Bound' = Bound
      BY <2>1, <2>2 DEF Bound
  <2> QED
      BY <2>1, <2>2, <2>3 DEF Renewed
<1>2. CASE Refill
    BY <1>2 DEF Renewed, Bound, Refill, files
<1>3. CASE Fetch
    BY <1>3 DEF Renewed, Bound, Fetch, files
<1>4. CASE UNCHANGED vars
    BY <1>4 DEF Renewed, Bound, vars, files
<1> QED
    BY <1>1, <1>2, <1>3, <1>4, RenewedOnStart, RenewedOnTick, RenewedOnWrite,
       RenewedOnWriteLoTE, RenewedOnWriteJWS, RenewedOnFail
       DEF Next

LEMMA RenewedInit == Init => Renewed
<1> SUFFICES ASSUME Init PROVE Renewed
    OBVIOUS
<1>1. pc["timer"] = "idle" /\ due = Period /\ ~failed
    BY DEF Init, Procs
<1>2. Bound = Delay
    BY <1>1, Constants DEF Bound
<1>3. Within(Never, Blank, Delay)
    BY Constants DEF Within, Stale, Blank
<1> QED
    BY <1>1, <1>2, <1>3 DEF Init, Renewed

\* What is published is at most as old as the timer's rounds leave it.
THEOREM RenewedKept == Spec => []Renewed
  BY TypeCorrect, RoundsKept, RenewedInit, RenewedStep, PTL DEF Spec

LEMMA RenewedIsUnexpired == TypeOK /\ Rounds /\ Renewed => PublishedUnexpired
<1> SUFFICES ASSUME TypeOK, Rounds, Renewed, WellInside
             PROVE  /\ ~Expired(published)
                    /\ kind = "lote" /\ ~unsigned => ~Expired(jws)
    BY DEF PublishedUnexpired
<1>1. Bound \in Int /\ Bound <= Worst /\ Worst < validity
    BY BoundFacts, Constants, ValidityBounded DEF WellInside, Latest, LastTaken, Worst, Hint
<1>2. ASSUME NEW d \in Documents, Within(revoked, d, Bound) PROVE ~Expired(d)
  <2>1. d.age \in Int /\ d.age <= Bound
      BY <1>2, Constants DEF Within, Documents
  <2> QED
      BY <1>1, <2>1, Constants, ValidityBounded DEF Expired, Worst
<1> QED
    BY <1>2 DEF Renewed, TypeOK

\* With a schedule well inside the validity, what is published never expires, although a
\* round may fail and a slower publication may put back what it made earlier.
THEOREM PublishedUnexpiredHolds == Spec => []PublishedUnexpired
  BY TypeCorrect, RoundsKept, RenewedKept, RenewedIsUnexpired, PTL

----------------------------------------------------------------------------
\* What a cache may still give out is as old as what is published can be, and as long as it
\* has had it; and so for the copy a consumer may still use.
CacheFresh == ~unsigned /\ Cached => Within(revoked, cache.doc, Worst + cache.age)
CopyFresh ==
    ~unsigned /\ grows /\ InUse => Within(revoked, copy.doc, Worst + MaxAge + copy.age)
Fresh == CacheFresh /\ CopyFresh

LEMMA AgesAreInts ==
    TypeOK => /\ Worst \in Nat /\ Worst + cache.age \in Int /\ Worst + MaxAge + copy.age \in Int
              /\ cache.age \in Nat /\ copy.age \in Nat
              /\ cache.doc \in Documents /\ copy.doc \in Documents
<1>1. Worst \in Nat
    BY Constants DEF Worst
<1>2. TypeOK => cache.age \in Nat /\ copy.age \in Nat
    BY DEF TypeOK
<1>3. TypeOK => cache.doc \in Documents /\ copy.doc \in Documents
    BY DEF TypeOK
<1> QED
    BY <1>1, <1>2, <1>3, Constants

LEMMA FreshOnTick == ASSUME TypeOK, Rounds, Fresh, Tick PROVE Fresh'
<1>0. Keep(kind)' = Keep(kind)
    BY SettingStays DEF Next
<1>1. /\ UNCHANGED <<kind, unsigned, grows>> /\ revoked' = Aged(revoked)
      /\ cache' = [doc |-> Older(cache.doc), age |-> Up(cache.age, MaxAge)]
      /\ copy' = [doc |-> Older(copy.doc), age |-> Up(copy.age, Keep(kind) + 1)]
    BY DEF Tick, Aged
<1>2. CacheFresh'
  <2>1. SUFFICES ASSUME ~unsigned, Up(cache.age, MaxAge) < MaxAge
                 PROVE  Within(Aged(revoked), Older(cache.doc), Worst + Up(cache.age, MaxAge))
      BY <1>1 DEF CacheFresh, Cached
  <2>2. Cached /\ Up(cache.age, MaxAge) = cache.age + 1
      BY <2>1, AgesAreInts, Constants DEF Up, Cached
  <2>3. Within(Aged(revoked), Older(cache.doc), (Worst + cache.age) + 1)
      BY <2>1, <2>2, AgesAreInts, RevocationType, WithinOlder DEF Fresh, CacheFresh
  <2>4. Worst + (cache.age + 1) = (Worst + cache.age) + 1
      BY AgesAreInts
  <2> QED
      BY <2>2, <2>3, <2>4
<1>3. CopyFresh'
  <2>1. SUFFICES ASSUME ~unsigned, grows, Up(copy.age, Keep(kind) + 1) <= Keep(kind)
                 PROVE  Within(Aged(revoked), Older(copy.doc),
                               Worst + MaxAge + Up(copy.age, Keep(kind) + 1))
      BY <1>0, <1>1 DEF CopyFresh, InUse
  <2>2. Keep(kind) \in Nat
      BY KeepCapped
  <2>3. InUse /\ Up(copy.age, Keep(kind) + 1) = copy.age + 1
      BY <2>1, <2>2, AgesAreInts DEF Up, InUse
  <2>4. Within(Aged(revoked), Older(copy.doc), (Worst + MaxAge + copy.age) + 1)
      BY <2>1, <2>3, AgesAreInts, RevocationType, WithinOlder DEF Fresh, CopyFresh
  <2>5. Worst + MaxAge + (copy.age + 1) = (Worst + MaxAge + copy.age) + 1
      BY AgesAreInts, Constants
  <2> QED
      BY <2>3, <2>4, <2>5
<1> QED
    BY <1>2, <1>3 DEF Fresh

LEMMA FreshOnRefill == ASSUME TypeOK, Rounds, Renewed, Fresh, Refill PROVE Fresh'
<1>0. Keep(kind)' = Keep(kind)
    BY SettingStays DEF Next
<1>1. /\ cache' = [doc |-> Served, age |-> 0]
      /\ UNCHANGED <<kind, revoked, unsigned, grows, copy>>
    BY DEF Refill, files
<1>2. CopyFresh'
    BY <1>0, <1>1 DEF Fresh, CopyFresh, InUse
<1>3. ASSUME ~unsigned PROVE Within(revoked, Served, Bound)
    BY <1>3 DEF Renewed, Served
<1>4. Bound \in Int /\ Worst + 0 \in Int /\ Bound <= Worst + 0 /\ Served \in Documents
    BY BoundFacts, AgesAreInts DEF Served, TypeOK
<1>5. ~unsigned => Within(revoked, Served, Worst + 0)
    BY <1>3, <1>4, RevocationType, WithinLonger
<1> QED
    BY <1>1, <1>2, <1>5 DEF Fresh, CacheFresh

LEMMA FreshOnFetch == ASSUME TypeOK, Rounds, Fresh, Fetch PROVE Fresh'
<1>0. Keep(kind)' = Keep(kind)
    BY SettingStays DEF Next
<1>1. Cached /\ UNCHANGED <<kind, revoked, unsigned, grows, cache>>
    BY DEF Fetch, files
<1>2. CacheFresh'
    BY <1>1 DEF Fresh, CacheFresh, Cached
<1>3. CASE copy' = [doc |-> cache.doc, age |-> 0]
  <2>1. ~unsigned => Within(revoked, cache.doc, Worst + cache.age)
      BY <1>1 DEF Fresh, CacheFresh
  <2>2. Worst + MaxAge + 0 \in Int /\ Worst + cache.age <= Worst + MaxAge + 0
      BY <1>1, AgesAreInts, Constants DEF Cached
  <2>3. ~unsigned => Within(revoked, cache.doc, Worst + MaxAge + 0)
      BY <2>1, <2>2, AgesAreInts, RevocationType, WithinLonger
  <2> QED
      BY <1>0, <1>1, <1>2, <1>3, <2>3 DEF Fresh, CopyFresh
<1>4. CASE ~grows
    BY <1>0, <1>1, <1>2, <1>4 DEF Fresh, CopyFresh
<1> QED
    BY <1>3, <1>4 DEF Fetch

LEMMA FreshStep == TypeOK /\ Rounds /\ Renewed /\ Fresh /\ [Next]_vars => Fresh'
<1> SUFFICES ASSUME TypeOK, Rounds, Renewed, Fresh, [Next]_vars PROVE Fresh'
    OBVIOUS
<1>0. Keep(kind)' = Keep(kind)
    BY SettingStays
<1>1. CASE StartRound \/ StartCommand
    BY <1>0, <1>1 DEF Fresh, CacheFresh, CopyFresh, Cached, InUse, StartRound, StartCommand, files
<1>2. CASE StartRevoke
  <2>1. revoked = Never /\ revoked' = 0 /\ UNCHANGED <<kind, unsigned, grows, cache, copy>>
      BY <1>2 DEF StartRevoke, files
  <2> QED
      BY <1>0, <2>1, AgesAreInts, WithinRevoked DEF Fresh, CacheFresh, CopyFresh, Cached, InUse
<1>3. ASSUME NEW p \in Procs,
             CreateCRL(p) \/ SignList(p) \/ BuildLoTE(p) \/ BuildTSL(p)
      PROVE  Fresh'
    BY <1>0, <1>3 DEF Fresh, CacheFresh, CopyFresh, Cached, InUse,
                CreateCRL, SignList, BuildLoTE, BuildTSL, Make, files
<1>4. ASSUME NEW p \in Procs,
             Write(p) \/ WriteUnsignedLoTE(p) \/ WriteLoTE(p) \/ WriteJWS(p) \/ Fail(p)
      PROVE  Fresh'
  <2>1. UNCHANGED <<kind, revoked, cache, copy>> /\ (~unsigned' => ~unsigned)
      BY <1>4 DEF Write, WriteUnsignedLoTE, WriteLoTE, WriteJWS, Fail, Succeed, End, files
  <2>2. Numbered => (grows' => grows)
      BY Zenon DEF Numbered
  <2>3. grows' => grows
      BY <1>4, <2>2 DEF Write, WriteUnsignedLoTE, WriteLoTE, WriteJWS, Fail, files
  <2> QED
      BY <1>0, <2>1, <2>3 DEF Fresh, CacheFresh, CopyFresh, Cached, InUse
<1>5. CASE UNCHANGED vars
    BY <1>0, <1>5 DEF Fresh, CacheFresh, CopyFresh, Cached, InUse, vars, files
<1> QED
    BY <1>1, <1>2, <1>3, <1>4, <1>5, FreshOnTick, FreshOnRefill, FreshOnFetch DEF Next

LEMMA FreshInit == Init => Fresh
<1> SUFFICES ASSUME Init PROVE Fresh
    OBVIOUS
<1>1. revoked = Never /\ cache = [doc |-> Blank, age |-> 0] /\ copy = [doc |-> Blank, age |-> 0]
    BY DEF Init
<1>2. Within(Never, Blank, Worst + 0) /\ Within(Never, Blank, Worst + MaxAge + 0)
    BY Constants DEF Within, Stale, Blank, Worst
<1> QED
    BY <1>1, <1>2 DEF Fresh, CacheFresh, CopyFresh

\* And what a cache gives out, or a consumer may still use, by the time they had it.
THEOREM FreshKept == Spec => []Fresh
  BY TypeCorrect, RoundsKept, RenewedKept, FreshInit, FreshStep, PTL DEF Spec

LEMMA CopyWithin ==
    ASSUME TypeOK, Fresh, ~unsigned, grows, InUse
    PROVE  /\ Within(revoked, copy.doc, Latest)
           /\ Within(revoked, copy.doc, LastTaken + validity)
<1>1. /\ copy.age \in Nat /\ copy.age <= Hint /\ copy.age <= validity
      /\ Hint \in Nat /\ validity \in Nat
    BY Constants, AgesAreInts, KeepCapped, ValidityBounded DEF InUse, Hint
<1>2. LastTaken = Worst + MaxAge /\ LastTaken \in Nat
    BY Constants DEF Worst, LastTaken
<1>3. /\ Worst + MaxAge + copy.age \in Int /\ Latest \in Int /\ LastTaken + validity \in Int
      /\ Worst + MaxAge + copy.age <= Latest
      /\ Worst + MaxAge + copy.age <= LastTaken + validity
    BY <1>1, <1>2 DEF Latest
<1> QED
    BY <1>3, AgesAreInts, RevocationType, WithinLonger DEF Fresh, CopyFresh

LEMMA FreshIsNeverWithout == TypeOK /\ Fresh => NeverWithout
<1> SUFFICES ASSUME TypeOK, Fresh, WellInside, grows, ~unsigned, InUse
             PROVE  ~Expired(copy.doc)
    BY DEF NeverWithout
<1>1. copy.doc.age <= Latest /\ copy.doc.age \in Int
    BY CopyWithin, AgesAreInts DEF Within, Documents
<1>2. Latest \in Int /\ validity \in Int
    BY Constants, ValidityBounded DEF Latest, LastTaken, Hint
<1> QED
    BY <1>1, <1>2 DEF WellInside, Expired

\* A consumer who follows ttl never has an expired document in use, through a cache or by
\* skipping numbers as long as they grow.
THEOREM NeverWithoutHolds == Spec => []NeverWithout
  BY TypeCorrect, FreshKept, FreshIsNeverWithout, PTL

LEMMA FreshIsHeeded == TypeOK /\ Rounds /\ Fresh => RevocationHeeded
<1> SUFFICES ASSUME TypeOK, Rounds, Fresh, revoked # Never, grows, InUse, ~copy.doc.lists
             PROVE  revoked <= Latest /\ revoked <= LastTaken + validity
    BY DEF RevocationHeeded
<1>1. ~unsigned
    BY DEF Rounds
<1> QED
    BY <1>1, CopyWithin DEF Within, Stale

\* As long as the numbers grow, a revocation on record is heeded everywhere, by those too
\* who go by ttl alone, after two periods, a slow publication after a slow one, max-age,
\* and ttl or the validity, whichever is less: whether or not `revoke` published it.
THEOREM RevocationHeededHolds == Spec => []RevocationHeeded
  BY TypeCorrect, RoundsKept, FreshKept, FreshIsHeeded, PTL
=============================================================================
