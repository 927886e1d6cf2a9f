-------------------------- MODULE DeploymentProofs --------------------------
(***************************************************************************)
(* Theorems about Deployment, for every set of operators, publishers,      *)
(* serials, clients and fingerprints, interrupted or not.                  *)
(*                                                                         *)
(* First what the register operators return, for every register. The       *)
(* inductive invariant of any number of commands is Inv: types, the        *)
(* serials of every register are archived (so a new serial is new to all   *)
(* of them), and every register is sound. Reconciling is the one of the    *)
(* properties of `apply`.                                                  *)
(***************************************************************************)
EXTENDS Deployment, FiniteSetTheorems, TLAPS

LEMMA EmptyIsRegister ==
    /\ IsRegister(EmptyRegister)
    /\ Sound(EmptyRegister)
    /\ DOMAIN EmptyRegister.entries = {}
    /\ Revoked(EmptyRegister) = {}
    /\ StatusBits(EmptyRegister) = {}
BY DEF IsRegister, EmptyRegister, Sound, Revoked, StatusBits

\* A new entry leaves the others alone and takes the next slot.
LEMMA AddEntryIsRegister ==
    ASSUME NEW r, IsRegister(r), NEW s \in Serials,
           NEW c \in Clients \cup {None}, NEW f \in Fingerprints \cup {None}
    PROVE  /\ IsRegister(AddEntry(r, s, c, f))
           /\ DOMAIN AddEntry(r, s, c, f).entries = DOMAIN r.entries \cup {s}
BY DEF IsRegister, AddEntry, NewEntry, Entry

LEMMA AddEntryIsSound ==
    ASSUME NEW r, IsRegister(r), Sound(r), NEW s \in Serials \ DOMAIN r.entries,
           NEW c, NEW f
    PROVE  Sound(AddEntry(r, s, c, f)) /\ Extends(r, AddEntry(r, s, c, f))
BY DEF IsRegister, AddEntry, NewEntry, Entry, Sound, Extends

LEMMA ExtendsReflexive ==
    ASSUME NEW r, IsRegister(r) PROVE Extends(r, r)
BY DEF IsRegister, Extends

\* Marking an entry changes its marks only; without such an entry it changes
\* nothing.
LEMMA MarkedEntry ==
    ASSUME NEW r, IsRegister(r), NEW s, NEW b \in BOOLEAN, NEW t \in DOMAIN r.entries
    PROVE  LET e == r.entries[t]  f == Marked(r, s, b).entries[t]
           IN  /\ f \in Entry
               /\ f.idx = e.idx /\ f.client = e.client /\ f.fp = e.fp
               /\ f.revoked = (e.revoked \/ t = s)
               /\ f.superseded = (e.superseded \/ (t = s /\ b))
<1>1. r.entries[t] \in Entry
  BY DEF IsRegister
<1>2. CASE t = s
  <2>1. Marked(r, s, b).entries[t] = [r.entries[t] EXCEPT !.revoked = TRUE,
                                         !.superseded = r.entries[t].superseded \/ b]
    BY <1>1, <1>2 DEF Marked, Entry
  <2> QED BY <1>1, <1>2, <2>1 DEF Entry
<1>3. CASE t # s
  <2>1. Marked(r, s, b).entries[t] = r.entries[t]
    BY <1>3 DEF Marked
  <2> QED BY <1>1, <1>3, <2>1 DEF Entry
<1> QED BY <1>2, <1>3

LEMMA MarkedIsRegister ==
    ASSUME NEW r, IsRegister(r), NEW s, NEW b \in BOOLEAN
    PROVE  /\ IsRegister(Marked(r, s, b))
           /\ DOMAIN Marked(r, s, b).entries = DOMAIN r.entries
<1>1. DOMAIN Marked(r, s, b).entries = DOMAIN r.entries
  BY DEF Marked
<1>2. \A t \in DOMAIN r.entries : Marked(r, s, b).entries[t] \in Entry
  BY MarkedEntry
<1>3. Marked(r, s, b).entries \in [DOMAIN r.entries -> Entry]
  BY <1>1, <1>2 DEF Marked
<1> QED BY <1>1, <1>3 DEF Marked, IsRegister

\* Marking keeps a register sound, if what it marks superseded is revoked too.
LEMMA MarkedIsSound ==
    ASSUME NEW r, IsRegister(r), Sound(r), NEW s, NEW b \in BOOLEAN
    PROVE  Sound(Marked(r, s, b)) /\ Extends(r, Marked(r, s, b))
<1> DEFINE q == Marked(r, s, b)
<1>1. DOMAIN q.entries = DOMAIN r.entries /\ q.next = r.next
  BY DEF Marked
<1>2. \A t \in DOMAIN r.entries :
        /\ q.entries[t].idx = r.entries[t].idx
        /\ q.entries[t].revoked = (r.entries[t].revoked \/ t = s)
        /\ q.entries[t].superseded = (r.entries[t].superseded \/ (t = s /\ b))
  BY MarkedEntry
<1> HIDE DEF q
<1>3. Sound(q)
  BY <1>1, <1>2 DEF Sound
<1>4. Extends(r, q)
  <2>1. r.next <= q.next
    BY <1>1 DEF IsRegister
  <2>2. \A t \in DOMAIN r.entries :
           /\ r.entries[t].revoked => q.entries[t].revoked
           /\ r.entries[t].superseded => q.entries[t].superseded
    BY <1>2
  <2> QED BY <1>1, <1>2, <2>1, <2>2 DEF Extends
<1> QED BY <1>3, <1>4 DEF q

LEMMA SupersedeIsRegister ==
    ASSUME NEW r, IsRegister(r), NEW s
    PROVE  /\ IsRegister(Supersede(r, s))
           /\ DOMAIN Supersede(r, s).entries = DOMAIN r.entries
BY MarkedIsRegister DEF Supersede

LEMMA SupersedeIsSound ==
    ASSUME NEW r, IsRegister(r), Sound(r), NEW s
    PROVE  Sound(Supersede(r, s)) /\ Extends(r, Supersede(r, s))
BY MarkedIsSound, ExtendsReflexive DEF Supersede

LEMMA ExtendsEmpty ==
    ASSUME NEW r, IsRegister(r) PROVE Extends(EmptyRegister, r)
BY DEF IsRegister, EmptyRegister, Extends, Entry

LEMMA ExtendsTransitive ==
    ASSUME NEW r, NEW q, NEW t, IsRegister(r), IsRegister(q), IsRegister(t),
           Extends(r, q), Extends(q, t)
    PROVE  Extends(r, t)
<1>1. \A s \in DOMAIN t.entries : t.entries[s].idx \in Nat
  BY DEF IsRegister, Entry
<1>2. \A s \in DOMAIN q.entries : q.entries[s].idx \in Nat
  BY DEF IsRegister, Entry
<1>3. \A s \in DOMAIN t.entries \ DOMAIN r.entries : t.entries[s].idx >= r.next
  <2> SUFFICES ASSUME NEW s \in DOMAIN t.entries \ DOMAIN r.entries
               PROVE  t.entries[s].idx >= r.next
    OBVIOUS
  <2>1. CASE s \in DOMAIN q.entries
    BY <2>1 DEF Extends
  <2>2. CASE s \notin DOMAIN q.entries
    BY <1>1, <2>2 DEF Extends, IsRegister
  <2> QED BY <2>1, <2>2
<1> QED BY <1>3 DEF Extends, IsRegister

\* A register that extends another has all of its revocations and their slots.
LEMMA ExtendsKeepsRevoked ==
    ASSUME NEW r, NEW q, Extends(r, q)
    PROVE  Revoked(r) \subseteq Revoked(q) /\ StatusBits(r) \subseteq StatusBits(q)
<1>1. Revoked(r) \subseteq Revoked(q)
  BY DEF Extends, Revoked
<1>2. \A s \in Revoked(r) : q.entries[s].idx = r.entries[s].idx
  BY DEF Extends, Revoked
<1> QED BY <1>1, <1>2 DEF StatusBits

\* publish accepts a sound register: every slot lies in the list.
LEMMA SoundIsPublishable ==
    ASSUME NEW r, IsRegister(r), Sound(r)
    PROVE  Publishable(r)
BY DEF IsRegister, Sound, Entry, Publishable, StatusBits, Revoked, ListRoom

\* What publish writes has its types.
LEMMA PublishedTypes ==
    ASSUME NEW r, IsRegister(r)
    PROVE  /\ Revoked(r) \subseteq Serials
           /\ ListSize(r) \in Nat
           /\ StatusBits(r) \subseteq Nat
           /\ DOMAIN PublicRegister(r) \subseteq Serials
           /\ PublicRegister(r) \in [DOMAIN PublicRegister(r) -> BOOLEAN]
BY DEF IsRegister, Entry, Revoked, ListSize, ListRoom, StatusBits, PublicRegister

\* The plan of an apply consists of plan items.
LEMMA PlanIsTyped ==
    ASSUME NEW r, IsRegister(r), NEW sp \in [Clients -> SpecFile],
           NEW prune \in BOOLEAN, NEW pick \in Picks(r)
    PROVE  Plan(r, sp, prune, pick) \subseteq PlanItem
<1>1. \A c \in Clients : sp[c].fp \in Fingerprints \cup {None}
  BY DEF SpecFile
<1>2. \A c \in Clients : pick[c] \in Serials \cup {NoSerial}
  BY DEF Picks
<1>3. \A s \in DOMAIN r.entries : s \in Serials
  BY DEF IsRegister
<1> SUFFICES ASSUME NEW i \in Plan(r, sp, prune, pick) PROVE i \in PlanItem
  OBVIOUS
<1>4. PICK k \in {"issue", "reissue", "revoke"}, c \in Clients,
           s \in Serials \cup {NoSerial}, o \in BOOLEAN :
         i = [kind |-> k, client |-> c, fp |-> sp[c].fp, serial |-> s, orphan |-> o]
  BY <1>2, <1>3 DEF Plan, Live
<1> QED BY <1>1, <1>4 DEF PlanItem

\* Adding and marking entries leave all others valid that were.
LEMMA LiveAfter ==
    ASSUME NEW r, IsRegister(r), NEW s, NEW b \in BOOLEAN, NEW c, NEW f
    PROVE  /\ s \notin DOMAIN r.entries => Live(r) \subseteq Live(AddEntry(r, s, c, f))
           /\ Live(r) \ {s} \subseteq Live(Marked(r, s, b))
           /\ Live(r) \ {s} \subseteq Live(Supersede(r, s))
<1>1. s \notin DOMAIN r.entries => Live(r) \subseteq Live(AddEntry(r, s, c, f))
  BY DEF Live, AddEntry
<1>2. ASSUME NEW a \in BOOLEAN PROVE Live(r) \ {s} \subseteq Live(Marked(r, s, a))
  <2> SUFFICES ASSUME NEW t \in DOMAIN r.entries, ~r.entries[t].revoked, t # s
               PROVE  t \in Live(Marked(r, s, a))
    BY DEF Live
  <2>1. t \in DOMAIN Marked(r, s, a).entries
    BY MarkedIsRegister
  <2>2. ~Marked(r, s, a).entries[t].revoked
    BY MarkedEntry
  <2> QED BY <2>1, <2>2 DEF Live
<1>3. Live(r) \ {s} \subseteq Live(Supersede(r, s))
  BY <1>2 DEF Supersede
<1> QED BY <1>1, <1>2, <1>3

\* Without --prune the plan only replaces or revokes certificates of clients it has a spec of.
LEMMA PlanSpares ==
    ASSUME NEW r, IsRegister(r), NEW sp, NEW pick \in Picks(r), NEW i \in Plan(r, sp, FALSE, pick)
    PROVE  \/ i.serial = NoSerial
           \/ /\ i.serial \in DOMAIN r.entries
              /\ r.entries[i.serial].client # None
              /\ sp[r.entries[i.serial].client].state # "absent"
<1>1. \/ i.serial = NoSerial
      \/ \E c \in Clients : /\ sp[c].state # "absent"
                            /\ i.serial = pick[c] /\ pick[c] \in Live(r)
  BY DEF Plan
<1>2. ASSUME NEW c \in Clients, pick[c] \in Live(r)
      PROVE  pick[c] \in DOMAIN r.entries /\ r.entries[pick[c]].client = c
  <2>1. pick[c] \in DOMAIN r.entries /\ pick[c] # NoSerial
    BY <1>2, SerialsAssumption DEF Live, IsRegister
  <2>2. pick[c] \in ActiveByClient(r, c)
    BY DEF Picks
  <2> QED BY <2>1, <2>2 DEF ActiveByClient
<1>3. \A c \in Clients : c # None
  BY ClientsAssumption DEF None
<1> QED BY <1>1, <1>2, <1>3

----------------------------------------------------------------------------
(***************************************************************************)
(* Reconciliation: what a plan does to the entries of a client that        *)
(* nothing has replaced.                                                   *)
(***************************************************************************)
Standing(r, c) ==
    {s \in DOMAIN r.entries : r.entries[s].client = c /\ ~r.entries[s].superseded}

\* A client has one, but for x, which is about to be superseded.
OneStanding(r, x) == \A c \in Clients : \A s, t \in Standing(r, c) \ {x} : s = t

\* The spec of a client whose certificate was revoked is not active.
RevokedUnwanted(r, sp) ==
    \A c \in Clients : \A s \in Standing(r, c) :
        r.entries[s].revoked => sp[c].state # "active"

\* What an item of a plan says of the register it is for.
ItemFits(r, sp, x, i) ==
    /\ i.kind = "issue" => /\ i.serial = NoSerial
                           /\ i.client \in Clients => Standing(r, i.client) = {}
    /\ i.kind # "issue" => i.client \in Clients /\ i.serial \in Standing(r, i.client) \ {x}
    /\ i.kind = "revoke" => sp[i.client].state # "active"

\* An item does what the specs of the apply ask.
ItemAsked(sp, i) == /\ i.client \in Clients /\ i.fp = sp[i.client].fp
                    /\ (i.kind = "revoke") <=> (sp[i.client].state # "active")

\* What the specs ask of a client is so in r, once x is superseded.
Done(r, sp, prune, x, c) ==
    /\ sp[c].state = "active" =>
          \E s \in Live(r) : Standing(r, c) \ {x} = {s} /\ r.entries[s].fp = sp[c].fp
    /\ sp[c].state = "revoked" \/ (sp[c].state = "absent" /\ prune) =>
          (Standing(r, c) \ {x}) \cap Live(r) = {}

\* A serial stands for one client, and is a serial.
LEMMA StandsOnce ==
    ASSUME NEW r, IsRegister(r), NEW c, NEW s \in Standing(r, c)
    PROVE  s \in DOMAIN r.entries /\ s # NoSerial /\ r.entries[s].client = c
BY SerialsAssumption DEF Standing, IsRegister

\* A new entry stands for its client, and is valid.
LEMMA StandingAfterAdd ==
    ASSUME NEW r, IsRegister(r), NEW s \in Serials \ DOMAIN r.entries, NEW d, NEW f
    PROVE  LET q == AddEntry(r, s, d, f)
           IN  /\ \A c : Standing(q, c) = Standing(r, c) \cup (IF c = d THEN {s} ELSE {})
               /\ s \in Live(q) /\ q.entries[s].fp = f
               /\ \A t \in DOMAIN r.entries :
                     t \in DOMAIN q.entries /\ q.entries[t] = r.entries[t]
<1> DEFINE q == AddEntry(r, s, d, f)
<1>1. DOMAIN q.entries = DOMAIN r.entries \cup {s} /\ q.entries[s] = NewEntry(r, d, f)
  BY DEF AddEntry
<1>2. \A t \in DOMAIN r.entries : q.entries[t] = r.entries[t]
  BY DEF AddEntry
<1> HIDE DEF q
<1>3. s \in Live(q) /\ q.entries[s].fp = f
  BY <1>1 DEF Live, NewEntry
<1>4. ASSUME NEW c PROVE Standing(q, c) = Standing(r, c) \cup (IF c = d THEN {s} ELSE {})
  BY <1>1, <1>2 DEF Standing, NewEntry
<1> QED BY <1>1, <1>2, <1>3, <1>4 DEF q

\* A mark changes the entry it is put on and no other.
LEMMA MarkedKeeps ==
    ASSUME NEW r, IsRegister(r), NEW s, NEW b \in BOOLEAN
    PROVE  /\ DOMAIN Marked(r, s, b).entries = DOMAIN r.entries
           /\ \A t \in DOMAIN r.entries :
                 /\ Marked(r, s, b).entries[t].fp = r.entries[t].fp
                 /\ Marked(r, s, b).entries[t].revoked = (r.entries[t].revoked \/ t = s)
           /\ \A c : Standing(Marked(r, s, b), c)
                       = {t \in Standing(r, c) : ~(t = s /\ b)}
<1> DEFINE q == Marked(r, s, b)
<1>1. DOMAIN q.entries = DOMAIN r.entries
  BY MarkedIsRegister
<1>2. \A t \in DOMAIN r.entries :
        /\ q.entries[t].client = r.entries[t].client
        /\ q.entries[t].fp = r.entries[t].fp
        /\ q.entries[t].revoked = (r.entries[t].revoked \/ t = s)
        /\ q.entries[t].superseded = (r.entries[t].superseded \/ (t = s /\ b))
  BY MarkedEntry
<1> HIDE DEF q
<1>3. \A c : Standing(q, c) = {t \in Standing(r, c) : ~(t = s /\ b)}
  BY <1>1, <1>2 DEF Standing
<1> QED BY <1>1, <1>2, <1>3 DEF q

\* What ActiveByClient returns is an entry that stands, if there is one.
LEMMA PickStands ==
    ASSUME NEW r, NEW pick \in Picks(r), NEW c \in Clients
    PROVE  IF Standing(r, c) = {} THEN pick[c] = NoSerial ELSE pick[c] \in Standing(r, c)
<1>1. pick[c] \in ActiveByClient(r, c)
  BY DEF Picks
<1>2. ActiveByClient(r, c) = IF Standing(r, c) = {} THEN {NoSerial} ELSE Standing(r, c)
  BY DEF ActiveByClient, Standing
<1> QED BY <1>1, <1>2

\* What an item of a plan is made for.
Reason(r, sp, prune, pick, i) ==
    \/ /\ i.kind = "issue" /\ i.serial = NoSerial /\ i.orphan = FALSE
       /\ sp[i.client].state = "active" /\ pick[i.client] \notin Live(r)
    \/ /\ i.kind = "reissue" /\ i.serial = pick[i.client] /\ i.orphan = FALSE
       /\ sp[i.client].state = "active" /\ pick[i.client] \in Live(r)
       /\ r.entries[pick[i.client]].fp # sp[i.client].fp
    \/ /\ i.kind = "revoke" /\ i.serial = pick[i.client] /\ i.orphan = FALSE
       /\ sp[i.client].state \notin {"active", "absent"} /\ pick[i.client] \in Live(r)
    \/ /\ i.kind = "revoke" /\ i.orphan = TRUE /\ sp[i.client].state = "absent"
       /\ prune /\ i.serial \in Standing(r, i.client) \cap Live(r)

LEMMA PlanHas ==
    ASSUME NEW r, NEW sp, NEW prune, NEW pick
    PROVE  \A i \in Plan(r, sp, prune, pick) :
              /\ i.client \in Clients /\ i.fp = sp[i.client].fp
              /\ Reason(r, sp, prune, pick, i)
BY DEF Plan, Reason, Standing, Live

\* Its client and its reason say all there is to an item.
LEMMA PlanShape ==
    ASSUME NEW r, NEW sp, NEW prune, NEW pick,
           NEW i \in Plan(r, sp, prune, pick), NEW j \in Plan(r, sp, prune, pick),
           i.client = j.client, i.kind = j.kind, i.serial = j.serial, i.orphan = j.orphan
    PROVE  i = j
<1>1. ASSUME NEW a \in Plan(r, sp, prune, pick)
      PROVE  a = [kind |-> a.kind, client |-> a.client, fp |-> sp[a.client].fp,
                  serial |-> a.serial, orphan |-> a.orphan]
  BY DEF Plan
<1>2. /\ i = [kind |-> i.kind, client |-> i.client, fp |-> sp[i.client].fp,
              serial |-> i.serial, orphan |-> i.orphan]
      /\ j = [kind |-> j.kind, client |-> j.client, fp |-> sp[j.client].fp,
              serial |-> j.serial, orphan |-> j.orphan]
  BY <1>1
<1> QED BY <1>2

\* A client without an item needs none.
LEMMA PlanLeaves ==
    ASSUME NEW r, NEW sp, NEW prune, NEW pick, NEW c \in Clients,
           \A i \in Plan(r, sp, prune, pick) : i.client # c
    PROVE  /\ sp[c].state = "active" =>
                 pick[c] \in Live(r) /\ r.entries[pick[c]].fp = sp[c].fp
           /\ sp[c].state \notin {"active", "absent"} => pick[c] \notin Live(r)
           /\ sp[c].state = "absent" /\ prune => Standing(r, c) \cap Live(r) = {}
<1> DEFINE item(k, s, o) ==
        [kind |-> k, client |-> c, fp |-> sp[c].fp, serial |-> s, orphan |-> o]
<1>1. \A k, s, o : item(k, s, o).client = c
  OBVIOUS
<1>2. \A k, s, o : item(k, s, o) \notin Plan(r, sp, prune, pick)
  BY <1>1
<1>3. ASSUME sp[c].state = "active", pick[c] \notin Live(r) PROVE FALSE
  <2>1. item("issue", NoSerial, FALSE) \in Plan(r, sp, prune, pick)
    BY <1>3 DEF Plan
  <2> QED BY <1>2, <2>1
<1>4. ASSUME sp[c].state = "active", pick[c] \in Live(r), r.entries[pick[c]].fp # sp[c].fp
      PROVE  FALSE
  <2>1. item("reissue", pick[c], FALSE) \in Plan(r, sp, prune, pick)
    BY <1>4 DEF Plan
  <2> QED BY <1>2, <2>1
<1>5. ASSUME sp[c].state \notin {"active", "absent"}, pick[c] \in Live(r) PROVE FALSE
  <2>1. item("revoke", pick[c], FALSE) \in Plan(r, sp, prune, pick)
    BY <1>5 DEF Plan
  <2> QED BY <1>2, <2>1
<1>6. ASSUME sp[c].state = "absent", prune, NEW s \in Standing(r, c) \cap Live(r) PROVE FALSE
  <2>1. r.entries[s].client = c /\ ~r.entries[s].superseded
    BY <1>6 DEF Standing
  <2>2. item("revoke", s, TRUE) \in Plan(r, sp, prune, pick)
    BY <1>6, <2>1 DEF Plan
  <2> QED BY <1>2, <2>2
<1> QED BY <1>3, <1>4, <1>5, <1>6

\* The plan of a register in which every client has one certificate at most fits it, has
\* one item at most for a client, and has one for each client that needs it.
LEMMA PlanFits ==
    ASSUME NEW r, IsRegister(r), NEW sp \in [Clients -> SpecFile], NEW prune \in BOOLEAN,
           NEW pick \in Picks(r), OneStanding(r, NoSerial), RevokedUnwanted(r, sp)
    PROVE  LET plan == Plan(r, sp, prune, pick)
           IN  /\ \A i \in plan : ItemFits(r, sp, NoSerial, i) /\ ItemAsked(sp, i)
               /\ \A i, j \in plan : i.client = j.client => i = j
               /\ \A c \in Clients : \/ \E i \in plan : i.client = c
                                     \/ Done(r, sp, prune, NoSerial, c)
<1> DEFINE plan == Plan(r, sp, prune, pick)
<1>1. \A c \in Clients : \A s, t \in Standing(r, c) : s = t /\ s # NoSerial
  BY StandsOnce DEF OneStanding
<1>2. \A c \in Clients :
        IF Standing(r, c) = {} THEN pick[c] = NoSerial ELSE Standing(r, c) = {pick[c]}
  BY <1>1, PickStands
<1>3. NoSerial \notin Live(r)
  BY SerialsAssumption DEF Live, IsRegister
<1>0. ASSUME NEW i \in plan
      PROVE  /\ i.client \in Clients /\ i.fp = sp[i.client].fp
             /\ Reason(r, sp, prune, pick, i)
  BY PlanHas
<1>4. ASSUME NEW i \in plan PROVE ItemFits(r, sp, NoSerial, i) /\ ItemAsked(sp, i)
  <2>1. i.client \in Clients /\ i.fp = sp[i.client].fp /\ Reason(r, sp, prune, pick, i)
    BY <1>0
  <2> HIDE DEF plan
  <2>2. CASE i.kind = "issue"
    <3>1. /\ i.serial = NoSerial
          /\ sp[i.client].state = "active" /\ pick[i.client] \notin Live(r)
      BY <2>1, <2>2 DEF Reason
    <3>2. Standing(r, i.client) = {}
      BY <1>2, <2>1, <3>1 DEF RevokedUnwanted, Live, Standing
    <3> QED BY <2>1, <2>2, <3>1, <3>2 DEF ItemFits, ItemAsked
  <2>3. CASE i.kind = "reissue"
    <3>1. /\ i.serial = pick[i.client]
          /\ sp[i.client].state = "active" /\ pick[i.client] \in Live(r)
      BY <2>1, <2>3 DEF Reason
    <3>2. i.serial \in Standing(r, i.client) \ {NoSerial}
      BY <1>1, <1>2, <1>3, <2>1, <3>1
    <3> QED BY <2>1, <2>3, <3>1, <3>2 DEF ItemFits, ItemAsked
  <2>4. CASE i.kind = "revoke"
    <3>1. /\ sp[i.client].state # "active"
          /\ \/ i.serial = pick[i.client] /\ pick[i.client] \in Live(r)
             \/ i.serial \in Standing(r, i.client)
      BY <2>1, <2>4 DEF Reason
    <3>2. i.serial \in Standing(r, i.client) \ {NoSerial}
      BY <1>1, <1>2, <1>3, <2>1, <3>1
    <3> QED BY <2>1, <2>4, <3>1, <3>2 DEF ItemFits, ItemAsked
  <2> QED BY <2>1, <2>2, <2>3, <2>4 DEF Reason
<1>5. ASSUME NEW i \in plan, NEW j \in plan, i.client = j.client PROVE i = j
  <2>1. /\ i.client \in Clients /\ Reason(r, sp, prune, pick, i)
        /\ j.client \in Clients /\ Reason(r, sp, prune, pick, j)
    BY <1>0
  <2>2. i.kind = j.kind /\ i.orphan = j.orphan
    BY <1>5, <2>1 DEF Reason
  <2>3. i.serial = j.serial
    BY <1>1, <1>5, <2>1, <2>2 DEF Reason
  <2> QED BY <1>5, <2>2, <2>3, PlanShape
<1>6. ASSUME NEW c \in Clients, \A i \in plan : i.client # c
      PROVE  Done(r, sp, prune, NoSerial, c)
  <2>1. Standing(r, c) \ {NoSerial} = Standing(r, c)
    BY <1>1
  <2>2. /\ sp[c].state = "active" =>
              pick[c] \in Live(r) /\ r.entries[pick[c]].fp = sp[c].fp
        /\ sp[c].state \notin {"active", "absent"} => pick[c] \notin Live(r)
        /\ sp[c].state = "absent" /\ prune => Standing(r, c) \cap Live(r) = {}
    BY <1>6, PlanLeaves
  <2>3. ASSUME sp[c].state = "active"
        PROVE  \E s \in Live(r) : Standing(r, c) = {s} /\ r.entries[s].fp = sp[c].fp
    BY <1>2, <1>3, <2>2, <2>3
  <2>4. ASSUME sp[c].state = "revoked" PROVE Standing(r, c) \cap Live(r) = {}
    BY <1>2, <2>2, <2>4
  <2> QED BY <2>1, <2>2, <2>3, <2>4 DEF Done
<1> QED BY <1>4, <1>5, <1>6

\* A register in which all is done has for each client what the specs ask, and a second
\* plan for them is empty, whatever entries the map iteration hits.
LEMMA DoneIsIdempotent ==
    ASSUME NEW r, IsRegister(r), NEW sp \in [Clients -> SpecFile], NEW prune \in BOOLEAN,
           \A c \in Clients : Done(r, sp, prune, NoSerial, c), NEW pick \in Picks(r)
    PROVE  Plan(r, sp, prune, pick) = {}
<1> SUFFICES ASSUME NEW i \in Plan(r, sp, prune, pick) PROVE FALSE
  OBVIOUS
<1> DEFINE c == i.client
<1>1. c \in Clients /\ NoSerial \notin Live(r)
  BY PlanHas, SerialsAssumption DEF Live, IsRegister
<1>2. Reason(r, sp, prune, pick, i) /\ Done(r, sp, prune, NoSerial, c)
  BY <1>1, PlanHas
<1>3. Standing(r, c) \ {NoSerial} = Standing(r, c)
  BY StandsOnce
<1>4. pick[c] \in Live(r) => pick[c] \in Standing(r, c)
  BY <1>1, PickStands
<1>5. CASE sp[c].state = "active"
  <2>1. PICK s \in Live(r) : Standing(r, c) = {s} /\ r.entries[s].fp = sp[c].fp
    BY <1>2, <1>3, <1>5 DEF Done
  <2>2. pick[c] = s
    BY <1>1, <2>1, PickStands
  <2> QED BY <1>2, <1>5, <2>1, <2>2 DEF Reason
<1>6. CASE sp[c].state = "revoked"
  BY <1>2, <1>3, <1>4, <1>6 DEF Done, Reason
<1>7. CASE sp[c].state = "absent"
  BY <1>2, <1>3, <1>7 DEF Done, Reason
<1> QED BY <1>1, <1>5, <1>6, <1>7 DEF SpecFile

\* What is left of a plan fits a register, and what it asks is done or left to do.
PlanFitsTo(r, sp, x, items) ==
    /\ OneStanding(r, x) /\ RevokedUnwanted(r, sp)
    /\ \A i \in items : ItemFits(r, sp, x, i)
    /\ \A i, j \in items : i.client = j.client => i = j

PlanCovers(r, sp, prune, x, items) ==
    /\ \A i \in items : ItemAsked(sp, i)
    /\ \A c \in Clients : (\E i \in items : i.client = c) \/ Done(r, sp, prune, x, c)

\* The certificate of an item stands beside the one it replaces.
LEMMA StandingAfterMint ==
    ASSUME NEW r, IsRegister(r), NEW s \in Serials \ DOMAIN r.entries, NEW sp, NEW i,
           i.kind # "revoke", i.kind \in {"issue", "reissue", "revoke"},
           OneStanding(r, NoSerial), ItemFits(r, sp, NoSerial, i), NEW c \in Clients
    PROVE  Standing(AddEntry(r, s, i.client, i.fp), c) \ {i.serial}
             = IF c = i.client THEN {s} ELSE Standing(r, c)
<1> DEFINE q == AddEntry(r, s, i.client, i.fp)
<1>1. Standing(q, c) = Standing(r, c) \cup (IF c = i.client THEN {s} ELSE {})
  BY StandingAfterAdd
<1>2. NoSerial \notin Standing(r, c) /\ s \notin Standing(r, c) /\ s # NoSerial
  BY StandsOnce, SerialsAssumption
<1>3. CASE i.kind = "issue"
  BY <1>1, <1>2, <1>3 DEF ItemFits
<1>4. CASE i.kind = "reissue"
  <2>1. i.client \in Clients /\ i.serial \in Standing(r, i.client)
    BY <1>4 DEF ItemFits
  <2>2. i.serial \in DOMAIN r.entries /\ r.entries[i.serial].client = i.client /\ i.serial # s
        /\ i.serial # NoSerial
    BY <2>1, StandsOnce
  <2>3. CASE c = i.client
    <3>1. Standing(r, c) \ {i.serial} = {}
      BY <1>2, <2>1, <2>2, <2>3 DEF OneStanding
    <3> QED BY <1>1, <2>2, <2>3, <3>1
  <2>4. CASE c # i.client
    <3>1. i.serial \notin Standing(r, c)
      BY <2>2, <2>4, StandsOnce
    <3> QED BY <1>1, <2>4, <3>1
  <2> QED BY <2>3, <2>4
<1> QED BY <1>3, <1>4

LEMMA MintKeepsFit ==
    ASSUME NEW r, IsRegister(r), NEW s \in Serials \ DOMAIN r.entries, NEW sp,
           NEW items \in SUBSET PlanItem, NEW i \in items, i.kind # "revoke",
           PlanFitsTo(r, sp, NoSerial, items)
    PROVE  PlanFitsTo(AddEntry(r, s, i.client, i.fp), sp, i.serial, items \ {i})
<1> DEFINE q == AddEntry(r, s, i.client, i.fp)
<1>1. \A j \in items : j.kind \in {"issue", "reissue", "revoke"} /\ j.client \in Clients \cup {None}
  BY DEF PlanItem
<1>2. \A c \in Clients :
        Standing(q, c) \ {i.serial} = IF c = i.client THEN {s} ELSE Standing(r, c)
  BY <1>1, StandingAfterMint DEF PlanFitsTo
<1>3. \A c : Standing(q, c) = Standing(r, c) \cup (IF c = i.client THEN {s} ELSE {})
  BY StandingAfterAdd
<1>4. s \in Live(q) /\ \A t \in DOMAIN r.entries : q.entries[t] = r.entries[t]
  BY StandingAfterAdd
<1>5. OneStanding(q, i.serial)
  <2> SUFFICES ASSUME NEW c \in Clients, NEW t \in Standing(q, c) \ {i.serial},
                      NEW u \in Standing(q, c) \ {i.serial}
               PROVE  t = u
    BY DEF OneStanding
  <2>1. NoSerial \notin Standing(r, c)
    BY StandsOnce
  <2> QED BY <1>2, <2>1 DEF PlanFitsTo, OneStanding
<1>6. RevokedUnwanted(q, sp)
  <2> SUFFICES ASSUME NEW c \in Clients, NEW t \in Standing(q, c), q.entries[t].revoked
               PROVE  sp[c].state # "active"
    BY DEF RevokedUnwanted
  <2>1. t # s
    BY <1>4 DEF Live
  <2>2. t \in Standing(r, c) /\ t \in DOMAIN r.entries
    BY <1>3, <2>1, StandsOnce
  <2> QED BY <1>4, <2>2 DEF PlanFitsTo, RevokedUnwanted
<1>7. ASSUME NEW j \in items \ {i} PROVE ItemFits(q, sp, i.serial, j)
  <2>1. j.client # i.client /\ ItemFits(r, sp, NoSerial, j)
    BY <1>7 DEF PlanFitsTo
  <2>2. j.client \in Clients => /\ Standing(q, j.client) = Standing(r, j.client)
                                /\ Standing(q, j.client) \ {i.serial} = Standing(r, j.client)
    BY <1>2, <1>3, <2>1
  <2> QED BY <2>1, <2>2 DEF ItemFits
<1> QED BY <1>5, <1>6, <1>7 DEF PlanFitsTo

LEMMA MintKeepsCover ==
    ASSUME NEW r, IsRegister(r), NEW s \in Serials \ DOMAIN r.entries, NEW sp, NEW sq,
           NEW prune, NEW items \in SUBSET PlanItem, NEW i \in items, i.kind # "revoke",
           PlanFitsTo(r, sp, NoSerial, items), PlanCovers(r, sq, prune, NoSerial, items)
    PROVE  PlanCovers(AddEntry(r, s, i.client, i.fp), sq, prune, i.serial, items \ {i})
<1> DEFINE q == AddEntry(r, s, i.client, i.fp)
<1>1. i.kind \in {"issue", "reissue", "revoke"}
  BY DEF PlanItem
<1>2. \A c \in Clients :
        Standing(q, c) \ {i.serial} = IF c = i.client THEN {s} ELSE Standing(r, c)
  BY <1>1, StandingAfterMint DEF PlanFitsTo
<1>3. /\ s \in Live(q) /\ q.entries[s].fp = i.fp
      /\ \A t \in DOMAIN r.entries : t \in DOMAIN q.entries /\ q.entries[t] = r.entries[t]
  BY StandingAfterAdd
<1>4. ASSUME NEW c \in Clients, \A j \in items \ {i} : j.client # c
      PROVE  Done(q, sq, prune, i.serial, c)
  <2>1. CASE c = i.client
    <3>1. Standing(q, c) \ {i.serial} = {s} /\ sq[c].state = "active" /\ i.fp = sq[c].fp
      BY <1>2, <2>1 DEF PlanCovers, ItemAsked
    <3> QED BY <1>3, <3>1 DEF Done
  <2>2. CASE c # i.client
    <3>1. Done(r, sq, prune, NoSerial, c)
      BY <1>4, <2>2 DEF PlanCovers
    <3>2. Standing(r, c) \ {NoSerial} = Standing(q, c) \ {i.serial}
      BY <1>2, <2>2, StandsOnce
    <3>3. Live(r) \subseteq Live(q) /\ Standing(r, c) \cap Live(q) \subseteq Live(r)
      BY <1>3 DEF Live, Standing
    <3>4. \A t \in Live(r) : q.entries[t].fp = r.entries[t].fp
      BY <1>3 DEF Live
    <3>5. sq[c].state = "active" =>
            \E t \in Live(q) : Standing(q, c) \ {i.serial} = {t} /\ q.entries[t].fp = sq[c].fp
      BY <3>1, <3>2, <3>3, <3>4 DEF Done
    <3>6. sq[c].state = "revoked" \/ (sq[c].state = "absent" /\ prune) =>
            (Standing(q, c) \ {i.serial}) \cap Live(q) = {}
      BY <3>1, <3>2, <3>3 DEF Done
    <3> QED BY <3>5, <3>6 DEF Done
  <2> QED BY <2>1, <2>2
<1> QED BY <1>4 DEF PlanCovers

\* The two marks a command puts.
LEMMA RevokedKeeps ==
    ASSUME NEW r, IsRegister(r), NEW s
    PROVE  LET q == RevokeEntry(r, s)
           IN  /\ DOMAIN q.entries = DOMAIN r.entries
               /\ \A t \in DOMAIN r.entries :
                     /\ q.entries[t].fp = r.entries[t].fp
                     /\ q.entries[t].revoked = (r.entries[t].revoked \/ t = s)
               /\ \A c : Standing(q, c) = Standing(r, c)
<1>1. PICK b \in BOOLEAN : b = FALSE
  OBVIOUS
<1>2. RevokeEntry(r, s) = Marked(r, s, b)
  BY <1>1 DEF RevokeEntry
<1>3. ASSUME NEW c PROVE {t \in Standing(r, c) : ~(t = s /\ b)} = Standing(r, c)
  BY <1>1
<1>4. /\ DOMAIN Marked(r, s, b).entries = DOMAIN r.entries
      /\ \A c : Standing(Marked(r, s, b), c) = {t \in Standing(r, c) : ~(t = s /\ b)}
  BY <1>1, MarkedKeeps
<1>5. \A t \in DOMAIN r.entries :
         /\ Marked(r, s, b).entries[t].fp = r.entries[t].fp
         /\ Marked(r, s, b).entries[t].revoked = (r.entries[t].revoked \/ t = s)
  BY <1>1, MarkedKeeps
<1> QED BY <1>2, <1>3, <1>4, <1>5

LEMMA SupersededKeeps ==
    ASSUME NEW r, IsRegister(r), NEW s
    PROVE  LET q == Supersede(r, s)
           IN  /\ DOMAIN q.entries = DOMAIN r.entries
               /\ \A t \in DOMAIN r.entries :
                     /\ q.entries[t].fp = r.entries[t].fp
                     /\ t # s => q.entries[t].revoked = r.entries[t].revoked
               /\ \A c : Standing(q, c) = Standing(r, c) \ {s}
<1>1. CASE s = NoSerial
  <2>1. Supersede(r, s) = r
    BY <1>1 DEF Supersede
  <2>2. \A c : Standing(r, c) = Standing(r, c) \ {s}
    BY <1>1, StandsOnce
  <2> QED BY <2>1, <2>2
<1>2. CASE s # NoSerial
  <2>1. PICK b \in BOOLEAN : b = TRUE
    OBVIOUS
  <2>2. Supersede(r, s) = Marked(r, s, b)
    BY <1>2, <2>1 DEF Supersede
  <2>3. ASSUME NEW c PROVE {t \in Standing(r, c) : ~(t = s /\ b)} = Standing(r, c) \ {s}
    BY <2>1
  <2>4. ASSUME NEW t \in DOMAIN r.entries, t # s
        PROVE  Marked(r, s, b).entries[t].revoked = r.entries[t].revoked
    <3>1. r.entries[t] \in Entry
      BY DEF IsRegister
    <3> QED BY <2>4, <3>1, MarkedKeeps DEF Entry
  <2> QED BY <2>2, <2>3, <2>4, MarkedKeeps
<1> QED BY <1>1, <1>2

\* Revoking what an item names leaves what stands, and for the item's client it is done.
LEMMA RevokeKeepsPlan ==
    ASSUME NEW r, IsRegister(r), NEW sp, NEW sq, NEW prune, NEW items, NEW i \in items,
           i.kind = "revoke", PlanFitsTo(r, sp, NoSerial, items)
    PROVE  LET q == RevokeEntry(r, i.serial)
           IN  /\ PlanFitsTo(q, sp, NoSerial, items \ {i})
               /\ PlanCovers(r, sq, prune, NoSerial, items) =>
                     PlanCovers(q, sq, prune, NoSerial, items \ {i})
<1> DEFINE q == RevokeEntry(r, i.serial)
<1>1. /\ DOMAIN q.entries = DOMAIN r.entries
      /\ \A t \in DOMAIN r.entries :
            /\ q.entries[t].fp = r.entries[t].fp
            /\ q.entries[t].revoked = (r.entries[t].revoked \/ t = i.serial)
  BY RevokedKeeps
<1>2. \A c : Standing(q, c) = Standing(r, c)
  BY RevokedKeeps
<1>3. /\ i.client \in Clients /\ i.serial \in Standing(r, i.client)
      /\ sp[i.client].state # "active"
  BY DEF PlanFitsTo, ItemFits
<1>4. i.serial \in DOMAIN r.entries /\ r.entries[i.serial].client = i.client
  BY <1>3, StandsOnce
<1>5. PlanFitsTo(q, sp, NoSerial, items \ {i})
  <2>1. OneStanding(q, NoSerial)
    BY <1>2 DEF PlanFitsTo, OneStanding
  <2>2. RevokedUnwanted(q, sp)
    <3> SUFFICES ASSUME NEW c \in Clients, NEW t \in Standing(r, c), q.entries[t].revoked
                 PROVE  sp[c].state # "active"
      BY <1>2 DEF RevokedUnwanted
    <3>1. t \in DOMAIN r.entries /\ r.entries[t].client = c
      BY StandsOnce
    <3> QED BY <1>1, <1>3, <1>4, <3>1 DEF PlanFitsTo, RevokedUnwanted
  <2>3. \A j \in items \ {i} : ItemFits(q, sp, NoSerial, j)
    BY <1>2 DEF PlanFitsTo, ItemFits
  <2> QED BY <2>1, <2>2, <2>3 DEF PlanFitsTo
<1>6. ASSUME PlanCovers(r, sq, prune, NoSerial, items)
      PROVE  PlanCovers(q, sq, prune, NoSerial, items \ {i})
  <2> SUFFICES ASSUME NEW c \in Clients, \A j \in items \ {i} : j.client # c
               PROVE  Done(q, sq, prune, NoSerial, c)
    BY <1>6 DEF PlanCovers
  <2>1. CASE c = i.client
    <3>1. sq[c].state # "active"
      BY <1>3, <1>6, <2>1 DEF PlanCovers, ItemAsked
    <3>2. \A t \in Standing(q, c) \ {NoSerial} : t = i.serial
      BY <1>2, <1>3, <2>1, StandsOnce DEF PlanFitsTo, OneStanding
    <3>3. i.serial \notin Live(q)
      BY <1>1, <1>4 DEF Live
    <3> QED BY <3>1, <3>2, <3>3 DEF Done
  <2>2. CASE c # i.client
    <3>1. Done(r, sq, prune, NoSerial, c)
      BY <1>6, <2>2 DEF PlanCovers
    <3>2. \A t \in Standing(r, c) : t \in Live(q) <=> t \in Live(r)
      BY <1>1, <1>4, <2>2 DEF Live, Standing
    <3>3. \A t \in Live(r) : q.entries[t].fp = r.entries[t].fp
      BY <1>1 DEF Live
    <3>4. sq[c].state = "active" =>
            \E t \in Live(q) : Standing(q, c) \ {NoSerial} = {t} /\ q.entries[t].fp = sq[c].fp
      BY <1>2, <3>1, <3>2, <3>3 DEF Done
    <3>5. sq[c].state = "revoked" \/ (sq[c].state = "absent" /\ prune) =>
            (Standing(q, c) \ {NoSerial}) \cap Live(q) = {}
      BY <1>2, <3>1, <3>2 DEF Done
    <3> QED BY <3>4, <3>5 DEF Done
  <2> QED BY <2>1, <2>2
<1> QED BY <1>5, <1>6

\* Superseding what was to be superseded leaves the others as they were.
LEMMA SupersedeKeepsPlan ==
    ASSUME NEW r, IsRegister(r), NEW sp, NEW sq, NEW prune, NEW items, NEW x,
           PlanFitsTo(r, sp, x, items)
    PROVE  LET q == Supersede(r, x)
           IN  /\ PlanFitsTo(q, sp, NoSerial, items)
               /\ PlanCovers(r, sq, prune, x, items) => PlanCovers(q, sq, prune, NoSerial, items)
<1> DEFINE q == Supersede(r, x)
<1>1. /\ DOMAIN q.entries = DOMAIN r.entries
      /\ \A t \in DOMAIN r.entries : /\ q.entries[t].fp = r.entries[t].fp
                                     /\ t # x => q.entries[t].revoked = r.entries[t].revoked
  BY SupersededKeeps
<1>2. \A c : Standing(q, c) = Standing(r, c) \ {x}
  BY SupersededKeeps
<1>3. \A c : Standing(q, c) \ {NoSerial} = Standing(r, c) \ {x}
  BY <1>2, StandsOnce
<1> HIDE DEF q
<1>4. PlanFitsTo(q, sp, NoSerial, items)
  <2>1. OneStanding(q, NoSerial)
    BY <1>3 DEF PlanFitsTo, OneStanding
  <2>2. RevokedUnwanted(q, sp)
    BY <1>1, <1>2 DEF PlanFitsTo, RevokedUnwanted, Standing
  <2>3. \A j \in items : ItemFits(q, sp, NoSerial, j)
    BY <1>2, <1>3 DEF PlanFitsTo, ItemFits
  <2> QED BY <2>1, <2>2, <2>3 DEF PlanFitsTo
<1>5. ASSUME PlanCovers(r, sq, prune, x, items)
      PROVE  PlanCovers(q, sq, prune, NoSerial, items)
  <2> SUFFICES ASSUME NEW c \in Clients, Done(r, sq, prune, x, c)
               PROVE  Done(q, sq, prune, NoSerial, c)
    BY <1>5 DEF PlanCovers
  <2>1. \A t \in Standing(r, c) \ {x} : t \in Live(q) <=> t \in Live(r)
    BY <1>1 DEF Live, Standing
  <2>2. \A t \in Live(r) : q.entries[t].fp = r.entries[t].fp
    BY <1>1 DEF Live
  <2>3. sq[c].state = "active" =>
          \E t \in Live(q) : Standing(q, c) \ {NoSerial} = {t} /\ q.entries[t].fp = sq[c].fp
    BY <1>3, <2>1, <2>2 DEF Done
  <2>4. sq[c].state = "revoked" \/ (sq[c].state = "absent" /\ prune) =>
          (Standing(q, c) \ {NoSerial}) \cap Live(q) = {}
    BY <1>3, <2>1 DEF Done
  <2> QED BY <2>3, <2>4 DEF Done
<1> QED BY <1>4, <1>5 DEF q
----------------------------------------------------------------------------
(***************************************************************************)
(* Any number of commands.                                                 *)
(***************************************************************************)
\* A serial of an entry is archived, and the certificate being delivered has
\* an entry in the command's memory.
Accounted ==
    /\ DOMAIN register.entries \subseteq archive
    /\ \A p \in Procs :
          /\ DOMAIN mem[p].entries \subseteq archive
          /\ pc[p] \in {"wrpac", "wrprc"} => cur[p].serial \in DOMAIN mem[p].entries

RegistersSound == Sound(register) /\ \A p \in Procs : Sound(mem[p])

Inv == TypeOK /\ Accounted /\ RegistersSound

LEMMA InitInv == Init => Inv
<1> SUFFICES ASSUME Init PROVE Inv
  OBVIOUS
<1> USE EmptyIsRegister
<1>1. TypeOK
  <2>1. PublicRegister(EmptyRegister) \in [{} -> BOOLEAN]
        /\ DOMAIN PublicRegister(EmptyRegister) = {}
    BY DEF PublicRegister
  <2>2. ListSize(EmptyRegister) \in Nat
    BY PublishedTypes
  <2>3. NoJob \in [cmd : Commands, specs : [Clients -> SpecFile],
                   prune : BOOLEAN, target : Serials \cup {NoSerial}]
    BY DEF NoJob, Commands, NoSpecs, Absent, SpecFile
  <2> QED BY <2>1, <2>2, <2>3 DEF Init, TypeOK, NoCert, Steps
<1>2. Accounted
  BY DEF Init, Accounted
<1>3. RegistersSound
  BY DEF Init, RegistersSound
<1> QED BY <1>1, <1>2, <1>3 DEF Inv

\* Begin loads the register; the other commands keep what they hold.
LEMMA BeginInv ==
    ASSUME Inv, NEW p \in Procs, NEW step \in Steps \ {"wrpac", "wrprc"},
           NEW r, IsRegister(r), Sound(r), DOMAIN r.entries \subseteq archive,
           NEW items \in SUBSET PlanItem,
           NEW j \in [cmd : Commands, specs : [Clients -> SpecFile],
                      prune : BOOLEAN, target : Serials \cup {NoSerial}],
           Begin(p, step, r, items, j)
    PROVE  Inv'
<1> USE DEF Begin, files
<1>1. TypeOK'
  BY DEF Inv, TypeOK
<1>2. Accounted'
  BY DEF Inv, TypeOK, Accounted
<1>3. RegistersSound'
  BY DEF Inv, TypeOK, RegistersSound
<1> QED BY <1>1, <1>2, <1>3 DEF Inv

\* The process ends with an empty memory.
LEMMA ExitInv ==
    ASSUME Inv, NEW p \in Procs, Exit(p), UNCHANGED <<register, archive>>
    PROVE  /\ pc' \in [Procs -> Steps]
           /\ mem' = [q \in Procs |-> mem'[q]] /\ \A q \in Procs : IsRegister(mem'[q])
           /\ todo' \in [Procs -> SUBSET PlanItem]
           /\ cur' \in [Procs -> [serial : Serials \cup {NoSerial},
                                  replaces : Serials \cup {NoSerial}]]
           /\ job' \in [Procs -> [cmd : Commands, specs : [Clients -> SpecFile],
                                  prune : BOOLEAN, target : Serials \cup {NoSerial}]]
           /\ Accounted' /\ RegistersSound'
<1> USE EmptyIsRegister DEF Exit
<1>1. NoJob \in [cmd : Commands, specs : [Clients -> SpecFile],
                 prune : BOOLEAN, target : Serials \cup {NoSerial}]
  BY DEF NoJob, Commands, NoSpecs, Absent, SpecFile
<1>2. pc' \in [Procs -> Steps] /\ todo' \in [Procs -> SUBSET PlanItem]
  BY DEF Inv, TypeOK, Steps
<1>3. mem' = [q \in Procs |-> mem'[q]] /\ \A q \in Procs : IsRegister(mem'[q])
  BY DEF Inv, TypeOK
<1>4. cur' \in [Procs -> [serial : Serials \cup {NoSerial},
                          replaces : Serials \cup {NoSerial}]]
  BY DEF Inv, TypeOK, NoCert
<1>5. job' \in [Procs -> [cmd : Commands, specs : [Clients -> SpecFile],
                          prune : BOOLEAN, target : Serials \cup {NoSerial}]]
  BY <1>1 DEF Inv, TypeOK
<1>6. Accounted'
  BY DEF Inv, TypeOK, Accounted
<1>7. RegistersSound'
  BY DEF Inv, TypeOK, RegistersSound
<1> QED BY <1>2, <1>3, <1>4, <1>5, <1>6, <1>7

LEMMA NextInv == Inv /\ [Next]_vars => Inv'
<1> SUFFICES ASSUME Inv, [Next]_vars PROVE Inv'
  OBVIOUS
<1> USE DEF files
<1> DEFINE Jobs == [cmd : Commands, specs : [Clients -> SpecFile],
                    prune : BOOLEAN, target : Serials \cup {NoSerial}]
<1>0. NoJob \in Jobs
  BY DEF NoJob, Commands, NoSpecs, Absent, SpecFile
<1>1. ASSUME NEW c \in Clients, EditSpec(c) PROVE Inv'
  <2>1. TypeOK'
    BY <1>1 DEF Inv, TypeOK, EditSpec
  <2>2. Accounted' /\ RegistersSound'
    BY <1>1 DEF Inv, Accounted, RegistersSound, EditSpec
  <2> QED BY <2>1, <2>2 DEF Inv
<1>2. ASSUME NEW p \in Operators, StartIssue(p) PROVE Inv'
  <2> DEFINE item == [kind |-> "issue", client |-> None, fp |-> None,
                      serial |-> NoSerial, orphan |-> FALSE]
  <2>1. {item} \in SUBSET PlanItem
    BY DEF PlanItem
  <2>2. [NoJob EXCEPT !.cmd = "issue"] \in Jobs
    BY <1>0 DEF Commands
  <2>3. Begin(p, "work", register, {item}, [NoJob EXCEPT !.cmd = "issue"])
    BY <1>2 DEF StartIssue
  <2> QED BY <2>1, <2>2, <2>3, BeginInv
             DEF Inv, TypeOK, Accounted, RegistersSound, Procs, Steps
<1>3. ASSUME NEW p \in Operators, StartApply(p) PROVE Inv'
  <2>1. PICK prune \in BOOLEAN, pick \in Picks(register) :
          Begin(p, "work", register, Plan(register, specs, prune, pick),
                [cmd |-> "apply", specs |-> specs, prune |-> prune,
                 target |-> NoSerial])
    BY <1>3 DEF StartApply
  <2>2. Plan(register, specs, prune, pick) \in SUBSET PlanItem
    BY PlanIsTyped DEF Inv, TypeOK
  <2>3. [cmd |-> "apply", specs |-> specs, prune |-> prune,
         target |-> NoSerial] \in Jobs
    BY DEF Commands, Inv, TypeOK
  <2> QED BY <2>1, <2>2, <2>3, BeginInv
             DEF Inv, TypeOK, Accounted, RegistersSound, Procs, Steps
<1>4. ASSUME NEW p \in Operators, StartRevoke(p) PROVE Inv'
  <2>1. PICK s \in Live(register) :
          Begin(p, "save", RevokeEntry(register, s), {},
                [NoJob EXCEPT !.cmd = "revoke", !.target = s])
    BY <1>4 DEF StartRevoke
  <2>2. s \in Serials
    BY DEF Inv, TypeOK, IsRegister, Live
  <2>3. [NoJob EXCEPT !.cmd = "revoke", !.target = s] \in Jobs
    BY <1>0, <2>2 DEF Commands
  <2>4. /\ IsRegister(RevokeEntry(register, s))
        /\ Sound(RevokeEntry(register, s))
        /\ DOMAIN RevokeEntry(register, s).entries \subseteq archive
    BY MarkedIsRegister, MarkedIsSound
       DEF Inv, TypeOK, Accounted, RegistersSound, RevokeEntry
  <2> QED BY <2>1, <2>3, <2>4, BeginInv DEF Procs, Steps
<1>5. ASSUME NEW p \in Operators, RevokeAgain(p) PROVE Inv'
  <2>1. Revoked(register) \subseteq Serials
    BY PublishedTypes DEF Inv, TypeOK
  <2>2. TypeOK'
    BY <1>5, <2>1 DEF Inv, TypeOK, RevokeAgain
  <2>3. Accounted' /\ RegistersSound'
    BY <1>5 DEF Inv, Accounted, RegistersSound, RevokeAgain
  <2> QED BY <2>2, <2>3 DEF Inv
<1>6. ASSUME NEW p \in Procs, StartPublish(p) PROVE Inv'
  <2>1. [NoJob EXCEPT !.cmd = "publish"] \in Jobs
    BY <1>0 DEF Commands
  <2> QED BY <1>6, <2>1, BeginInv
             DEF StartPublish, Inv, TypeOK, Accounted, RegistersSound, Steps
<1>7. ASSUME NEW p \in Operators, Mint(p) PROVE Inv'
  <2>1. PICK i \in Front(todo[p]), s \in Serials \ archive :
          /\ pc[p] = "work"
          /\ mem' = [mem EXCEPT ![p] = AddEntry(mem[p], s, i.client, i.fp)]
          /\ archive' = archive \cup {s}
          /\ cur' = [cur EXCEPT ![p] = [serial |-> s, replaces |-> i.serial]]
          /\ todo' = [todo EXCEPT ![p] = todo[p] \ {i}]
          /\ pc' = [pc EXCEPT ![p] = "wrpac"]
          /\ UNCHANGED <<register, specs, wrpacs, wrprcs, crl, list, pubreg,
                         acked, intact, job>>
    BY <1>7 DEF Mint
  <2>2. p \in Procs /\ i \in PlanItem
    BY DEF Procs, Front, Inv, TypeOK
  <2> DEFINE m == AddEntry(mem[p], s, i.client, i.fp)
  <2>3. IsRegister(m) /\ DOMAIN m.entries = DOMAIN mem[p].entries \cup {s}
    <3>1. i.client \in Clients \cup {None} /\ i.fp \in Fingerprints \cup {None}
      BY <2>2 DEF PlanItem
    <3>2. IsRegister(mem[p])
      BY <2>2 DEF Inv, TypeOK
    <3> QED BY <3>1, <3>2, AddEntryIsRegister
  <2>4. Sound(m)
    BY <2>2, AddEntryIsSound DEF Inv, TypeOK, Accounted, RegistersSound
  <2> HIDE DEF m
  <2>5. TypeOK'
    BY <2>1, <2>2, <2>3 DEF Inv, TypeOK, PlanItem, Steps, m
  <2>6. Accounted'
    BY <2>1, <2>2, <2>3 DEF Inv, TypeOK, Accounted, m
  <2>7. RegistersSound'
    BY <2>1, <2>2, <2>4 DEF Inv, TypeOK, RegistersSound, m
  <2> QED BY <2>5, <2>6, <2>7 DEF Inv
<1>8. ASSUME NEW p \in Operators, RevokeItem(p) PROVE Inv'
  <2>1. PICK i \in Front(todo[p]) :
          /\ pc[p] = "work"
          /\ mem' = [mem EXCEPT ![p] = RevokeEntry(mem[p], i.serial)]
          /\ todo' = [todo EXCEPT ![p] = todo[p] \ {i}]
          /\ pc' = [pc EXCEPT ![p] = IF todo[p] = {i} THEN "save" ELSE "work"]
          /\ UNCHANGED <<files, specs, acked, intact, cur, job>>
    BY <1>8 DEF RevokeItem
  <2>2. p \in Procs
    BY DEF Procs
  <2> DEFINE m == RevokeEntry(mem[p], i.serial)
  <2>3. IsRegister(m) /\ DOMAIN m.entries = DOMAIN mem[p].entries /\ Sound(m)
    BY <2>2, MarkedIsRegister, MarkedIsSound DEF RevokeEntry, Inv, TypeOK, RegistersSound
  <2> HIDE DEF m
  <2>4. TypeOK'
    BY <2>1, <2>2, <2>3 DEF Inv, TypeOK, Steps, m
  <2>5. Accounted'
    BY <2>1, <2>2, <2>3 DEF Inv, TypeOK, Accounted, m
  <2>6. RegistersSound'
    BY <2>1, <2>2, <2>3 DEF Inv, TypeOK, RegistersSound, m
  <2> QED BY <2>4, <2>5, <2>6 DEF Inv
<1>9. ASSUME NEW p \in Operators, DeliverWRPAC(p) PROVE Inv'
  <2>1. p \in Procs
    BY DEF Procs
  <2>2. cur[p].serial \in Serials
    BY <1>9, <2>1 DEF DeliverWRPAC, Inv, TypeOK, Accounted
  <2>3. TypeOK'
    BY <1>9, <2>1, <2>2 DEF DeliverWRPAC, Inv, TypeOK, Steps
  <2>4. Accounted'
    BY <1>9, <2>1 DEF DeliverWRPAC, Inv, TypeOK, Accounted
  <2>5. RegistersSound'
    BY <1>9 DEF DeliverWRPAC, Inv, RegistersSound
  <2> QED BY <2>3, <2>4, <2>5 DEF Inv
<1>10. ASSUME NEW p \in Operators, DeliverWRPRC(p) PROVE Inv'
  <2> DEFINE m == Supersede(mem[p], cur[p].replaces)
             e == [serial |-> cur[p].serial, idx |-> mem[p].entries[cur[p].serial].idx]
  <2>1. p \in Procs
    BY DEF Procs
  <2>2. e \in [serial : Serials, idx : Nat]
    BY <1>10, <2>1 DEF DeliverWRPRC, Inv, TypeOK, Accounted, IsRegister, Entry
  <2>3. IsRegister(m) /\ DOMAIN m.entries = DOMAIN mem[p].entries
    BY <2>1, SupersedeIsRegister DEF Inv, TypeOK
  <2>4. Sound(m)
    BY <2>1, SupersedeIsSound DEF Inv, TypeOK, RegistersSound
  <2>5. /\ wrprcs' = wrprcs \cup {e}
        /\ mem' = [mem EXCEPT ![p] = m]
    BY <1>10 DEF DeliverWRPRC
  <2> HIDE DEF m, e
  <2>6. TypeOK'
    BY <1>10, <2>1, <2>2, <2>3, <2>5 DEF DeliverWRPRC, Inv, TypeOK, Steps, NoCert
  <2>7. Accounted'
    BY <1>10, <2>1, <2>3, <2>5 DEF DeliverWRPRC, Inv, TypeOK, Accounted
  <2>8. RegistersSound'
    BY <1>10, <2>1, <2>4, <2>5 DEF DeliverWRPRC, Inv, TypeOK, RegistersSound
  <2> QED BY <2>6, <2>7, <2>8 DEF Inv
<1>11. ASSUME NEW p \in Operators, Save(p) PROVE Inv'
  <2>1. p \in Procs
    BY DEF Procs
  <2>2. TypeOK'
    BY <1>11, <2>1 DEF Save, Inv, TypeOK, Steps
  <2>3. Accounted'
    BY <1>11, <2>1 DEF Save, Inv, TypeOK, Accounted
  <2>4. RegistersSound'
    BY <1>11, <2>1 DEF Save, Inv, RegistersSound
  <2> QED BY <2>2, <2>3, <2>4 DEF Inv
<1>12. ASSUME NEW p \in Procs, PublishCRL(p) PROVE Inv'
  <2>1. Revoked(mem[p]) \subseteq Serials
    BY PublishedTypes DEF Inv, TypeOK
  <2>2. TypeOK'
    BY <1>12, <2>1 DEF PublishCRL, Inv, TypeOK, Steps
  <2>3. Accounted' /\ RegistersSound'
    BY <1>12 DEF PublishCRL, Inv, TypeOK, Accounted, RegistersSound
  <2> QED BY <2>2, <2>3 DEF Inv
<1>13. ASSUME NEW p \in Procs, PublishList(p) PROVE Inv'
  <2>1. ListSize(mem[p]) \in Nat /\ StatusBits(mem[p]) \subseteq Nat
    BY PublishedTypes DEF Inv, TypeOK
  <2>2. TypeOK'
    BY <1>13, <2>1 DEF PublishList, Inv, TypeOK, Steps
  <2>3. Accounted' /\ RegistersSound'
    BY <1>13 DEF PublishList, Inv, TypeOK, Accounted, RegistersSound
  <2> QED BY <2>2, <2>3 DEF Inv
<1>14. ASSUME NEW p \in Procs, PublishRegister(p) PROVE Inv'
  <2>1. /\ DOMAIN PublicRegister(mem[p]) \subseteq Serials
        /\ PublicRegister(mem[p]) \in [DOMAIN PublicRegister(mem[p]) -> BOOLEAN]
    BY PublishedTypes DEF Inv, TypeOK
  <2>2. acked' \subseteq Serials
    BY <1>14 DEF PublishRegister, Inv, TypeOK
  <2> QED BY <1>14, <2>1, <2>2, ExitInv DEF PublishRegister, Inv, TypeOK
<1>15. ASSUME NEW p \in Procs, Abort(p) PROVE Inv'
  BY <1>15, ExitInv DEF Abort, Inv, TypeOK
<1>16. CASE UNCHANGED vars
  BY <1>16 DEF vars, Inv, TypeOK, Accounted, RegistersSound
<1> QED
  BY <1>1, <1>2, <1>3, <1>4, <1>5, <1>6, <1>7, <1>8, <1>9, <1>10, <1>11, <1>12,
     <1>13, <1>14, <1>15, <1>16 DEF Next, Operate, Publish

LEMMA Invariance == Spec => []Inv
BY InitInv, NextInv, PTL DEF Spec

\* The types of Deployment's state.
THEOREM TypeCorrect == Spec => []TypeOK
<1>1. Inv => TypeOK
  BY DEF Inv
<1> QED BY <1>1, Invariance, PTL

\* Any number of commands, interleaved and interrupted anywhere: each register
\* is sound, whatever update it lost (store.go:52-54, 209-214).
THEOREM RegistersStaySound == Spec => []RegisterSound
<1>1. Inv => RegisterSound
  BY DEF Inv, RegistersSound, RegisterSound, Registers
<1> QED BY <1>1, Invariance, PTL

\* publish never fails on a register the commands wrote: the index of every
\* revoked entry lies in the list it builds (deploy.go:442, 460).
THEOREM PublishNeverRefuses == Spec => [](\A p \in Procs : Publishable(mem[p]))
<1>1. Inv => \A p \in Procs : Publishable(mem[p])
  BY SoundIsPublishable DEF Inv, TypeOK, RegistersSound
<1> QED BY <1>1, Invariance, PTL

\* ListSize rounds the room of the list up to whole bytes.
LEMMA BitsFit ==
    ASSUME NEW r, IsRegister(r), Sound(r), NEW i \in StatusBits(r)
    PROVE  i < ListSize(r)
<1>1. i < ListRoom(r) /\ i \in Nat /\ ListRoom(r) \in Nat
  BY SoundIsPublishable, PublishedTypes DEF Publishable, IsRegister, ListRoom
<1>2. \A n \in Nat : n <= 8 * ((n + 7) \div 8)
  OBVIOUS
<1> QED BY <1>1, <1>2 DEF ListSize

\* The published status list reaches to every slot it revokes, however old the register it
\* was made from, whoever else saved since (deploy.go:442, statuslist.go:29-44).
THEOREM ListHoldsItsBits == Spec => [](\A i \in list.bits : i < list.size)
<1> DEFINE Holds == \A i \in list.bits : i < list.size
<1>1. Init => Holds
  BY EmptyIsRegister DEF Init
<1>2. Inv /\ Holds /\ [Next]_vars => Holds'
  <2> SUFFICES ASSUME Inv, Holds, [Next]_vars PROVE Holds'
    OBVIOUS
  <2>1. list' = list \/ \E p \in Procs : PublishList(p)
    BY DEF Next, Operate, Publish, EditSpec, StartIssue, StartApply, StartRevoke, StartPublish,
           Begin, RevokeAgain, Mint, RevokeItem, DeliverWRPAC, DeliverWRPRC, Save, PublishCRL,
           PublishRegister, Abort, vars, files
  <2>2. ASSUME NEW p \in Procs, PublishList(p) PROVE Holds'
    <3>1. list'.size = ListSize(mem[p]) /\ list'.bits = StatusBits(mem[p])
      BY <2>2 DEF PublishList
    <3>2. IsRegister(mem[p]) /\ Sound(mem[p])
      BY DEF Inv, TypeOK, RegistersSound
    <3> QED BY <3>1, <3>2, BitsFit
  <2> QED BY <2>1, <2>2
<1> QED BY <1>1, <1>2, Invariance, PTL DEF Spec

----------------------------------------------------------------------------
(***************************************************************************)
(* Reconciliation, where no client is listed again once it was marked      *)
(* revoked or removed, and `revoke` is left to what `apply` does not       *)
(* manage.  For any operators and publishers, since a plan is made for and *)
(* carried out on the memory of one command.                               *)
(***************************************************************************)

\* A command has a register of its own, not saved yet.
Working(p) == pc[p] \in {"work", "wrpac", "wrprc", "save"}

\* The entry that is superseded next.
Leaving(p) == IF pc[p] \in {"wrpac", "wrprc"} THEN cur[p].replaces ELSE NoSerial

Fitting(p) ==
    Working(p) => /\ PlanFitsTo(mem[p], specs, Leaving(p), todo[p])
                  /\ pc[p] = "save" => todo[p] = {}

\* What an apply has not done it is going to do.
Following(p) ==
    job[p].cmd = "apply" /\ (Working(p) \/ pc[p] = "crl") =>
        /\ PlanCovers(mem[p], job[p].specs, job[p].prune, Leaving(p), todo[p])
        /\ pc[p] \in {"save", "crl"} => todo[p] = {}

Reconciling == /\ PlanFitsTo(register, specs, NoSerial, {})
               /\ \A p \in Procs : Fitting(p) /\ Following(p)

LEMMA InitReconciling == Init => Reconciling
<1> SUFFICES ASSUME Init PROVE Reconciling
  OBVIOUS
<1>1. \A c : Standing(EmptyRegister, c) = {}
  BY DEF Standing, EmptyRegister
<1>2. PlanFitsTo(register, specs, NoSerial, {})
  BY <1>1 DEF Init, PlanFitsTo, OneStanding, RevokedUnwanted
<1>3. \A p \in Procs : Fitting(p) /\ Following(p)
  BY DEF Init, Fitting, Following, Working
<1> QED BY <1>2, <1>3 DEF Reconciling

\* A step of one command that neither saves nor edits specs.
LEMMA ReconcilingLocal ==
    ASSUME Reconciling, NEW p \in Procs, UNCHANGED <<register, specs>>,
           \A q \in Procs \ {p} : /\ pc'[q] = pc[q] /\ mem'[q] = mem[q] /\ todo'[q] = todo[q]
                                  /\ cur'[q] = cur[q] /\ job'[q] = job[q],
           Fitting(p)', Following(p)'
    PROVE  Reconciling'
<1>1. ASSUME NEW q \in Procs PROVE Fitting(q)' /\ Following(q)'
  <2>1. CASE q # p
    BY <2>1 DEF Reconciling, Fitting, Following, Working, Leaving
  <2> QED BY <2>1
<1> QED BY <1>1 DEF Reconciling

\* A client known to a register does not become active by an edit.
LEMMA EditKeepsFit ==
    ASSUME ~Reinstate, TypeOK, NEW c \in Clients, EditSpec(c),
           NEW r \in {register} \cup {mem[p] : p \in Procs}, IsRegister(r),
           NEW x, NEW items, PlanFitsTo(r, specs, x, items)
    PROVE  PlanFitsTo(r, specs', x, items)
<1>1. \A d \in Clients : specs'[d].state = "active" =>
        specs[d].state = "active" \/ \A s \in DOMAIN r.entries : r.entries[s].client # d
  BY DEF EditSpec, Unknown, TypeOK
<1>2. \A d \in Clients : specs'[d].state = "active" =>
        specs[d].state = "active" \/ Standing(r, d) = {}
  BY <1>1 DEF Standing
<1>3. RevokedUnwanted(r, specs')
  BY <1>2 DEF PlanFitsTo, RevokedUnwanted
<1>4. \A i \in items : ItemFits(r, specs', x, i)
  BY <1>2 DEF PlanFitsTo, ItemFits
<1> QED BY <1>3, <1>4 DEF PlanFitsTo

LEMMA StartKeepsReconciling ==
    ASSUME ~Reinstate, Inv, Reconciling, NEW p \in Operators,
           StartIssue(p) \/ StartApply(p) \/ StartRevoke(p)
    PROVE  Reconciling'
<1> USE DEF files
<1>a. p \in Procs /\ TypeOK /\ IsRegister(register) /\ None \notin Clients
  BY ClientsAssumption DEF Inv, TypeOK, Procs, None
<1>b. UNCHANGED <<register, specs>>
  BY DEF StartIssue, StartApply, StartRevoke, Begin
<1>c. \A q \in Procs \ {p} : /\ pc'[q] = pc[q] /\ mem'[q] = mem[q] /\ todo'[q] = todo[q]
                             /\ cur'[q] = cur[q] /\ job'[q] = job[q]
  BY <1>a DEF StartIssue, StartApply, StartRevoke, Begin, TypeOK
<1>d. PlanFitsTo(register, specs, NoSerial, {})
  BY DEF Reconciling
<1>1. CASE StartIssue(p)
  <2> DEFINE item == [kind |-> "issue", client |-> None, fp |-> None,
                      serial |-> NoSerial, orphan |-> FALSE]
  <2>1. /\ pc'[p] = "work" /\ mem'[p] = register /\ todo'[p] = {item}
        /\ job'[p].cmd = "issue"
    BY <1>1, <1>a DEF StartIssue, Begin, TypeOK, NoJob
  <2>2. PlanFitsTo(register, specs, NoSerial, {item})
    BY <1>a, <1>d DEF PlanFitsTo, ItemFits
  <2>3. Fitting(p)' /\ Following(p)'
    BY <2>1, <2>2, <1>b DEF Fitting, Following, Leaving
  <2> QED BY <2>3, <1>a, <1>b, <1>c, ReconcilingLocal
<1>2. CASE StartApply(p)
  <2>1. PICK prune \in BOOLEAN, pick \in Picks(register) :
          Begin(p, "work", register, Plan(register, specs, prune, pick),
                [cmd |-> "apply", specs |-> specs, prune |-> prune,
                 target |-> NoSerial])
    BY <1>2 DEF StartApply
  <2>2. /\ pc'[p] = "work" /\ mem'[p] = register
        /\ todo'[p] = Plan(register, specs, prune, pick)
        /\ job'[p].specs = specs /\ job'[p].prune = prune
    BY <2>1, <1>a DEF Begin, TypeOK
  <2>3. /\ OneStanding(register, NoSerial) /\ RevokedUnwanted(register, specs)
        /\ specs \in [Clients -> SpecFile]
    BY <1>a, <1>d DEF PlanFitsTo, TypeOK
  <2> DEFINE plan == Plan(register, specs, prune, pick)
  <2>4. /\ \A i \in plan : ItemFits(register, specs, NoSerial, i) /\ ItemAsked(specs, i)
        /\ \A i, j \in plan : i.client = j.client => i = j
        /\ \A c \in Clients : \/ \E i \in plan : i.client = c
                              \/ Done(register, specs, prune, NoSerial, c)
    BY <2>3, <1>a, PlanFits
  <2> HIDE DEF plan
  <2>5. /\ PlanFitsTo(register, specs, NoSerial, plan)
        /\ PlanCovers(register, specs, prune, NoSerial, plan)
    BY <2>3, <2>4 DEF PlanFitsTo, PlanCovers
  <2>6. Fitting(p)' /\ Following(p)'
    BY <2>2, <2>5, <1>b DEF Fitting, Following, Leaving, plan
  <2> QED BY <2>6, <1>a, <1>b, <1>c, ReconcilingLocal
<1>3. CASE StartRevoke(p)
  <2>1. PICK s \in Live(register) :
          /\ register.entries[s].client = None
          /\ Begin(p, "save", RevokeEntry(register, s), {},
                   [NoJob EXCEPT !.cmd = "revoke", !.target = s])
    BY <1>3 DEF StartRevoke
  <2> DEFINE q == RevokeEntry(register, s)
  <2>2. pc'[p] = "save" /\ mem'[p] = q /\ todo'[p] = {} /\ job'[p].cmd = "revoke"
    BY <2>1, <1>a DEF Begin, TypeOK, NoJob
  <2>3. /\ \A t \in DOMAIN register.entries :
              q.entries[t].revoked = (register.entries[t].revoked \/ t = s)
        /\ \A c : Standing(q, c) = Standing(register, c)
    BY <1>a, RevokedKeeps
  <2> HIDE DEF q
  <2>4. OneStanding(q, NoSerial)
    BY <2>3, <1>d DEF PlanFitsTo, OneStanding
  <2>5. RevokedUnwanted(q, specs)
    <3> SUFFICES ASSUME NEW c \in Clients, NEW t \in Standing(register, c),
                        q.entries[t].revoked
                 PROVE  specs[c].state # "active"
      BY <2>3 DEF RevokedUnwanted
    <3>1. t \in DOMAIN register.entries /\ t # s
      BY <2>1, <1>a, StandsOnce
    <3> QED BY <2>3, <3>1, <1>d DEF PlanFitsTo, RevokedUnwanted
  <2>6. Fitting(p)' /\ Following(p)'
    BY <2>2, <2>4, <2>5, <1>b DEF Fitting, Following, Leaving, PlanFitsTo
  <2> QED BY <2>6, <1>a, <1>b, <1>c, ReconcilingLocal
<1> QED BY <1>1, <1>2, <1>3

LEMMA WorkKeepsReconciling ==
    ASSUME Inv, Reconciling, NEW p \in Operators, Mint(p) \/ RevokeItem(p) \/ DeliverWRPAC(p)
                                                  \/ DeliverWRPRC(p)
    PROVE  Reconciling'
<1>a. p \in Procs /\ TypeOK /\ IsRegister(mem[p]) /\ todo[p] \in SUBSET PlanItem
  BY DEF Inv, TypeOK, Procs
<1>b. UNCHANGED <<register, specs, job>>
  BY DEF Mint, RevokeItem, DeliverWRPAC, DeliverWRPRC, files
<1>c. \A q \in Procs \ {p} : /\ pc'[q] = pc[q] /\ mem'[q] = mem[q] /\ todo'[q] = todo[q]
                             /\ cur'[q] = cur[q] /\ job'[q] = job[q]
  BY <1>a DEF Mint, RevokeItem, DeliverWRPAC, DeliverWRPRC, TypeOK
<1>d. Fitting(p) /\ Following(p)
  BY <1>a DEF Reconciling
<1>1. CASE Mint(p)
  <2>1. PICK i \in todo[p], s \in Serials \ archive :
          /\ pc[p] = "work" /\ i.kind # "revoke"
          /\ mem' = [mem EXCEPT ![p] = AddEntry(mem[p], s, i.client, i.fp)]
          /\ cur' = [cur EXCEPT ![p] = [serial |-> s, replaces |-> i.serial]]
          /\ todo' = [todo EXCEPT ![p] = todo[p] \ {i}]
          /\ pc' = [pc EXCEPT ![p] = "wrpac"]
    BY <1>1 DEF Mint, Front
  <2>2. /\ mem'[p] = AddEntry(mem[p], s, i.client, i.fp) /\ cur'[p].replaces = i.serial
        /\ todo'[p] = todo[p] \ {i} /\ pc'[p] = "wrpac"
    BY <2>1, <1>a DEF TypeOK
  <2>3. s \in Serials \ DOMAIN mem[p].entries
    BY <1>a DEF Inv, Accounted
  <2>4. PlanFitsTo(mem[p], specs, NoSerial, todo[p])
    BY <2>1, <1>d DEF Fitting, Working, Leaving
  <2>5. Fitting(p)'
    <3>1. PlanFitsTo(mem'[p], specs, i.serial, todo'[p])
      BY <2>1, <2>2, <2>3, <2>4, <1>a, MintKeepsFit
    <3> QED BY <3>1, <2>2, <1>b DEF Fitting, Leaving
  <2>6. Following(p)'
    <3> SUFFICES ASSUME job[p].cmd = "apply"
                 PROVE  PlanCovers(mem'[p], job[p].specs, job[p].prune, i.serial, todo'[p])
      BY <2>2, <1>b DEF Following, Leaving
    <3>1. PlanCovers(mem[p], job[p].specs, job[p].prune, NoSerial, todo[p])
      BY <2>1, <1>d DEF Following, Working, Leaving
    <3>2. PlanCovers(AddEntry(mem[p], s, i.client, i.fp), job[p].specs, job[p].prune,
                     i.serial, todo[p] \ {i})
      BY <3>1, <2>1, <2>3, <2>4, <1>a, MintKeepsCover
    <3> QED BY <3>2, <2>2
  <2> QED BY <2>5, <2>6, <1>a, <1>b, <1>c, ReconcilingLocal
<1>2. CASE RevokeItem(p)
  <2>1. PICK i \in todo[p] :
          /\ pc[p] = "work" /\ i.kind = "revoke"
          /\ mem' = [mem EXCEPT ![p] = RevokeEntry(mem[p], i.serial)]
          /\ todo' = [todo EXCEPT ![p] = todo[p] \ {i}]
          /\ pc' = [pc EXCEPT ![p] = IF todo[p] = {i} THEN "save" ELSE "work"]
    BY <1>2 DEF RevokeItem, Front
  <2>2. /\ mem'[p] = RevokeEntry(mem[p], i.serial) /\ todo'[p] = todo[p] \ {i}
        /\ pc'[p] = IF todo[p] = {i} THEN "save" ELSE "work"
    BY <2>1, <1>a DEF TypeOK
  <2>3. PlanFitsTo(mem[p], specs, NoSerial, todo[p])
    BY <2>1, <1>d DEF Fitting, Working, Leaving
  <2>4. /\ PlanFitsTo(mem'[p], specs, NoSerial, todo'[p])
        /\ PlanCovers(mem[p], job[p].specs, job[p].prune, NoSerial, todo[p]) =>
              PlanCovers(mem'[p], job[p].specs, job[p].prune, NoSerial, todo'[p])
    BY <2>1, <2>2, <2>3, <1>a, RevokeKeepsPlan
  <2>5. pc'[p] = "save" => todo'[p] = {}
    BY <2>2
  <2>6. Fitting(p)'
    BY <2>2, <2>4, <2>5, <1>b DEF Fitting, Leaving
  <2>7. Following(p)'
    BY <2>1, <2>2, <2>4, <2>5, <1>b, <1>d DEF Following, Working, Leaving
  <2> QED BY <2>6, <2>7, <1>a, <1>b, <1>c, ReconcilingLocal
<1>3. CASE DeliverWRPAC(p)
  <2>1. /\ pc[p] = "wrpac" /\ pc'[p] = "wrprc"
        /\ mem'[p] = mem[p] /\ todo'[p] = todo[p] /\ cur'[p] = cur[p]
    BY <1>3, <1>a DEF DeliverWRPAC, TypeOK
  <2>2. Fitting(p)' /\ Following(p)'
    BY <2>1, <1>b, <1>d DEF Fitting, Following, Working, Leaving
  <2> QED BY <2>2, <1>a, <1>b, <1>c, ReconcilingLocal
<1>4. CASE DeliverWRPRC(p)
  <2>1. /\ pc[p] = "wrprc" /\ mem'[p] = Supersede(mem[p], cur[p].replaces)
        /\ todo'[p] = todo[p] /\ pc'[p] = IF todo[p] = {} THEN "save" ELSE "work"
    BY <1>4, <1>a DEF DeliverWRPRC, TypeOK
  <2>2. PlanFitsTo(mem[p], specs, cur[p].replaces, todo[p])
    BY <2>1, <1>d DEF Fitting, Working, Leaving
  <2>3. /\ PlanFitsTo(mem'[p], specs, NoSerial, todo'[p])
        /\ PlanCovers(mem[p], job[p].specs, job[p].prune, cur[p].replaces, todo[p]) =>
              PlanCovers(mem'[p], job[p].specs, job[p].prune, NoSerial, todo'[p])
    BY <2>1, <2>2, <1>a, SupersedeKeepsPlan
  <2>4. Fitting(p)'
    BY <2>1, <2>3, <1>b DEF Fitting, Leaving
  <2>5. Following(p)'
    BY <2>1, <2>3, <1>b, <1>d DEF Following, Working, Leaving
  <2> QED BY <2>4, <2>5, <1>a, <1>b, <1>c, ReconcilingLocal
<1> QED BY <1>1, <1>2, <1>3, <1>4

LEMMA NextReconciling ==
    ASSUME ~Reinstate, Inv, Reconciling, [Next]_vars
    PROVE  Reconciling'
<1> USE DEF files
<1>a. TypeOK /\ IsRegister(register) /\ \A p \in Procs : IsRegister(mem[p])
  BY DEF Inv, TypeOK
<1>1. ASSUME NEW c \in Clients, EditSpec(c) PROVE Reconciling'
  <2>1. UNCHANGED <<register, pc, mem, todo, cur, job>>
    BY <1>1 DEF EditSpec
  <2>2. PlanFitsTo(register, specs', NoSerial, {})
    BY <1>1, <1>a, EditKeepsFit DEF Reconciling
  <2>3. \A p \in Procs : Fitting(p)'
    BY <1>1, <2>1, <1>a, EditKeepsFit DEF Reconciling, Fitting, Working, Leaving
  <2>4. \A p \in Procs : Following(p)'
    BY <2>1 DEF Reconciling, Following, Working, Leaving
  <2> QED BY <2>1, <2>2, <2>3, <2>4 DEF Reconciling
<1>2. ASSUME NEW p \in Operators, StartIssue(p) \/ StartApply(p) \/ StartRevoke(p)
      PROVE  Reconciling'
  BY <1>2, StartKeepsReconciling
<1>3. ASSUME NEW p \in Operators, Mint(p) \/ RevokeItem(p) \/ DeliverWRPAC(p)
                                  \/ DeliverWRPRC(p)
      PROVE  Reconciling'
  BY <1>3, WorkKeepsReconciling
<1>4. ASSUME NEW p \in Operators, RevokeAgain(p) PROVE Reconciling'
  BY <1>4 DEF RevokeAgain, Reconciling, Fitting, Following, Working, Leaving
<1>5. ASSUME NEW p \in Operators, Save(p) PROVE Reconciling'
  <2>1. /\ p \in Procs /\ pc[p] = "save" /\ register' = mem[p] /\ pc' = [pc EXCEPT ![p] = "crl"]
        /\ UNCHANGED <<specs, mem, todo, cur, job>>
    BY <1>5 DEF Save, Procs
  <2>2. pc'[p] = "crl" /\ \A q \in Procs \ {p} : pc'[q] = pc[q]
    BY <2>1, <1>a DEF TypeOK
  <2>3. PlanFitsTo(register', specs', NoSerial, {})
    BY <2>1 DEF Reconciling, Fitting, Working, Leaving, PlanFitsTo
  <2>4. Fitting(p)' /\ Following(p)'
    BY <2>1, <2>2 DEF Reconciling, Fitting, Following, Working, Leaving
  <2>5. ASSUME NEW q \in Procs \ {p} PROVE Fitting(q)' /\ Following(q)'
    BY <2>1, <2>2 DEF Reconciling, Fitting, Following, Working, Leaving
  <2> QED BY <2>3, <2>4, <2>5 DEF Reconciling
<1>6. ASSUME NEW p \in Procs, Publish(p) \/ Abort(p) PROVE Reconciling'
  <2>1. UNCHANGED <<register, specs>>
    BY <1>6 DEF Publish, StartPublish, Begin, PublishCRL, PublishList, PublishRegister, Abort
  <2>2. \A q \in Procs \ {p} : /\ pc'[q] = pc[q] /\ mem'[q] = mem[q] /\ todo'[q] = todo[q]
                               /\ cur'[q] = cur[q] /\ job'[q] = job[q]
    BY <1>6, <1>a DEF Publish, StartPublish, Begin, PublishCRL, PublishList,
       PublishRegister, Abort, Exit, TypeOK
  <2>3. /\ pc'[p] \notin {"work", "wrpac", "wrprc", "save"}
        /\ pc'[p] = "crl" => job'[p].cmd # "apply"
    BY <1>6, <1>a DEF Publish, StartPublish, Begin, PublishCRL, PublishList,
       PublishRegister, Abort, Exit, TypeOK, NoJob
  <2>4. Fitting(p)' /\ Following(p)'
    BY <2>3 DEF Fitting, Following, Working
  <2> QED BY <2>1, <2>2, <2>4, ReconcilingLocal
<1>7. CASE UNCHANGED vars
  BY <1>7 DEF vars, Reconciling, Fitting, Following, Working, Leaving
<1> QED BY <1>1, <1>2, <1>3, <1>4, <1>5, <1>6, <1>7 DEF Next, Operate

LEMMA ReconcilingInvariance == ASSUME ~Reinstate PROVE Spec => [](Inv /\ Reconciling)
<1>1. Init => Inv /\ Reconciling
  BY InitInv, InitReconciling
<1>2. Inv /\ Reconciling /\ [Next]_vars => (Inv /\ Reconciling)'
  BY NextInv, NextReconciling
<1> QED BY <1>1, <1>2, PTL DEF Spec

\* Any operators and publishers, specs edited at any time: what an `apply` saves is what
\* the specs it read ask for (apply.go:29-42).
THEOREM AppliesReconcile ==
    ASSUME ~Reinstate PROVE Spec => []ApplyReconciles
<1>1. Inv /\ Reconciling => ApplyReconciles
  <2> SUFFICES ASSUME Inv, Reconciling, NEW p \in Procs, pc[p] = "crl", job[p].cmd = "apply",
                      NEW c \in Clients
               PROVE  LET r == mem[p]  j == job[p]
                      IN  CASE j.specs[c].state = "active" ->
                                  /\ Cardinality(ClientEntries(r, c)) = 1
                                  /\ \A s \in ClientEntries(r, c) :
                                        r.entries[s].fp = j.specs[c].fp
                            [] j.specs[c].state = "revoked" -> ClientEntries(r, c) = {}
                            [] OTHER -> j.prune => ClientEntries(r, c) = {}
    BY DEF ApplyReconciles, Reconciled
  <2> DEFINE r == mem[p]  j == job[p]
  <2>1. IsRegister(r) /\ Sound(r) /\ j.specs[c] \in SpecFile
    BY DEF Inv, TypeOK, RegistersSound
  <2>2. Done(r, j.specs, j.prune, NoSerial, c)
    BY DEF Reconciling, Following, Leaving, PlanCovers
  <2> HIDE DEF r, j
  <2>3. ClientEntries(r, c) = (Standing(r, c) \ {NoSerial}) \cap Live(r)
    BY <2>1, StandsOnce DEF ClientEntries, Standing, Live, Sound
  <2>4. CASE j.specs[c].state = "active"
    <3>1. PICK s \in Live(r) : Standing(r, c) \ {NoSerial} = {s} /\ r.entries[s].fp = j.specs[c].fp
      BY <2>2, <2>4 DEF Done
    <3>2. ClientEntries(r, c) = {s}
      BY <2>3, <3>1
    <3>3. Cardinality(ClientEntries(r, c)) = 1
      BY <3>2, FS_Singleton
    <3> QED BY <2>4, <3>1, <3>2, <3>3 DEF r, j
  <2>5. CASE j.specs[c].state = "revoked"
    BY <2>2, <2>3, <2>5 DEF Done, r, j
  <2>6. CASE j.specs[c].state = "absent"
    BY <2>2, <2>3, <2>6 DEF Done, r, j
  <2> QED BY <2>1, <2>4, <2>5, <2>6 DEF SpecFile
<1> QED BY <1>1, ReconcilingInvariance, PTL

\* Any operators and publishers: after an `apply` another of the same specs has nothing
\* to do, whatever entries the map iteration hits (apply_test.go:68).
THEOREM ApplyTwiceIsOnce ==
    ASSUME ~Reinstate PROVE Spec => []ApplyIdempotent
<1>1. Inv /\ Reconciling => ApplyIdempotent
  <2> SUFFICES ASSUME Inv, Reconciling, NEW p \in Procs, pc[p] = "crl", job[p].cmd = "apply",
                      NEW pick \in Picks(mem[p])
               PROVE  Plan(mem[p], job[p].specs, job[p].prune, pick) = {}
    BY DEF ApplyIdempotent
  <2>1. /\ IsRegister(mem[p])
        /\ job[p].specs \in [Clients -> SpecFile] /\ job[p].prune \in BOOLEAN
    BY DEF Inv, TypeOK
  <2>2. \A c \in Clients : Done(mem[p], job[p].specs, job[p].prune, NoSerial, c)
    BY DEF Reconciling, Following, Leaving, PlanCovers
  <2> QED BY <2>1, <2>2, DoneIsIdempotent
<1> QED BY <1>1, ReconcilingInvariance, PTL

\* Any operators and publishers: the plan made from the saved register and the specs on disk
\* revokes every valid certificate of a client marked revoked (apply.go:38).
THEOREM RevokedSpecsHonoured ==
    ASSUME ~Reinstate PROVE Spec => []RevokedSpecHonoured
<1>1. Inv /\ Reconciling => RevokedSpecHonoured
  <2> SUFFICES ASSUME Inv, Reconciling, NEW pick \in Picks(register), NEW c \in Clients,
                      specs[c].state = "revoked", NEW s \in ClientEntries(register, c)
               PROVE  \E i \in Plan(register, specs, FALSE, pick) : i.serial = s
    BY DEF RevokedSpecHonoured
  <2>1. IsRegister(register) /\ Sound(register) /\ OneStanding(register, NoSerial)
    BY DEF Inv, TypeOK, RegistersSound, Reconciling, PlanFitsTo
  <2>2. s \in Standing(register, c) /\ s \in Live(register) /\ s # NoSerial
    BY <2>1, SerialsAssumption DEF ClientEntries, Standing, Live, Sound, IsRegister
  <2>3. pick[c] \in Standing(register, c) /\ pick[c] # NoSerial
    BY <2>1, <2>2, PickStands, StandsOnce
  <2>4. pick[c] = s
    BY <2>1, <2>2, <2>3 DEF OneStanding
  <2>5. [kind |-> "revoke", client |-> c, fp |-> specs[c].fp, serial |-> pick[c],
         orphan |-> FALSE] \in Plan(register, specs, FALSE, pick)
    BY <2>2, <2>4 DEF Plan
  <2> QED BY <2>4, <2>5
<1> QED BY <1>1, ReconcilingInvariance, PTL
=============================================================================
