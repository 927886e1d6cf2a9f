------------------------------ MODULE Register ------------------------------
(***************************************************************************)
(* The register of a deployment (pkg/store, register.json) and what the    *)
(* commands compute from it: allocation of a status list slot, revocation  *)
(* and supersession of an entry, the entry `apply` takes for a client, the *)
(* reconciliation plan, and what `publish` derives from a register.        *)
(*                                                                         *)
(* Names, identifiers, entitlements, dates and reason codes of an entry    *)
(* are left out: no command decides anything by them after issuance.       *)
(***************************************************************************)
EXTENDS Naturals, FiniteSets

CONSTANTS
    Serials,       \* certificate serial numbers the CA can draw
    Clients,       \* client ids of spec files; their order is the sort order
    Fingerprints,  \* spec fingerprints
    NoSerial       \* the nil *Entry

ASSUME SerialsAssumption == NoSerial \notin Serials
ASSUME ClientsAssumption == Clients \subseteq Nat \ {0}
ASSUME FingerprintsAssumption == Fingerprints \subseteq Nat \ {0}

\* The empty string: the client id and the fingerprint of an `issue` entry.
None == 0

Entry == [client : Clients \cup {None}, fp : Fingerprints \cup {None},
          idx : Nat, superseded : BOOLEAN, revoked : BOOLEAN]

\* Entries is keyed by serial; next is the first slot never allocated.
IsRegister(r) ==
    /\ r = [entries |-> r.entries, next |-> r.next]
    /\ DOMAIN r.entries \subseteq Serials
    /\ r.entries \in [DOMAIN r.entries -> Entry]
    /\ r.next \in Nat

EmptyRegister == [entries |-> [s \in {} |-> None], next |-> 0]

Revoked(r) == {s \in DOMAIN r.entries : r.entries[s].revoked}

Live(r) == {s \in DOMAIN r.entries : ~r.entries[s].revoked}

\* No two entries share a slot, every slot is below the next free one, and what
\* was replaced is revoked.
Sound(r) ==
    /\ \A s, t \in DOMAIN r.entries : r.entries[s].idx = r.entries[t].idx => s = t
    /\ \A s \in DOMAIN r.entries :
          /\ r.entries[s].idx < r.next
          /\ r.entries[s].superseded => r.entries[s].revoked

\* r may become q: entries stay, keep their slot and never become valid again,
\* and new ones only take slots that were never handed out.
Extends(r, q) ==
    /\ DOMAIN r.entries \subseteq DOMAIN q.entries
    /\ r.next <= q.next
    /\ \A s \in DOMAIN r.entries :
          /\ q.entries[s].idx = r.entries[s].idx
          /\ r.entries[s].revoked => q.entries[s].revoked
          /\ r.entries[s].superseded => q.entries[s].superseded
    /\ \A s \in DOMAIN q.entries \ DOMAIN r.entries : q.entries[s].idx >= r.next

----------------------------------------------------------------------------
\* What a command does to the register it holds in memory.

\* Defects for the runs to find: each is what its neighbour would be with a
\* plausible bug in it. Specifications do not use them.
NewEntryUnmarked(r, client, fp) ==
    [client |-> client, fp |-> None, idx |-> r.next,
     superseded |-> FALSE, revoked |-> FALSE]

NewEntryBefore(r, client, fp) ==
    [client |-> client, fp |-> fp, idx |-> r.next - 1,
     superseded |-> FALSE, revoked |-> FALSE]

NewEntry(r, client, fp) ==
    [client |-> client, fp |-> fp, idx |-> r.next,
     superseded |-> FALSE, revoked |-> FALSE]

AddEntryUnallocated(r, s, client, fp) ==
    [entries |-> [t \in DOMAIN r.entries \cup {s} |->
                    IF t = s THEN NewEntry(r, client, fp) ELSE r.entries[t]],
     next    |-> r.next]

\* AllocateStatusIndex, and the entry put under its serial.
AddEntry(r, s, client, fp) ==
    [entries |-> [t \in DOMAIN r.entries \cup {s} |->
                    IF t = s THEN NewEntry(r, client, fp) ELSE r.entries[t]],
     next    |-> r.next + 1]

Marked(r, s, superseded) ==
    LET e == r.entries[s]
    IN  [entries |-> [r.entries EXCEPT ![s] =
                        [e EXCEPT !.revoked = TRUE,
                                  !.superseded = e.superseded \/ superseded]],
         next    |-> r.next]

RevokeDeletes(r, s) ==
    [entries |-> [t \in DOMAIN r.entries \ {s} |-> r.entries[t]], next |-> r.next]

RevokeEntry(r, s) == Marked(r, s, FALSE)

SupersedeOnly(r, s) ==
    IF s = NoSerial THEN r
    ELSE [entries |-> [r.entries EXCEPT ![s].superseded = TRUE], next |-> r.next]

\* The entry a new certificate replaces, when it replaces one, is superseded and
\* revoked at once.
Supersede(r, s) == IF s = NoSerial THEN r ELSE Marked(r, s, TRUE)

----------------------------------------------------------------------------
\* Reconciliation. A spec is absent, active or marked `revoked: true`.

SpecFile == [state : {"absent", "active", "revoked"}, fp : Fingerprints \cup {None}]

Absent == [state |-> "absent", fp |-> None]

ActiveOrSuperseded(r, c) ==
    LET any == {s \in DOMAIN r.entries : r.entries[s].client = c}
    IN  IF any = {} THEN {NoSerial} ELSE any

\* The entries ActiveByClient may return: it takes the first match of a Go map
\* iteration, whose order is random.
ActiveByClient(r, c) ==
    LET current == {s \in DOMAIN r.entries :
                      r.entries[s].client = c /\ ~r.entries[s].superseded}
    IN  IF current = {} THEN {NoSerial} ELSE current

\* One answer of ActiveByClient per client.
Picks(r) == {pick \in [Clients -> Serials \cup {NoSerial}] :
               \A c \in Clients : pick[c] \in ActiveByClient(r, c)}

\* The actions of buildPlan, the "unchanged" ones left out.
Plan(r, specs, prune, pick) ==
    LET listed == {c \in Clients : specs[c].state # "absent"}
        wanted == {c \in listed : specs[c].state = "active"}
        live   == {c \in listed : pick[c] \in Live(r)}
        stale  == {c \in wanted \cap live : r.entries[pick[c]].fp # specs[c].fp}
        lost   == {s \in Live(r) : r.entries[s].client \in Clients \ listed
                                   /\ ~r.entries[s].superseded}
        step(kind, c, s, orphan) ==
            [kind |-> kind, client |-> c, fp |-> specs[c].fp, serial |-> s,
             orphan |-> orphan]
    IN  {step("issue", c, NoSerial, FALSE) : c \in wanted \ live}
        \cup {step("reissue", c, pick[c], FALSE) : c \in stale}
        \cup {step("revoke", c, pick[c], FALSE) : c \in live \ wanted}
        \cup {step("revoke", r.entries[s].client, s, TRUE) :
                s \in IF prune THEN lost ELSE {}}

PlanItem == [kind : {"issue", "reissue", "revoke"}, client : Clients \cup {None},
             fp : Fingerprints \cup {None}, serial : Serials \cup {NoSerial},
             orphan : BOOLEAN]

\* The steps that may come next: specs by id, then orphans by id, the entries
\* of one orphaned client in no particular order.
Front(todo) ==
    LET before(a, b) == \/ ~a.orphan /\ b.orphan
                        \/ a.orphan = b.orphan /\ a.client < b.client
    IN  {a \in todo : \A b \in todo : ~before(b, a)}

----------------------------------------------------------------------------
\* What publish derives from a register.

\* statuslist.New(max(next, 8)): the slots Revoke accepts...
ListRoom(r) == IF r.next > 8 THEN r.next ELSE 8

\* ...and those the published string has, in whole bytes.
ListSize(r) == 8 * ((ListRoom(r) + 7) \div 8)

StatusBitsShifted(r) == {r.entries[s].idx + 1 : s \in Revoked(r)}

StatusBits(r) == {r.entries[s].idx : s \in Revoked(r)}

\* list.Revoke refuses an index outside the list, and publish then fails.
Publishable(r) == \A i \in StatusBits(r) : i < ListRoom(r)

PublicRegister(r) == [s \in DOMAIN r.entries |-> r.entries[s].revoked]
=============================================================================
