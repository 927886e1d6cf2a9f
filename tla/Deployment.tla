----------------------------- MODULE Deployment -----------------------------
(***************************************************************************)
(* The commands of siros-wrpac-tool on one initialised deployment          *)
(* directory: issue, revoke, apply and publish (cmd/deploy.go, apply.go).  *)
(*                                                                         *)
(* A command is a process.  It opens the register into its own memory,     *)
(* works there, hands certificates out as it goes, renames the new         *)
(* register into place (Save) and then writes the three public files one   *)
(* after the other (publish).  Nothing locks the directory, so commands of *)
(* several operators, and a scheduled `publish`, interleave at every step. *)
(*                                                                         *)
(* Interrupts: an error return or a crash may end a command at any step;   *)
(* either loses the memory and keeps the files written so far.             *)
(* Reinstate: a client marked revoked, or removed, may be listed again,    *)
(* and `revoke` may be used on a client that `apply` manages.              *)
(***************************************************************************)
EXTENDS Register

CONSTANTS
    Operators,    \* processes that run issue, revoke, apply and publish
    Publishers,   \* processes that only run publish, on a schedule
    Interrupts,
    Reinstate

ASSUME SwitchesAssumption == {Interrupts, Reinstate} \subseteq BOOLEAN

Procs == Operators \cup Publishers

VARIABLES
    register,   \* register.json
    specs,      \* the directory of spec files
    archive,    \* issued/: every certificate the CA has signed and kept
    wrpacs,     \* serials of the wrpac.pem files handed out
    wrprcs,     \* [serial, idx] of the wrprc.jwt files handed out
    crl,        \* serials on public/crl.der
    list,       \* size and set bits of public/status-list.jwt
    pubreg,     \* serial -> revoked, in the public register.json
    acked,      \* serials `revoke` has reported revoked (history)
    intact,     \* no command has been stopped so far (history)
    pc,         \* where each command is
    mem,        \* s.Register of each command
    todo,       \* what is left of each command's plan
    cur,        \* the certificate being delivered, and the serial it replaces
    job         \* the command and the input it was started with

files == <<register, archive, wrpacs, wrprcs, crl, list, pubreg>>
vars == <<files, specs, acked, intact, pc, mem, todo, cur, job>>

NoCert == [serial |-> NoSerial, replaces |-> NoSerial]

NoSpecs == [c \in Clients |-> Absent]

NoJob == [cmd |-> "none", specs |-> NoSpecs, prune |-> FALSE, target |-> NoSerial]

Commands == {"none", "issue", "apply", "revoke", "publish"}

Steps == {"idle", "work", "wrpac", "wrprc", "save", "crl", "list", "pub"}

TypeOK ==
    /\ IsRegister(register)
    /\ specs \in [Clients -> SpecFile]
    /\ archive \subseteq Serials
    /\ wrpacs \subseteq Serials
    /\ wrprcs \subseteq [serial : Serials, idx : Nat]
    /\ crl \subseteq Serials
    /\ list \in [size : Nat, bits : SUBSET Nat]
    /\ DOMAIN pubreg \subseteq Serials /\ pubreg \in [DOMAIN pubreg -> BOOLEAN]
    /\ acked \subseteq Serials
    /\ intact \in BOOLEAN
    /\ pc \in [Procs -> Steps]
    /\ mem = [p \in Procs |-> mem[p]] /\ \A p \in Procs : IsRegister(mem[p])
    /\ todo \in [Procs -> SUBSET PlanItem]
    /\ cur \in [Procs -> [serial : Serials \cup {NoSerial},
                          replaces : Serials \cup {NoSerial}]]
    /\ job \in [Procs -> [cmd : Commands, specs : [Clients -> SpecFile],
                          prune : BOOLEAN, target : Serials \cup {NoSerial}]]

\* A deployment as `init` leaves it: empty and published.
Init ==
    /\ register = EmptyRegister
    /\ specs \in [Clients -> SpecFile]
    /\ \A c \in Clients : specs[c].state = "absent" <=> specs[c].fp = None
    /\ archive = {} /\ wrpacs = {} /\ wrprcs = {} /\ acked = {}
    /\ intact = TRUE
    /\ crl = {}
    /\ list = [size |-> ListSize(register), bits |-> {}]
    /\ pubreg = PublicRegister(register)
    /\ pc = [p \in Procs |-> "idle"]
    /\ mem = [p \in Procs |-> EmptyRegister]
    /\ todo = [p \in Procs |-> {}]
    /\ cur = [p \in Procs |-> NoCert]
    /\ job = [p \in Procs |-> NoJob]

----------------------------------------------------------------------------
\* The operator's git directory. Only the command line reads it.

\* No register, on disk or in a command, has an entry for the client.
Unknown(c) == \A r \in {register} \cup {mem[p] : p \in Procs} :
                 \A s \in DOMAIN r.entries : r.entries[s].client # c

EditSpec(c) ==
    \E new \in SpecFile :
        /\ new # specs[c]
        /\ new.state = "absent" <=> new.fp = None
        /\ \/ Reinstate \/ Unknown(c)
           \/ new.state = "absent" \/ specs[c].state = "active"
           \/ new.state = "revoked" /\ specs[c].state = "revoked"
        /\ specs' = [specs EXCEPT ![c] = new]
        /\ UNCHANGED <<files, acked, intact, pc, mem, todo, cur, job>>

----------------------------------------------------------------------------
\* Starting a command: store.Open, and the decision what to do.

Issues(items) == {i \in items : i.kind # "revoke"}

\* BOUND: Serials is finite, so a command starts only if it can be served.
SerialsFor(items) ==
    Cardinality(Issues(items))
      + Cardinality(UNION {{p} \X Issues(todo[p]) : p \in Procs})
      <= Cardinality(Serials \ archive)

Begin(p, step, r, items, j) ==
    /\ pc[p] = "idle"
    /\ pc' = [pc EXCEPT ![p] = step]
    /\ mem' = [mem EXCEPT ![p] = r]
    /\ todo' = [todo EXCEPT ![p] = items]
    /\ job' = [job EXCEPT ![p] = j]
    /\ UNCHANGED <<files, specs, acked, intact, cur>>

StartIssue(p) ==
    LET item == [kind |-> "issue", client |-> None, fp |-> None,
                 serial |-> NoSerial, orphan |-> FALSE]
    IN  /\ SerialsFor({item})
        /\ Begin(p, "work", register, {item}, [NoJob EXCEPT !.cmd = "issue"])

\* Defects for the runs to find, here and below.
StartApplyPrunes(p) ==
    /\ pc[p] = "idle"
    /\ \E prune \in BOOLEAN, pick \in Picks(register) :
          LET plan == Plan(register, specs, TRUE, pick)
          IN  /\ plan # {}
              /\ SerialsFor(plan)
              /\ Begin(p, "work", register, plan,
                       [cmd |-> "apply", specs |-> specs, prune |-> prune,
                        target |-> NoSerial])

\* An apply with nothing to do returns at once and changes nothing.
StartApply(p) ==
    /\ pc[p] = "idle"
    /\ \E prune \in BOOLEAN, pick \in Picks(register) :
          LET plan == Plan(register, specs, prune, pick)
          IN  /\ plan # {}
              /\ SerialsFor(plan)
              /\ Begin(p, "work", register, plan,
                       [cmd |-> "apply", specs |-> specs, prune |-> prune,
                        target |-> NoSerial])

StartRevokeUnsaved(p) ==
    \E s \in Live(register) :
        /\ Reinstate \/ register.entries[s].client = None
        /\ Begin(p, "crl", RevokeEntry(register, s), {},
                 [NoJob EXCEPT !.cmd = "revoke", !.target = s])

StartRevoke(p) ==
    \E s \in Live(register) :
        /\ Reinstate \/ register.entries[s].client = None
        /\ Begin(p, "save", RevokeEntry(register, s), {},
                 [NoJob EXCEPT !.cmd = "revoke", !.target = s])

\* "already revoked": reported as done, and nothing is published.
RevokeAgain(p) ==
    \E s \in Revoked(register) :
        /\ pc[p] = "idle"
        /\ acked' = acked \cup {s}
        /\ UNCHANGED <<files, specs, intact, pc, mem, todo, cur, job>>

StartPublishList(p) ==
    Begin(p, "list", register, {}, [NoJob EXCEPT !.cmd = "publish"])

StartPublish(p) ==
    Begin(p, "crl", register, {}, [NoJob EXCEPT !.cmd = "publish"])

----------------------------------------------------------------------------
\* Working through the plan, in memory.

\* The CA signs under a random serial no certificate has; the entry gets the
\* next slot, and the certificate a copy in issued/.
Mint(p) ==
    \E i \in Front(todo[p]), s \in Serials \ archive :
        /\ pc[p] = "work"
        /\ i.kind # "revoke"
        /\ mem' = [mem EXCEPT ![p] = AddEntry(mem[p], s, i.client, i.fp)]
        /\ archive' = archive \cup {s}
        /\ cur' = [cur EXCEPT ![p] = [serial |-> s, replaces |-> i.serial]]
        /\ todo' = [todo EXCEPT ![p] = todo[p] \ {i}]
        /\ pc' = [pc EXCEPT ![p] = "wrpac"]
        /\ UNCHANGED <<register, specs, wrpacs, wrprcs, crl, list, pubreg,
                       acked, intact, job>>

RevokeItem(p) ==
    \E i \in Front(todo[p]) :
        /\ pc[p] = "work"
        /\ i.kind = "revoke"
        /\ mem' = [mem EXCEPT ![p] = RevokeEntry(mem[p], i.serial)]
        /\ todo' = [todo EXCEPT ![p] = todo[p] \ {i}]
        /\ pc' = [pc EXCEPT ![p] = IF todo[p] = {i} THEN "save" ELSE "work"]
        /\ UNCHANGED <<files, specs, acked, intact, cur, job>>

\* The WRPRC is minted before anything is delivered: an error there is an
\* Abort in "wrpac".
DeliverWRPAC(p) ==
    /\ pc[p] = "wrpac"
    /\ wrpacs' = wrpacs \cup {cur[p].serial}
    /\ pc' = [pc EXCEPT ![p] = "wrprc"]
    /\ UNCHANGED <<register, archive, wrprcs, crl, list, pubreg, specs,
                   acked, intact, mem, todo, cur, job>>

DeliverWRPRCNextSlot(p) ==
    /\ pc[p] = "wrprc"
    /\ wrprcs' = wrprcs \cup {[serial |-> cur[p].serial, idx |-> mem[p].next]}
    /\ mem' = [mem EXCEPT ![p] = Supersede(mem[p], cur[p].replaces)]
    /\ cur' = [cur EXCEPT ![p] = NoCert]
    /\ pc' = [pc EXCEPT ![p] = IF todo[p] = {} THEN "save" ELSE "work"]
    /\ UNCHANGED <<register, archive, wrpacs, crl, list, pubreg, specs,
                   acked, intact, todo, job>>

\* The WRPRC names the slot; then the entry the certificate replaces is
\* superseded and revoked, in memory.
DeliverWRPRC(p) ==
    /\ pc[p] = "wrprc"
    /\ wrprcs' = wrprcs \cup {[serial |-> cur[p].serial,
                               idx |-> mem[p].entries[cur[p].serial].idx]}
    /\ mem' = [mem EXCEPT ![p] = Supersede(mem[p], cur[p].replaces)]
    /\ cur' = [cur EXCEPT ![p] = NoCert]
    /\ pc' = [pc EXCEPT ![p] = IF todo[p] = {} THEN "save" ELSE "work"]
    /\ UNCHANGED <<register, archive, wrpacs, crl, list, pubreg, specs,
                   acked, intact, todo, job>>

----------------------------------------------------------------------------
\* Save and publish. All of it is computed from the command's own memory.

SaveCompacted(p) ==
    /\ pc[p] = "save"
    /\ register' = [entries |-> [s \in {t \in DOMAIN mem[p].entries :
                                           ~mem[p].entries[t].superseded}
                                   |-> mem[p].entries[s]],
                    next |-> mem[p].next]
    /\ pc' = [pc EXCEPT ![p] = "crl"]
    /\ UNCHANGED <<archive, wrpacs, wrprcs, crl, list, pubreg, specs, acked,
                   intact, mem, todo, cur, job>>

Save(p) ==
    /\ pc[p] = "save"
    /\ register' = mem[p]
    /\ pc' = [pc EXCEPT ![p] = "crl"]
    /\ UNCHANGED <<archive, wrpacs, wrprcs, crl, list, pubreg, specs, acked,
                   intact, mem, todo, cur, job>>

PublishCRLOfRevoke(p) ==
    /\ pc[p] = "crl"
    /\ Publishable(mem[p])
    /\ crl' = {s \in Revoked(mem[p]) : ~mem[p].entries[s].superseded}
    /\ pc' = [pc EXCEPT ![p] = "list"]
    /\ UNCHANGED <<register, archive, wrpacs, wrprcs, list, pubreg, specs,
                   acked, intact, mem, todo, cur, job>>

PublishCRL(p) ==
    /\ pc[p] = "crl"
    /\ Publishable(mem[p])
    /\ crl' = Revoked(mem[p])
    /\ pc' = [pc EXCEPT ![p] = "list"]
    /\ UNCHANGED <<register, archive, wrpacs, wrprcs, list, pubreg, specs,
                   acked, intact, mem, todo, cur, job>>

PublishList(p) ==
    /\ pc[p] = "list"
    /\ list' = [size |-> ListSize(mem[p]), bits |-> StatusBits(mem[p])]
    /\ pc' = [pc EXCEPT ![p] = "pub"]
    /\ UNCHANGED <<register, archive, wrpacs, wrprcs, crl, pubreg, specs,
                   acked, intact, mem, todo, cur, job>>

\* The process ends, its memory with it.
Exit(p) ==
    /\ pc' = [pc EXCEPT ![p] = "idle"]
    /\ mem' = [mem EXCEPT ![p] = EmptyRegister]
    /\ todo' = [todo EXCEPT ![p] = {}]
    /\ cur' = [cur EXCEPT ![p] = NoCert]
    /\ job' = [job EXCEPT ![p] = NoJob]

PublishRegister(p) ==
    /\ pc[p] = "pub"
    /\ pubreg' = PublicRegister(mem[p])
    /\ acked' = acked \cup ({job[p].target} \ {NoSerial})
    /\ Exit(p)
    /\ UNCHANGED <<register, archive, wrpacs, wrprcs, crl, list, specs, intact>>

Abort(p) ==
    /\ Interrupts
    /\ pc[p] # "idle"
    /\ intact' = FALSE
    /\ Exit(p)
    /\ UNCHANGED <<files, specs, acked>>

----------------------------------------------------------------------------
Operate(p) == \/ StartIssue(p) \/ StartApply(p) \/ StartRevoke(p) \/ RevokeAgain(p)
              \/ Mint(p) \/ RevokeItem(p) \/ DeliverWRPAC(p) \/ DeliverWRPRC(p)
              \/ Save(p)

Publish(p) == StartPublish(p) \/ PublishCRL(p) \/ PublishList(p) \/ PublishRegister(p)

Next == \/ \E c \in Clients : EditSpec(c)
        \/ \E p \in Operators : Operate(p)
        \/ \E p \in Procs : Publish(p) \/ Abort(p)

Spec == Init /\ [][Next]_vars

\* `publish` runs on a schedule for ever (README.md:70-77), and again and again
\* some round of it gets through its next step.
Scheduled(p) == /\ SF_vars(StartPublish(p))
                /\ SF_vars(PublishCRL(p))
                /\ SF_vars(PublishList(p))
                /\ SF_vars(PublishRegister(p))

FairSpec == Spec /\ \A p \in Publishers : Scheduled(p)

----------------------------------------------------------------------------
\* The register.

Registers == {register} \cup {mem[p] : p \in Procs}

\* In every register, saved or in memory, no two entries share a slot of the
\* status list, every slot is below the next free one, and a certificate that
\* was replaced is revoked: `apply` never looks at a superseded entry again, so
\* one still valid would stay valid (store.go:52-54, apply.go:243-249).
RegisterSound == \A r \in Registers : Sound(r)

\* With one operator at a time, and whatever is interrupted, the saved register
\* only moves forward (store.go:5-8): a revocation is never undone, an entry
\* never lost, a slot never moved.
RegisterExtends == [][Extends(register, register')]_vars

\* No two registration certificates handed out name the same slot: reusing one
\* "would silently transfer a previous holder's revocation to a new
\* certificate" (store.go:52-54).
SlotsNeverShared ==
    \A t, u \in wrprcs : t.idx = u.idx => t.serial = u.serial

\* That is so with one operator at a time, whatever publishes beside it, as long as
\* none was stopped: a command that hands certificates out and is stopped before Save
\* leaves the slots free.
SlotsNeverSharedIfIntact == intact => SlotsNeverShared

\* With one operator at a time and nothing stopped so far, what was handed out is
\* what the register records, with the slot it records, whenever nothing runs.
DeliveredIsRecorded ==
    intact /\ (\A p \in Procs : pc[p] = "idle") =>
        /\ wrpacs = DOMAIN register.entries
        /\ wrprcs = {[serial |-> s, idx |-> register.entries[s].idx] :
                        s \in DOMAIN register.entries}

----------------------------------------------------------------------------
\* The revocation data.

\* Nothing is revoked in public that the register does not record as revoked,
\* even while a command or the schedule is between its steps or was stopped
\* there: Save comes before publish (deploy.go:302-305, 396-399).
PublishedRecorded ==
    /\ crl \subseteq Revoked(register)
    /\ list.bits \subseteq StatusBits(register)

\* With no two commands at once the CRL is never behind the status list.
ListNeverAhead ==
    \A s \in Revoked(register) : register.entries[s].idx \in list.bits => s \in crl

\* With no two commands at once a published revocation is never withdrawn, and
\* the status list never loses a slot.
RevocationsNeverWithdrawn ==
    [][/\ crl \subseteq crl'
       /\ list.bits \subseteq list'.bits
       /\ list.size <= list'.size]_vars

\* With no two commands at once and none stopped so far, CRL, status list and
\* public register say what the register says whenever nothing runs
\* (deploy.go:430-433).
PublishedIsCurrent ==
    intact /\ (\A p \in Procs : pc[p] = "idle") =>
        /\ crl = Revoked(register)
        /\ list = [size |-> ListSize(register), bits |-> StatusBits(register)]
        /\ pubreg = PublicRegister(register)

\* Once `revoke` has reported a serial revoked, it is on the CRL and its slot is
\* set ("Both revocation mechanisms are updated together", deploy.go:371-373).
RevocationEffective ==
    \A s \in acked : /\ s \in crl
                     /\ register.entries[s].idx \in list.bits

\* That is so with no two commands at once, as long as none was stopped: a revoke
\* stopped before it published is never made good by trying it again.
RevocationEffectiveIfIntact == intact => RevocationEffective

\* A revocation on record reaches the CRL and the status list and stays there,
\* if `publish` runs on a schedule: whatever command was stopped before it
\* published, and although a round may publish a register read long before.
RevocationPublished ==
    \A s \in Serials :
        [](s \in Revoked(register) =>
              <>[](/\ s \in crl \cap Revoked(register)
                   /\ register.entries[s].idx \in list.bits))

----------------------------------------------------------------------------
\* Reconciliation.

ClientEntries(r, c) == {s \in Live(r) : r.entries[s].client = c}

Reconciled(r, j) ==
    \A c \in Clients :
        CASE j.specs[c].state = "active" ->
                /\ Cardinality(ClientEntries(r, c)) = 1
                /\ \A s \in ClientEntries(r, c) : r.entries[s].fp = j.specs[c].fp
          [] j.specs[c].state = "revoked" -> ClientEntries(r, c) = {}
          [] OTHER -> j.prune => ClientEntries(r, c) = {}

\* What `apply` saves is what the spec files ask for: one valid certificate for
\* each active client, issued from its current spec, none for a client marked
\* revoked and, with --prune, none for one that is gone (apply.go:29-42).
ApplyReconciles ==
    \A p \in Procs : pc[p] = "crl" /\ job[p].cmd = "apply"
                        => Reconciled(mem[p], job[p])

\* A second `apply` of the same specs has nothing to do, whatever entry the map
\* iteration hits (TestApplyIsIdempotent, apply_test.go:68).
ApplyIdempotent ==
    \A p \in Procs : pc[p] = "crl" /\ job[p].cmd = "apply" =>
        \A pick \in Picks(mem[p]) : Plan(mem[p], job[p].specs, job[p].prune, pick) = {}

\* "Setting 'revoked: true' revokes" (apply.go:38): whatever entry the map
\* iteration hits, the plan revokes every valid certificate of the client.
RevokedSpecHonoured ==
    \A pick \in Picks(register) :
        \A c \in {d \in Clients : specs[d].state = "revoked"} :
            ClientEntries(register, c)
              \subseteq {i.serial : i \in Plan(register, specs, FALSE, pick)}

\* An `apply` without --prune leaves alone every certificate whose client has no
\* spec file, and those of `issue` (apply.go:40-42, README.md:55).
DeletionDoesNotRevoke ==
    [][\A p \in Procs :
          pc[p] = "save" /\ pc'[p] = "crl" /\ job[p].cmd = "apply" /\ ~job[p].prune =>
             \A s \in Live(register) :
                \/ s \in Live(register')
                \/ /\ register.entries[s].client # None
                   /\ job[p].specs[register.entries[s].client].state # "absent"]_vars

----------------------------------------------------------------------------
\* With no two commands at once, the deployment implements AccessRegistry,
\* wherever its commands are interrupted: the register is what is recorded, and
\* Save, PublishCRL and PublishList are its steps.
Promised == INSTANCE AccessRegistry WITH
    Certificates <- Serials,
    slot <- [s \in DOMAIN register.entries |-> register.entries[s].idx],
    revoked <- Revoked(register),
    crl <- crl,
    bits <- list.bits

KeepsPromise == Promised!Spec
=============================================================================
