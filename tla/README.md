# Verification of siros-wrpac-tool

TLA+ specifications of `siros-wrpac-tool`, the command that runs a small access
CA and registrar for wallet-relying parties: it issues access certificates
(WRPAC) with registration certificates (WRPRC) beside them, keeps a register of
them, and publishes a CRL, a token status list and a public register. File and
line references are to the repository (`deploy.go` and the other commands are in
`src/cmd/siros-wrpac-tool/cmd/`, packages in `src/pkg/`).

## The system

A *deployment* is a directory. Every command opens it, works on a copy of
`register.json` in its own memory, writes files, and ends. There is no daemon
that owns the directory and no lock on it: what couples two commands is only the
files they leave. The hard behaviours follow from that: two commands at once, a
command that returns an error or dies between two files, a retry, a schedule
that publishes whatever it finds.

| Component | State | Operations | Interacts with | What makes it correct |
|---|---|---|---|---|
| Register (`store`, parts of `apply.go`) | entries by serial: client, fingerprint, slot, superseded, revoked; next free slot | allocate a slot, add, revoke, supersede, `ActiveByClient`, `buildPlan`, what `publish` derives | a value in each command's memory | slots are allocated once; a superseded entry is revoked; every slot fits the list `publish` makes |
| Deployment commands (`deploy.go`, `apply.go`) | the register on disk, certificates and tokens handed out, `issued/`, three public files; per command its memory, plan and position | `issue`, `apply [--prune]`, `revoke`, `publish` | all through the directory; the operator edits spec files beside them | what is handed out is recorded, what is recorded is published, a revocation takes effect and is never undone, `apply` reconciles |
| Register file (`store.Save`, `store.Open`) | `register.json`, `register.json.tmp` | write tmp, rename; read | two commands share the tmp name | no torn register is ever read; a finished save survives |
| Status list (`statuslist`) | bytes | `New`, `Revoke`, `IsRevoked`, encode | made anew by each `publish` from the register | one slot is one bit, no other is touched, padding is never set |
| Client specs (`clientspec`) | spec files | load, `Validate`, `Fingerprint`, read the CSR | `apply` compares fingerprints with the register | the fingerprint covers all that is issued; what is accepted can be issued |
| Access certificates (`wrpac`) | a signer | `Issue`, profile check, `NewCA`, `CreateCRL` | subject from spec or flags | each profile has its own subject; the pair names one party |
| Registration certificates (`wrprc`) | none | `Mint` | carries the slot of the register entry | refuses what has no entitlement to it |
| Initialisation (`init`) | CA and registrar certificates and keys, register with or without key references | one file after the other, then `publish` | scheduled `publish` meets it half-way; another `init` | the trust anchor is never replaced; what is published verifies |
| Key references (`keyref`) | pools with reference counts, under a mutex | resolve, close | every command that signs with a token | an open key has its pool; an unused pool is closed |
| HTTP server (`serve.go`) | none; reads the public files per request | GET | reads while `publish` rewrites in place | answers with a whole file |
| LoTE, TSL (`lote`, `tsl`, `jws`) | none; sequence number from a flag or the store | build, sign, write | consumers that cache by sequence number | what is published is in force, and so is what consumers use |
| Time (validities, `ttl`, `max-age`, the schedule) | ages of what is published, cached and copied | republish, cache, fetch | all of the publishers and the server | nothing in use expires; a revocation is heeded within a known time |
| Sandbox, listings, command tree | none | write a throwaway set, print | – | – |

`PROJECT.json` lists each with its status, and under `hazards` the places in the
code that a test hardly reaches with the properties aimed at them.

## The modules

| Module | Models | |
|---|---|---|
| `Register` | the register as a value and the operators on it | no variables; used by all of the next |
| `Deployment` | the commands as processes on one directory | extends `Register` |
| `AccessRegistry` | what a deployment promises, abstractly | `Deployment` implements it |
| `StatusList`, `SlotSet` | the bytes of a list; the set of slots it stands for | `StatusList` implements `SlotSet` |
| `RegisterFile` | `Save` and `Open` as file operations | implements `AtomicRegister` while no two saves overlap |
| `AtomicRegister` | `register.json` as one value, saved and opened in one step each | what `Deployment` takes `Save` and `Open` to be |
| `Issuance` | one spec file and one `issue` command line: acceptance, fingerprint, certificate, token | refines the one step `Mint` |
| `PublicFiles` | what follows `Save` or `Open`: the public files rewritten in place, and the server that reads them | extends `RegisterFile` |
| `Freshness` | one published document in time: timer, operator, HTTP cache, consumer | times, which no other module has |
| `Bootstrap` | `init`, and `publish` on what an `init` left | keys and signers, which `Deployment` takes as given |
| `KeyPool` | the PKCS#11 pools of one process | |
| `DeploymentProofs`, `DeploymentRefinement`, `StatusListProofs`, `PublicFilesProofs`, `IssuanceProofs`, `FreshnessProofs`, `BootstrapProofs`, `KeyPoolProofs` | theorems | |
| `MC…` | instances for TLC | |

`Deployment` takes `Save` and `Open` as one step each; that `RegisterFile` implements
`AtomicRegister` is what justifies it, for one operator at a time. `Issuance` is,
informally, why `Deployment` may keep nothing of a certificate but its serial: there
"refines" has no refinement behind it that is checked.

**Deployment.** `register`, `archive` (`issued/`), `wrpacs`, `wrprcs`, `crl`,
`list`, `pubreg` are the files; `mem`, `todo`, `cur`, `job`, `pc` are a
command's memory, the rest of its plan, the certificate it is delivering, its
arguments and its position. One action per file written or per register
operation, in the code's order: `StartX` opens the register and, for `apply`,
computes the plan with one answer of `ActiveByClient` per client (a Go map
iteration, so any match); `Mint` signs, keeps the certificate in `issued/` and
adds the entry to memory; `DeliverWRPAC` and `DeliverWRPRC` write the two files
the party gets, the latter with the supersession of the replaced entry;
`RevokeItem` is a revocation of the plan; `Save` puts the register in place;
`PublishCRL`, `PublishList`, `PublishRegister` write the public files. `Abort`
ends a command anywhere, for an error return and a crash alike: both lose the
memory and keep the files. `RevokeAgain` is the early return for an entry that is
already revoked. The serial of a new certificate is one
the CA has not signed before: random serials are taken never to collide. Some variables
are history: `acked` (serials `revoke` reported), `intact` (no command was
stopped) and, in the other modules, those marked so where they are declared.

**Bootstrap.** A certificate is the key in it; `regPem` and `list` also say who
signed. `init` is `StartInit` … `SaveRegister`, one action per file, and goes on
as a `publish`; `Fail` ends either anywhere.

**RegisterFile.** Names and open files are apart: a process keeps writing to the
file it opened when the name is renamed away. `WriteTmp` over somebody else's
bytes may leave a mix, `Torn`.

**PublicFiles.** A command that has saved (`SaveThenPublish`) and a scheduled
`publish` that has read the register (`ReadThenPublish`) go through the public
files in order. os.WriteFile is two steps, `Truncate` and `Fill`; `stage` counts
them. A file holds a version of the register, nothing, or `Torn`, an
empty or mixed file; `Fill` over a file another command has filled meanwhile may
leave a mixture. `Get` is one request: the file as it is then (serve.go:95). `solo`
is the command that has run with no other beside it, `settled` says that the last
command was such a one and got to its end, and `current` which replies came since.

**Freshness.** One document (`kind`: CRL, status list, LoTE or TSL) and one
revocation. There is no clock, only ages: how long ago the revocation was recorded,
the document made, the cache filled, the copy fetched. `Tick` increases them up to
where nothing depends on them any more, so that the runs are unbounded in time
and finite in states. A publication opens the register (`StartRound` of
the timer, `StartCommand` or `StartRevoke` of the operator), dates the document
(`CreateCRL`, `SignList`, `BuildLoTE`, `BuildTSL`), and writes it (`Write`; for a LoTE
`WriteLoTE` and `WriteJWS`, or `WriteUnsignedLoTE` with `--sign=false`), all within
`Delay`; two may overlap, and the slower one then puts back what it made before. `Refill`
and `Fetch` are a cache before the server and a consumer behind it, who uses a copy for as
long as `Keep` says: the `ttl` that `Sign` puts in the token, capped at its validity.
`validity` is what the deployment chose, fixed in a behaviour. `grows` is FALSE
once a number did not increase: `Larger` says for which documents that may be. A consumer
may then keep what it has.

**Issuance.** `file` is the spec on disk, `entry` what the register has of the
last issue, `produced` and `outcome` the result of the last command. What a text is as a
duration (`Weeks`), which CSRs pass `readCSR` (`Keys`) and which texts X.509 cannot carry
(`BadURIs`, `NotIA5`, `NotUTF8`) are constants: the code asks a library, and nothing
depends on its answer for a particular text. `Encodable` is what url.Parse,
x509.CreateCertificate and x509.ParseCertificate together let through (issue.go:158-178).

**KeyPool.** `Resolve` counts a reference and looks the key up outside the
mutex; `NotFound` gives the reference back, `Close` releases on its first call.

Definitions that stand before another as "defects for the runs to find" are the
mutants `PROJECT.json` lists: each property is violated when its mutant takes the
place of the definition it mutates. Specifications do not use them.

## What is model-checked

| Run | Instance | Shows |
|---|---|---|
| `MCDeployment` | one operator, commands may stop anywhere, one client, two fingerprints, three serials | types; `RegisterSound`; `ListNeverAhead`; `RevocationsNeverWithdrawn`; `KeepsPromise` (implements `AccessRegistry`); and, as long as no command was stopped, `SlotsNeverSharedIfIntact`, `DeliveredIsRecorded`, `PublishedIsCurrent`, `RevocationEffectiveIfIntact` |
| `MCReconcile` | two clients whose specs are added, changed, revoked, removed; three serials; no interruption, no reinstatement | `ApplyReconciles`, `ApplyIdempotent`, `RevokedSpecHonoured`, `DeletionDoesNotRevoke` |
| `MCSchedule` | one operator and a scheduled `publish`, both may stop anywhere, two serials, no spec files | `PublishedRecorded`, `RegisterExtends`, and the liveness property `RevocationPublished` |
| `MCStatusList` | lists for up to 11 slots | `ImplementsSlotSet`, `PublishedAgrees` |
| `MCPublicFiles` | two commands that save and publish and one scheduled publish, any of which may die, one client; three files, four versions, two public files | `PublicTypeOK`, in which a tmp renamed by another never takes the register away; without overlapping saves, `RegisterWhole`, `SavesAreAtomic`; after one undisturbed run, `PublishRepairs`, `ServedIsCurrent` |
| `MCIssuance` | two specs with each field left out, changed or broken, and command lines | `UnchangedIsCurrent`, `SubjectProfile`, `PairAgrees`, `AcceptedIsIssuable` |
| `MCBootstrap` | two inits, two publishers, four file keys, two token keys | `AnchorKept`, `PublishedVerifies`, `InitialisedIsUsable`, `TokenKeysOnly` as long as no two inits overlapped |
| `MCKeyPool` | two tokens, four handles | `OpenKeysWork`, `NothingLeaks` |
| `MCFreshness` | all four kinds; validity 1 or 13, `ttl` 4, `max-age` 2, period 2, delay 1; unbounded time | `PublishedUnexpired`, `NeverWithout`, `RevocationHeeded`, `ExpiryBounds` |

Three runs show where the code does something else than its comments say:

- `MCSlotReused` (`SlotsNeverShared`): certificates are delivered before the
  register is saved, so a command that stops in between, for instance because a
  later client of the same `apply` fails, leaves the slot free and the next
  certificate gets it too (store.go:52-54 says never).
- `MCRevokeRetried` (`RevocationEffective`): a `revoke` stopped between `Save` and
  the end of `publish` reports success when it is retried, and publishes nothing.
- `MCReinstated` (`RevokedSpecHonoured`): after `revoked: true` and back, a client
  has two entries that are not superseded, and a second `revoked: true` may meet
  the revoked one.

### Conditions that leave a divergence out

Some properties hold only under a condition they state. The condition is there
because the code does not do better:

- `RegisterExtends`, `PublishedRecorded`, `ListNeverAhead`, `KeepsPromise`,
  `DeliveredIsRecorded` and the two `IfIntact` properties are checked with at most one operator. Nothing locks
  the directory between `Open` (store.go:147) and `Save` (store.go:183): two
  operators' commands allocate the same slots and overwrite each other's entries.
  `TypeOK`, `RegisterSound`, that `publish` does not refuse and the reconciliation
  properties survive any number of operators; these are proved.
- `ListNeverAhead`, `RevocationsNeverWithdrawn` and `KeepsPromise` are checked
  without a scheduled publisher: `publish` opens the register (deploy.go:413) and
  writes the files later (deploy.go:473, 501), so a slow one may put back an older
  CRL. `RevocationPublished` holds with a publisher, since it comes round again.
- `MCReconcile` has `Reinstate = FALSE`: a client that was revoked is not listed
  again. With it, besides `MCReinstated`, a second `apply` may issue once more
  (apply.go:125-126, against apply_test.go:68).
- `RegisterWhole` and `SavesAreAtomic` say `alone`: all commands write the same
  `register.json.tmp` (store.go:189), and one may rename it while another writes.
- `PublishRepairs` and `ServedIsCurrent` say `settled`: the last command ran with no
  other beside it, to its end. While one runs, the server may answer with half a
  file (os.WriteFile at deploy.go:473, 501 against serve.go:95), and two commands at
  once may leave a mixture for ever.
- `AcceptedIsIssuable` leaves out two kinds of spec that `Validate` accepts and `apply`
  then refuses: one that `provides` an attestation without a provider entitlement
  (clientspec.go:209 against mint.go:66-77), and one with a text that its certificate
  cannot carry, which no check of the spec looks for: a `support_uri` that url.Parse refuses
  (issue.go:160-163), an e-mail address or URI that is not ASCII or a subject that is
  not UTF-8, which x509.CreateCertificate refuses (issue.go:171-174), and a URI whose host
  is no domain, which x509.ParseCertificate refuses (issue.go:175-178). clientspec.go:178
  says Validate checks that a spec is issuable. Errors of random numbers, keys and signing
  are not outcomes of `Issuance`: they stop a command, as `Abort` in `Deployment` does.
- `RevocationHeeded` and `NeverWithout` say `grows`. The number of a CRL is random
  (ca.go:107), so the next one may be smaller, which relying parties take for a
  rollback (store.go:68-69, README.md:59-60). The sequence number of a LoTE or
  TSL is by default one that nothing advances (lote.go:64-69, tsl.go:66-71, although
  the comment there says it does), and a consumer may skip a number it has
  (pkg/lote/lote.go:55-56). Without `grows`, `ExpiryBounds` still holds.
- `PublishedUnexpired` (for the signed file) and `NeverWithout` say `~unsigned`:
  `--sign=false` leaves the `.jws` of an earlier run beside the new document.
- The properties of `Bootstrap` say `alone`: `Create` looks for the register
  (store.go:169) and then writes it, so two inits may both pass and the second
  replaces the CA (against deploy.go:64-66).
- No property says that a legal person's certificate has a country: `Issue` and the
  profile check accept one without (issue.go:117, profile.go:103-118, against
  issue.go:121-122 and README.md:121-123).
- No property is about the form of the LoTE's signed file: it is called a detached JWS
  (pkg/lote/lote.go:181-183), but the payload is in it.
- No property says that a module has one pool: pools are kept under module, token
  label and slot (keyref.go:155, against keyref.go:23-26).

### Bounds

Every bound is a constant of the run or named `BOUND` in a module. Serials bound
how many certificates are ever signed; when they run out no command that issues
can start, and everything else goes on. Three serials are a replaced
certificate, its replacement and one more, the least with which a slot can be
reused after a supersession and the re-issue superseded again; two suffice
where the question is one certificate beside another. One client is enough where
clients do not meet; `MCReconcile` has two for the order of the plan and for
`--prune`. Fingerprints are compared for equality only, so two are enough.
Serials, files, handles, keys and processes are interchangeable and symmetric;
the runs with fairness use no symmetry. Eleven slots are two bytes, the second in
part, and the minimum of eight. Four versions are the first register and three
saves, enough for one of two writers to save again after the other, and three files are
the current one and one for each writer; a file nobody has open or named is free
again. Two public files have one written and one not; the third adds
no case. In `MCFreshness` only how the times compare matters: `Delay` < `Period`, and
`2 * Period + 2 * Delay + MaxAge + TTL` < `validity` by the least possible margin,
12 < 13, which `WellInside` says. The other validity, 1, is shorter than `ttl`, so that
the cap of statuslist.go:94-97 decides how long a copy is kept; what it leaves of the 4 is
enough for `RevocationHeeded` to tell the two apart. `Horizon`, 14, is where ages stop;
`HorizonAssumption` puts it beyond every age a property compares with. With the defaults, a week, one hour of `ttl` and
five minutes of `max-age`, that is a `Period` plus `Delay` below about three
days and eleven hours. The specs of
`MCIssuance` change one field at a time from a valid legal and a valid natural
person's spec, and a few fields together where `Validate` or `Mint` looks at both;
an `Edit` may go from any of them to any other.

No cfg turns deadlock checking off. Where a bound is reached there is always a
command, reader or retry that may still run.

### Fairness

`FairSpec` assumes of each publisher that a scheduled `publish` is started again
and again and that it gets to its end infinitely often (README.md:70-77 asks for a
timer, since CRL and status list expire). Nothing is assumed of operators:
they may stop for ever, and any command may be interrupted, publishers too, as
long as some rounds get through.

## What is proved

TLAPS checks the following for every value of the constants; TLC only checks the
instances above.

| Theorem | States | Assumes |
|---|---|---|
| `DeploymentProofs`: `TypeCorrect` | `Spec => []TypeOK` | any operators, publishers |
| `RegistersStaySound` | `Spec => []RegisterSound` | any operators, publishers |
| `PublishNeverRefuses` | every register a command holds fits the list made from it | any operators, publishers |
| `ListHoldsItsBits` | the published list is as long as every slot it revokes | any operators, publishers |
| `AppliesReconcile`, `ApplyTwiceIsOnce` | `ApplyReconciles`, `ApplyIdempotent` | `~Reinstate` |
| `RevokedSpecsHonoured` | `Spec => []RevokedSpecHonoured` | `~Reinstate` |
| `DeploymentRefinement`: `RegisterOnlyExtends` | `Spec => RegisterExtends` | `OneOperator` |
| `PublishedIsRecorded` | `Spec => []PublishedRecorded` | `OneOperator` |
| `SettledForGood` | a revocation once settled is in CRL and list for ever | `OneOperator` |
| `ApplySparesDeleted` | `Spec => DeletionDoesNotRevoke` | `OneOperator` |
| `SlotsStayApart`, `DeliveriesAreRecorded` | `SlotsNeverSharedIfIntact`, `DeliveredIsRecorded` | `OneOperator` |
| `ListStaysBehind` | `Spec => []ListNeverAhead` | `OneProcess` |
| `NothingWithdrawn` | `Spec => RevocationsNeverWithdrawn` | `OneProcess` |
| `DeploymentKeepsPromise` | `Spec => KeepsPromise` | `OneProcess` |
| `EveryRoundRepairs` | a command's last step leaves all three files as the register has them | `OneProcess` |
| `PublicationsAreCurrent`, `RevocationsTakeEffect` | `PublishedIsCurrent`, `RevocationEffectiveIfIntact` | `OneProcess` |
| `StatusListProofs`: `ListImplementsSlotSet` | `StatusList` implements `SlotSet` for every list size | `MaxSlots \in Nat` |
| `AnswersAgree` | `Spec => []PublishedAgrees` | `MaxSlots \in Nat` |
| `FreshnessProofs`: `TypeCorrect` | `Spec => []TypeOK` | `TimesAssumption`, `HorizonAssumption` |
| `PublishedUnexpiredHolds` | `Spec => []PublishedUnexpired` | `TimesAssumption`, `HorizonAssumption` |
| `NeverWithoutHolds` | `Spec => []NeverWithout` | `TimesAssumption`, `HorizonAssumption` |
| `RevocationHeededHolds` | `Spec => []RevocationHeeded` | `TimesAssumption`, `HorizonAssumption` |
| `ExpiryBoundsHolds` | `Spec => []ExpiryBounds` | `TimesAssumption`, `HorizonAssumption` |
| `PublicFilesProofs`: `TypeCorrect` | `PublicSpec => []PublicTypeOK` | named assumptions |
| `RegisterNeverTorn` | `RegisterWhole` | named assumptions |
| `SavesActAtomically` | `SavesAreAtomic`: the file operations implement `AtomicRegister` | named assumptions |
| `OneRunRepairs`, `AnswersAreCurrent` | `PublishRepairs`, `ServedIsCurrent` | named assumptions |
| `IssuanceProofs`: `LeftAloneIsCurrent` | `Spec => []UnchangedIsCurrent` | nothing |
| `SubjectsFollowProfile` | `Spec => []SubjectProfile` | `KeysAssumption` |
| `PairsAgree` | `Spec => []PairAgrees` | nothing |
| `AcceptedSpecsAreIssued` | `Spec => []AcceptedIsIssuable` | nothing |
| `BootstrapProofs`: `TypeCorrect` | `Spec => []TypeOK` | named assumptions |
| `TrustAnchorKept`, `PublicationsVerify` | `AnchorKept`, `PublishedVerifies` | named assumptions |
| `SuccessIsUsable`, `NoKeyOnDisk` | `InitialisedIsUsable`, `TokenKeysOnly` | named assumptions |
| `KeyPoolProofs`: `TypeCorrect` | `Spec => []TypeOK` | a finite set of handles |
| `OpenKeysHavePools`, `PoolsAreThoseInUse` | `OpenKeysWork`, `NothingLeaks` | a finite set of handles |

`OneOperator` says that any two members of `Operators` are equal, `OneProcess` the
same of operators and publishers together. Neither limits interruptions, clients,
serials or what the spec files say. `~Reinstate` is the condition under which the
run checks the same properties; it limits neither operators nor interruptions. Besides
them only the named assumptions of the modules are used, which TLC evaluates in the
runs: that names are different where they have to be, that processes of two kinds are
not the same, that times are positive, that a publication ends before the timer's next round
and that ages are told apart as far as the times compared with them (`HorizonAssumption`).

**Deployment.** The argument is layers, each an inductive invariant on top of an earlier one:

1. `Inv` (any number of processes): types; every register, saved or in memory, is
   sound; and every entry's serial is in `issued/`. The last part is the
   strengthening: without it a new serial could be one that a register read
   earlier already has, and adding its entry would replace another. Soundness of a
   register in memory cannot be disturbed by other commands, since commands share
   nothing but files and a file is replaced whole. The lemmas it rests on say what each
   operator on a register preserves.
2. `OneInv` (one operator): every memory extends or is extended by the saved
   register. `RegisterExtends` is then the step `Save`, and
   `PublishedRecorded` follows because the register a publisher read long ago is one the
   saved register extends. `Settled` adds that whoever is about to write CRL or list has the
   revocation too; it is kept by every step, so one full round after a revocation, with none
   begun before it left, settles it.
3. `SerialInv` (one process): a command that has saved has the saved register in
   memory, so each publication says what is recorded, and CRL and list are
   ordered by the order they are written in. `KeepsPromise` follows by a
   refinement mapping under which `Save`, `PublishCRL` and `PublishList` are the
   steps of `AccessRegistry` and all else stutters.
4. `Handed` (one operator, on 1, while nothing was stopped): what was handed out is what
   the register has or, while a command works, what its memory has but for the certificate
   it is delivering. Publishers write none of it, so any number may run beside. It is
   what `OneOperator` rules out that breaks it: a second operator saves a memory without it.
   `IntactInv` (one process, on 3): what is published is the saved register whenever nothing
   runs; a command with only the public register left to write has announced the saved one
   (`Announcing`, which no interruption disturbs, and which makes `EveryRoundRepairs`);
   and what `revoke` is to report is revoked in its memory.
   Once something was stopped, what was handed out, and what is published while nothing runs,
   are no longer claimed, and the runs that expect a violation show why.
5. `Spares` (one operator, on 2): an apply without `--prune` has revoked, and is
   going to revoke or replace, only certificates of clients it has a spec of. It
   speaks of the saved register, which nobody else saves meanwhile.
6. `Reconciling` (any number of processes, no client reinstated, on 1): an entry
   *stands* if nothing has replaced it. Each client has at most one, but for the
   one the certificate being delivered replaces, and its spec is not active if
   that one is revoked; what is left of a plan names such entries, one
   item a client; and every client of an apply either has an item left or is as its spec asks.
   Overlapping commands cannot disturb it, since a plan is made for and carried out on
   one memory. Two operators' saves may lose what one of
   them did, but what each saves is one plan carried out on one register.
   Without the second part `issue` could be planned beside a revoked certificate that
   still stands, which the map iteration may then hit; this is what reinstating
   a client does (a finding).

**Freshness.** `Rounds` says that no publication under way works from a register
older than itself. `Lagging` says of every document, published, cached or copied,
that a revocation it does not have was recorded at most `Delay` before the document
was made. It needs neither the timer nor growing numbers; `ExpiryBounds` is that and
the validity. The others count rounds: `Renewed` bounds the age of what is published
by `Bound`, which depends on how long it is until the next round, whether the last
one failed and whether one is under way, and never exceeds
`2 * Period + 2 * Delay`. The second `Delay` is for a slower publication that puts
back what it made earlier. `Fresh` adds how long cache and copy have had theirs, and
`KeepCapped`, that a copy is kept for no longer than `ttl` nor than the validity, makes
both halves of `RevocationHeeded` of it.

**PublicFiles.** `Separate`: while no two saves overlapped, one writer at a time has
the tmp file, register.json holds the last save, and what a reader has open is what
was there when it opened it. With `Newer`, that a version being saved is newer than the
saved one, each file operation is a step of `AtomicRegister` or a stutter: only the
rename is its `Save`, and a write goes to a file that no reader has open. `Repairs`: while `solo` is some process, every other
one rests, and the files that one is past are whole and as the register is; so
when it ends all of them are. That it already holds, before it publishes, what it
will write is the strengthening: a command what it saved, a scheduled publish what
it read.

**Bootstrap.** `Ordered`: each file on disk rests on one that is there (`Chain`), the
register promises no more than what is there (`Promised`), the one init under way
has written exactly what its position says (`Progress`), and a publication under way
has read what is still on disk (`HasRead`). Without `Progress` one could not exclude
that a retried init writes a second `ca.pem`: it cannot, because the first left
a register, bare as it may be.

**KeyPool.** `Counted`: the reference count of a pool is the number of keys that hold
it, and there is a pool while that is not zero. The proof rests on how the
cardinality of a finite set changes when a key is added or removed.

**Issuance.** `Registered`: the register has, as a whole, what one accepted document asks
for; `Result`: what the last command made is what the file, or some command line, asks for,
and it ended as the checks say. The rest is in the operators. Documents with one fingerprint
make one request and one payload, but for the order of entitlements (`FingerprintDecides`);
a request follows one of two profiles and so does its certificate; what `Accepts` lets
through, `Issues` and `Mints` refuse for two reasons and no third: a certificate that is not
`Encodable`, and `provides` without the entitlement.

**StatusList.** A revocation adds one slot to `Published` and sets no bit of the
padding of the last byte (`NoPadding`), so that what a consumer reads past the last slot is zero.

TLC was used on each invariant before it was proved.

**Only model-checked:** the liveness property `RevocationPublished`. That a revocation gets
through rests on fairness, which is out of the prover's reach; that it then stays
is `SettledForGood`. Every other property of the runs that pass has its theorem.

## What is not modelled

- `list`, `entitlements`, `--dry-run`: they read and print.
- Reason codes, dates, names and entitlements in register entries: no command
  decides anything by them after issuance.
- The contents of LoTE and TSL, `--out` and the names of their files: `Freshness` has only
  when they are made and written. It takes it that some server serves them with
  the same `max-age`; serve.go:42-47 does not serve `lote.json`.
- The lifetimes of what is issued: notAfter of a certificate, `exp` of a WRPRC
  (mint.go:52). Which names the server maps to which files, media types, the method check.
- JWS, XML signature, zlib, ASN.1: pure computations of libraries.
- The sandbox: it writes a throwaway set once.
- Directory listing order and two spec files with one id; PEM, PIN and path checks
  of key references.
- Durability: a crash is the death of a process, not of the machine; `Save` does not
  call fsync and nothing is claimed about power loss.

## Plan

Done: `Register`, `Deployment`, `AccessRegistry` and their proofs (the
core: revocation and slots); `StatusList`; `RegisterFile` and `PublicFiles`;
`Issuance`; `Bootstrap`; `KeyPool`; `Freshness`; `AtomicRegister`; and the proofs of all of
these. What is left, in this order:

1. A common instance of `Deployment` and `RegisterFile`, in which `Save` and `Open` are their file
   operations, on top of `AtomicRegister`.
2. Lifetimes: a certificate that outlives its WRPRC (mint.go:52), and an issuing CA
   that ends before what it signed.
3. Key references as paths, and `init` and the commands after it in different
   working directories (deploy.go:175); whether a refused `init` can be repeated.
