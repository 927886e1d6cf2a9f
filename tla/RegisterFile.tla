---------------------------- MODULE RegisterFile ----------------------------
(***************************************************************************)
(* How register.json is replaced (store.Save) and read (store.Open).       *)
(* os.WriteFile opens register.json.tmp, truncating it or creating it, and *)
(* writes through that open file; os.Rename then puts whatever the name    *)
(* register.json.tmp stands for in the place of register.json. Names and   *)
(* open files are kept apart, as the file system does: a file renamed or   *)
(* replaced while somebody has it open is still the file they have open.   *)
(* A crash is the death of the process: what it has written stays.         *)
(***************************************************************************)
EXTENDS Naturals

CONSTANTS Writers, Readers, Files, MaxVersion, NoFile, Torn
ASSUME FilesAssumption == NoFile \notin Files
ASSUME TornAssumption == Torn \notin Nat
ASSUME VersionAssumption == MaxVersion \in Nat
ASSUME ProcsAssumption == Writers \cap Readers = {}

Procs == Writers \cup Readers
Versions == 0..MaxVersion

VARIABLES
    db, tmp,    \* the files the two names stand for
    content,    \* what each file holds: a version of the register, or Torn
    open,       \* the file each process has open
    pc,
    saving,     \* the version each writer is saving
    seen,       \* the version each reader has read last
    saved,      \* the newest version a finished Save has stored (history)
    alone       \* no two saves have overlapped so far (history)

vars == <<db, tmp, content, open, pc, saving, seen, saved, alone>>

TypeOK ==
    /\ db \in Files
    /\ tmp \in Files \cup {NoFile}
    /\ content \in [Files -> Versions \cup {Torn}]
    /\ open \in [Procs -> Files \cup {NoFile}]
    /\ pc \in [Procs -> {"idle", "write", "rename", "read"}]
    /\ \A p \in Procs : pc[p] \in {"write", "read"} => open[p] \in Files
    /\ saving \in [Writers -> Versions]
    /\ seen \in [Readers -> Versions \cup {Torn}]
    /\ saved \in Versions
    /\ alone \in BOOLEAN

Init ==
    /\ db \in Files
    /\ tmp = NoFile
    /\ content = [f \in Files |-> IF f = db THEN 0 ELSE Torn]
    /\ open = [p \in Procs |-> NoFile]
    /\ pc = [p \in Procs |-> "idle"]
    /\ saving = [w \in Writers |-> 0]
    /\ seen = [r \in Readers |-> 0]
    /\ saved = 0
    /\ alone = TRUE

\* A file no name stands for and no process has open.
Unused(f) == f # db /\ f # tmp /\ \A p \in Procs : open[p] # f

\* No save is under way.
Resting == \A w \in Writers : pc[w] = "idle"

\* Defects for the runs to find, here and below.
OpenInPlace(w) ==
    \E v \in Versions :
        /\ pc[w] = "idle"
        /\ \A u \in Writers : v > saving[u]
        /\ tmp' = db
        /\ content' = [content EXCEPT ![db] = Torn]
        /\ open' = [open EXCEPT ![w] = db]
        /\ saving' = [saving EXCEPT ![w] = v]
        /\ pc' = [pc EXCEPT ![w] = "write"]
        /\ alone' = (alone /\ Resting)
        /\ UNCHANGED <<db, seen, saved>>

\* os.WriteFile: O_CREATE|O_TRUNC. A tmp left by a crash is truncated again.
\* Each Save stores a version newer than those before it.
\* BOUND: versions up to MaxVersion, and as many files as Files has.
OpenTmp(w) ==
    \E f \in Files, v \in Versions :
        /\ pc[w] = "idle"
        /\ IF tmp = NoFile THEN Unused(f) ELSE f = tmp
        /\ \A u \in Writers : v > saving[u]
        /\ tmp' = f
        /\ content' = [content EXCEPT ![f] = Torn]
        /\ open' = [open EXCEPT ![w] = f]
        /\ saving' = [saving EXCEPT ![w] = v]
        /\ pc' = [pc EXCEPT ![w] = "write"]
        /\ alone' = (alone /\ Resting)
        /\ UNCHANGED <<db, seen, saved>>

\* The write goes to the open file. Over another writer's bytes a shorter text
\* leaves the tail of theirs.
WriteTmp(w) ==
    /\ pc[w] = "write"
    /\ \E c \in {saving[w]} \cup (IF content[open[w]] = Torn THEN {} ELSE {Torn}) :
          content' = [content EXCEPT ![open[w]] = c]
    /\ open' = [open EXCEPT ![w] = NoFile]
    /\ pc' = [pc EXCEPT ![w] = "rename"]
    /\ UNCHANGED <<db, tmp, saving, seen, saved, alone>>

RenameForgotten(w) ==
    /\ pc[w] = "rename"
    /\ tmp # NoFile
    /\ saved' = saving[w]
    /\ pc' = [pc EXCEPT ![w] = "idle"]
    /\ UNCHANGED <<db, tmp, content, open, saving, seen, alone>>

RenameUnchecked(w) ==
    /\ pc[w] = "rename"
    /\ db' = tmp
    /\ tmp' = NoFile
    /\ saved' = saving[w]
    /\ pc' = [pc EXCEPT ![w] = "idle"]
    /\ UNCHANGED <<content, open, saving, seen, alone>>

Rename(w) ==
    /\ pc[w] = "rename"
    /\ tmp # NoFile
    /\ db' = tmp
    /\ tmp' = NoFile
    /\ saved' = saving[w]
    /\ pc' = [pc EXCEPT ![w] = "idle"]
    /\ UNCHANGED <<content, open, saving, seen, alone>>

\* Another writer renamed the tmp file first: "replace register" fails.
RenameFails(w) ==
    /\ pc[w] = "rename"
    /\ tmp = NoFile
    /\ pc' = [pc EXCEPT ![w] = "idle"]
    /\ UNCHANGED <<db, tmp, content, open, saving, seen, saved, alone>>

Crash(w) ==
    /\ pc[w] \in {"write", "rename"}
    /\ open' = [open EXCEPT ![w] = NoFile]
    /\ pc' = [pc EXCEPT ![w] = "idle"]
    /\ UNCHANGED <<db, tmp, content, saving, seen, saved, alone>>

\* os.ReadFile: open, then read.
OpenDB(r) ==
    /\ pc[r] = "idle"
    /\ open' = [open EXCEPT ![r] = db]
    /\ pc' = [pc EXCEPT ![r] = "read"]
    /\ UNCHANGED <<db, tmp, content, saving, seen, saved, alone>>

ReadDB(r) ==
    /\ pc[r] = "read"
    /\ seen' = [seen EXCEPT ![r] = content[open[r]]]
    /\ open' = [open EXCEPT ![r] = NoFile]
    /\ pc' = [pc EXCEPT ![r] = "idle"]
    /\ UNCHANGED <<db, tmp, content, saving, saved, alone>>

Next == \/ \E w \in Writers :
              OpenTmp(w) \/ WriteTmp(w) \/ Rename(w) \/ RenameFails(w) \/ Crash(w)
        \/ \E r \in Readers : OpenDB(r) \/ ReadDB(r)

Spec == Init /\ [][Next]_vars

----------------------------------------------------------------------------
\* register.json is a whole register at every step, wherever a save is
\* interrupted, and so is what anybody reads from it: "an interrupted write
\* cannot leave a deployment with a truncated register" (store.go:181-182). Two
\* saves at once share the tmp file, and one may rename it while the other is
\* writing it: it is so as long as no two overlapped.
RegisterWhole ==
    alone => /\ content[db] # Torn
             /\ \A r \in Readers : seen[r] # Torn

\* What a reader has, or will have when it reads what it has open.
Got(r) == IF pc[r] = "read" THEN content[open[r]] ELSE seen[r]

Atomic == INSTANCE AtomicRegister WITH
    Unknown <- Torn,
    held <- IF alone THEN saved ELSE Torn,
    using <- {r \in Readers : alone /\ pc[r] = "read"},
    got <- [r \in Readers |-> IF alone THEN Got(r) ELSE Torn]

\* As long as no two saves overlapped, register.json is one register that each Save
\* replaces in a single step, whatever was stopped: a version whose Save returned is
\* never taken back, and whoever opens the file then reads that version, though it be
\* replaced before it is read (store.go:180-182).
SavesAreAtomic == Atomic!Spec
=============================================================================
