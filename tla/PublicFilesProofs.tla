------------------------- MODULE PublicFilesProofs -------------------------
(***************************************************************************)
(* The theorems about RegisterFile and PublicFiles, for any writers,       *)
(* readers, files, versions, public files and clients.                     *)
(***************************************************************************)
EXTENDS PublicFiles, TLAPS

LEMMA Assumptions ==
    /\ NoFile \notin Files /\ Torn \notin Nat /\ Torn \notin Versions
    /\ MaxVersion \in Nat /\ Writers \cap Readers = {}
    /\ Versions \subseteq Nat /\ 0 \in Versions
  BY FilesAssumption, TornAssumption, VersionAssumption, ProcsAssumption DEF Versions

----------------------------------------------------------------------------
\* The register file.

LEMMA TypeInit == Init => TypeOK
  BY Assumptions DEF Init, TypeOK, Procs

LEMMA TypeStep == TypeOK /\ [Next]_vars => TypeOK'
<1> SUFFICES ASSUME TypeOK, [Next]_vars PROVE TypeOK'
    OBVIOUS
<1> USE Assumptions
<1>1. ASSUME NEW w \in Writers, OpenTmp(w) PROVE TypeOK'
    BY <1>1 DEF OpenTmp, TypeOK, Procs, Unused
<1>2. ASSUME NEW w \in Writers, WriteTmp(w) PROVE TypeOK'
    BY <1>2 DEF WriteTmp, TypeOK, Procs
<1>3. ASSUME NEW w \in Writers, Rename(w) PROVE TypeOK'
    BY <1>3 DEF Rename, TypeOK, Procs
<1>4. ASSUME NEW w \in Writers, RenameFails(w) PROVE TypeOK'
    BY <1>4 DEF RenameFails, TypeOK, Procs
<1>5. ASSUME NEW w \in Writers, Crash(w) PROVE TypeOK'
    BY <1>5 DEF Crash, TypeOK, Procs
<1>6. ASSUME NEW r \in Readers, OpenDB(r) PROVE TypeOK'
    BY <1>6 DEF OpenDB, TypeOK, Procs
<1>7. ASSUME NEW r \in Readers, ReadDB(r) PROVE TypeOK'
    BY <1>7 DEF ReadDB, TypeOK, Procs
<1>8. CASE UNCHANGED vars
    BY <1>8 DEF vars, TypeOK
<1> QED
    BY <1>1, <1>2, <1>3, <1>4, <1>5, <1>6, <1>7, <1>8 DEF Next

\* As long as no two saves overlapped: one writer at a time; it writes to the tmp file,
\* which nobody reads and which holds all or nothing of what it saves; register.json
\* holds the last save, and what a reader has open is a version of it.
OneSaves == \A u, w \in Writers : pc[u] # "idle" /\ pc[w] # "idle" => u = w
TmpIsOurs ==
    \A w \in Writers : /\ pc[w] = "write" => tmp = open[w] /\ content[tmp] = Torn
                       /\ pc[w] = "rename" => tmp # NoFile /\ content[tmp] = saving[w]
DBIsSaved == content[db] = saved
ReadersKeep ==
    \A r \in Readers : pc[r] = "read" => open[r] # tmp /\ content[open[r]] # Torn

Separate ==
    /\ tmp # db
    /\ \A w \in Writers : pc[w] # "read"
    /\ \A r \in Readers : pc[r] \in {"idle", "read"}
    /\ alone => /\ OneSaves /\ TmpIsOurs /\ DBIsSaved /\ ReadersKeep
                /\ \A r \in Readers : seen[r] # Torn

LEMMA SeparateInit == Init => Separate
  BY Assumptions
     DEF Init, Separate, OneSaves, TmpIsOurs, DBIsSaved, ReadersKeep, Procs, Versions

LEMMA SeparateStep == TypeOK /\ Separate /\ [Next]_vars => Separate'
<1> SUFFICES ASSUME TypeOK, Separate, [Next]_vars PROVE Separate'
    OBVIOUS
<1> USE Assumptions
<1>1. ASSUME NEW w \in Writers, OpenTmp(w) PROVE Separate'
  <2>1. PICK f \in Files, v \in Versions :
           /\ pc[w] = "idle"
           /\ IF tmp = NoFile THEN Unused(f) ELSE f = tmp
           /\ tmp' = f
           /\ content' = [content EXCEPT ![f] = Torn]
           /\ open' = [open EXCEPT ![w] = f]
           /\ saving' = [saving EXCEPT ![w] = v]
           /\ pc' = [pc EXCEPT ![w] = "write"]
           /\ alone' = (alone /\ Resting)
           /\ UNCHANGED <<db, seen, saved>>
      BY <1>1 DEF OpenTmp
  <2>2. f # db
      BY <2>1 DEF Separate, Unused
  <2>3. w \in Procs /\ w \notin Readers /\ \A p \in Procs \ {w} : pc'[p] = pc[p] /\ open'[p] = open[p]
      BY <2>1 DEF TypeOK, Procs
  <2>4. pc'[w] = "write" /\ open'[w] = f /\ content'[f] = Torn /\ content'[db] = content[db]
      BY <2>1, <2>2, <2>3 DEF TypeOK
  <2>5. alone' => alone /\ \A u \in Writers : pc[u] = "idle"
      BY <2>1 DEF Resting
  <2>6. alone' => OneSaves' /\ TmpIsOurs'
      BY <2>1, <2>3, <2>4, <2>5 DEF OneSaves, TmpIsOurs, Procs
  <2>7. alone' => DBIsSaved'
      BY <2>1, <2>4, <2>5 DEF Separate, DBIsSaved
  <2>8. ASSUME alone', NEW r \in Readers, pc'[r] = "read"
        PROVE  open'[r] # tmp' /\ content'[open'[r]] # Torn
    <3>1. r \in Procs /\ r # w /\ pc[r] = "read" /\ open'[r] = open[r] /\ open[r] \in Files
        BY <2>3, <2>8 DEF Procs, TypeOK
    <3>2. open[r] # tmp /\ content[open[r]] # Torn
        BY <2>5, <2>8, <3>1 DEF Separate, ReadersKeep
    <3>3. open[r] # f
        BY <2>1, <3>1, <3>2 DEF Unused
    <3> QED
        BY <2>1, <3>1, <3>2, <3>3 DEF TypeOK
  <2>9. alone' => ReadersKeep'
      BY <2>8 DEF ReadersKeep
  <2>10. /\ tmp' # db'
         /\ \A u \in Writers : pc'[u] # "read"
         /\ \A r \in Readers : pc'[r] \in {"idle", "read"}
         /\ alone' => \A r \in Readers : seen'[r] # Torn
      BY <2>1, <2>2, <2>3, <2>4, <2>5 DEF Separate, Procs
  <2> QED
      BY <2>6, <2>7, <2>9, <2>10 DEF Separate
<1>2. ASSUME NEW w \in Writers, WriteTmp(w) PROVE Separate'
  <2>1. /\ pc[w] = "write" /\ open[w] \in Files /\ w \in Procs /\ w \notin Readers
        /\ pc' = [pc EXCEPT ![w] = "rename"] /\ open' = [open EXCEPT ![w] = NoFile]
        /\ UNCHANGED <<db, tmp, saving, seen, saved, alone>>
      BY <1>2 DEF WriteTmp, TypeOK, Procs
  <2>2. \E c \in {saving[w]} \cup (IF content[open[w]] = Torn THEN {} ELSE {Torn}) :
           content' = [content EXCEPT ![open[w]] = c]
      BY <1>2 DEF WriteTmp
  <2>3. CASE alone
    <3>1. tmp = open[w] /\ content[tmp] = Torn /\ tmp # db
        BY <2>1, <2>3 DEF Separate, TmpIsOurs
    <3>2. content' = [content EXCEPT ![tmp] = saving[w]]
        BY <2>2, <3>1
    <3>3. content'[tmp] = saving[w] /\ \A f \in Files \ {tmp} : content'[f] = content[f]
        BY <2>1, <3>1, <3>2 DEF TypeOK
    <3>4. OneSaves' /\ DBIsSaved'
        BY <2>1, <2>3, <3>1, <3>3 DEF Separate, OneSaves, DBIsSaved, TypeOK
    <3>5. TmpIsOurs'
        BY <2>1, <2>3, <3>1, <3>3 DEF Separate, OneSaves, TmpIsOurs, TypeOK
    <3>6. ReadersKeep'
        BY <2>1, <2>3, <3>3 DEF Separate, ReadersKeep, TypeOK, Procs
    <3> QED
        BY <2>1, <3>1, <3>4, <3>5, <3>6 DEF Separate, TypeOK, Procs
  <2>4. CASE ~alone
      BY <2>1, <2>4 DEF Separate, TypeOK, Procs
  <2> QED
      BY <2>3, <2>4
<1>3. ASSUME NEW w \in Writers, Rename(w) PROVE Separate'
  <2>1. /\ pc[w] = "rename" /\ tmp # NoFile /\ db' = tmp /\ tmp' = NoFile
        /\ saved' = saving[w] /\ pc' = [pc EXCEPT ![w] = "idle"]
        /\ UNCHANGED <<content, open, saving, seen, alone>>
        /\ tmp \in Files /\ w \in Procs
      BY <1>3 DEF Rename, TypeOK, Procs
  <2>2. /\ tmp' # db'
        /\ \A u \in Writers : pc'[u] # "read"
        /\ \A r \in Readers : pc'[r] \in {"idle", "read"}
      BY <2>1 DEF Separate, TypeOK, Procs
  <2>3. ASSUME alone PROVE DBIsSaved' /\ OneSaves' /\ TmpIsOurs' /\ ReadersKeep'
    <3>1. DBIsSaved' /\ OneSaves'
        BY <2>1, <2>3 DEF Separate, DBIsSaved, OneSaves, TmpIsOurs, TypeOK, Procs
    <3>2. \A u \in Writers : pc'[u] = "idle"
        BY <2>1, <2>3 DEF Separate, OneSaves, TypeOK, Procs
    <3>3. TmpIsOurs'
        BY <3>2 DEF TmpIsOurs
    <3>4. ReadersKeep'
        BY <2>1, <2>3 DEF Separate, ReadersKeep, TypeOK, Procs
    <3> QED
        BY <3>1, <3>3, <3>4
  <2> QED
      BY <2>1, <2>2, <2>3 DEF Separate
<1>4. ASSUME NEW w \in Writers, RenameFails(w) \/ Crash(w) PROVE Separate'
  <2>1. /\ pc' = [pc EXCEPT ![w] = "idle"] /\ w \in Procs /\ w \notin Readers
        /\ UNCHANGED <<db, tmp, content, saving, seen, saved, alone>>
        /\ \A p \in Procs \ {w} : open'[p] = open[p] /\ pc'[p] = pc[p]
        /\ pc'[w] = "idle"
      BY <1>4 DEF RenameFails, Crash, TypeOK, Procs
  <2>2. alone => OneSaves' /\ TmpIsOurs'
      BY <2>1 DEF Separate, OneSaves, TmpIsOurs, Procs
  <2>3. alone => DBIsSaved' /\ ReadersKeep'
      BY <2>1 DEF Separate, DBIsSaved, ReadersKeep, Procs
  <2> QED
      BY <2>1, <2>2, <2>3 DEF Separate, Procs
<1>5. ASSUME NEW r \in Readers, OpenDB(r) PROVE Separate'
  <2>1. /\ pc' = [pc EXCEPT ![r] = "read"] /\ r \in Procs /\ r \notin Writers
        /\ open' = [open EXCEPT ![r] = db]
        /\ UNCHANGED <<db, tmp, content, saving, seen, saved, alone>>
      BY <1>5 DEF OpenDB, TypeOK, Procs
  <2>2. alone => OneSaves' /\ TmpIsOurs' /\ DBIsSaved'
      BY <2>1 DEF Separate, OneSaves, TmpIsOurs, DBIsSaved, TypeOK, Procs
  <2>3. alone => ReadersKeep'
      BY <2>1 DEF Separate, ReadersKeep, DBIsSaved, TypeOK, Procs
  <2> QED
      BY <2>1, <2>2, <2>3 DEF Separate, TypeOK, Procs
<1>6. ASSUME NEW r \in Readers, ReadDB(r) PROVE Separate'
  <2>1. /\ pc[r] = "read" /\ pc' = [pc EXCEPT ![r] = "idle"] /\ r \in Procs /\ r \notin Writers
        /\ open' = [open EXCEPT ![r] = NoFile] /\ seen' = [seen EXCEPT ![r] = content[open[r]]]
        /\ UNCHANGED <<db, tmp, content, saving, saved, alone>>
      BY <1>6 DEF ReadDB, TypeOK, Procs
  <2>2. alone => OneSaves' /\ TmpIsOurs' /\ DBIsSaved'
      BY <2>1 DEF Separate, OneSaves, TmpIsOurs, DBIsSaved, TypeOK, Procs
  <2>3. alone => ReadersKeep'
      BY <2>1 DEF Separate, ReadersKeep, TypeOK, Procs
  <2>4. alone => \A q \in Readers : seen'[q] # Torn
      BY <2>1 DEF Separate, ReadersKeep, TypeOK, Procs
  <2> QED
      BY <2>1, <2>2, <2>3, <2>4 DEF Separate, TypeOK, Procs
<1>7. CASE UNCHANGED vars
    BY <1>7 DEF vars, Separate, OneSaves, TmpIsOurs, DBIsSaved, ReadersKeep
<1> QED
    BY <1>1, <1>2, <1>3, <1>4, <1>5, <1>6, <1>7 DEF Next

\* And what is being saved is newer than what was.
Newer ==
    /\ saved = 0 \/ \E u \in Writers : saved <= saving[u]
    /\ \A w \in Writers : pc[w] # "idle" => saving[w] > saved

LEMMA NewerStep ==
    TypeOK /\ Separate /\ (alone => Newer) /\ [Next]_vars => (alone' => Newer')
<1> SUFFICES ASSUME TypeOK, Separate, alone => Newer, [Next]_vars, alone' PROVE Newer'
    OBVIOUS
<1> USE Assumptions
<1>a. saved \in Nat /\ \A w \in Writers : saving[w] \in Nat /\ w \in Procs
    BY DEF TypeOK, Procs
<1>1. ASSUME NEW w \in Writers, OpenTmp(w) PROVE Newer'
  <2>1. PICK v \in Versions :
           /\ \A u \in Writers : v > saving[u]
           /\ saving' = [saving EXCEPT ![w] = v]
           /\ pc' = [pc EXCEPT ![w] = "write"]
           /\ alone' = (alone /\ Resting)
           /\ saved' = saved
      BY <1>1 DEF OpenTmp
  <2>2. Newer /\ \A u \in Writers : pc[u] = "idle"
      BY <2>1 DEF Resting
  <2>3. v \in Nat /\ v > saved
      BY <2>1, <2>2, <1>a DEF Newer
  <2>4. saving'[w] = v /\ \A u \in Writers \ {w} : saving'[u] = saving[u] /\ pc'[u] = pc[u]
      BY <2>1 DEF TypeOK, Procs
  <2> QED
      BY <2>1, <2>2, <2>3, <2>4, <1>a DEF Newer
<1>2. ASSUME NEW w \in Writers, Rename(w) PROVE Newer'
  <2>1. /\ pc[w] = "rename" /\ saved' = saving[w] /\ pc' = [pc EXCEPT ![w] = "idle"]
        /\ UNCHANGED <<saving, alone>>
      BY <1>2 DEF Rename
  <2>2. \A u \in Writers : pc'[u] = "idle"
      BY <2>1 DEF Separate, OneSaves, TypeOK, Procs
  <2> QED
      BY <2>1, <2>2, <1>a DEF Newer
<1>3. ASSUME UNCHANGED <<saving, saved, alone>>,
             \A u \in Writers : pc'[u] # "idle" => pc[u] # "idle"
      PROVE  Newer'
    BY <1>3 DEF Newer
<1>4. ASSUME NEW w \in Writers, WriteTmp(w) \/ RenameFails(w) \/ Crash(w) PROVE Newer'
    BY <1>3, <1>4 DEF WriteTmp, RenameFails, Crash, TypeOK, Procs
<1>5. ASSUME NEW r \in Readers, OpenDB(r) \/ ReadDB(r) PROVE Newer'
    BY <1>3, <1>5 DEF OpenDB, ReadDB, TypeOK, Procs
<1>6. CASE UNCHANGED vars
    BY <1>3, <1>6 DEF vars
<1> QED
    BY <1>1, <1>2, <1>4, <1>5, <1>6 DEF Next

----------------------------------------------------------------------------
\* The refinement: until two saves overlap, Rename is the step Save of AtomicRegister,
\* and OpenDB and ReadDB are its Open and Close.

\* What AtomicRegister sees of the register file.
Views == [r \in Readers |-> IF alone THEN Got(r) ELSE Torn]
InUse == {r \in Readers : alone /\ pc[r] = "read"}

\* A writer at work on a file that is neither register.json nor open for reading.
LEMMA WritesUnseen ==
    ASSUME TypeOK, Separate, alone, alone', NEW f, f # db,
           \A r \in Readers : pc[r] = "read" => open[r] # f,
           \A g \in Files \ {f} : content'[g] = content[g],
           \A r \in Readers : pc'[r] = pc[r] /\ open'[r] = open[r],
           UNCHANGED <<seen, saved>>
    PROVE  UNCHANGED Atomic!vars
<1>1. \A r \in Readers : Got(r)' = Got(r)
    BY DEF Got, TypeOK, Procs
<1>2. Views' = Views /\ InUse' = InUse
    BY <1>1 DEF Views, InUse
<1> QED
    BY <1>2 DEF Atomic!vars, Views, InUse

LEMMA AtomicStep ==
    TypeOK /\ Separate /\ (alone => Newer) /\ [Next]_vars => [Atomic!Next]_Atomic!vars
<1> SUFFICES ASSUME TypeOK, Separate, alone => Newer, [Next]_vars
             PROVE  Atomic!Next \/ UNCHANGED Atomic!vars
    OBVIOUS
<1> USE Assumptions
<1>1. CASE ~alone
  <2>1. ~alone'
      BY <1>1 DEF Next, OpenTmp, WriteTmp, Rename, RenameFails, Crash, OpenDB, ReadDB, vars
  <2>2. Views' = Views /\ InUse' = InUse
      BY <1>1, <2>1 DEF Views, InUse
  <2> QED
      BY <1>1, <2>1, <2>2 DEF Atomic!vars, Views, InUse
<1>2. CASE alone /\ ~alone'
  <2>1. Views' = [r \in Readers |-> Torn] /\ InUse' = {}
      BY <1>2 DEF Views, InUse
  <2> QED
      BY <1>2, <2>1 DEF Atomic!Next, Atomic!Overlap, Views, InUse
<1>3. CASE alone /\ alone'
  <2>1. ASSUME NEW w \in Writers, OpenTmp(w) PROVE UNCHANGED Atomic!vars
    <3>1. PICK f \in Files :
             /\ IF tmp = NoFile THEN Unused(f) ELSE f = tmp
             /\ content' = [content EXCEPT ![f] = Torn]
             /\ open' = [open EXCEPT ![w] = f]
             /\ pc' = [pc EXCEPT ![w] = "write"]
             /\ UNCHANGED <<seen, saved>>
        BY <2>1 DEF OpenTmp
    <3>2. f # db /\ \A r \in Readers : pc[r] = "read" => open[r] # f
        BY <1>3, <3>1 DEF Separate, ReadersKeep, Unused, Procs
    <3>3. \A r \in Readers : pc'[r] = pc[r] /\ open'[r] = open[r]
        BY <3>1 DEF TypeOK, Procs
    <3>4. \A g \in Files \ {f} : content'[g] = content[g]
        BY <3>1 DEF TypeOK
    <3> QED
        BY <1>3, <3>1, <3>2, <3>3, <3>4, WritesUnseen
  <2>2. ASSUME NEW w \in Writers, WriteTmp(w) PROVE UNCHANGED Atomic!vars
    <3>1. /\ pc[w] = "write" /\ open[w] = tmp /\ tmp # db
          /\ \A r \in Readers : pc[r] = "read" => open[r] # tmp
        BY <1>3, <2>2 DEF WriteTmp, Separate, TmpIsOurs, ReadersKeep
    <3>2. \A g \in Files \ {tmp} : content'[g] = content[g]
        BY <2>2, <3>1 DEF WriteTmp, TypeOK
    <3>3. /\ UNCHANGED <<seen, saved>>
          /\ \A r \in Readers : pc'[r] = pc[r] /\ open'[r] = open[r]
        BY <2>2 DEF WriteTmp, TypeOK, Procs
    <3> QED
        BY <1>3, <3>1, <3>2, <3>3, WritesUnseen
  <2>3. ASSUME NEW w \in Writers, Rename(w) PROVE Atomic!Save
    <3>1. /\ pc[w] = "rename" /\ saved' = saving[w] /\ pc' = [pc EXCEPT ![w] = "idle"]
          /\ UNCHANGED <<content, open, seen>>
        BY <2>3 DEF Rename
    <3>2. saved' > saved /\ saved' \in Nat /\ saved # Torn
        BY <1>3, <3>1 DEF Newer, TypeOK
    <3>3. \A r \in Readers : Got(r)' = Got(r) /\ pc'[r] = pc[r]
        BY <3>1 DEF Got, TypeOK, Procs
    <3>4. Views' = Views /\ InUse' = InUse
        BY <1>3, <3>3 DEF Views, InUse
    <3> QED
        BY <1>3, <3>2, <3>4 DEF Atomic!Save, Views, InUse
  <2>4. ASSUME NEW w \in Writers, RenameFails(w) \/ Crash(w) PROVE UNCHANGED Atomic!vars
    <3>1. /\ UNCHANGED <<content, seen, saved>>
          /\ \A r \in Readers : pc'[r] = pc[r] /\ open'[r] = open[r]
        BY <2>4 DEF RenameFails, Crash, TypeOK, Procs
    <3>2. \A r \in Readers : Got(r)' = Got(r)
        BY <3>1 DEF Got
    <3>3. Views' = Views /\ InUse' = InUse
        BY <1>3, <3>1, <3>2 DEF Views, InUse
    <3> QED
        BY <1>3, <3>1, <3>3 DEF Atomic!vars, Views, InUse
  <2>5. ASSUME NEW r \in Readers, OpenDB(r) PROVE Atomic!Open(r)
    <3>1. /\ pc[r] = "idle" /\ pc' = [pc EXCEPT ![r] = "read"]
          /\ open' = [open EXCEPT ![r] = db] /\ UNCHANGED <<content, seen, saved>>
        BY <2>5 DEF OpenDB
    <3>2. Got(r)' = saved /\ \A q \in Readers \ {r} : Got(q)' = Got(q) /\ pc'[q] = pc[q]
        BY <1>3, <3>1 DEF Got, Separate, DBIsSaved, TypeOK, Procs
    <3>3. Views' = [Views EXCEPT ![r] = saved]
        BY <1>3, <3>2 DEF Views
    <3>4. r \notin InUse /\ InUse' = InUse \cup {r}
        BY <1>3, <3>1, <3>2 DEF InUse, TypeOK, Procs
    <3> QED
        BY <1>3, <3>1, <3>3, <3>4 DEF Atomic!Open, Views, InUse
  <2>6. ASSUME NEW r \in Readers, ReadDB(r) PROVE Atomic!Close(r)
    <3>1. /\ pc[r] = "read" /\ pc' = [pc EXCEPT ![r] = "idle"]
          /\ open' = [open EXCEPT ![r] = NoFile]
          /\ seen' = [seen EXCEPT ![r] = content[open[r]]] /\ UNCHANGED <<content, saved>>
        BY <2>6 DEF ReadDB
    <3>2. \A q \in Readers : Got(q)' = Got(q) /\ (q # r => pc'[q] = pc[q])
        BY <3>1 DEF Got, TypeOK, Procs
    <3>3. Views' = Views
        BY <1>3, <3>2 DEF Views
    <3>4. r \in InUse /\ InUse' = InUse \ {r}
        BY <1>3, <3>1, <3>2 DEF InUse, TypeOK, Procs
    <3> QED
        BY <1>3, <3>1, <3>3, <3>4 DEF Atomic!Close, Views, InUse
  <2>7. CASE UNCHANGED vars
    <3>1. Views' = Views /\ InUse' = InUse
        BY <2>7 DEF vars, Views, InUse, Got
    <3> QED
        BY <2>7, <3>1 DEF vars, Atomic!vars, Views, InUse
  <2> QED
      BY <2>1, <2>2, <2>3, <2>4, <2>5, <2>6, <2>7 DEF Next, Atomic!Next
<1> QED
    BY <1>1, <1>2, <1>3 DEF TypeOK

LEMMA SeparateIsWhole == TypeOK /\ Separate => RegisterWhole
  BY Assumptions DEF TypeOK, Separate, DBIsSaved, RegisterWhole

----------------------------------------------------------------------------
\* The public files and the server. Every step of theirs is one of RegisterFile or leaves
\* the register file alone.
LEMMA Lifts == [PublicNext]_allVars => [Next]_vars
  BY DEF PublicNext, allVars, Next, StartCommand, StartPublish, SaveThenPublish,
         ReadThenPublish, Saving, Truncate, Fill, Stop, Get, Procs

LEMMA OutputsFacts ==
    /\ Len(Outputs) \in Nat /\ Len(Outputs) > 0 /\ DOMAIN Outputs = 1..Len(Outputs)
    /\ \A i \in DOMAIN Outputs : Outputs[i] \in Names
    /\ \A n \in Names : \E i \in DOMAIN Outputs : n = Outputs[i]
    /\ \A i, j \in DOMAIN Outputs : Outputs[i] = Outputs[j] => i = j
  BY OutputsAssumption DEF Names

\* The step a process is at belongs to one of the files.
LEMMA AtOutput ==
    ASSUME PublicTypeOK, NEW p \in Procs, stage[p] # 0
    PROVE  /\ stage[p] \in 1..2 * Len(Outputs)
           /\ (stage[p] + 1) \div 2 \in DOMAIN Outputs
           /\ Output(p) \in Names
<1>1. stage[p] \in 1..2 * Len(Outputs)
    BY OutputsFacts DEF PublicTypeOK
<1>2. (stage[p] + 1) \div 2 \in 1..Len(Outputs)
    BY <1>1, OutputsFacts
<1> QED
    BY <1>1, <1>2, OutputsFacts DEF Output

LEMMA BringsType == TypeOK => \A p \in Procs : Brings(p) \in Versions \cup {Torn}
  BY DEF TypeOK, Brings, Procs

LEMMA PublicTypeInit == PublicInit => PublicTypeOK
<1> SUFFICES ASSUME PublicInit PROVE PublicTypeOK
    OBVIOUS
<1>1. TypeOK
    BY TypeInit DEF PublicInit
<1>2. stage \in [Procs -> 0..2 * Len(Outputs)] /\ \A p \in Procs : stage[p] = 0
    BY OutputsFacts DEF PublicInit
<1> QED
    BY <1>1, <1>2, Assumptions DEF PublicInit, PublicTypeOK

LEMMA PublicTypeStep == PublicTypeOK /\ [PublicNext]_allVars => PublicTypeOK'
<1> SUFFICES ASSUME PublicTypeOK, [PublicNext]_allVars PROVE PublicTypeOK'
    OBVIOUS
<1>1. TypeOK /\ TypeOK'
    BY Lifts, TypeStep DEF PublicTypeOK
<1>2. ASSUME NEW p \in Procs, Begins(p), pc[p] = "idle",
             \A q \in Procs \ {p} : pc'[q] = pc[q]
      PROVE  PublicTypeOK'
    BY <1>1, <1>2 DEF Begins, PublicTypeOK
<1>3. ASSUME NEW w \in Writers, StartCommand(w) PROVE PublicTypeOK'
    BY <1>2, <1>3 DEF StartCommand, OpenTmp, TypeOK, PublicTypeOK, Procs
<1>4. ASSUME NEW r \in Readers, StartPublish(r) PROVE PublicTypeOK'
    BY <1>2, <1>4 DEF StartPublish, OpenDB, TypeOK, PublicTypeOK, Procs
<1>5. ASSUME NEW w \in Writers, SaveThenPublish(w) PROVE PublicTypeOK'
    BY <1>1, <1>5, OutputsFacts DEF SaveThenPublish, Rename, PublicTypeOK, TypeOK, Procs
<1>6. ASSUME NEW r \in Readers, ReadThenPublish(r) PROVE PublicTypeOK'
    BY <1>1, <1>6, OutputsFacts DEF ReadThenPublish, ReadDB, PublicTypeOK, TypeOK, Procs
<1>7. ASSUME NEW w \in Writers, Saving(w) PROVE PublicTypeOK'
    BY <1>1, <1>7 DEF Saving, WriteTmp, RenameFails, Crash, PublicTypeOK, TypeOK, Procs
<1>8. ASSUME NEW p \in Procs, Truncate(p) \/ Fill(p) PROVE PublicTypeOK'
  <2>1. stage[p] # 0 /\ Advance(p) /\ UNCHANGED <<vars, reply, current>>
      BY <1>8 DEF Truncate, Fill, PublicTypeOK
  <2>2. stage[p] \in 1..2 * Len(Outputs) /\ Output(p) \in Names
      BY <2>1, AtOutput
  <2>3. stage' \in [Procs -> 0..2 * Len(Outputs)]
    <3>1. (IF stage[p] = 2 * Len(Outputs) THEN 0 ELSE stage[p] + 1) \in 0..2 * Len(Outputs)
        BY <2>2, OutputsFacts
    <3> QED
        BY <2>1, <3>1 DEF Advance, PublicTypeOK
  <2>4. \A q \in Procs : stage'[q] # 0 => pc'[q] = "idle"
      BY <2>1 DEF Advance, PublicTypeOK, vars
  <2>5. settled' \in BOOLEAN /\ solo' \in Procs \cup {Nobody}
      BY <2>1 DEF Advance, PublicTypeOK
  <2>6. public' \in [Names -> Versions \cup {Torn, Missing}]
      BY <1>1, <1>8, <2>2, BringsType DEF Truncate, Fill, PublicTypeOK
  <2> QED
      BY <1>1, <2>1, <2>3, <2>4, <2>5, <2>6 DEF PublicTypeOK
<1>9. ASSUME NEW p \in Procs, Stop(p) PROVE PublicTypeOK'
    BY <1>1, <1>9, OutputsFacts DEF Stop, PublicTypeOK, vars
<1>10. ASSUME NEW c \in Clients, NEW o \in Names, Get(c, o) PROVE PublicTypeOK'
    BY <1>1, <1>10 DEF Get, PublicTypeOK, vars
<1>11. CASE UNCHANGED allVars
    BY <1>1, <1>11 DEF allVars, publicVars, vars, PublicTypeOK
<1> QED
    BY <1>3, <1>4, <1>5, <1>6, <1>7, <1>8, <1>9, <1>10, <1>11 DEF PublicNext

\* Every variable keeps its type: register.json and the files open always exist.
THEOREM TypeCorrect == PublicSpec => []PublicTypeOK
  BY PublicTypeInit, PublicTypeStep, PTL DEF PublicSpec

LEMMA SavesSeparate == PublicSpec => [](PublicTypeOK /\ Separate)
<1>1. PublicInit => Separate
    BY SeparateInit DEF PublicInit
<1>2. PublicTypeOK /\ Separate /\ [PublicNext]_allVars => Separate'
    BY Lifts, SeparateStep DEF PublicTypeOK
<1> QED
    BY <1>1, <1>2, TypeCorrect, PTL DEF PublicSpec

\* As long as no two saves overlapped, register.json is whole at every step and in the
\* hands of whoever read it.
THEOREM RegisterNeverTorn == PublicSpec => []RegisterWhole
<1>1. PublicTypeOK /\ Separate => RegisterWhole
    BY SeparateIsWhole DEF PublicTypeOK
<1> QED
    BY <1>1, SavesSeparate, PTL

\* And it is one register that a save replaces at once, as Deployment takes it to be.
THEOREM SavesActAtomically == PublicSpec => SavesAreAtomic
<1>1. PublicInit => Atomic!Init /\ (alone => Newer)
  <2> SUFFICES ASSUME PublicInit PROVE Atomic!Init /\ Newer
      OBVIOUS
  <2>1. /\ alone = TRUE /\ saved = 0 /\ \A r \in Readers : pc[r] = "idle" /\ seen[r] = 0
        /\ \A w \in Writers : pc[w] = "idle"
      BY DEF PublicInit, Init, Procs
  <2>2. Views = [r \in Readers |-> 0] /\ InUse = {}
      BY <2>1 DEF Views, InUse, Got
  <2> QED
      BY <2>1, <2>2 DEF Atomic!Init, Views, InUse, Newer
<1>2. PublicTypeOK /\ Separate /\ (alone => Newer) /\ [PublicNext]_allVars => (alone' => Newer')
    BY Lifts, NewerStep DEF PublicTypeOK
<1>3. PublicTypeOK /\ Separate /\ (alone => Newer) /\ [PublicNext]_allVars
        => [Atomic!Next]_Atomic!vars
    BY Lifts, AtomicStep DEF PublicTypeOK
<1> QED
    BY <1>1, <1>2, <1>3, SavesSeparate, PTL DEF PublicSpec, SavesAreAtomic, Atomic!Spec

----------------------------------------------------------------------------
\* The public files. A command that runs with no other beside it...
Rests(p) == pc[p] = "idle" /\ stage[p] = 0

\* ...has before it publishes what it is going to bring in its own hands...
Holds(p) ==
    /\ pc[p] = "write" => open[p] # db /\ content[open[p]] = Torn /\ tmp = open[p]
    /\ pc[p] = "rename" => tmp # NoFile /\ tmp # db /\ content[tmp] = saving[p]
    /\ pc[p] = "read" => open[p] = db

\* ...and has then written, of what the register says, the files it has come to.
Written(p) ==
    stage[p] # 0 =>
        /\ content[db] = Brings(p) /\ content[db] # Torn
        /\ \A i \in DOMAIN Outputs : 2 * i < stage[p] => public[Outputs[i]] = content[db]
        /\ stage[p] % 2 = 0 => public[Output(p)] = Torn

Repairs ==
    /\ solo # Nobody =>
           /\ \A q \in Procs \ {solo} : Rests(q)
           /\ Holds(solo) /\ Written(solo)
    /\ settled => solo = Nobody /\ (\A q \in Procs : Rests(q)) /\ PublishRepairs
    /\ \A c \in Clients : current[c] => settled
    /\ ServedIsCurrent

LEMMA RepairsInit == PublicInit => Repairs
<1> SUFFICES ASSUME PublicInit PROVE Repairs
    OBVIOUS
<1> QED
    BY DEF PublicInit, Repairs, ServedIsCurrent

\* While a process is at work, nothing is settled, and no other has the place to itself.
LEMMA AtWork ==
    ASSUME PublicTypeOK, Repairs, NEW p \in Procs, ~Rests(p)
    PROVE  ~settled /\ solo \in {p, Nobody} /\ \A c \in Clients : ~current[c]
  BY DEF Repairs, PublicTypeOK

\* What is left to show of a step that settles nothing.
LEMMA Unsettled ==
    ASSUME NEW p \in Procs, ~settled', \A c \in Clients : ~current'[c],
           solo' \in {p, Nobody},
           solo' = p => /\ \A q \in Procs \ {p} : Rests(q)'
                        /\ Holds(p)' /\ Written(p)'
    PROVE  Repairs'
<1>1. CASE solo' = Nobody
    BY <1>1 DEF Repairs, ServedIsCurrent
<1>2. CASE solo' = p
  <2>1. (\A q \in Procs \ {solo} : Rests(q))'
      BY <1>2 DEF Rests
  <2>2. Holds(solo)' /\ Written(solo)'
      BY <1>2 DEF Holds, Written, Brings, Output
  <2> QED
      BY <2>1, <2>2 DEF Repairs, ServedIsCurrent
<1> QED
    BY <1>1, <1>2

LEMMA RepairsOnStart ==
    ASSUME PublicTypeOK, Separate, Repairs, NEW p \in Procs, pc[p] = "idle", Begins(p),
           \A q \in Procs \ {p} : pc'[q] = pc[q],
           Holds(p)'
    PROVE  Repairs'
<1>1. stage[p] = 0 /\ stage' = stage /\ ~settled' /\ (\A c \in Clients : ~current'[c])
    BY DEF Begins
<1>2. CASE \E q \in Procs : Running(q)
  <2>1. solo' = Nobody /\ Nobody # p
      BY <1>2, NobodyAssumption DEF Begins
  <2> QED
      BY <1>1, <2>1, Unsettled
<1>3. CASE ~\E q \in Procs : Running(q)
  <2>1. solo' = p /\ \A q \in Procs \ {p} : Rests(q)'
      BY <1>1, <1>3 DEF Begins, Running, Rests
  <2>2. Written(p)'
      BY <1>1 DEF Written
  <2> QED
      BY <1>1, <2>1, <2>2, Unsettled
<1> QED
    BY <1>2, <1>3

LEMMA RepairsOnStartCommand ==
    ASSUME PublicTypeOK, Separate, Repairs, NEW w \in Writers, StartCommand(w)
    PROVE  Repairs'
<1>1. w \in Procs /\ pc[w] = "idle" /\ Begins(w) /\ \A q \in Procs \ {w} : pc'[q] = pc[q]
    BY DEF StartCommand, OpenTmp, PublicTypeOK, TypeOK, Procs
<1>2. PICK f \in Files :
         /\ IF tmp = NoFile THEN Unused(f) ELSE f = tmp
         /\ tmp' = f /\ db' = db
         /\ content' = [content EXCEPT ![f] = Torn]
         /\ open' = [open EXCEPT ![w] = f]
         /\ pc' = [pc EXCEPT ![w] = "write"]
    BY DEF StartCommand, OpenTmp
<1>3. f # db
    BY <1>2 DEF Separate, Unused
<1>4. Holds(w)'
    BY <1>1, <1>2, <1>3 DEF Holds, PublicTypeOK, TypeOK
<1> QED
    BY <1>1, <1>4, RepairsOnStart

LEMMA RepairsOnStartPublish ==
    ASSUME PublicTypeOK, Separate, Repairs, NEW r \in Readers, StartPublish(r)
    PROVE  Repairs'
<1>1. r \in Procs /\ pc[r] = "idle" /\ Begins(r) /\ \A q \in Procs \ {r} : pc'[q] = pc[q]
    BY DEF StartPublish, OpenDB, PublicTypeOK, TypeOK, Procs
<1>2. Holds(r)'
    BY <1>1 DEF StartPublish, OpenDB, Holds, PublicTypeOK, TypeOK
<1> QED
    BY <1>1, <1>2, RepairsOnStart

LEMMA RepairsOnSave ==
    ASSUME PublicTypeOK, Separate, Repairs, NEW w \in Writers, SaveThenPublish(w)
    PROVE  Repairs'
<1>1. /\ w \in Procs /\ pc[w] = "rename" /\ db' = tmp /\ content' = content
      /\ saving' = saving /\ solo' = solo /\ settled' = settled /\ current' = current
      /\ pc'[w] = "idle" /\ stage'[w] = 1
      /\ \A q \in Procs \ {w} : pc'[q] = pc[q] /\ stage'[q] = stage[q]
    BY DEF SaveThenPublish, Rename, PublicTypeOK, TypeOK, Procs
<1>2. ~settled' /\ solo' \in {w, Nobody} /\ \A c \in Clients : ~current'[c]
    BY <1>1, AtWork DEF Rests
<1>3. ASSUME solo' = w
      PROVE  (\A q \in Procs \ {w} : Rests(q)') /\ Holds(w)' /\ Written(w)'
  <2>1. (\A q \in Procs \ {w} : Rests(q)) /\ content[tmp] = saving[w]
      BY <1>1, <1>3, NobodyAssumption DEF Repairs, Holds
  <2>2. Holds(w)' /\ \A q \in Procs \ {w} : Rests(q)'
      BY <1>1, <2>1 DEF Holds, Rests
  <2>3. content'[db'] = Brings(w)' /\ content'[db'] # Torn
      BY <1>1, <2>1, Assumptions DEF Brings, PublicTypeOK, TypeOK
  <2>4. \A i \in DOMAIN Outputs : ~(2 * i < 1)
      BY OutputsFacts
  <2> QED
      BY <1>1, <2>2, <2>3, <2>4 DEF Written
<1> QED
    BY <1>1, <1>2, <1>3, Unsettled

LEMMA RepairsOnRead ==
    ASSUME PublicTypeOK, Separate, Repairs, NEW r \in Readers, ReadThenPublish(r)
    PROVE  Repairs'
<1>1. /\ r \in Procs /\ r \notin Writers /\ pc[r] = "read" /\ db' = db /\ content' = content
      /\ seen'[r] = content[open[r]] /\ stage[r] = 0
      /\ solo' = solo /\ settled' = settled /\ current' = current
      /\ pc'[r] = "idle" /\ stage'[r] = IF seen'[r] = Torn THEN 0 ELSE 1
      /\ \A q \in Procs \ {r} : pc'[q] = pc[q] /\ stage'[q] = stage[q]
    BY Assumptions DEF ReadThenPublish, ReadDB, PublicTypeOK, TypeOK, Procs
<1>2. ~settled' /\ solo' \in {r, Nobody} /\ \A c \in Clients : ~current'[c]
    BY <1>1, AtWork DEF Rests
<1>3. ASSUME solo' = r
      PROVE  (\A q \in Procs \ {r} : Rests(q)') /\ Holds(r)' /\ Written(r)'
  <2>1. (\A q \in Procs \ {r} : Rests(q)) /\ open[r] = db
      BY <1>1, <1>3, NobodyAssumption DEF Repairs, Holds
  <2>2. Holds(r)' /\ \A q \in Procs \ {r} : Rests(q)'
      BY <1>1, <2>1 DEF Holds, Rests
  <2>3. content'[db'] = Brings(r)'
      BY <1>1, <2>1 DEF Brings
  <2>4. \A i \in DOMAIN Outputs : ~(2 * i < 1)
      BY OutputsFacts
  <2>5. stage'[r] # 0 => stage'[r] = 1 /\ content'[db'] # Torn
      BY <1>1, <2>1
  <2> QED
      BY <2>2, <2>3, <2>4, <2>5 DEF Written
<1> QED
    BY <1>1, <1>2, <1>3, Unsettled

LEMMA RepairsOnSaving ==
    ASSUME PublicTypeOK, Separate, Repairs, NEW w \in Writers, Saving(w)
    PROVE  Repairs'
<1>1. /\ w \in Procs /\ pc[w] # "idle" /\ stage' = stage
      /\ settled' = settled /\ current' = current
      /\ \A q \in Procs \ {w} : pc'[q] = pc[q]
    BY DEF Saving, WriteTmp, RenameFails, Crash, PublicTypeOK, TypeOK, Procs
<1>2. ~settled' /\ solo \in {w, Nobody} /\ \A c \in Clients : ~current'[c]
    BY <1>1, AtWork DEF Rests
<1>3. CASE solo' = Nobody
  <2>1. solo' # w
      BY <1>1, <1>3, NobodyAssumption
  <2> QED
      BY <1>1, <1>2, <1>3, <2>1, Unsettled
<1>4. ASSUME WriteTmp(w), solo' = w, solo = w
      PROVE  (\A q \in Procs \ {w} : Rests(q)') /\ Holds(w)' /\ Written(w)'
  <2>1. (\A q \in Procs \ {w} : Rests(q)) /\ tmp = open[w] /\ content[tmp] = Torn
      BY <1>1, <1>4, NobodyAssumption DEF Repairs, Holds, WriteTmp
  <2>2. content' = [content EXCEPT ![tmp] = saving[w]]
      BY <1>4, <2>1 DEF WriteTmp
  <2>3. open[w] \in Files /\ stage[w] = 0
      BY <1>1, <1>4 DEF WriteTmp, PublicTypeOK, TypeOK
  <2>4. Holds(w)'
      BY <1>1, <1>4, <2>1, <2>2, <2>3, Assumptions DEF WriteTmp, Holds, Separate, PublicTypeOK, TypeOK
  <2>5. Written(w)' /\ \A q \in Procs \ {w} : Rests(q)'
      BY <1>1, <2>1, <2>3 DEF Written, Rests
  <2> QED
      BY <2>4, <2>5
<1> QED
    BY <1>1, <1>2, <1>3, <1>4, Unsettled DEF Saving

\* The last step of a publication settles, the others go on to the next.
LEMMA RepairsOnTruncate ==
    ASSUME PublicTypeOK, Separate, Repairs, NEW p \in Procs, Truncate(p)
    PROVE  Repairs'
<1>1. stage[p] # 0 /\ stage[p] % 2 = 1 /\ stage[p] \in 1..2 * Len(Outputs) /\ Output(p) \in Names
    BY AtOutput DEF Truncate, PublicTypeOK
<1>2. stage[p] # 2 * Len(Outputs) /\ stage[p] \in Nat
    BY <1>1, OutputsFacts
<1>3. /\ stage'[p] = stage[p] + 1 /\ ~settled' /\ solo' = solo /\ current' = current
      /\ public'[Output(p)] = Torn
      /\ \A o \in Names \ {Output(p)} : public'[o] = public[o]
      /\ UNCHANGED vars
      /\ \A q \in Procs \ {p} : stage'[q] = stage[q]
    BY <1>1, <1>2 DEF Truncate, Advance, PublicTypeOK
<1>4. pc[p] = "idle" /\ solo' \in {p, Nobody} /\ \A c \in Clients : ~current'[c]
    BY <1>1, <1>3, AtWork DEF Rests, PublicTypeOK
<1>5. ASSUME solo' = p
      PROVE  (\A q \in Procs \ {p} : Rests(q)') /\ Holds(p)' /\ Written(p)'
  <2>1. (\A q \in Procs \ {p} : Rests(q)) /\ Written(p)
      BY <1>3, <1>5, NobodyAssumption DEF Repairs
  <2>2. Holds(p)' /\ \A q \in Procs \ {p} : Rests(q)'
      BY <1>3, <1>4, <2>1 DEF Holds, Rests, vars
  <2>3. content'[db'] = Brings(p)' /\ content'[db'] # Torn
      BY <1>1, <1>3, <2>1 DEF Written, Brings, vars
  <2>4. ASSUME NEW i \in DOMAIN Outputs, 2 * i < stage'[p]
        PROVE  public'[Outputs[i]] = content'[db']
    <3>1. 2 * i < stage[p] /\ i # (stage[p] + 1) \div 2
        BY <1>1, <1>2, <1>3, <2>4, OutputsFacts
    <3>2. Outputs[i] # Output(p)
        BY <1>1, <3>1, AtOutput, OutputsFacts DEF Output
    <3> QED
        BY <1>1, <1>3, <2>1, <3>1, <3>2, OutputsFacts DEF Written, vars
  <2>5. Output(p)' = Output(p)
    <3>1. ((stage[p] + 1) + 1) \div 2 = (stage[p] + 1) \div 2
        BY <1>1, <1>2
    <3> QED
        BY <1>3, <3>1 DEF Output
  <2> QED
      BY <1>3, <2>2, <2>3, <2>4, <2>5 DEF Written
<1> QED
    BY <1>3, <1>4, <1>5, Unsettled

LEMMA RepairsOnFill ==
    ASSUME PublicTypeOK, Separate, Repairs, NEW p \in Procs, Fill(p)
    PROVE  Repairs'
<1>1. stage[p] # 0 /\ stage[p] % 2 = 0 /\ stage[p] \in 1..2 * Len(Outputs) /\ Output(p) \in Names
    BY AtOutput DEF Fill
<1>2. PICK c : public' = [public EXCEPT ![Output(p)] = c]
    BY DEF Fill
<1>3. /\ solo \in {p, Nobody} /\ pc[p] = "idle" /\ p # Nobody
      /\ \A d \in Clients : ~current'[d]
      /\ UNCHANGED <<vars, reply>>
      /\ \A q \in Procs \ {p} : stage'[q] = stage[q]
    BY <1>1, AtWork, NobodyAssumption DEF Fill, Advance, Rests, PublicTypeOK
<1>4. ASSUME solo = p
      PROVE  /\ \A q \in Procs \ {p} : Rests(q)'
             /\ content'[db'] = Brings(p)' /\ content'[db'] # Torn
             /\ \A i \in DOMAIN Outputs : 2 * i < stage[p] + 1 => public'[Outputs[i]] = content'[db']
  <2>1. (\A q \in Procs \ {p} : Rests(q)) /\ Written(p)
      BY <1>3, <1>4 DEF Repairs
  <2>2. /\ content[db] = Brings(p) /\ content[db] # Torn /\ public[Output(p)] = Torn
        /\ content' = content /\ db' = db /\ Brings(p)' = Brings(p)
      BY <1>1, <1>3, <2>1 DEF Written, vars, Brings
  <2>3. public' = [public EXCEPT ![Output(p)] = content[db]]
      BY <2>2 DEF Fill
  <2>4. ASSUME NEW i \in DOMAIN Outputs, 2 * i < stage[p] + 1
        PROVE  public'[Outputs[i]] = content[db]
    <3>1. Outputs[i] \in Names /\ Outputs[i] \in DOMAIN public
        BY OutputsFacts DEF PublicTypeOK
    <3>2. CASE Outputs[i] = Output(p)
        BY <2>3, <3>1, <3>2
    <3>3. CASE Outputs[i] # Output(p)
      <4>1. i # (stage[p] + 1) \div 2
          BY <3>3 DEF Output
      <4>2. 2 * i < stage[p]
          BY <1>1, <2>4, <4>1, OutputsFacts
      <4> QED
          BY <1>1, <2>1, <2>3, <3>1, <3>3, <4>2 DEF Written
    <3> QED
        BY <3>2, <3>3
  <2>5. \A q \in Procs \ {p} : Rests(q)'
      BY <1>3, <2>1 DEF Rests, vars
  <2> QED
      BY <2>2, <2>4, <2>5
<1>5. CASE stage[p] = 2 * Len(Outputs)
  <2>1. solo' = Nobody /\ settled' = (solo = p) /\ stage'[p] = 0 /\ pc' = pc
      BY <1>3, <1>5 DEF Fill, Advance, PublicTypeOK, vars
  <2>2. CASE solo # p
      BY <1>3, <2>1, <2>2, Unsettled
  <2>3. CASE solo = p
    <3>1. \A q \in Procs : Rests(q)'
        BY <1>3, <1>4, <2>1, <2>3 DEF Rests
    <3>2. \A i \in DOMAIN Outputs : 2 * i < stage[p] + 1
        BY <1>5, OutputsFacts
    <3>3. PublishRepairs'
        BY <1>4, <2>3, <3>2, OutputsFacts DEF PublishRepairs
    <3> QED
        BY <1>3, <2>1, <2>3, <3>1, <3>3 DEF Repairs, ServedIsCurrent
  <2> QED
      BY <2>2, <2>3
<1>6. CASE stage[p] # 2 * Len(Outputs)
  <2>1. solo' = solo /\ ~settled' /\ stage'[p] = stage[p] + 1
      BY <1>6 DEF Fill, Advance, PublicTypeOK
  <2>2. stage'[p] % 2 # 0
      BY <1>1, <2>1, OutputsFacts
  <2>3. ASSUME solo' = p
        PROVE  (\A q \in Procs \ {p} : Rests(q)') /\ Holds(p)' /\ Written(p)'
      BY <1>3, <1>4, <2>1, <2>2, <2>3 DEF Holds, Written, vars
  <2> QED
      BY <1>3, <2>1, <2>3, Unsettled
<1> QED
    BY <1>5, <1>6

LEMMA RepairsOnStop ==
    ASSUME PublicTypeOK, Separate, Repairs, NEW p \in Procs, Stop(p)
    PROVE  Repairs'
<1>1. ~settled' /\ solo' = Nobody /\ \A c \in Clients : ~current'[c]
    BY AtWork DEF Stop, Rests
<1> QED
    BY <1>1, Unsettled, NobodyAssumption

LEMMA RepairsOnGet ==
    ASSUME PublicTypeOK, Separate, Repairs, NEW c \in Clients, NEW o \in Names, Get(c, o)
    PROVE  Repairs'
<1>1. /\ UNCHANGED <<vars, public, stage, solo, settled>>
      /\ reply' = [reply EXCEPT ![c] = public[o]] /\ current' = [current EXCEPT ![c] = settled]
    BY DEF Get
<1>2. settled => public[o] = content[db]
    BY DEF Repairs, PublishRepairs
<1>3. ServedIsCurrent' /\ \A k \in Clients : current'[k] => settled'
    BY <1>1, <1>2 DEF Repairs, ServedIsCurrent, PublicTypeOK, vars
<1>4. solo' # Nobody => /\ (\A q \in Procs \ {solo} : Rests(q))'
                        /\ Holds(solo)' /\ Written(solo)'
    BY <1>1 DEF Repairs, Rests, Holds, Written, Brings, Output, vars
<1>5. settled' => solo' = Nobody /\ (\A q \in Procs : Rests(q))' /\ PublishRepairs'
    BY <1>1 DEF Repairs, Rests, PublishRepairs, vars
<1> QED
    BY <1>3, <1>4, <1>5 DEF Repairs

LEMMA RepairsStep == PublicTypeOK /\ Separate /\ Repairs /\ [PublicNext]_allVars => Repairs'
<1> SUFFICES ASSUME PublicTypeOK, Separate, Repairs, [PublicNext]_allVars PROVE Repairs'
    OBVIOUS
<1>1. CASE UNCHANGED allVars
    BY <1>1 DEF allVars, publicVars, vars, Repairs, Rests, Holds, Written, Brings, Output,
                PublishRepairs, ServedIsCurrent
<1>2. CASE PublicNext
    BY <1>2, RepairsOnStartCommand, RepairsOnStartPublish, RepairsOnSave, RepairsOnRead,
       RepairsOnSaving, RepairsOnTruncate, RepairsOnFill, RepairsOnStop, RepairsOnGet
       DEF PublicNext
<1> QED
    BY <1>1, <1>2

LEMMA RunsRepair == PublicSpec => []Repairs
  BY SavesSeparate, RepairsInit, RepairsStep, PTL DEF PublicSpec

\* One command or scheduled publish that runs to its end with no other beside it leaves
\* every public file whole and as register.json says, whatever was stopped or torn before.
THEOREM OneRunRepairs == PublicSpec => []PublishRepairs
<1>1. Repairs => PublishRepairs
    BY DEF Repairs, PublishRepairs
<1> QED
    BY <1>1, RunsRepair, PTL

\* And whoever asks the server after it, and before another starts, gets that.
THEOREM AnswersAreCurrent == PublicSpec => []ServedIsCurrent
<1>1. Repairs => ServedIsCurrent
    BY DEF Repairs
<1> QED
    BY <1>1, RunsRepair, PTL
=============================================================================
