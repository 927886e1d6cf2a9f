---------------------------- MODULE PublicFiles ----------------------------
(***************************************************************************)
(* The public files and the server. A command that has saved the register, *)
(* and a scheduled publish that has read it, writes the public files one   *)
(* after the other, each in place: os.WriteFile truncates the file and     *)
(* then writes it, while the server may be reading it for a request. The   *)
(* register file itself is RegisterFile's; a command stops anywhere.       *)
(***************************************************************************)
EXTENDS RegisterFile, Sequences

CONSTANTS
    Outputs,   \* the public files, in the order publish writes them
    Clients,   \* of the server
    Missing,   \* no such file
    Nobody

ASSUME MissingAssumption == Missing \notin Nat /\ Missing # Torn
ASSUME NobodyAssumption == Nobody \notin Procs

Names == {Outputs[i] : i \in DOMAIN Outputs}

ASSUME OutputsAssumption ==
    /\ Outputs \in Seq(Names) /\ Len(Outputs) > 0
    /\ \A i, j \in DOMAIN Outputs : Outputs[i] = Outputs[j] => i = j

VARIABLES
    public,   \* what each public file holds: a version, Torn or Missing
    stage,    \* 0, or the step of its publication each process is at
    reply,    \* what each client got last
    solo,     \* the command that runs with no other beside it so far (history)
    settled,  \* such a command was the last to run, to its end (history)
    current   \* it was so when each client got its reply, and still is (history)

publicVars == <<public, stage, reply, solo, settled, current>>
allVars == <<vars, publicVars>>

PublicTypeOK ==
    /\ TypeOK
    /\ public \in [Names -> Versions \cup {Torn, Missing}]
    /\ stage \in [Procs -> 0..2 * Len(Outputs)]
    /\ \A p \in Procs : stage[p] # 0 => pc[p] = "idle"
    /\ reply \in [Clients -> Versions \cup {Torn, Missing}]
    /\ solo \in Procs \cup {Nobody}
    /\ settled \in BOOLEAN
    /\ current \in [Clients -> BOOLEAN]

\* `init` has published, or was stopped before it did.
PublicInit ==
    /\ Init
    /\ public \in {[o \in Names |-> 0], [o \in Names |-> Missing]}
    /\ stage = [p \in Procs |-> 0]
    /\ reply = [c \in Clients |-> Missing]
    /\ solo = Nobody
    /\ settled = FALSE
    /\ current = [c \in Clients |-> FALSE]

Running(p) == pc[p] # "idle" \/ stage[p] # 0

----------------------------------------------------------------------------
\* Commands. The steps on the register are RegisterFile's.

Begins(p) ==
    /\ stage[p] = 0
    /\ solo' = IF \E q \in Procs : Running(q) THEN Nobody ELSE p
    /\ settled' = FALSE
    /\ current' = [c \in Clients |-> FALSE]
    /\ UNCHANGED <<public, stage, reply>>

StartCommand(w) == OpenTmp(w) /\ Begins(w)
StartPublish(r) == OpenDB(r) /\ Begins(r)

\* After Save comes publish...
SaveThenPublish(w) ==
    /\ Rename(w)
    /\ stage' = [stage EXCEPT ![w] = 1]
    /\ UNCHANGED <<public, reply, solo, settled, current>>

\* ...and after Open, unless the register does not parse.
ReadThenPublish(r) ==
    /\ ReadDB(r)
    /\ stage' = [stage EXCEPT ![r] = IF seen'[r] = Torn THEN 0 ELSE 1]
    /\ UNCHANGED <<public, reply, solo, settled, current>>

Saving(w) ==
    /\ \/ WriteTmp(w) /\ solo' = solo
       \/ RenameFails(w) /\ solo' = Nobody
       \/ Crash(w) /\ solo' = Nobody
    /\ UNCHANGED <<public, stage, reply, settled, current>>

Brings(p) == IF p \in Writers THEN saving[p] ELSE seen[p]

\* Step 2i - 1 truncates the i-th file and step 2i fills it.
Output(p) == Outputs[(stage[p] + 1) \div 2]

Advance(p) ==
    /\ stage' = [stage EXCEPT ![p] = IF @ = 2 * Len(Outputs) THEN 0 ELSE @ + 1]
    /\ settled' = (stage[p] = 2 * Len(Outputs) /\ solo = p)
    /\ solo' = IF stage[p] = 2 * Len(Outputs) THEN Nobody ELSE solo

TruncateUnlessMissing(p) ==
    /\ stage[p] % 2 = 1
    /\ public' = [public EXCEPT ![Output(p)] = IF @ = Missing THEN Torn ELSE @]
    /\ Advance(p)
    /\ UNCHANGED <<vars, reply, current>>

Truncate(p) ==
    /\ stage[p] % 2 = 1
    /\ public' = [public EXCEPT ![Output(p)] = Torn]
    /\ Advance(p)
    /\ UNCHANGED <<vars, reply, current>>

\* Over another command's bytes a shorter text leaves the tail of theirs.
Fill(p) ==
    /\ stage[p] # 0 /\ stage[p] % 2 = 0
    /\ \E c \in {Brings(p)} \cup (IF public[Output(p)] = Torn THEN {} ELSE {Torn}) :
          public' = [public EXCEPT ![Output(p)] = c]
    /\ Advance(p)
    /\ UNCHANGED <<vars, reply, current>>

\* An error return or a kill.
Stop(p) ==
    /\ stage[p] # 0
    /\ stage' = [stage EXCEPT ![p] = 0]
    /\ solo' = Nobody
    /\ UNCHANGED <<vars, public, reply, settled, current>>

----------------------------------------------------------------------------
\* The server.

GetFirst(c, o) ==
    /\ reply' = [reply EXCEPT ![c] = IF @ = Missing THEN public[o] ELSE @]
    /\ current' = [current EXCEPT ![c] = settled]
    /\ UNCHANGED <<vars, public, stage, solo, settled>>

\* The file is read for the request, whatever is in it then; 404 when there is none.
Get(c, o) ==
    /\ reply' = [reply EXCEPT ![c] = public[o]]
    /\ current' = [current EXCEPT ![c] = settled]
    /\ UNCHANGED <<vars, public, stage, solo, settled>>

PublicNext ==
    \/ \E w \in Writers : StartCommand(w) \/ Saving(w) \/ SaveThenPublish(w)
    \/ \E r \in Readers : StartPublish(r) \/ ReadThenPublish(r)
    \/ \E p \in Procs : Truncate(p) \/ Fill(p) \/ Stop(p)
    \/ \E c \in Clients, o \in Names : Get(c, o)

PublicSpec == PublicInit /\ [][PublicNext]_allVars

----------------------------------------------------------------------------
\* Whatever was stopped or torn before, one command that runs to its end with no
\* other beside it puts everything right: each public file is whole and says what
\* register.json says (deploy.go:430-433). A scheduled publish is enough.
PublishRepairs ==
    settled => /\ content[db] # Torn
               /\ \A o \in Names : public[o] = content[db]

\* "A concurrent issue or revoke is visible without restarting the server"
\* (serve.go:82-83): whoever asks after such a command has ended, and before
\* another starts, gets the file whole and as it is on record.
ServedIsCurrent ==
    \A c \in Clients :
        current[c] => reply[c] = content[db]
=============================================================================
