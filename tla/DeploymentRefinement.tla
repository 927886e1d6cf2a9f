------------------------ MODULE DeploymentRefinement ------------------------
(***************************************************************************)
(* One operator at a time beside any publishers, interrupted anywhere: the *)
(* saved register only moves forward, `apply` spares what it should, and   *)
(* what is handed out is on record. And one command at a time, operator or *)
(* schedule: what publish writes is then the saved register itself, and    *)
(* the deployment implements AccessRegistry.                               *)
(***************************************************************************)
EXTENDS DeploymentProofs

(***************************************************************************)
(* One operator at a time.  While a command works, what it holds extends   *)
(* the saved register; from Save on, and in a scheduled publish, the saved *)
(* register extends what it holds.  That is what makes it harmless that    *)
(* Save and publish write a memory read long before.                       *)
(***************************************************************************)
OneOperator == \A p, q \in Operators : p = q

Ahead == \A p \in Procs :
            pc[p] \in {"work", "wrpac", "wrprc", "save"} =>
                p \in Operators /\ Extends(register, mem[p])

Behind == \A p \in Procs :
            pc[p] \in {"idle", "crl", "list", "pub"} => Extends(mem[p], register)

OneInv == Inv /\ Ahead /\ Behind /\ PublishedRecorded

LEMMA InitOneInv == Init => OneInv
<1> SUFFICES ASSUME Init PROVE OneInv
  OBVIOUS
<1>1. Inv
  BY InitInv
<1>2. Ahead /\ Behind
  BY EmptyIsRegister, ExtendsEmpty DEF Init, Ahead, Behind
<1>3. PublishedRecorded
  BY EmptyIsRegister DEF Init, PublishedRecorded
<1> QED BY <1>1, <1>2, <1>3 DEF OneInv

\* A step that leaves register and publications alone, and changes no more than
\* the memory and the place of p, keeps OneInv if it is right about p.
LEMMA LocalStep ==
    ASSUME OneInv, Inv', NEW p \in Procs, UNCHANGED <<register, crl, list>>,
           \A q \in Procs \ {p} : pc'[q] = pc[q] /\ mem'[q] = mem[q],
           pc'[p] \in {"work", "wrpac", "wrprc", "save"} =>
               p \in Operators /\ Extends(register, mem'[p]),
           pc'[p] \in {"idle", "crl", "list", "pub"} => Extends(mem'[p], register)
    PROVE  OneInv'
<1>1. Ahead'
  BY DEF OneInv, Ahead
<1>2. Behind'
  BY DEF OneInv, Behind
<1>3. PublishedRecorded'
  BY DEF OneInv, PublishedRecorded, Revoked, StatusBits
<1> QED BY <1>1, <1>2, <1>3 DEF OneInv

LEMMA NextOneInv ==
    ASSUME OneOperator
    PROVE  OneInv /\ [Next]_vars => OneInv' /\ [Extends(register, register')]_vars
<1> SUFFICES ASSUME OneInv, [Next]_vars
             PROVE  OneInv' /\ Extends(register, register')
  OBVIOUS
<1> USE DEF files
<1>a. Inv /\ Inv'
  BY NextInv DEF OneInv
<1>b. Extends(register, register)
  BY <1>a, ExtendsReflexive DEF Inv, TypeOK
<1>c. \A p \in Procs : IsRegister(mem[p]) /\ Sound(mem[p])
  BY <1>a DEF Inv, TypeOK, RegistersSound
<1>d. \A p \in Procs : IsRegister(mem'[p])
  BY <1>a DEF Inv, TypeOK
<1>e. IsRegister(register) /\ Sound(register)
  BY <1>a DEF Inv, TypeOK, RegistersSound
<1>1. ASSUME NEW c \in Clients, EditSpec(c) PROVE OneInv' /\ Extends(register, register')
  BY <1>1, <1>a, <1>b DEF EditSpec, OneInv, Ahead, Behind, PublishedRecorded,
                          Revoked, StatusBits
<1>2. ASSUME NEW p \in Operators, StartIssue(p) \/ StartApply(p)
      PROVE  OneInv' /\ Extends(register, register')
  <2>1. p \in Procs /\ pc'[p] = "work" /\ mem'[p] = register
    BY <1>2, <1>a DEF StartIssue, StartApply, Begin, Procs, Inv, TypeOK
  <2>2. /\ UNCHANGED <<register, crl, list>>
        /\ \A q \in Procs \ {p} : pc'[q] = pc[q] /\ mem'[q] = mem[q]
    BY <1>2, <1>a DEF StartIssue, StartApply, Begin, Inv, TypeOK
  <2> QED BY <2>1, <2>2, <1>a, <1>b, LocalStep
<1>3. ASSUME NEW p \in Operators, StartRevoke(p)
      PROVE  OneInv' /\ Extends(register, register')
  <2>1. PICK s \in Live(register) :
          Begin(p, "save", RevokeEntry(register, s), {},
                [NoJob EXCEPT !.cmd = "revoke", !.target = s])
    BY <1>3 DEF StartRevoke
  <2>2. p \in Procs /\ pc'[p] = "save" /\ mem'[p] = RevokeEntry(register, s)
    BY <2>1, <1>a DEF Begin, Procs, Inv, TypeOK
  <2>3. /\ UNCHANGED <<register, crl, list>>
        /\ \A q \in Procs \ {p} : pc'[q] = pc[q] /\ mem'[q] = mem[q]
    BY <2>1, <1>a DEF Begin, Inv, TypeOK
  <2>4. Extends(register, RevokeEntry(register, s))
    BY <1>e, MarkedIsSound DEF RevokeEntry
  <2> QED BY <2>2, <2>3, <2>4, <1>a, <1>b, LocalStep
<1>4. ASSUME NEW p \in Operators, RevokeAgain(p)
      PROVE  OneInv' /\ Extends(register, register')
  BY <1>4, <1>a, <1>b DEF RevokeAgain, OneInv, Ahead, Behind, PublishedRecorded,
                          Revoked, StatusBits
<1>5. ASSUME NEW p \in Procs, StartPublish(p)
      PROVE  OneInv' /\ Extends(register, register')
  <2>1. pc'[p] = "crl" /\ mem'[p] = register
    BY <1>5, <1>a DEF StartPublish, Begin, Inv, TypeOK
  <2>2. /\ UNCHANGED <<register, crl, list>>
        /\ \A q \in Procs \ {p} : pc'[q] = pc[q] /\ mem'[q] = mem[q]
    BY <1>5, <1>a DEF StartPublish, Begin, Inv, TypeOK
  <2> QED BY <2>1, <2>2, <1>a, <1>b, LocalStep
<1>6. ASSUME NEW p \in Operators, Mint(p) \/ RevokeItem(p) \/ DeliverWRPRC(p)
      PROVE  OneInv' /\ Extends(register, register')
  <2>1. p \in Procs /\ Extends(register, mem[p])
    BY <1>6 DEF Procs, OneInv, Ahead, Mint, RevokeItem, DeliverWRPRC
  <2>2. Extends(mem[p], mem'[p])
    <3>1. CASE Mint(p)
      <4>1. PICK i \in Front(todo[p]), s \in Serials \ archive :
              mem' = [mem EXCEPT ![p] = AddEntry(mem[p], s, i.client, i.fp)]
        BY <3>1 DEF Mint
      <4>2. s \in Serials \ DOMAIN mem[p].entries
        BY <2>1, <1>a DEF Inv, Accounted
      <4>3. mem'[p] = AddEntry(mem[p], s, i.client, i.fp)
        BY <4>1, <2>1, <1>a DEF Inv, TypeOK
      <4> QED BY <4>2, <4>3, <2>1, <1>c, AddEntryIsSound
    <3>2. CASE RevokeItem(p)
      <4>1. PICK i \in Front(todo[p]) :
              mem' = [mem EXCEPT ![p] = RevokeEntry(mem[p], i.serial)]
        BY <3>2 DEF RevokeItem
      <4>2. mem'[p] = Marked(mem[p], i.serial, FALSE)
        BY <4>1, <2>1, <1>a DEF Inv, TypeOK, RevokeEntry
      <4> QED BY <4>2, <2>1, <1>c, MarkedIsSound
    <3>3. CASE DeliverWRPRC(p)
      <4>1. mem'[p] = Supersede(mem[p], cur[p].replaces)
        BY <3>3, <2>1, <1>a DEF DeliverWRPRC, Inv, TypeOK
      <4> QED BY <4>1, <2>1, <1>c, SupersedeIsSound
    <3> QED BY <1>6, <3>1, <3>2, <3>3
  <2>3. Extends(register, mem'[p])
    BY <2>1, <2>2, <1>c, <1>d, <1>e, ExtendsTransitive
  <2>4. UNCHANGED <<register, crl, list>>
    BY <1>6 DEF Mint, RevokeItem, DeliverWRPRC
  <2>5. pc'[p] \in {"wrpac", "work", "save"}
    BY <1>6, <2>1, <1>a DEF Mint, RevokeItem, DeliverWRPRC, Inv, TypeOK
  <2>6. \A q \in Procs \ {p} : pc'[q] = pc[q] /\ mem'[q] = mem[q]
    BY <1>6, <1>a DEF Mint, RevokeItem, DeliverWRPRC, Inv, TypeOK
  <2> QED BY <2>1, <2>3, <2>4, <2>5, <2>6, <1>a, <1>b, LocalStep
<1>7. ASSUME NEW p \in Operators, DeliverWRPAC(p)
      PROVE  OneInv' /\ Extends(register, register')
  <2>1. p \in Procs /\ Extends(register, mem[p])
    BY <1>7 DEF Procs, OneInv, Ahead, DeliverWRPAC
  <2>2. pc'[p] = "wrprc" /\ mem' = mem /\ UNCHANGED <<register, crl, list>>
    BY <1>7, <2>1, <1>a DEF DeliverWRPAC, Inv, TypeOK
  <2>3. \A q \in Procs \ {p} : pc'[q] = pc[q]
    BY <1>7, <1>a DEF DeliverWRPAC, Inv, TypeOK
  <2> QED BY <2>1, <2>2, <2>3, <1>a, <1>b, LocalStep
<1>8. ASSUME NEW p \in Operators, Save(p)
      PROVE  OneInv' /\ Extends(register, register')
  <2>1. /\ p \in Procs /\ register' = mem[p] /\ mem' = mem /\ UNCHANGED <<crl,
                                                                          list>>
        /\ pc' = [pc EXCEPT ![p] = "crl"]
    BY <1>8 DEF Save, Procs
  <2>2. Extends(register, register')
    BY <1>8, <2>1 DEF Save, OneInv, Ahead
  <2>3. \A q \in Procs \ {p} : pc[q] \in {"idle", "crl", "list", "pub"}
    BY <1>8, <2>1, <1>a DEF Save, OneInv, Ahead, OneOperator, Inv, TypeOK, Steps
  <2>4. Ahead'
    BY <2>1, <2>3, <1>a DEF Ahead, Inv, TypeOK
  <2>5. Behind'
    <3> SUFFICES ASSUME NEW q \in Procs PROVE Extends(mem[q], register')
      BY <2>1 DEF Behind
    <3>1. CASE q = p
      BY <3>1, <2>1, <1>c, ExtendsReflexive
    <3>2. CASE q # p
      <4>1. Extends(mem[q], register)
        BY <2>3, <3>2 DEF OneInv, Behind
      <4> QED BY <4>1, <2>1, <2>2, <1>c, <1>e, ExtendsTransitive
    <3> QED BY <3>1, <3>2
  <2>6. PublishedRecorded'
    BY <2>1, <2>2, ExtendsKeepsRevoked DEF OneInv, PublishedRecorded, Revoked, StatusBits
  <2> QED BY <2>2, <2>4, <2>5, <2>6, <1>a DEF OneInv
<1>9. ASSUME NEW p \in Procs, PublishCRL(p) \/ PublishList(p)
      PROVE  OneInv' /\ Extends(register, register')
  <2>1. Extends(mem[p], register)
    BY <1>9 DEF PublishCRL, PublishList, OneInv, Behind
  <2>2. mem' = mem /\ register' = register /\ pc'[p] \in {"list", "pub"}
    BY <1>9, <1>a DEF PublishCRL, PublishList, Inv, TypeOK
  <2>3. \A q \in Procs \ {p} : pc'[q] = pc[q]
    BY <1>9, <1>a DEF PublishCRL, PublishList, Inv, TypeOK
  <2>4. Ahead' /\ Behind'
    BY <2>1, <2>2, <2>3 DEF OneInv, Ahead, Behind
  <2>5. crl' \in {crl, Revoked(mem[p])} /\ list'.bits \in {list.bits, StatusBits(mem[p])}
    BY <1>9 DEF PublishCRL, PublishList
  <2>6. PublishedRecorded'
    BY <2>1, <2>2, <2>5, ExtendsKeepsRevoked
       DEF OneInv, PublishedRecorded, Revoked, StatusBits
  <2> QED BY <2>2, <2>4, <2>6, <1>a, <1>b DEF OneInv
<1>10. ASSUME NEW p \in Procs, PublishRegister(p) \/ Abort(p)
       PROVE  OneInv' /\ Extends(register, register')
  <2>1. pc'[p] = "idle" /\ mem'[p] = EmptyRegister
    BY <1>10, <1>a DEF PublishRegister, Abort, Exit, Inv, TypeOK
  <2>2. UNCHANGED <<register, crl, list>>
    BY <1>10 DEF PublishRegister, Abort
  <2>3. \A q \in Procs \ {p} : pc'[q] = pc[q] /\ mem'[q] = mem[q]
    BY <1>10, <1>a DEF PublishRegister, Abort, Exit, Inv, TypeOK
  <2>4. Extends(EmptyRegister, register)
    BY <1>e, ExtendsEmpty
  <2> QED BY <2>1, <2>2, <2>3, <2>4, <1>a, <1>b, LocalStep
<1>11. CASE UNCHANGED vars
  BY <1>11, <1>a, <1>b DEF vars, OneInv, Ahead, Behind, PublishedRecorded,
                           Revoked, StatusBits
<1> QED
  BY <1>1, <1>2, <1>3, <1>4, <1>5, <1>6, <1>7, <1>8, <1>9, <1>10, <1>11
     DEF Next, Operate, Publish

\* One operator, any schedule, interrupted anywhere: the saved register never
\* goes back (store.go:5-8).
THEOREM RegisterOnlyExtends ==
    ASSUME OneOperator PROVE Spec => RegisterExtends
<1>1. OneInv /\ [Next]_vars => OneInv' /\ [Extends(register, register')]_vars
  BY NextOneInv
<1> QED BY <1>1, InitOneInv, PTL DEF Spec, RegisterExtends

\* One operator, any schedule, interrupted anywhere: the CRL and the status list
\* never name a certificate the register does not record as revoked.
THEOREM PublishedIsRecorded ==
    ASSUME OneOperator PROVE Spec => []PublishedRecorded
<1>1. OneInv /\ [Next]_vars => OneInv'
  BY NextOneInv
<1>2. OneInv => PublishedRecorded
  BY DEF OneInv
<1> QED BY <1>1, <1>2, InitOneInv, PTL DEF Spec

\* The revocation of s is on record, on the CRL and in the status list, and every command
\* that is still to write one of the two has it in memory.
Settled(s) ==
    /\ s \in Revoked(register) \cap crl
    /\ register.entries[s].idx \in list.bits
    /\ \A p \in Procs : pc[p] \in {"crl", "list"} => s \in Revoked(mem[p])

LEMMA SettledStays ==
    ASSUME OneOperator, OneInv, NEW s, Settled(s), [Next]_vars
    PROVE  Settled(s)'
<1> USE DEF files
<1>a. TypeOK /\ Behind
  BY DEF OneInv, Inv
<1>b. Extends(register, register')
  BY NextOneInv, ExtendsReflexive, <1>a DEF TypeOK, vars
<1>c. /\ s \in Revoked(register')
      /\ register'.entries[s].idx = register.entries[s].idx
  BY <1>b, ExtendsKeepsRevoked DEF Settled, Extends, Revoked
<1>d. \A p \in Procs : pc[p] \in {"crl", "list"} =>
          s \in Revoked(mem[p]) /\ register.entries[s].idx \in StatusBits(mem[p])
  BY <1>a DEF Settled, Behind, Extends, Revoked, StatusBits
<1>1. s \in crl'
  <2>1. crl' = crl \/ \E p \in Procs : pc[p] = "crl" /\ crl' = Revoked(mem[p])
    BY DEF Next, Operate, Publish, EditSpec, StartIssue, StartApply, StartRevoke, StartPublish,
           Begin, RevokeAgain, Mint, RevokeItem, DeliverWRPAC, DeliverWRPRC, Save, PublishCRL,
           PublishList, PublishRegister, Abort, vars
  <2> QED BY <2>1, <1>d DEF Settled
<1>2. register'.entries[s].idx \in list'.bits
  <2>1. list' = list \/ \E p \in Procs : PublishList(p)
    BY DEF Next, Operate, Publish, EditSpec, StartIssue, StartApply, StartRevoke, StartPublish,
           Begin, RevokeAgain, Mint, RevokeItem, DeliverWRPAC, DeliverWRPRC, Save, PublishCRL,
           PublishRegister, Abort, vars
  <2>2. ASSUME NEW p \in Procs, PublishList(p)
        PROVE  pc[p] = "list" /\ list'.bits = StatusBits(mem[p])
    BY <2>2 DEF PublishList
  <2> QED BY <2>1, <2>2, <1>c, <1>d DEF Settled
<1>3. \A p \in Procs : pc'[p] \in {"crl", "list"} => s \in Revoked(mem'[p])
  <2> DEFINE Has(q) == pc'[q] \in {"crl", "list"} => s \in Revoked(mem'[q])
  <2>1. ASSUME NEW p \in Procs, Has(p),
               \A q \in Procs \ {p} : pc'[q] = pc[q] /\ mem'[q] = mem[q]
        PROVE  \A q \in Procs : Has(q)
    <3>1. \A q \in Procs \ {p} : Has(q)
      BY <2>1 DEF Settled, Revoked
    <3> QED BY <2>1, <3>1
  <2>2. CASE UNCHANGED <<pc, mem>>
    BY <2>2 DEF Settled, Revoked
  <2>3. ASSUME NEW p \in Operators, StartIssue(p) \/ StartApply(p) \/ StartRevoke(p)
                                    \/ Mint(p) \/ RevokeItem(p) \/ DeliverWRPAC(p)
                                    \/ DeliverWRPRC(p)
        PROVE  \A q \in Procs : Has(q)
    <3>1. p \in Procs /\ pc'[p] \in {"work", "save", "wrpac", "wrprc"}
      BY <2>3, <1>a DEF StartIssue, StartApply, StartRevoke, Begin, Mint, RevokeItem,
                        DeliverWRPAC, DeliverWRPRC, Procs, TypeOK
    <3>2. \A q \in Procs \ {p} : pc'[q] = pc[q] /\ mem'[q] = mem[q]
      BY <2>3, <1>a DEF StartIssue, StartApply, StartRevoke, Begin, Mint, RevokeItem,
                        DeliverWRPAC, DeliverWRPRC, TypeOK
    <3> QED BY <2>1, <3>1, <3>2
  <2>4. ASSUME NEW p \in Procs, StartPublish(p) PROVE \A q \in Procs : Has(q)
    <3>1. mem'[p] = register /\ \A q \in Procs \ {p} : pc'[q] = pc[q] /\ mem'[q] = mem[q]
      BY <2>4, <1>a DEF StartPublish, Begin, TypeOK
    <3> QED BY <2>1, <3>1 DEF Settled
  <2>5. ASSUME NEW p \in Operators, Save(p) PROVE \A q \in Procs : Has(q)
    <3>1. /\ p \in Procs /\ mem' = mem /\ register' = mem[p]
          /\ \A q \in Procs \ {p} : pc'[q] = pc[q]
      BY <2>5, <1>a DEF Save, Procs, TypeOK
    <3> QED BY <2>1, <3>1, <1>c
  <2>6. ASSUME NEW p \in Procs, PublishCRL(p) PROVE \A q \in Procs : Has(q)
    <3>1. /\ mem' = mem /\ pc[p] = "crl" /\ \A q \in Procs \ {p} : pc'[q] = pc[q]
      BY <2>6, <1>a DEF PublishCRL, TypeOK
    <3> QED BY <2>1, <3>1 DEF Settled
  <2>7. ASSUME NEW p \in Procs, PublishList(p) \/ PublishRegister(p) \/ Abort(p)
        PROVE  \A q \in Procs : Has(q)
    <3>1. /\ pc'[p] \in {"pub", "idle"}
          /\ \A q \in Procs \ {p} : pc'[q] = pc[q] /\ mem'[q] = mem[q]
      BY <2>7, <1>a DEF PublishList, PublishRegister, Abort, Exit, TypeOK
    <3> QED BY <2>1, <3>1
  <2>8. ASSUME NEW c \in Clients, EditSpec(c) PROVE \A q \in Procs : Has(q)
    BY <2>2, <2>8 DEF EditSpec
  <2>9. ASSUME NEW p \in Operators, RevokeAgain(p) PROVE \A q \in Procs : Has(q)
    BY <2>2, <2>9 DEF RevokeAgain
  <2>10. CASE UNCHANGED vars
    BY <2>2, <2>10 DEF vars
  <2> QED BY <2>3, <2>4, <2>5, <2>6, <2>7, <2>8, <2>9, <2>10 DEF Next, Operate, Publish
<1> QED BY <1>c, <1>1, <1>2, <1>3 DEF Settled

\* One operator, any schedule, interrupted anywhere: once a revocation has settled it stays
\* on the CRL and in the status list for ever, although rounds that read an older register
\* may still be about to write (deploy.go:430-433).
THEOREM SettledForGood ==
    ASSUME OneOperator, NEW s \in Serials
    PROVE  Spec => [](Settled(s) => []Settled(s))
<1>1. OneInv /\ [Next]_vars => OneInv'
  BY NextOneInv
<1>2. OneInv /\ Settled(s) /\ [Next]_vars => Settled(s)'
  BY SettledStays
<1> QED BY <1>1, <1>2, InitOneInv, PTL DEF Spec

----------------------------------------------------------------------------
(***************************************************************************)
(* One operator at a time, and `apply` without --prune.  Nobody else saves *)
(* while it works, so what it spared when it read the register is what it  *)
(* spares when it saves.                                                   *)
(***************************************************************************)
Listed(p, s) == /\ s \in DOMAIN register.entries
                /\ register.entries[s].client # None
                /\ job[p].specs[register.entries[s].client].state # "absent"

\* It has revoked, and is going to revoke or replace, nothing but certificates of clients
\* it has a spec file of.
SparesAt(p) ==
    Working(p) /\ job[p].cmd = "apply" /\ ~job[p].prune =>
        /\ \A s \in Live(register) : s \in Live(mem[p]) \/ Listed(p, s)
        /\ \A i \in todo[p] : i.serial = NoSerial \/ Listed(p, i.serial)
        /\ pc[p] \in {"wrpac", "wrprc"} =>
              cur[p].replaces = NoSerial \/ Listed(p, cur[p].replaces)

Spares == \A p \in Procs : SparesAt(p)

LEMMA SparesLocal ==
    ASSUME Spares, NEW p, UNCHANGED register,
           \A q \in Procs \ {p} : /\ pc'[q] = pc[q] /\ mem'[q] = mem[q] /\ todo'[q] = todo[q]
                                  /\ cur'[q] = cur[q] /\ job'[q] = job[q],
           p \in Procs => SparesAt(p)'
    PROVE  Spares'
<1> SUFFICES ASSUME NEW q \in Procs PROVE SparesAt(q)'
  BY DEF Spares
<1>1. CASE q = p
  BY <1>1
<1>2. CASE q # p
  BY <1>2 DEF Spares, SparesAt, Working, Listed, Live
<1> QED BY <1>1, <1>2

LEMMA NextSpares ==
    ASSUME OneOperator, OneInv, Spares, [Next]_vars
    PROVE  Spares'
<1> USE DEF files
<1>a. TypeOK /\ \A p \in Procs : IsRegister(mem[p]) /\ pc[p] \in Steps
  BY DEF OneInv, Inv, TypeOK
<1>b. IsRegister(register)
  BY <1>a DEF TypeOK
<1>1. ASSUME NEW c \in Clients, EditSpec(c) PROVE Spares'
  BY <1>1 DEF EditSpec, Spares, SparesAt, Working, Listed, Live
<1>2. ASSUME NEW p \in Operators, StartIssue(p) \/ StartRevoke(p) PROVE Spares'
  <2>1. p \in Procs /\ job'[p].cmd # "apply"
    <3>1. p \in Procs /\ p \in DOMAIN job
      BY <1>a DEF Procs, TypeOK
    <3>2. CASE StartIssue(p)
      BY <3>1, <3>2 DEF StartIssue, Begin, NoJob
    <3>3. CASE StartRevoke(p)
      <4>1. PICK s \in Live(register) :
              job' = [job EXCEPT ![p] = [NoJob EXCEPT !.cmd = "revoke", !.target = s]]
        BY <3>3 DEF StartRevoke, Begin
      <4> QED BY <3>1, <4>1 DEF NoJob
    <3> QED BY <1>2, <3>1, <3>2, <3>3
  <2>2. SparesAt(p)'
    BY <2>1 DEF SparesAt
  <2> QED BY <1>2, <1>a, <2>2, SparesLocal DEF StartIssue, StartRevoke, Begin, TypeOK
<1>3. ASSUME NEW p \in Operators, StartApply(p) PROVE Spares'
  <2>1. PICK prune \in BOOLEAN, pick \in Picks(register) :
          Begin(p, "work", register, Plan(register, specs, prune, pick),
                [cmd |-> "apply", specs |-> specs, prune |-> prune,
                 target |-> NoSerial])
    BY <1>3 DEF StartApply
  <2>2. /\ p \in Procs /\ pc'[p] = "work" /\ mem'[p] = register
        /\ todo'[p] = Plan(register, specs, prune, pick)
        /\ job'[p].specs = specs /\ job'[p].prune = prune /\ register' = register
    BY <2>1, <1>a DEF Begin, Procs, TypeOK
  <2>3. ASSUME ~prune, NEW i \in Plan(register, specs, prune, pick)
        PROVE  i.serial = NoSerial \/ Listed(p, i.serial)'
    <3>1. i \in Plan(register, specs, FALSE, pick)
      BY <2>3
    <3> QED BY <3>1, <2>2, <1>b, PlanSpares DEF Listed
  <2>4. SparesAt(p)'
    BY <2>2, <2>3 DEF SparesAt
  <2> QED BY <2>1, <1>a, <2>4, SparesLocal DEF Begin, TypeOK
<1>4. ASSUME NEW p \in Operators, RevokeAgain(p) PROVE Spares'
  BY <1>4 DEF RevokeAgain, Spares, SparesAt, Working, Listed, Live
<1>5. ASSUME NEW p \in Procs, StartPublish(p) PROVE Spares'
  <2>1. SparesAt(p)'
    BY <1>5, <1>a DEF StartPublish, Begin, SparesAt, Working, TypeOK
  <2> QED BY <1>5, <1>a, <2>1, SparesLocal DEF StartPublish, Begin, TypeOK
<1>6. ASSUME NEW p \in Operators, Mint(p) PROVE Spares'
  <2>1. PICK i \in Front(todo[p]), s \in Serials \ archive :
          /\ pc[p] = "work"
          /\ mem' = [mem EXCEPT ![p] = AddEntry(mem[p], s, i.client, i.fp)]
          /\ cur' = [cur EXCEPT ![p] = [serial |-> s, replaces |-> i.serial]]
          /\ todo' = [todo EXCEPT ![p] = todo[p] \ {i}]
          /\ pc' = [pc EXCEPT ![p] = "wrpac"]
          /\ UNCHANGED <<register, job>>
    BY <1>6 DEF Mint
  <2>2. p \in Procs /\ i \in todo[p] /\ s \notin DOMAIN mem[p].entries
    BY <2>1 DEF Procs, Front, OneInv, Inv, Accounted
  <2>3. Live(mem[p]) \subseteq Live(mem'[p])
    BY <2>1, <2>2, <1>a, LiveAfter DEF TypeOK
  <2>4. cur'[p].replaces = i.serial /\ todo'[p] = todo[p] \ {i} /\ pc'[p] = "wrpac"
    BY <2>1, <2>2, <1>a DEF TypeOK
  <2>5. SparesAt(p)'
    BY <2>1, <2>2, <2>3, <2>4 DEF Spares, SparesAt, Working, Listed, Live
  <2> QED BY <2>1, <1>a, <2>5, SparesLocal DEF TypeOK
<1>7. ASSUME NEW p \in Operators, RevokeItem(p) PROVE Spares'
  <2>1. PICK i \in Front(todo[p]) :
          /\ pc[p] = "work"
          /\ mem' = [mem EXCEPT ![p] = RevokeEntry(mem[p], i.serial)]
          /\ todo' = [todo EXCEPT ![p] = todo[p] \ {i}]
          /\ pc' = [pc EXCEPT ![p] = IF todo[p] = {i} THEN "save" ELSE "work"]
          /\ UNCHANGED <<register, cur, job>>
    BY <1>7 DEF RevokeItem
  <2>2. p \in Procs /\ i \in todo[p]
    BY <2>1 DEF Procs, Front
  <2>3. Live(mem[p]) \ {i.serial} \subseteq Live(mem'[p])
    BY <2>1, <2>2, <1>a, LiveAfter DEF RevokeEntry, TypeOK
  <2>4. todo'[p] = todo[p] \ {i} /\ pc'[p] \in {"save", "work"}
    BY <2>1, <2>2, <1>a DEF TypeOK
  <2>5. \A s \in Live(register) : s # NoSerial
    BY <1>b, SerialsAssumption DEF Live, IsRegister
  <2>6. SparesAt(p)'
    <3> SUFFICES ASSUME job[p].cmd = "apply", ~job[p].prune PROVE SparesAt(p)'
      BY <2>1 DEF SparesAt
    <3>1. SparesAt(p) /\ Working(p)
      BY <2>1, <2>2 DEF Spares, Working
    <3>2. \A s \in Live(register) : s \in Live(mem'[p]) \/ Listed(p, s)
      BY <2>2, <2>3, <2>5, <3>1 DEF SparesAt
    <3> QED BY <2>1, <2>4, <3>1, <3>2 DEF SparesAt, Listed, Live
  <2> QED BY <2>1, <1>a, <2>6, SparesLocal DEF TypeOK
<1>8. ASSUME NEW p \in Operators, DeliverWRPAC(p) PROVE Spares'
  <2>1. p \in Procs /\ pc[p] = "wrpac" /\ UNCHANGED <<register, mem, todo, cur, job>>
        /\ pc' = [pc EXCEPT ![p] = "wrprc"]
    BY <1>8 DEF DeliverWRPAC, Procs
  <2>2. SparesAt(p)'
    BY <2>1, <1>a DEF Spares, SparesAt, Working, Listed, Live, TypeOK
  <2> QED BY <2>1, <1>a, <2>2, SparesLocal DEF TypeOK
<1>9. ASSUME NEW p \in Operators, DeliverWRPRC(p) PROVE Spares'
  <2>1. /\ p \in Procs /\ pc[p] = "wrprc" /\ UNCHANGED <<register, todo, job>>
        /\ mem' = [mem EXCEPT ![p] = Supersede(mem[p], cur[p].replaces)]
        /\ cur' = [cur EXCEPT ![p] = NoCert]
        /\ pc' = [pc EXCEPT ![p] = IF todo[p] = {} THEN "save" ELSE "work"]
    BY <1>9 DEF DeliverWRPRC, Procs
  <2>2. Live(mem[p]) \ {cur[p].replaces} \subseteq Live(mem'[p])
    BY <2>1, <1>a, LiveAfter DEF TypeOK
  <2>3. pc'[p] \in {"save", "work"}
    BY <2>1, <1>a DEF TypeOK
  <2>4. \A s \in Live(register) : s # NoSerial
    BY <1>b, SerialsAssumption DEF Live, IsRegister
  <2>5. SparesAt(p)'
    <3> SUFFICES ASSUME job[p].cmd = "apply", ~job[p].prune PROVE SparesAt(p)'
      BY <2>1 DEF SparesAt
    <3>1. SparesAt(p) /\ Working(p)
      BY <2>1 DEF Spares, Working
    <3>2. \A s \in Live(register) : s \in Live(mem'[p]) \/ Listed(p, s)
      BY <2>1, <2>2, <2>4, <3>1 DEF SparesAt
    <3> QED BY <2>1, <2>3, <3>1, <3>2 DEF SparesAt, Listed, Live
  <2> QED BY <2>1, <1>a, <2>5, SparesLocal DEF TypeOK
<1>10. ASSUME NEW p \in Operators, Save(p) PROVE Spares'
  <2>1. p \in Procs /\ pc[p] = "save" /\ pc' = [pc EXCEPT ![p] = "crl"]
    BY <1>10 DEF Save, Procs
  <2>2. \A q \in Procs : ~Working(q)'
    BY <2>1, <1>a DEF Working, OneInv, Ahead, OneOperator, TypeOK
  <2> QED BY <2>2 DEF Spares, SparesAt
<1>11. ASSUME NEW p \in Procs, PublishCRL(p) \/ PublishList(p) PROVE Spares'
  <2>1. /\ UNCHANGED <<register, mem, todo, cur, job>>
        /\ pc'[p] \in {"list", "pub"} /\ \A q \in Procs \ {p} : pc'[q] = pc[q]
    BY <1>11, <1>a DEF PublishCRL, PublishList, TypeOK
  <2>2. SparesAt(p)'
    BY <2>1 DEF SparesAt, Working
  <2> QED BY <2>1, <2>2, SparesLocal
<1>12. ASSUME NEW p \in Procs, PublishRegister(p) \/ Abort(p) PROVE Spares'
  <2>1. pc'[p] = "idle" /\ register' = register
    BY <1>12, <1>a DEF PublishRegister, Abort, Exit, TypeOK
  <2>2. SparesAt(p)'
    BY <2>1 DEF SparesAt, Working
  <2> QED BY <1>12, <1>a, <2>1, <2>2, SparesLocal DEF PublishRegister, Abort, Exit, TypeOK
<1>13. CASE UNCHANGED vars
  BY <1>13 DEF vars, Spares, SparesAt, Working, Listed, Live
<1> QED
  BY <1>1, <1>2, <1>3, <1>4, <1>5, <1>6, <1>7, <1>8, <1>9, <1>10, <1>11, <1>12, <1>13
     DEF Next, Operate, Publish

\* Only Save leaves "save" for "crl", with the register the command has in memory.
LEMMA OnlySave ==
    ASSUME TypeOK, [Next]_vars, NEW p \in Procs, pc[p] = "save", pc'[p] = "crl"
    PROVE  register' = mem[p]
<1> USE DEF TypeOK
<1>1. PICK q \in Procs : \/ q \in Operators /\ Operate(q)
                         \/ Publish(q) \/ Abort(q)
  BY DEF Next, vars, EditSpec, Procs
<1>2. q = p
  BY <1>1 DEF Operate, Publish, StartIssue, StartApply, StartRevoke, StartPublish, Begin,
     RevokeAgain, Mint, RevokeItem, DeliverWRPAC, DeliverWRPRC, Save, PublishCRL,
     PublishList, PublishRegister, Abort, Exit
<1>3. Save(p)
  BY <1>1, <1>2 DEF Operate, Publish, StartIssue, StartApply, StartRevoke, StartPublish, Begin,
     RevokeAgain, Mint, RevokeItem, DeliverWRPAC, DeliverWRPRC, PublishCRL,
     PublishList, PublishRegister, Abort, Exit
<1> QED BY <1>3 DEF Save

\* One operator, any schedule, interrupted anywhere, specs edited at any time: an `apply`
\* without --prune saves a register in which every certificate without a spec file is as
\* valid as before (apply.go:40-42).
THEOREM ApplySparesDeleted ==
    ASSUME OneOperator PROVE Spec => DeletionDoesNotRevoke
<1>1. Init => Spares
  BY DEF Init, Spares, SparesAt, Working
<1>2. OneInv /\ [Next]_vars => OneInv'
  BY NextOneInv
<1>3. ASSUME OneInv, Spares, [Next]_vars, NEW p \in Procs, pc[p] = "save", pc'[p] = "crl",
             job[p].cmd = "apply", ~job[p].prune, NEW s \in Live(register)
      PROVE  \/ s \in Live(register')
             \/ /\ register.entries[s].client # None
                /\ job[p].specs[register.entries[s].client].state # "absent"
  <2>1. register' = mem[p]
    BY <1>3, OnlySave DEF OneInv, Inv
  <2>2. s \in Live(mem[p]) \/ Listed(p, s)
    BY <1>3 DEF Spares, SparesAt, Working
  <2> QED BY <2>1, <2>2 DEF Listed
<1>4. OneInv /\ Spares /\ [Next]_vars =>
        [\A p \in Procs :
            pc[p] = "save" /\ pc'[p] = "crl" /\ job[p].cmd = "apply" /\ ~job[p].prune =>
               \A s \in Live(register) :
                  \/ s \in Live(register')
                  \/ /\ register.entries[s].client # None
                     /\ job[p].specs[register.entries[s].client].state # "absent"]_vars
  BY <1>3
<1> QED BY <1>1, <1>2, <1>4, InitOneInv, NextSpares, PTL DEF Spec, DeletionDoesNotRevoke

----------------------------------------------------------------------------
(***************************************************************************)
(* One operator at a time, and none of the commands stopped so far: what   *)
(* was handed out is what is on record, whatever publishers do beside it.  *)
(***************************************************************************)

\* What was handed out is what r has, but for some certificates.
Slots(r, S) == {[serial |-> s, idx |-> r.entries[s].idx] : s \in S}
HandedOut(r, undelivered, unnamed) ==
    /\ wrpacs = DOMAIN r.entries \ undelivered
    /\ wrprcs = Slots(r, DOMAIN r.entries \ unnamed)

\* It is what the register has, or the memory of the command at work, but for the
\* certificate it is delivering.
HandedBy(p) ==
    HandedOut(mem[p], IF pc[p] = "wrpac" THEN {cur[p].serial} ELSE {},
              IF pc[p] \in {"wrpac", "wrprc"} THEN {cur[p].serial} ELSE {})
Handed ==
    /\ (\A p \in Procs : ~Working(p)) => HandedOut(register, {}, {})
    /\ \A p \in Procs : Working(p) => p \in Operators /\ HandedBy(p)

\* Slots never move, and marks do not touch them.
LEMMA MarkedSlots ==
    ASSUME NEW r, IsRegister(r), NEW s, NEW b \in BOOLEAN
    PROVE  /\ DOMAIN Marked(r, s, b).entries = DOMAIN r.entries
           /\ Slots(Marked(r, s, b), DOMAIN r.entries) = Slots(r, DOMAIN r.entries)
<1>1. \A t \in DOMAIN r.entries : Marked(r, s, b).entries[t].idx = r.entries[t].idx
  BY MarkedEntry
<1> QED BY <1>1, MarkedIsRegister DEF Slots

\* A publisher, and a command that has saved or is starting to publish, touches neither
\* what was handed out nor a memory that is at work.
LEMMA HandedBeside ==
    ASSUME Handed, UNCHANGED <<register, wrpacs, wrprcs>>, NEW p \in Procs,
           ~Working(p), ~Working(p)',
           \A q \in Procs \ {p} : /\ pc'[q] = pc[q] /\ mem'[q] = mem[q] /\ cur'[q] = cur[q]
    PROVE  Handed'
<1>1. \A q \in Procs \ {p} : (Working(q)' <=> Working(q)) /\ (HandedBy(q)' <=> HandedBy(q))
  BY DEF Working, HandedBy, HandedOut, Slots
<1>2. HandedOut(register, {}, {})' <=> HandedOut(register, {}, {})
  BY DEF HandedOut, Slots
<1> QED BY <1>1, <1>2 DEF Handed

LEMMA NextHanded ==
    ASSUME OneOperator, Inv, intact => Handed, [Next]_vars
    PROVE  intact' => Handed'
<1> USE DEF files
<1>a. /\ IsRegister(register) /\ \A p \in Procs : IsRegister(mem[p])
      /\ \A p \in Procs : p \in DOMAIN pc /\ p \in DOMAIN mem /\ p \in DOMAIN cur
      /\ Accounted
  BY DEF Inv, TypeOK
<1>b. SUFFICES ASSUME intact' PROVE Handed'
  OBVIOUS
<1>c. intact /\ Handed
  BY <1>b DEF Next, EditSpec, Operate, StartIssue, StartApply, StartRevoke, StartPublish, Begin,
              RevokeAgain, Mint, RevokeItem, DeliverWRPAC, DeliverWRPRC, Save, Publish,
              PublishCRL, PublishList, PublishRegister, Abort, vars
\* The one operator works: what was handed out is as in its memory.
<1>1. ASSUME NEW p \in Operators, Working(p)', HandedBy(p)',
             \A q \in Procs \ {p} : pc'[q] = pc[q]
      PROVE  Handed'
  <2>1. \A q \in Procs \ {p} : ~Working(q)
    BY <1>c DEF Handed, OneOperator
  <2> QED BY <1>1, <2>1 DEF Handed, Working, Procs
<1>2. ASSUME UNCHANGED <<register, wrpacs, wrprcs, pc, mem, cur>> PROVE Handed'
  BY <1>2, <1>c DEF Handed, Working, HandedBy, HandedOut, Slots
<1>3. ASSUME NEW p \in Operators, Operate(p) PROVE Handed'
  <2>a. p \in Procs /\ p \in DOMAIN pc /\ p \in DOMAIN mem /\ p \in DOMAIN cur
        /\ \A q \in Procs : Working(q) => q = p
    BY <1>a, <1>c DEF Procs, Handed, OneOperator
  \* Starting: the register as it is, in memory.
  <2>1. ASSUME NEW step \in {"work", "save"}, NEW r, NEW items, NEW j,
               Begin(p, step, r, items, j), DOMAIN r.entries = DOMAIN register.entries,
               Slots(r, DOMAIN r.entries) = Slots(register, DOMAIN register.entries)
        PROVE  Handed'
    <3>1. /\ pc[p] = "idle" /\ pc'[p] = step /\ mem'[p] = r
          /\ UNCHANGED <<register, wrpacs, wrprcs>>
          /\ \A q \in Procs \ {p} : pc'[q] = pc[q]
      BY <2>1, <2>a DEF Begin
    <3>2. HandedOut(register, {}, {})
      BY <2>a, <3>1, <1>c DEF Handed, Working
    <3>3. HandedOut(r, {}, {})
      BY <3>2, <2>1 DEF HandedOut
    <3>4. HandedBy(p)'
      BY <3>1, <3>3, <2>1 DEF HandedBy, HandedOut, Slots
    <3> QED BY <3>1, <3>4, <1>1, <2>1 DEF Working
  <2>2. CASE StartIssue(p)
    BY <2>1, <2>2 DEF StartIssue
  <2>3. CASE StartApply(p)
    BY <2>1, <2>3 DEF StartApply
  <2>4. CASE StartRevoke(p)
    <3>1. PICK s \in Live(register) :
            Begin(p, "save", RevokeEntry(register, s), {},
                  [NoJob EXCEPT !.cmd = "revoke", !.target = s])
      BY <2>4 DEF StartRevoke
    <3>2. /\ DOMAIN RevokeEntry(register, s).entries = DOMAIN register.entries
          /\ Slots(RevokeEntry(register, s), DOMAIN register.entries)
               = Slots(register, DOMAIN register.entries)
      BY <1>a, MarkedSlots DEF RevokeEntry
    <3> QED BY <2>1, <3>1, <3>2
  <2>5. CASE RevokeAgain(p)
    BY <2>5, <1>2 DEF RevokeAgain
  <2>6. CASE Mint(p)
    <3>1. PICK i \in Front(todo[p]), s \in Serials \ archive :
            /\ pc[p] = "work"
            /\ mem' = [mem EXCEPT ![p] = AddEntry(mem[p], s, i.client, i.fp)]
            /\ cur' = [cur EXCEPT ![p] = [serial |-> s, replaces |-> i.serial]]
            /\ pc' = [pc EXCEPT ![p] = "wrpac"]
            /\ UNCHANGED <<wrpacs, wrprcs>>
      BY <2>6 DEF Mint
    <3>2. /\ pc'[p] = "wrpac" /\ cur'[p].serial = s
          /\ mem'[p] = AddEntry(mem[p], s, i.client, i.fp)
          /\ \A q \in Procs \ {p} : pc'[q] = pc[q]
      BY <3>1, <2>a
    <3>3. s \notin DOMAIN mem[p].entries
      BY <1>a, <2>a DEF Accounted
    <3>4. /\ DOMAIN mem'[p].entries \ {s} = DOMAIN mem[p].entries
          /\ \A t \in DOMAIN mem[p].entries : mem'[p].entries[t].idx = mem[p].entries[t].idx
      BY <3>2, <3>3 DEF AddEntry
    <3>5. HandedOut(mem[p], {}, {})
      BY <3>1, <1>c, <2>a DEF Handed, HandedBy, Working
    <3>6. HandedBy(p)'
      BY <3>1, <3>2, <3>4, <3>5 DEF HandedBy, HandedOut, Slots
    <3> QED BY <3>2, <3>6, <1>1 DEF Working
  <2>7. CASE RevokeItem(p)
    <3>1. PICK i \in Front(todo[p]) :
            /\ pc[p] = "work"
            /\ mem' = [mem EXCEPT ![p] = RevokeEntry(mem[p], i.serial)]
            /\ pc' = [pc EXCEPT ![p] = IF todo[p] = {i} THEN "save" ELSE "work"]
            /\ UNCHANGED <<wrpacs, wrprcs>>
      BY <2>7 DEF RevokeItem
    <3>2. /\ pc'[p] \in {"save", "work"} /\ mem'[p] = Marked(mem[p], i.serial, FALSE)
          /\ \A q \in Procs \ {p} : pc'[q] = pc[q]
      BY <3>1, <2>a DEF RevokeEntry
    <3>3. HandedOut(mem[p], {}, {})
      BY <3>1, <1>c, <2>a DEF Handed, HandedBy, Working
    <3>4. /\ DOMAIN mem'[p].entries = DOMAIN mem[p].entries
          /\ Slots(mem'[p], DOMAIN mem[p].entries) = Slots(mem[p], DOMAIN mem[p].entries)
      <4>1. PICK b \in BOOLEAN : b = FALSE
        OBVIOUS
      <4>2. /\ DOMAIN Marked(mem[p], i.serial, b).entries = DOMAIN mem[p].entries
            /\ Slots(Marked(mem[p], i.serial, b), DOMAIN mem[p].entries)
                 = Slots(mem[p], DOMAIN mem[p].entries)
        BY <1>a, <2>a, MarkedSlots
      <4> QED BY <3>2, <4>1, <4>2
    <3>5. HandedOut(mem[p], {}, {})'
      BY <3>1, <3>3, <3>4 DEF HandedOut, Slots
    <3>6. HandedBy(p)'
      BY <3>5, <3>2 DEF HandedBy
    <3> QED BY <3>2, <3>6, <1>1 DEF Working
  <2>8. CASE DeliverWRPAC(p)
    <3>1. /\ pc[p] = "wrpac" /\ pc'[p] = "wrprc" /\ wrpacs' = wrpacs \cup {cur[p].serial}
          /\ UNCHANGED <<wrprcs, mem, cur>>
          /\ \A q \in Procs \ {p} : pc'[q] = pc[q]
      BY <2>8, <2>a DEF DeliverWRPAC
    <3>2. cur[p].serial \in DOMAIN mem[p].entries
      BY <3>1, <1>a, <2>a DEF Accounted
    <3>3. HandedBy(p)
      BY <3>1, <1>c, <2>a DEF Handed, Working
    <3>4. HandedBy(p)'
      BY <3>1, <3>2, <3>3 DEF HandedBy, HandedOut, Slots
    <3> QED BY <3>1, <3>4, <1>1 DEF Working
  <2>9. CASE DeliverWRPRC(p)
    <3> DEFINE c == cur[p].serial
    <3>1. /\ pc[p] = "wrprc" /\ pc'[p] \in {"save", "work"}
          /\ wrprcs' = wrprcs \cup {[serial |-> c, idx |-> mem[p].entries[c].idx]}
          /\ mem'[p] = Supersede(mem[p], cur[p].replaces)
          /\ UNCHANGED wrpacs
          /\ \A q \in Procs \ {p} : pc'[q] = pc[q]
      BY <2>9, <2>a DEF DeliverWRPRC
    <3>2. c \in DOMAIN mem[p].entries
      BY <3>1, <1>a, <2>a DEF Accounted
    <3>3. /\ DOMAIN mem'[p].entries = DOMAIN mem[p].entries
          /\ Slots(mem'[p], DOMAIN mem[p].entries) = Slots(mem[p], DOMAIN mem[p].entries)
      <4>1. CASE cur[p].replaces = NoSerial
        BY <3>1, <4>1 DEF Supersede
      <4>2. CASE cur[p].replaces # NoSerial
        <5>1. mem'[p] = Marked(mem[p], cur[p].replaces, TRUE)
          BY <3>1, <4>2 DEF Supersede
        <5> QED BY <5>1, <1>a, <2>a, MarkedSlots
      <4> QED BY <4>1, <4>2
    <3>4. HandedOut(mem[p], {}, {c})
      BY <3>1, <1>c, <2>a DEF Handed, HandedBy, Working
    <3>5. /\ wrpacs' = DOMAIN mem[p].entries
          /\ wrprcs' = Slots(mem[p], DOMAIN mem[p].entries)
      BY <3>1, <3>2, <3>4 DEF HandedOut, Slots
    <3>6. HandedOut(mem[p], {}, {})'
      BY <3>3, <3>5 DEF HandedOut, Slots
    <3>7. HandedBy(p)'
      BY <3>1, <3>6 DEF HandedBy
    <3> QED BY <3>1, <3>7, <1>1 DEF Working
  \* What was handed out as in the memory is now so in the register.
  <2>10. CASE Save(p)
    <3>1. /\ pc[p] = "save" /\ pc'[p] = "crl" /\ register' = mem[p]
          /\ UNCHANGED <<wrpacs, wrprcs>>
          /\ \A q \in Procs \ {p} : pc'[q] = pc[q]
      BY <2>10, <2>a DEF Save
    <3>2. HandedOut(mem[p], {}, {})
      BY <3>1, <1>c, <2>a DEF Handed, HandedBy, Working
    <3>3. HandedOut(register, {}, {})'
      BY <3>1, <3>2 DEF HandedOut, Slots
    <3>4. \A q \in Procs : ~Working(q)'
      BY <3>1, <2>a DEF Working
    <3> QED BY <3>3, <3>4 DEF Handed
  <2> QED BY <1>3, <2>2, <2>3, <2>4, <2>5, <2>6, <2>7, <2>8, <2>9, <2>10 DEF Operate
<1>4. ASSUME NEW p \in Procs, Publish(p) PROVE Handed'
  <2>1. /\ UNCHANGED <<register, wrpacs, wrprcs>> /\ ~Working(p) /\ ~Working(p)'
        /\ \A q \in Procs \ {p} : /\ pc'[q] = pc[q] /\ mem'[q] = mem[q] /\ cur'[q] = cur[q]
    BY <1>4, <1>a DEF Publish, StartPublish, Begin, PublishCRL, PublishList, PublishRegister,
                      Exit, Working
  <2> QED BY <2>1, <1>c, HandedBeside
<1> QED BY <1>b, <1>2, <1>3, <1>4 DEF Next, EditSpec, Abort, vars

LEMMA HandedInvariance == ASSUME OneOperator PROVE Spec => [](Inv /\ (intact => Handed))
<1>1. Init => Handed
  BY EmptyIsRegister DEF Init, Handed, HandedOut, Slots, Working
<1> QED BY <1>1, InitInv, NextInv, NextHanded, PTL DEF Spec

\* One operator at a time and none of the commands stopped so far: no two registration
\* certificates handed out name one slot, also while a command is delivering.
THEOREM SlotsStayApart == ASSUME OneOperator PROVE Spec => []SlotsNeverSharedIfIntact
<1>1. ASSUME Inv, Handed PROVE SlotsNeverShared
  <2>1. PICK r \in Registers : wrprcs \subseteq Slots(r, DOMAIN r.entries)
    <3>1. CASE \A p \in Procs : ~Working(p)
      BY <1>1, <3>1 DEF Handed, HandedOut, Slots, Registers
    <3>2. CASE \E p \in Procs : Working(p)
      BY <1>1, <3>2 DEF Handed, HandedBy, HandedOut, Slots, Registers
    <3> QED BY <3>1, <3>2
  <2>2. Sound(r)
    BY <1>1 DEF Inv, RegistersSound, Registers
  <2> QED BY <2>1, <2>2 DEF SlotsNeverShared, Slots, Sound
<1>2. Inv /\ (intact => Handed) => SlotsNeverSharedIfIntact
  BY <1>1 DEF SlotsNeverSharedIfIntact
<1> QED BY <1>2, HandedInvariance, PTL

\* And what was handed out is what is on record, whenever no operator is at work.
THEOREM DeliveriesAreRecorded == ASSUME OneOperator PROVE Spec => []DeliveredIsRecorded
<1>1. Inv /\ (intact => Handed) => DeliveredIsRecorded
  BY DEF Handed, HandedOut, Slots, Working, DeliveredIsRecorded
<1> QED BY <1>1, HandedInvariance, PTL

----------------------------------------------------------------------------
(***************************************************************************)
(* One command at a time, operator or schedule.                            *)
(***************************************************************************)
OneProcess == \A p, q \in Procs : p = q

\* A publishing command holds the saved register, and between its first and its
\* last file the CRL is already that register's.
Current == \A p \in Procs :
    /\ pc[p] \in {"crl", "list", "pub"} => mem[p] = register
    /\ pc[p] \in {"list", "pub"} => crl = Revoked(register)

Ordered == ListNeverAhead /\ list.size <= ListSize(register)

SerialInv == OneInv /\ Current /\ Ordered

LEMMA OneProcessOneOperator == ASSUME OneProcess PROVE OneOperator
BY DEF OneProcess, OneOperator, Procs

LEMMA InitSerialInv == Init => SerialInv
<1> SUFFICES ASSUME Init PROVE SerialInv
  OBVIOUS
<1>1. OneInv
  BY InitOneInv
<1>2. Current
  BY DEF Init, Current
<1>3. Ordered
  <2>1. ListSize(EmptyRegister) \in Nat
    BY EmptyIsRegister, PublishedTypes
  <2> QED BY <2>1, EmptyIsRegister DEF Init, Ordered, ListNeverAhead
<1> QED BY <1>1, <1>2, <1>3 DEF SerialInv

\* More slots, a list at least as long.
LEMMA ListSizeGrows ==
    ASSUME NEW r, NEW q, IsRegister(r), IsRegister(q), r.next <= q.next
    PROVE  ListSize(r) <= ListSize(q)
<1>1. \A m, n \in Nat : m <= n => 8 * ((m + 7) \div 8) <= 8 * ((n + 7) \div 8)
  OBVIOUS
<1>2. ListRoom(r) \in Nat /\ ListRoom(q) \in Nat /\ ListRoom(r) <= ListRoom(q)
  BY DEF ListRoom, IsRegister
<1> QED BY <1>1, <1>2 DEF ListSize

\* The status list never runs ahead of the CRL when the register moves on.
LEMMA OrderedExtends ==
    ASSUME OneInv, Ordered, OneInv', Extends(register, register'), UNCHANGED <<crl, list>>
    PROVE  Ordered'
<1>1. IsRegister(register) /\ IsRegister(register') /\ Sound(register')
  BY DEF OneInv, Inv, TypeOK, RegistersSound
<1>2. ListNeverAhead'
  <2> SUFFICES ASSUME NEW s \in Revoked(register'), register'.entries[s].idx \in list.bits
               PROVE  s \in crl
    BY DEF ListNeverAhead
  <2>1. PICK t \in Revoked(register) : register.entries[t].idx = register'.entries[s].idx
    BY DEF OneInv, PublishedRecorded, StatusBits
  <2>2. t \in crl /\ t \in DOMAIN register'.entries
    BY <2>1 DEF Ordered, ListNeverAhead, Extends, Revoked
  <2>3. register'.entries[t].idx = register'.entries[s].idx
    BY <2>1 DEF Extends, Revoked
  <2> QED BY <1>1, <2>2, <2>3 DEF Sound, Revoked
<1>3. list.size <= ListSize(register')
  <2>1. ListSize(register) \in Nat /\ ListSize(register') \in Nat /\ list.size \in Nat
    BY <1>1, PublishedTypes DEF OneInv, Inv, TypeOK
  <2> QED BY <1>1, <2>1, ListSizeGrows DEF Ordered, Extends
<1> QED BY <1>2, <1>3 DEF Ordered

\* What a step does to the saved register and the publications.
Outside ==
    \/ UNCHANGED <<register, crl, list>>
    \/ UNCHANGED <<crl, list>>
    \/ crl' = Revoked(register) /\ UNCHANGED <<register, list>>
    \/ /\ list' = [size |-> ListSize(register), bits |-> StatusBits(register)]
       /\ crl = Revoked(register)
       /\ UNCHANGED <<register, crl>>

LEMMA NextSerialInv ==
    ASSUME OneProcess
    PROVE  SerialInv /\ [Next]_vars => SerialInv' /\ Outside
<1> SUFFICES ASSUME SerialInv, [Next]_vars PROVE SerialInv' /\ Outside
  OBVIOUS
<1> USE DEF files
<1>a. OneInv /\ OneInv' /\ Extends(register, register')
  <2>1. OneInv' /\ [Extends(register, register')]_vars
    BY OneProcessOneOperator, NextOneInv DEF SerialInv
  <2>2. IsRegister(register)
    BY DEF SerialInv, OneInv, Inv, TypeOK
  <2>3. UNCHANGED vars => Extends(register, register')
    BY <2>2, ExtendsReflexive DEF vars
  <2> QED BY <2>1, <2>3 DEF SerialInv
<1>b. TypeOK
  BY <1>a DEF OneInv, Inv
<1>1. ASSUME UNCHANGED <<crl, list>>, Current' PROVE SerialInv' /\ Outside
  BY <1>a, <1>1, OrderedExtends DEF SerialInv, Outside
<1>2. ASSUME NEW c \in Clients, EditSpec(c) PROVE SerialInv' /\ Outside
  BY <1>1, <1>2 DEF EditSpec, SerialInv, Current
<1>3. ASSUME NEW p \in Operators, Operate(p) PROVE SerialInv' /\ Outside
  <2>1. p \in Procs /\ \A q \in Procs : q = p
    BY DEF Procs, OneProcess
  <2>2. UNCHANGED <<crl, list>>
    BY <1>3 DEF Operate, StartIssue, StartApply, StartRevoke, Begin, RevokeAgain,
                Mint, RevokeItem, DeliverWRPAC, DeliverWRPRC, Save
  <2>3. CASE Save(p)
    BY <2>1, <2>2, <2>3, <1>1, <1>b DEF Save, Current, TypeOK
  <2>4. CASE RevokeAgain(p)
    BY <2>2, <2>4, <1>1 DEF RevokeAgain, Current, SerialInv
  <2>5. CASE StartIssue(p) \/ StartApply(p) \/ StartRevoke(p)
    <3>1. pc'[p] \in {"work", "save"}
      BY <2>5, <2>1, <1>b DEF StartIssue, StartApply, StartRevoke, Begin, TypeOK
    <3> QED BY <3>1, <2>1, <2>2, <1>1 DEF Current
  <2>6. CASE Mint(p) \/ RevokeItem(p) \/ DeliverWRPAC(p) \/ DeliverWRPRC(p)
    <3>1. pc'[p] \in {"work", "wrpac", "wrprc", "save"}
      BY <2>6, <2>1, <1>b DEF Mint, RevokeItem, DeliverWRPAC, DeliverWRPRC, TypeOK
    <3> QED BY <3>1, <2>1, <2>2, <1>1 DEF Current
  <2> QED BY <1>3, <2>3, <2>4, <2>5, <2>6 DEF Operate
<1>4. ASSUME NEW p \in Procs, StartPublish(p) PROVE SerialInv' /\ Outside
  <2>1. \A q \in Procs : q = p
    BY DEF OneProcess
  <2>2. /\ pc'[p] = "crl" /\ mem'[p] = register
        /\ UNCHANGED <<register, crl, list>>
    BY <1>4, <1>b DEF StartPublish, Begin, TypeOK
  <2> QED BY <2>1, <2>2, <1>1 DEF Current
<1>5. ASSUME NEW p \in Procs, PublishCRL(p) PROVE SerialInv' /\ Outside
  <2>1. \A q \in Procs : q = p
    BY DEF OneProcess
  <2>2. /\ mem[p] = register /\ crl' = Revoked(register)
        /\ UNCHANGED <<register, list, mem>> /\ pc'[p] = "list"
    BY <1>5, <1>b DEF PublishCRL, SerialInv, Current, TypeOK
  <2>3. Current'
    BY <2>1, <2>2 DEF Current, Revoked
  <2>4. Ordered'
    BY <2>2 DEF SerialInv, Ordered, ListNeverAhead, Revoked, ListSize, ListRoom
  <2> QED BY <2>2, <2>3, <2>4, <1>a DEF SerialInv, Outside
<1>6. ASSUME NEW p \in Procs, PublishList(p) PROVE SerialInv' /\ Outside
  <2>1. \A q \in Procs : q = p
    BY DEF OneProcess
  <2>2. /\ mem[p] = register /\ crl = Revoked(register)
        /\ list' = [size |-> ListSize(register), bits |-> StatusBits(register)]
        /\ UNCHANGED <<register, crl, mem>> /\ pc'[p] = "pub"
    BY <1>6, <1>b DEF PublishList, SerialInv, Current, TypeOK
  <2>3. Current'
    BY <2>1, <2>2 DEF Current, Revoked
  <2>4. ListSize(register) \in Nat
    BY <1>b, PublishedTypes DEF TypeOK
  <2>5. Ordered'
    BY <2>2, <2>4 DEF Ordered, ListNeverAhead, Revoked, ListSize, ListRoom
  <2> QED BY <2>2, <2>3, <2>5, <1>a DEF SerialInv, Outside
<1>7. ASSUME NEW p \in Procs, PublishRegister(p) \/ Abort(p)
      PROVE  SerialInv' /\ Outside
  <2>1. \A q \in Procs : q = p
    BY DEF OneProcess
  <2>2. pc'[p] = "idle" /\ UNCHANGED <<crl, list>>
    BY <1>7, <1>b DEF PublishRegister, Abort, Exit, TypeOK
  <2> QED BY <2>1, <2>2, <1>1 DEF Current
<1>8. CASE UNCHANGED vars
  BY <1>1, <1>8 DEF vars, SerialInv, Current, Revoked
<1> QED BY <1>2, <1>3, <1>4, <1>5, <1>6, <1>7, <1>8 DEF Next, Publish

LEMMA SerialInvariance == ASSUME OneProcess PROVE Spec => []SerialInv
BY InitSerialInv, NextSerialInv, PTL DEF Spec

\* One command at a time: a party on the status list is on the CRL too
\* (deploy.go:473, 501).
THEOREM ListStaysBehind == ASSUME OneProcess PROVE Spec => []ListNeverAhead
<1>1. SerialInv => ListNeverAhead
  BY DEF SerialInv, Ordered
<1> QED BY <1>1, SerialInvariance, PTL

\* One command at a time: nothing published is taken back.
THEOREM NothingWithdrawn == ASSUME OneProcess PROVE Spec => RevocationsNeverWithdrawn
<1>1. SerialInv /\ [Next]_vars =>
        [/\ crl \subseteq crl'
         /\ list.bits \subseteq list'.bits
         /\ list.size <= list'.size]_vars
  <2> SUFFICES ASSUME SerialInv, [Next]_vars
               PROVE  /\ crl \subseteq crl'
                      /\ list.bits \subseteq list'.bits
                      /\ list.size <= list'.size
    OBVIOUS
  <2>1. Outside
    BY NextSerialInv
  <2>2. list.size \in Nat
    BY DEF SerialInv, OneInv, Inv, TypeOK
  <2> QED BY <2>1, <2>2 DEF Outside, SerialInv, OneInv, Ordered, PublishedRecorded
<1> QED BY <1>1, SerialInvariance, PTL DEF Spec, RevocationsNeverWithdrawn

\* One command at a time: the deployment implements AccessRegistry. Only Save,
\* PublishCRL and PublishList change what the outside sees.
THEOREM DeploymentKeepsPromise == ASSUME OneProcess PROVE Spec => KeepsPromise
<1> DEFINE slots == [s \in DOMAIN register.entries |-> register.entries[s].idx]
<1>1. Init => Promised!Init
  <2> SUFFICES ASSUME Init PROVE Promised!Init
    OBVIOUS
  <2>1. DOMAIN register.entries = {} /\ Revoked(register) = {} /\ crl = {} /\ list.bits = {}
    BY EmptyIsRegister DEF Init
  <2> QED BY <2>1 DEF Promised!Init
<1>2. SerialInv /\ SerialInv' /\ [Next]_vars => [Promised!Next]_Promised!vars
  <2> SUFFICES ASSUME SerialInv, SerialInv', [Next]_vars
               PROVE  [Promised!Next]_Promised!vars
    OBVIOUS
  <2>1. Outside
    BY NextSerialInv
  <2>2. CASE UNCHANGED <<register, crl, list>>
    BY <2>2 DEF Promised!vars, Revoked
  <2>3. CASE UNCHANGED <<crl, list>>
    <3>1. Extends(register, register')
      BY OneProcessOneOperator, NextOneInv, ExtendsReflexive
         DEF SerialInv, OneInv, Inv, TypeOK, vars, files
    <3>2. IsRegister(register') /\ Sound(register')
      BY DEF SerialInv, OneInv, Inv, TypeOK, RegistersSound
    <3>3. /\ DOMAIN slots = DOMAIN register.entries
          /\ DOMAIN slots' = DOMAIN register'.entries
          /\ \A s \in DOMAIN register.entries : slots[s] = register.entries[s].idx
          /\ \A s \in DOMAIN register'.entries : slots'[s] = register'.entries[s].idx
      OBVIOUS
    <3>4. Promised!Injective(slots')
      BY <3>2, <3>3 DEF Promised!Injective, Sound
    <3>5. slots' \in [DOMAIN slots' -> Nat]
      BY <3>2 DEF IsRegister, Entry
    <3>6. Revoked(register) \subseteq Revoked(register')
          /\ Revoked(register') \subseteq DOMAIN slots'
      BY <3>1, <3>3, ExtendsKeepsRevoked DEF Revoked
    <3>7. /\ DOMAIN slots \subseteq DOMAIN slots' /\ DOMAIN slots' \subseteq Serials
          /\ \A s \in DOMAIN slots : slots'[s] = slots[s]
      BY <3>1, <3>2, <3>3 DEF Extends, IsRegister
    <3>8. Promised!Record
      BY <2>3, <3>4, <3>5, <3>6, <3>7 DEF Promised!Record
    <3> QED BY <3>8 DEF Promised!Next
  <2>4. CASE crl' = Revoked(register) /\ UNCHANGED <<register, list>>
    BY <2>4 DEF Promised!Next, Promised!PublishCRL, Revoked
  <2>5. CASE /\ list' = [size |-> ListSize(register), bits |-> StatusBits(register)]
             /\ UNCHANGED <<register, crl>>
    <3>1. list'.bits = {slots[s] : s \in Revoked(register)}
      BY <2>5 DEF StatusBits, Revoked
    <3> QED BY <2>5, <3>1 DEF Promised!Next, Promised!PublishList, Revoked
  <2> QED BY <2>1, <2>2, <2>3, <2>4, <2>5 DEF Outside
<1> QED BY <1>1, <1>2, SerialInvariance, PTL DEF Spec, KeepsPromise, Promised!Spec

----------------------------------------------------------------------------
(***************************************************************************)
(* One command at a time: what a finished command leaves published is the  *)
(* register, and that is so at all times while none was stopped.           *)
(***************************************************************************)

Announced(r) == list = [size |-> ListSize(r), bits |-> StatusBits(r)]

\* A command that has only the public register left to write has announced the saved one.
Announcing == \A p \in Procs : pc[p] = "pub" => Announced(register)

\* What is published is the saved register, whenever nothing runs.
Published ==
    (\A p \in Procs : pc[p] = "idle") =>
        /\ crl = Revoked(register)
        /\ Announced(register)
        /\ pubreg = PublicRegister(register)

\* What `revoke` is to report is revoked in its memory.
Targeted ==
    \A p \in Procs : job[p].target # NoSerial =>
        /\ pc[p] \in {"save", "crl", "list", "pub"}
        /\ job[p].target \in Revoked(mem[p])

IntactInv == /\ Targeted /\ Announcing
             /\ intact => Published /\ RevocationEffective

LEMMA EffectiveKept ==
    ASSUME RevocationEffective, Outside, Extends(register, register'), PublishedRecorded,
           acked' = acked
    PROVE  RevocationEffective'
<1> SUFFICES ASSUME NEW s \in acked PROVE s \in crl' /\ register'.entries[s].idx \in list'.bits
  BY DEF RevocationEffective
<1>1. s \in crl /\ s \in Revoked(register) /\ register.entries[s].idx \in list.bits
  BY DEF RevocationEffective, PublishedRecorded
<1>2. register'.entries[s].idx = register.entries[s].idx
  BY <1>1 DEF Extends, Revoked
<1>3. register.entries[s].idx \in StatusBits(register)
  BY <1>1 DEF StatusBits
<1> QED BY <1>1, <1>2, <1>3 DEF Outside

LEMMA NextIntactInv ==
    ASSUME OneProcess, SerialInv, SerialInv', IntactInv, [Next]_vars
    PROVE  IntactInv'
<1> USE DEF files
<1>a. /\ TypeOK /\ IsRegister(register) /\ \A p \in Procs : IsRegister(mem[p])
      /\ PublishedRecorded /\ Current /\ Accounted
  BY DEF SerialInv, OneInv, Inv, TypeOK
<1>b. Outside
  BY NextSerialInv
<1>c. Extends(register, register')
  BY OneProcessOneOperator, NextOneInv, ExtendsReflexive, <1>a DEF SerialInv, vars
<1>d. intact /\ acked' = acked => RevocationEffective'
  BY <1>a, <1>b, <1>c, EffectiveKept DEF IntactInv
<1>1. ASSUME NEW c \in Clients, EditSpec(c) PROVE IntactInv'
  BY <1>1, <1>d DEF EditSpec, IntactInv, Targeted, Announcing, Published, Announced, Revoked,
                    PublicRegister
<1>2. CASE UNCHANGED vars
  BY <1>2, <1>d DEF vars, IntactInv, Targeted, Announcing, Published, Announced, Revoked,
                    PublicRegister
<1>3. ASSUME NEW p \in Procs, \/ p \in Operators /\ Operate(p)
                             \/ Publish(p) \/ Abort(p)
      PROVE  IntactInv'
  <2>a. \A q \in Procs : q = p
    BY DEF OneProcess
  <2>b. Inv /\ p \in DOMAIN pc /\ p \in DOMAIN mem /\ p \in DOMAIN job /\ p \in DOMAIN cur
    BY <1>a DEF SerialInv, OneInv, TypeOK
  <2>1. ASSUME NEW step \in {"work", "save", "crl"}, NEW r, NEW items, NEW j,
               Begin(p, step, r, items, j),
               j.target # NoSerial => step # "work" /\ j.target \in Revoked(r)
        PROVE  IntactInv'
    <3>1. /\ pc'[p] = step /\ mem'[p] = r /\ job'[p] = j
          /\ UNCHANGED <<files, acked, intact>>
      BY <2>1, <2>b DEF Begin
    <3>2. Targeted'
      BY <2>1, <2>a, <3>1 DEF Targeted
    <3>3. Announcing' /\ Published'
      BY <2>1, <2>a, <3>1 DEF Announcing, Published
    <3> QED BY <3>1, <3>2, <3>3, <1>d DEF IntactInv
  <2>2. CASE p \in Operators /\ StartIssue(p)
    <3>1. NoJob.target = NoSerial /\ [NoJob EXCEPT !.cmd = "issue"].target = NoSerial
      BY DEF NoJob
    <3> QED BY <2>1, <2>2, <3>1 DEF StartIssue
  <2>3. CASE p \in Operators /\ StartApply(p)
    BY <2>1, <2>3 DEF StartApply
  <2>4. CASE p \in Operators /\ StartRevoke(p)
    <3>1. PICK s \in Live(register) :
            Begin(p, "save", RevokeEntry(register, s), {},
                  [NoJob EXCEPT !.cmd = "revoke", !.target = s])
      BY <2>4 DEF StartRevoke
    <3>2. s \in Revoked(RevokeEntry(register, s))
      <4>1. s \in DOMAIN register.entries
        BY DEF Live
      <4>2. s \in DOMAIN Marked(register, s, FALSE).entries
        BY <4>1, <1>a, MarkedIsRegister
      <4>3. Marked(register, s, FALSE).entries[s].revoked
        BY <4>1, <1>a, MarkedEntry
      <4> QED BY <4>2, <4>3 DEF RevokeEntry, Revoked
    <3>3. [NoJob EXCEPT !.cmd = "revoke", !.target = s].target = s
      BY DEF NoJob
    <3> QED BY <2>1, <3>1, <3>2, <3>3
  <2>5. CASE StartPublish(p)
    <3>1. [NoJob EXCEPT !.cmd = "publish"].target = NoSerial
      BY DEF NoJob
    <3> QED BY <2>1, <2>5, <3>1 DEF StartPublish
  <2>6. CASE p \in Operators /\ RevokeAgain(p)
    <3>1. PICK s \in Revoked(register) :
            /\ pc[p] = "idle" /\ acked' = acked \cup {s}
            /\ UNCHANGED <<files, intact, pc, mem, cur, job>>
      BY <2>6 DEF RevokeAgain
    <3>2. intact => RevocationEffective'
      BY <3>1, <2>a DEF IntactInv, Published, Announced, StatusBits, RevocationEffective
    <3> QED BY <3>1, <3>2 DEF IntactInv, Targeted, Announcing, Published, Announced, Revoked,
                              PublicRegister
  \* Working: nothing is published, and p goes on.
  <2>7. ASSUME pc[p] \in {"work", "wrpac", "wrprc"}, pc'[p] \notin {"idle", "pub"},
               UNCHANGED <<intact, acked, job>>
        PROVE  IntactInv'
    <3>1. Targeted'
      BY <2>7, <2>a DEF IntactInv, Targeted
    <3>2. Announcing' /\ Published'
      BY <2>7, <2>a DEF Announcing, Published
    <3> QED BY <2>7, <3>1, <3>2, <1>d DEF IntactInv
  <2>8. CASE p \in Operators /\ Mint(p)
    BY <2>7, <2>8, <2>b DEF Mint
  <2>9. CASE p \in Operators /\ RevokeItem(p)
    BY <2>7, <2>9, <2>b DEF RevokeItem
  <2>10. CASE p \in Operators /\ (DeliverWRPAC(p) \/ DeliverWRPRC(p))
    BY <2>7, <2>10, <2>b DEF DeliverWRPAC, DeliverWRPRC
  \* Saving and publishing.
  <2>11. ASSUME pc'[p] \in {"crl", "list", "pub"}, UNCHANGED <<mem, acked, intact, job>>,
                pc'[p] = "pub" => Announced(register)'
         PROVE  IntactInv'
    <3>1. Targeted'
      BY <2>11, <2>a DEF IntactInv, Targeted, Revoked
    <3>2. Announcing' /\ Published'
      BY <2>11, <2>a DEF Announcing, Published
    <3> QED BY <2>11, <3>1, <3>2, <1>d DEF IntactInv
  <2>12. CASE p \in Operators /\ Save(p)
    BY <2>11, <2>12, <2>b DEF Save
  <2>13. CASE PublishCRL(p)
    BY <2>11, <2>13, <2>b DEF PublishCRL
  <2>14. CASE PublishList(p)
    <3>1. mem[p] = register
      BY <2>14, <1>a DEF PublishList, Current
    <3>2. Announced(register)'
      BY <2>14, <3>1 DEF PublishList, Announced, ListSize, ListRoom, StatusBits, Revoked
    <3> QED BY <2>11, <2>14, <3>2, <2>b DEF PublishList
  <2>15. CASE PublishRegister(p)
    <3>1. /\ pc[p] = "pub" /\ pubreg' = PublicRegister(mem[p])
          /\ acked' = acked \cup ({job[p].target} \ {NoSerial})
          /\ UNCHANGED <<register, wrpacs, wrprcs, crl, list, intact>>
          /\ pc'[p] = "idle" /\ job'[p] = NoJob
      BY <2>15, <2>b DEF PublishRegister, Exit
    <3>2. mem[p] = register /\ crl = Revoked(register)
      BY <3>1, <1>a DEF Current
    <3>3. Targeted' /\ Announcing'
      BY <3>1, <2>a DEF Targeted, Announcing, NoJob
    <3>4. intact => Published'
      BY <3>1, <3>2, <2>a DEF IntactInv, Announcing, Published, Announced, Revoked,
                              PublicRegister, ListSize, ListRoom, StatusBits
    <3>5. intact => RevocationEffective'
      <4> SUFFICES ASSUME intact, NEW s \in acked'
                   PROVE  s \in crl /\ register.entries[s].idx \in list.bits
        BY <3>1 DEF RevocationEffective
      <4>1. CASE s \in acked
        BY <4>1 DEF IntactInv, RevocationEffective
      <4>2. CASE s = job[p].target /\ s # NoSerial
        <5>1. s \in Revoked(register)
          BY <4>2, <3>2 DEF IntactInv, Targeted
        <5>2. list.bits = StatusBits(register)
          BY <3>1 DEF IntactInv, Announcing, Announced
        <5> QED BY <5>1, <5>2, <3>2 DEF StatusBits
      <4> QED BY <3>1, <4>1, <4>2
    <3> QED BY <3>1, <3>3, <3>4, <3>5 DEF IntactInv
  <2>16. CASE Abort(p)
    <3>1. intact' = FALSE /\ job'[p] = NoJob /\ pc'[p] = "idle"
      BY <2>16, <2>b DEF Abort, Exit
    <3> QED BY <3>1, <2>a DEF IntactInv, Targeted, Announcing, NoJob
  <2> QED BY <1>3, <2>2, <2>3, <2>4, <2>5, <2>6, <2>8, <2>9, <2>10, <2>12, <2>13, <2>14,
             <2>15, <2>16 DEF Operate, Publish
<1> QED BY <1>1, <1>2, <1>3 DEF Next, Procs

LEMMA IntactInvariance == ASSUME OneProcess PROVE Spec => [](SerialInv /\ IntactInv)
<1>1. Init => IntactInv
  <2> SUFFICES ASSUME Init PROVE IntactInv
    OBVIOUS
  <2>1. Targeted /\ Announcing
    BY DEF Init, Targeted, Announcing, NoJob
  <2>2. Published
    BY EmptyIsRegister DEF Init, Published, Announced
  <2>3. RevocationEffective
    BY DEF Init, RevocationEffective
  <2> QED BY <2>1, <2>2, <2>3 DEF IntactInv
<1>2. SerialInv /\ [Next]_vars => SerialInv'
  BY NextSerialInv
<1> QED BY <1>1, <1>2, InitSerialInv, NextIntactInv, PTL DEF Spec

\* One command at a time: whatever was stopped before, one that gets to its last step leaves
\* CRL, status list and public register as the saved register has them (deploy.go:430-433).
THEOREM EveryRoundRepairs ==
    ASSUME OneProcess
    PROVE  Spec => [][\A p \in Procs : PublishRegister(p) =>
                        /\ crl' = Revoked(register')
                        /\ list' = [size |-> ListSize(register'), bits |-> StatusBits(register')]
                        /\ pubreg' = PublicRegister(register')]_vars
<1> DEFINE Repairs ==
             \A p \in Procs : PublishRegister(p) =>
                /\ crl' = Revoked(register')
                /\ list' = [size |-> ListSize(register'), bits |-> StatusBits(register')]
                /\ pubreg' = PublicRegister(register')
<1>1. SerialInv /\ IntactInv => [Repairs]_vars
  <2> SUFFICES ASSUME SerialInv, IntactInv, NEW p \in Procs, PublishRegister(p)
               PROVE  /\ crl' = Revoked(register')
                      /\ list' = [size |-> ListSize(register'), bits |-> StatusBits(register')]
                      /\ pubreg' = PublicRegister(register')
    OBVIOUS
  <2>1. /\ pc[p] = "pub" /\ pubreg' = PublicRegister(mem[p])
        /\ crl' = crl /\ list' = list /\ register' = register
    BY DEF PublishRegister
  <2>2. mem[p] = register /\ crl = Revoked(register) /\ Announced(register)
    BY <2>1 DEF SerialInv, Current, IntactInv, Announcing
  <2> QED BY <2>1, <2>2 DEF Announced
<1>2. [](SerialInv /\ IntactInv) => [][Repairs]_vars
  BY <1>1, PTL
<1> QED BY <1>2, IntactInvariance

\* And while none was stopped, what is published is what is on record.
THEOREM PublicationsAreCurrent == ASSUME OneProcess PROVE Spec => []PublishedIsCurrent
<1>1. SerialInv /\ IntactInv => PublishedIsCurrent
  BY DEF IntactInv, Published, Announced, PublishedIsCurrent
<1> QED BY <1>1, IntactInvariance, PTL

\* And a revocation `revoke` has reported is in both lists.
THEOREM RevocationsTakeEffect == ASSUME OneProcess PROVE Spec => []RevocationEffectiveIfIntact
<1>1. SerialInv /\ IntactInv => RevocationEffectiveIfIntact
  BY DEF IntactInv, RevocationEffectiveIfIntact
<1> QED BY <1>1, IntactInvariance, PTL
=============================================================================
