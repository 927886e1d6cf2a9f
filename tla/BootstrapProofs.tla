-------------------------- MODULE BootstrapProofs --------------------------
(***************************************************************************)
(* The theorems about Bootstrap, for any number of inits, publishers and   *)
(* keys. The types hold of any inits; the rest holds while no two of them  *)
(* are under way at once.                                                  *)
(***************************************************************************)
EXTENDS Bootstrap, TLAPS

\* What a process has in hand when it needs it.
HasKeys(p) ==
    /\ pc[p] \in {"ca.pem", "ca.key", "registrar.pem"} => ca[p] \in Keys
    /\ pc[p] \in {"crl", "list"} => x5c[p] \in Keys

\* Each file says nothing the one it rests on does not.
Chain ==
    /\ anchors = {caPem} \ {Nobody}
    /\ caKey # Nobody => caKey = caPem
    /\ regPem # NoRegistrar => regPem.signer = caPem /\ caPem # Nobody
    /\ regKey # Nobody => regPem # NoRegistrar /\ regKey = regPem.key
    /\ crl # Nobody => crl = caPem
    /\ list # NoList => /\ list = [key |-> regPem.key, registrar |-> regPem, ca |-> caPem]
                        /\ regPem # NoRegistrar

\* What the register promises is there.
Promised ==
    /\ register = "none" => caPem = Nobody /\ \A p \in Publishers : pc[p] = "idle"
    /\ register = "file" => /\ caKey # Nobody /\ regKey # Nobody
    /\ register = "token" => /\ caPem = TokenCA /\ caKey = Nobody /\ regKey = Nobody
                             /\ regPem = [key |-> TokenRegistrar, signer |-> TokenCA]
    /\ made => register \in {"file", "token"} /\ crl # Nobody /\ list # NoList

\* How far the one init is.
Progress(p) ==
    /\ pc[p] = "create" => register = "none"
    /\ pc[p] \in {"ca.pem", "ca.key", "registrar.pem", "registrar.key", "save"} =>
           /\ register = "bare"
           /\ refs[p] = "token" => /\ ca[p] = TokenCA /\ caKey = Nobody /\ regKey = Nobody
                                   /\ pc[p] \notin {"ca.key", "registrar.key"}
    /\ pc[p] = "ca.pem" => caPem = Nobody
    /\ pc[p] \in {"ca.key", "registrar.pem", "registrar.key", "save"} => caPem = ca[p] /\ caPem # Nobody
    /\ pc[p] \in {"registrar.pem", "registrar.key", "save"} /\ refs[p] = "file" => caKey # Nobody
    /\ pc[p] \in {"ca.pem", "ca.key", "registrar.pem"} => regPem = NoRegistrar
    /\ pc[p] \in {"registrar.key", "save"} => regPem = [key |-> reg[p], signer |-> caPem]
    /\ pc[p] = "save" => IF refs[p] = "token" THEN reg[p] = TokenRegistrar ELSE regKey # Nobody
    /\ pc[p] \in {"load", "crl", "list"} => register = refs[p]
    /\ pc[p] = "list" => crl # Nobody

OneInit == \A p, q \in Inits : pc[p] # "idle" /\ pc[q] # "idle" => p = q

\* What a publication under way has read.
HasRead(p) ==
    /\ pc[p] \in {"crl", "list"} => x5c[p] = caPem /\ ca[p] = caPem /\ caPem # Nobody
    /\ pc[p] \in {"load", "crl", "list"} /\ refs[p] = "token" => register = "token"

Running == /\ Chain /\ Promised /\ OneInit
           /\ \A p \in Inits : Progress(p)
           /\ \A p \in Procs : HasRead(p)

Ordered == alone => Running

InDirectory == TypeOK /\ \A p \in Procs : HasKeys(p)

USE KeysAssumption, ProcsAssumption

LEMMA TypesInit == Init => InDirectory
<1> SUFFICES ASSUME Init PROVE InDirectory
    OBVIOUS
<1>1. {made, alone} \subseteq BOOLEAN
    BY Zenon DEF Init
<1> QED
    BY <1>1 DEF Init, InDirectory, TypeOK, HasKeys

LEMMA TypesStep == InDirectory /\ [Next]_vars => InDirectory'
<1> SUFFICES ASSUME TypeOK, \A p \in Procs : HasKeys(p), [Next]_vars PROVE InDirectory'
    BY DEF InDirectory
<1> USE DEF InDirectory, TypeOK, HasKeys, Goto, disk, Keys
<1>1. ASSUME NEW p \in Inits, InitStep(p) PROVE InDirectory'
  <2> p \in Procs
      BY DEF Procs
  <2>1. CASE StartInit(p)
      BY <2>1 DEF StartInit
  <2>2. CASE Create(p)
    <3>1. PICK k \in Keys : /\ ca' = [ca EXCEPT ![p] = k]
                            /\ used' = used \cup ({k} \cap FileKeys)
        BY <2>2 DEF Create
    <3> QED
        BY <2>2, <3>1 DEF Create
  <2>3. CASE WriteCACert(p)
      BY <2>3 DEF WriteCACert
  <2>4. CASE WriteCAKey(p)
      BY <2>4 DEF WriteCAKey
  <2>5. CASE WriteRegistrarCert(p)
    <3>1. PICK k \in Keys : /\ reg' = [reg EXCEPT ![p] = k]
                            /\ used' = used \cup ({k} \cap FileKeys)
                            /\ regPem' = [key |-> k, signer |-> ca[p]]
        BY <2>5 DEF WriteRegistrarCert
    <3> QED
        BY <2>5, <3>1 DEF WriteRegistrarCert
  <2>6. CASE WriteRegistrarKey(p)
      BY <2>6 DEF WriteRegistrarKey
  <2>7. CASE SaveRegister(p)
      BY <2>7 DEF SaveRegister
  <2> QED
      BY <1>1, <2>1, <2>2, <2>3, <2>4, <2>5, <2>6, <2>7 DEF InitStep
<1>2. ASSUME NEW p \in Procs, StartPublish(p) PROVE InDirectory'
    BY <1>2 DEF StartPublish, Where
<1>3. ASSUME NEW p \in Procs, LoadCA(p) PROVE InDirectory'
    BY <1>3 DEF LoadCA, CAKeyAt
<1>4. ASSUME NEW p \in Procs, WriteCRL(p) PROVE InDirectory'
    BY <1>4 DEF WriteCRL
<1>5. ASSUME NEW p \in Procs, WriteList(p) PROVE InDirectory'
    BY <1>5 DEF WriteList, RegistrarKeyAt
<1>6. ASSUME NEW p \in Procs, Fail(p) PROVE InDirectory'
    BY <1>6 DEF Fail
<1>7. CASE UNCHANGED vars
    BY <1>7 DEF vars
<1> QED
    BY <1>1, <1>2, <1>3, <1>4, <1>5, <1>6, <1>7 DEF Next, PublishStep, Procs

\* The types, whatever fails and whatever overlaps: no file is ever written from a
\* certificate or key that was not read or made before.
THEOREM TypeCorrect == Spec => []TypeOK
<1>1. Spec => []InDirectory
    BY TypesInit, TypesStep, PTL DEF Spec
<1> QED
    BY <1>1, PTL DEF InDirectory

----------------------------------------------------------------------------
\* The order of the files, while no two inits are under way.

LEMMA StartInitOrdered ==
    ASSUME InDirectory, Ordered, NEW p \in Inits, StartInit(p) PROVE Ordered'
<1> SUFFICES ASSUME alone' PROVE Running'
    BY DEF Ordered, Running
<1>1. Running /\ \A q \in Inits : pc[q] = "idle"
    BY Zenon DEF StartInit, Ordered, Running
<1>2. /\ p \in Procs /\ pc' = [pc EXCEPT ![p] = "create"]
      /\ register = "none" /\ UNCHANGED <<disk, ca, reg, x5c, used, anchors, made>>
    BY DEF StartInit, Goto, Procs
<1> USE DEF Running, InDirectory, TypeOK
<1>3. Chain'
    BY <1>1, <1>2 DEF Chain, disk
<1>4. Promised'
    BY <1>1, <1>2 DEF Promised, disk, Procs
<1>5. OneInit'
    BY <1>1, <1>2 DEF OneInit, Procs
<1>6. ASSUME NEW q \in Inits PROVE Progress(q)'
    BY <1>1, <1>2 DEF Progress, disk, Procs
<1>7. ASSUME NEW q \in Procs PROVE HasRead(q)'
    BY <1>1, <1>2 DEF StartInit, HasRead, disk
<1> QED
    BY <1>3, <1>4, <1>5, <1>6, <1>7

LEMMA CreateOrdered ==
    ASSUME InDirectory, Running, NEW p \in Inits, Create(p) PROVE Running'
<1> USE DEF Running, InDirectory
<1>1. p \in Procs /\ pc' = [pc EXCEPT ![p] = "ca.pem"]
    BY DEF Create, Goto, Procs
<1>2. Chain'
    BY <1>1 DEF Create, TypeOK, Chain, Promised, Progress, HasRead, disk
<1>3. Promised'
    BY <1>1 DEF Create, TypeOK, Chain, Promised, Progress, HasRead, disk
<1>4. OneInit'
    BY <1>1 DEF TypeOK, OneInit, Create, Procs
<1>5. ASSUME NEW q \in Inits PROVE Progress(q)'
  <2>1. CASE q = p
      BY <1>1, <2>1 DEF Create, TypeOK, Chain, Promised, Progress, HasRead, disk
  <2>2. CASE q # p
      BY <1>1, <2>2 DEF Create, TypeOK, OneInit, Progress, disk, Procs
  <2> QED
      BY <2>1, <2>2
<1>6. ASSUME NEW q \in Procs PROVE HasRead(q)'
    BY <1>1 DEF Create, TypeOK, Chain, Promised, Progress, HasRead, disk
<1> QED
    BY <1>2, <1>3, <1>4, <1>5, <1>6

LEMMA WriteCACertOrdered ==
    ASSUME InDirectory, Running, NEW p \in Inits, WriteCACert(p) PROVE Running'
<1> USE DEF Running, InDirectory
<1>1. p \in Procs /\ pc' = [pc EXCEPT ![p] = IF refs[p] = "token" THEN "registrar.pem" ELSE "ca.key"]
    BY DEF WriteCACert, Goto, Procs
<1>2. Chain'
    BY <1>1 DEF WriteCACert, TypeOK, Chain, Promised, Progress, HasRead, disk, HasKeys
<1>3. Promised'
    BY <1>1 DEF WriteCACert, TypeOK, Chain, Promised, Progress, HasRead, disk, HasKeys
<1>4. OneInit'
    BY <1>1 DEF TypeOK, OneInit, WriteCACert, Procs
<1>5. ASSUME NEW q \in Inits PROVE Progress(q)'
  <2>1. CASE q = p
      BY <1>1, <2>1 DEF WriteCACert, TypeOK, Chain, Promised, Progress, HasRead, disk, HasKeys
  <2>2. CASE q # p
      BY <1>1, <2>2 DEF WriteCACert, TypeOK, OneInit, Progress, disk, Procs
  <2> QED
      BY <2>1, <2>2
<1>6. ASSUME NEW q \in Procs PROVE HasRead(q)'
    BY <1>1 DEF WriteCACert, TypeOK, Chain, Promised, Progress, HasRead, disk, HasKeys
<1> QED
    BY <1>2, <1>3, <1>4, <1>5, <1>6

LEMMA WriteCAKeyOrdered ==
    ASSUME InDirectory, Running, NEW p \in Inits, WriteCAKey(p) PROVE Running'
<1> USE DEF Running, InDirectory
<1>1. p \in Procs /\ pc' = [pc EXCEPT ![p] = "registrar.pem"]
    BY DEF WriteCAKey, Goto, Procs
<1>2. Chain'
    BY <1>1 DEF WriteCAKey, TypeOK, Chain, Promised, Progress, HasRead, disk
<1>3. Promised'
    BY <1>1 DEF WriteCAKey, TypeOK, Chain, Promised, Progress, HasRead, disk
<1>4. OneInit'
    BY <1>1 DEF TypeOK, OneInit, WriteCAKey, Procs
<1>5. ASSUME NEW q \in Inits PROVE Progress(q)'
  <2>1. CASE q = p
      BY <1>1, <2>1 DEF WriteCAKey, TypeOK, Chain, Promised, Progress, HasRead, disk
  <2>2. CASE q # p
      BY <1>1, <2>2 DEF WriteCAKey, TypeOK, OneInit, Progress, disk, Procs
  <2> QED
      BY <2>1, <2>2
<1>6. ASSUME NEW q \in Procs PROVE HasRead(q)'
    BY <1>1 DEF WriteCAKey, TypeOK, Chain, Promised, Progress, HasRead, disk
<1> QED
    BY <1>2, <1>3, <1>4, <1>5, <1>6

LEMMA WriteRegistrarCertOrdered ==
    ASSUME InDirectory, Running, NEW p \in Inits, WriteRegistrarCert(p) PROVE Running'
<1> USE DEF Running, InDirectory
<1>1. p \in Procs /\ pc' = [pc EXCEPT ![p] = IF refs[p] = "token" THEN "save" ELSE "registrar.key"]
    BY DEF WriteRegistrarCert, Goto, Procs
<1>2. Chain'
    BY <1>1 DEF WriteRegistrarCert, TypeOK, Chain, Promised, Progress, HasRead, disk
<1>3. Promised'
    BY <1>1 DEF WriteRegistrarCert, TypeOK, Chain, Promised, Progress, HasRead, disk
<1>4. OneInit'
    BY <1>1 DEF TypeOK, OneInit, WriteRegistrarCert, Procs
<1>5. ASSUME NEW q \in Inits PROVE Progress(q)'
  <2>1. CASE q = p
      BY <1>1, <2>1 DEF WriteRegistrarCert, TypeOK, Chain, Promised, Progress, HasRead, disk
  <2>2. CASE q # p
      BY <1>1, <2>2 DEF WriteRegistrarCert, TypeOK, OneInit, Progress, disk, Procs
  <2> QED
      BY <2>1, <2>2
<1>6. ASSUME NEW q \in Procs PROVE HasRead(q)'
    BY <1>1 DEF WriteRegistrarCert, TypeOK, Chain, Promised, Progress, HasRead, disk
<1> QED
    BY <1>2, <1>3, <1>4, <1>5, <1>6

LEMMA WriteRegistrarKeyOrdered ==
    ASSUME InDirectory, Running, NEW p \in Inits, WriteRegistrarKey(p) PROVE Running'
<1> USE DEF Running, InDirectory
<1>1. p \in Procs /\ pc' = [pc EXCEPT ![p] = "save"]
    BY DEF WriteRegistrarKey, Goto, Procs
<1>2. Chain'
    BY <1>1 DEF WriteRegistrarKey, TypeOK, Chain, Promised, Progress, HasRead, disk, NoRegistrar
<1>3. Promised'
    BY <1>1 DEF WriteRegistrarKey, TypeOK, Chain, Promised, Progress, HasRead, disk, NoRegistrar
<1>4. OneInit'
    BY <1>1 DEF TypeOK, OneInit, WriteRegistrarKey, Procs
<1>5. ASSUME NEW q \in Inits PROVE Progress(q)'
  <2>1. CASE q = p
      BY <1>1, <2>1 DEF WriteRegistrarKey, TypeOK, Chain, Promised, Progress, HasRead, disk, NoRegistrar
  <2>2. CASE q # p
      BY <1>1, <2>2 DEF WriteRegistrarKey, TypeOK, OneInit, Progress, disk, Procs
  <2> QED
      BY <2>1, <2>2
<1>6. ASSUME NEW q \in Procs PROVE HasRead(q)'
    BY <1>1 DEF WriteRegistrarKey, TypeOK, Chain, Promised, Progress, HasRead, disk, NoRegistrar
<1> QED
    BY <1>2, <1>3, <1>4, <1>5, <1>6

LEMMA SaveRegisterOrdered ==
    ASSUME InDirectory, Running, NEW p \in Inits, SaveRegister(p) PROVE Running'
<1> USE DEF Running, InDirectory
<1>1. p \in Procs /\ pc' = [pc EXCEPT ![p] = "load"]
    BY DEF SaveRegister, Goto, Procs
<1>2. Chain'
    BY <1>1 DEF SaveRegister, TypeOK, Chain, Promised, Progress, HasRead, disk, Procs
<1>3. Promised'
    BY <1>1 DEF SaveRegister, TypeOK, Chain, Promised, Progress, HasRead, disk, Procs
<1>4. OneInit'
    BY <1>1 DEF TypeOK, OneInit, SaveRegister, Procs
<1>5. ASSUME NEW q \in Inits PROVE Progress(q)'
  <2>1. CASE q = p
      BY <1>1, <2>1 DEF SaveRegister, TypeOK, Chain, Promised, Progress, HasRead, disk, Procs
  <2>2. CASE q # p
      BY <1>1, <2>2 DEF SaveRegister, TypeOK, OneInit, Progress, disk, Procs
  <2> QED
      BY <2>1, <2>2
<1>6. ASSUME NEW q \in Procs PROVE HasRead(q)'
    BY <1>1 DEF SaveRegister, TypeOK, Chain, Promised, Progress, HasRead, disk, Procs
<1> QED
    BY <1>2, <1>3, <1>4, <1>5, <1>6

LEMMA StartPublishOrdered ==
    ASSUME InDirectory, Running, NEW p \in Publishers, StartPublish(p) PROVE Running'
<1> USE DEF Running, InDirectory
<1>1. p \in Procs /\ pc' = [pc EXCEPT ![p] = "load"]
    BY DEF StartPublish, Goto, Procs
<1>2. Chain'
    BY <1>1 DEF StartPublish, TypeOK, Chain, Promised, Progress, HasRead, disk, Where
<1>3. Promised'
    BY <1>1 DEF StartPublish, TypeOK, Chain, Promised, Progress, HasRead, disk, Where
<1>4. OneInit'
    BY <1>1 DEF TypeOK, OneInit, StartPublish, Procs
<1>5. ASSUME NEW q \in Inits PROVE Progress(q)'
  <2>1. CASE q = p
      BY <1>1, <2>1 DEF StartPublish, TypeOK, Chain, Promised, Progress, HasRead, disk, Where
  <2>2. CASE q # p
      BY <1>1, <2>2 DEF StartPublish, TypeOK, OneInit, Progress, disk, Procs
  <2> QED
      BY <2>1, <2>2
<1>6. ASSUME NEW q \in Procs PROVE HasRead(q)'
    BY <1>1 DEF StartPublish, TypeOK, Chain, Promised, Progress, HasRead, disk, Where
<1> QED
    BY <1>2, <1>3, <1>4, <1>5, <1>6

LEMMA LoadCAOrdered ==
    ASSUME InDirectory, Running, NEW p \in Procs, LoadCA(p) PROVE Running'
<1> USE DEF Running, InDirectory
<1>1. p \in Procs /\ pc' = [pc EXCEPT ![p] = "crl"]
    BY DEF LoadCA, Goto, Procs
<1>2. Chain'
    BY <1>1 DEF LoadCA, TypeOK, Chain, Promised, Progress, HasRead, disk, CAKeyAt, Where
<1>3. Promised'
    BY <1>1 DEF LoadCA, TypeOK, Chain, Promised, Progress, HasRead, disk, CAKeyAt, Where
<1>4. OneInit'
    BY <1>1 DEF TypeOK, OneInit, LoadCA, Procs
<1>5. ASSUME NEW q \in Inits PROVE Progress(q)'
  <2>1. CASE q = p
      BY <1>1, <2>1 DEF LoadCA, TypeOK, Chain, Promised, Progress, HasRead, disk, CAKeyAt, Where
  <2>2. CASE q # p
      BY <1>1, <2>2 DEF LoadCA, TypeOK, OneInit, Progress, disk, Procs
  <2> QED
      BY <2>1, <2>2
<1>6. ASSUME NEW q \in Procs PROVE HasRead(q)'
    BY <1>1 DEF LoadCA, TypeOK, Chain, Promised, Progress, HasRead, disk, CAKeyAt, Where
<1> QED
    BY <1>2, <1>3, <1>4, <1>5, <1>6

LEMMA WriteCRLOrdered ==
    ASSUME InDirectory, Running, NEW p \in Procs, WriteCRL(p) PROVE Running'
<1> USE DEF Running, InDirectory
<1>1. p \in Procs /\ pc' = [pc EXCEPT ![p] = "list"]
    BY DEF WriteCRL, Goto, Procs
<1>2. Chain'
    BY <1>1 DEF WriteCRL, TypeOK, Chain, Promised, Progress, HasRead, disk
<1>3. Promised'
    BY <1>1 DEF WriteCRL, TypeOK, Chain, Promised, Progress, HasRead, disk
<1>4. OneInit'
    BY <1>1 DEF TypeOK, OneInit, WriteCRL, Procs
<1>5. ASSUME NEW q \in Inits PROVE Progress(q)'
  <2>1. CASE q = p
      BY <1>1, <2>1 DEF WriteCRL, TypeOK, Chain, Promised, Progress, HasRead, disk
  <2>2. CASE q # p
      BY <1>1, <2>2 DEF WriteCRL, TypeOK, OneInit, Progress, HasRead, disk, Procs
  <2> QED
      BY <2>1, <2>2
<1>6. ASSUME NEW q \in Procs PROVE HasRead(q)'
    BY <1>1 DEF WriteCRL, TypeOK, Chain, Promised, Progress, HasRead, disk
<1> QED
    BY <1>2, <1>3, <1>4, <1>5, <1>6

LEMMA WriteListOrdered ==
    ASSUME InDirectory, Running, NEW p \in Procs, WriteList(p) PROVE Running'
<1> USE DEF Running, InDirectory
<1>1. p \in Procs /\ pc' = [pc EXCEPT ![p] = "idle"]
    BY DEF WriteList, Goto, Procs
<1>2. Chain'
    BY <1>1 DEF WriteList, TypeOK, Chain, Promised, Progress, HasRead, disk, RegistrarKeyAt, Where, NoList, NoRegistrar
<1>3. Promised'
    BY <1>1 DEF WriteList, TypeOK, Chain, Promised, Progress, HasRead, disk, RegistrarKeyAt, Where, NoList, NoRegistrar
<1>4. OneInit'
    BY <1>1 DEF TypeOK, OneInit, WriteList, Procs
<1>5. ASSUME NEW q \in Inits PROVE Progress(q)'
  <2>1. CASE q = p
      BY <1>1, <2>1 DEF WriteList, TypeOK, Chain, Promised, Progress, HasRead, disk, RegistrarKeyAt, Where, NoList, NoRegistrar
  <2>2. CASE q # p
      BY <1>1, <2>2 DEF WriteList, TypeOK, OneInit, Progress, disk, Procs
  <2> QED
      BY <2>1, <2>2
<1>6. ASSUME NEW q \in Procs PROVE HasRead(q)'
    BY <1>1 DEF WriteList, TypeOK, Chain, Promised, Progress, HasRead, disk, RegistrarKeyAt, Where, NoList, NoRegistrar
<1> QED
    BY <1>2, <1>3, <1>4, <1>5, <1>6

LEMMA FailOrdered ==
    ASSUME InDirectory, Running, NEW p \in Procs, Fail(p) PROVE Running'
<1> USE DEF Running, InDirectory
<1>1. p \in Procs /\ pc' = [pc EXCEPT ![p] = "idle"]
    BY DEF Fail, Goto, Procs
<1>2. Chain'
    BY <1>1 DEF Fail, TypeOK, Chain, Promised, Progress, HasRead, disk, Procs
<1>3. Promised'
    BY <1>1 DEF Fail, TypeOK, Chain, Promised, Progress, HasRead, disk, Procs
<1>4. OneInit'
    BY <1>1 DEF TypeOK, OneInit, Fail, Procs
<1>5. ASSUME NEW q \in Inits PROVE Progress(q)'
  <2>1. CASE q = p
      BY <1>1, <2>1 DEF Fail, TypeOK, Chain, Promised, Progress, HasRead, disk, Procs
  <2>2. CASE q # p
      BY <1>1, <2>2 DEF Fail, TypeOK, OneInit, Progress, disk, Procs
  <2> QED
      BY <2>1, <2>2
<1>6. ASSUME NEW q \in Procs PROVE HasRead(q)'
    BY <1>1 DEF Fail, TypeOK, Chain, Promised, Progress, HasRead, disk, Procs
<1> QED
    BY <1>2, <1>3, <1>4, <1>5, <1>6

LEMMA OrderedInit == Init => Ordered
  BY DEF Init, Ordered, Running, Chain, Promised, OneInit, Progress, HasRead, Procs, NoRegistrar, NoList

LEMMA OrderedStep == InDirectory /\ Ordered /\ [Next]_vars => Ordered'
<1> SUFFICES ASSUME InDirectory, Ordered, [Next]_vars PROVE Ordered'
    OBVIOUS
<1>1. ASSUME NEW p \in Inits, StartInit(p) PROVE Ordered'
    BY <1>1, StartInitOrdered
<1>2. ASSUME Running => Running', alone' = alone PROVE Ordered'
    BY <1>2, Zenon DEF Ordered, Running
<1>3. ASSUME NEW p \in Inits, InitStep(p), ~StartInit(p) PROVE Ordered'
  <2>1. Running => Running'
      BY <1>3, CreateOrdered, WriteCACertOrdered, WriteCAKeyOrdered, WriteRegistrarCertOrdered,
         WriteRegistrarKeyOrdered, SaveRegisterOrdered DEF InitStep
  <2>2. alone' = alone
      BY <1>3 DEF InitStep, Create, WriteCACert, WriteCAKey, WriteRegistrarCert,
         WriteRegistrarKey, SaveRegister
  <2> QED
      BY <1>2, <2>1, <2>2
<1>4. ASSUME NEW p \in Publishers, StartPublish(p) PROVE Ordered'
    BY <1>2, <1>4, StartPublishOrdered DEF StartPublish
<1>5. ASSUME NEW p \in Procs, PublishStep(p) \/ Fail(p) PROVE Ordered'
  <2>1. Running => Running'
      BY <1>5, LoadCAOrdered, WriteCRLOrdered, WriteListOrdered, FailOrdered DEF PublishStep
  <2>2. alone' = alone
      BY <1>5 DEF PublishStep, LoadCA, WriteCRL, WriteList, Fail
  <2> QED
      BY <1>2, <2>1, <2>2
<1>6. CASE UNCHANGED vars
    BY <1>2, <1>6 DEF vars, disk, Running, Chain, Promised, OneInit, Progress, HasRead
<1> QED
    BY <1>1, <1>3, <1>4, <1>5, <1>6 DEF Next

LEMMA DirectoryOrdered == Spec => [](InDirectory /\ Ordered)
  BY TypesInit, TypesStep, OrderedInit, OrderedStep, PTL DEF Spec

\* The trust anchor: while no two inits are under way, the certificate relying parties
\* have configured is never replaced, nor is its key lost to another.
THEOREM TrustAnchorKept == Spec => []AnchorKept
<1>1. InDirectory /\ Ordered => AnchorKept
    BY DEF Ordered, Running, Chain, AnchorKept, InDirectory, TypeOK
<1> QED
    BY <1>1, DirectoryOrdered, PTL

\* What is published verifies: the CRL and the status list under the certificates in the
\* directory, whatever the init that was to write them came to.
THEOREM PublicationsVerify == Spec => []PublishedVerifies
<1>1. InDirectory /\ Ordered => PublishedVerifies
    BY DEF Ordered, Running, Chain, PublishedVerifies
<1> QED
    BY <1>1, DirectoryOrdered, PTL

\* An init that reports success leaves the keys of the certificates where the register says
\* they are.
THEOREM SuccessIsUsable == Spec => []InitialisedIsUsable
<1>1. ASSUME InDirectory, Ordered, alone, made
      PROVE  /\ register \in {"file", "token"}
             /\ caPem = CAKeyAt(register)
             /\ regPem = [key |-> RegistrarKeyAt(register), signer |-> caPem]
             /\ crl = caPem /\ list # NoList
  <2>1. /\ register \in {"file", "token"} /\ crl = caPem /\ list # NoList
        /\ regPem # NoRegistrar /\ regPem.signer = caPem
      BY <1>1 DEF Ordered, Running, Promised, Chain
  <2>2. caPem = CAKeyAt(register)
      BY <1>1, <2>1 DEF Ordered, Running, Promised, Chain, CAKeyAt, Where
  <2>3. regPem.key = RegistrarKeyAt(register)
      BY <1>1, <2>1 DEF Ordered, Running, Promised, Chain, RegistrarKeyAt, Where
  <2>4. regPem = [key |-> regPem.key, signer |-> regPem.signer]
      BY <1>1, <2>1 DEF InDirectory, TypeOK
  <2> QED
      BY <2>1, <2>2, <2>3, <2>4
<1>2. InDirectory /\ Ordered => InitialisedIsUsable
    BY <1>1 DEF InitialisedIsUsable
<1> QED
    BY <1>2, DirectoryOrdered, PTL

\* A deployment whose register says its keys are on the token has no key in a file, whatever
\* was tried before.
THEOREM NoKeyOnDisk == Spec => []TokenKeysOnly
<1>1. InDirectory /\ Ordered => TokenKeysOnly
    BY DEF Ordered, Running, Promised, TokenKeysOnly
<1> QED
    BY <1>1, DirectoryOrdered, PTL
=============================================================================
