------------------------------ MODULE Bootstrap ------------------------------
(***************************************************************************)
(* How a deployment directory comes to be (`init`, cmd/deploy.go), and     *)
(* what `publish` makes of whatever an `init` left there. An `init` writes *)
(* the register twice: bare, to claim the directory, and in full once the  *)
(* keys and certificates of the two trust services are in place. It may    *)
(* fail or be killed between any two files, and an operator tries again.   *)
(*                                                                         *)
(* A certificate is known by the key in it. Keys on a token exist already; *)
(* keys in files are made by `init`.                                       *)
(***************************************************************************)
EXTENDS Naturals

CONSTANTS
    Inits,        \* processes that run init
    Publishers,   \* processes that run publish
    FileKeys,     \* keys init may generate
    TokenCA, TokenRegistrar,   \* the two keys on the token
    Nobody        \* no file, no key

Keys == FileKeys \cup {TokenCA, TokenRegistrar}

ASSUME KeysAssumption == /\ Nobody \notin Keys
                         /\ TokenCA # TokenRegistrar
                         /\ {TokenCA, TokenRegistrar} \cap FileKeys = {}

ASSUME ProcsAssumption == Inits \cap Publishers = {}

Procs == Inits \cup Publishers

VARIABLES
    register,        \* register.json: none, bare, or full with its key references
    caPem, caKey,    \* ca.pem, ca.key
    regPem, regKey,  \* registrar.pem, with the key that signed it; registrar.key
    crl,             \* the key that signed public/crl.der
    list,            \* the key that signed public/status-list.jwt, and the
                     \* certificates in its x5c
    pc,
    refs,            \* where each init keeps its keys: file or token
    ca, reg,         \* the two keys each process works with
    x5c,             \* the ca.pem each process has read
    used,            \* keys generated so far
    anchors,         \* every key ca.pem has ever held (history)
    made,            \* some init has reported success (history)
    alone            \* no two inits have been under way at once (history)

disk == <<register, caPem, caKey, regPem, regKey, crl, list>>
vars == <<disk, pc, refs, ca, reg, x5c, used, anchors, made, alone>>

NoRegistrar == [key |-> Nobody, signer |-> Nobody]
NoList == [key |-> Nobody, registrar |-> NoRegistrar, ca |-> Nobody]

TypeOK ==
    /\ register \in {"none", "bare", "file", "token"}
    /\ {caPem, caKey, regKey, crl} \subseteq Keys \cup {Nobody}
    /\ regPem \in [key : Keys, signer : Keys] \cup {NoRegistrar}
    /\ list \in [key : Keys, registrar : [key : Keys, signer : Keys], ca : Keys]
                  \cup {NoList}
    /\ pc \in [Procs -> {"idle", "create", "ca.pem", "ca.key", "registrar.pem",
                         "registrar.key", "save", "load", "crl", "list"}]
    /\ refs \in [Procs -> {"file", "token"}]
    /\ \A f \in {ca, reg, x5c} : f \in [Procs -> Keys \cup {Nobody}]
    /\ used \subseteq FileKeys
    /\ anchors \subseteq Keys
    /\ {made, alone} \subseteq BOOLEAN

Init ==
    /\ register = "none"
    /\ caPem = Nobody /\ caKey = Nobody /\ regKey = Nobody
    /\ regPem = NoRegistrar
    /\ crl = Nobody
    /\ list = NoList
    /\ pc = [p \in Procs |-> "idle"]
    /\ refs = [p \in Procs |-> "file"]
    /\ ca = [p \in Procs |-> Nobody]
    /\ reg = [p \in Procs |-> Nobody]
    /\ x5c = [p \in Procs |-> Nobody]
    /\ used = {} /\ anchors = {}
    /\ made = FALSE /\ alone = TRUE

Goto(p, step) == pc' = [pc EXCEPT ![p] = step]

----------------------------------------------------------------------------
\* init. Defects for the runs to find are defined before what they stand in for.

StartInitAnyway(p) ==
    /\ pc[p] = "idle"
    /\ register # "file"
    /\ \E r \in {"file", "token"} : refs' = [refs EXCEPT ![p] = r]
    /\ Goto(p, "create")
    /\ alone' = (alone /\ \A q \in Inits : pc[q] = "idle")
    /\ UNCHANGED <<disk, ca, reg, x5c, used, anchors, made>>

\* Create looks for the register: another init is refused.
StartInit(p) ==
    /\ pc[p] = "idle"
    /\ register = "none"
    /\ \E r \in {"file", "token"} : refs' = [refs EXCEPT ![p] = r]
    /\ Goto(p, "create")
    /\ alone' = (alone /\ \A q \in Inits : pc[q] = "idle")
    /\ UNCHANGED <<disk, ca, reg, x5c, used, anchors, made>>

\* Create saves a register without key references. Only then are the labels
\* looked at, and the token opened: an error there is a Fail in "ca.pem".
Create(p) ==
    /\ pc[p] = "create"
    /\ register' = "bare"
    /\ \E k \in IF refs[p] = "token" THEN {TokenCA} ELSE FileKeys \ used :
          /\ ca' = [ca EXCEPT ![p] = k]
          /\ used' = used \cup ({k} \cap FileKeys)
    /\ Goto(p, "ca.pem")
    /\ UNCHANGED <<caPem, caKey, regPem, regKey, crl, list, refs, reg, x5c,
                   anchors, made, alone>>

WriteCACert(p) ==
    /\ pc[p] = "ca.pem"
    /\ caPem' = ca[p]
    /\ Goto(p, IF refs[p] = "token" THEN "registrar.pem" ELSE "ca.key")
    /\ anchors' = anchors \cup {ca[p]}
    /\ UNCHANGED <<register, caKey, regPem, regKey, crl, list, refs, ca, reg,
                   x5c, used, made, alone>>

WriteCAKey(p) ==
    /\ pc[p] = "ca.key"
    /\ caKey' = ca[p]
    /\ Goto(p, "registrar.pem")
    /\ UNCHANGED <<register, caPem, regPem, regKey, crl, list, refs, ca, reg,
                   x5c, used, anchors, made, alone>>

WriteRegistrarCertUnsigned(p) ==
    /\ pc[p] = "registrar.pem"
    /\ \E k \in IF refs[p] = "token" THEN {TokenRegistrar} ELSE FileKeys \ used :
          /\ reg' = [reg EXCEPT ![p] = k]
          /\ used' = used \cup ({k} \cap FileKeys)
          /\ regPem' = [key |-> k, signer |-> x5c[p]]
    /\ Goto(p, IF refs[p] = "token" THEN "save" ELSE "registrar.key")
    /\ UNCHANGED <<register, caPem, caKey, regKey, crl, list, refs, ca, x5c,
                   anchors, made, alone>>

\* The CA in memory signs the registrar's key, a key of its own.
WriteRegistrarCert(p) ==
    /\ pc[p] = "registrar.pem"
    /\ \E k \in IF refs[p] = "token" THEN {TokenRegistrar} ELSE FileKeys \ used :
          /\ reg' = [reg EXCEPT ![p] = k]
          /\ used' = used \cup ({k} \cap FileKeys)
          /\ regPem' = [key |-> k, signer |-> ca[p]]
    /\ Goto(p, IF refs[p] = "token" THEN "save" ELSE "registrar.key")
    /\ UNCHANGED <<register, caPem, caKey, regKey, crl, list, refs, ca, x5c,
                   anchors, made, alone>>

WriteRegistrarKeyAlways(p) ==
    /\ pc[p] \in {"registrar.key", "save"}
    /\ regKey' = reg[p]
    /\ Goto(p, "save")
    /\ UNCHANGED <<register, caPem, caKey, regPem, crl, list, refs, ca, reg,
                   x5c, used, anchors, made, alone>>

WriteRegistrarKey(p) ==
    /\ pc[p] = "registrar.key"
    /\ regKey' = reg[p]
    /\ Goto(p, "save")
    /\ UNCHANGED <<register, caPem, caKey, regPem, crl, list, refs, ca, reg,
                   x5c, used, anchors, made, alone>>

SaveRegisterUnreferenced(p) ==
    /\ pc[p] = "save"
    /\ register' = "file"
    /\ Goto(p, "load")
    /\ UNCHANGED <<caPem, caKey, regPem, regKey, crl, list, refs, ca, reg,
                   x5c, used, anchors, made, alone>>

SaveRegister(p) ==
    /\ pc[p] = "save"
    /\ register' = refs[p]
    /\ Goto(p, "load")
    /\ UNCHANGED <<caPem, caKey, regPem, regKey, crl, list, refs, ca, reg,
                   x5c, used, anchors, made, alone>>

----------------------------------------------------------------------------
\* publish, by init or as a command of its own, on whatever there is.

\* CAKeyRef and RegistrarKeyRef: a register without references means the files.
Where(r) == IF r = "token" THEN "token" ELSE "file"

\* The keys the references resolve to; Nobody if the file is not there.
CAKeyAt(r) == IF Where(r) = "token" THEN TokenCA ELSE caKey
RegistrarKeyAtCA(r) == CAKeyAt(r)

RegistrarKeyAt(r) == IF Where(r) = "token" THEN TokenRegistrar ELSE regKey

\* store.Open.
StartPublish(p) ==
    /\ pc[p] = "idle"
    /\ register # "none"
    /\ refs' = [refs EXCEPT ![p] = Where(register)]
    /\ Goto(p, "load")
    /\ UNCHANGED <<disk, ca, reg, x5c, used, anchors, made, alone>>

\* loadCA reads ca.pem and resolves the CA's key.
LoadCA(p) ==
    /\ pc[p] = "load"
    /\ caPem # Nobody
    /\ CAKeyAt(refs[p]) # Nobody
    /\ x5c' = [x5c EXCEPT ![p] = caPem]
    /\ ca' = [ca EXCEPT ![p] = CAKeyAt(refs[p])]
    /\ Goto(p, "crl")
    /\ UNCHANGED <<disk, refs, reg, used, anchors, made, alone>>

WriteCRL(p) ==
    /\ pc[p] = "crl"
    /\ crl' = ca[p]
    /\ Goto(p, "list")
    /\ UNCHANGED <<register, caPem, caKey, regPem, regKey, list, refs, ca,
                   reg, x5c, used, anchors, made, alone>>

\* The registrar's certificate and key are read only now. The public register
\* that follows holds nothing of theirs.
WriteList(p) ==
    /\ pc[p] = "list"
    /\ regPem # NoRegistrar
    /\ RegistrarKeyAt(refs[p]) # Nobody
    /\ list' = [key |-> RegistrarKeyAt(refs[p]), registrar |-> regPem, ca |-> x5c[p]]
    /\ made' = (made \/ p \in Inits)
    /\ Goto(p, "idle")
    /\ UNCHANGED <<register, caPem, caKey, regPem, regKey, crl, refs, ca,
                   reg, x5c, used, anchors, alone>>

\* An error return, or the end of the process.
Fail(p) ==
    /\ pc[p] # "idle"
    /\ Goto(p, "idle")
    /\ UNCHANGED <<disk, refs, ca, reg, x5c, used, anchors, made, alone>>

InitStep(p) == \/ StartInit(p) \/ Create(p) \/ WriteCACert(p) \/ WriteCAKey(p)
               \/ WriteRegistrarCert(p) \/ WriteRegistrarKey(p) \/ SaveRegister(p)

PublishStep(p) == LoadCA(p) \/ WriteCRL(p) \/ WriteList(p)

Next == \/ \E p \in Inits : InitStep(p)
        \/ \E p \in Publishers : StartPublish(p)
        \/ \E p \in Procs : PublishStep(p) \/ Fail(p)

Spec == Init /\ [][Next]_vars

----------------------------------------------------------------------------
\* However many inits fail and are tried again, the CA certificate relying
\* parties have configured is never replaced, nor is its key lost to another
\* (deploy.go:64-66, store.go:165-167). Two inits at once may both find the
\* directory free: here and below it is so as long as no two were under way.
AnchorKept ==
    alone => /\ anchors \subseteq {caPem}
             /\ caKey \in {Nobody} \cup anchors

\* What is published always verifies: the CRL under ca.pem, the status list
\* under registrar.pem, and that under ca.pem; also when the scheduled publish
\* met a directory whose init was not finished, or never will be.
PublishedVerifies ==
    alone => /\ crl # Nobody => crl = caPem
             /\ list # NoList => /\ list.ca = caPem
                                 /\ list.registrar.signer = caPem
                                 /\ list.key = list.registrar.key

\* When an init has reported success, every command finds what it needs, and the
\* keys are those in the certificates.
InitialisedIsUsable ==
    alone /\ made =>
        /\ register \in {"file", "token"}
        /\ caPem = CAKeyAt(register)
        /\ regPem = [key |-> RegistrarKeyAt(register), signer |-> caPem]
        /\ crl = caPem /\ list # NoList

\* "With --pkcs11-module no private key is written to disk" (README.md:89): on a
\* deployment whose keys are on the token, whatever was tried before.
TokenKeysOnly ==
    alone /\ register = "token" => caKey = Nobody /\ regKey = Nobody
=============================================================================
