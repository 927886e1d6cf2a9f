------------------------------ MODULE Issuance ------------------------------
(***************************************************************************)
(* What is issued from what was asked for: the checks a client spec passes *)
(* (pkg/clientspec), the certificate the CA makes of it (pkg/wrpac), the   *)
(* registration certificate minted beside it (pkg/wrprc), and when `apply` *)
(* takes what it issued earlier to be up to date (the fingerprint).        *)
(*                                                                         *)
(* One client, and commands run whole: Deployment has their interleavings, *)
(* and the clients that are revoked or removed. A text is a short string,  *)
(* "" when it was left out; a hash is the value hashed.                    *)
(***************************************************************************)
EXTENDS Naturals, Sequences, FiniteSets

CONSTANTS
    SpecFiles,   \* the YAML documents the operator may commit
    Flags,       \* the command lines of `issue` he may type
    Keys,        \* the keys whose CSR can be read and passes its own signature check
    Weeks(_),    \* what a text is as a duration: 0 if it is none, or not positive
    BadURIs,     \* the texts that are no URI a certificate can carry
    NotIA5,      \* the texts that are not ASCII
    NotUTF8,     \* the texts that are not UTF-8
    Absent       \* no file, no entry, no certificate, no token

ASSUME AbsentAssumption == Absent \notin SpecFiles
ASSUME TextsAssumption == "" \notin BadURIs \cup NotIA5 \cup NotUTF8
ASSUME KeysAssumption == "generated" \notin Keys

VARIABLES
    file,       \* the client's spec file
    entry,      \* its register entry: fingerprint, certificate, token
    produced,   \* the certificate signed and the token minted by the last command
    outcome     \* how the last command ended

vars == <<file, entry, produced, outcome>>

----------------------------------------------------------------------------
\* Client specs.

Kind(f) == IF f.kind = "" THEN "legal" ELSE f.kind

Assurance(f) == IF f.assurance = "" THEN "normalised" ELSE f.assurance

\* A year if nothing is said.
Duration(validity) == IF validity = "" THEN 52 ELSE Weeks(validity)

\* LoadFile. An unknown field, or one that is misspelled, is refused.
Accepts(f) ==
    /\ f.fields = "known"
    /\ f.name # "" /\ f.identifier # ""
    /\ f.support # "" \/ f.email # ""
    /\ f.entitlements # <<>>
    /\ Kind(f) \in {"legal", "natural"}
    /\ Kind(f) = "legal" => f.organization # ""
    /\ Assurance(f) \in {"normalised", "qualified"}
    /\ \A i \in DOMAIN f.provides :
          (f.provides[i].vct = "") # (f.provides[i].doctype = "")
    /\ Duration(f.validity) > 0
    /\ f.csr \in Keys

\* A sorted list is known by how often each member is in it.
Sorted(list) == [e \in {list[i] : i \in DOMAIN list} |->
                   Cardinality({i \in DOMAIN list : list[i] = e})]

FingerprintKeyless(f) ==
    [name |-> f.name, organization |-> f.organization, given |-> f.given,
     surname |-> f.surname, identifier |-> f.identifier, country |-> f.country,
     support |-> f.support, email |-> f.email, kind |-> Kind(f),
     assurance |-> Assurance(f), entitlements |-> Sorted(f.entitlements),
     provides |-> f.provides, validity |-> f.validity]

Fingerprint(f) ==
    [name |-> f.name, organization |-> f.organization, given |-> f.given,
     surname |-> f.surname, identifier |-> f.identifier, country |-> f.country,
     support |-> f.support, email |-> f.email, kind |-> Kind(f),
     assurance |-> Assurance(f), entitlements |-> Sorted(f.entitlements),
     provides |-> f.provides, validity |-> f.validity, key |-> f.csr]

----------------------------------------------------------------------------
\* The access certificate.

\* What `apply` asks the CA for...
SpecRequest(f) ==
    [kind |-> Kind(f), level |-> IF Assurance(f) = "qualified" THEN "qcp" ELSE "ncp",
     name |-> f.name, organization |-> f.organization, given |-> f.given,
     surname |-> f.surname, country |-> f.country, identifier |-> f.identifier,
     support |-> f.support, email |-> f.email, weeks |-> Duration(f.validity),
     key |-> f.csr]

\* ...and `issue`, which names nobody and has the CA make a key.
FlagRequest(o) ==
    [kind |-> IF o.natural THEN "natural" ELSE "legal",
     level |-> IF o.qualified THEN "qcp" ELSE "ncp",
     name |-> o.name, organization |-> o.organization, given |-> "",
     surname |-> "", country |-> o.country, identifier |-> o.identifier,
     support |-> o.support, email |-> o.email, weeks |-> 52, key |-> "generated"]

\* PolicyOIDFor: the last arc of 0.4.0.194118.1.
PolicyOIDFor(kind, level) ==
    CASE kind = "natural" /\ level = "ncp" -> 1
      [] kind = "legal"   /\ level = "ncp" -> 2
      [] kind = "natural" /\ level = "qcp" -> 3
      [] kind = "legal"   /\ level = "qcp" -> 4

CertificateDuplicated(q) ==
    [name |-> q.name, country |-> q.country,
     organization |-> IF q.kind = "legal" THEN q.organization ELSE "",
     organizationIdentifier |-> IF q.kind = "legal" THEN q.identifier ELSE "",
     serialNumber |-> q.identifier,
     given |-> IF q.kind = "natural" THEN q.given ELSE "",
     surname |-> IF q.kind = "natural" THEN q.surname ELSE "",
     policy |-> PolicyOIDFor(q.kind, q.level),
     uri |-> q.support, email |-> q.email, weeks |-> q.weeks, key |-> q.key]

\* The two subject profiles. nonRepudiation is always set.
Certificate(q) ==
    LET only(kind, value) == IF q.kind = kind THEN value ELSE ""
    IN  [name |-> q.name, country |-> q.country,
         organization |-> only("legal", q.organization),
         organizationIdentifier |-> only("legal", q.identifier),
         serialNumber |-> only("natural", q.identifier),
         given |-> only("natural", q.given),
         surname |-> only("natural", q.surname),
         policy |-> PolicyOIDFor(q.kind, q.level),
         uri |-> q.support, email |-> q.email, weeks |-> q.weeks, key |-> q.key]

\* wrpac.Validate, which the CA applies to what it has just signed.
Conforms(c) == (c.uri # "" \/ c.email # "") /\ c.policy \in 1..4

\* Whether the certificate can be written, and read again. x509.CreateCertificate refuses
\* an attribute that is not UTF-8, and an e-mail address or URI that is not ASCII; a
\* URI is refused by url.Parse before that, or by x509.ParseCertificate after it if
\* its host is no domain.
Encodable(c) ==
    /\ {c.name, c.country, c.organization, c.organizationIdentifier, c.serialNumber,
        c.given, c.surname} \cap NotUTF8 = {}
    /\ c.email \notin NotIA5
    /\ c.uri \notin BadURIs

\* CA.Issue returns a certificate, and not an error.
Issues(q) ==
    /\ q.name # "" /\ q.identifier # ""
    /\ q.support # "" \/ q.email # ""
    /\ q.kind = "legal" => q.organization # ""
    /\ Encodable(Certificate(q))
    /\ Conforms(Certificate(q))

----------------------------------------------------------------------------
\* The registration certificate.

ProviderEntitlements == {"PID_Provider", "QEAA_Provider", "Non_Q_EAA_Provider",
                         "PUB_EAA_Provider"}

Credential(a) ==
    IF a.vct # "" THEN [format |-> "dc+sd-jwt", type |-> a.vct]
    ELSE [format |-> "mso_mdoc", type |-> a.doctype]

SpecPayload(f) ==
    [name |-> f.name, sub |-> f.identifier, legal |-> f.organization,
     given |-> f.given, family |-> f.surname, country |-> f.country,
     entitlements |-> f.entitlements,
     provides |-> [i \in DOMAIN f.provides |-> Credential(f.provides[i])],
     support |-> f.support]

\* `issue` lists the SD-JWT types first.
FlagPayload(o) ==
    LET credentials(format, types) ==
            [i \in DOMAIN types |-> [format |-> format, type |-> types[i]]]
    IN  [name |-> o.name, sub |-> o.identifier, legal |-> o.organization,
         given |-> "", family |-> "", country |-> o.country,
         entitlements |-> o.entitlements,
         provides |-> credentials("dc+sd-jwt", o.vct)
                        \o credentials("mso_mdoc", o.doctype),
         support |-> o.support]

\* Defects for the runs to find are defined before what they stand in for:
\* FingerprintKeyless, CertificateDuplicated and these two.
MintsAny(p) == p.entitlements # <<>> /\ p.sub # ""

MintsProviders(p) ==
    /\ p.entitlements # <<>>
    /\ p.sub # ""
    /\ \E i \in DOMAIN p.entitlements : p.entitlements[i] \in ProviderEntitlements

\* Signer.Mint returns a token. exp was left to its default, a year from now.
Mints(p) ==
    /\ p.entitlements # <<>>
    /\ p.sub # ""
    /\ p.provides # <<>> =>
          \E i \in DOMAIN p.entitlements : p.entitlements[i] \in ProviderEntitlements

----------------------------------------------------------------------------
Nothing == [cert |-> Absent, token |-> Absent]

Init ==
    /\ file \in SpecFiles \cup {Absent}
    /\ entry = Absent
    /\ produced = Nothing
    /\ outcome = "none"

Edit ==
    /\ file' \in SpecFiles \cup {Absent}
    /\ file' # file
    /\ produced' = Nothing
    /\ outcome' = "none"
    /\ UNCHANGED entry

UpToDate == entry # Absent /\ entry.fp = Fingerprint(file)

\* A spec that does not load stops `apply` before it does anything.
ApplyRefused ==
    /\ file # Absent
    /\ ~Accepts(file)
    /\ produced' = Nothing
    /\ outcome' = "refused"
    /\ UNCHANGED <<file, entry>>

ApplyUnchanged ==
    /\ file # Absent
    /\ Accepts(file)
    /\ UpToDate
    /\ produced' = Nothing
    /\ outcome' = "unchanged"
    /\ UNCHANGED <<file, entry>>

\* "issue" or "reissue". The certificate is signed, and kept in issued/, before
\* the token is minted: an error then leaves it behind, and nothing is saved.
ApplyIssue ==
    LET request == SpecRequest(file)
        payload == SpecPayload(file)
        cert    == IF Issues(request) THEN Certificate(request) ELSE Absent
    IN  /\ file # Absent
        /\ Accepts(file)
        /\ ~UpToDate
        /\ \/ /\ Issues(request) /\ Mints(payload)
              /\ produced' = [cert |-> cert, token |-> payload]
              /\ entry' = [fp |-> Fingerprint(file), cert |-> cert, token |-> payload]
              /\ outcome' = "issued"
           \/ /\ ~(Issues(request) /\ Mints(payload))
              /\ produced' = [cert |-> cert, token |-> Absent]
              /\ outcome' = "failed"
              /\ UNCHANGED entry
        /\ UNCHANGED file

\* `issue` checks the contact itself and leaves the rest to the CA. What it
\* registers has no client and no fingerprint, and no spec ever meets it.
RunIssue(o) ==
    LET request == FlagRequest(o)
        payload == FlagPayload(o)
    IN  /\ \/ /\ ~Issues(request)
              /\ produced' = Nothing
              /\ outcome' = "refused"
           \/ /\ Issues(request) /\ ~Mints(payload)
              /\ produced' = [cert |-> Certificate(request), token |-> Absent]
              /\ outcome' = "refused"
           \/ /\ Issues(request) /\ Mints(payload)
              /\ produced' = [cert |-> Certificate(request), token |-> payload]
              /\ outcome' = "issued"
        /\ UNCHANGED <<file, entry>>

Next == Edit \/ ApplyRefused \/ ApplyUnchanged \/ ApplyIssue
        \/ \E o \in Flags : RunIssue(o)

Spec == Init /\ [][Next]_vars

----------------------------------------------------------------------------
\* Equal, but for the order of the entitlements.
SameToken(t, u) == /\ [t EXCEPT !.entitlements = <<>>] = [u EXCEPT !.entitlements = <<>>]
                   /\ Sorted(t.entitlements) = Sorted(u.entitlements)

\* What `apply` leaves alone is what it would issue now: the fingerprint covers
\* "everything that affects what gets issued" (clientspec.go:107), through any
\* number of edits, refused specs and failed runs since it was taken.
UnchangedIsCurrent ==
    outcome = "unchanged" =>
        /\ entry.cert = Certificate(SpecRequest(file))
        /\ SameToken(entry.token, SpecPayload(file))

\* The identifier is in the one attribute its profile has for it and "never in
\* both" (issue.go:111-114), the other profile's attributes are empty, and the
\* policy is that profile's, at the level that was asked for; through either
\* command.
SubjectProfile ==
    LET c == produced.cert
    IN  c # Absent =>
          /\ (c.organizationIdentifier = "") # (c.serialNumber = "")
          /\ IF c.serialNumber = ""
             THEN c.policy \in {2, 4} /\ c.given = "" /\ c.surname = ""
             ELSE c.policy \in {1, 3} /\ c.organization = ""
          /\ outcome = "issued" /\ c.key \in Keys =>
                (c.policy \in {3, 4} <=> Assurance(file) = "qualified")

\* The two certificates of a party are about the same party, and the right to
\* issue is only asserted for one with a provider entitlement (mint.go:63-65).
PairAgrees ==
    LET c == produced.cert
        t == produced.token
    IN  t # Absent =>
          /\ t.sub \in {c.organizationIdentifier, c.serialNumber}
          /\ t.name = c.name /\ t.country = c.country /\ t.support = c.uri
          /\ t.provides # <<>> =>
               {t.entitlements[i] : i \in DOMAIN t.entitlements}
                  \cap ProviderEntitlements # {}

\* "Validate checks a spec is internally consistent and issuable" (clientspec.go:178):
\* the checks of the spec, of the CA and of the minter are three, made at different times,
\* and `apply` does not refuse a spec that was accepted. The code has two exceptions: texts
\* that its profile puts in the certificate and X.509 cannot carry there, and provides
\* without the entitlement to it. Errors of files, tokens and signers are Deployment's.
AcceptedIsIssuable ==
    outcome = "failed" =>
        \/ ~Encodable(Certificate(SpecRequest(file)))
        \/ /\ file.provides # <<>>
           /\ \A i \in DOMAIN file.entitlements :
                 file.entitlements[i] \notin ProviderEntitlements
=============================================================================
