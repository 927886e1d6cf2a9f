--------------------------- MODULE IssuanceProofs ---------------------------
(***************************************************************************)
(* Theorems about Issuance, for every set of spec documents and command    *)
(* lines, whatever texts are in them, and whatever texts are durations,    *)
(* URLs and readable CSRs. The inductive invariant is Registered: what the *)
(* register has was issued, as a whole, from one accepted document.        *)
(***************************************************************************)
EXTENDS Issuance, TLAPS

IssuedFrom(f) == [fp |-> Fingerprint(f), cert |-> Certificate(SpecRequest(f)),
                  token |-> SpecPayload(f)]

Registered ==
    /\ file \in SpecFiles \cup {Absent}
    /\ entry # Absent => \E f \in SpecFiles : Accepts(f) /\ entry = IssuedFrom(f)

----------------------------------------------------------------------------
\* What the operators return.

\* Documents with one fingerprint ask for one certificate and for one token, but for
\* the order of its entitlements.
LEMMA FingerprintDecides ==
    ASSUME NEW f, NEW g, Fingerprint(f) = Fingerprint(g)
    PROVE  /\ SpecRequest(f) = SpecRequest(g)
           /\ SameToken(SpecPayload(f), SpecPayload(g))
<1>1. /\ f.name = g.name /\ f.organization = g.organization /\ f.given = g.given
      /\ f.surname = g.surname /\ f.identifier = g.identifier /\ f.country = g.country
      /\ f.support = g.support /\ f.email = g.email /\ f.provides = g.provides
      /\ f.validity = g.validity /\ f.csr = g.csr
  BY DEF Fingerprint
<1>2. Kind(f) = Kind(g) /\ Assurance(f) = Assurance(g)
  BY DEF Fingerprint
<1>3. Sorted(f.entitlements) = Sorted(g.entitlements)
  BY DEF Fingerprint
<1>4. SpecRequest(f) = SpecRequest(g)
  BY <1>1, <1>2 DEF SpecRequest
<1>5. SameToken(SpecPayload(f), SpecPayload(g))
  <2>1. [SpecPayload(f) EXCEPT !.entitlements = <<>>]
          = [SpecPayload(g) EXCEPT !.entitlements = <<>>]
    <3>1. [i \in DOMAIN f.provides |-> Credential(f.provides[i])]
            = [i \in DOMAIN g.provides |-> Credential(g.provides[i])]
      BY <1>1
    <3> DEFINE token(ent, prov) ==
          [name |-> f.name, sub |-> f.identifier, legal |-> f.organization,
           given |-> f.given, family |-> f.surname, country |-> f.country,
           entitlements |-> ent, provides |-> prov, support |-> f.support]
    <3>2. \A ent, prov : [token(ent, prov) EXCEPT !.entitlements = <<>>] = token(<<>>, prov)
      OBVIOUS
    <3>3. /\ SpecPayload(f) = token(f.entitlements,
                                    [i \in DOMAIN f.provides |-> Credential(f.provides[i])])
          /\ SpecPayload(g) = token(g.entitlements,
                                    [i \in DOMAIN g.provides |-> Credential(g.provides[i])])
      BY <1>1 DEF SpecPayload
    <3> HIDE DEF token
    <3> QED BY <3>1, <3>2, <3>3
  <2> QED BY <1>3, <2>1 DEF SameToken, SpecPayload
<1> QED BY <1>4, <1>5

\* A request for one of the two profiles, at one of the two levels.
ProfileRequest(q) == q.kind \in {"legal", "natural"} /\ q.level \in {"ncp", "qcp"}

LEMMA SpecAsksProfile ==
    ASSUME NEW f, Accepts(f)
    PROVE  /\ ProfileRequest(SpecRequest(f))
           /\ SpecRequest(f).level = "qcp" <=> Assurance(f) = "qualified"
BY DEF Accepts, ProfileRequest, SpecRequest

LEMMA FlagsAskProfile ==
    ASSUME NEW o
    PROVE  ProfileRequest(FlagRequest(o)) /\ FlagRequest(o).key = "generated"
BY DEF ProfileRequest, FlagRequest

\* One policy for each profile and level, and CA.Issue's own check of it passes.
LEMMA PolicyIsProfile ==
    ASSUME NEW q, ProfileRequest(q)
    PROVE  /\ PolicyOIDFor(q.kind, q.level) \in 1..4
           /\ PolicyOIDFor(q.kind, q.level) \in {2, 4} <=> q.kind = "legal"
           /\ PolicyOIDFor(q.kind, q.level) \in {1, 3} <=> q.kind = "natural"
           /\ PolicyOIDFor(q.kind, q.level) \in {3, 4} <=> q.level = "qcp"
BY DEF ProfileRequest, PolicyOIDFor

\* What is signed has the attributes of its profile and no others.
Follows(c, q) ==
    /\ (c.organizationIdentifier = "") # (c.serialNumber = "")
    /\ IF c.serialNumber = ""
       THEN c.policy \in {2, 4} /\ c.given = "" /\ c.surname = ""
       ELSE c.policy \in {1, 3} /\ c.organization = ""
    /\ c.policy \in {3, 4} <=> q.level = "qcp"
    /\ q.identifier \in {c.organizationIdentifier, c.serialNumber}
    /\ c.name = q.name /\ c.country = q.country /\ c.uri = q.support
    /\ c.key = q.key

LEMMA CertificateFollowsProfile ==
    ASSUME NEW q, ProfileRequest(q), Issues(q)
    PROVE  Follows(Certificate(q), q)
<1> DEFINE c == Certificate(q)
<1>1. /\ c.name = q.name /\ c.country = q.country /\ c.uri = q.support
      /\ c.key = q.key /\ c.policy = PolicyOIDFor(q.kind, q.level)
  BY DEF Certificate
<1>2. q.identifier # ""
  BY DEF Issues
<1>3. CASE q.kind = "legal"
  <2>1. /\ c.organizationIdentifier = q.identifier /\ c.serialNumber = ""
        /\ c.given = "" /\ c.surname = ""
    BY <1>3 DEF Certificate
  <2> HIDE DEF c
  <2>2. Follows(c, q)
    BY <1>1, <1>2, <1>3, <2>1, PolicyIsProfile DEF Follows
  <2> QED BY <2>2 DEF c
<1>4. CASE q.kind = "natural"
  <2>1. /\ c.organizationIdentifier = "" /\ c.serialNumber = q.identifier
        /\ c.organization = ""
    BY <1>4 DEF Certificate
  <2> HIDE DEF c
  <2>2. Follows(c, q)
    BY <1>1, <1>2, <1>4, <2>1, PolicyIsProfile DEF Follows
  <2> QED BY <2>2 DEF c
<1> QED BY <1>3, <1>4 DEF ProfileRequest

\* What CA.Issue asks of a spec beyond Validate is that its texts can be written.
LEMMA AcceptedIsSigned ==
    ASSUME NEW f, Accepts(f), Encodable(Certificate(SpecRequest(f)))
    PROVE  Issues(SpecRequest(f))
<1> DEFINE q == SpecRequest(f)
<1>1. /\ q.name # "" /\ q.identifier # "" /\ (q.support # "" \/ q.email # "")
      /\ q.kind = "legal" => q.organization # ""
  BY DEF Accepts, SpecRequest
<1>2. Conforms(Certificate(q))
  <2>1. PolicyOIDFor(q.kind, q.level) \in 1..4
    BY SpecAsksProfile, PolicyIsProfile
  <2>2. /\ Certificate(q).uri = q.support /\ Certificate(q).email = q.email
        /\ Certificate(q).policy = PolicyOIDFor(q.kind, q.level)
    BY DEF Certificate
  <2> QED BY <1>1, <2>1, <2>2 DEF Conforms
<1> QED BY <1>1, <1>2 DEF Issues

\* What Mint asks of it beyond Validate is an entitlement to what it provides.
LEMMA AcceptedIsMinted ==
    ASSUME NEW f, Accepts(f),
           f.provides # <<>> => \E i \in DOMAIN f.entitlements :
                                   f.entitlements[i] \in ProviderEntitlements
    PROVE  Mints(SpecPayload(f))
<1> DEFINE p == SpecPayload(f)
<1>1. p.entitlements = f.entitlements /\ p.sub = f.identifier
  BY DEF SpecPayload
<1>2. f.provides = <<>> => p.provides = <<>>
  BY DEF SpecPayload
<1> QED BY <1>1, <1>2 DEF Accepts, Mints

----------------------------------------------------------------------------
\* The invariant.

LEMMA RegisteredInvariance == Spec => []Registered
<1>1. Init => Registered
  BY DEF Init, Registered
<1>2. Registered /\ [Next]_vars => Registered'
  <2> SUFFICES ASSUME Registered, [Next]_vars PROVE Registered'
    OBVIOUS
  <2>1. CASE Edit
    BY <2>1 DEF Edit, Registered
  <2>2. CASE ApplyIssue
    <3>1. file \in SpecFiles /\ Accepts(file) /\ file' = file
      BY <2>2 DEF ApplyIssue, Registered
    <3>2. entry' = entry \/ entry' = IssuedFrom(file)
      BY <2>2 DEF ApplyIssue, IssuedFrom
    <3> QED BY <3>1, <3>2 DEF Registered
  <2>3. CASE UNCHANGED <<file, entry>>
    BY <2>3 DEF Registered
  <2> QED BY <2>1, <2>2, <2>3 DEF Next, ApplyRefused, ApplyUnchanged, RunIssue, vars
<1> QED BY <1>1, <1>2, PTL DEF Spec

\* What the last command made, and how it ended: nothing, or what the file or some
\* command line asks for.
Made(q, p) ==
    /\ produced.cert # Absent => Issues(q) /\ produced.cert = Certificate(q)
    /\ produced.token # Absent =>
          Issues(q) /\ produced.cert = Certificate(q) /\ Mints(p) /\ produced.token = p

Result ==
    \/ produced = Nothing /\ outcome \notin {"unchanged", "failed"}
    \/ produced = Nothing /\ outcome = "unchanged" /\ UpToDate
    \/ /\ file # Absent /\ Accepts(file)
       /\ Made(SpecRequest(file), SpecPayload(file))
       /\ outcome \in {"issued", "failed"}
       /\ outcome = "failed" => ~(Issues(SpecRequest(file)) /\ Mints(SpecPayload(file)))
    \/ /\ \E o \in Flags : Made(FlagRequest(o), FlagPayload(o))
       /\ outcome \in {"issued", "refused"}

LEMMA ResultInvariance == Spec => []Result
<1>1. Init => Result
  BY DEF Init, Result
<1>2. Result /\ [Next]_vars => Result'
  <2> SUFFICES ASSUME Result, [Next]_vars PROVE Result'
    OBVIOUS
  <2>1. CASE Edit
    BY <2>1 DEF Edit, Result
  <2>2. CASE ApplyRefused
    BY <2>2 DEF ApplyRefused, Result
  <2>3. CASE ApplyUnchanged
    BY <2>3 DEF ApplyUnchanged, Result, UpToDate
  <2>4. CASE ApplyIssue
    BY <2>4 DEF ApplyIssue, Result, Made
  <2>5. ASSUME NEW o \in Flags, RunIssue(o) PROVE Result'
    BY <2>5 DEF RunIssue, Result, Made, Nothing
  <2>6. CASE UNCHANGED vars
    BY <2>6 DEF vars, Result, Made, UpToDate
  <2> QED BY <2>1, <2>2, <2>3, <2>4, <2>5, <2>6 DEF Next
<1> QED BY <1>1, <1>2, PTL DEF Spec

----------------------------------------------------------------------------
\* The theorems.

\* Whatever was edited, refused or failed since: what `apply` leaves alone is what it
\* would issue now (clientspec.go:107).
THEOREM LeftAloneIsCurrent == Spec => []UnchangedIsCurrent
<1>1. Registered /\ Result => UnchangedIsCurrent
  <2> SUFFICES ASSUME Registered, Result, outcome = "unchanged"
               PROVE  /\ entry.cert = Certificate(SpecRequest(file))
                      /\ SameToken(entry.token, SpecPayload(file))
    BY DEF UnchangedIsCurrent
  <2>1. UpToDate
    BY DEF Result
  <2>2. PICK f \in SpecFiles : entry = IssuedFrom(f)
    BY <2>1 DEF Registered, UpToDate
  <2>3. Fingerprint(f) = Fingerprint(file)
    BY <2>1, <2>2 DEF UpToDate, IssuedFrom
  <2> QED BY <2>2, <2>3, FingerprintDecides DEF IssuedFrom
<1> QED BY <1>1, RegisteredInvariance, ResultInvariance, PTL

\* Whatever is asked for, by a spec or on the command line: what is signed follows its
\* subject profile (issue.go:111-114).
THEOREM SubjectsFollowProfile == Spec => []SubjectProfile
<1>1. Result => SubjectProfile
  <2> SUFFICES ASSUME Result, produced.cert # Absent PROVE SubjectProfile
    BY DEF SubjectProfile
  <2>1. CASE produced = Nothing
    BY <2>1 DEF Nothing
  <2>2. CASE /\ Accepts(file) /\ Made(SpecRequest(file), SpecPayload(file))
    <3>1. Follows(produced.cert, SpecRequest(file))
      BY <2>2, SpecAsksProfile, CertificateFollowsProfile DEF Made
    <3> QED BY <2>2, <3>1, SpecAsksProfile DEF Follows, SubjectProfile
  <2>3. CASE \E o \in Flags : Made(FlagRequest(o), FlagPayload(o))
    <3>1. PICK o \in Flags : Made(FlagRequest(o), FlagPayload(o))
      BY <2>3
    <3>2. Follows(produced.cert, FlagRequest(o))
      BY <3>1, FlagsAskProfile, CertificateFollowsProfile DEF Made
    <3>3. produced.cert.key \notin Keys
      BY <3>2, FlagsAskProfile, KeysAssumption DEF Follows
    <3> QED BY <3>2, <3>3 DEF Follows, SubjectProfile
  <2> QED BY <2>1, <2>2, <2>3 DEF Result
<1> QED BY <1>1, ResultInvariance, PTL

\* And the two certificates handed to a party name that party, with the right to issue
\* only where it is entitled to it (mint.go:63-65).
THEOREM PairsAgree == Spec => []PairAgrees
<1>1. ASSUME NEW q, NEW p, Made(q, p), ProfileRequest(q), p.sub = q.identifier,
             p.name = q.name, p.country = q.country, p.support = q.support
      PROVE  PairAgrees
  <2> SUFFICES ASSUME produced.token # Absent PROVE PairAgrees
    BY DEF PairAgrees
  <2>1. /\ Issues(q) /\ produced.cert = Certificate(q) /\ Mints(p) /\ produced.token = p
    BY <1>1 DEF Made
  <2>2. p.provides # <<>> =>
          {p.entitlements[i] : i \in DOMAIN p.entitlements} \cap ProviderEntitlements # {}
    BY <2>1 DEF Mints
  <2>3. Follows(produced.cert, q)
    BY <1>1, <2>1, CertificateFollowsProfile
  <2> QED BY <1>1, <2>1, <2>2, <2>3 DEF Follows, PairAgrees
<1>2. Result => PairAgrees
  <2> SUFFICES ASSUME Result PROVE PairAgrees
    OBVIOUS
  <2>1. CASE produced = Nothing
    BY <2>1 DEF Nothing, PairAgrees
  <2>2. CASE /\ Accepts(file) /\ Made(SpecRequest(file), SpecPayload(file))
    BY <2>2, <1>1, SpecAsksProfile DEF SpecRequest, SpecPayload
  <2>3. ASSUME NEW o \in Flags, Made(FlagRequest(o), FlagPayload(o)) PROVE PairAgrees
    BY <2>3, <1>1, FlagsAskProfile DEF FlagRequest, FlagPayload
  <2> QED BY <2>1, <2>2, <2>3 DEF Result
<1> QED BY <1>2, ResultInvariance, PTL

\* Of the specs Validate accepts, CA.Issue and Mint refuse those whose certificate X.509
\* cannot carry and those that provide without the entitlement, and no other
\* (clientspec.go:178, issue.go:160-178, mint.go:66-77).
THEOREM AcceptedSpecsAreIssued == Spec => []AcceptedIsIssuable
<1>1. Result => AcceptedIsIssuable
  <2> SUFFICES ASSUME Result, outcome = "failed",
                        Encodable(Certificate(SpecRequest(file)))
               PROVE  /\ file.provides # <<>>
                      /\ \A i \in DOMAIN file.entitlements :
                            file.entitlements[i] \notin ProviderEntitlements
    BY DEF AcceptedIsIssuable
  <2>1. /\ Accepts(file)
        /\ ~(Issues(SpecRequest(file)) /\ Mints(SpecPayload(file)))
    BY DEF Result
  <2> QED BY <2>1, AcceptedIsSigned, AcceptedIsMinted
<1> QED BY <1>1, ResultInvariance, PTL
=============================================================================
