----------------------------- MODULE MCIssuance -----------------------------
(***************************************************************************)
(* A small instance of Issuance for TLC: a legal and a natural person's    *)
(* spec, each with every field left out, changed or broken, alone and with *)
(* the fields it is checked together with.                                 *)
(***************************************************************************)
EXTENDS Issuance, TLC

CSRKeys == {"key 1", "key 2"}

\* url.Parse refuses the first, x509.ParseCertificate the second.
Unusable == {"https://example.org/%zz", "https://a..b/"}

NonASCII == {"o-umlaut@example.org"}

Latin1 == {"o-umlaut"}

WeeksOf(text) == CASE text = "8760h" -> 52 [] text = "168h" -> 1 [] OTHER -> 0

Vct == [vct |-> "urn:eudi:pid:1", doctype |-> ""]
Doctype == [vct |-> "", doctype |-> "eu.europa.ec.eudi.pid.1"]
Neither == [vct |-> "", doctype |-> ""]
Both == [vct |-> "urn:eudi:pid:1", doctype |-> "eu.europa.ec.eudi.pid.1"]

Legal == [fields |-> "known", name |-> "A", organization |-> "A AB", given |-> "",
          surname |-> "", identifier |-> "LEIXG-1", country |-> "SE",
          support |-> "https://a/s", email |-> "", kind |-> "", assurance |-> "",
          entitlements |-> <<"PID_Provider">>, provides |-> <<Vct>>,
          validity |-> "", csr |-> "key 1"]

Natural == [Legal EXCEPT !.organization = "", !.given = "G", !.surname = "S",
                         !.kind = "natural", !.entitlements = <<"Service_Provider">>,
                         !.provides = <<>>]

\* A spec with one field changed, for each field and each value worth having.
Varied(f) ==
    {f} \cup
    {[f EXCEPT !.fields = "misspelled"]} \cup
    {[f EXCEPT !.name = v] : v \in {"", "B"}} \cup
    {[f EXCEPT !.organization = v] : v \in {"", "B AB"}} \cup
    {[f EXCEPT !.given = v] : v \in {"", "H"}} \cup
    {[f EXCEPT !.surname = v] : v \in {"", "T"}} \cup
    {[f EXCEPT !.identifier = v] : v \in {"", "LEIXG-2"}} \cup
    {[f EXCEPT !.country = v] : v \in {"DE"}} \cup
    {[f EXCEPT !.email = v] : v \in {"a@a"}} \cup
    {[f EXCEPT !.support = v] : v \in {"", "https://b/s"}} \cup
    {[f EXCEPT !.kind = v] : v \in {"legal", "natural", "robot"}} \cup
    {[f EXCEPT !.assurance = v] : v \in {"normalised", "qualified", "high"}} \cup
    {[f EXCEPT !.provides = v] : v \in {<<>>, <<Doctype>>, <<Vct, Doctype>>,
                                        <<Neither>>, <<Both>>}} \cup
    {[f EXCEPT !.entitlements = v] :
        v \in {<<>>, <<"PID_Provider", "Service_Provider">>,
               <<"Service_Provider", "PID_Provider">>}} \cup
    {[f EXCEPT !.validity = v] : v \in {"8760h", "168h", "0s", "nonsense"}} \cup
    {[f EXCEPT !.csr = v] : v \in {"", "missing", "forged", "key 2"}}

\* Only the e-mail address; and what is accepted but cannot be issued, or not as
\* the profile has it.
Special(f) ==
    {[f EXCEPT !.support = "", !.email = "a@a"],
     [f EXCEPT !.support = "https://example.org/%zz"],
     [f EXCEPT !.support = "https://a..b/"],
     [f EXCEPT !.email = "o-umlaut@example.org"],
     [f EXCEPT !.country = "o-umlaut"],
     [f EXCEPT !.surname = "o-umlaut"],
     [f EXCEPT !.entitlements = <<"Service_Provider">>, !.provides = <<Doctype>>]}

Files == Varied(Legal) \cup Varied(Natural) \cup Special(Legal) \cup Special(Natural)

CommandLines ==
    [name : {"A"}, organization : {"", "A AB"}, identifier : {"LEIXG-1", ""},
     country : {"SE"}, support : {"", "https://a/s", "https://a..b/"},
     email : {"", "o-umlaut@example.org"}, entitlements : {<<"Service_Provider">>, <<"QEAA_Provider">>},
     vct : {<<>>, <<"urn:eudi:pid:1">>}, doctype : {<<>>}, natural : BOOLEAN,
     qualified : {TRUE}]
=============================================================================
