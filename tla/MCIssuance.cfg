SPECIFICATION Spec
CONSTANTS
    Absent = Absent
    SpecFiles <- Files
    Flags <- CommandLines
    Keys <- CSRKeys
    Weeks <- WeeksOf
    BadURIs <- Unusable
    NotIA5 <- NonASCII
    NotUTF8 <- Latin1
INVARIANTS UnchangedIsCurrent SubjectProfile PairAgrees AcceptedIsIssuable
