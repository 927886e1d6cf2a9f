SPECIFICATION PublicSpec
CONSTANTS
    w1 = w1  w2 = w2  r1 = r1  f1 = f1  f2 = f2  f3 = f3  f4 = f4
    Writers = {w1, w2}
    Readers = {r1}
    Files = {f1, f2, f3}
    MaxVersion = 3
    NoFile = NoFile
    Torn = Torn
    Outputs <- TwoOutputs
    Clients = {"client"}
    Missing = Missing
    Nobody = Nobody
SYMMETRY FileSymmetry
INVARIANTS PublicTypeOK RegisterWhole PublishRepairs ServedIsCurrent
PROPERTIES SavesAreAtomic
