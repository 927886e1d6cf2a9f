SPECIFICATION Spec
CONSTANTS
    o1 = o1  o2 = o2  p1 = p1  s1 = s1  s2 = s2  s3 = s3  s4 = s4
    Serials = {s1, s2}
    Clients <- OneClient
    Fingerprints <- OneFingerprint
    NoSerial = NoSerial
    Operators = {o1}
    Publishers = {}
    Interrupts = FALSE
    Reinstate = TRUE
SYMMETRY SerialSymmetry
INVARIANT RevokedSpecHonoured
