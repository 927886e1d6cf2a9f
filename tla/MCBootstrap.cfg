SPECIFICATION Spec
CONSTANTS
    i1 = i1  i2 = i2  p1 = p1  p2 = p2  k1 = k1  k2 = k2  k3 = k3  k4 = k4
    Inits = {i1, i2}
    Publishers = {p1, p2}
    FileKeys = {k1, k2, k3, k4}
    TokenCA = TokenCA
    TokenRegistrar = TokenRegistrar
    Nobody = Nobody
SYMMETRY Symmetric
INVARIANTS TypeOK AnchorKept PublishedVerifies InitialisedIsUsable TokenKeysOnly
