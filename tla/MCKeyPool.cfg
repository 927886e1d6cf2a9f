SPECIFICATION Spec
CONSTANTS
    t1 = t1  t2 = t2  h1 = h1  h2 = h2  h3 = h3  h4 = h4
    Tokens = {t1, t2}
    Handles = {h1, h2, h3, h4}
    NoToken = NoToken
SYMMETRY HandleSymmetry
INVARIANTS TypeOK OpenKeysWork NothingLeaks
