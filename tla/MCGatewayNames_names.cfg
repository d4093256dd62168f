CONSTANTS
    g1 = g1
    g2 = g2
    n1 = n1
    n2 = n2
    c1 = c1
    c2 = c2
    None = None
    Gateways = {g1, g2}
    Names = {n1, n2}
    Callers = {c1, c2}
SPECIFICATION Spec
INVARIANT RegisteredIsFound
SYMMETRY Symmetry
