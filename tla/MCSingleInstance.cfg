SPECIFICATION Spec
CONSTANTS
    Procs = {p1, p2, p3, p4}
    Nobody = Nobody
SYMMETRY Perms
INVARIANTS
    TypeOK
    OnlyOneRuns
