SPECIFICATION Spec
CONSTANTS
    Procs = {p1, p2}
    Nobody = Nobody
PROPERTIES
    RefusedMeansAnother
