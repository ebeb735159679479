CONSTANTS
    Thread = {t1, t2, t3}
    Nobody = Nobody
    Sections <- MostSections
    MaxNest = 2
    Builds = {"repurposed", "separate"}
SYMMETRY Symmetry
SPECIFICATION Spec
INVARIANTS
    SectionsExclude
    WritersWoken
    NoCircularWait
