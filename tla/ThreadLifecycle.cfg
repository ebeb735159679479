CONSTANTS
    Main = Main
    Nobody = Nobody
    Ithread = {t1, t2}
    Creators = {Main}
    Listers = {Main}
    Refused = {t1, t2}
SYMMETRY Symmetry
SPECIFICATION Spec
INVARIANTS
    CountAccounts
    NoDanglingRecord
    ErrorKept
    CountersAgree
CHECK_DEADLOCK FALSE
