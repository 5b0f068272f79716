SPECIFICATION Spec
CONSTANTS
    Requests = {r1, r2}
    Names = {a}
INVARIANTS
    NamesStayUnique
