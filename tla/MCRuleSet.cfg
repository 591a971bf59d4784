SPECIFICATION Spec
CONSTANTS
    p1 = p1  p2 = p2  n1 = n1  n2 = n2  n3 = n3  e1 = e1  e2 = e2
    Procs = {p1, p2}
    Names = {n1, n2, n3}
    Exprs <- MCExprs
    Events = {e1, e2}
    Decls <- MCDecls
    Namespaces <- MCNamespaces
    Needs <- MCNeeds
    Malformed = {"bad"}
    Holds <- MCHolds
    BuilderDecls <- MCBuilderDecls
    Markers <- MCMarkers
    BuilderRules <- MCBuilderRules
    None = None
    MaxSlots = 3
    MaxMatches = 2
SYMMETRY Symmetry
CHECK_DEADLOCK FALSE
INVARIANTS UniqueNames FirstMatchWins StatsCountAnswers SchemeIsSnapshot
