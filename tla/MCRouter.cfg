\* Three routes in every order, all paths of up to three segments.
CONSTANTS
    Idents = {"a", "x", "y", "__path__"}
    Wrapped = {"__path__"}
    Inner = {}
    Routes <- MCRoutes
    Methods = {"GET", "POST"}
    Paths <- MCPaths
    MaxRoutes = 3
SPECIFICATION Spec
INVARIANTS TypeOK FindsTheBest CapturesTheRoute
