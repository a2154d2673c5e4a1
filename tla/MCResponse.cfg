\* Bodies and files of up to two bytes, two calls on each response.
CONSTANTS
    Configs <- MCConfigs
    Requests <- MCRequests
    Sizes = {0, 1, 2}
    Types = {"text"}
    UserLines <- MCUserLines
    MaxEdits = 2
SPECIFICATION Spec
INVARIANTS TypeOK InStep RangeIsHonest GrantsAsConfigured
