\* A word of 30 bits instead of 64, and a clock that fits it.
CONSTANTS
    Idents = {"id", "__path__", "__x__"}
    Wrapped = {"__path__", "__x__"}
    Inner = {"9"}
    Now = 1000000
    WordSize = 1073741824
    MaxBody = 4
    Numeral <- MCNumeral
    Digits <- MCDigits
    Patterns <- MCPatterns
    Forms <- MCForms
    Jars <- MCJars
    CallLists <- MCCallLists
    Lifetimes <- MCLifetimes
    Days <- MCDays
    Heads <- MCHeads
SPECIFICATION Spec
INVARIANTS PatternsAgree FormsReadBack CookiesKeepTheirWord HeadsUnderstood
