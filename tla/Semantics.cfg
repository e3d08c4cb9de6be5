\* Long programs over one name, short ones over two names and every operator.
CONSTANTS
    a = a
    b = b
    none = none
    Names = {a, b}
    Vocabularies <- Both
    None = none
SPECIFICATION Spec
INVARIANTS TypeOK KeysUnique ResolvesLexically TypesAgree ReportsExact NoInternalError CodegenAssumptions
CHECK_DEADLOCK FALSE
