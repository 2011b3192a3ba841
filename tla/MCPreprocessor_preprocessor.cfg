SPECIFICATION Spec
CONSTANTS
    Programs <- MCPrograms
    Punctuation <- MCPunctuation
    RecLimit = 12
INVARIANTS ConditionalsChoose EvaluatesAsDefined
PROPERTY CallsEnd
