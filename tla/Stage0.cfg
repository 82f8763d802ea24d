SPECIFICATION Stage0Spec
CONSTANTS
    Functions <- MCFunctions
    Compilations <- MCCompilations
    WordBits = 4
    CharacterBits = 3
    Answers = {0, 1}
    MaxCalls = 4
CHECK_DEADLOCK FALSE
INVARIANTS CodeSound RunsAsWritten TokensExact
