SPECIFICATION Spec
CONSTANTS
    Operators <- MCOperators
    Unary <- MCUnary
    Primaries <- MCPrimaries
    MaxTokens = 8
INVARIANTS TextsAreParsed ParenthesesAreReturned NoOperandIsLost
CHECK_DEADLOCK FALSE
