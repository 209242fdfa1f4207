CONSTANTS
    Alphabets <- Texts
    MaxLength = 5
SPECIFICATION Spec
INVARIANTS
    TokensAreLongest
    NothingIsSkipped
    LinesAreCounted
