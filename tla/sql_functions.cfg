SPECIFICATION Spec
CONSTANTS
    Catalogue <- AllFunctions
    Inner <- Few
    MaxDepth = 3
    Answers <- Some
    OutOfMemory = FALSE
    Misleading <- Wrong
    Quiet <- Silenced
INVARIANTS LevelsAreOwn MessagesAreTrue RowsAreWhole
