CONSTANTS
    Threads <- MCThreads
    NumBudLayers = 5
    U64Max = 3
    Batch = 4
    Half = 4
    Rate = 10
    Legacy <- MCLegacy
    Guesses <- MCGuesses

SPECIFICATION Spec

INVARIANTS
    PathsAuthenticate
    GuessIsHonest
