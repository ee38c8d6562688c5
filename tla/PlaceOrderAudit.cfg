SPECIFICATION OrderSpec
CONSTANTS
    ann = ann
    bob = bob
    Operators = {ann, bob}
    Commands <- MCCommands
    Prices = {2, 3}
    Powers = {6}
    MaxAttempts <- MCAttempts
    MaxMoves = 1
INVARIANTS
    SubmissionsAudited
CHECK_DEADLOCK FALSE
