SPECIFICATION FairSpec
CONSTANT MaxFails = 3
CHECK_DEADLOCK FALSE
PROPERTY CorrectPasswordUnlocks
