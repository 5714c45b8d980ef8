SPECIFICATION FairSpec
CONSTANTS
    MaxUpdates = 2
    MaxTexts = 1
    MaxParts = 2
    MaxFaults = 2
    MaxRestarts = 1
INVARIANTS OffsetIsHonest SentInOrder TypingIsDriven
PROPERTIES AnswerArrives
