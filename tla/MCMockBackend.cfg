SPECIFICATION MockSpec
CONSTANTS
    Seed = {"harsh", "mixed"}
    Noise <- MCNoise
    MaxDecisions = 7
    ZoneCap = 5
    MaxSnapshots = 1
    Crowds <- MCCrowds
    MaxGeneration = 9
INVARIANTS
    MockTypeOK
    ReplayIsDeterministic
    LegacyFrameAccepted
    OutcomeIsTrue
