\* Up to four listed contracts, three of which are scored; a window of one
\* unit of time and a month of two.
SPECIFICATION Spec
CONSTANTS
    MaxScored = 3
    BurstWindow = 1
    EstablishedAfter = 2
    Timestamp <- MCTimestamp
    MaxRaw = 4
    MaxNow = 4
INVARIANTS
    DedupeKeepsOldest
    BurstsAreTriples
    Parity
    PenaltyIsAnnounced
PROPERTIES
    AgingNeverHurts
CHECK_DEADLOCK FALSE
