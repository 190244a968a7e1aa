\* Two workers that come and go, a query of two slices.
SPECIFICATION LeaderSpec
CONSTANTS
    Worker <- Ports
    Query <- Queries
    Slice <- Slices
    Connection <- Identities
    Slot <- Slots
    Capacity = 2
    MaxCrashes = 2
INVARIANTS
    IntegralTypeOK
    SlicesAccounted
    CountedOnce
PROPERTIES
    QueryEnds
CHECK_DEADLOCK FALSE
