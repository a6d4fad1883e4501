CONSTANTS
    Identities = {"ip", "right", "other"}
    Tiers = {"win", "burst"}
    Limit <- MCLimit
    Period <- MCPeriod
    MaxCount = 4
    Candidates <- MCCandidates
    MaxCounted = 1
SPECIFICATION Spec
INVARIANTS NearTwiceTheLimit WindowsEnd AccessIsEarned SchemaIsEnforced TracedUnlessUnhandled FileAnswersHeld
