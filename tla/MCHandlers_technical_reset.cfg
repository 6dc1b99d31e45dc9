CONSTANTS
    Profiles <- MCProfiles
    Temperatures <- MCTemperatures
    House <- MCHouse
    Flat <- MCFlat
    Levels <- MCLevels
    Powers <- MCPowers
    Payloads <- MCPayloads
    None = None
    Absent = Absent
SPECIFICATION Spec
INVARIANT AlarmShownIsInProgress
