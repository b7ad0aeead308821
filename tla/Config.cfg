SPECIFICATION Spec
CONSTANTS
    None = None
    BaseFile <- MCBaseFile
    Chains <- MCChains
    ExtraKeys <- MCExtraKeys
    Values <- MCValues
    MaxChanges = 2
INVARIANTS
    PositiveUnlessUnchecked
    SettingsKept
CHECK_DEADLOCK FALSE
