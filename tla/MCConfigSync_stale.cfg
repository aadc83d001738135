CONSTANTS
    Empty = Empty
    Groups <- MCGroups
    Vals <- MCShown
    Shown <- MCShown
SPECIFICATION Spec
INVARIANT ShownSavedIsDeviceConfig
