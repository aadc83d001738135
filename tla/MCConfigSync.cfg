CONSTANTS
    Empty = Empty
    Groups <- MCGroups
    Vals <- MCVals
    Shown <- MCShown
SPECIFICATION FairSpec
INVARIANT SaveButtonTracksDirty
PROPERTY LoadLoopEnds
