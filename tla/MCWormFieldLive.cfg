SPECIFICATION MCFairSpec
CONSTANTS
    MaxWorms = 3
    MaxDrawn = 2
    MaxLength = 2
    Pitches = {p1}
    Effects = {}
PROPERTIES
    DeadAreDismantled
    LoopsKeepPlaying
