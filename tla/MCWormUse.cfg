SPECIFICATION WormSpec
CONSTANTS
    Events = {e1, e2}
    MaxLength = 4
    MaxEdits = 5
PROPERTIES
    ReplaysRecording
CHECK_DEADLOCK FALSE
