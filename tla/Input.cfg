SPECIFICATION Spec
CONSTANTS
    Devices = {d1, d2}
    EvdevLimit = 2
    MaxEvents = 4
    Reports <- MCReports
    Garbage <- MCGarbage
    Widths = {1, 3, 4}
    MaxBytes = 7
INVARIANTS DevicesMatch GameIsRight CursorIsRight
PROPERTY InputArrives
