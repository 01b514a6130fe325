CONSTANTS
    Repos = {r1, r2}
    Slots = {1, 2}
    MaxBackups = 2
    MaxReads = 1
    MaxMoves = 1
    MaxFailures = 1
SPECIFICATION StatsSpec
INVARIANTS
    ChartCurrent
PROPERTIES
    RequestAnswered
    FiguresCatchUp
CHECK_DEADLOCK FALSE
