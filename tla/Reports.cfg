CONSTANTS
    Jobs = {j1, j2}
    Channels = {c1, c2}
    c1 = c1
    c2 = c2
    Payloads <- MCPayloads
    Requests = {q1, q2}
    j1 = j1
    j2 = j2
    Datasets <- MCDatasets
    Tables <- MCTables
    MaxGens = 1
    MaxFaults = 1
SPECIFICATION ReportSpec
INVARIANTS
    MessageSound
    ReferencesFollow
PROPERTIES
    ReportRecorded
    AuditComplete
CHECK_DEADLOCK FALSE
