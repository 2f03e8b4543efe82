SPECIFICATION Spec
CONSTANTS
    ExportIds = {e1, e2, e3}
    Contents = {v1, v2}
    None = None
    MaxRecords = 1
    TTL = 2
    MaxTime = 4
INVARIANTS
    TypeOK
    NewExportKept
PROPERTIES
    NoLiveExportLost
    SweptByCreate
    IsExpiringStore
