\* Two calls: inject a source by URL, inject that source or another as files, or
\* stop; one restart; a log buffer that evicts.
CONSTANTS
    Urls = {s1}
    Uploads = {s1, s2}
    None = None
    Capacity = 2
    MaxPartial = 1
    MaxCalls = 2
    MaxWrites = 3
    MaxRestarts = 1
SPECIFICATION FairSpec
CHECK_DEADLOCK FALSE
INVARIANTS TracksLastProcess RunsItsSource FetchedSourceKept LogsOfLastProcess SnapshotIsTail
PROPERTIES CallsReturn ExitsAreReported
