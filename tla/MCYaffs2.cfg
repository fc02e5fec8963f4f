CONSTANTS
    Root = 1
    Kind <- MCKind
    Entries <- MCEntries
    FileSize <- MCFileSize
    Exceptions <- MCExceptions
    NamePrefix = {}
    CHUNK_SIZE = 2
    YAFFS_NOBJECT_BUCKETS = 2
    MAX_OBJECTS = 12
    MaxSize = 3
    Resizes = {"grow"}
SPECIFICATION Spec
INVARIANT TypeOK RoundTrip
CHECK_DEADLOCK FALSE
