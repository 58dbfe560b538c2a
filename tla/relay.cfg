SPECIFICATION Spec
CONSTANTS
    Requests <- MCRequests
    Locations = {"root", "inside", "other"}
    Written <- MCWritten
    MaxChunks <- MCMaxChunks
    max_buffered_body = 1
CHECK_DEADLOCK FALSE
INVARIANTS
    StaysInside
PROPERTIES
    Faithful
    ChunksArrive
    AnswersCome
    ConnectionsEnd
