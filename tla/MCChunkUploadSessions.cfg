SPECIFICATION Spec
CONSTANTS
    w1 = w1
    w2 = w2
    w3 = w3
    w4 = w4
    u1 = u1
    Uploads = {u1}
    Writers = {w1, w2, w3, w4}
    UploadOf <- MCUploadOf
    IndexOf <- MCIndexOf
    Content <- MCContent
    Bytes <- MCBytes
    Size <- MCSize
    ChunkCount <- MCChunkCount
    Budget = 3
    None = None
    MaxFaults = 1
INVARIANTS TypeOK RecordedChunkHasFile OneWriterPerChunk RowsTellTheTruth
CHECK_DEADLOCK FALSE
