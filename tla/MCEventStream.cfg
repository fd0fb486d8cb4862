CONSTANTS
    stream = stream
    sync = sync
    Threads = {stream, sync}
    Streamer = stream
    Outages = TRUE
    MaxDeltas = 2
SPECIFICATION FairStreamSpec
INVARIANT StreamTypeOK
 
INVARIANT OneDialectPerQuery
PROPERTY ImplementsProtocol
PROPERTY StreamEnds
