\* One call, as calls share only the closed flag; every body, ended anywhere, in
\* chunks of every size, with the deadline and close() at any point.
CONSTANTS
    c1 = c1
    Calls = {c1}
    Bodies <- AllBodies
    NoBody = NoBody
    Heads <- AllHeads
    MaxAnswerBytes = 2
    MaxChunk = 12
SPECIFICATION FairSpec
INVARIANTS ChunksDoNotMatter KeptBytesAreBounded
PROPERTIES CallsEnd
CHECK_DEADLOCK FALSE
