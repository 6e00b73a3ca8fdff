\* Buffers of two bytes; writes and reads of up to three; any system call may fail.
CONSTANTS
    BUFFER_SIZE = 2
    Bytes = {"a", "b"}
    MaxCount = 3
    MaxLen = 5
    CallsMayFail = TRUE
    Mixes = FALSE
SPECIFICATION FileSpec
INVARIANTS
    FileTypeOK
    Consistent
    ReadsInOrder
    SavedOnClose
PROPERTY CallsReturn
