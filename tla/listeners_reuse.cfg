\* One listener installed on a second entity, or installed again on the same.
CONSTANTS
    r1 = r1
    r2 = r2
    w1 = w1
    rl1 = rl1
    wl1 = wl1
    Readers <- MCReaders
    Writers <- MCWriters
    ReaderListeners <- MCReaderListeners
    WriterListeners <- MCWriterListeners
    MaxGen <- MCMaxGen
SPECIFICATION LSpec
INVARIANT CallbacksAlive
CHECK_DEADLOCK FALSE
