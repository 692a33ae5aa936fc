\* analyze_pcap over every capture of at most three of the written packets.
CONSTANTS
    Writes <- AllCaptureWrites
    Captures <- MCCaptures
    MaxSubmessages = 8
    MaxParams = 16
SPECIFICATION MCSpec
INVARIANT TypeOK
INVARIANT ReportsAsWritten
PROPERTY SummaryReported
\* analyze_pcap returns after the summary: the final state has no successor.
CHECK_DEADLOCK FALSE
