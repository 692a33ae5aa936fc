\* Participant.close against a reader made by ContentFilteredTopic.create_reader.
CONSTANTS
    MaxHandles <- MCMaxHandles
SPECIFICATION SpecFiltered
INVARIANT NoOrphans
CHECK_DEADLOCK FALSE
