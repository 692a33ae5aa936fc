\* The three record-stream decoders of the validator: every cut of every
\* capture file of up to 3 frames, of every parameter list of up to 3 records
\* (2 with lying lengths) and of every RTPS message of up to 3 submessages.
SPECIFICATION ReadersSpec
INVARIANT ReadersTypeOK
INVARIANT NamesRoundTrip
INVARIANT DataRolesAsWritten
PROPERTY ReadsWrittenFrames
PROPERTY DecodesWrittenRecords
PROPERTY WalksWrittenSubmessages
\* Each decoder returns and the tool moves on: a finished decode is a final state.
CHECK_DEADLOCK FALSE
