SPECIFICATION LinesSpec
CONSTANT Streams <- MCStreams
INVARIANTS FramesMatch AckedIsSeen
PROPERTIES PatientReadsBlocks EveryLineIsAnswered
CHECK_DEADLOCK FALSE
