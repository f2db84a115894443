SPECIFICATION FairSpec
CONSTANT MaxChunks <- Chunks
INVARIANT CompleteUnlessCut
PROPERTY PipeEnds
CHECK_DEADLOCK FALSE
