\* Two handlers, two workers, batches of two, a channel of two.
CONSTANTS
  Handlers = {h1, h2}
  Workers = {w1, w2}
  ChannelBufferSize = 2
  BatchSize = 2
  MaxEvents = 5
SPECIFICATION FairSpec
INVARIANTS TypeOK EventsConserved NoSendOnClosed StopFlushes
PROPERTIES ShutdownCompletes EventuallyProcessed
