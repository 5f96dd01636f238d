\* The stream breaks at most twice; the buffer holds three of the four lines.
\* Goroutines and timers are fair, network and server need not do anything.
SPECIFICATION FairSpec
CONSTANTS
  NumLines = 4
  BufferSize = 3
  BatchSize = 2
  Window = 2
  MaxBreaks = 2
INVARIANTS EveryLineOnce UnbrokenStreamDelivers
PROPERTIES ServerSeesDelivery ProvisionEnds
