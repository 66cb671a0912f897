SPECIFICATION FairSpec
CONSTANTS
    NumClients = 2
    kNumThreads = 1
    MaxRequests <- MCRequests
INVARIANTS
    NoDescriptorLeak
    StreamIntact
    AnswersInOrder
PROPERTIES
    EveryRequestAnswered
    ShutdownCompletes
