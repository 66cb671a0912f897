SPECIFICATION Spec
CONSTANTS
    NumClients = 1
    kNumThreads = 1
    MaxRequests <- MCRequests
INVARIANT AnsweredBeforeHangup
