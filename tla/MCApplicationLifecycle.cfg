CONSTANTS
  Streams = {s1, s2}
  Errors <- MCErrors
  MaxChunks = 1
  MaxCancels = 1
  Clients <- MCClients
  ChatClient = "final"
  Probes = {q1}
  MaxRequests = 2
  MaxMishaps = 2
  MaxOutages = 2
SPECIFICATION Spec
SYMMETRY Symmetry
INVARIANTS
  NothingLeftOpen
  ReadinessIsHonest
  RetryAdviceIsHonest
