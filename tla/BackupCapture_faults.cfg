SPECIFICATION FairSpec
CONSTANTS
  Faults = {"start", "answer", "reset"}
  MaxRuns = 2
  MaxWrites = 2
  MaxCrashes = 1
INVARIANT PairsConsistent
INVARIANT PartialsAreOfCrashes
INVARIANT HarborComesBack
INVARIANT IInv
PROPERTY PublishedServing
PROPERTY GiteaComesBack
PROPERTY GiteaOutageEnds
CHECK_DEADLOCK FALSE
