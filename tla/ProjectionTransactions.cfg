SPECIFICATION FairSpec
CONSTANTS
  Workers = {"w1", "w2", "w3"}
  Plans <- BothPlans
  Known = {"A"}
  MaxFaults = 1
INVARIANTS Inv SumsAreRight
PROPERTIES NeverGoesBack EveryEventIsProjected
