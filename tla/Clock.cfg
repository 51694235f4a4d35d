CONSTANTS
    max_ppage_id = 5
    MaxLoops = 5
SPECIFICATION ClockFairSpec
INVARIANTS
    SecondChanceBound
PROPERTIES
    ImplementsReplacement
    PopTerminates
