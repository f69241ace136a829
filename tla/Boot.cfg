SPECIFICATION FairSpec
CONSTANTS
  BootOutcomes = {"booted", "no_julia", "stage_fails"}
  MaxCommands = 4
INVARIANTS TypeOK NothingMisused CollectorStays
PROPERTY QuitEnds
CHECK_DEADLOCK FALSE
