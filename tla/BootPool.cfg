SPECIFICATION FairSpec
CONSTANTS
  BootOutcomes = {"booted", "no_julia", "stage_fails"}
  MaxCommands = 4
PROPERTY PoolOutlivesJulia
CHECK_DEADLOCK FALSE
