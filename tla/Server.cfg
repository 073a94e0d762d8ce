SPECIFICATION Spec
CONSTANT N = 4
INVARIANTS TypeOK Chained ReadyCount NoOrphans
PROPERTIES TerminationSpreads InterruptEndsAll
