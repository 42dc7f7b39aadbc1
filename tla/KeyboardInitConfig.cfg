SPECIFICATION Spec
CONSTANT MaxScan = 1
INVARIANTS ConfigurationKept
