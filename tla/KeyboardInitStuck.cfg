SPECIFICATION FairSpec
CONSTANT MaxScan = 1
PROPERTIES InitTerminates
