\* The waitsets sample with samples delivered at any point after their write.
SPECIFICATION Spec
PROPERTY ShutdownOnlyOnGuard
\* main returns after cleanup: the final state has no successor.
CHECK_DEADLOCK FALSE
