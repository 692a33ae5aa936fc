\* run_ping against run_pong, one warmup ping, argv[1] of 0, 3 or 10.
CONSTANTS
    WARMUP_SAMPLES = 1
    MAX_SAMPLES = 10000
    Args = {0, 3, 10}
SPECIFICATION Spec
INVARIANT RttOfOwnPing
\* run_ping returns (or raises) and run_pong may be interrupted: both may stop.
CHECK_DEADLOCK FALSE
