\* The watchdogs and an operator; a failure or a restart.
CONSTANTS
    Requests = {r1}
    Ops = {"stand", "crouch", "balance", "recovery"}
    Temps <- MCTemps
    BalanceC = 48
    CrouchC = 62
    Hysteresis = 7
    MaxFaults = 1
SPECIFICATION FairSpec
INVARIANTS TypeOK Remembered
PROPERTIES GetsUpAgain HotLiesDown LockSettles
