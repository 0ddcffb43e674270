SPECIFICATION LaunchSpec
CONSTANTS
    Machines <- MCMachines
    Commands <- MCCommands
    Multiplier <- MCMultiplier
    Width = 8
    NoDisk = NoDisk
    NoShrink = NoShrink
CHECK_DEADLOCK FALSE
INVARIANT ReachesItsDisk
