CONSTANTS
    demo = demo
    own = own
    Codes = {demo, own}
    Demo = {demo}
    Environments <- MCEnvironments
    MaxRequestLimit = 100000
    DefaultTokenTTL = 28800
    MaxFaults = 2
SPECIFICATION FairSpec
CHECK_DEADLOCK FALSE
INVARIANTS
    TypeOK
    ServesSeeded
    ServesWithinLimits
PROPERTIES
    DeletedForGood
    ComesBack
    StartsRunOn
