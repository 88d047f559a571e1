CONSTANTS
    demo = demo
    own = own
    Codes = {demo}
    Demo = {demo}
    Environments <- MCOneEnvironment
    MaxRequestLimit = 100000
    DefaultTokenTTL = 28800
    MaxFaults = 1
SPECIFICATION FairSpec
CHECK_DEADLOCK FALSE
PROPERTIES
    AlwaysComesBack
