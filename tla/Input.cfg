SPECIFICATION FairSpec
CONSTANTS
    k1 = k1
    k2 = k2
    Keys <- MCKeys
    Capacity = 2
    Script <- MCScript
    DEMO_CHAR_DELAY_TICKS = 1
    DEMO_LINE_DELAY_TICKS = 2
    DEMO_RESTART_DELAY_TICKS = 3
    DEMO_TIMEOUT_TICKS = 3
    Sources <- AllSources
INVARIANTS DemoOnlyAfterSilence DemoYieldsToKey
PROPERTIES KeyEventuallyReturned DemoTakesOver
