SPECIFICATION FairSpec
CONSTANTS
    Coroutines = {c1, c2, c3}
    MaxFaults = 2
INVARIANTS TopologyBeforeUse LeakIsBounded
PROPERTIES ChannelIsRegained
