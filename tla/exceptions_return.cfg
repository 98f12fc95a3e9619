SPECIFICATION FairSpec
CONSTANTS
    Kinds = {"pref_abt"}
    Last = 4
    Installs = 1
    PageFrames = 2
    SvcFrames = 1
    JunkStatuses <- MCStatuses
PROPERTIES
    ReturnsAfter
