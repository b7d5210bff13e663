SPECIFICATION FairSpec
CONSTANTS
    m1 = m1
    m2 = m2
    t1 = t1
    t2 = t2
    None = None
    Monitors = {m1, m2}
    Primary = m1
    Tiles = {t1, t2}
    Colours = {0, 1}
    Sizes = {1, 2}
    Pictures <- ThreePictures
    Shows <- Screens
    Codec = "JpegTiles"
    Jpeg <- Lossy
    MaxWire = 1
INVARIANTS
    TypeOK
    SwitchStandsAlone
    IdleMeansQuiet
PROPERTIES
    ViewerMirrorsScreens
    SwitchTakesEffect
    TeardownCompletes
