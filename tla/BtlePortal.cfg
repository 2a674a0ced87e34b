\* Two connection objects, so that the next central may come on the other one.
SPECIFICATION BtleSpec
CONSTANTS
    Conns = {c1, c2}
    NoConn = NoConn
    MaxTries = 3
    Paired = TRUE
INVARIANTS
    BtleTypeOK
    ConnIsLink
    AdvertiserLives
PROPERTY
    AdvertisedAgain
\* Everything stops where activate() has failed.
CHECK_DEADLOCK FALSE
