CONSTANTS
    Symbols = {btc}
    Users = {ann, bob}
    Sockets = {s1, s2}
    NoOne = NoOne
    btc = btc
    ann = ann
    s1 = s1
    s2 = s2
    Profiles <- MCProfiles
    MaxEvents = 2
    MaxFaults = 2
SPECIFICATION FairSpec
INVARIANTS
    OnlyOwnersHear
    NothingMissed
    EndedReleases
PROPERTIES
    ClientGoneReleased
    SubscribersComeBack
CHECK_DEADLOCK FALSE
