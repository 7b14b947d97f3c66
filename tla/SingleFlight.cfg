SPECIFICATION FairSpec
CONSTANTS
    c1 = c1  c2 = c2  c3 = c3  c4 = c4
    k1 = k1  k2 = k2
    good = good  mute = mute  odd = odd
    Calls = {c1, c2, c3, c4}
    Keys = {k1, k2}
    KeyOf <- MCKeyOf
    Values = {good, mute, odd}
    Unserializable = {mute}
    Undecodable = {odd}
    Failed = Failed
    None = None
INVARIANTS TypeOK
    OneLoaderPerKey NoLostWakeup FollowersAgree
PROPERTIES ImplementsLoadOnce FollowersReleased
CHECK_DEADLOCK FALSE
