\* Three login calls over a new name and one without a hash, one profile call.
SPECIFICATION FairSpec
CONSTANTS
    Calls = {c1, c2, c3}
    Mes = {m1}
    Names = {"ann", "old"}
    Legacy = {"old"}
    Passwords = {"pass", "word", "long"}
    Seen <- MCSeen
    None = None
    TokenTTL = 0
    MaxTime = 1
    MaxFaults = 1
INVARIANTS
    TypeOK
    TokenNamesTheUser
    PasswordSticks
    TokenOpensItsProfile
PROPERTY FirstLoginSettles
CHECK_DEADLOCK FALSE
