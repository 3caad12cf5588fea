CONSTANTS
    Workers = {w1, w2}
    TTL = 3
    MaxCall = 2
    MaxRotations = 3
SPECIFICATION Spec
INVARIANTS TypeOK CredentialsRecent
