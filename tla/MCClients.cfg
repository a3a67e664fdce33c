SPECIFICATION Spec
CONSTANTS
    Nodes = {n1, n2}
    UploadNode = n1
    Waiters = {w1, w2}
    None = None
    Callers = {c1, c2}
    Tokens = {"t1", "as", "secret"}
    Owner <- MCOwner
    GuestTokens = {}
    AuthUsers = {"u1", "u2"}
    Claims <- MCClaims
    Appservices <- MCAppservices
    SharedSecret = "secret"
    GlobalAdmins = {"u1"}
INVARIANTS
    ClientsTypeOK
    ChannelsStaySendable
    NobodyIsImpersonated
PROPERTIES
    
    LogoutTakesEffect
