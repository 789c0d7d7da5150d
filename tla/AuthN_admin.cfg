SPECIFICATION AuthNSpec
CONSTANTS
    Admin = admin
    AdminPassword = v1
    Empty = empty
    Missing = missing
    ForgedKey = forged
    n1 = n1
    v1 = v1
    v2 = v2
    s1 = s1
    s2 = s2
    ExpiresIn = 1
    MaxTime = 2
    MaxTokens = 2
    Names <- OneName
    Vals <- TwoVals
    Secrets <- TwoSecrets
    Shapes <- AllShapes
INVARIANT
    AuthNTypeOK
PROPERTY
    ChangesNeedAdmin
