SPECIFICATION AuthSpec
CONSTANTS
    Emails = {e1, e2}
    Googles = {g1}
    Requests = {r1, r2}
    None = None
    MaxUsers = 2
    MaxTokens = 2
    Faults = {"throw", "expire"}
INVARIANTS
    AuthTypeOK
    OneAccountPerEmail
    TokenSpentOnce
    OneCredential
    TokenHolderComplete
    LogoutEndsSession
SYMMETRY Symmetry
