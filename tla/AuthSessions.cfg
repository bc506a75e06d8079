SPECIFICATION Spec
CONSTANTS
    Requests = {q1, q2, q3}
    MaxFailed = 2
    MaxAttempts = 1
    MaxOTPs = 2
    LoginWindow = 1
    OTPWindow = 1
    OTPTtl = 0
    MaxCalls = 5
    MaxTime = 2
SYMMETRY Symmetry
INVARIANTS
    OneLiveToken
    FamilyStaysDead
    ThrottlesHold
    AttemptsBounded
CHECK_DEADLOCK FALSE
