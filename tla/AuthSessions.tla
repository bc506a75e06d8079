---------------------------- MODULE AuthSessions ----------------------------
(***************************************************************************)
(* The sessions of ONE account (components/auth): password login with its  *)
(* lockout, one-time codes by mail or SMS with their limits, and the       *)
(* refresh tokens that every sign-in starts a family of                    *)
(* (credentials.go, loginlockout.go, otp.go, phone.go, store.go,           *)
(* refreshtoken.go, handleLogoutAll).                                      *)
(*                                                                         *)
(* Handlers run concurrently and every database statement is a step, so    *)
(* what a handler read is stale when it writes.  A handler looks at the    *)
(* clock as it makes its first read, and a call that only reads and then   *)
(* answers is left out.  Time passes in ticks.                             *)
(***************************************************************************)
EXTENDS Naturals, Sequences, FiniteSets

CONSTANTS
    Requests,       \* handlers that run at the same time
    MaxFailed,      \* maxFailedLoginAttempts
    MaxAttempts,    \* maxOTPAttempts
    MaxOTPs,        \* maxOTPsPerHour
    LoginWindow,    \* loginFailureWindow, and loginLockoutDuration
    OTPWindow,      \* the hour of the rate limit
    OTPTtl,         \* otpTTL
    MaxCalls,       \* bound: requests in one behaviour
    MaxTime         \* bound: ticks

ASSUME RequestsFinite == IsFiniteSet(Requests)
ASSUME LimitsAssumption ==
    {MaxFailed, MaxAttempts, MaxOTPs, LoginWindow, OTPWindow} \subseteq Nat \ {0}
ASSUME AuthBounds == {OTPTtl, MaxCalls, MaxTime} \subseteq Nat

VARIABLES
    tokens,     \* refresh_tokens: family and used flag; the id is the position
    lockout,    \* login_lockouts: the row of the account
    otp,        \* otp_codes: the row of the account
    rate,       \* otp_rate_limits: the row of the account
    now,        \* the time
    pc,         \* where each handler is
    arg,        \* handleRefresh: the id of the presented token
    seen,       \* RecordFailure: the row it loaded
    at,         \* RecordFailure, Increment: the time they began
    closed,     \* auxiliary: families invalidated with nobody rotating
    failed,     \* auxiliary: the times of the failed logins
    granted,    \* auxiliary: the times of the codes granted
    reopened,   \* auxiliary: a code was granted in the window before it opened
    calls       \* bound: requests so far

tables == <<tokens, lockout, otp, rate>>
locals == <<arg, seen, at>>
aux == <<closed, failed, granted, reopened>>
vars == <<tables, now, pc, locals, aux, calls>>

Time == 0..MaxTime

NoRow == [count |-> 0, until |-> 0, start |-> 0]
NoCode == [code |-> 0, expires |-> 0, attempts |-> 0]
NoRate == [count |-> 0, start |-> 0]

Ids == DOMAIN tokens
Live(f) == {i \in Ids : tokens[i].family = f /\ ~tokens[i].used}

(* Handlers that have spent a token and have not yet issued the next one.  *)
Rotating(f) == {r \in Requests : pc[r] = "issue" /\ tokens[arg[r]].family = f}

Init ==
    /\ tokens = <<>> /\ lockout = NoRow /\ otp = NoCode /\ rate = NoRate
    /\ now = 0
    /\ pc = [r \in Requests |-> "idle"]
    /\ arg = [r \in Requests |-> 0]
    /\ seen = [r \in Requests |-> NoRow]
    /\ at = [r \in Requests |-> 0]
    /\ closed = {} /\ reopened = FALSE
    /\ failed = <<>> /\ granted = <<>>
    /\ calls = 0

At(r, from, to) == pc[r] = from /\ pc' = [pc EXCEPT ![r] = to]

Call(r, to) ==
    /\ At(r, "idle", to)
    /\ calls < MaxCalls
    /\ calls' = calls + 1

Tick ==
    /\ now < MaxTime
    /\ now' = now + 1
    /\ UNCHANGED <<tables, pc, locals, aux, calls>>

(* A statement fails, the client goes away or BigBase ends: the handler    *)
(* ends where it is, without a trace.                                      *)
Fail(r) ==
    /\ pc[r] # "idle"
    /\ pc' = [pc EXCEPT ![r] = "idle"]
    /\ UNCHANGED <<tables, now, locals, aux, calls>>

-----------------------------------------------------------------------------
(* Refresh tokens.                                                         *)

(* handleRefresh reads the token: used, it is a replay; else it is to be   *)
(* rotated.  An expired one is refused, which changes nothing.             *)
Refresh(r) ==
    /\ \E i \in Ids :
          /\ Call(r, IF tokens[i].used THEN "replay" ELSE "rotate")
          /\ arg' = [arg EXCEPT ![r] = i]
    /\ UNCHANGED <<tables, now, seen, at, aux>>

RotateBlindly(r) ==
    /\ At(r, "rotate", "issue")
    /\ tokens' = [tokens EXCEPT ![arg[r]].used = TRUE]
    /\ UNCHANGED <<lockout, otp, rate, now, locals, aux, calls>>

(* UPDATE ... SET used = 1 WHERE id = ? AND used = 0: who changes no row   *)
(* has lost a race, which counts as a replay.                              *)
Rotate(r) ==
    /\ \/ /\ At(r, "rotate", "issue")
          /\ ~tokens[arg[r]].used
          /\ tokens' = [tokens EXCEPT ![arg[r]].used = TRUE]
       \/ /\ At(r, "rotate", "replay")
          /\ tokens[arg[r]].used
          /\ UNCHANGED tokens
    /\ UNCHANGED <<lockout, otp, rate, now, locals, aux, calls>>

InvalidateToken(r) ==
    /\ At(r, "replay", "idle")
    /\ tokens' = [tokens EXCEPT ![arg[r]].used = TRUE]
    /\ closed' = IF Rotating(tokens[arg[r]].family) = {}
                 THEN closed \cup {tokens[arg[r]].family} ELSE closed
    /\ UNCHANGED <<lockout, otp, rate, now, locals, failed, granted, reopened, calls>>

(* One UPDATE that marks every token of these families as used.            *)
Invalidate(F) ==
    /\ tokens' = [i \in Ids |-> [tokens[i] EXCEPT !.used = @ \/ tokens[i].family \in F]]
    /\ closed' = closed \cup {f \in F : Rotating(f) = {}}

(* invalidateFamily after a replay.                                        *)
InvalidateFamily(r) ==
    /\ At(r, "replay", "idle")
    /\ Invalidate({tokens[arg[r]].family})
    /\ UNCHANGED <<lockout, otp, rate, now, locals, failed, granted, reopened, calls>>

(* handleLogoutAll: invalidateAllUserTokens.                               *)
LogoutAll ==
    /\ calls < MaxCalls
    /\ calls' = calls + 1
    /\ Invalidate({tokens[i].family : i \in Ids})
    /\ UNCHANGED <<lockout, otp, rate, now, pc, locals, failed, granted, reopened>>

(* issueRefreshToken: the next token of the family, ...                    *)
Issue(r) ==
    /\ At(r, "issue", "idle")
    /\ tokens' = Append(tokens, [family |-> tokens[arg[r]].family, used |-> FALSE])
    /\ UNCHANGED <<lockout, otp, rate, now, locals, aux, calls>>

(* ... or, in writeAuthResponse, the first of a new one, which is named by *)
(* it here.                                                                *)
SignIn(r) ==
    /\ At(r, "signIn", "idle")
    /\ tokens' = Append(tokens, [family |-> Len(tokens) + 1, used |-> FALSE])
    /\ UNCHANGED <<lockout, otp, rate, now, locals, aux, calls>>

-----------------------------------------------------------------------------
(* Password login and its lockout.                                         *)

Locked(row) == row.count > 0 /\ now < row.until

(* handleLogin: CheckLocked, and then the password is right or wrong.      *)
Login(r) ==
    /\ ~Locked(lockout)
    /\ Call(r, "clear") \/ Call(r, "record")
    /\ UNCHANGED <<tables, now, locals, aux>>

(* ClearFailures, whose error is only logged.                              *)
ClearFailures(r) ==
    /\ At(r, "clear", "signIn")
    /\ lockout' \in {NoRow, lockout}
    /\ UNCHANGED <<tokens, otp, rate, now, locals, aux, calls>>

(* RecordFailure loads the row; a locked account stays as it is, ...       *)
LoadFailures(r) ==
    /\ \/ /\ Locked(lockout)
          /\ At(r, "record", "idle")
          /\ UNCHANGED <<seen, at, failed>>
       \/ /\ ~Locked(lockout)
          /\ At(r, "record", "write")
          /\ seen' = [seen EXCEPT ![r] = lockout]
          /\ at' = [at EXCEPT ![r] = now]
          /\ failed' = Append(failed, now)
    /\ UNCHANGED <<tables, now, arg, closed, granted, reopened, calls>>

CountAcross(row, t) ==
    LET within == row.count > 0 /\ t - row.start < LoginWindow
        count == row.count + 1
    IN  [count |-> count,
         start |-> IF within THEN row.start ELSE t,
         until |-> IF count >= MaxFailed THEN t + LoginWindow ELSE 0]

(* ... one more failure in the window of the row, or the first of a new    *)
(* window, and the lock once there are too many, ...                       *)
Counted(row, t) ==
    LET within == row.count > 0 /\ t - row.start < LoginWindow
        count == IF within THEN row.count + 1 ELSE 1
    IN  [count |-> count,
         start |-> IF within THEN row.start ELSE t,
         until |-> IF count >= MaxFailed THEN t + LoginWindow ELSE 0]

(* ... and writes what it made of it: an INSERT that fails when the row is *)
(* there by now, or an UPDATE that does nothing when it is gone.           *)
WriteFailures(r) ==
    /\ At(r, "write", "idle")
    /\ lockout' = IF (seen[r].count = 0) = (lockout.count = 0)
                  THEN Counted(seen[r], at[r]) ELSE lockout
    /\ UNCHANGED <<tokens, otp, rate, now, locals, aux, calls>>

-----------------------------------------------------------------------------
(* One-time codes.                                                         *)

(* handleSendOTP, handleSendPhoneOTP: Increment reads the window, ...      *)
SendOTP(r) ==
    /\ \/ rate.count = 0 /\ Call(r, "rateInsert")
       \/ rate.count > 0 /\ now - rate.start < OTPWindow /\ Call(r, "rateInc")
       \/ rate.count > 0 /\ now - rate.start >= OTPWindow /\ Call(r, "rateReset")
    /\ at' = [at EXCEPT ![r] = now]
    /\ UNCHANGED <<tables, now, arg, seen, aux>>

Grant(row) ==
    /\ rate' = row
    /\ granted' = Append(granted, now)

(* ... and counts the code in it, if there is room, ...                    *)
IncrementRate(r) ==
    /\ \/ /\ rate.count < MaxOTPs
          /\ At(r, "rateInc", "store")
          /\ Grant([rate EXCEPT !.count = @ + 1])
       \/ /\ rate.count >= MaxOTPs
          /\ At(r, "rateInc", "idle")
          /\ UNCHANGED <<rate, granted>>
    /\ UNCHANGED <<tokens, lockout, otp, now, locals, closed, failed, reopened, calls>>

(* ... opens the first window, unless somebody else just has, ...          *)
OpenRate(r) ==
    /\ rate.count = 0
    /\ At(r, "rateInsert", "store")
    /\ Grant([count |-> 1, start |-> at[r]])
    /\ UNCHANGED <<tokens, lockout, otp, now, locals, closed, failed, reopened, calls>>

(* ... or a new one, whatever has happened since it looked.                *)
ResetRate(r) ==
    /\ At(r, "rateReset", "store")
    /\ Grant([count |-> 1, start |-> at[r]])
    /\ reopened' = \E i \in DOMAIN granted : granted[i] >= at[r]
    /\ UNCHANGED <<tokens, lockout, otp, now, locals, closed, failed, calls>>

(* The code replaces the one before, and its attempts.                     *)
StoreOTP(r) ==
    /\ At(r, "store", "idle")
    /\ otp' = [code |-> otp.code + 1, expires |-> at[r] + OTPTtl, attempts |-> 0]
    /\ UNCHANGED <<tokens, lockout, rate, now, locals, aux, calls>>

VerifyUnlimited(r) ==
    /\ otp.code > 0
    /\ Call(r, "attempt") \/ Call(r, "consume")
    /\ UNCHANGED <<tables, now, locals, aux>>

(* handleVerifyOTP, handleVerifyPhoneOTP read the code: it is gone when it *)
(* has expired or been tried too often, and the given one is right or not. *)
VerifyOTP(r) ==
    /\ otp.code > 0
    /\ \/ /\ otp.attempts >= MaxAttempts \/ now > otp.expires
          /\ Call(r, "gone")
       \/ /\ otp.attempts < MaxAttempts /\ now <= otp.expires
          /\ Call(r, "attempt") \/ Call(r, "consume")
    /\ UNCHANGED <<tables, now, locals, aux>>

RecordAttempt(r) ==
    /\ At(r, "attempt", "idle")
    /\ otp' = IF otp.code > 0 THEN [otp EXCEPT !.attempts = @ + 1] ELSE otp
    /\ UNCHANGED <<tokens, lockout, rate, now, locals, aux, calls>>

(* The code is deleted, and a right one signs in, deleted or not.          *)
DeleteOTP(r) ==
    /\ \/ At(r, "gone", "idle") /\ otp' = NoCode
       \/ At(r, "consume", "signIn") /\ otp' \in {NoCode, otp}
    /\ UNCHANGED <<tokens, lockout, rate, now, locals, aux, calls>>

-----------------------------------------------------------------------------

Next ==
    \/ Tick
    \/ LogoutAll
    \/ \E r \in Requests :
          \/ Fail(r)
          \/ Refresh(r) \/ Rotate(r) \/ InvalidateFamily(r) \/ Issue(r) \/ SignIn(r)
          \/ Login(r) \/ ClearFailures(r) \/ LoadFailures(r) \/ WriteFailures(r)
          \/ SendOTP(r) \/ IncrementRate(r) \/ OpenRate(r) \/ ResetRate(r)
          \/ StoreOTP(r) \/ VerifyOTP(r) \/ RecordAttempt(r) \/ DeleteOTP(r)

Spec == Init /\ [][Next]_vars

-----------------------------------------------------------------------------
(* Properties.                                                             *)

Labels ==
    {"idle", "rotate", "replay", "issue", "signIn", "clear", "record", "write",
     "rateInsert", "rateInc", "rateReset", "store", "gone", "attempt", "consume"}

(* Every variable keeps its type; in particular a handler that acts on a   *)
(* refresh token acts on one that exists, and the lock and rate rows stay  *)
(* within what their guards allow (loginlockout.go:108, store.go:105).     *)
TypeOK ==
    /\ tokens \in Seq([family : Nat \ {0}, used : BOOLEAN])
    /\ lockout \in [count : Nat, until : Nat, start : Time]
    /\ otp \in [code : Nat, expires : Nat, attempts : Nat]
    /\ rate \in [count : 0..MaxOTPs, start : Time]
    /\ now \in Time
    /\ pc \in [Requests -> Labels]
    /\ arg \in [Requests -> Nat]
    /\ \A r \in Requests : pc[r] \in {"rotate", "replay", "issue"} => arg[r] \in Ids
    /\ seen \in [Requests -> [count : Nat, until : Nat, start : Time]]
    /\ at \in [Requests -> Time]
    /\ closed \subseteq Nat
    /\ failed \in Seq(Time) /\ granted \in Seq(Time)
    /\ reopened \in BOOLEAN
    /\ calls \in 0..MaxCalls

(* "Mark old token as used (rotation - single use) atomically"             *)
(* (refreshtoken.go:134): a family has at most one token that works,       *)
(* counting the one that a handler is about to issue, however many         *)
(* requests present its tokens at once.                                    *)
OneLiveToken ==
    \A f \in 1..Len(tokens) :
        /\ \A i, j \in Live(f) : i = j
        /\ \A r, s \in Rotating(f) : r = s
        /\ Live(f) = {} \/ Rotating(f) = {}

(* A replay, a lost race and a logout everywhere "protect the entire token *)
(* lineage" (refreshtoken.go:75-76): a family they invalidated while no    *)
(* rotation of it was under way has no working token ever again.           *)
FamilyStaysDead ==
    \A f \in closed : Live(f) = {} /\ Rotating(f) = {}

(* How many of these times are not before t.                               *)
Since(times, t) == Cardinality({i \in DOMAIN times : times[i] >= t})

(* A lock is earned: the failures a row counts really happened since its   *)
(* window began (loginlockout.go:102-108), even when concurrent failures   *)
(* and successful logins overwrite each other's rows, so no account is     *)
(* locked after fewer than maxFailedLoginAttempts in one window.           *)
LockEarned ==
    /\ lockout.count <= Since(failed, lockout.start)
    /\ lockout.until > 0 => lockout.count >= MaxFailed

(* "max 3 codes per email per hour" (otp.go:76): the codes granted since   *)
(* the window began are at most maxOTPsPerHour, unless another code was    *)
(* granted between the look at an expired window and its renewal.          *)
SendsBounded ==
    rate.count > 0 /\ ~reopened =>
        Since(granted, rate.start) <= MaxOTPs

(* Wrong guesses at a code are counted after they are checked: a code is   *)
(* tried at most once more by every other request under way than           *)
(* maxOTPAttempts allows (otp.go:130-137).                                 *)
AttemptsBounded ==
    otp.attempts + Cardinality({r \in Requests : pc[r] = "attempt"})
        < MaxAttempts + Cardinality(Requests)

(* The two throttles of the login page count what really happened: nobody  *)
(* is locked out early, and nobody is mailed more codes than the limit     *)
(* (RecordFailure, dbRateLimitStore.Increment).                            *)
ThrottlesHold == LockEarned /\ SendsBounded
=============================================================================
