------------------------- MODULE AuthSessionsProofs -------------------------
(***************************************************************************)
(* Proofs about AuthSessions for every number of handlers, every limit and *)
(* every bound.                                                            *)
(***************************************************************************)
EXTENDS AuthSessions, FiniteSetTheorems, TLAPS

Token == [family : Nat \ {0}, used : BOOLEAN]
Row == [count : Nat, until : Nat, start : Time]

-----------------------------------------------------------------------------
(* Types.                                                                  *)

(* Rows of the three tables that hold one row for the account.             *)
LEMMA RowTypes ==
    /\ NoRow \in Row
    /\ NoCode \in [code : Nat, expires : Nat, attempts : Nat]
    /\ NoRate \in [count : 0..MaxOTPs, start : Time]
    /\ \A row \in Row, t \in Time : Counted(row, t) \in Row
<1>1. 0 \in Time /\ 0 \in 0..MaxOTPs /\ MaxOTPs \in Nat /\ LoginWindow \in Nat
  BY LimitsAssumption, AuthBounds DEF Time
<1>2. ASSUME NEW row \in Row, NEW t \in Time PROVE Counted(row, t) \in Row
  <2>1. t \in Nat /\ row.count + 1 \in Nat /\ t + LoginWindow \in Nat
        /\ row.start \in Time
    BY <1>1, AuthBounds DEF Row, Time
  <2> QED
    BY <2>1 DEF Counted, Row
<1> QED
  BY <1>1, <1>2 DEF NoRow, NoCode, NoRate, Row

LEMMA TypeInit == Init => TypeOK
<1> SUFFICES ASSUME Init PROVE TypeOK
  OBVIOUS
<1>1. /\ lockout \in [count : Nat, until : Nat, start : Time]
      /\ otp \in [code : Nat, expires : Nat, attempts : Nat]
      /\ rate \in [count : 0..MaxOTPs, start : Time]
      /\ seen \in [Requests -> [count : Nat, until : Nat, start : Time]]
  BY RowTypes DEF Init, Row
<1>2. 0 \in Time /\ 0 \in 0..MaxCalls
  BY AuthBounds DEF Time
<1>3. tokens \in Seq([family : Nat \ {0}, used : BOOLEAN])
  BY DEF Init
<1>4. failed \in Seq(Time) /\ granted \in Seq(Time)
  BY DEF Init
<1>6. /\ pc \in [Requests -> Labels] /\ arg \in [Requests -> Nat] /\ at \in [Requests -> Time]
      /\ \A r \in Requests : pc[r] = "idle"
  BY <1>2 DEF Init, Labels
<1>7. now \in Time /\ calls \in 0..MaxCalls /\ closed \subseteq Nat /\ reopened \in BOOLEAN
  BY <1>2 DEF Init
<1> QED
  BY <1>1, <1>3, <1>4, <1>6, <1>7 DEF TypeOK

(* What a step on the tokens alone leaves to show.                         *)
LEMMA TokenTypes ==
    ASSUME TypeOK, tokens' \in Seq(Token), Len(tokens') >= Len(tokens),
           pc' \in [Requests -> Labels], arg' \in [Requests -> Nat],
           \A r \in Requests : pc'[r] \in {"rotate", "replay", "issue"} => arg'[r] \in Ids,
           closed' \subseteq Nat, calls' \in 0..MaxCalls,
           UNCHANGED <<lockout, otp, rate, now, seen, at, failed, granted, reopened>>
    PROVE  TypeOK'
<1>1. Len(tokens) \in Nat /\ Len(tokens') \in Nat
  BY DEF TypeOK
<1>2. Ids = 1..Len(tokens) /\ Ids' = 1..Len(tokens')
  BY DEF TypeOK, Ids
<1>3. Ids \subseteq Ids'
  BY <1>1, <1>2
<1> QED
  BY <1>3 DEF TypeOK, Token

(* What a step leaves to show that touches no token.                       *)
LEMMA RowStep ==
    ASSUME TypeOK, UNCHANGED <<tokens, arg, closed>>,
           lockout' \in Row, otp' \in [code : Nat, expires : Nat, attempts : Nat],
           rate' \in [count : 0..MaxOTPs, start : Time], now' \in Time,
           pc' \in [Requests -> Labels],
           \A r \in Requests : pc'[r] \in {"rotate", "replay", "issue"} => pc'[r] = pc[r],
           seen' \in [Requests -> Row], at' \in [Requests -> Time],
           failed' \in Seq(Time), granted' \in Seq(Time),
           reopened' \in BOOLEAN, calls' \in 0..MaxCalls
    PROVE  TypeOK'
<1>1. Ids' = Ids
  BY DEF Ids
<1>2. \A r \in Requests : pc'[r] \in {"rotate", "replay", "issue"} => arg'[r] \in Ids'
  BY <1>1 DEF TypeOK
<1> QED
  BY <1>2 DEF TypeOK, Row

(* Steps that touch no refresh token, and what they leave alone.           *)
RowAction(r) ==
    \/ Fail(r) \/ Login(r) \/ ClearFailures(r) \/ LoadFailures(r) \/ WriteFailures(r)
    \/ SendOTP(r) \/ IncrementRate(r) \/ OpenRate(r) \/ ResetRate(r)
    \/ StoreOTP(r) \/ VerifyOTP(r) \/ RecordAttempt(r) \/ DeleteOTP(r)

Quiet ==
    /\ UNCHANGED <<tokens, arg, closed>>
    /\ pc' \in [Requests -> Labels]
    /\ \A r \in Requests : pc'[r] \in {"rotate", "replay", "issue"} => pc'[r] = pc[r]

LEMMA QuietSteps ==
    ASSUME TypeOK,
           UNCHANGED vars \/ Tick \/ \E r \in Requests : RowAction(r)
    PROVE  Quiet
<1>1. pc \in [Requests -> Labels]
  BY DEF TypeOK
<1>2. CASE UNCHANGED vars \/ Tick
  BY <1>1, <1>2 DEF Quiet, vars, Tick, tables, locals, aux
<1>3. ASSUME NEW r \in Requests, RowAction(r) PROVE Quiet
  <2>1. UNCHANGED <<tokens, arg, closed>>
    BY <1>3 DEF RowAction, Fail, Login, ClearFailures, LoadFailures, WriteFailures,
         SendOTP, IncrementRate, OpenRate, ResetRate, StoreOTP, VerifyOTP,
         RecordAttempt, DeleteOTP, tables, locals, aux
  <2>2. \E to \in Labels \ {"rotate", "replay", "issue"} : pc' = [pc EXCEPT ![r] = to]
    <3>1. CASE SendOTP(r)
      BY <3>1 DEF SendOTP, Call, At, Labels
    <3>2. CASE Login(r) \/ VerifyOTP(r)
      BY <3>2 DEF Login, VerifyOTP, Call, At, Labels
    <3>3. CASE Fail(r) \/ ClearFailures(r) \/ LoadFailures(r) \/ WriteFailures(r)
      BY <3>3 DEF Fail, ClearFailures, LoadFailures, WriteFailures, At, Labels
    <3>4. CASE IncrementRate(r) \/ OpenRate(r) \/ ResetRate(r)
      BY <3>4 DEF IncrementRate, OpenRate, ResetRate, At, Labels
    <3>5. CASE StoreOTP(r) \/ RecordAttempt(r) \/ DeleteOTP(r)
      BY <3>5 DEF StoreOTP, RecordAttempt, DeleteOTP, At, Labels
    <3> QED
      BY <1>3, <3>1, <3>2, <3>3, <3>4, <3>5 DEF RowAction
  <2>3. PICK to \in Labels \ {"rotate", "replay", "issue"} : pc' = [pc EXCEPT ![r] = to]
    BY <2>2
  <2> QED
    BY <1>1, <2>1, <2>3 DEF Quiet
<1> QED
  BY <1>2, <1>3

LEMMA RowTypeStep ==
    ASSUME TypeOK,
           UNCHANGED vars \/ Tick \/ \E r \in Requests : RowAction(r)
    PROVE  TypeOK'
<1>q. Quiet
  BY QuietSteps
<1>c. /\ MaxTime \in Nat /\ MaxCalls \in Nat /\ OTPTtl \in Nat
      /\ MaxOTPs \in Nat /\ 1 \in 0..MaxOTPs
  BY LimitsAssumption, AuthBounds
<1>t. /\ lockout \in Row /\ otp \in [code : Nat, expires : Nat, attempts : Nat]
      /\ rate \in [count : 0..MaxOTPs, start : Time] /\ now \in Time
      /\ seen \in [Requests -> Row] /\ at \in [Requests -> Time]
      /\ failed \in Seq(Time) /\ granted \in Seq(Time)
      /\ reopened \in BOOLEAN /\ calls \in 0..MaxCalls
  BY DEF TypeOK, Row
<1>k. ASSUME calls < MaxCalls PROVE calls + 1 \in 0..MaxCalls
  BY <1>k, <1>c, <1>t
<1> DEFINE Rest == /\ lockout' \in Row
                   /\ otp' \in [code : Nat, expires : Nat, attempts : Nat]
                   /\ rate' \in [count : 0..MaxOTPs, start : Time]
                   /\ now' \in Time
                   /\ seen' \in [Requests -> Row] /\ at' \in [Requests -> Time]
                   /\ failed' \in Seq(Time) /\ granted' \in Seq(Time)
                   /\ reopened' \in BOOLEAN /\ calls' \in 0..MaxCalls
<1> SUFFICES Rest
  BY <1>q, RowStep DEF Quiet
<1>1. CASE UNCHANGED vars
  BY <1>1, <1>t DEF vars, tables, locals, aux
<1>2. CASE Tick
  <2>1. now + 1 \in Time
    BY <1>2, <1>c, <1>t DEF Tick, Time
  <2> QED
    BY <1>2, <2>1, <1>t DEF Tick, tables, locals, aux
<1>3. ASSUME NEW r \in Requests, RowAction(r) PROVE Rest
  <2>1. CASE Fail(r)
    BY <2>1, <1>t DEF Fail, tables, locals, aux
  <2>2. CASE Login(r) \/ VerifyOTP(r)
    BY <2>2, <1>t, <1>k DEF Login, VerifyOTP, Call, tables, locals, aux
  <2>3. CASE ClearFailures(r)
    BY <2>3, <1>t, RowTypes DEF ClearFailures, locals, aux
  <2>4. CASE LoadFailures(r)
    <3>1. Append(failed, now) \in Seq(Time)
      BY <1>t
    <3>2. /\ seen' \in [Requests -> Row] /\ at' \in [Requests -> Time]
          /\ failed' \in Seq(Time)
      BY <2>4, <3>1, <1>t DEF LoadFailures
    <3> QED
      BY <2>4, <3>2, <1>t DEF LoadFailures, tables
  <2>5. CASE WriteFailures(r)
    <3>1. Counted(seen[r], at[r]) \in Row
      BY <1>t, RowTypes
    <3> QED
      BY <2>5, <3>1, <1>t DEF WriteFailures, locals, aux
  <2>6. CASE SendOTP(r)
    <3>1. at' \in [Requests -> Time]
      BY <2>6, <1>t DEF SendOTP
    <3> QED
      BY <2>6, <3>1, <1>t, <1>k DEF SendOTP, Call, tables, aux
  <2>7. ASSUME NEW row \in [count : 0..MaxOTPs, start : Time], Grant(row)
        PROVE  /\ rate' \in [count : 0..MaxOTPs, start : Time]
               /\ granted' \in Seq(Time)
    <3>1. Append(granted, now) \in Seq(Time)
      BY <1>t
    <3> QED
      BY <2>7, <3>1, <1>t DEF Grant
  <2>8. CASE IncrementRate(r)
    <3>1. CASE rate.count < MaxOTPs /\ Grant([rate EXCEPT !.count = @ + 1])
      <4>1. rate.count + 1 \in 0..MaxOTPs
        BY <3>1, <1>c, <1>t
      <4>2. [rate EXCEPT !.count = @ + 1] \in [count : 0..MaxOTPs, start : Time]
        BY <4>1, <1>t
      <4>3. /\ rate' \in [count : 0..MaxOTPs, start : Time]
            /\ granted' \in Seq(Time)
        BY <3>1, <4>2, <2>7
      <4> QED
        BY <2>8, <4>3, <1>t DEF IncrementRate, locals
    <3>2. CASE UNCHANGED <<rate, granted>>
      BY <2>8, <3>2, <1>t DEF IncrementRate, locals
    <3> QED
      BY <2>8, <3>1, <3>2 DEF IncrementRate
  <2>9. [count |-> 1, start |-> at[r]] \in [count : 0..MaxOTPs, start : Time]
    BY <1>c, <1>t
  <2>10. CASE OpenRate(r)
    <3>1. /\ rate' \in [count : 0..MaxOTPs, start : Time]
          /\ granted' \in Seq(Time)
      BY <2>10, <2>9, <2>7 DEF OpenRate
    <3> QED
      BY <2>10, <3>1, <1>t DEF OpenRate, locals
  <2>11. CASE ResetRate(r)
    <3>1. /\ rate' \in [count : 0..MaxOTPs, start : Time]
          /\ granted' \in Seq(Time)
      BY <2>11, <2>9, <2>7 DEF ResetRate
    <3>2. reopened' \in BOOLEAN
      BY <2>11 DEF ResetRate
    <3> QED
      BY <2>11, <3>1, <3>2, <1>t DEF ResetRate, locals
  <2>12. CASE StoreOTP(r)
    <3>1. otp.code + 1 \in Nat
      BY <1>t
    <3>2. at[r] \in Nat
      BY <1>c, <1>t DEF Time
    <3>3. at[r] + OTPTtl \in Nat
      BY <3>2, <1>c
    <3> QED
      BY <2>12, <3>1, <3>3, <1>t DEF StoreOTP, locals, aux
  <2>13. CASE RecordAttempt(r)
    <3>1. otp.attempts + 1 \in Nat
      BY <1>t
    <3>2. otp' \in [code : Nat, expires : Nat, attempts : Nat]
      BY <2>13, <3>1, <1>t DEF RecordAttempt
    <3> QED
      BY <2>13, <3>2, <1>t DEF RecordAttempt, locals, aux
  <2>14. CASE DeleteOTP(r)
    BY <2>14, <1>t, RowTypes DEF DeleteOTP, locals, aux
  <2> QED
    BY <1>3, <2>1, <2>2, <2>3, <2>4, <2>5, <2>6, <2>8, <2>10, <2>11, <2>12, <2>13,
       <2>14 DEF RowAction
<1> QED
  BY <1>1, <1>2, <1>3

(* Every step is one that touches no token or one of these six.            *)
LEMMA StepCases ==
    ASSUME [Next]_vars
    PROVE  \/ UNCHANGED vars \/ Tick \/ \E r \in Requests : RowAction(r)
           \/ LogoutAll
           \/ \E r \in Requests : \/ Refresh(r) \/ Rotate(r) \/ InvalidateFamily(r)
                                  \/ Issue(r) \/ SignIn(r)
BY DEF Next, RowAction

(* What the six do to the tokens.                                          *)
LEMMA InvalidateEffect ==
    ASSUME TypeOK, NEW F, Invalidate(F)
    PROVE  /\ tokens' \in Seq(Token) /\ Len(tokens') = Len(tokens)
           /\ \A i \in Ids : /\ tokens'[i].family = tokens[i].family
                             /\ tokens'[i].used = (tokens[i].used \/ tokens[i].family \in F)
<1>1. tokens \in Seq(Token) /\ Len(tokens) \in Nat /\ Ids = 1..Len(tokens)
  BY DEF TypeOK, Token, Ids
<1>2. \A i \in Ids : tokens[i] \in Token
  BY <1>1
<1>3. tokens' = [i \in 1..Len(tokens) |->
                    [tokens[i] EXCEPT !.used = tokens[i].used \/ tokens[i].family \in F]]
  BY <1>1 DEF Invalidate
<1>4. ASSUME NEW i \in Ids
      PROVE  LET new == [tokens[i] EXCEPT !.used = tokens[i].used \/ tokens[i].family \in F]
             IN  /\ new \in Token /\ new.family = tokens[i].family
                 /\ new.used = (tokens[i].used \/ tokens[i].family \in F)
  BY <1>2, <1>4 DEF Token
<1>5. tokens' \in [1..Len(tokens) -> Token]
  BY <1>1, <1>3, <1>4
<1>6. tokens' \in Seq(Token) /\ Len(tokens') = Len(tokens)
  BY <1>1, <1>5
<1> QED
  BY <1>1, <1>3, <1>4, <1>6

LEMMA SpendEffect ==
    ASSUME TypeOK, NEW i \in Ids, tokens' = [tokens EXCEPT ![i].used = TRUE]
    PROVE  /\ tokens' \in Seq(Token) /\ Len(tokens') = Len(tokens)
           /\ \A j \in Ids : /\ tokens'[j].family = tokens[j].family
                             /\ tokens'[j].used = IF j = i THEN TRUE ELSE tokens[j].used
<1>1. tokens \in Seq(Token) /\ Len(tokens) \in Nat /\ Ids = 1..Len(tokens)
  BY DEF TypeOK, Token, Ids
<1>2. \A j \in Ids : tokens[j] \in Token
  BY <1>1
<1>3. [tokens[i] EXCEPT !.used = TRUE] \in Token
  BY <1>2 DEF Token
<1>4. tokens' = [tokens EXCEPT ![i] = [tokens[i] EXCEPT !.used = TRUE]]
  OBVIOUS
<1>5. tokens' \in Seq(Token) /\ Len(tokens') = Len(tokens)
  BY <1>1, <1>3, <1>4
<1> QED
  BY <1>1, <1>2, <1>4, <1>5 DEF Token

LEMMA AppendEffect ==
    ASSUME TypeOK, NEW f \in Nat \ {0},
           tokens' = Append(tokens, [family |-> f, used |-> FALSE])
    PROVE  /\ tokens' \in Seq(Token) /\ Len(tokens') = Len(tokens) + 1
           /\ Len(tokens) \in Nat /\ Ids' = Ids \cup {Len(tokens) + 1}
           /\ Len(tokens) + 1 \notin Ids
           /\ \A j \in Ids : tokens'[j] = tokens[j]
           /\ tokens'[Len(tokens) + 1].family = f
           /\ tokens'[Len(tokens) + 1].used = FALSE
<1>1. tokens \in Seq(Token) /\ Len(tokens) \in Nat /\ Ids = 1..Len(tokens)
  BY DEF TypeOK, Token, Ids
<1>2. [family |-> f, used |-> FALSE] \in Token
  BY DEF Token
<1>3. tokens' \in Seq(Token) /\ Len(tokens') = Len(tokens) + 1
  BY <1>1, <1>2
<1>4. Ids' = 1..(Len(tokens) + 1)
  BY <1>3 DEF Ids
<1>5. Ids' = Ids \cup {Len(tokens) + 1} /\ Len(tokens) + 1 \notin Ids
  BY <1>1, <1>4
<1>6. /\ \A j \in Ids : tokens'[j] = tokens[j]
      /\ tokens'[Len(tokens) + 1] = [family |-> f, used |-> FALSE]
  BY <1>1, <1>2
<1> QED
  BY <1>1, <1>3, <1>5, <1>6

LEMMA TypeStep ==
    ASSUME TypeOK, [Next]_vars
    PROVE  TypeOK'
<1>s. /\ tokens \in Seq(Token) /\ Len(tokens) \in Nat /\ Ids = 1..Len(tokens)
      /\ \A i \in Ids : tokens[i] \in Token
  <2>1. tokens \in Seq(Token) /\ Len(tokens) \in Nat /\ Ids = 1..Len(tokens)
    BY DEF TypeOK, Token, Ids
  <2> QED
    BY <2>1
<1>t. /\ tokens \in Seq(Token) /\ pc \in [Requests -> Labels]
      /\ arg \in [Requests -> Nat] /\ closed \subseteq Nat /\ calls \in 0..MaxCalls
      /\ MaxCalls \in Nat /\ Len(tokens) \in Nat /\ Ids = 1..Len(tokens)
      /\ \A r \in Requests : pc[r] \in {"rotate", "replay", "issue"} => arg[r] \in Ids
      /\ \A i \in Ids : tokens[i] \in Token
  BY <1>s, AuthBounds DEF TypeOK
<1>k. ASSUME calls < MaxCalls PROVE calls + 1 \in 0..MaxCalls
  BY <1>k, <1>t
<1>f. \A i \in Ids : tokens[i].family \in Nat \ {0}
  BY <1>t DEF Token
<1>1. CASE UNCHANGED vars \/ Tick \/ \E r \in Requests : RowAction(r)
  BY <1>1, RowTypeStep
<1>2. CASE LogoutAll
  <2>1. tokens' \in Seq(Token) /\ Len(tokens') = Len(tokens)
    BY <1>2, InvalidateEffect DEF LogoutAll
  <2>2. closed' \subseteq Nat
    BY <1>2, <1>t, <1>f DEF LogoutAll, Invalidate
  <2>3. calls' \in 0..MaxCalls
    BY <1>2, <1>k DEF LogoutAll
  <2>4. UNCHANGED <<lockout, otp, rate, now, pc, arg, seen, at, failed, granted, reopened>>
    BY <1>2 DEF LogoutAll, locals
  <2> QED
    BY <1>t, <2>1, <2>2, <2>3, <2>4, TokenTypes
<1>3. ASSUME NEW r \in Requests, Refresh(r) PROVE TypeOK'
  <2>1. PICK i \in Ids : /\ Call(r, IF tokens[i].used THEN "replay" ELSE "rotate")
                         /\ arg' = [arg EXCEPT ![r] = i]
    BY <1>3 DEF Refresh
  <2>2. /\ pc' \in [Requests -> Labels]
        /\ \A s \in Requests : s # r => pc'[s] = pc[s]
    BY <1>t, <2>1 DEF Call, At, Labels
  <2>3. /\ arg' \in [Requests -> Nat] /\ arg'[r] = i
        /\ \A s \in Requests : s # r => arg'[s] = arg[s]
    BY <1>t, <2>1
  <2>4. calls' \in 0..MaxCalls
    BY <2>1, <1>k DEF Call
  <2>5. UNCHANGED <<tokens, lockout, otp, rate, now, seen, at, closed, failed, granted, reopened>>
    BY <1>3 DEF Refresh, tables, aux
  <2>6. \A s \in Requests : pc'[s] \in {"rotate", "replay", "issue"} => arg'[s] \in Ids
    BY <1>t, <2>2, <2>3
  <2>7. tokens' \in Seq(Token) /\ Len(tokens') >= Len(tokens) /\ closed' \subseteq Nat
    BY <1>t, <2>5
  <2> QED
    BY <2>2, <2>3, <2>4, <2>5, <2>6, <2>7, TokenTypes
<1>4. ASSUME NEW r \in Requests, Rotate(r) PROVE TypeOK'
  <2>1. arg[r] \in Ids /\ pc' \in [Requests -> Labels]
        /\ \A s \in Requests : pc'[s] \in {"rotate", "replay", "issue"}
                               => pc[s] \in {"rotate", "replay", "issue"}
    BY <1>4, <1>t DEF Rotate, At, Labels
  <2>2. UNCHANGED <<lockout, otp, rate, now, arg, seen, at, closed, failed, granted, reopened, calls>>
    BY <1>4 DEF Rotate, locals, aux
  <2>3. tokens' \in Seq(Token) /\ Len(tokens') = Len(tokens)
    <3>1. CASE tokens' = [tokens EXCEPT ![arg[r]].used = TRUE]
      BY <2>1, <3>1, SpendEffect
    <3> QED
      BY <1>4, <3>1, <1>t DEF Rotate
  <2> QED
    BY <1>t, <2>1, <2>2, <2>3, TokenTypes
<1>5. ASSUME NEW r \in Requests, InvalidateFamily(r) PROVE TypeOK'
  <2>1. arg[r] \in Ids /\ pc' \in [Requests -> Labels]
        /\ \A s \in Requests : pc'[s] \in {"rotate", "replay", "issue"} => pc'[s] = pc[s]
    BY <1>5, <1>t DEF InvalidateFamily, At, Labels
  <2>2. UNCHANGED <<lockout, otp, rate, now, arg, seen, at, failed, granted, reopened, calls>>
    BY <1>5 DEF InvalidateFamily, locals
  <2>3. tokens' \in Seq(Token) /\ Len(tokens') = Len(tokens)
    BY <1>5, InvalidateEffect DEF InvalidateFamily
  <2>4. closed' \subseteq Nat
    BY <1>5, <1>t, <1>f, <2>1 DEF InvalidateFamily, Invalidate
  <2> QED
    BY <1>t, <2>1, <2>2, <2>3, <2>4, TokenTypes
<1>6. ASSUME NEW r \in Requests, Issue(r) \/ SignIn(r) PROVE TypeOK'
  <2>1. pc' \in [Requests -> Labels]
        /\ \A s \in Requests : pc'[s] \in {"rotate", "replay", "issue"} => pc'[s] = pc[s]
    BY <1>6, <1>t DEF Issue, SignIn, At, Labels
  <2>2. UNCHANGED <<lockout, otp, rate, now, arg, seen, at, closed, failed, granted, reopened, calls>>
    BY <1>6 DEF Issue, SignIn, locals, aux
  <2>3. \E f \in Nat \ {0} : tokens' = Append(tokens, [family |-> f, used |-> FALSE])
    <3>1. CASE Issue(r)
      <4>1. tokens[arg[r]].family \in Nat \ {0}
        BY <3>1, <1>t, <1>f DEF Issue, At
      <4> QED
        BY <3>1, <4>1 DEF Issue
    <3>2. CASE SignIn(r)
      <4>1. Len(tokens) + 1 \in Nat \ {0}
        BY <1>t
      <4> QED
        BY <3>2, <4>1 DEF SignIn
    <3> QED
      BY <1>6, <3>1, <3>2
  <2>4. tokens' \in Seq(Token) /\ Len(tokens') = Len(tokens) + 1
    <3>1. PICK f \in Nat \ {0} : tokens' = Append(tokens, [family |-> f, used |-> FALSE])
      BY <2>3
    <3> QED
      BY <3>1, AppendEffect
  <2> QED
    BY <1>t, <2>1, <2>2, <2>4, TokenTypes
<1> QED
  BY <1>1, <1>2, <1>3, <1>4, <1>5, <1>6, StepCases

(* Every variable keeps its type, the rate row its limit (store.go:105),   *)
(* and no handler acts on a refresh token that is not there.               *)
THEOREM TypeCorrect == Spec => []TypeOK
BY TypeInit, TypeStep, PTL DEF Spec

-----------------------------------------------------------------------------
(* Families of refresh tokens.  The invariant says, of tokens and of the   *)
(* handlers about to issue one, what OneLiveToken and FamilyStaysDead say  *)
(* of families, and that a family is named by one of its tokens: a new     *)
(* family is then neither closed nor anybody's.                            *)

SpentBy(r) == pc[r] = "issue"

FamilyNamed == \A i \in Ids : tokens[i].family \in Ids
OneWorks ==
    \A i, j \in Ids :
        ~tokens[i].used /\ ~tokens[j].used /\ tokens[i].family = tokens[j].family => i = j
OneSpender ==
    \A r, s \in Requests :
        /\ SpentBy(r) /\ SpentBy(s)
        /\ tokens[arg[r]].family = tokens[arg[s]].family
        => r = s
WorksOrSpent ==
    \A i \in Ids, r \in Requests :
        ~tokens[i].used /\ SpentBy(r) => tokens[i].family # tokens[arg[r]].family
ClosedUsed == \A i \in Ids : tokens[i].family \in closed => tokens[i].used
ClosedUnspent == \A r \in Requests : SpentBy(r) => tokens[arg[r]].family \notin closed

TokenInv ==
    /\ FamilyNamed /\ closed \subseteq Ids
    /\ OneWorks /\ OneSpender /\ WorksOrSpent
    /\ ClosedUsed /\ ClosedUnspent

LEMMA TokenInvStep ==
    ASSUME TypeOK, TokenInv, [Next]_vars
    PROVE  TokenInv'
<1>t. /\ pc \in [Requests -> Labels] /\ arg \in [Requests -> Nat]
      /\ \A r \in Requests : pc[r] \in {"rotate", "replay", "issue"} => arg[r] \in Ids
  BY DEF TypeOK
<1>s. tokens \in Seq(Token) /\ Len(tokens) \in Nat /\ Ids = 1..Len(tokens)
  BY DEF TypeOK, Token, Ids
<1>1. CASE UNCHANGED vars \/ Tick \/ \E r \in Requests : RowAction(r)
  <2>1. Quiet
    BY <1>1, QuietSteps
  <2>2. Ids' = Ids /\ tokens' = tokens /\ arg' = arg /\ closed' = closed
    BY <2>1 DEF Quiet, Ids
  <2>3. \A r \in Requests : SpentBy(r)' => SpentBy(r)
    BY <2>1 DEF Quiet, SpentBy
  <2> QED
    BY <2>2, <2>3 DEF TokenInv, FamilyNamed, OneWorks, OneSpender, WorksOrSpent,
         ClosedUsed, ClosedUnspent
<1>2. ASSUME NEW F \in SUBSET Ids, Invalidate(F), arg' = arg,
             \A r \in Requests : SpentBy(r)' => SpentBy(r)
      PROVE  TokenInv'
  <2>1. /\ tokens' \in Seq(Token) /\ Len(tokens') = Len(tokens)
        /\ \A i \in Ids : /\ tokens'[i].family = tokens[i].family
                          /\ tokens'[i].used = (tokens[i].used \/ tokens[i].family \in F)
    BY <1>2, InvalidateEffect
  <2>2. Ids' = Ids
    BY <1>s, <2>1 DEF Ids
  <2>3. closed' = closed \cup {f \in F : Rotating(f) = {}}
    BY <1>2 DEF Invalidate
  <2>4. closed' \subseteq Ids
    BY <1>2, <2>3 DEF TokenInv, FamilyNamed, OneWorks, OneSpender, WorksOrSpent,
         ClosedUsed, ClosedUnspent
  <2>5. \A i \in Ids : tokens[i].family \in closed' => tokens'[i].used
    BY <2>1, <2>3 DEF TokenInv, FamilyNamed, OneWorks, OneSpender, WorksOrSpent,
         ClosedUsed, ClosedUnspent
  <2>6. \A r \in Requests : SpentBy(r) => tokens[arg[r]].family \notin closed'
    <3>1. SUFFICES ASSUME NEW r \in Requests, SpentBy(r)
                   PROVE  tokens[arg[r]].family \notin closed'
      OBVIOUS
    <3>2. r \in Rotating(tokens[arg[r]].family)
      BY <3>1 DEF Rotating, SpentBy
    <3> QED
      BY <2>3, <3>1, <3>2 DEF TokenInv, FamilyNamed, OneWorks, OneSpender, WorksOrSpent,
         ClosedUsed, ClosedUnspent
  <2>7. \A r \in Requests : SpentBy(r) => arg[r] \in Ids
    BY <1>t DEF SpentBy
  <2>8. \A i \in Ids : ~tokens'[i].used => ~tokens[i].used
    BY <2>1
  <2>9. \A r \in Requests :
            SpentBy(r)' => SpentBy(r) /\ tokens'[arg'[r]].family = tokens[arg[r]].family
    BY <1>2, <2>1, <2>7
  <2>10. \A i \in Ids : tokens'[i].family = tokens[i].family
    BY <2>1
  <2> QED
    <3>1. FamilyNamed'
      BY <2>2, <2>10 DEF TokenInv, FamilyNamed
    <3>2. OneWorks'
      BY <2>2, <2>8, <2>10 DEF TokenInv, OneWorks
    <3>3. OneSpender'
      BY <2>9 DEF TokenInv, OneSpender
    <3>4. WorksOrSpent'
      BY <2>2, <2>8, <2>9, <2>10 DEF TokenInv, WorksOrSpent
    <3>5. ClosedUsed'
      BY <2>2, <2>5, <2>10 DEF ClosedUsed
    <3>6. ClosedUnspent'
      BY <2>6, <2>9 DEF ClosedUnspent
    <3>7. closed' \subseteq Ids'
      BY <2>2, <2>4
    <3> QED
      BY <3>1, <3>2, <3>3, <3>4, <3>5, <3>6, <3>7 DEF TokenInv
<1>3. CASE LogoutAll
  <2>1. {tokens[i].family : i \in Ids} \subseteq Ids
    BY DEF TokenInv, FamilyNamed, OneWorks, OneSpender, WorksOrSpent,
         ClosedUsed, ClosedUnspent
  <2>2. arg' = arg /\ \A r \in Requests : SpentBy(r)' => SpentBy(r)
    BY <1>3 DEF LogoutAll, locals, SpentBy
  <2> QED
    BY <1>2, <1>3, <2>1, <2>2 DEF LogoutAll
<1>4. ASSUME NEW r \in Requests, InvalidateFamily(r) PROVE TokenInv'
  <2>1. arg[r] \in Ids
    BY <1>4, <1>t DEF InvalidateFamily, At
  <2>2. {tokens[arg[r]].family} \subseteq Ids
    BY <2>1 DEF TokenInv, FamilyNamed, OneWorks, OneSpender, WorksOrSpent,
         ClosedUsed, ClosedUnspent
  <2>3. arg' = arg /\ \A s \in Requests : SpentBy(s)' => SpentBy(s)
    BY <1>4, <1>t DEF InvalidateFamily, At, locals, SpentBy
  <2> QED
    BY <1>2, <1>4, <2>2, <2>3 DEF InvalidateFamily
<1>5. ASSUME NEW r \in Requests, Refresh(r) PROVE TokenInv'
  <2>1. PICK i \in Ids : /\ Call(r, IF tokens[i].used THEN "replay" ELSE "rotate")
                         /\ arg' = [arg EXCEPT ![r] = i]
    BY <1>5 DEF Refresh
  <2>2. \A s \in Requests : SpentBy(s)' => SpentBy(s) /\ arg'[s] = arg[s]
    BY <1>t, <2>1 DEF Call, At, SpentBy
  <2>3. tokens' = tokens /\ closed' = closed /\ Ids' = Ids
    BY <1>5 DEF Refresh, tables, aux, Ids
  <2> QED
    BY <2>2, <2>3 DEF TokenInv, FamilyNamed, OneWorks, OneSpender, WorksOrSpent,
         ClosedUsed, ClosedUnspent
<1>6. ASSUME NEW r \in Requests, Rotate(r) PROVE TokenInv'
  <2>1. arg' = arg /\ closed' = closed /\ arg[r] \in Ids /\ pc[r] = "rotate"
    BY <1>6, <1>t DEF Rotate, locals, aux, At
  <2>2. CASE At(r, "rotate", "replay") /\ UNCHANGED tokens
    <3>1. \A s \in Requests : SpentBy(s)' => SpentBy(s)
      BY <1>t, <2>2 DEF At, SpentBy
    <3>2. Ids' = Ids
      BY <2>2 DEF Ids
    <3> QED
      BY <2>1, <2>2, <3>1, <3>2 DEF TokenInv, FamilyNamed, OneWorks, OneSpender, WorksOrSpent,
         ClosedUsed, ClosedUnspent
  <2>3. CASE /\ At(r, "rotate", "issue") /\ ~tokens[arg[r]].used
             /\ tokens' = [tokens EXCEPT ![arg[r]].used = TRUE]
    <3>1. /\ tokens' \in Seq(Token) /\ Len(tokens') = Len(tokens)
          /\ \A j \in Ids : /\ tokens'[j].family = tokens[j].family
                            /\ tokens'[j].used = IF j = arg[r] THEN TRUE ELSE tokens[j].used
      BY <2>1, <2>3, SpendEffect
    <3>2. Ids' = Ids
      BY <1>s, <3>1 DEF Ids
    <3>3. \A s \in Requests : SpentBy(s)' => SpentBy(s) \/ s = r
      BY <1>t, <2>3 DEF At, SpentBy
    <3>4. \A s \in Requests : SpentBy(s) => arg[s] \in Ids
      BY <1>t DEF SpentBy
    <3>5. \A s \in Requests : SpentBy(s) => tokens[arg[s]].family # tokens[arg[r]].family
      BY <2>1, <2>3 DEF TokenInv, FamilyNamed, OneWorks, OneSpender, WorksOrSpent,
         ClosedUsed, ClosedUnspent
    <3>6. tokens[arg[r]].family \notin closed
      BY <2>1, <2>3 DEF TokenInv, FamilyNamed, OneWorks, OneSpender, WorksOrSpent,
         ClosedUsed, ClosedUnspent
    <3>7. \A j \in Ids : ~tokens'[j].used => /\ ~tokens[j].used
                                             /\ tokens[j].family # tokens[arg[r]].family
      BY <2>1, <2>3, <3>1 DEF TokenInv, OneWorks
    <3>8. \A s \in Requests :
              SpentBy(s)' => tokens'[arg'[s]].family = tokens[arg[s]].family
      BY <2>1, <3>1, <3>3, <3>4
    <3>9. \A j \in Ids : tokens'[j].family = tokens[j].family
      BY <3>1
    <3> QED
      <4>1. FamilyNamed'
        BY <3>2, <3>9 DEF TokenInv, FamilyNamed
      <4>2. OneWorks'
        BY <3>2, <3>7, <3>9 DEF TokenInv, OneWorks
      <4>3. OneSpender'
        BY <3>3, <3>5, <3>8 DEF TokenInv, OneSpender
      <4>4. WorksOrSpent'
        BY <3>2, <3>3, <3>7, <3>8, <3>9 DEF TokenInv, WorksOrSpent
      <4>5. ClosedUsed'
        BY <2>1, <3>1, <3>2, <3>3, <3>4, <3>5, <3>6, <3>7 DEF TokenInv, ClosedUsed
      <4>6. ClosedUnspent'
        BY <2>1, <3>1, <3>2, <3>3, <3>4, <3>5, <3>6, <3>7 DEF TokenInv, ClosedUnspent
      <4>7. closed' \subseteq Ids'
        BY <2>1, <3>1, <3>2, <3>3, <3>4, <3>5, <3>6, <3>7 DEF TokenInv
      <4> QED
        BY <4>1, <4>2, <4>3, <4>4, <4>5, <4>6, <4>7 DEF TokenInv
  <2> QED
    BY <1>6, <2>2, <2>3 DEF Rotate
<1>7. ASSUME NEW r \in Requests, Issue(r) PROVE TokenInv'
  <2> DEFINE f == tokens[arg[r]].family
             n == Len(tokens) + 1
  <2>1. /\ arg' = arg /\ closed' = closed /\ arg[r] \in Ids /\ SpentBy(r)
        /\ tokens' = Append(tokens, [family |-> f, used |-> FALSE])
    BY <1>7, <1>t DEF Issue, locals, aux, At, SpentBy
  <2>2. f \in Ids /\ f \in Nat \ {0}
    BY <1>s, <2>1 DEF TokenInv, FamilyNamed, OneWorks, OneSpender, WorksOrSpent,
         ClosedUsed, ClosedUnspent
  <2>3. /\ Ids' = Ids \cup {n} /\ n \notin Ids
        /\ \A j \in Ids : tokens'[j] = tokens[j]
        /\ tokens'[n].family = f /\ tokens'[n].used = FALSE
    BY <2>1, <2>2, AppendEffect
  <2>4. \A s \in Requests : SpentBy(s)' => SpentBy(s) /\ s # r /\ arg[s] \in Ids
    BY <1>7, <1>t DEF Issue, At, SpentBy
  <2>5. \A s \in Requests : SpentBy(s)' => tokens[arg[s]].family # f
    BY <2>1, <2>4 DEF TokenInv, FamilyNamed, OneWorks, OneSpender, WorksOrSpent,
         ClosedUsed, ClosedUnspent
  <2>6. \A j \in Ids : ~tokens[j].used => tokens[j].family # f
    BY <2>1 DEF TokenInv, FamilyNamed, OneWorks, OneSpender, WorksOrSpent,
         ClosedUsed, ClosedUnspent
  <2>7. f \notin closed
    BY <2>1 DEF TokenInv, FamilyNamed, OneWorks, OneSpender, WorksOrSpent,
         ClosedUsed, ClosedUnspent
  <2>8. \A s \in Requests : SpentBy(s)' => tokens'[arg'[s]].family = tokens[arg[s]].family
    BY <2>1, <2>3, <2>4
  <2>9. tokens'[n].family = f /\ ~tokens'[n].used
    BY <2>3
  <2> HIDE DEF f, n
  <2> QED
    <3>1. FamilyNamed'
      BY <2>1, <2>2, <2>3, <2>4, <2>5, <2>6, <2>7 DEF TokenInv, FamilyNamed
    <3>2. OneWorks'
      BY <2>3, <2>6, <2>9 DEF TokenInv, OneWorks
    <3>3. OneSpender'
      BY <2>1, <2>2, <2>3, <2>4, <2>5, <2>6, <2>7 DEF TokenInv, OneSpender
    <3>4. WorksOrSpent'
      BY <2>3, <2>4, <2>5, <2>8, <2>9 DEF TokenInv, WorksOrSpent
    <3>5. ClosedUsed'
      BY <2>1, <2>2, <2>3, <2>4, <2>5, <2>6, <2>7 DEF TokenInv, ClosedUsed
    <3>6. ClosedUnspent'
      BY <2>1, <2>2, <2>3, <2>4, <2>5, <2>6, <2>7 DEF TokenInv, ClosedUnspent
    <3>7. closed' \subseteq Ids'
      BY <2>1, <2>2, <2>3, <2>4, <2>5, <2>6, <2>7 DEF TokenInv
    <3> QED
      BY <3>1, <3>2, <3>3, <3>4, <3>5, <3>6, <3>7 DEF TokenInv
<1>8. ASSUME NEW r \in Requests, SignIn(r) PROVE TokenInv'
  <2> DEFINE n == Len(tokens) + 1
  <2>1. /\ arg' = arg /\ closed' = closed /\ n \in Nat \ {0}
        /\ tokens' = Append(tokens, [family |-> n, used |-> FALSE])
    BY <1>8, <1>s DEF SignIn, locals, aux
  <2>2. /\ Ids' = Ids \cup {n} /\ n \notin Ids
        /\ \A j \in Ids : tokens'[j] = tokens[j]
        /\ tokens'[n].family = n /\ tokens'[n].used = FALSE
    BY <2>1, AppendEffect
  <2>3. \A s \in Requests : SpentBy(s)' => SpentBy(s) /\ arg[s] \in Ids
    BY <1>8, <1>t DEF SignIn, At, SpentBy
  <2>4. \A s \in Requests : SpentBy(s)' => /\ tokens'[arg'[s]].family = tokens[arg[s]].family
                                           /\ tokens[arg[s]].family \in Ids
    BY <2>1, <2>2, <2>3 DEF TokenInv, FamilyNamed
  <2>5. \A j \in Ids : tokens[j].family # n
    BY <2>2 DEF TokenInv, FamilyNamed
  <2> HIDE DEF n
  <2> QED
    <3>1. FamilyNamed'
      BY <2>1, <2>2, <2>3 DEF TokenInv, FamilyNamed
    <3>2. OneWorks'
      BY <2>2, <2>5 DEF TokenInv, OneWorks
    <3>3. OneSpender'
      BY <2>1, <2>2, <2>3 DEF TokenInv, OneSpender
    <3>4. WorksOrSpent'
      BY <2>2, <2>3, <2>4, <2>5 DEF TokenInv, WorksOrSpent
    <3>5. ClosedUsed'
      BY <2>1, <2>2, <2>3 DEF TokenInv, ClosedUsed
    <3>6. ClosedUnspent'
      BY <2>1, <2>2, <2>3 DEF TokenInv, ClosedUnspent
    <3>7. closed' \subseteq Ids'
      BY <2>1, <2>2, <2>3 DEF TokenInv
    <3> QED
      BY <3>1, <3>2, <3>3, <3>4, <3>5, <3>6, <3>7 DEF TokenInv
<1> QED
  BY <1>1, <1>3, <1>4, <1>5, <1>6, <1>7, <1>8, StepCases

LEMMA TokenInvHolds == Spec => [](TypeOK /\ TokenInv)
<1>1. Init => TokenInv
  BY DEF Init, TokenInv, FamilyNamed, OneWorks, OneSpender, WorksOrSpent,
         ClosedUsed, ClosedUnspent, Ids, SpentBy
<1> QED
  BY <1>1, TypeInit, TypeStep, TokenInvStep, PTL DEF Spec

(* However many requests present tokens of a family at once, it has at     *)
(* most one that works, counting the one about to be issued                *)
(* (refreshtoken.go:134).                                                  *)
THEOREM RotationSingleUse == Spec => []OneLiveToken
<1>1. ASSUME TypeOK, TokenInv PROVE OneLiveToken
  <2>1. SUFFICES ASSUME NEW f \in 1..Len(tokens)
                 PROVE  /\ \A i, j \in Live(f) : i = j
                        /\ \A r, s \in Rotating(f) : r = s
                        /\ Live(f) = {} \/ Rotating(f) = {}
    BY DEF OneLiveToken
  <2>2. \A i \in Live(f) : i \in Ids /\ ~tokens[i].used /\ tokens[i].family = f
    BY DEF Live
  <2>3. \A r \in Rotating(f) : r \in Requests /\ SpentBy(r) /\ tokens[arg[r]].family = f
    BY DEF Rotating, SpentBy
  <2> QED
    BY <1>1, <2>2, <2>3 DEF TokenInv, FamilyNamed, OneWorks, OneSpender, WorksOrSpent,
         ClosedUsed, ClosedUnspent
<1> QED
  BY <1>1, TokenInvHolds, PTL

(* A family invalidated while no rotation of it was under way never has a  *)
(* working token again (refreshtoken.go:75-76).                            *)
THEOREM DeadFamilies == Spec => []FamilyStaysDead
<1>1. ASSUME TypeOK, TokenInv PROVE FamilyStaysDead
  <2>1. SUFFICES ASSUME NEW f \in closed PROVE Live(f) = {} /\ Rotating(f) = {}
    BY DEF FamilyStaysDead
  <2> QED
    BY <1>1, <2>1 DEF TokenInv, ClosedUsed, ClosedUnspent, Live, Rotating, SpentBy
<1> QED
  BY <1>1, TokenInvHolds, PTL

-----------------------------------------------------------------------------
(* Guesses at a one-time code.                                             *)

Guessing == {r \in Requests : pc[r] = "attempt"}

LEMMA GuessingFinite ==
    /\ IsFiniteSet(Guessing) /\ Cardinality(Guessing) \in Nat
    /\ Cardinality(Requests) \in Nat /\ Cardinality(Guessing) <= Cardinality(Requests)
BY RequestsFinite, FS_Subset, FS_CardinalityType DEF Guessing

(* All steps but two start no guess, and keep the count or start it anew.  *)
LEMMA NoGuess ==
    ASSUME TypeOK, [Next]_vars,
           ~ \E r \in Requests : VerifyOTP(r) \/ RecordAttempt(r)
    PROVE  /\ Guessing' \subseteq Guessing
           /\ otp'.attempts = otp.attempts \/ otp'.attempts = 0
<1>t. pc \in [Requests -> Labels]
  BY DEF TypeOK
<1>1. CASE UNCHANGED vars \/ Tick \/ LogoutAll
  BY <1>1 DEF vars, Tick, LogoutAll, tables, Guessing
<1>2. ASSUME NEW r \in Requests, NEW to \in Labels, to # "attempt",
             pc' = [pc EXCEPT ![r] = to]
      PROVE  Guessing' \subseteq Guessing
  BY <1>t, <1>2 DEF Guessing
<1>3. ASSUME NEW r \in Requests,
             \/ Fail(r) \/ ClearFailures(r) \/ LoadFailures(r) \/ WriteFailures(r)
      PROVE  Guessing' \subseteq Guessing /\ otp' = otp
  BY <1>2, <1>3 DEF Fail, ClearFailures, LoadFailures, WriteFailures, At, Labels, tables
<1>4. ASSUME NEW r \in Requests, Login(r) \/ SendOTP(r) \/ Refresh(r)
      PROVE  Guessing' \subseteq Guessing /\ otp' = otp
  <2>1. otp' = otp
    BY <1>4 DEF Login, SendOTP, Refresh, tables
  <2>2. CASE Login(r)
    BY <1>2, <2>1, <2>2 DEF Login, Call, At, Labels
  <2>3. CASE SendOTP(r)
    BY <1>2, <2>1, <2>3 DEF SendOTP, Call, At, Labels
  <2>4. CASE Refresh(r)
    BY <1>2, <2>1, <2>4 DEF Refresh, Call, At, Labels
  <2> QED
    BY <1>4, <2>2, <2>3, <2>4
<1>5. ASSUME NEW r \in Requests,
             \/ Rotate(r) \/ InvalidateFamily(r) \/ Issue(r) \/ SignIn(r)
             \/ IncrementRate(r) \/ OpenRate(r) \/ ResetRate(r)
      PROVE  Guessing' \subseteq Guessing /\ otp' = otp
  <2>1. \E to \in Labels : to # "attempt" /\ pc' = [pc EXCEPT ![r] = to]
    BY <1>5 DEF Rotate, InvalidateFamily, Issue, SignIn, IncrementRate, OpenRate,
         ResetRate, At, Labels
  <2> QED
    BY <1>2, <1>5, <2>1 DEF Rotate, InvalidateFamily, Issue, SignIn, IncrementRate,
         OpenRate, ResetRate
<1>6. ASSUME NEW r \in Requests, StoreOTP(r) \/ DeleteOTP(r)
      PROVE  /\ Guessing' \subseteq Guessing
             /\ otp'.attempts = otp.attempts \/ otp'.attempts = 0
  <2>1. \E to \in Labels : to # "attempt" /\ pc' = [pc EXCEPT ![r] = to]
    BY <1>6 DEF StoreOTP, DeleteOTP, At, Labels
  <2>2. otp'.attempts = otp.attempts \/ otp'.attempts = 0
    BY <1>6 DEF StoreOTP, DeleteOTP, NoCode
  <2> QED
    BY <1>2, <2>1, <2>2
<1> QED
  BY <1>1, <1>3, <1>4, <1>5, <1>6 DEF Next

(* Wrong guesses pass maxOTPAttempts by less than the number of handlers   *)
(* that run at once, although they are counted after the check             *)
(* (otp.go:130-137).                                                       *)
THEOREM AttemptLimit == Spec => []AttemptsBounded
<1>c. MaxAttempts \in Nat /\ MaxAttempts > 0
  BY LimitsAssumption
<1>1. Init => AttemptsBounded
  <2> SUFFICES ASSUME Init PROVE AttemptsBounded
    OBVIOUS
  <2>1. otp.attempts = 0
    BY DEF Init, NoCode
  <2> QED
    BY <1>c, <2>1, GuessingFinite DEF AttemptsBounded, Guessing
<1>2. ASSUME TypeOK, AttemptsBounded, [Next]_vars PROVE AttemptsBounded'
  <2>t. otp.attempts \in Nat /\ pc \in [Requests -> Labels]
    BY <1>2 DEF TypeOK
  <2>i. otp.attempts + Cardinality(Guessing) < MaxAttempts + Cardinality(Requests)
    BY <1>2 DEF AttemptsBounded, Guessing
  <2>g. SUFFICES otp'.attempts + Cardinality(Guessing') < MaxAttempts + Cardinality(Requests)
    BY DEF AttemptsBounded, Guessing
  <2>1. ASSUME Guessing' \subseteq Guessing,
               otp'.attempts = otp.attempts \/ otp'.attempts = 0
        PROVE  otp'.attempts + Cardinality(Guessing') < MaxAttempts + Cardinality(Requests)
    <3>1. Cardinality(Guessing') \in Nat /\ Cardinality(Guessing') <= Cardinality(Guessing)
      BY <2>1, GuessingFinite, FS_Subset, FS_CardinalityType
    <3> QED
      BY <1>c, <2>t, <2>i, <2>1, <3>1, GuessingFinite
  <2>2. ASSUME NEW r \in Requests, VerifyOTP(r)
        PROVE  otp'.attempts + Cardinality(Guessing') < MaxAttempts + Cardinality(Requests)
    <3>1. otp' = otp /\ pc[r] = "idle"
      BY <2>2 DEF VerifyOTP, Call, At, tables
    <3>2. CASE Call(r, "gone") \/ Call(r, "consume")
      <4>1. Guessing' \subseteq Guessing
        BY <2>t, <3>2 DEF Guessing, Call, At
      <4> QED
        BY <2>1, <3>1, <4>1
    <3>3. CASE Call(r, "attempt") /\ otp.attempts < MaxAttempts
      <4>1. Guessing' = Guessing \cup {r} /\ r \notin Guessing
        BY <2>t, <3>1, <3>3 DEF Guessing, Call, At
      <4>2. Cardinality(Guessing') = Cardinality(Guessing) + 1
        BY <4>1, GuessingFinite, FS_AddElement
      <4>3. Cardinality(Guessing') <= Cardinality(Requests)
        BY <4>1, RequestsFinite, FS_Subset DEF Guessing
      <4> QED
        BY <1>c, <2>t, <3>1, <3>3, <4>2, <4>3, GuessingFinite
    <3> QED
      BY <2>2, <3>2, <3>3 DEF VerifyOTP
  <2>3. ASSUME NEW r \in Requests, RecordAttempt(r)
        PROVE  otp'.attempts + Cardinality(Guessing') < MaxAttempts + Cardinality(Requests)
    <3>1. Guessing' = Guessing \ {r} /\ r \in Guessing
      BY <2>t, <2>3 DEF Guessing, RecordAttempt, At
    <3>2. Cardinality(Guessing') = Cardinality(Guessing) - 1
      BY <3>1, GuessingFinite, FS_RemoveElement
    <3>3. otp'.attempts = otp.attempts \/ otp'.attempts = otp.attempts + 1
      BY <1>2, <2>3 DEF RecordAttempt, TypeOK
    <3> QED
      BY <1>c, <2>t, <2>i, <3>2, <3>3, GuessingFinite
  <2> QED
    BY <1>2, <2>1, <2>2, <2>3, NoGuess
<1> QED
  BY <1>1, <1>2, TypeCorrect, PTL DEF Spec

-----------------------------------------------------------------------------
(* The throttles of the login page.                                        *)

(* A failure or a code more, at a time that counts or at one that does not.*)
LEMMA SinceAppend ==
    ASSUME NEW s \in Seq(Nat), NEW x \in Nat, NEW t \in Nat
    PROVE  /\ Since(s, t) \in Nat
           /\ x >= t => Since(Append(s, x), t) = Since(s, t) + 1
           /\ x < t => Since(Append(s, x), t) = Since(s, t)
<1> DEFINE A == {i \in DOMAIN s : s[i] >= t}
           B == {i \in DOMAIN Append(s, x) : Append(s, x)[i] >= t}
           n == Len(s) + 1
<1>1. /\ Len(s) \in Nat /\ DOMAIN s = 1..Len(s) /\ DOMAIN Append(s, x) = 1..n
      /\ Append(s, x)[n] = x /\ \A i \in 1..Len(s) : Append(s, x)[i] = s[i]
  OBVIOUS
<1>2. IsFiniteSet(1..Len(s))
  BY <1>1, FS_Interval
<1>3. A \subseteq 1..Len(s)
  BY <1>1
<1>4. IsFiniteSet(A) /\ Cardinality(A) \in Nat
  BY <1>2, <1>3, FS_Subset, FS_CardinalityType
<1>5. n \notin A
  BY <1>1
<1>6. ASSUME x >= t PROVE B = A \cup {n}
  BY <1>1, <1>6
<1>7. ASSUME x < t PROVE B = A
  BY <1>1, <1>7
<1>8. Cardinality(A \cup {n}) = Cardinality(A) + 1
  BY <1>4, <1>5, FS_AddElement
<1>9. Since(s, t) = Cardinality(A) /\ Since(Append(s, x), t) = Cardinality(B)
  BY DEF Since
<1> QED
  BY <1>4, <1>6, <1>7, <1>8, <1>9

(* Nothing counts that is not there.                                       *)
LEMMA SinceNone ==
    ASSUME NEW s \in Seq(Nat), NEW t \in Nat, \A i \in DOMAIN s : s[i] < t
    PROVE  Since(s, t) = 0
<1>1. {i \in DOMAIN s : s[i] >= t} = {}
  BY SMT
<1> QED
  BY <1>1, FS_EmptySet DEF Since

(* What a handler that is about to write counted: the row it loaded has    *)
(* one failure less than there have been since, its own.                   *)
Owed(r) ==
    /\ at[r] <= now /\ seen[r].start <= now
    /\ seen[r].count < Since(failed, seen[r].start)
    /\ 0 < Since(failed, at[r])

(* ThrottlesHold, made inductive: what the handlers hold will be earned,   *)
(* and the rate row counts every code granted in its window.               *)
ThrottleInv ==
    /\ LockEarned
    /\ lockout.start <= now
    /\ \A r \in Requests : pc[r] = "write" => Owed(r)
    /\ rate.count = 0 => granted = <<>>
    /\ ~reopened => Since(granted, rate.start) <= rate.count

(* Numbers.                                                                *)
LEMMA ThrottleNumbers ==
    ASSUME TypeOK
    PROVE  /\ now \in Nat /\ failed \in Seq(Nat) /\ granted \in Seq(Nat)
           /\ lockout \in Row /\ lockout.start \in Nat /\ lockout.count \in Nat /\ lockout.until \in Nat
           /\ rate.count \in Nat /\ rate.start \in Nat /\ rate.count <= MaxOTPs /\ MaxOTPs \in Nat
           /\ \A r \in Requests : /\ seen[r] \in Row /\ seen[r].start \in Nat /\ seen[r].count \in Nat
                                  /\ at[r] \in Nat
           /\ pc \in [Requests -> Labels] /\ seen \in [Requests -> Row] /\ at \in [Requests -> Time]
<1>1. MaxTime \in Nat /\ MaxOTPs \in Nat
  BY AuthBounds, LimitsAssumption
<1>2. \A x \in Time : x \in Nat
  BY <1>1 DEF Time
<1>3. \A s \in Seq(Time) : s \in Seq(Nat)
  BY <1>2
<1>4. failed \in Seq(Nat) /\ granted \in Seq(Nat)
  BY <1>3 DEF TypeOK
<1>5. /\ lockout \in Row /\ pc \in [Requests -> Labels] /\ seen \in [Requests -> Row]
      /\ at \in [Requests -> Time] /\ now \in Time /\ rate \in [count : 0..MaxOTPs, start : Time]
  BY DEF TypeOK, Row
<1>6. \A row \in Row : row.start \in Nat /\ row.count \in Nat /\ row.until \in Nat
  BY <1>2 DEF Row
<1>7. /\ \A r \in Requests : seen[r] \in Row /\ at[r] \in Time
      /\ rate.count \in Nat /\ rate.count <= MaxOTPs /\ rate.start \in Time
  BY <1>1, <1>5
<1> QED
  BY <1>1, <1>2, <1>4, <1>5, <1>6, <1>7

(* A step that begins no write and leaves the rows and the counts.         *)
LEMMA ThrottleFrame ==
    ASSUME TypeOK, ThrottleInv, now' \in Nat, now <= now',
           UNCHANGED <<lockout, rate, seen, failed, granted, reopened>>,
           \A r \in Requests : pc'[r] = "write" => pc[r] = "write" /\ at'[r] = at[r]
    PROVE  ThrottleInv'
<1>1. LockEarned'
  BY DEF ThrottleInv, LockEarned, Since
<1>2. lockout'.start <= now'
  BY ThrottleNumbers DEF ThrottleInv
<1>3. ASSUME NEW r \in Requests, pc'[r] = "write" PROVE Owed(r)'
  <2>1. Owed(r) /\ at'[r] = at[r] /\ seen'[r] = seen[r]
    BY <1>3 DEF ThrottleInv
  <2>2. at[r] <= now' /\ seen[r].start <= now'
    BY <2>1, ThrottleNumbers DEF Owed
  <2> QED
    BY <2>1, <2>2 DEF Owed, Since
<1>4. /\ rate'.count = 0 => granted' = <<>>
      /\ ~reopened' => Since(granted', rate'.start) <= rate'.count
  BY DEF ThrottleInv
<1> QED
  BY <1>1, <1>2, <1>3, <1>4 DEF ThrottleInv, Since

(* Steps that have nothing to do with the throttles, and Tick.             *)
LEMMA ThrottleQuiet ==
    ASSUME TypeOK, ThrottleInv,
           \/ UNCHANGED vars \/ Tick \/ LogoutAll
           \/ \E r \in Requests :
                 \/ Fail(r) \/ Refresh(r) \/ Rotate(r) \/ InvalidateFamily(r) \/ Issue(r)
                 \/ SignIn(r) \/ Login(r) \/ SendOTP(r) \/ StoreOTP(r) \/ VerifyOTP(r)
                 \/ RecordAttempt(r) \/ DeleteOTP(r)
    PROVE  ThrottleInv'
<1>n. now \in Nat /\ pc \in [Requests -> Labels] /\ at \in [Requests -> Time]
  BY ThrottleNumbers
<1>1. CASE UNCHANGED vars \/ Tick \/ LogoutAll
  <2>1. now' \in Nat /\ now <= now'
    BY <1>1, <1>n DEF vars, Tick, LogoutAll
  <2>2. UNCHANGED <<lockout, rate, seen, failed, granted, reopened, pc, at>>
    BY <1>1 DEF vars, Tick, LogoutAll, tables, locals, aux
  <2> QED
    BY <2>1, <2>2, ThrottleFrame
<1>2. ASSUME NEW r \in Requests, NEW to \in Labels, to # "write", pc' = [pc EXCEPT ![r] = to],
             \A q \in Requests : q # r => at'[q] = at[q],
             UNCHANGED <<lockout, rate, seen, failed, granted, reopened, now>>
      PROVE  ThrottleInv'
  <2>1. \A q \in Requests : pc'[q] = "write" => pc[q] = "write" /\ at'[q] = at[q]
    BY <1>n, <1>2
  <2> QED
    BY <1>n, <1>2, <2>1, ThrottleFrame
<1>3. ASSUME NEW r \in Requests,
             Fail(r) \/ Rotate(r) \/ InvalidateFamily(r) \/ Issue(r) \/ SignIn(r)
      PROVE  ThrottleInv'
  <2>1. \E to \in Labels : to # "write" /\ pc' = [pc EXCEPT ![r] = to]
    BY <1>3 DEF Fail, Rotate, InvalidateFamily, Issue, SignIn, At, Labels
  <2>2. UNCHANGED <<lockout, rate, seen, failed, granted, reopened, now, at>>
    BY <1>3 DEF Fail, Rotate, InvalidateFamily, Issue, SignIn, tables, locals, aux
  <2> QED
    BY <1>2, <2>1, <2>2
<1>4. ASSUME NEW r \in Requests, StoreOTP(r) \/ RecordAttempt(r) \/ DeleteOTP(r)
      PROVE  ThrottleInv'
  <2>1. \E to \in Labels : to # "write" /\ pc' = [pc EXCEPT ![r] = to]
    BY <1>4 DEF StoreOTP, RecordAttempt, DeleteOTP, At, Labels
  <2>2. UNCHANGED <<lockout, rate, seen, failed, granted, reopened, now, at>>
    BY <1>4 DEF StoreOTP, RecordAttempt, DeleteOTP, tables, locals, aux
  <2> QED
    BY <1>2, <2>1, <2>2
<1>5. ASSUME NEW r \in Requests, Refresh(r) \/ Login(r) \/ VerifyOTP(r)
      PROVE  ThrottleInv'
  <2>1. \E to \in Labels : to # "write" /\ pc' = [pc EXCEPT ![r] = to]
    BY <1>5 DEF Refresh, Login, VerifyOTP, Call, At, Labels
  <2>2. UNCHANGED <<lockout, rate, seen, failed, granted, reopened, now, at>>
    BY <1>5 DEF Refresh, Login, VerifyOTP, tables, locals, aux
  <2> QED
    BY <1>2, <2>1, <2>2
<1>6. ASSUME NEW r \in Requests, SendOTP(r)
      PROVE  ThrottleInv'
  <2>1. \E to \in Labels : to # "write" /\ pc' = [pc EXCEPT ![r] = to]
    BY <1>6 DEF SendOTP, Call, At, Labels
  <2>2. UNCHANGED <<lockout, rate, seen, failed, granted, reopened, now>>
    BY <1>6 DEF SendOTP, tables, aux
  <2>3. \A q \in Requests : q # r => at'[q] = at[q]
    BY <1>6, <1>n DEF SendOTP
  <2> QED
    BY <1>2, <2>1, <2>2, <2>3
<1> QED
  BY <1>1, <1>3, <1>4, <1>5, <1>6

(* A row that a handler makes of what it loaded is earned.                 *)
LEMMA CountedEarned ==
    ASSUME TypeOK, NEW r \in Requests, Owed(r),
           NEW row, row = Counted(seen[r], at[r])
    PROVE  /\ row.count <= Since(failed, row.start)
           /\ row.until > 0 => row.count >= MaxFailed
           /\ row.start <= now
<1>1. /\ seen[r].start \in Nat /\ seen[r].count \in Nat /\ at[r] \in Nat /\ failed \in Seq(Nat)
      /\ now \in Nat
  BY ThrottleNumbers
<1>2. Since(failed, seen[r].start) \in Nat /\ Since(failed, at[r]) \in Nat
  BY <1>1, SinceAppend
<1>3. \/ row.count = seen[r].count + 1 /\ row.start = seen[r].start
      \/ row.count = 1 /\ row.start = at[r]
  BY DEF Counted
<1>4. row.until > 0 => row.count >= MaxFailed
  BY DEF Counted
<1>5. CASE row.count = seen[r].count + 1 /\ row.start = seen[r].start
  BY <1>1, <1>2, <1>4, <1>5 DEF Owed
<1>6. CASE row.count = 1 /\ row.start = at[r]
  BY <1>1, <1>2, <1>4, <1>6 DEF Owed
<1> QED
  BY <1>3, <1>5, <1>6

LEMMA ThrottleStep ==
    ASSUME TypeOK, TypeOK', ThrottleInv, [Next]_vars
    PROVE  ThrottleInv'
<1>n. /\ now \in Nat /\ failed \in Seq(Nat) /\ granted \in Seq(Nat)
      /\ lockout \in Row /\ lockout.start \in Nat /\ lockout.count \in Nat
      /\ rate.count \in Nat /\ rate.start \in Nat
      /\ pc \in [Requests -> Labels] /\ seen \in [Requests -> Row] /\ at \in [Requests -> Time]
      /\ \A r \in Requests : seen[r].start \in Nat /\ seen[r].count \in Nat /\ at[r] \in Nat
  BY ThrottleNumbers
<1>1. ASSUME NEW r \in Requests, ClearFailures(r)
      PROVE  ThrottleInv'
  <2>1. /\ lockout' = NoRow \/ lockout' = lockout
        /\ UNCHANGED <<rate, now, seen, at, failed, granted, reopened>>
    BY <1>1 DEF ClearFailures, locals, aux
  <2>2. \A q \in Requests : pc'[q] = "write" => pc[q] = "write"
    BY <1>1, <1>n DEF ClearFailures, At
  <2>3. Since(failed, 0) \in Nat
    BY <1>n, SinceAppend
  <2>4. LockEarned' /\ lockout'.start <= now'
    <3>1. CASE lockout' = NoRow
      BY <2>1, <2>3, <3>1, <1>n DEF LockEarned, NoRow, Since
    <3>2. CASE lockout' = lockout
      BY <2>1, <3>2 DEF ThrottleInv, LockEarned, Since
    <3> QED
      BY <2>1, <3>1, <3>2
  <2>5. \A q \in Requests : pc'[q] = "write" => Owed(q)'
    BY <2>1, <2>2 DEF ThrottleInv, Owed, Since
  <2> QED
    BY <2>1, <2>4, <2>5 DEF ThrottleInv, Since
<1>2. ASSUME NEW r \in Requests, LoadFailures(r)
      PROVE  ThrottleInv'
  <2>1. UNCHANGED <<lockout, rate, now, granted, reopened>>
    BY <1>2 DEF LoadFailures, tables
  <2>2. CASE At(r, "record", "idle") /\ UNCHANGED <<seen, at, failed>>
    <3>1. \A q \in Requests : pc'[q] = "write" => pc[q] = "write" /\ at'[q] = at[q]
      BY <2>2, <1>n DEF At
    <3> QED
      BY <2>1, <2>2, <3>1, <1>n, ThrottleFrame
  <2>3. CASE /\ At(r, "record", "write")
             /\ seen' = [seen EXCEPT ![r] = lockout] /\ at' = [at EXCEPT ![r] = now]
             /\ failed' = Append(failed, now)
    <3>1. ASSUME NEW t \in Nat
          PROVE  /\ Since(failed, t) \in Nat /\ Since(failed', t) \in Nat
                 /\ Since(failed, t) <= Since(failed', t)
                 /\ t <= now => Since(failed', t) = Since(failed, t) + 1
      <4>1. /\ Since(failed, t) \in Nat
            /\ now >= t => Since(Append(failed, now), t) = Since(failed, t) + 1
            /\ now < t => Since(Append(failed, now), t) = Since(failed, t)
        BY <1>n, SinceAppend
      <4>2. failed' = Append(failed, now)
        BY <2>3
      <4> QED
        BY <4>1, <4>2, <1>n
    <3>2. lockout.count <= Since(failed, lockout.start) /\ lockout.start <= now
      BY DEF ThrottleInv, LockEarned
    <3>3. LockEarned' /\ lockout'.start <= now'
      <4>0. /\ Since(failed, lockout.start) \in Nat /\ Since(failed', lockout.start) \in Nat
            /\ Since(failed, lockout.start) <= Since(failed', lockout.start)
        BY <3>1, <1>n, Zenon
      <4>1. lockout.count <= Since(failed', lockout.start)
        BY <4>0, <3>2, <1>n
      <4> QED
        BY <2>1, <3>2, <4>1 DEF ThrottleInv, LockEarned, Since
    <3>4. ASSUME NEW q \in Requests, pc'[q] = "write" PROVE Owed(q)'
      <4>1. CASE q = r
        <5>1. seen'[q] = lockout /\ at'[q] = now
          BY <2>3, <4>1, <1>n
        <5>2. /\ Since(failed, lockout.start) \in Nat /\ Since(failed, now) \in Nat
              /\ lockout.start <= now => Since(failed', lockout.start) = Since(failed, lockout.start) + 1
              /\ now <= now => Since(failed', now) = Since(failed, now) + 1
          BY <3>1, <1>n, Zenon
        <5>3. lockout.count < Since(failed', lockout.start) /\ 0 < Since(failed', now)
          BY <5>2, <3>2, <1>n
        <5> QED
          BY <2>1, <3>2, <5>1, <5>3, <1>n DEF Owed, Since
      <4>2. CASE q # r
        <5>1. seen'[q] = seen[q] /\ at'[q] = at[q] /\ pc[q] = "write"
          BY <2>3, <3>4, <4>2, <1>n DEF At
        <5>2. Owed(q)
          BY <5>1 DEF ThrottleInv
        <5>3. /\ Since(failed, seen[q].start) \in Nat /\ Since(failed', seen[q].start) \in Nat
              /\ Since(failed, seen[q].start) <= Since(failed', seen[q].start)
              /\ Since(failed, at[q]) \in Nat /\ Since(failed', at[q]) \in Nat
              /\ Since(failed, at[q]) <= Since(failed', at[q])
          BY <3>1, <1>n, Zenon
        <5>4. seen[q].count < Since(failed', seen[q].start) /\ 0 < Since(failed', at[q])
          BY <5>2, <5>3, <1>n DEF Owed
        <5> QED
          BY <2>1, <5>1, <5>2, <5>4 DEF Owed, Since
      <4> QED
        BY <4>1, <4>2
    <3> QED
      BY <2>1, <3>3, <3>4 DEF ThrottleInv, Since
  <2> QED
    BY <1>2, <2>2, <2>3 DEF LoadFailures
<1>3. ASSUME NEW r \in Requests, WriteFailures(r)
      PROVE  ThrottleInv'
  <2>1. /\ UNCHANGED <<rate, now, seen, at, failed, granted, reopened>>
        /\ lockout' = Counted(seen[r], at[r]) \/ lockout' = lockout
    BY <1>3 DEF WriteFailures, locals, aux
  <2>2. pc[r] = "write" /\ \A q \in Requests : pc'[q] = "write" => pc[q] = "write"
    BY <1>3, <1>n DEF WriteFailures, At
  <2>3. Owed(r)
    BY <2>2 DEF ThrottleInv
  <2>4. LockEarned' /\ lockout'.start <= now'
    <3>1. CASE lockout' = Counted(seen[r], at[r])
      BY <2>1, <2>3, <3>1, CountedEarned DEF LockEarned, Since
    <3>2. CASE lockout' = lockout
      BY <2>1, <3>2 DEF ThrottleInv, LockEarned, Since
    <3> QED
      BY <2>1, <3>1, <3>2
  <2>5. \A q \in Requests : pc'[q] = "write" => Owed(q)'
    BY <2>1, <2>2 DEF ThrottleInv, Owed, Since
  <2> QED
    BY <2>1, <2>4, <2>5 DEF ThrottleInv, Since
<1>4. ASSUME NEW r \in Requests, NEW to \in Labels, to # "write", pc' = [pc EXCEPT ![r] = to],
             UNCHANGED <<lockout, now, seen, at, failed>>,
             rate'.count = 0 => granted' = <<>>,
             ~reopened' => Since(granted', rate'.start) <= rate'.count
      PROVE  ThrottleInv'
  <2>1. LockEarned' /\ lockout'.start <= now'
    BY <1>4 DEF ThrottleInv, LockEarned, Since
  <2>2. \A q \in Requests : pc'[q] = "write" => pc[q] = "write"
    BY <1>4, <1>n
  <2>3. \A q \in Requests : pc'[q] = "write" => Owed(q)'
    BY <1>4, <2>2 DEF ThrottleInv, Owed, Since
  <2> QED
    BY <1>4, <2>1, <2>3 DEF ThrottleInv, Since
<1>5. ASSUME NEW r \in Requests, IncrementRate(r)
      PROVE  ThrottleInv'
  <2>1. UNCHANGED <<lockout, now, seen, at, failed, reopened>>
    BY <1>5 DEF IncrementRate, locals
  <2>2. CASE At(r, "rateInc", "store") /\ Grant([rate EXCEPT !.count = @ + 1])
    <3>1. rate'.count = rate.count + 1 /\ rate'.start = rate.start /\ granted' = Append(granted, now)
      BY <2>2 DEF Grant, TypeOK
    <3>2. Since(granted, rate.start) \in Nat /\ Since(granted', rate.start) <= Since(granted, rate.start) + 1
          /\ Since(granted', rate.start) \in Nat
      <4>1. /\ Since(granted, rate.start) \in Nat
            /\ now >= rate.start => Since(Append(granted, now), rate.start) = Since(granted, rate.start) + 1
            /\ now < rate.start => Since(Append(granted, now), rate.start) = Since(granted, rate.start)
        BY <1>n, SinceAppend
      <4> QED
        BY <4>1, <3>1, <1>n
    <3>3. ~reopened' => Since(granted', rate'.start) <= rate'.count
      BY <2>1, <3>1, <3>2, <1>n DEF ThrottleInv
    <3>4. rate'.count # 0
      BY <3>1, <1>n
    <3> QED
      BY <1>4, <2>1, <2>2, <3>3, <3>4 DEF At, Labels
  <2>3. CASE At(r, "rateInc", "idle") /\ UNCHANGED <<rate, granted>>
    BY <1>4, <2>1, <2>3 DEF At, Labels, ThrottleInv
  <2> QED
    BY <1>5, <2>2, <2>3 DEF IncrementRate
<1>6. ASSUME NEW r \in Requests, Grant([count |-> 1, start |-> at[r]]),
             reopened' \/ \A i \in DOMAIN granted : granted[i] < at[r]
      PROVE  /\ rate'.count # 0
             /\ ~reopened' => Since(granted', rate'.start) <= rate'.count
  <2>1. rate'.count = 1 /\ rate'.start = at[r] /\ granted' = Append(granted, now)
    BY <1>6 DEF Grant
  <2>2. CASE \A i \in DOMAIN granted : granted[i] < at[r]
    <3>1. Since(granted, at[r]) = 0
      BY <1>n, <2>2, SinceNone
    <3>2. /\ now >= at[r] => Since(Append(granted, now), at[r]) = Since(granted, at[r]) + 1
          /\ now < at[r] => Since(Append(granted, now), at[r]) = Since(granted, at[r])
      BY <1>n, SinceAppend
    <3> QED
      BY <2>1, <3>1, <3>2, <1>n
  <2> QED
    BY <1>6, <2>1, <2>2
<1>7. ASSUME NEW r \in Requests, OpenRate(r)
      PROVE  ThrottleInv'
  <2>1. UNCHANGED <<lockout, now, seen, at, failed>> /\ granted = <<>>
    BY <1>7 DEF OpenRate, locals, ThrottleInv
  <2>2. \A i \in DOMAIN granted : granted[i] < at[r]
    BY <2>1
  <2> QED
    BY <1>4, <1>6, <1>7, <2>1, <2>2 DEF OpenRate, At, Labels
<1>8. ASSUME NEW r \in Requests, ResetRate(r)
      PROVE  ThrottleInv'
  <2>1. UNCHANGED <<lockout, now, seen, at, failed>>
    BY <1>8 DEF ResetRate, locals
  <2>2. reopened' \/ \A i \in DOMAIN granted : granted[i] < at[r]
    BY <1>8, <1>n DEF ResetRate
  <2> QED
    BY <1>4, <1>6, <1>8, <2>1, <2>2 DEF ResetRate, At, Labels
<1> QED
  BY <1>1, <1>2, <1>3, <1>5, <1>7, <1>8, ThrottleQuiet DEF Next

(* Nobody is locked out for failures that did not happen in the window,    *)
(* however failures and successful logins overwrite each other's rows, and *)
(* no window grants more than maxOTPsPerHour codes unless it was reopened  *)
(* over a code just granted (loginlockout.go:94-126, store.go:84-113).     *)
THEOREM ThrottlesAreFair == Spec => []ThrottlesHold
<1>1. Init => ThrottleInv
  <2> SUFFICES ASSUME Init PROVE ThrottleInv
    OBVIOUS
  <2>1. <<>> \in Seq(Nat) /\ \A i \in DOMAIN <<>> : <<>>[i] < 0
    OBVIOUS
  <2>2. Since(<<>>, 0) = 0
    BY <2>1, SinceNone
  <2> QED
    BY <2>2 DEF Init, NoRow, NoRate, ThrottleInv, LockEarned
<1>2. TypeOK /\ TypeOK' /\ ThrottleInv /\ [Next]_vars => ThrottleInv'
  BY ThrottleStep
<1>3. TypeOK /\ ThrottleInv => ThrottlesHold
  <2> SUFFICES ASSUME TypeOK, ThrottleInv PROVE ThrottlesHold
    OBVIOUS
  <2>1. /\ rate.count \in Nat /\ rate.count <= MaxOTPs /\ MaxOTPs \in Nat
        /\ Since(granted, rate.start) \in Nat
    BY ThrottleNumbers, SinceAppend
  <2> QED
    BY <2>1 DEF ThrottlesHold, ThrottleInv, SendsBounded
<1> QED
  BY <1>1, <1>2, <1>3, TypeCorrect, PTL DEF Spec
=============================================================================
