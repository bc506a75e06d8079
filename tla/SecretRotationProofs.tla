------------------------ MODULE SecretRotationProofs -----------------------
(***************************************************************************)
(* Proofs about SecretRotation, for every set of callers, of secrets and   *)
(* of key versions.                                                        *)
(***************************************************************************)
EXTENDS SecretRotation, FiniteSetTheorems, SequenceTheorems, TLAPS

(* The number of secrets of the project never exceeds the number of ids.   *)
LEMMA LiveCount == Cardinality(Live) \in 0..Cardinality(SecretIds)
<1>1. /\ IsFiniteSet(Live)
      /\ Cardinality(Live) <= Cardinality(SecretIds)
  BY SecretsFinite, FS_Subset DEF Live
<1> QED
  BY <1>1, SecretsFinite, FS_CardinalityType

(* A call that returns forgets its locals.                                 *)
LEMMA ReturnType ==
    ASSUME TypeOK, NEW c \in Clients, Return(c)
    PROVE  /\ pc' = [pc EXCEPT ![c] = "idle"]
           /\ active' \in [Clients -> Keys \cup {NoKey}]
           /\ rotating' \in [Clients -> Keys \cup {NoKey}]
           /\ total' \in [Clients -> 0..Cardinality(SecretIds)]
           /\ secret' = secret
           /\ \A d \in Clients \ {c} : active'[d] = active[d] /\ rotating'[d] = rotating[d]
<1>1. Cardinality(SecretIds) \in Nat
  BY SecretsFinite, FS_CardinalityType
<1> QED
  BY <1>1 DEF Return, TypeOK

(* A key in some state is a key.                                           *)
LEMMA Chosen ==
    ASSUME NEW st, InState(st) # {}
    PROVE  (CHOOSE k \in InState(st) : TRUE) \in InState(st)
  OBVIOUS

(* The key table changes in three steps only, ...                          *)
LEMMA KeyWriters ==
    ASSUME [Next]_vars
    PROVE  \/ keyState' = keyState
           \/ \E c \in Clients : EnsureInsert(c) \/ BeginInsert(c) \/ Promote(c)
  BY DEF Next, vars, keyTable, Call, Step, Interrupt, EnsureLoad, Create, Update,
         Delete, BeginLoad, LoadActive, LoadRotating, Rotate, CountSecrets,
         CountRotated, SpotCheck

(* ... and the secrets and their versions in four.                         *)
LEMMA SecretWriters ==
    ASSUME [Next]_vars
    PROVE  \/ UNCHANGED secretTables
           \/ \E c \in Clients : Create(c) \/ Update(c) \/ Delete(c) \/ Rotate(c)
  BY DEF Next, vars, Call, Step, Interrupt, EnsureLoad, EnsureInsert, BeginLoad,
         BeginInsert, LoadActive, LoadRotating, CountSecrets, CountRotated,
         SpotCheck, Promote

(* What each writer of the key table does to it.                           *)
LEMMA KeyTypeStep ==
    ASSUME TypeOK, [Next]_vars
    PROVE  keyState' \in [Keys -> KeyState]
<1>1. CASE keyState' = keyState
  BY <1>1 DEF TypeOK
<1>2. ASSUME NEW c \in Clients, EnsureInsert(c) PROVE keyState' \in [Keys -> KeyState]
  BY <1>2 DEF TypeOK, EnsureInsert, KeyState
<1>3. ASSUME NEW c \in Clients, BeginInsert(c) PROVE keyState' \in [Keys -> KeyState]
  BY <1>3 DEF TypeOK, BeginInsert, KeyState
<1>4. ASSUME NEW c \in Clients, Promote(c) PROVE keyState' \in [Keys -> KeyState]
  BY <1>4 DEF TypeOK, Promote, KeyState
<1> QED
  BY <1>1, <1>2, <1>3, <1>4, KeyWriters

(* Whatever stale keys a late CompleteKeyRotation holds, one key stays     *)
(* active: the partial unique index turns its transaction away.            *)
LEMMA OneKeyStep ==
    ASSUME TypeOK, LoadedKeys, OneActiveKey, [Next]_vars
    PROVE  OneActiveKey'
<1>1. CASE keyState' = keyState
  BY <1>1 DEF OneActiveKey, InState
<1>2. ASSUME NEW c \in Clients, EnsureInsert(c) PROVE OneActiveKey'
  <2>1. PICK k \in Keys :
           /\ keyState[k] = "absent"
           /\ keyState' = IF InState("active") = {}
                          THEN [keyState EXCEPT ![k] = "active"] ELSE keyState
    BY <1>2 DEF EnsureInsert, Fresh
  <2> QED
    BY <2>1 DEF TypeOK, OneActiveKey, InState
<1>3. ASSUME NEW c \in Clients, BeginInsert(c) PROVE OneActiveKey'
  <2>1. PICK k \in Keys :
           /\ keyState[k] = "absent"
           /\ keyState' = IF InState("rotating") = {}
                          THEN [keyState EXCEPT ![k] = "rotating"] ELSE keyState
    BY <1>3 DEF BeginInsert, Fresh
  <2> QED
    BY <2>1 DEF TypeOK, OneActiveKey, InState
<1>4. ASSUME NEW c \in Clients, Promote(c) PROVE OneActiveKey'
  <2>1. active[c] \in Keys /\ rotating[c] \in Keys
    BY <1>4 DEF LoadedKeys, Promote
  <2>2. CASE InState("active") \subseteq {active[c], rotating[c]}
    <3>1. keyState' = [keyState EXCEPT ![active[c]] = "retired",
                                       ![rotating[c]] = "active"]
      BY <1>4, <2>2 DEF Promote
    <3>2. /\ keyState'[rotating[c]] = "active"
          /\ \A k \in Keys : keyState'[k] = "active" => k = rotating[c]
          /\ \A k \in Keys : keyState'[k] = "rotating" => keyState[k] = "rotating"
      BY <2>1, <2>2, <3>1 DEF TypeOK, InState
    <3> QED
      BY <2>1, <3>2 DEF OneActiveKey, InState
  <2>3. CASE ~(InState("active") \subseteq {active[c], rotating[c]})
    BY <1>4, <2>3 DEF Promote, OneActiveKey, InState
  <2> QED
    BY <2>2, <2>3
<1> QED
  BY <1>1, <1>2, <1>3, <1>4, KeyWriters

(* The types of the tables of secrets and versions.                        *)
LEMMA TableTypeStep ==
    ASSUME TypeOK, [Next]_vars
    PROVE  /\ live' \in [SecretIds -> {"absent", "live", "deleted"}]
           /\ current' \in [SecretIds -> 0..MaxVersions]
           /\ keyRecord' \in [SecretIds -> [Versions -> Keys \cup {NoKey}]]
           /\ sealedBy' \in [SecretIds -> [Versions -> Keys \cup {NoKey}]]
           /\ plaintext' \in [SecretIds -> [Versions -> 0..MaxCalls]]
<1> DEFINE P == /\ live' \in [SecretIds -> {"absent", "live", "deleted"}]
                /\ current' \in [SecretIds -> 0..MaxVersions]
                /\ keyRecord' \in [SecretIds -> [Versions -> Keys \cup {NoKey}]]
                /\ sealedBy' \in [SecretIds -> [Versions -> Keys \cup {NoKey}]]
                /\ plaintext' \in [SecretIds -> [Versions -> 0..MaxCalls]]
<1>0. /\ 0 \in 0..MaxVersions /\ 1 \in 0..MaxVersions /\ 0 \in 0..MaxCalls
      /\ MaxVersions \in Nat
  BY SecretBounds
<1>1. CASE UNCHANGED secretTables
  BY <1>1 DEF TypeOK, secretTables
<1>2. ASSUME NEW c \in Clients, Create(c) PROVE P
  <2>1. CASE live[secret[c]] = "absent"
    <3>1. secret[c] \in SecretIds /\ active[c] \in Keys \cup {NoKey} /\ calls \in 0..MaxCalls
      BY DEF TypeOK
    <3>2. /\ live' = [live EXCEPT ![secret[c]] = "live"]
          /\ current' = [current EXCEPT ![secret[c]] = 1]
          /\ WriteVersion(secret[c], 1, active[c], calls)
      BY <1>2, <2>1 DEF Create
    <3> QED
      BY <1>0, <3>1, <3>2 DEF TypeOK, WriteVersion
  <2>2. CASE live[secret[c]] # "absent"
    BY <1>2, <2>2 DEF TypeOK, Create, secretTables
  <2> QED
    BY <2>1, <2>2
<1>3. ASSUME NEW c \in Clients, Update(c) PROVE P
  <2>1. CASE UNCHANGED secretTables
    BY <2>1 DEF TypeOK, secretTables
  <2>2. ASSUME NEW k \in InState("active"),
               current[secret[c]] < MaxVersions,
               current' = [current EXCEPT ![secret[c]] = @ + 1],
               WriteVersion(secret[c], current[secret[c]] + 1, k, calls),
               UNCHANGED live
        PROVE  P
    <3>1. current[secret[c]] + 1 \in 0..MaxVersions
      BY <1>0, <2>2 DEF TypeOK
    <3>2. k \in Keys
      BY <2>2 DEF InState
    <3> QED
      BY <2>2, <3>1, <3>2 DEF TypeOK, WriteVersion
  <2> QED
    BY <1>3, <2>1, <2>2 DEF Update
<1>4. ASSUME NEW c \in Clients, Delete(c) PROVE P
  <2>1. CASE live[secret[c]] = "live"
    <3>1. /\ live' = [live EXCEPT ![secret[c]] = "deleted"]
          /\ current' = [current EXCEPT ![secret[c]] = 0]
          /\ keyRecord' = [keyRecord EXCEPT ![secret[c]] = [v \in Versions |-> NoKey]]
          /\ sealedBy' = [sealedBy EXCEPT ![secret[c]] = [v \in Versions |-> NoKey]]
          /\ plaintext' = [plaintext EXCEPT ![secret[c]] = [v \in Versions |-> 0]]
      BY <1>4, <2>1 DEF Delete
    <3>2. /\ [v \in Versions |-> NoKey] \in [Versions -> Keys \cup {NoKey}]
          /\ [v \in Versions |-> 0] \in [Versions -> 0..MaxCalls]
      BY <1>0
    <3> QED
      BY <1>0, <3>1, <3>2 DEF TypeOK
  <2>2. CASE live[secret[c]] # "live"
    BY <1>4, <2>2 DEF TypeOK, Delete, secretTables
  <2> QED
    BY <2>1, <2>2
<1>5. ASSUME NEW c \in Clients, Rotate(c) PROVE P
  <2>1. rotating[c] \in Keys \cup {NoKey}
    BY DEF TypeOK
  <2> DEFINE Resealed(column) ==
                [s \in SecretIds |->
                    IF s \in Live THEN [column[s] EXCEPT ![current[s]] = rotating[c]]
                    ELSE column[s]]
  <2>2. ASSUME NEW column \in [SecretIds -> [Versions -> Keys \cup {NoKey}]]
        PROVE  Resealed(column) \in [SecretIds -> [Versions -> Keys \cup {NoKey}]]
    BY <2>1
  <2>3. \/ keyRecord' = Resealed(keyRecord) /\ sealedBy' = Resealed(sealedBy)
        \/ UNCHANGED <<keyRecord, sealedBy>>
    BY <1>5 DEF Rotate
  <2>4. UNCHANGED <<live, current, plaintext>>
    BY <1>5 DEF Rotate
  <2>5. /\ Resealed(keyRecord) \in [SecretIds -> [Versions -> Keys \cup {NoKey}]]
        /\ Resealed(sealedBy) \in [SecretIds -> [Versions -> Keys \cup {NoKey}]]
    BY <2>2 DEF TypeOK
  <2> HIDE DEF Resealed
  <2> QED
    BY <2>3, <2>4, <2>5 DEF TypeOK
<1> QED
  BY <1>1, <1>2, <1>3, <1>4, <1>5, SecretWriters

(* The locals of the calls keep their types, and a call past its loads     *)
(* holds the keys it needs.                                                *)
LEMMA LocalsStep ==
    ASSUME TypeOK, LoadedKeys, [Next]_vars
    PROVE  /\ pc' \in [Clients -> {"idle", "ensure", "ensureInsert", "create", "update",
                           "delete", "begin", "beginInsert", "rotateActive",
                           "rotateRotating", "rotate", "completeActive",
                           "completeRotating", "countSecrets", "countRotated",
                           "spotCheck", "promote"}]
           /\ secret' \in [Clients -> SecretIds]
           /\ active' \in [Clients -> Keys \cup {NoKey}]
           /\ rotating' \in [Clients -> Keys \cup {NoKey}]
           /\ total' \in [Clients -> 0..Cardinality(SecretIds)]
           /\ calls' \in 0..MaxCalls
           /\ LoadedKeys'
<1> DEFINE Label == {"idle", "ensure", "ensureInsert", "create", "update",
                     "delete", "begin", "beginInsert", "rotateActive",
                     "rotateRotating", "rotate", "completeActive",
                     "completeRotating", "countSecrets", "countRotated",
                     "spotCheck", "promote"}
           P == /\ pc' \in [Clients -> Label]
                /\ secret' \in [Clients -> SecretIds]
                /\ active' \in [Clients -> Keys \cup {NoKey}]
                /\ rotating' \in [Clients -> Keys \cup {NoKey}]
                /\ total' \in [Clients -> 0..Cardinality(SecretIds)]
                /\ calls' \in 0..MaxCalls
                /\ LoadedKeys'
<1>0. pc \in [Clients -> Label] /\ calls \in 0..MaxCalls
  BY DEF TypeOK
<1>1. ASSUME NEW c \in Clients, Return(c), UNCHANGED calls PROVE P
  <2>1. /\ pc' = [pc EXCEPT ![c] = "idle"]
        /\ secret' \in [Clients -> SecretIds]
        /\ active' \in [Clients -> Keys \cup {NoKey}]
        /\ rotating' \in [Clients -> Keys \cup {NoKey}]
        /\ total' \in [Clients -> 0..Cardinality(SecretIds)]
        /\ \A d \in Clients \ {c} : active'[d] = active[d] /\ rotating'[d] = rotating[d]
    BY <1>1, ReturnType DEF TypeOK
  <2>2. LoadedKeys'
    BY <1>0, <2>1 DEF LoadedKeys
  <2> QED
    BY <1>0, <1>1, <2>1, <2>2
<1>2. ASSUME NEW c \in Clients, NEW l \in Label,
             pc' = [pc EXCEPT ![c] = l],
             UNCHANGED <<secret, active, rotating, total, calls>>,
             l \in {"ensure", "beginInsert", "spotCheck", "promote"},
             l \in {"spotCheck", "promote"} => pc[c] \in {"countRotated", "spotCheck"}
      PROVE  P
  BY <1>0, <1>2 DEF TypeOK, LoadedKeys
<1>3. ASSUME NEW c \in Clients, Call(c) PROVE P
  <2>1. calls' \in 0..MaxCalls /\ UNCHANGED <<active, rotating, total>>
    BY <1>0, <1>3, SecretBounds DEF Call
  <2>2. /\ secret' \in [Clients -> SecretIds]
        /\ \E l \in {"ensure", "update", "delete", "begin", "rotateActive", "completeActive"} :
              pc' = [pc EXCEPT ![c] = l]
    BY <1>3 DEF Call, TypeOK
  <2> QED
    BY <1>0, <2>1, <2>2 DEF TypeOK, LoadedKeys
<1>4. ASSUME NEW c \in Clients, EnsureLoad(c) PROVE P
  <2>1. CASE InState("active") = {}
    <3>1. /\ pc' = [pc EXCEPT ![c] = "ensureInsert"]
          /\ active' = [active EXCEPT ![c] = NoKey]
          /\ UNCHANGED <<secret, rotating, total, calls>>
      BY <1>4, <2>1 DEF EnsureLoad, From
    <3> QED
      BY <1>0, <3>1 DEF TypeOK, LoadedKeys
  <2>2. CASE InState("active") # {}
    <3>1. PICK k \in Keys :
             /\ pc' = [pc EXCEPT ![c] = "create"]
             /\ active' = [active EXCEPT ![c] = k]
             /\ UNCHANGED <<secret, rotating, total, calls>>
      BY <1>4, <2>2, Chosen DEF EnsureLoad, From, InState
    <3> QED
      BY <1>0, <3>1 DEF TypeOK, LoadedKeys
  <2> QED
    BY <2>1, <2>2
<1>5. ASSUME NEW c \in Clients, EnsureInsert(c) PROVE P
  BY <1>2, <1>5 DEF EnsureInsert, From, locals
<1>6. ASSUME NEW c \in Clients, BeginLoad(c) PROVE P
  BY <1>1, <1>2, <1>6 DEF BeginLoad, locals
<1>7. ASSUME NEW c \in Clients, NEW from \in {"rotateActive", "completeActive"},
             NEW to \in {"rotateRotating", "completeRotating"}, LoadActive(c, from, to)
      PROVE  P
  <2>1. CASE InState("active") = {}
    BY <1>1, <1>7, <2>1 DEF LoadActive
  <2>2. CASE InState("active") # {}
    <3>1. PICK k \in Keys :
             /\ pc' = [pc EXCEPT ![c] = to]
             /\ active' = [active EXCEPT ![c] = k]
             /\ UNCHANGED <<secret, rotating, total, calls>>
      BY <1>7, <2>2, Chosen DEF LoadActive, InState
    <3> QED
      BY <1>0, <3>1 DEF TypeOK, LoadedKeys
  <2> QED
    BY <2>1, <2>2
<1>8. ASSUME NEW c \in Clients, NEW from \in {"rotateRotating", "completeRotating"},
             NEW to \in {"rotate", "countSecrets"}, LoadRotating(c, from, to)
      PROVE  P
  <2>1. CASE InState("rotating") = {}
    BY <1>1, <1>8, <2>1 DEF LoadRotating
  <2>2. CASE InState("rotating") # {}
    <3>1. PICK k \in Keys :
             /\ pc' = [pc EXCEPT ![c] = to]
             /\ rotating' = [rotating EXCEPT ![c] = k]
             /\ UNCHANGED <<secret, active, total, calls>>
      BY <1>8, <2>2, Chosen DEF LoadRotating, InState
    <3>2. active[c] \in Keys
      BY <1>8 DEF LoadRotating, LoadedKeys
    <3> QED
      BY <1>0, <3>1, <3>2 DEF TypeOK, LoadedKeys
  <2> QED
    BY <2>1, <2>2
<1>9. ASSUME NEW c \in Clients, CountSecrets(c) PROVE P
  <2>1. /\ pc[c] = "countSecrets"
        /\ pc' = [pc EXCEPT ![c] = "countRotated"]
        /\ total' = [total EXCEPT ![c] = Cardinality(Live)]
        /\ UNCHANGED <<secret, active, rotating, calls>>
    BY <1>9 DEF CountSecrets, From
  <2> QED
    BY <1>0, <2>1, LiveCount DEF TypeOK, LoadedKeys
<1>10. ASSUME NEW c \in Clients, CountRotated(c) PROVE P
  BY <1>1, <1>2, <1>10 DEF CountRotated, locals
<1>11. ASSUME NEW c \in Clients, SpotCheck(c) PROVE P
  BY <1>1, <1>2, <1>11 DEF SpotCheck, locals
<1>12. ASSUME NEW c \in Clients,
              \/ Create(c) \/ Update(c) \/ Delete(c) \/ BeginInsert(c) \/ Rotate(c)
              \/ Promote(c) \/ Interrupt(c)
       PROVE  P
  BY <1>1, <1>12 DEF Create, Update, Delete, BeginInsert, Rotate, Promote, Interrupt
<1>13. CASE UNCHANGED vars
  BY <1>0, <1>13 DEF vars, locals, TypeOK, LoadedKeys
<1> QED
  BY <1>3, <1>4, <1>5, <1>6, <1>7, <1>8, <1>9, <1>10, <1>11, <1>12, <1>13
  DEF Next, Step

(* Whoever writes a version writes its key record and its ciphertext       *)
(* together, and only after the last one.                                  *)
LEMMA VersionsStep ==
    ASSUME TypeOK, LoadedKeys, VersionsInv, [Next]_vars
    PROVE  /\ VersionsInv'
           /\ \A s \in SecretIds, v \in Versions :
                 plaintext[s][v] # 0 /\ live'[s] = "live"
                     => plaintext'[s][v] = plaintext[s][v]
<1> DEFINE Q == /\ VersionsInv'
                /\ \A s \in SecretIds, v \in Versions :
                      plaintext[s][v] # 0 /\ live'[s] = "live"
                          => plaintext'[s][v] = plaintext[s][v]
<1>0. /\ NoKey = 0 /\ NoKey \notin Keys /\ MaxVersions \in Nat
      /\ Versions = 1..MaxVersions /\ 1 \in Versions
  BY SecretBounds DEF NoKey, Keys, Versions
<1>1. CASE UNCHANGED secretTables
  BY <1>1 DEF secretTables, VersionsInv
<1>2. ASSUME NEW c \in Clients, NEW s \in SecretIds, NEW n \in Versions, NEW k \in Keys,
             s = secret[c],
             live[s] # "live" => n = 1,
             live[s] = "live" => n = current[s] + 1,
             live' = [live EXCEPT ![s] = "live"],
             current' = [current EXCEPT ![s] = n],
             WriteVersion(s, n, k, calls)
      PROVE  Q
  <2>1. /\ keyRecord' = [keyRecord EXCEPT ![s] = [keyRecord[s] EXCEPT ![n] = k]]
        /\ sealedBy' = [sealedBy EXCEPT ![s] = [sealedBy[s] EXCEPT ![n] = k]]
        /\ plaintext' = [plaintext EXCEPT ![s] = [plaintext[s] EXCEPT ![n] = calls]]
    BY <1>2 DEF WriteVersion
  <2>2. ASSUME NEW r \in SecretIds, r # s
        PROVE  /\ live'[r] = live[r] /\ current'[r] = current[r]
               /\ keyRecord'[r] = keyRecord[r] /\ sealedBy'[r] = sealedBy[r]
               /\ plaintext'[r] = plaintext[r]
    BY <1>2, <2>1, <2>2 DEF TypeOK
  <2>3. /\ live'[s] = "live" /\ current'[s] = n
        /\ keyRecord'[s] = [keyRecord[s] EXCEPT ![n] = k]
        /\ sealedBy'[s] = [sealedBy[s] EXCEPT ![n] = k]
        /\ plaintext'[s] = [plaintext[s] EXCEPT ![n] = calls]
    BY <1>2, <2>1 DEF TypeOK
  <2>4. /\ keyRecord[s] \in [Versions -> Keys \cup {NoKey}]
        /\ sealedBy[s] \in [Versions -> Keys \cup {NoKey}]
        /\ plaintext[s] \in [Versions -> 0..MaxCalls]
        /\ current[s] \in 0..MaxVersions
    BY DEF TypeOK
  <2>5. ASSUME NEW v \in Versions
        PROVE  /\ keyRecord'[s][v] = sealedBy'[s][v]
               /\ keyRecord'[s][v] # NoKey <=> v <= n
               /\ plaintext'[s][v] # 0 => v <= n
               /\ plaintext[s][v] # 0 => plaintext'[s][v] = plaintext[s][v]
    <3>1. CASE v = n
      <4>1. keyRecord'[s][v] = k /\ sealedBy'[s][v] = k
        BY <2>3, <2>4, <3>1
      <4>2. v <= n /\ k # NoKey
        BY <1>0, <3>1
      <4>3. plaintext[s][v] # 0 => live[s] = "live" /\ v <= current[s]
        BY DEF VersionsInv
      <4>4. plaintext[s][v] = 0
        BY <1>0, <1>2, <2>4, <3>1, <4>3
      <4> QED
        BY <4>1, <4>2, <4>4
    <3>2. CASE v # n
      <4>1. /\ keyRecord'[s][v] = keyRecord[s][v] /\ sealedBy'[s][v] = sealedBy[s][v]
            /\ plaintext'[s][v] = plaintext[s][v]
        BY <2>3, <2>4, <3>2
      <4>2. v <= n <=> live[s] = "live" /\ v <= current[s]
        BY <1>0, <1>2, <2>4, <3>2
      <4> QED
        BY <4>1, <4>2 DEF VersionsInv
    <3> QED
      BY <3>1, <3>2
  <2>6. VersionsInv'
    <3>1. n >= 1
      BY <1>0
    <3>2. ASSUME NEW r \in SecretIds
          PROVE  /\ live'[r] = "live" => current'[r] >= 1
                 /\ \A v \in Versions :
                       /\ keyRecord'[r][v] = sealedBy'[r][v]
                       /\ keyRecord'[r][v] # NoKey <=> live'[r] = "live" /\ v <= current'[r]
                       /\ plaintext'[r][v] # 0 => live'[r] = "live" /\ v <= current'[r]
      <4>1. CASE r = s
        BY <2>3, <2>5, <3>1, <4>1
      <4>2. CASE r # s
        BY <2>2, <4>2 DEF VersionsInv
      <4> QED
        BY <4>1, <4>2
    <3> QED
      BY <3>2 DEF VersionsInv
  <2> QED
    BY <2>2, <2>5, <2>6
<1>3. ASSUME NEW c \in Clients, Create(c) PROVE Q
  <2>1. CASE live[secret[c]] = "absent"
    <3>1. /\ secret[c] \in SecretIds /\ active[c] \in Keys
          /\ live' = [live EXCEPT ![secret[c]] = "live"]
          /\ current' = [current EXCEPT ![secret[c]] = 1]
          /\ WriteVersion(secret[c], 1, active[c], calls)
      BY <1>3, <2>1 DEF Create, LoadedKeys, TypeOK
    <3> QED
      BY <1>0, <1>2, <2>1, <3>1
  <2>2. CASE live[secret[c]] # "absent"
    BY <1>1, <1>3, <2>2 DEF Create
  <2> QED
    BY <2>1, <2>2
<1>4. ASSUME NEW c \in Clients, Update(c) PROVE Q
  <2>1. CASE UNCHANGED secretTables
    BY <1>1, <2>1
  <2>2. ASSUME NEW k \in InState("active"),
               live[secret[c]] = "live",
               current[secret[c]] < MaxVersions,
               current' = [current EXCEPT ![secret[c]] = @ + 1],
               WriteVersion(secret[c], current[secret[c]] + 1, k, calls),
               UNCHANGED live
        PROVE  Q
    <3>1. k \in Keys /\ secret[c] \in SecretIds
      BY <2>2 DEF InState, TypeOK
    <3>2. current[secret[c]] + 1 \in Versions
      BY <1>0, <2>2, <3>1 DEF TypeOK
    <3>3. live' = [live EXCEPT ![secret[c]] = "live"]
      BY <2>2, <3>1 DEF TypeOK
    <3>4. current' = [current EXCEPT ![secret[c]] = current[secret[c]] + 1]
      BY <2>2
    <3> QED
      BY <1>2, <2>2, <3>1, <3>2, <3>3, <3>4
  <2> QED
    BY <1>4, <2>1, <2>2 DEF Update
<1>5. ASSUME NEW c \in Clients, Delete(c) PROVE Q
  <2>1. CASE live[secret[c]] = "live"
    <3>1. /\ secret[c] \in SecretIds
          /\ live' = [live EXCEPT ![secret[c]] = "deleted"]
          /\ current' = [current EXCEPT ![secret[c]] = 0]
          /\ keyRecord' = [keyRecord EXCEPT ![secret[c]] = [v \in Versions |-> NoKey]]
          /\ sealedBy' = [sealedBy EXCEPT ![secret[c]] = [v \in Versions |-> NoKey]]
          /\ plaintext' = [plaintext EXCEPT ![secret[c]] = [v \in Versions |-> 0]]
      BY <1>5, <2>1 DEF Delete, TypeOK
    <3>2. ASSUME NEW r \in SecretIds, r # secret[c]
          PROVE  /\ live'[r] = live[r] /\ current'[r] = current[r]
                 /\ keyRecord'[r] = keyRecord[r] /\ sealedBy'[r] = sealedBy[r]
                 /\ plaintext'[r] = plaintext[r]
      BY <3>1, <3>2 DEF TypeOK
    <3>3. /\ live'[secret[c]] = "deleted"
          /\ \A v \in Versions : /\ keyRecord'[secret[c]][v] = NoKey
                                  /\ sealedBy'[secret[c]][v] = NoKey
                                  /\ plaintext'[secret[c]][v] = 0
      BY <3>1 DEF TypeOK
    <3> QED
      BY <3>2, <3>3 DEF VersionsInv
  <2>2. CASE live[secret[c]] # "live"
    BY <1>1, <1>5, <2>2 DEF Delete
  <2> QED
    BY <2>1, <2>2
<1>6. ASSUME NEW c \in Clients, Rotate(c) PROVE Q
  <2>1. rotating[c] \in Keys /\ UNCHANGED <<live, current, plaintext>>
    BY <1>6 DEF Rotate, LoadedKeys
  <2>2. ASSUME NEW s \in SecretIds, NEW v \in Versions
        PROVE  /\ keyRecord'[s][v] = sealedBy'[s][v]
               /\ keyRecord'[s][v] # NoKey <=> keyRecord[s][v] # NoKey
    <3>1. /\ keyRecord[s] \in [Versions -> Keys \cup {NoKey}]
          /\ sealedBy[s] \in [Versions -> Keys \cup {NoKey}]
      BY DEF TypeOK
    <3>2. CASE UNCHANGED <<keyRecord, sealedBy>>
      BY <3>2 DEF VersionsInv
    <3>3. CASE ~UNCHANGED <<keyRecord, sealedBy>>
      <4>1. /\ keyRecord'[s] = IF s \in Live
                               THEN [keyRecord[s] EXCEPT ![current[s]] = rotating[c]]
                               ELSE keyRecord[s]
            /\ sealedBy'[s] = IF s \in Live
                              THEN [sealedBy[s] EXCEPT ![current[s]] = rotating[c]]
                              ELSE sealedBy[s]
        BY <1>6, <3>3 DEF Rotate
      <4>2. s \in Live => keyRecord[s][current[s]] # NoKey
        BY <1>0 DEF Live, VersionsInv, TypeOK
      <4> QED
        BY <1>0, <2>1, <3>1, <4>1, <4>2 DEF VersionsInv
    <3> QED
      BY <3>2, <3>3
  <2> QED
    BY <2>1, <2>2 DEF VersionsInv
<1> QED
  BY <1>1, <1>3, <1>4, <1>5, <1>6, SecretWriters

-----------------------------------------------------------------------------

(* The inductive invariant holds at first and is kept by every step.       *)
LEMMA Invariance == Spec => []IInv
<1>1. Init => IInv
  <2> SUFFICES ASSUME Init PROVE IInv
    OBVIOUS
  <2>1. Cardinality(SecretIds) \in Nat
    BY SecretsFinite, FS_CardinalityType
  <2>2. TypeOK
    BY <2>1, SecretBounds DEF Init, TypeOK, KeyState
  <2>3. LoadedKeys
    BY DEF Init, LoadedKeys
  <2>4. OneActiveKey
    BY DEF Init, OneActiveKey, InState
  <2>5. VersionsInv
    BY DEF Init, VersionsInv
  <2> QED
    BY <2>2, <2>3, <2>4, <2>5 DEF IInv
<1>2. IInv /\ [Next]_vars => IInv'
  <2> SUFFICES ASSUME IInv, [Next]_vars PROVE IInv'
    OBVIOUS
  <2>1. TypeOK'
    BY KeyTypeStep, TableTypeStep, LocalsStep DEF IInv, TypeOK
  <2> QED
    BY <2>1, LocalsStep, OneKeyStep, VersionsStep DEF IInv
<1> QED
  BY <1>1, <1>2, PTL DEF Spec

(* Every variable keeps its type.                                          *)
THEOREM TypeCorrect == Spec => []TypeOK
<1>1. IInv => TypeOK
  BY DEF IInv
<1> QED
  BY <1>1, Invariance, PTL

(* However the calls of keys.go's rotation are repeated, interleaved,      *)
(* interrupted or completed late, a project has exactly one active key     *)
(* once it has one, and never two rotating ones.                           *)
THEOREM ExactlyOneActiveKey == Spec => []OneActiveKey
<1>1. IInv => OneActiveKey
  BY DEF IInv
<1> QED
  BY <1>1, Invariance, PTL

(* No interruption of CreateSecret, UpdateSecret or a rotation loses a     *)
(* version: each opens with the key its record names.                      *)
THEOREM DecryptabilityKept == Spec => []AlwaysDecryptable
<1>1. IInv => AlwaysDecryptable
  <2> SUFFICES ASSUME IInv, NEW s \in Live
               PROVE  /\ current[s] >= 1
                      /\ \A v \in Versions : v <= current[s] <=> Opens(s, v)
    BY DEF AlwaysDecryptable
  <2> QED
    BY DEF IInv, VersionsInv, Live, Opens
<1> QED
  BY <1>1, Invariance, PTL

(* No step changes what a version of a live secret opens to.               *)
THEOREM PlaintextsImmutable == Spec => VersionsImmutable
<1>1. IInv /\ [Next]_vars
        => \A s \in SecretIds, v \in Versions :
              plaintext[s][v] # 0 /\ live'[s] = "live"
                  => plaintext'[s][v] = plaintext[s][v]
  BY VersionsStep DEF IInv
<1> QED
  BY <1>1, Invariance, PTL DEF Spec, VersionsImmutable

=============================================================================
