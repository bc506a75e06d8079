--------------------------- MODULE SecretRotation ---------------------------
(***************************************************************************)
(* The secrets of ONE project and the rotation of its data key             *)
(* (components/secrets: store.go, rotation.go, manager.go, schema.go).     *)
(*                                                                         *)
(* A transaction is one step: the SQLite pool has one connection (db.go),  *)
(* so an open transaction excludes every other statement.  What a call     *)
(* reads before its transaction is a step of its own, and is stale when    *)
(* the transaction runs: the key chosen by CreateSecret, the rotating key  *)
(* of RotateCurrentVersions, and everything CompleteKeyRotation verifies.  *)
(*                                                                         *)
(* Ciphertext is modelled by the key that can open it and the plaintext it *)
(* opens to; a plaintext is the number of the call that wrote it.          *)
(***************************************************************************)
EXTENDS Naturals, FiniteSets

CONSTANTS
    Clients,        \* concurrent API calls
    SecretIds,      \* ids that CreateSecret may generate
    MaxKeys,        \* bound: data keys ever generated
    MaxVersions,    \* bound: versions of one secret
    MaxCalls        \* bound: API calls in one behaviour

ASSUME SecretBounds == {MaxKeys, MaxVersions, MaxCalls} \subseteq Nat \ {0}
ASSUME SecretsFinite == IsFiniteSet(SecretIds)

Keys == 1..MaxKeys
NoKey == 0
Versions == 1..MaxVersions
KeyState == {"absent", "active", "rotating", "retired"}

VARIABLES
    keyState,   \* project_key_records: state of each key ever generated
    live,       \* secrets: "absent", "live" or "deleted"
    current,    \* secrets: current_version
    keyRecord,  \* secret_versions: key_record_id of each version, NoKey if none
    sealedBy,   \* secret_versions: the key that opens the ciphertext
    plaintext,  \* secret_versions: what it opens to
    pc,         \* where each call is
    secret,     \* the secret of a create, update or delete
    active,     \* the active key the call loaded
    rotating,   \* the rotating key the call loaded
    total,      \* the number of secrets CompleteKeyRotation counted
    calls       \* bound: calls made so far

keyTable == keyState
secretTables == <<live, current, keyRecord, sealedBy, plaintext>>
locals == <<secret, active, rotating, total>>
vars == <<keyTable, secretTables, pc, locals, calls>>

InState(st) == {k \in Keys : keyState[k] = st}
Live == {s \in SecretIds : live[s] = "live"}

(* GenerateProjectDataKey: a key nobody has seen.                          *)
Fresh(k) == keyState[k] = "absent" /\ \A j \in 1..(k - 1) : keyState[j] # "absent"

Init ==
    /\ keyState = [k \in Keys |-> "absent"]
    /\ live = [s \in SecretIds |-> "absent"]
    /\ current = [s \in SecretIds |-> 0]
    /\ keyRecord = [s \in SecretIds |-> [v \in Versions |-> NoKey]]
    /\ sealedBy = [s \in SecretIds |-> [v \in Versions |-> NoKey]]
    /\ plaintext = [s \in SecretIds |-> [v \in Versions |-> 0]]
    /\ pc = [c \in Clients |-> "idle"]
    /\ secret \in [Clients -> SecretIds]
    /\ \A c, d \in Clients : secret[c] = secret[d]
    /\ active = [c \in Clients |-> NoKey]
    /\ rotating = [c \in Clients |-> NoKey]
    /\ total = [c \in Clients |-> 0]
    /\ calls = 0

-----------------------------------------------------------------------------

From(c, from, to) == pc[c] = from /\ pc' = [pc EXCEPT ![c] = to]

(* The call returns, with or without an error; its locals are forgotten.   *)
Return(c) ==
    /\ pc' = [pc EXCEPT ![c] = "idle"]
    /\ active' = [active EXCEPT ![c] = NoKey]
    /\ rotating' = [rotating EXCEPT ![c] = NoKey]
    /\ total' = [total EXCEPT ![c] = 0]
    /\ UNCHANGED secret

(* A request arrives; creates, updates and deletes name a secret, which    *)
(* the last two look up first (loadSecret).                                *)
Call(c) ==
    /\ pc[c] = "idle"
    /\ calls < MaxCalls
    /\ calls' = calls + 1
    /\ \/ \E s \in SecretIds, op \in {"ensure", "update", "delete"} :
             /\ op = "ensure" <=> live[s] = "absent"
             /\ op # "ensure" => live[s] = "live"
             /\ pc' = [pc EXCEPT ![c] = op]
             /\ secret' = [secret EXCEPT ![c] = s]
       \/ \E op \in {"begin", "rotateActive", "completeActive"} :
             /\ pc' = [pc EXCEPT ![c] = op]
             /\ UNCHANGED secret
    /\ UNCHANGED <<keyTable, secretTables, active, rotating, total>>

(* A version sealed under a key, by the call that was the n-th to arrive.  *)
WriteVersion(s, v, k, n) ==
    /\ keyRecord' = [keyRecord EXCEPT ![s][v] = k]
    /\ sealedBy' = [sealedBy EXCEPT ![s][v] = k]
    /\ plaintext' = [plaintext EXCEPT ![s][v] = n]

(* CreateSecret: ensureActiveKey loads the active key, ...                 *)
EnsureLoad(c) ==
    /\ From(c, "ensure", IF InState("active") = {} THEN "ensureInsert" ELSE "create")
    /\ active' = [active EXCEPT ![c] = IF InState("active") = {} THEN NoKey
                                       ELSE CHOOSE k \in InState("active") : TRUE]
    /\ UNCHANGED <<keyTable, secretTables, secret, rotating, total, calls>>

(* ... or inserts one, ON CONFLICT DO NOTHING, and loads again.            *)
EnsureInsert(c) ==
    /\ From(c, "ensureInsert", "ensure")
    /\ \E k \in Keys :
          /\ Fresh(k)
          /\ keyState' = IF InState("active") = {}
                         THEN [keyState EXCEPT ![k] = "active"] ELSE keyState
    /\ UNCHANGED <<secretTables, locals, calls>>

(* The transaction of CreateSecret, under the key loaded before it; the    *)
(* unique key of the secret makes a second create fail.                    *)
Create(c) ==
    /\ pc[c] = "create"
    /\ LET s == secret[c] IN
       \/ /\ live[s] = "absent"
          /\ live' = [live EXCEPT ![s] = "live"]
          /\ current' = [current EXCEPT ![s] = 1]
          /\ WriteVersion(s, 1, active[c], calls)
       \/ /\ live[s] # "absent"
          /\ UNCHANGED secretTables
    /\ Return(c)
    /\ UNCHANGED <<keyTable, calls>>

(* The transaction of UpdateSecret, which loads the active key itself; it  *)
(* fails if the secret or the key is missing (or at the bound).            *)
Update(c) ==
    /\ pc[c] = "update"
    /\ LET s == secret[c] IN
       \/ \E k \in InState("active") :
             /\ live[s] = "live"
             /\ current[s] < MaxVersions
             /\ current' = [current EXCEPT ![s] = @ + 1]
             /\ WriteVersion(s, current[s] + 1, k, calls)
             /\ UNCHANGED live
       \/ /\ live[s] # "live" \/ current[s] = MaxVersions \/ InState("active") = {}
          /\ UNCHANGED secretTables
    /\ Return(c)
    /\ UNCHANGED <<keyTable, calls>>

(* DeleteSecret, with its versions (ON DELETE CASCADE).                    *)
Delete(c) ==
    /\ pc[c] = "delete"
    /\ LET s == secret[c] IN
       IF live[s] = "live"
       THEN /\ live' = [live EXCEPT ![s] = "deleted"]
            /\ current' = [current EXCEPT ![s] = 0]
            /\ keyRecord' = [keyRecord EXCEPT ![s] = [v \in Versions |-> NoKey]]
            /\ sealedBy' = [sealedBy EXCEPT ![s] = [v \in Versions |-> NoKey]]
            /\ plaintext' = [plaintext EXCEPT ![s] = [v \in Versions |-> 0]]
       ELSE UNCHANGED secretTables
    /\ Return(c)
    /\ UNCHANGED <<keyTable, calls>>

-----------------------------------------------------------------------------
(* Rotation: three calls, any of which may be repeated or never come.      *)

(* BeginKeyRotation: an existing rotating key is the answer, ...           *)
BeginLoad(c) ==
    /\ pc[c] = "begin"
    /\ IF InState("rotating") # {} THEN Return(c)
       ELSE /\ pc' = [pc EXCEPT ![c] = "beginInsert"]
            /\ UNCHANGED locals
    /\ UNCHANGED <<keyTable, secretTables, calls>>

(* ... else one is inserted, ON CONFLICT DO NOTHING.                       *)
BeginInsert(c) ==
    /\ pc[c] = "beginInsert"
    /\ \E k \in Keys :
          /\ Fresh(k)
          /\ keyState' = IF InState("rotating") = {}
                         THEN [keyState EXCEPT ![k] = "rotating"] ELSE keyState
    /\ Return(c)
    /\ UNCHANGED <<secretTables, calls>>

(* loadActiveKey and loadRotatingKey; without one the call fails.          *)
LoadActive(c, from, to) ==
    /\ pc[c] = from
    /\ IF InState("active") = {} THEN Return(c)
       ELSE /\ pc' = [pc EXCEPT ![c] = to]
            /\ active' = [active EXCEPT ![c] = CHOOSE k \in InState("active") : TRUE]
            /\ UNCHANGED <<secret, rotating, total>>
    /\ UNCHANGED <<keyTable, secretTables, calls>>

LoadRotating(c, from, to) ==
    /\ pc[c] = from
    /\ IF InState("rotating") = {} THEN Return(c)
       ELSE /\ pc' = [pc EXCEPT ![c] = to]
            /\ rotating' = [rotating EXCEPT ![c] = CHOOSE k \in InState("rotating") : TRUE]
            /\ UNCHANGED <<secret, active, total>>
    /\ UNCHANGED <<keyTable, secretTables, calls>>

(* decryptVersion works: the key its record names opens the ciphertext.    *)
Opens(s, v) == keyRecord[s][v] = sealedBy[s][v] /\ keyRecord[s][v] # NoKey

RotateCiphertextOnly(c) ==
    /\ pc[c] = "rotate"
    /\ sealedBy' = [s \in SecretIds |->
                       IF s \in Live THEN [sealedBy[s] EXCEPT ![current[s]] = rotating[c]]
                       ELSE sealedBy[s]]
    /\ Return(c)
    /\ UNCHANGED <<keyTable, live, current, keyRecord, plaintext, calls>>

RotateLosesPlaintext(c) ==
    /\ pc[c] = "rotate"
    /\ plaintext' = [s \in SecretIds |->
                        IF s \in Live THEN [plaintext[s] EXCEPT ![current[s]] = calls]
                        ELSE plaintext[s]]
    /\ Return(c)
    /\ UNCHANGED <<keyTable, live, current, keyRecord, sealedBy, calls>>

(* The transaction of RotateCurrentVersions: every current version is      *)
(* opened and sealed again; one that does not open aborts it all.          *)
Rotate(c) ==
    /\ pc[c] = "rotate"
    /\ LET Resealed(column) ==
              [s \in SecretIds |->
                  IF s \in Live THEN [column[s] EXCEPT ![current[s]] = rotating[c]]
                  ELSE column[s]]
       IN IF \A s \in Live : Opens(s, current[s])
          THEN keyRecord' = Resealed(keyRecord) /\ sealedBy' = Resealed(sealedBy)
          ELSE UNCHANGED <<keyRecord, sealedBy>>
    /\ Return(c)
    /\ UNCHANGED <<keyTable, live, current, plaintext, calls>>

(* CompleteKeyRotation counts the secrets, ...                             *)
CountSecrets(c) ==
    /\ From(c, "countSecrets", "countRotated")
    /\ total' = [total EXCEPT ![c] = Cardinality(Live)]
    /\ UNCHANGED <<keyTable, secretTables, secret, active, rotating, calls>>

(* ... then the current versions under the rotating key, ...               *)
CountRotated(c) ==
    /\ pc[c] = "countRotated"
    /\ IF total[c] = Cardinality({s \in Live : keyRecord[s][current[s]] = rotating[c]})
       THEN /\ pc' = [pc EXCEPT ![c] = IF total[c] > 0 THEN "spotCheck" ELSE "promote"]
            /\ UNCHANGED locals
       ELSE Return(c)
    /\ UNCHANGED <<keyTable, secretTables, calls>>

(* ... opens one current version with the rotating key, ...                *)
SpotCheck(c) ==
    /\ pc[c] = "spotCheck"
    /\ \/ /\ \E s \in Live : sealedBy[s][current[s]] = rotating[c]
          /\ pc' = [pc EXCEPT ![c] = "promote"]
          /\ UNCHANGED locals
       \/ /\ Live = {} \/ \E s \in Live : sealedBy[s][current[s]] # rotating[c]
          /\ Return(c)
    /\ UNCHANGED <<keyTable, secretTables, calls>>

PromoteWithoutIndex(c) ==
    /\ pc[c] = "promote"
    /\ keyState' = [keyState EXCEPT ![active[c]] = "retired", ![rotating[c]] = "active"]
    /\ Return(c)
    /\ UNCHANGED <<secretTables, calls>>

(* ... and in one transaction retires the key it found active and promotes *)
(* the one it found rotating.  The partial unique index on active records  *)
(* aborts the transaction if another key is active by then.                *)
Promote(c) ==
    /\ pc[c] = "promote"
    /\ keyState' = IF InState("active") \subseteq {active[c], rotating[c]}
                   THEN [keyState EXCEPT ![active[c]] = "retired",
                                         ![rotating[c]] = "active"]
                   ELSE keyState
    /\ Return(c)
    /\ UNCHANGED <<secretTables, calls>>

(* BigBase stops between two statements: the call is gone.                 *)
Interrupt(c) ==
    /\ pc[c] # "idle"
    /\ Return(c)
    /\ UNCHANGED <<keyTable, secretTables, calls>>

Step(c) ==
    \/ EnsureLoad(c) \/ EnsureInsert(c) \/ Create(c) \/ Update(c) \/ Delete(c)
    \/ BeginLoad(c) \/ BeginInsert(c)
    \/ LoadActive(c, "rotateActive", "rotateRotating")
    \/ LoadRotating(c, "rotateRotating", "rotate")
    \/ Rotate(c)
    \/ LoadActive(c, "completeActive", "completeRotating")
    \/ LoadRotating(c, "completeRotating", "countSecrets")
    \/ CountSecrets(c) \/ CountRotated(c) \/ SpotCheck(c) \/ Promote(c)

Next == \E c \in Clients : Call(c) \/ Step(c) \/ Interrupt(c)

Spec == Init /\ [][Next]_vars

-----------------------------------------------------------------------------
(* Properties.                                                             *)

(* Every variable keeps its type; in particular CompleteKeyRotation counts *)
(* secrets, never versions (rotation.go:228).                             *)
TypeOK ==
    /\ keyState \in [Keys -> KeyState]
    /\ live \in [SecretIds -> {"absent", "live", "deleted"}]
    /\ current \in [SecretIds -> 0..MaxVersions]
    /\ keyRecord \in [SecretIds -> [Versions -> Keys \cup {NoKey}]]
    /\ sealedBy \in [SecretIds -> [Versions -> Keys \cup {NoKey}]]
    /\ plaintext \in [SecretIds -> [Versions -> 0..MaxCalls]]
    /\ pc \in [Clients -> {"idle", "ensure", "ensureInsert", "create", "update",
                           "delete", "begin", "beginInsert", "rotateActive",
                           "rotateRotating", "rotate", "completeActive",
                           "completeRotating", "countSecrets", "countRotated",
                           "spotCheck", "promote"}]
    /\ secret \in [Clients -> SecretIds]
    /\ active \in [Clients -> Keys \cup {NoKey}]
    /\ rotating \in [Clients -> Keys \cup {NoKey}]
    /\ total \in [Clients -> 0..Cardinality(SecretIds)]
    /\ calls \in 0..MaxCalls

(* "Exactly one 'active' key exists per project" (keys.go:22): once the    *)
(* first key exists there is one active key and at most one rotating key,  *)
(* whatever stale rotation calls are completed late or twice.              *)
OneActiveKey ==
    /\ InState("active") # {} <=> \E k \in Keys : keyState[k] \in {"active", "retired"}
    /\ \A j, k \in InState("active") : j = k
    /\ \A j, k \in InState("rotating") : j = k

(* "an interrupted rotation never loses decryptability" (rotation.go:92):  *)
(* every version of every live secret opens with the key its record names, *)
(* and the versions are 1 to current_version without a gap.                *)
AlwaysDecryptable ==
    \A s \in Live : /\ current[s] >= 1
                    /\ \A v \in Versions : v <= current[s] <=> Opens(s, v)

(* "appends an immutable version" (store.go:202): a version's plaintext    *)
(* never changes while the secret lives, rotation included.                *)
VersionsImmutable ==
    [][\A s \in SecretIds, v \in Versions :
          plaintext[s][v] # 0 /\ live'[s] = "live"
              => plaintext'[s][v] = plaintext[s][v]]_vars

(* What these rest on: a call that is past its loads holds the keys it     *)
(* needs, ...                                                              *)
LoadedKeys ==
    \A c \in Clients :
        /\ pc[c] \in {"create", "rotateRotating", "rotate", "completeRotating",
                      "countSecrets", "countRotated", "spotCheck", "promote"}
              => active[c] \in Keys
        /\ pc[c] \in {"rotate", "countSecrets", "countRotated", "spotCheck", "promote"}
              => rotating[c] \in Keys

(* ... and the versions of a secret are written together: 1 to             *)
(* current_version of a live secret, each under the key its record names.  *)
VersionsInv ==
    \A s \in SecretIds :
        /\ live[s] = "live" => current[s] >= 1
        /\ \A v \in Versions :
              /\ keyRecord[s][v] = sealedBy[s][v]
              /\ keyRecord[s][v] # NoKey <=> live[s] = "live" /\ v <= current[s]
              /\ plaintext[s][v] # 0 => live[s] = "live" /\ v <= current[s]

IInv == TypeOK /\ LoadedKeys /\ OneActiveKey /\ VersionsInv

(* "verifies that every current version references the rotating key ...    *)
(* and only then retires the old key" (rotation.go:211-213): no current    *)
(* version is left under a retired key.                                    *)
RetiredKeyUnused ==
    \A s \in Live : keyState[keyRecord[s][current[s]]] # "retired"
=============================================================================
