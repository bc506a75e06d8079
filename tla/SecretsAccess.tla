--------------------------- MODULE SecretsAccess ---------------------------
(***************************************************************************)
(* Who may do what to one project's secret, through the REST adapter       *)
(* (components/api) and through the MCP tools (components/mcp): the       *)
(* credential is resolved, the project's ownership and the caller's role   *)
(* or scopes are checked, a mutation is charged to the caller's bucket,    *)
(* the SecretManager verifies the project again and acts, and the request  *)
(* is audited.  Every check is a query of its own; keys are revoked,       *)
(* memberships and projects change between any two of them, and the        *)
(* manager reads what it has committed again before it returns.            *)
(***************************************************************************)
EXTENDS Naturals, FiniteSets

CONSTANTS
    Callers,        \* credentials
    KindOfCaller,   \* "user" (a session), "orgkey" (bb_) or "sitekey" (bb_dep_)
    ScopesOf,       \* the scopes of a key, of {"provision", "read", "write"}
    SecCalls,       \* requests that run at the same time
    MutationLimit,  \* SecretsAPIOptions.MutationLimit
    MaxGrants,      \* bound: changes of keys, memberships and of the project
    MaxWindows      \* bound: rate windows that pass

ASSUME SecBounds ==
    /\ IsFiniteSet(SecCalls)
    /\ \A w \in Callers : KindOfCaller[w] \in {"user", "orgkey", "sitekey"}
    /\ MutationLimit \in Nat \ {0} /\ MaxGrants \in Nat /\ MaxWindows \in Nat

VARIABLES
    standing,       \* org_members role of a user ("admin" stands for the owner too), "live"
                    \* of a key; "none" after its removal
    project,        \* the project's row is there, and is the callers' organization's
    siteBound,      \* sites.project_id of the site keys' site is this project
    secret,         \* the secret exists
    secCall,        \* where each request is, whose it is, what it asks for and how
    bucket,         \* secretRateLimiter.buckets: tokens and the window they are of
    window,         \* rate windows passed
    audit,          \* audit_events, the writes of it that are still to come, those that were lost
                    \* and the requests that acted and were answered with an error
    grants,         \* bound: changes so far
    held,           \* auxiliary: what the caller of each request held since it began
    did             \* auxiliary: requests that acted, with the window they were charged to

secVars == <<standing, project, siteBound, secret, secCall, bucket, window, audit, grants, held, did>>

Standings == {"admin", "member", "unknown", "live", "none"}
Mutations == {"create", "update", "delete", "set"}
RestOps == {"describe", "read", "create", "update", "delete"}
McpOps == {"describe", "read", "set", "delete"}
NoBucket == [tokens |-> 0, window |-> 0, open |-> FALSE]
NoSecCall == [at |-> "idle", who |-> "none", via |-> "rest", op |-> "read", window |-> 0]

SecInit ==
    /\ standing = [w \in Callers |-> IF KindOfCaller[w] = "user" THEN "member" ELSE "live"]
    /\ project = TRUE /\ siteBound = TRUE
    /\ secret = FALSE
    /\ secCall = [c \in SecCalls |-> NoSecCall]
    /\ bucket = [w \in Callers |-> NoBucket]
    /\ window = 0
    /\ audit = [rows |-> {}, pending |-> {}, lost |-> {}, failed |-> {}]
    /\ grants = 0
    /\ held = [c \in SecCalls |-> {}]
    /\ did = {}

\* What a caller holds: a credential that resolves, a role or scope for the operation,
\* and the project.
Role(w) == standing[w] \in {"admin", "member"}
Scoped(w, op) == (IF op \in Mutations THEN "write" ELSE "read") \in ScopesOf[w]
Owns(w) == IF KindOfCaller[w] = "sitekey" THEN siteBound ELSE project
Holdings(ask) ==
    LET w == ask.who
        user == KindOfCaller[w] = "user"
    IN  (IF user \/ standing[w] = "live" THEN {"credential"} ELSE {})
          \cup (IF IF user THEN Role(w) ELSE ask.via = "rest" \/ Scoped(w, ask.op)
                THEN {"right"} ELSE {})
          \cup (IF Owns(w) THEN {"project"} ELSE {})

SecGoes(c, ask) == secCall' = [secCall EXCEPT ![c] = ask]
SecMoves(c, pc) == SecGoes(c, [secCall[c] EXCEPT !.at = pc])
SecEnds(c) == SecGoes(c, [(IF c \in did THEN secCall[c] ELSE NoSecCall) EXCEPT !.at = "done"])
Active(c) == secCall[c].at \notin {"idle", "done"}
\* A request that is answered with an error records nothing, whatever it has committed.
SecErrs(c) ==
    /\ SecEnds(c)
    /\ audit' = [audit EXCEPT !.failed = @ \cup ({c} \cap did)]

----------------------------------------------------------------------------
(* A request: its credential is resolved and its rights are checked.        *)

\* Middleware: a key that is not revoked, or a session, whose organization is in the
\* token.  A site key has no organization, so authorize refuses it on the REST routes.
Authenticate(c, w, op) ==
    /\ secCall[c].at = "idle" /\ op \in RestOps
    /\ KindOfCaller[w] \in {"user", "orgkey"}
    /\ KindOfCaller[w] = "user" \/ standing[w] = "live"
    /\ LET ask == [at |-> "owns", who |-> w, via |-> "rest", op |-> op, window |-> 0]
       IN  SecGoes(c, ask) /\ held' = [held EXCEPT ![c] = Holdings(ask)]
    /\ UNCHANGED <<standing, project, siteBound, secret, bucket, window, audit, grants, did>>

\* requireProjectOwnership: a project of another organization is not found.
RequireProjectOwnership(c) ==
    /\ secCall[c].at = "owns"
    /\ IF project THEN SecMoves(c, "role") ELSE SecEnds(c)
    /\ UNCHANGED <<standing, project, siteBound, secret, bucket, window, audit, grants, held, did>>

\* A role that is not known operates the project.
ResolveRoleOpen(c) ==
    /\ secCall[c].at = "role"
    /\ SecMoves(c, IF secCall[c].op \in Mutations THEN "limit" ELSE "folder")
    /\ UNCHANGED <<standing, project, siteBound, secret, bucket, window, audit, grants, held, did>>

\* resolveOrgMembershipRole and the matrix: an organization's key, its owner, an
\* admin and a member may do everything; an unknown role fails closed.
ResolveRole(c) ==
    /\ secCall[c].at = "role"
    /\ LET w == secCall[c].who
           next == IF secCall[c].op \in Mutations THEN "limit" ELSE "folder"
       IN  IF KindOfCaller[w] = "orgkey" \/ Role(w) THEN SecMoves(c, next) ELSE SecEnds(c)
    /\ UNCHANGED <<standing, project, siteBound, secret, bucket, window, audit, grants, held, did>>

\* allow, under rl.mu: the bucket of (actor, project) is opened or refilled for the
\* window, and one token taken.  A swept bucket is one whose window is over, which a
\* refill replaces in the same way.
AllowMutation(c) ==
    LET w == secCall[c].who
        b == IF bucket[w].open /\ bucket[w].window = window THEN bucket[w]
             ELSE [tokens |-> MutationLimit, window |-> window, open |-> TRUE]
    IN  /\ secCall[c].at = "limit"
        /\ \/ /\ b.tokens > 0
              /\ bucket' = [bucket EXCEPT ![w] = [b EXCEPT !.tokens = @ - 1]]
              /\ SecGoes(c, [secCall[c] EXCEPT !.at = "folder", !.window = window])
           \/ /\ b.tokens = 0
              /\ bucket' = [bucket EXCEPT ![w] = b]
              /\ SecEnds(c)
        /\ UNCHANGED <<standing, project, siteBound, secret, window, audit, grants, held, did>>

\* authenticatePost: only keys, and an organization's key needs mcp:provision for the
\* write tier.
AuthenticatePost(w, op) ==
    /\ KindOfCaller[w] \in {"orgkey", "sitekey"} /\ standing[w] = "live"
    /\ KindOfCaller[w] = "orgkey" /\ op \in Mutations => "provision" \in ScopesOf[w]

\* enforceToolAuth: the tool's scope, of either kind of key.
EnforceToolAuth(c, w, op) ==
    /\ secCall[c].at = "idle" /\ op \in McpOps
    /\ AuthenticatePost(w, op) /\ Scoped(w, op)
    /\ LET ask == [at |-> "target", who |-> w, via |-> "mcp", op |-> op, window |-> 0]
       IN  SecGoes(c, ask) /\ held' = [held EXCEPT ![c] = Holdings(ask)]
    /\ UNCHANGED <<standing, project, siteBound, secret, bucket, window, audit, grants, did>>

\* AuthorizeProjectTarget: the organization owns the project, or the key's site is
\* attached to it.
AuthorizeProjectTarget(c) ==
    /\ secCall[c].at = "target"
    /\ IF Owns(secCall[c].who) THEN SecMoves(c, "folder") ELSE SecEnds(c)
    /\ UNCHANGED <<standing, project, siteBound, secret, bucket, window, audit, grants, held, did>>

\* resolveFolder, resolveSecretFolder: EnsureFolder verifies the project once more; a
\* tool called with a folder_id goes straight on.
ResolveFolder(c) ==
    /\ secCall[c].at = "folder"
    /\ \/ project /\ SecMoves(c, "act")
       \/ ~project /\ SecEnds(c)
       \/ secCall[c].via = "mcp" /\ SecMoves(c, "act")
    /\ UNCHANGED <<standing, project, siteBound, secret, bucket, window, audit, grants, held, did>>

----------------------------------------------------------------------------
(* The SecretManager and the audit.                                         *)

\* The transaction of an operation: the manager acts if verifyScope finds the project and
\* the secret is there, or not there, as the operation needs.  A commit may report an
\* error after it has taken effect; a read has nothing to commit.
Committed(op) ==
    CASE op = "create" -> "created" [] op \in {"update", "set"} -> "updated"
      [] op = "delete" -> "deleted" [] OTHER -> "audit"
Manages(c, via, op, fits, after) ==
    /\ secCall[c].at = "act" /\ secCall[c].via = via /\ secCall[c].op = op
    /\ \/ project /\ fits /\ secret' = after /\ did' = did \cup {c} /\ SecMoves(c, Committed(op))
       \/ ~(project /\ fits) /\ SecEnds(c) /\ UNCHANGED <<secret, did>>
    /\ UNCHANGED <<standing, project, siteBound, bucket, window, audit, grants, held>>

HandleListSecrets(c) == Manages(c, "rest", "describe", TRUE, secret)
HandleGetSecret(c) == Manages(c, "rest", "describe", secret, secret)
HandleReadValue(c) == Manages(c, "rest", "read", secret, secret)
HandleCreateSecret(c) == Manages(c, "rest", "create", ~secret, TRUE)
HandleUpdateSecret(c) == Manages(c, "rest", "update", secret, TRUE)
HandleDeleteSecret(c) == Manages(c, "rest", "delete", secret, FALSE)
ListProjectSecrets(c) == Manages(c, "mcp", "describe", TRUE, secret)
GetProjectSecret(c) == Manages(c, "mcp", "describe", secret, secret)
ReadProjectSecretValue(c) == Manages(c, "mcp", "read", secret, secret)
DeleteProjectSecret(c) == Manages(c, "mcp", "delete", secret, FALSE)

\* set_project_secret creates what it cannot update.
SetProjectSecret(c) ==
    \/ (secret \/ ~project) /\ Manages(c, "mcp", "set", TRUE, TRUE)
    \/ /\ secCall[c].at = "act" /\ secCall[c].op = "set" /\ project /\ ~secret
       /\ SecMoves(c, "create")
       /\ UNCHANGED <<standing, project, siteBound, secret, bucket, window, audit, grants, held, did>>

\* The CreateSecret of set_project_secret: another request may have created it by now.
CreateAfterUpdate(c) ==
    /\ secCall[c].at = "create"
    /\ IF project /\ ~secret
       THEN secret' = TRUE /\ did' = did \cup {c} /\ SecMoves(c, "created") /\ UNCHANGED audit
       ELSE SecErrs(c) /\ UNCHANGED <<secret, did>>
    /\ UNCHANGED <<standing, project, siteBound, bucket, window, grants, held>>

\* CreateSecret and UpdateSecret end with GetSecretMetadata, in the context of the request:
\* what another request has deleted by then is not found, and set_project_secret takes an
\* update that was not found for one to create.
GetSecretMetadata(c) ==
    /\ secCall[c].at \in {"created", "updated", "deleted"}
    /\ \/ /\ secCall[c].at = "deleted" \/ (project /\ secret)
          /\ SecMoves(c, "audit") /\ UNCHANGED audit
       \/ /\ secCall[c].at = "updated" /\ secCall[c].op = "set" /\ project /\ ~secret
          /\ SecMoves(c, "create") /\ UNCHANGED audit
       \/ /\ secCall[c].at # "deleted" /\ ~(project /\ secret)
          /\ secCall[c].at = "updated" /\ secCall[c].op = "set" => ~project
          /\ SecErrs(c)
    /\ UNCHANGED <<standing, project, siteBound, secret, bucket, window, grants, held, did>>

\* record starts a goroutine for the row of a read of the value or of a mutation, and
\* the answer goes out; the tools write a line of the log instead.
RecordAudit(c) ==
    /\ secCall[c].at = "audit"
    /\ LET ask == secCall[c]
       IN  IF ask.via = "rest" /\ ask.op # "describe"
           THEN audit' = [audit EXCEPT !.pending = @ \cup {c}]
           ELSE UNCHANGED audit
    /\ SecEnds(c)
    /\ UNCHANGED <<standing, project, siteBound, secret, bucket, window, grants, held, did>>

\* The goroutine's INSERT, which survives the request but not the process.
WriteAudit(c) ==
    /\ c \in audit.pending
    /\ \/ audit' = [audit EXCEPT !.pending = @ \ {c}, !.rows = @ \cup {c}]
       \/ audit' = [audit EXCEPT !.pending = @ \ {c}, !.lost = @ \cup {c}]
    /\ UNCHANGED <<standing, project, siteBound, secret, secCall, bucket, window, grants, held, did>>

\* A statement of a request fails, its commit reports an error, or its client leaves: what
\* it has done by then stays.
SecCallFails(c) ==
    /\ Active(c) /\ secCall[c].at \notin {"audit"}
    /\ SecErrs(c)
    /\ UNCHANGED <<standing, project, siteBound, secret, bucket, window, grants, held, did>>

\* BigBase stops: requests, the buckets and the unwritten rows are gone.
RestartSecrets ==
    /\ grants < MaxGrants /\ grants' = grants + 1
    /\ secCall' = [c \in SecCalls |->
                     IF Active(c) THEN [(IF c \in did THEN secCall[c] ELSE NoSecCall) EXCEPT !.at = "done"]
                     ELSE secCall[c]]
    /\ bucket' = [w \in Callers |-> NoBucket]
    /\ audit' = [audit EXCEPT !.pending = {},
                              !.lost = @ \cup audit.pending \cup {c \in did : Active(c)}]
    /\ UNCHANGED <<standing, project, siteBound, secret, window, held, did>>

----------------------------------------------------------------------------
(* The rest of the platform changes what the checks read.                   *)

GrantChanges ==
    /\ grants < MaxGrants /\ grants' = grants + 1
    /\ UNCHANGED <<secret, secCall, bucket, window, audit, did>>
    /\ held' = [c \in SecCalls |-> IF Active(c) THEN held[c] \cup Holdings(secCall[c])' ELSE held[c]]

\* A membership is removed or given, or a key revoked.
ChangeStanding(w) ==
    /\ standing[w] # "none" \/ KindOfCaller[w] = "user"
    /\ \E s \in IF KindOfCaller[w] = "user" THEN Standings \ {"live"} ELSE {"none"} :
         standing' = [standing EXCEPT ![w] = s]
    /\ UNCHANGED <<project, siteBound>>
    /\ GrantChanges

\* The project is deleted, or the site's attachment to it ends.
ChangeProject ==
    /\ \/ project' = FALSE /\ UNCHANGED siteBound
       \/ siteBound' = FALSE /\ UNCHANGED project
    /\ UNCHANGED standing
    /\ GrantChanges

NextWindow ==
    /\ window < MaxWindows /\ window' = window + 1
    /\ UNCHANGED <<standing, project, siteBound, secret, secCall, bucket, audit, grants, held, did>>

SecNext ==
    \/ \E c \in SecCalls :
         \/ \E w \in Callers, op \in RestOps : Authenticate(c, w, op)
         \/ \E w \in Callers, op \in McpOps : EnforceToolAuth(c, w, op)
         \/ RequireProjectOwnership(c) \/ ResolveRole(c) \/ AllowMutation(c)
         \/ AuthorizeProjectTarget(c) \/ ResolveFolder(c)
         \/ HandleListSecrets(c) \/ HandleGetSecret(c) \/ HandleReadValue(c)
         \/ HandleCreateSecret(c) \/ HandleUpdateSecret(c) \/ HandleDeleteSecret(c)
         \/ ListProjectSecrets(c) \/ GetProjectSecret(c) \/ ReadProjectSecretValue(c)
         \/ SetProjectSecret(c) \/ DeleteProjectSecret(c)
         \/ CreateAfterUpdate(c) \/ GetSecretMetadata(c) \/ RecordAudit(c) \/ WriteAudit(c) \/ SecCallFails(c)
    \/ \E w \in Callers : ChangeStanding(w)
    \/ ChangeProject \/ NextWindow \/ RestartSecrets

SecSpec == SecInit /\ [][SecNext]_secVars

----------------------------------------------------------------------------
SecTypeOK ==
    /\ standing \in [Callers -> Standings]
    /\ project \in BOOLEAN /\ siteBound \in BOOLEAN /\ secret \in BOOLEAN
    /\ secCall \in [SecCalls -> [at : {"idle", "owns", "role", "limit", "target", "folder", "act",
                                       "create", "created", "updated", "deleted", "audit",
                                       "done"},
                                 who : Callers \cup {"none"}, via : {"rest", "mcp"},
                                 op : RestOps \cup McpOps, window : 0 .. MaxWindows]]
    /\ bucket \in [Callers -> [tokens : 0 .. MutationLimit, window : 0 .. MaxWindows, open : BOOLEAN]]
    /\ window \in 0 .. MaxWindows /\ grants \in 0 .. MaxGrants
    /\ audit \in [rows : SUBSET SecCalls, pending : SUBSET SecCalls, lost : SUBSET SecCalls,
                 failed : SUBSET SecCalls]
    /\ held \in [SecCalls -> SUBSET {"credential", "right", "project"}]
    /\ did \subseteq SecCalls

\* Whatever is revoked, removed or deleted while a request passes from check to check,
\* it acts on the secret only if its caller held a live credential, the right and the
\* project at some moment of the request.
AccessEarned ==
    \A c \in did : held[c] = {"credential", "right", "project"}

\* The mutations of one caller that were charged to one rate window are no more than
\* the limit, however its requests overlap; a restart forgets the buckets.  Each REST
\* read of a value and each mutation that took place is audited, is about to be, is one
\* of those a failed INSERT or a stop of the process lost, or is a mutation that was
\* answered with an error after its commit (a commit that reported one, a client that
\* left, a secret or a project gone before the manager read it again); nothing else is
\* audited, and nothing that was answered with an error.
SecretsAccountable ==
    /\ (grants = 0) => \A w \in Callers, n \in 0 .. MaxWindows :
         Cardinality({c \in did : /\ secCall[c].who = w /\ secCall[c].window = n
                                  /\ secCall[c].via = "rest" /\ secCall[c].op \in Mutations})
           <= MutationLimit
    /\ {c \in did : secCall[c].at = "done" /\ secCall[c].via = "rest" /\ secCall[c].op # "describe"}
         \subseteq audit.rows \cup audit.pending \cup audit.lost \cup audit.failed
    /\ audit.rows \subseteq {c \in did : secCall[c].op # "describe" /\ secCall[c].via = "rest"}
    /\ audit.failed \subseteq {c \in did : secCall[c].op \in Mutations}
    /\ audit.failed \cap (audit.rows \cup audit.pending) = {}

\* What the keeper of a secret relies on: whoever acts on it may, and it is on record
\* (the REST and MCP secret handlers, AllowMutation, RecordAudit).
SecretsCorrect == AccessEarned /\ SecretsAccountable

=============================================================================
