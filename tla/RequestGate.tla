------------------------------ MODULE RequestGate ------------------------------
(***************************************************************************)
(* What a request passes before a handler or a deployed site sees it: the  *)
(* proxy's chain (cors, https, .git), deploymentHostMiddleware with the    *)
(* site's auth policy, Auth.Middleware, the in-memory rate limiters,       *)
(* Policy.Wrap and requireSiteOwnership.  Each check reads its own piece    *)
(* of state at its own moment, while keys are revoked, policies change, a   *)
(* policy cannot be read, and the limiters' sweeper drops buckets that a    *)
(* request may hold.                                                        *)
(***************************************************************************)
EXTENDS Naturals, Sequences, FiniteSets

CONSTANTS
    Reqs,               \* requests that are served at the same time
    Addresses,          \* addresses that requests claim to come from
    Asks,               \* what a request may be: route, credential, address, origin, .git in its path
    LimitOf, WindowOf,  \* the limit and the window of each kind of bucket
    EveryOf,            \* CleanupEvery of each limiter
    HttpsPort,          \* the proxy also serves HTTPS
    FirstWorlds,        \* the rows there are at the start
    MaxGateRequests,    \* bound: requests made
    MaxGateTime,        \* bound: ticks
    MaxChanges          \* bound: changes of keys, policies and rows

Limiters == {"login", "keys"}
\* The maps of the limiters; main.go gives the one of /api/auth/ no user to find.
Kinds == {"login_ip", "keys_ip", "keys_user"}
LimiterOf(kind) == IF kind = "login_ip" THEN "login" ELSE "keys"

ASSUME GateNumbers ==
    /\ LimitOf \in [Kinds -> Nat \ {0}] /\ WindowOf \in [Kinds -> Nat \ {0}]
    /\ EveryOf \in [Limiters -> Nat \ {0}]
    /\ {MaxGateRequests, MaxGateTime, MaxChanges} \subseteq Nat

Jwts == {"member", "admin", "stranger", "anon"}
OrgKeys == {"orgkey", "weakkey", "barekey"}      \* with a fitting scope, another one, none
SiteKeys == {"sitekey", "otherkey"}              \* of this site and of another one
GateCreds == Jwts \cup OrgKeys \cup SiteKeys \cup {"none"}
GateRoutes == {"service", "page", "login", "sql", "keys", "deploys", "host_api"}

\* The buckets of a map: one for each address that is claimed, or for each user.
LimiterKeys == ({"login_ip", "keys_ip"} \X Addresses) \cup ({"keys_user"} \X Jwts)

VARIABLES
    world,          \* what the checks read: policy, host, site, keys, the member's mail
    policyKnown,    \* the proxy has the site's policy in its cache
    gate,           \* where each request is and what it holds
    gateTime,       \* the time
    bucketList,     \* every bucket made, in order
    bucketOf,       \* ipMap and userMap: the bucket of each key; 0 none
    sweeps,         \* cleanup, for each map: the threshold it has yet to apply; 0 none
    gateRequests,   \* bound: requests so far
    gateChanges,    \* bound: changes so far
    allowances,     \* auxiliary: when each key was let through, by a bucket the limiter knows
    saw             \* auxiliary: the worlds there were during each request

gateVars == <<world, policyKnown, gate, gateTime, bucketList, bucketOf, sweeps, gateRequests, gateChanges, allowances, saw>>

\* A host is registered with the id of its site, or, by the supervisor of a static site
\* that was resumed after a restart, with the id of the deployment.
Worlds == [policy : {"open", "jwt", "key"}, host : {"none", "site", "deployment"}, row : {"owned", "legacy", "none"},
           keys : SUBSET (OrgKeys \cup SiteKeys), verified : BOOLEAN]
ASSUME GateInputs ==
    /\ \A a \in Asks : a.route \in GateRoutes /\ a.cred \in GateCreds /\ a.from \in Addresses
    /\ FirstWorlds \subseteq Worlds

NoGate == [at |-> "idle", route |-> "none", cred |-> "none", from |-> "none", policy |-> "none", bucket |-> 0]

GateInit ==
    /\ world \in FirstWorlds
    /\ policyKnown = FALSE
    /\ gate = [r \in Reqs |-> NoGate]
    /\ gateTime = 0
    /\ bucketList = <<>>
    /\ bucketOf = [k \in LimiterKeys |-> 0]
    /\ sweeps = [kind \in Kinds |-> 0]
    /\ gateRequests = 0 /\ gateChanges = 0
    /\ allowances = [k \in LimiterKeys |-> <<>>]
    /\ saw = [r \in Reqs |-> {}]

----------------------------------------------------------------------------
(* What changes while requests are under way.  The limiters read no row and *)
(* the other checks no clock, so the clock stands still (a bound) in the    *)
(* behaviours in which rows change.                                         *)

ChangeWorld(w) ==
    /\ gateChanges < MaxChanges /\ gateTime = 0 /\ w # world
    /\ gateChanges' = gateChanges + 1
    /\ world' = w
    /\ saw' = [r \in Reqs |-> IF gate[r].at = "idle" THEN {} ELSE saw[r] \cup {w}]
    /\ UNCHANGED <<gate, gateTime, bucketList, bucketOf, sweeps, gateRequests, allowances>>

\* A key is revoked, a mail verified, a site deleted,
RevokeAKey == (\E k \in world.keys : ChangeWorld([world EXCEPT !.keys = @ \ {k}])) /\ UNCHANGED policyKnown
VerifyMail == ChangeWorld([world EXCEPT !.verified = TRUE]) /\ UNCHANGED policyKnown
DropSite == ChangeWorld([world EXCEPT !.row = "none"]) /\ UNCHANGED policyKnown
\* a policy set, which the proxy is told,
SetAPolicy == (\E p \in {"open", "jwt", "key"} : ChangeWorld([world EXCEPT !.policy = p])) /\ policyKnown' = TRUE
\* a host registered, which may read the policy, or unregistered.
HostChanges ==
    \E h \in {"none", "site", "deployment"} :
        ChangeWorld([world EXCEPT !.host = h]) /\ policyKnown' \in {policyKnown, policyKnown \/ h = "site"}

GateTick ==
    /\ gateTime < MaxGateTime /\ gateChanges = 0
    /\ gateTime' = gateTime + 1
    /\ UNCHANGED <<world, policyKnown, gate, bucketList, bucketOf, sweeps, gateRequests, gateChanges, allowances, saw>>

----------------------------------------------------------------------------
(* The proxy.                                                               *)

Goes(r, pc) == gate' = [gate EXCEPT ![r].at = pc]
KeepLimiter == UNCHANGED <<gateTime, bucketList, bucketOf, sweeps, allowances>>

\* corsMiddleware answers a preflight itself and refuses a foreign origin,
CorsPasses(a) == a.origin \in {"none", "allowed"}
\* httpsRedirectMiddleware sends the visitors of a deployment's host to HTTPS,
Redirects(a) == HttpsPort /\ a.route \in {"page", "host_api"} /\ world.host # "none"
\* and gitPathBlockMiddleware hides .git.
FrontPasses(a) == CorsPasses(a) /\ ~Redirects(a) /\ ~a.git

EnterProxy(r, a) ==
    /\ gate[r].at = "idle" /\ gateRequests < MaxGateRequests
    /\ gateRequests' = gateRequests + 1
    /\ gate' = [gate EXCEPT ![r] = [NoGate EXCEPT !.at = IF FrontPasses(a) THEN "host" ELSE "refused",
                                                  !.route = a.route, !.cred = a.cred, !.from = a.from]]
    /\ saw' = [saw EXCEPT ![r] = {world}]
    /\ KeepLimiter /\ UNCHANGED <<world, policyKnown, gateChanges>>

\* deploymentHostMiddleware: a service host has its own backend; a deployment's host goes
\* on to its site, except for BigBase's API, which is served here like any other host's.
\* A page of a host nobody registered gets BigBase's own mux: it never sees the site.  The
\* id of a deployment has no policy, and what has none is not checked.
HostMiddleware(r) ==
    /\ gate[r].at = "host"
    /\ IF gate[r].route = "page" /\ world.host = "deployment"
       THEN gate' = [gate EXCEPT ![r].at = "served", ![r].policy = "not a site"]
       ELSE Goes(r, CASE gate[r].route = "service" -> "served"
                      [] gate[r].route = "page" -> IF world.host = "site" THEN "policy" ELSE "refused"
                      [] gate[r].route = "login" -> "bucket"
                      [] OTHER -> "auth")
    /\ KeepLimiter /\ UNCHANGED <<world, policyKnown, gateRequests, gateChanges, saw>>

\* isPathProtected: whether the policy in force leaves the path public
IsPathProtected(p) == p # "open"
\* and which credential it accepts.
AcceptsJwt(p) == p = "jwt"
AcceptsSiteKey(p) == p = "key"

\* getSiteAuthPolicy: from the cache, or from the row, which is then cached; a read that
\* fails or takes too long counts as no policy.
GetAuthPolicy(r) ==
    /\ gate[r].at = "policy"
    /\ \/ /\ gate' = [gate EXCEPT ![r].at = IF IsPathProtected(world.policy) THEN "validate" ELSE "served",
                                  ![r].policy = world.policy]
          /\ policyKnown' = TRUE
       \/ /\ ~policyKnown /\ UNCHANGED policyKnown
          /\ gate' = [gate EXCEPT ![r].at = "served", ![r].policy = "unread"]
    /\ KeepLimiter /\ UNCHANGED <<world, gateRequests, gateChanges, saw>>

\* validateSiteKey (main.go) asks for a live key of this very site,
ValidateSiteKey(r) == gate[r].cred = "sitekey" /\ gate[r].cred \in world.keys
\* A check that takes any site's key.
ValidateAnySiteKey(r) == gate[r].cred \in SiteKeys /\ gate[r].cred \in world.keys
\* validateToken for a signed token that has not expired.
ValidateToken(r) == gate[r].cred \in Jwts

ValidateAny(r) ==
    /\ gate[r].at = "validate"
    /\ Goes(r, IF ValidateAnySiteKey(r) \/ ValidateToken(r) THEN "served" ELSE "refused")
    /\ KeepLimiter /\ UNCHANGED <<world, policyKnown, gateRequests, gateChanges, saw>>

Validate(r) ==
    /\ gate[r].at = "validate"
    /\ Goes(r, IF \/ AcceptsSiteKey(gate[r].policy) /\ ValidateSiteKey(r)
                  \/ AcceptsJwt(gate[r].policy) /\ ValidateToken(r)
               THEN "served" ELSE "refused")
    /\ KeepLimiter /\ UNCHANGED <<world, policyKnown, gateRequests, gateChanges, saw>>

----------------------------------------------------------------------------
(* Auth.Middleware.  An anonymous token may only read; a member's mail must  *)
(* be verified; keys must not be revoked.                                    *)

ReadOnly(rt) == rt \in {"deploys", "host_api"}

Authenticates(r) ==
    \/ gate[r].cred \in OrgKeys \cup SiteKeys /\ gate[r].cred \in world.keys
    \/ gate[r].cred = "anon" /\ ReadOnly(gate[r].route)
    \/ gate[r].cred \in {"admin", "stranger"}
    \/ gate[r].cred = "member" /\ world.verified

AuthMiddleware(r) ==
    /\ gate[r].at = "auth"
    /\ Goes(r, IF ~Authenticates(r) THEN "refused"
               ELSE IF gate[r].route = "keys" THEN "bucket" ELSE "authorise")
    /\ KeepLimiter /\ UNCHANGED <<world, policyKnown, gateRequests, gateChanges, saw>>

\* hasAnyScope: only a key that has scopes is held to them.
HasAnyScope(cred) == cred # "weakkey"
\* Policy.Wrap of PolicyAdmin and PolicyScopes
PolicyWrap(r) ==
    CASE gate[r].route = "sql" -> gate[r].cred = "admin"
      [] gate[r].route = "keys" -> HasAnyScope(gate[r].cred)
\* and requireSiteOwnership; a site without organization is the admins'.
RequireSiteOwnership(r) ==
    \/ gate[r].cred = "sitekey" /\ world.row # "none"
    \/ gate[r].cred \in OrgKeys \cup {"member", "admin"} /\ world.row = "owned"
    \/ gate[r].cred = "admin" /\ world.row = "legacy"

Authorise(r) ==
    /\ gate[r].at = "authorise"
    /\ Goes(r, IF IF ReadOnly(gate[r].route) THEN RequireSiteOwnership(r) ELSE PolicyWrap(r)
               THEN "served" ELSE "refused")
    /\ KeepLimiter /\ UNCHANGED <<world, policyKnown, gateRequests, gateChanges, saw>>

----------------------------------------------------------------------------
(* The rate limiters of /api/auth/ and of the deploy keys.                   *)

\* RateLimiter.Middleware: the user's bucket for a token, the address's otherwise.  The
\* address is the one the request claims in X-Forwarded-For, if it does (extractIP).
LimiterKey(r) ==
    IF gate[r].route = "login" THEN <<"login_ip", gate[r].from>>
    ELSE IF gate[r].cred \in Jwts THEN <<"keys_user", gate[r].cred>> ELSE <<"keys_ip", gate[r].from>>
\* The bucket it is given when there is none.
KeyLimit(k) == LimitOf[k[1]]
KeyWindow(k) == WindowOf[k[1]]
FullBucket(k) == [tokens |-> KeyLimit(k), reset |-> gateTime + KeyWindow(k), seen |-> gateTime]

\* ipBucket, userBucket: the key's bucket, made when there is none.
GetBucket(r) ==
    LET k == LimiterKey(r)
    IN  /\ gate[r].at = "bucket"
        /\ IF bucketOf[k] # 0
           THEN UNCHANGED <<bucketList, bucketOf>>
           ELSE /\ bucketList' = Append(bucketList, FullBucket(k))
                /\ bucketOf' = [bucketOf EXCEPT ![k] = Len(bucketList) + 1]
        /\ gate' = [gate EXCEPT ![r].at = "allow", ![r].bucket = bucketOf'[k]]
        /\ UNCHANGED <<world, policyKnown, gateTime, sweeps, gateRequests, gateChanges, allowances, saw>>

\* The bucket as bucket.allow leaves it, before the token is taken.
Refilled(k, b) ==
    IF gateTime > b.reset THEN FullBucket(k) ELSE [b EXCEPT !.seen = gateTime]
TakeToken(b) == [b EXCEPT !.tokens = IF @ > 0 THEN @ - 1 ELSE 0]

\* bucket.allow, on the bucket the request holds, whether or not the sweeper dropped it.
Allow(r) ==
    LET k == LimiterKey(r)
        i == gate[r].bucket
        b == Refilled(k, bucketList[i])
    IN  /\ gate[r].at = "allow"
        /\ bucketList' = [bucketList EXCEPT ![i] = TakeToken(b)]
        /\ allowances' = IF b.tokens > 0 /\ bucketOf[k] = i
                      THEN [allowances EXCEPT ![k] = Append(@, gateTime)] ELSE allowances
        /\ Goes(r, IF b.tokens = 0 THEN "refused"
                   ELSE IF gate[r].route = "login" THEN "served" ELSE "authorise")
        /\ UNCHANGED <<world, policyKnown, gateTime, bucketOf, sweeps, gateRequests, gateChanges, saw>>

\* cleanup, at a tick of its own: the threshold first,
Cleanup(l) ==
    /\ \A kind \in Kinds : LimiterOf(kind) = l => sweeps[kind] = 0
    /\ gateTime > EveryOf[l]
    /\ sweeps' = [kind \in Kinds |-> IF LimiterOf(kind) = l THEN gateTime - EveryOf[l] ELSE sweeps[kind]]
    /\ UNCHANGED <<world, policyKnown, gate, gateTime, bucketList, bucketOf, gateRequests, gateChanges, allowances, saw>>

\* ipMap before userMap, each under its own lock.
SweepsNext(kind) == sweeps[kind] # 0 /\ (kind = "keys_user" => sweeps["keys_ip"] = 0)

Unused(k) == bucketOf[k] # 0 /\ bucketList[bucketOf[k]].seen < sweeps[k[1]]

\* then the buckets that were not used since.
Sweep(kind) ==
    /\ SweepsNext(kind)
    /\ bucketOf' = [k \in LimiterKeys |-> IF k[1] = kind /\ Unused(k) THEN 0 ELSE bucketOf[k]]
    /\ sweeps' = [sweeps EXCEPT ![kind] = 0]
    /\ UNCHANGED <<world, policyKnown, gate, gateTime, bucketList, gateRequests, gateChanges, allowances, saw>>

Answer(r) ==
    /\ gate[r].at \in {"served", "refused"}
    /\ gate' = [gate EXCEPT ![r] = NoGate]
    /\ saw' = [saw EXCEPT ![r] = {}]
    /\ KeepLimiter /\ UNCHANGED <<world, policyKnown, gateRequests, gateChanges>>

GateNext ==
    \/ RevokeAKey \/ SetAPolicy \/ DropSite \/ HostChanges \/ VerifyMail \/ GateTick
    \/ \E l \in Limiters : Cleanup(l)
    \/ \E kind \in Kinds : Sweep(kind)
    \/ \E r \in Reqs :
         \/ \E a \in Asks : EnterProxy(r, a)
         \/ HostMiddleware(r) \/ GetAuthPolicy(r) \/ Validate(r)
         \/ AuthMiddleware(r) \/ GetBucket(r) \/ Allow(r) \/ Authorise(r) \/ Answer(r)

GateSpec == GateInit /\ [][GateNext]_gateVars

----------------------------------------------------------------------------
GateTypeOK ==
    /\ world \in Worlds /\ policyKnown \in BOOLEAN
    /\ \A r \in Reqs : gate[r].bucket \in 0 .. Len(bucketList) /\ saw[r] \subseteq Worlds
    /\ \A k \in LimiterKeys : bucketOf[k] \in 0 .. Len(bucketList)
    /\ \A i \in 1 .. Len(bucketList) : bucketList[i].tokens \in Nat

\* How many of these times are at or after one and before the other.
Within(times, from, to) == Cardinality({i \in DOMAIN times : from <= times[i] /\ times[i] < to})

\* A key has a full bucket again when its window is over, or when the sweeper dropped the
\* bucket, unused for a whole interval: the shorter of the two is the least time between.
Renewal(k) ==
    LET every == EveryOf[LimiterOf(k[1])]
    IN  1 + IF every < KeyWindow(k) THEN every ELSE KeyWindow(k)

\* However its requests overlap and whatever the sweeper drops, a user, or an address as it
\* is claimed, is granted at most one limit more than there are renewals in any stretch of
\* time: two limits in a window, where the sweeper keeps a bucket that long.  Only a request
\* that still holds a dropped bucket is not counted (bucket.allow, cleanup, ipBucket).
RateBounded ==
    \A k \in LimiterKeys, t \in 0 .. gateTime, n \in 0 .. gateTime + 1 :
        Within(allowances[k], t, t + n * Renewal(k)) <= (n + 1) * KeyLimit(k)

\* What entitles a request, judged by the worlds there were while it was under way.
LiveKey(cred, seen) == \E w \in seen : cred \in w.keys
MailVerified(cred, seen) == cred # "member" \/ \E w \in seen : w.verified
Entitled(rt, cred, seen) ==
    CASE rt \in {"service", "login"} -> TRUE
      [] rt = "page" -> \/ \E w \in seen : w.policy = "open"
                        \/ cred \in Jwts /\ \E w \in seen : w.policy = "jwt"
                        \/ cred = "sitekey" /\ LiveKey(cred, seen) /\ \E w \in seen : w.policy = "key"
      [] rt = "sql" -> cred = "admin"
      [] rt = "keys" -> \/ cred \in {"admin", "stranger", "member"} /\ MailVerified(cred, seen)
                        \/ cred \in {"orgkey", "barekey"} \cup SiteKeys /\ LiveKey(cred, seen)
      [] OTHER -> /\ MailVerified(cred, seen)
                  /\ \/ cred = "admin" /\ \E w \in seen : w.row # "none"
                     \/ cred = "sitekey" /\ LiveKey(cred, seen) /\ \E w \in seen : w.row # "none"
                     \/ cred = "member" /\ \E w \in seen : w.row = "owned"
                     \/ cred \in OrgKeys /\ LiveKey(cred, seen) /\ \E w \in seen : w.row = "owned"

\* A page that was served with no policy: its read failed, or the host was known by its
\* deployment while the request was under way.
Unprotected(o, seen) ==
    /\ o.route = "page"
    /\ \/ o.policy = "unread"
       \/ o.policy = "not a site" /\ \E w \in seen : w.host = "deployment"

\* A request that reaches a handler or a site had, while it was under way, a credential
\* that was good for it: a key not yet revoked, a policy that accepts it, a site that is
\* the caller's (the whole chain of middleware).  The proxy alone lets a visitor pass
\* unchecked, where it finds no policy (getSiteAuthPolicy).
ServedEntitled ==
    \A r \in Reqs :
        gate[r].at = "served" => \/ Entitled(gate[r].route, gate[r].cred, saw[r])
                                \/ Unprotected(gate[r], saw[r])

\* What the handlers behind the gate rely on: whoever reaches them may, and no bucket lets
\* through more than it should (the middlewares, RateLimiter).
GateCorrect == ServedEntitled /\ RateBounded

=============================================================================
