--------------------------- MODULE PlatformProofs ---------------------------
(***************************************************************************)
(* The request gate, and the components around the deployment engine       *)
(* together: every behaviour of the platform is one of each component,     *)
(* whose theorems are the gate's here and those of RuntimeProofs and       *)
(* TenantProofs. What the run of MCPlatform checks on a small instance is  *)
(* so proved for every value of the constants.                             *)
(***************************************************************************)
EXTENDS MCPlatform, RuntimeProofs, TenantProofs

-----------------------------------------------------------------------------
(* The request gate.                                                       *)

\* Where a request may stand, and what it holds.
GateStages == {"idle", "host", "policy", "validate", "auth", "bucket", "allow", "authorise", "served", "refused"}
Passing == [at : GateStages, route : GateRoutes \cup {"none"}, cred : GateCreds,
            from : Addresses \cup {"none"},
            policy : {"none", "open", "jwt", "key", "unread", "not a site"}, bucket : Nat]
\* A bucket of a limiter.
TokenBucket == [tokens : Nat, reset : Nat, seen : Nat]

GateTypes ==
    /\ world \in Worlds /\ policyKnown \in BOOLEAN
    /\ gate \in [Reqs -> Passing]
    /\ gateTime \in Nat
    /\ bucketList \in Seq(TokenBucket)
    /\ bucketOf \in [LimiterKeys -> 0 .. Len(bucketList)]
    /\ sweeps \in [Kinds -> Nat]
    /\ allowances \in [LimiterKeys -> Seq(Nat)]
    /\ saw \in [Reqs -> SUBSET Worlds]
    /\ \A r \in Reqs : gate[r].bucket <= Len(bucketList)
    /\ \A r \in Reqs : gate[r].at = "allow" => gate[r].bucket # 0
    /\ \A r \in Reqs : gate[r].at # "idle" => gate[r].from \in Addresses

\* The credential was good for Auth.Middleware in one of these worlds.
GoodFor(rt, cred, seen) ==
    \/ cred \in OrgKeys \cup SiteKeys /\ LiveKey(cred, seen)
    \/ cred = "anon" /\ ReadOnly(rt)
    \/ cred \in {"admin", "stranger"}
    \/ cred = "member" /\ \E w \in seen : w.verified

\* What the checks that a request has passed say of the worlds it saw.
Cleared(o, seen) ==
    /\ o.route \in GateRoutes
    /\ o.at = "policy" => o.route = "page"
    /\ o.at = "validate" => o.route = "page" /\ \E w \in seen : w.policy = o.policy
    /\ o.at = "auth" => o.route \in {"sql", "keys", "deploys", "host_api"}
    /\ o.at \in {"bucket", "allow"} => o.route = "login" \/ (o.route = "keys" /\ GoodFor(o.route, o.cred, seen))
    /\ o.at = "authorise" => o.route \in {"sql", "keys", "deploys", "host_api"} /\ GoodFor(o.route, o.cred, seen)
    /\ o.at = "served" => Entitled(o.route, o.cred, seen) \/ Unprotected(o, seen)

\* The world a request reads is one it saw, and it is as far as its checks allow.
Access == \A r \in Reqs : gate[r].at # "idle" => world \in saw[r] /\ Cleared(gate[r], saw[r])

\* A request that has seen more is entitled to no less.
LEMMA EntitledMore ==
    ASSUME NEW rt, NEW cred, NEW seen, NEW more, seen \subseteq more
    PROVE  /\ Entitled(rt, cred, seen) => Entitled(rt, cred, more)
           /\ GoodFor(rt, cred, seen) => GoodFor(rt, cred, more)
<1>1. LiveKey(cred, seen) => LiveKey(cred, more)
  BY DEF LiveKey
<1>2. MailVerified(cred, seen) => MailVerified(cred, more)
  BY DEF MailVerified
<1>3. GoodFor(rt, cred, seen) => GoodFor(rt, cred, more)
  BY <1>1 DEF GoodFor
<1>4. CASE rt \in {"service", "login"}
  BY <1>3, <1>4 DEF Entitled
<1>5. CASE rt = "page"
  BY <1>1, <1>3, <1>5 DEF Entitled
<1>6. CASE rt = "sql"
  BY <1>3, <1>6 DEF Entitled
<1>7. CASE rt = "keys"
  BY <1>1, <1>2, <1>3, <1>7 DEF Entitled
<1>8. CASE rt \notin {"service", "login", "page", "sql", "keys"}
  BY <1>1, <1>2, <1>3, <1>8 DEF Entitled
<1> QED
  BY <1>4, <1>5, <1>6, <1>7, <1>8

LEMMA ClearedMore ==
    ASSUME NEW o, NEW seen, NEW more, seen \subseteq more, Cleared(o, seen)
    PROVE  Cleared(o, more)
<1>1. /\ Entitled(o.route, o.cred, seen) => Entitled(o.route, o.cred, more)
      /\ GoodFor(o.route, o.cred, seen) => GoodFor(o.route, o.cred, more)
  BY EntitledMore
<1>2. (\E w \in seen : w.policy = o.policy) => \E w \in more : w.policy = o.policy
  OBVIOUS
<1>3. Unprotected(o, seen) => Unprotected(o, more)
  BY DEF Unprotected
<1> QED
  BY <1>1, <1>2, <1>3 DEF Cleared

\* A request moves on, and nothing else that Access speaks of changes.
LEMMA AccessMove ==
    ASSUME GateTypes, Access, NEW r \in Reqs, NEW o \in Passing, gate' = [gate EXCEPT ![r] = o],
           UNCHANGED <<world, saw>>, gate[r].at # "idle", Cleared(o, saw[r])
    PROVE  Access'
<1>1. gate'[r] = o /\ \A q \in Reqs \ {r} : gate'[q] = gate[q]
  BY DEF GateTypes
<1>2. world \in saw[r]
  BY DEF Access
<1> QED
  BY <1>1, <1>2 DEF Access

\* The row changes while requests are under way.
LEMMA AccessChange ==
    ASSUME GateTypes, Access, NEW w, ChangeWorld(w)
    PROVE  Access'
<1>1. gate' = gate /\ world' = w
  BY DEF ChangeWorld
<1>2. ASSUME NEW r \in Reqs, gate[r].at # "idle" PROVE w \in saw'[r] /\ Cleared(gate[r], saw'[r])
  <2>1. saw'[r] = saw[r] \cup {w}
    BY <1>2 DEF ChangeWorld
  <2>2. Cleared(gate[r], saw[r])
    BY <1>2 DEF Access
  <2>3. Cleared(gate[r], saw[r] \cup {w})
    BY <2>2, ClearedMore
  <2> QED
    BY <2>1, <2>3
<1> QED
  BY <1>1, <1>2 DEF Access

\* A check of the chain sends the request on, with what it came with.
LEMMA GateGoesOn ==
    ASSUME GateTypes, NEW r \in Reqs, NEW place \in GateStages, Goes(r, place)
    PROVE  \E o \in Passing : /\ gate' = [gate EXCEPT ![r] = o] /\ o = [gate[r] EXCEPT !.at = place]
                              /\ o.at = place /\ o.route = gate[r].route /\ o.cred = gate[r].cred
                              /\ o.policy = gate[r].policy /\ o.bucket = gate[r].bucket /\ o.from = gate[r].from
<1>1. gate[r] \in Passing
  BY DEF GateTypes
<1> DEFINE o == [gate[r] EXCEPT !.at = place]
<1>2. /\ o \in Passing /\ o.at = place /\ o.route = gate[r].route /\ o.cred = gate[r].cred
      /\ o.policy = gate[r].policy /\ o.bucket = gate[r].bucket /\ o.from = gate[r].from
  BY <1>1 DEF Passing
<1>3. gate' = [gate EXCEPT ![r] = o]
  BY DEF Goes
<1> QED
  BY <1>2, <1>3

LEMMA AccessGoes ==
    ASSUME GateTypes, Access, NEW r \in Reqs, NEW place \in GateStages, Goes(r, place),
           UNCHANGED <<world, saw>>, gate[r].at # "idle",
           \A o \in Passing : /\ o.at = place /\ o.route = gate[r].route /\ o.cred = gate[r].cred
                              /\ o.policy = gate[r].policy
                              => Cleared(o, saw[r])
    PROVE  Access'
<1>1. PICK o \in Passing : /\ gate' = [gate EXCEPT ![r] = o]
                           /\ o.at = place /\ o.route = gate[r].route /\ o.cred = gate[r].cred
                           /\ o.policy = gate[r].policy
  BY GateGoesOn
<1>2. Cleared(o, saw[r])
  BY <1>1
<1> QED
  BY <1>1, <1>2, AccessMove

LEMMA AccessHost ==
    ASSUME GateTypes, Access, NEW r \in Reqs, HostMiddleware(r)
    PROVE  Access'
<1>1. gate[r].at = "host" /\ UNCHANGED <<world, saw>> /\ gate[r].route \in GateRoutes
  BY DEF HostMiddleware, Access, Cleared
<1>2. ASSUME NEW place \in {"served", "policy", "refused", "bucket", "auth"}, Goes(r, place),
             place = "served" => gate[r].route = "service", place = "policy" => gate[r].route = "page",
             place = "bucket" => gate[r].route = "login",
             place = "auth" => gate[r].route \notin {"service", "page", "login"}
      PROVE  Access'
  <2>1. ASSUME NEW o \in Passing, o.at = place, o.route = gate[r].route
        PROVE  Cleared(o, saw[r])
    <3>1. place = "served" => Entitled(o.route, o.cred, saw[r])
      BY <1>2, <2>1 DEF Entitled
    <3>2. place = "auth" => gate[r].route \in {"sql", "keys", "deploys", "host_api"}
      BY <1>1, <1>2 DEF GateRoutes
    <3>3. /\ o.at \notin {"validate", "allow", "authorise"}
          /\ o.at = "policy" => o.route = "page"
          /\ o.at = "bucket" => o.route = "login"
      BY <1>2, <2>1
    <3>4. o.at = "auth" => o.route \in {"sql", "keys", "deploys", "host_api"}
      BY <2>1, <3>2
    <3>5. o.at = "served" => Entitled(o.route, o.cred, saw[r])
      BY <2>1, <3>1
    <3> QED
      BY <1>1, <2>1, <3>3, <3>4, <3>5 DEF Cleared
  <2> QED
    BY <1>1, <1>2, <2>1, AccessGoes DEF GateStages
<1>3. CASE gate[r].route = "service"
  BY <1>2, <1>3 DEF HostMiddleware
<1>4. CASE gate[r].route = "page" /\ world.host # "deployment"
  BY <1>2, <1>4 DEF HostMiddleware
<1>7. CASE gate[r].route = "page" /\ world.host = "deployment"
  <2> DEFINE o == [gate[r] EXCEPT !.at = "served", !.policy = "not a site"]
  <2>1. gate' = [gate EXCEPT ![r] = o] /\ gate[r] \in Passing /\ world \in saw[r]
    BY <1>1, <1>7 DEF HostMiddleware, GateTypes, Access
  <2>2. o \in Passing /\ o.at = "served" /\ o.route = "page" /\ o.policy = "not a site"
    BY <1>7, <2>1 DEF Passing, GateStages
  <2>3. Unprotected(o, saw[r])
    BY <1>7, <2>1, <2>2 DEF Unprotected
  <2>4. Cleared(o, saw[r])
    BY <2>2, <2>3 DEF Cleared, GateRoutes
  <2> QED
    BY <1>1, <2>1, <2>2, <2>4, AccessMove
<1>5. CASE gate[r].route = "login"
  BY <1>2, <1>5 DEF HostMiddleware
<1>6. CASE gate[r].route \notin {"service", "page", "login"}
  BY <1>2, <1>6 DEF HostMiddleware
<1> QED
  BY <1>3, <1>4, <1>5, <1>6, <1>7

LEMMA AccessPolicy ==
    ASSUME GateTypes, Access, NEW r \in Reqs, GetAuthPolicy(r)
    PROVE  Access'
<1>1. /\ gate[r].at = "policy" /\ UNCHANGED <<world, saw>> /\ gate[r].route = "page"
      /\ world \in saw[r] /\ gate[r] \in Passing
  BY DEF GetAuthPolicy, Access, Cleared, GateTypes
<1> DEFINE place == IF IsPathProtected(world.policy) THEN "validate" ELSE "served"
           o == [gate[r] EXCEPT !.at = place, !.policy = world.policy]
           u == [gate[r] EXCEPT !.at = "served", !.policy = "unread"]
<1>2. gate' = [gate EXCEPT ![r] = o] \/ gate' = [gate EXCEPT ![r] = u]
  BY DEF GetAuthPolicy, GateTypes
<1>3. world.policy \in {"open", "jwt", "key"}
  BY DEF GateTypes, Worlds
<1>4. o \in Passing /\ o.at = place /\ o.route = "page" /\ o.policy = world.policy
  BY <1>1, <1>3 DEF Passing, GateStages
<1>5. Cleared(o, saw[r])
  <2>1. CASE place = "validate"
    BY <2>1, <1>1, <1>4 DEF Cleared, GateRoutes
  <2>2. CASE place = "served" /\ world.policy = "open"
    BY <2>2, <1>1, <1>4 DEF Cleared, Entitled, GateRoutes
  <2> QED
    BY <1>3, <2>1, <2>2 DEF IsPathProtected
<1>6. u \in Passing /\ u.at = "served" /\ u.route = "page" /\ u.policy = "unread"
  BY <1>1 DEF Passing, GateStages
<1>7. Cleared(u, saw[r])
  BY <1>6 DEF Cleared, Unprotected, GateRoutes
<1> HIDE DEF o, u, place
<1> QED
  BY <1>1, <1>2, <1>4, <1>5, <1>6, <1>7, AccessMove

LEMMA AccessValidate ==
    ASSUME GateTypes, Access, NEW r \in Reqs, Validate(r)
    PROVE  Access'
<1>1. /\ gate[r].at = "validate" /\ UNCHANGED <<world, saw>> /\ gate[r].route = "page"
      /\ world \in saw[r] /\ \E w \in saw[r] : w.policy = gate[r].policy
  BY DEF Validate, Access, Cleared
<1>2. CASE Goes(r, "refused")
  <2>1. ASSUME NEW o \in Passing, o.at = "refused", o.route = gate[r].route PROVE Cleared(o, saw[r])
    BY <1>1, <2>1 DEF Cleared, GateRoutes
  <2> QED
    BY <1>1, <1>2, <2>1, AccessGoes DEF GateStages
<1>3. CASE /\ Goes(r, "served")
           /\ \/ AcceptsSiteKey(gate[r].policy) /\ ValidateSiteKey(r)
              \/ AcceptsJwt(gate[r].policy) /\ ValidateToken(r)
  <2>1. Entitled("page", gate[r].cred, saw[r])
    BY <1>1, <1>3 DEF AcceptsSiteKey, ValidateSiteKey, AcceptsJwt, ValidateToken, Entitled, LiveKey
  <2>2. ASSUME NEW o \in Passing, o.at = "served", o.route = gate[r].route, o.cred = gate[r].cred
        PROVE  Cleared(o, saw[r])
    BY <1>1, <2>1, <2>2 DEF Cleared, GateRoutes
  <2> QED
    BY <1>1, <1>3, <2>2, AccessGoes DEF GateStages
<1> QED
  BY <1>2, <1>3 DEF Validate

LEMMA AccessAuth ==
    ASSUME GateTypes, Access, NEW r \in Reqs, AuthMiddleware(r)
    PROVE  Access'
<1>1. /\ gate[r].at = "auth" /\ UNCHANGED <<world, saw>> /\ world \in saw[r]
      /\ gate[r].route \in {"sql", "keys", "deploys", "host_api"}
  BY DEF AuthMiddleware, Access, Cleared
<1>2. Authenticates(r) => GoodFor(gate[r].route, gate[r].cred, saw[r])
  BY <1>1 DEF Authenticates, GoodFor, LiveKey
<1>3. ASSUME NEW place \in {"refused", "bucket", "authorise"}, Goes(r, place),
             place # "refused" => Authenticates(r), place = "bucket" => gate[r].route = "keys"
      PROVE  Access'
  <2>1. ASSUME NEW o \in Passing, o.at = place, o.route = gate[r].route, o.cred = gate[r].cred
        PROVE  Cleared(o, saw[r])
    BY <1>1, <1>2, <1>3, <2>1 DEF Cleared, GateRoutes
  <2> QED
    BY <1>1, <1>3, <2>1, AccessGoes DEF GateStages
<1> QED
  BY <1>3 DEF AuthMiddleware

LEMMA AccessAuthorise ==
    ASSUME GateTypes, Access, NEW r \in Reqs, Authorise(r)
    PROVE  Access'
<1> DEFINE rt == gate[r].route
           cred == gate[r].cred
           seen == saw[r]
<1>1. /\ gate[r].at = "authorise" /\ UNCHANGED <<world, saw>> /\ world \in seen
      /\ rt \in {"sql", "keys", "deploys", "host_api"} /\ GoodFor(rt, cred, seen) /\ cred \in GateCreds
  BY DEF Authorise, Access, Cleared, GateTypes, Passing
<1>2. CASE Goes(r, "refused")
  <2>1. ASSUME NEW o \in Passing, o.at = "refused", o.route = gate[r].route PROVE Cleared(o, saw[r])
    BY <1>1, <2>1 DEF Cleared, GateRoutes
  <2> QED
    BY <1>1, <1>2, <2>1, AccessGoes DEF GateStages
<1>3. CASE /\ Goes(r, "served")
           /\ IF ReadOnly(rt) THEN RequireSiteOwnership(r) ELSE PolicyWrap(r)
  <2>1. ASSUME rt = "sql" PROVE Entitled(rt, cred, seen)
    BY <1>3, <2>1 DEF Entitled, PolicyWrap, ReadOnly
  <2>2. ASSUME rt = "keys" PROVE Entitled(rt, cred, seen)
    <3>1. cred # "weakkey"
      BY <1>3, <2>2 DEF PolicyWrap, ReadOnly, HasAnyScope
    <3> QED
      BY <1>1, <2>2, <3>1 DEF Entitled, GoodFor, ReadOnly, MailVerified, OrgKeys, SiteKeys
  <2>3. ASSUME ReadOnly(rt) PROVE Entitled(rt, cred, seen)
    <3>1. \/ cred = "sitekey" /\ world.row # "none"
          \/ cred \in OrgKeys \cup {"member", "admin"} /\ world.row = "owned"
          \/ cred = "admin" /\ world.row = "legacy"
      BY <1>3, <2>3 DEF RequireSiteOwnership
    <3>2. MailVerified(cred, seen)
      BY <1>1 DEF GoodFor, MailVerified, OrgKeys, SiteKeys
    <3>3. cred \in OrgKeys \cup SiteKeys => LiveKey(cred, seen)
      BY <1>1 DEF GoodFor, OrgKeys, SiteKeys
    <3>4. \/ cred = "admin" /\ \E w \in seen : w.row # "none"
          \/ cred = "sitekey" /\ LiveKey(cred, seen) /\ \E w \in seen : w.row # "none"
          \/ cred = "member" /\ \E w \in seen : w.row = "owned"
          \/ cred \in OrgKeys /\ LiveKey(cred, seen) /\ \E w \in seen : w.row = "owned"
      BY <1>1, <3>1, <3>3 DEF SiteKeys
    <3> QED
      BY <2>3, <3>2, <3>4 DEF Entitled, ReadOnly
  <2>4. Entitled(rt, cred, seen)
    BY <1>1, <2>1, <2>2, <2>3 DEF ReadOnly
  <2>5. ASSUME NEW o \in Passing, o.at = "served", o.route = gate[r].route, o.cred = gate[r].cred
        PROVE  Cleared(o, saw[r])
    BY <1>1, <2>4, <2>5 DEF Cleared, GateRoutes
  <2> QED
    BY <1>1, <1>3, <2>5, AccessGoes DEF GateStages
<1> QED
  BY <1>2, <1>3 DEF Authorise

LEMMA AccessLimited ==
    ASSUME GateTypes, Access, NEW r \in Reqs, GetBucket(r) \/ Allow(r)
    PROVE  Access'
<1>1. CASE GetBucket(r)
  <2>1. /\ gate[r].at = "bucket" /\ UNCHANGED <<world, saw>> /\ gate[r] \in Passing
        /\ Cleared(gate[r], saw[r])
    BY <1>1 DEF GetBucket, Access, GateTypes
  <2> DEFINE n == bucketOf'[LimiterKey(r)]
             o == [gate[r] EXCEPT !.at = "allow", !.bucket = n]
  <2>2. n \in Nat
    <3>1. LimiterKey(r) \in LimiterKeys
      BY <2>1 DEF LimiterKey, LimiterKeys, GateTypes
    <3>2. bucketOf[LimiterKey(r)] \in Nat /\ Len(bucketList) + 1 \in Nat
      BY <3>1 DEF GateTypes
    <3> QED
      BY <1>1, <3>1, <3>2 DEF GetBucket, GateTypes
  <2>3. gate' = [gate EXCEPT ![r] = o]
    BY <1>1 DEF GetBucket, GateTypes
  <2>4. o \in Passing /\ o.at = "allow" /\ o.route = gate[r].route /\ o.cred = gate[r].cred
    BY <2>1, <2>2 DEF Passing, GateStages
  <2>5. Cleared(o, saw[r])
    BY <2>1, <2>4 DEF Cleared
  <2> QED
    BY <2>1, <2>3, <2>4, <2>5, AccessMove
<1>2. CASE Allow(r)
  <2>1. gate[r].at = "allow" /\ UNCHANGED <<world, saw>> /\ Cleared(gate[r], saw[r])
    BY <1>2 DEF Allow, Access
  <2>2. ASSUME NEW place \in {"refused", "served", "authorise"}, Goes(r, place),
               place = "served" => gate[r].route = "login", place = "authorise" => gate[r].route # "login"
        PROVE  Access'
    <3>1. ASSUME NEW o \in Passing, o.at = place, o.route = gate[r].route, o.cred = gate[r].cred
          PROVE  Cleared(o, saw[r])
      BY <2>1, <2>2, <3>1 DEF Cleared, Entitled, GateRoutes
    <3> QED
      BY <2>1, <2>2, <3>1, AccessGoes DEF GateStages
  <2> QED
    BY <1>2, <2>2 DEF Allow
<1> QED
  BY <1>1, <1>2

LEMMA AccessStep ==
    ASSUME GateTypes, Access, [GateNext]_gateVars
    PROVE  Access'
<1>1. CASE RevokeAKey \/ SetAPolicy \/ DropSite \/ HostChanges \/ VerifyMail
  BY <1>1, AccessChange DEF RevokeAKey, SetAPolicy, DropSite, HostChanges, VerifyMail
<1>2. CASE \/ UNCHANGED gateVars \/ GateTick \/ (\E l \in Limiters : Cleanup(l))
           \/ \E kind \in Kinds : Sweep(kind)
  <2>1. UNCHANGED <<world, gate, saw>>
    BY <1>2 DEF gateVars, GateTick, Cleanup, Sweep
  <2> QED
    BY <2>1 DEF Access
<1>3. ASSUME NEW r \in Reqs, NEW a \in Asks, EnterProxy(r, a)
      PROVE  Access'
  <2> DEFINE place == IF FrontPasses(a) THEN "host" ELSE "refused"
             o == [NoGate EXCEPT !.at = place, !.route = a.route, !.cred = a.cred, !.from = a.from]
  <2>1. gate' = [gate EXCEPT ![r] = o] /\ saw' = [saw EXCEPT ![r] = {world}] /\ world' = world
    BY <1>3 DEF EnterProxy
  <2>2. o.at = place /\ o.route = a.route /\ a.route \in GateRoutes
    BY GateInputs DEF NoGate
  <2>3. Cleared(o, {world})
    BY <2>2 DEF Cleared
  <2>4. /\ gate'[r] = o /\ saw'[r] = {world}
        /\ \A q \in Reqs \ {r} : gate'[q] = gate[q] /\ saw'[q] = saw[q]
    BY <2>1 DEF GateTypes
  <2> QED
    BY <2>1, <2>3, <2>4 DEF Access
<1>4. ASSUME NEW r \in Reqs, Answer(r)
      PROVE  Access'
  <2>1. gate' = [gate EXCEPT ![r] = NoGate] /\ saw' = [saw EXCEPT ![r] = {}] /\ world' = world
    BY <1>4 DEF Answer
  <2>2. /\ gate'[r].at = "idle"
        /\ \A q \in Reqs \ {r} : gate'[q] = gate[q] /\ saw'[q] = saw[q]
    BY <2>1 DEF GateTypes, NoGate
  <2> QED
    BY <2>1, <2>2 DEF Access
<1> QED
  BY <1>1, <1>2, <1>3, <1>4, AccessHost, AccessPolicy, AccessValidate, AccessAuth, AccessAuthorise,
     AccessLimited DEF GateNext

\* The numbers of a limiter's bucket.
LEMMA KeyNumbers ==
    ASSUME NEW k \in LimiterKeys
    PROVE  /\ KeyLimit(k) \in Nat \ {0} /\ KeyWindow(k) \in Nat \ {0}
           /\ k[1] \in Kinds /\ LimiterOf(k[1]) \in Limiters /\ EveryOf[LimiterOf(k[1])] \in Nat \ {0}
           /\ Renewal(k) \in Nat \ {0} /\ Renewal(k) <= KeyWindow(k) + 1
           /\ Renewal(k) <= EveryOf[LimiterOf(k[1])] + 1
<1>1. k[1] \in Kinds
  BY DEF LimiterKeys, Kinds
<1>2. LimiterOf(k[1]) \in Limiters
  BY DEF LimiterOf, Limiters
<1>3. KeyLimit(k) \in Nat \ {0} /\ KeyWindow(k) \in Nat \ {0} /\ EveryOf[LimiterOf(k[1])] \in Nat \ {0}
  BY <1>1, <1>2, GateNumbers DEF KeyLimit, KeyWindow
<1> QED
  BY <1>1, <1>2, <1>3 DEF Renewal

\* Buckets as bucket.allow leaves them.
LEMMA BucketTypes ==
    ASSUME GateTypes, NEW k \in LimiterKeys, NEW b \in TokenBucket
    PROVE  /\ Refilled(k, b) \in TokenBucket /\ Refilled(k, b).seen = gateTime
           /\ TakeToken(b) \in TokenBucket
           /\ FullBucket(k) \in TokenBucket
<1>1. KeyLimit(k) \in Nat \ {0} /\ KeyWindow(k) \in Nat \ {0} /\ gateTime \in Nat
  BY KeyNumbers DEF GateTypes
<1>2. gateTime + KeyWindow(k) \in Nat
  BY <1>1
<1>3. /\ FullBucket(k) \in TokenBucket /\ FullBucket(k).seen = gateTime
      /\ [b EXCEPT !.seen = gateTime] \in TokenBucket /\ [b EXCEPT !.seen = gateTime].seen = gateTime
  BY <1>1, <1>2 DEF TokenBucket, FullBucket
<1>4. Refilled(k, b) \in TokenBucket /\ Refilled(k, b).seen = gateTime
  BY <1>3 DEF Refilled
<1>5. b.tokens \in Nat /\ (b.tokens > 0 => b.tokens - 1 \in Nat)
  BY DEF TokenBucket
<1>6. TakeToken(b) \in TokenBucket
  BY <1>5 DEF TakeToken, TokenBucket
<1> QED
  BY <1>3, <1>4, <1>6

\* What a request reads of the limiters is there.
LEMMA LimiterReads ==
    ASSUME GateTypes, NEW r \in Reqs
    PROVE  /\ (gate[r].at # "idle" => LimiterKey(r) \in LimiterKeys) /\ gate[r] \in Passing /\ Len(bucketList) \in Nat
           /\ \A k \in LimiterKeys : bucketOf[k] \in 0 .. Len(bucketList)
           /\ \A i \in 1 .. Len(bucketList) : bucketList[i] \in TokenBucket
           /\ gate[r].at = "allow" => gate[r].bucket \in 1 .. Len(bucketList)
<1>1. gate[r].at # "idle" => LimiterKey(r) \in LimiterKeys
  BY DEF LimiterKey, LimiterKeys, GateTypes
<1>p. gate[r] \in Passing /\ Len(bucketList) \in Nat
  BY DEF GateTypes
<1>2. gate[r] \in Passing /\ gate[r].bucket \in Nat /\ Len(bucketList) \in Nat
  BY <1>p DEF Passing
<1>3. gate[r].bucket <= Len(bucketList) /\ (gate[r].at = "allow" => gate[r].bucket # 0)
  BY DEF GateTypes
<1> QED
  BY <1>1, <1>2, <1>3 DEF GateTypes

\* A request moves on and no bucket is made.
LEMMA TypesMove ==
    ASSUME GateTypes, NEW r \in Reqs, NEW o \in Passing, gate' = [gate EXCEPT ![r] = o],
           o.bucket <= Len(bucketList), o.at # "allow", o.at # "idle" => o.from \in Addresses,
           UNCHANGED <<world, gateTime, bucketList, bucketOf, sweeps, allowances>>, policyKnown' \in BOOLEAN,
           saw' \in [Reqs -> SUBSET Worlds]
    PROVE  GateTypes'
<1>1. gate' \in [Reqs -> Passing] /\ gate'[r] = o /\ \A q \in Reqs \ {r} : gate'[q] = gate[q]
  BY DEF GateTypes
<1>2. \A q \in Reqs : /\ gate'[q].bucket <= Len(bucketList) /\ (gate'[q].at = "allow" => gate'[q].bucket # 0)
                      /\ gate'[q].at # "idle" => gate'[q].from \in Addresses
  BY <1>1 DEF GateTypes
<1> QED
  BY <1>1, <1>2 DEF GateTypes

\* A request goes on, and at most the contents of the buckets and the allowances change.
LEMMA TypesGoes ==
    ASSUME GateTypes, NEW r \in Reqs, NEW place \in GateStages, Goes(r, place), place # "allow",
           gate[r].at # "idle", policyKnown' = policyKnown,
           bucketList' \in Seq(TokenBucket), Len(bucketList') = Len(bucketList),
           allowances' \in [LimiterKeys -> Seq(Nat)],
           UNCHANGED <<world, gateTime, bucketOf, sweeps, saw>>
    PROVE  GateTypes'
<1>1. PICK o \in Passing : /\ gate' = [gate EXCEPT ![r] = o] /\ o.at = place /\ o.bucket = gate[r].bucket
                           /\ o.from = gate[r].from
  BY GateGoesOn
<1>2. gate' \in [Reqs -> Passing] /\ gate'[r] = o /\ \A q \in Reqs \ {r} : gate'[q] = gate[q]
  BY <1>1 DEF GateTypes
<1>3. \A q \in Reqs : /\ gate'[q].bucket <= Len(bucketList) /\ (gate'[q].at = "allow" => gate'[q].bucket # 0)
                      /\ gate'[q].at # "idle" => gate'[q].from \in Addresses
  BY <1>1, <1>2 DEF GateTypes
<1>4. /\ world' \in Worlds /\ policyKnown' \in BOOLEAN /\ gateTime' \in Nat /\ sweeps' \in [Kinds -> Nat]
      /\ bucketOf' \in [LimiterKeys -> 0 .. Len(bucketList')] /\ saw' \in [Reqs -> SUBSET Worlds]
  BY DEF GateTypes
<1>5. /\ \A q \in Reqs : gate'[q].bucket <= Len(bucketList')
      /\ \A q \in Reqs : gate'[q].at = "allow" => gate'[q].bucket # 0
      /\ \A q \in Reqs : gate'[q].at # "idle" => gate'[q].from \in Addresses
  BY <1>3, Zenon
<1>6. gate' \in [Reqs -> Passing]
  BY <1>2
<1> QED
  BY <1>4, <1>5, <1>6, Zenon DEF GateTypes

LEMMA TypesChange ==
    ASSUME GateTypes, NEW w \in Worlds, ChangeWorld(w), policyKnown' \in BOOLEAN
    PROVE  GateTypes'
<1>1. saw' \in [Reqs -> SUBSET Worlds]
  BY DEF ChangeWorld, GateTypes
<1>2. world' \in Worlds /\ UNCHANGED <<gate, gateTime, bucketList, bucketOf, sweeps, allowances>>
  BY DEF ChangeWorld
<1> QED
  BY <1>1, <1>2 DEF GateTypes

LEMMA TypesStep ==
    ASSUME GateTypes, [GateNext]_gateVars
    PROVE  GateTypes'
<1>1. CASE RevokeAKey \/ SetAPolicy \/ DropSite \/ HostChanges \/ VerifyMail
  <2>1. world \in Worlds
    BY DEF GateTypes
  <2>2. \A k \in world.keys : [world EXCEPT !.keys = @ \ {k}] \in Worlds
    BY <2>1 DEF Worlds
  <2>3. \A p \in {"open", "jwt", "key"} : [world EXCEPT !.policy = p] \in Worlds
    BY <2>1 DEF Worlds
  <2>4. /\ [world EXCEPT !.row = "none"] \in Worlds /\ [world EXCEPT !.verified = TRUE] \in Worlds
        /\ \A h \in {"none", "site", "deployment"} : [world EXCEPT !.host = h] \in Worlds
    BY <2>1 DEF Worlds
  <2>5. policyKnown' \in BOOLEAN
    BY <1>1 DEF RevokeAKey, SetAPolicy, DropSite, HostChanges, VerifyMail, GateTypes
  <2> QED
    BY <1>1, <2>2, <2>3, <2>4, <2>5, TypesChange DEF RevokeAKey, SetAPolicy, DropSite, HostChanges, VerifyMail
<1>2. CASE UNCHANGED gateVars \/ GateTick
  <2>1. UNCHANGED <<world, policyKnown, gate, bucketList, bucketOf, sweeps, allowances, saw>> /\ gateTime' \in Nat
    BY <1>2 DEF gateVars, GateTick, GateTypes
  <2> QED
    BY <2>1 DEF GateTypes
<1>3. ASSUME NEW l \in Limiters, Cleanup(l)
      PROVE  GateTypes'
  <2>1. gateTime - EveryOf[l] \in Nat
    BY <1>3, GateNumbers DEF Cleanup, GateTypes
  <2>2. sweeps' \in [Kinds -> Nat]
    BY <1>3, <2>1 DEF Cleanup, GateTypes
  <2> QED
    BY <1>3, <2>2 DEF Cleanup, GateTypes
<1>4. ASSUME NEW kind \in Kinds, Sweep(kind)
      PROVE  GateTypes'
  <2>1. bucketOf' \in [LimiterKeys -> 0 .. Len(bucketList)] /\ sweeps' \in [Kinds -> Nat]
    BY <1>4 DEF Sweep, GateTypes
  <2> QED
    BY <1>4, <2>1 DEF Sweep, GateTypes
<1>5. ASSUME NEW r \in Reqs, NEW a \in Asks, EnterProxy(r, a)
      PROVE  GateTypes'
  <2> DEFINE place == IF FrontPasses(a) THEN "host" ELSE "refused"
             o == [NoGate EXCEPT !.at = place, !.route = a.route, !.cred = a.cred, !.from = a.from]
  <2>1. gate' = [gate EXCEPT ![r] = o] /\ saw' = [saw EXCEPT ![r] = {world}]
    BY <1>5 DEF EnterProxy
  <2>2. o \in Passing /\ o.at # "allow" /\ o.bucket = 0 /\ o.from \in Addresses
    BY GateInputs DEF NoGate, Passing, GateStages
  <2>3. saw' \in [Reqs -> SUBSET Worlds] /\ 0 <= Len(bucketList)
    BY <2>1 DEF GateTypes
  <2> QED
    BY <1>5, <2>1, <2>2, <2>3, TypesMove DEF EnterProxy, KeepLimiter, GateTypes
<1>6. ASSUME NEW r \in Reqs, Answer(r)
      PROVE  GateTypes'
  <2>1. NoGate \in Passing /\ NoGate.at = "idle" /\ NoGate.bucket = 0
    BY DEF NoGate, Passing, GateStages, GateCreds
  <2>2. saw' \in [Reqs -> SUBSET Worlds] /\ 0 <= Len(bucketList)
    BY <1>6 DEF Answer, GateTypes
  <2> QED
    BY <1>6, <2>1, <2>2, TypesMove DEF Answer, KeepLimiter, GateTypes
<1>7. ASSUME NEW r \in Reqs, \/ HostMiddleware(r) /\ ~(gate[r].route = "page" /\ world.host = "deployment")
                             \/ Validate(r) \/ AuthMiddleware(r) \/ Authorise(r)
      PROVE  GateTypes'
  <2>1. \E place \in GateStages : place # "allow" /\ Goes(r, place)
    BY <1>7 DEF HostMiddleware, Validate, AuthMiddleware, Authorise, GateStages
  <2>2. UNCHANGED <<world, policyKnown, gateTime, bucketList, bucketOf, sweeps, allowances, saw>> /\ gate[r].at # "idle"
    BY <1>7 DEF HostMiddleware, Validate, AuthMiddleware, Authorise, KeepLimiter
  <2>3. bucketList' \in Seq(TokenBucket) /\ allowances' \in [LimiterKeys -> Seq(Nat)]
    BY <2>2 DEF GateTypes
  <2> QED
    BY <2>1, <2>2, <2>3, TypesGoes
<1>8. ASSUME NEW r \in Reqs, \/ GetAuthPolicy(r)
                             \/ HostMiddleware(r) /\ gate[r].route = "page" /\ world.host = "deployment"
      PROVE  GateTypes'
  <2>1. PICK place \in {"validate", "served"}, p \in {"open", "jwt", "key", "unread", "not a site"} :
            gate' = [gate EXCEPT ![r].at = place, ![r].policy = p]
    <3>1. world.policy \in {"open", "jwt", "key"}
      BY DEF GateTypes, Worlds
    <3> QED
      BY <1>8, <3>1, Zenon DEF GetAuthPolicy, HostMiddleware
  <2> DEFINE o == [gate[r] EXCEPT !.at = place, !.policy = p]
  <2>2. gate' = [gate EXCEPT ![r] = o] /\ gate[r] \in Passing /\ gate[r].at # "idle"
    BY <1>8, <2>1 DEF GetAuthPolicy, HostMiddleware, GateTypes
  <2>3. o \in Passing /\ o.at # "allow" /\ o.bucket = gate[r].bucket /\ o.from = gate[r].from
    BY <2>2 DEF Passing, GateStages
  <2>4. /\ saw' \in [Reqs -> SUBSET Worlds] /\ o.bucket <= Len(bucketList) /\ o.from \in Addresses
        /\ policyKnown' \in BOOLEAN
    BY <1>8, <2>2, <2>3 DEF GetAuthPolicy, HostMiddleware, GateTypes
  <2>5. UNCHANGED <<world, gateTime, bucketList, bucketOf, sweeps, allowances>>
    BY <1>8 DEF GetAuthPolicy, HostMiddleware, KeepLimiter
  <2> HIDE DEF o
  <2> QED
    BY <2>2, <2>3, <2>4, <2>5, TypesMove
<1>9. ASSUME NEW r \in Reqs, GetBucket(r)
      PROVE  GateTypes'
  <2> DEFINE k == LimiterKey(r)
             n == Len(bucketList)
             o == [gate[r] EXCEPT !.at = "allow", !.bucket = bucketOf'[k]]
  <2>1. /\ k \in LimiterKeys /\ gate[r] \in Passing /\ n \in Nat /\ bucketOf[k] \in 0 .. n
        /\ bucketList \in Seq(TokenBucket) /\ bucketOf \in [LimiterKeys -> 0 .. n] /\ gateTime \in Nat
        /\ gate[r].at # "idle"
    BY <1>9, LimiterReads DEF GateTypes, GetBucket
  <2>2. /\ bucketList' \in Seq(TokenBucket) /\ Len(bucketList') \in Nat /\ n <= Len(bucketList')
        /\ bucketOf' \in [LimiterKeys -> 0 .. Len(bucketList')]
        /\ bucketOf'[k] \in 1 .. Len(bucketList')
    <3>1. CASE bucketOf[k] # 0
      BY <1>9, <2>1, <3>1 DEF GetBucket
    <3>2. CASE bucketOf[k] = 0
      <4> DEFINE b == FullBucket(k)
      <4>0. [tokens |-> 0, reset |-> 0, seen |-> 0] \in TokenBucket
        BY DEF TokenBucket
      <4>1. b \in TokenBucket
        BY <2>1, <4>0, BucketTypes
      <4>2. bucketList' = Append(bucketList, b) /\ bucketOf' = [bucketOf EXCEPT ![k] = n + 1]
        BY <1>9, <3>2 DEF GetBucket
      <4>3. bucketList' \in Seq(TokenBucket) /\ Len(bucketList') = n + 1
        BY <4>1, <4>2, <2>1
      <4> QED
        BY <4>2, <4>3, <2>1
    <3> QED
      BY <3>1, <3>2
  <2>3. o \in Passing /\ o.bucket = bucketOf'[k] /\ o.from = gate[r].from
    <3>1. bucketOf'[k] \in Nat
      BY <2>2
    <3> HIDE DEF k
    <3> QED
      BY <2>1, <3>1 DEF Passing, GateStages
  <2>4. gate' = [gate EXCEPT ![r] = o]
    BY <1>9 DEF GetBucket, GateTypes
  <2>5. gate' \in [Reqs -> Passing] /\ gate'[r] = o /\ \A q \in Reqs \ {r} : gate'[q] = gate[q]
    BY <2>3, <2>4 DEF GateTypes
  <2>6. ASSUME NEW q \in Reqs
        PROVE  /\ gate'[q].bucket <= Len(bucketList') /\ (gate'[q].at = "allow" => gate'[q].bucket # 0)
               /\ gate'[q].at # "idle" => gate'[q].from \in Addresses
    <3>1. CASE q = r
      <4>1. gate'[q].bucket \in 1 .. Len(bucketList')
        BY <2>2, <2>3, <2>5, <3>1
      <4>2. gate'[q].from \in Addresses
        BY <2>1, <2>3, <2>5, <3>1 DEF GateTypes
      <4> QED
        BY <4>1, <4>2, <2>2
    <3>2. CASE q # r
      <4>1. /\ gate'[q] = gate[q] /\ gate[q].bucket \in Nat /\ gate[q].bucket <= n
            /\ gate[q].at = "allow" => gate[q].bucket # 0
            /\ gate[q].at # "idle" => gate[q].from \in Addresses
        BY <2>5, <3>2 DEF GateTypes, Passing
      <4> QED
        BY <2>1, <2>2, <4>1
    <3> QED
      BY <3>1, <3>2
  <2>7. UNCHANGED <<world, policyKnown, gateTime, sweeps, allowances, saw>>
    BY <1>9 DEF GetBucket
  <2> QED
    BY <2>2, <2>5, <2>6, <2>7 DEF GateTypes
<1>10. ASSUME NEW r \in Reqs, Allow(r)
       PROVE  GateTypes'
  <2> DEFINE k == LimiterKey(r)
             i == gate[r].bucket
             b == Refilled(k, bucketList[i])
  <2>1. /\ k \in LimiterKeys /\ i \in 1 .. Len(bucketList) /\ bucketList[i] \in TokenBucket
        /\ gateTime \in Nat /\ bucketList \in Seq(TokenBucket) /\ allowances \in [LimiterKeys -> Seq(Nat)]
    BY <1>10, LimiterReads DEF Allow, GateTypes
  <2>2. TakeToken(b) \in TokenBucket
    BY <2>1, BucketTypes
  <2>3. bucketList' \in Seq(TokenBucket) /\ Len(bucketList') = Len(bucketList)
    BY <1>10, <2>1, <2>2 DEF Allow
  <2>4. Append(allowances[k], gateTime) \in Seq(Nat)
    BY <2>1
  <2>5. allowances' \in [LimiterKeys -> Seq(Nat)]
    BY <1>10, <2>1, <2>4 DEF Allow
  <2>6. \E place \in GateStages : place # "allow" /\ Goes(r, place)
    BY <1>10 DEF Allow, GateStages
  <2>7. UNCHANGED <<world, policyKnown, gateTime, bucketOf, sweeps, saw>> /\ gate[r].at # "idle"
    BY <1>10 DEF Allow
  <2> QED
    BY <2>3, <2>5, <2>6, <2>7, TypesGoes
<1>11. ASSUME NEW r \in Reqs, HostMiddleware(r) PROVE GateTypes'
  BY <1>7, <1>8, <1>11
<1>12. ASSUME NEW r \in Reqs, GetAuthPolicy(r) PROVE GateTypes'
  BY <1>8, <1>12
<1>13. ASSUME NEW r \in Reqs, Validate(r) \/ AuthMiddleware(r) \/ Authorise(r) PROVE GateTypes'
  BY <1>7, <1>13
<1> QED
  BY <1>1, <1>2, <1>3, <1>4, <1>5, <1>6, <1>9, <1>10, <1>11, <1>12, <1>13 DEF GateNext

-----------------------------------------------------------------------------
(* The rate limiters.                                                      *)

\* Counting times: one more of them, two stretches of time, a shorter stretch, none.
LEMMA WithinAppend ==
    ASSUME NEW s \in Seq(Nat), NEW x \in Nat, NEW a \in Nat, NEW b \in Nat
    PROVE  /\ Within(s, a, b) \in Nat
           /\ a <= x /\ x < b => Within(Append(s, x), a, b) = Within(s, a, b) + 1
           /\ ~(a <= x /\ x < b) => Within(Append(s, x), a, b) = Within(s, a, b)
<1> DEFINE A == {i \in DOMAIN s : a <= s[i] /\ s[i] < b}
           B == {i \in DOMAIN Append(s, x) : a <= Append(s, x)[i] /\ Append(s, x)[i] < b}
           n == Len(s) + 1
<1>1. /\ Len(s) \in Nat /\ DOMAIN s = 1 .. Len(s) /\ DOMAIN Append(s, x) = 1 .. n
      /\ Append(s, x)[n] = x /\ \A i \in 1 .. Len(s) : Append(s, x)[i] = s[i]
  OBVIOUS
<1>2. IsFiniteSet(1 .. Len(s)) /\ A \subseteq 1 .. Len(s)
  BY <1>1, FS_Interval
<1>3. IsFiniteSet(A) /\ Cardinality(A) \in Nat
  BY <1>2, FS_Subset, FS_CardinalityType
<1>4. n \notin A
  BY <1>1
<1>5. ASSUME a <= x, x < b PROVE B = A \cup {n}
  BY <1>1, <1>5
<1>6. ASSUME ~(a <= x /\ x < b) PROVE B = A
  BY <1>1, <1>6
<1>7. Cardinality(A \cup {n}) = Cardinality(A) + 1
  BY <1>3, <1>4, FS_AddElement
<1>8. Within(s, a, b) = Cardinality(A) /\ Within(Append(s, x), a, b) = Cardinality(B)
  BY DEF Within
<1> QED
  BY <1>3, <1>5, <1>6, <1>7, <1>8

LEMMA WithinOne ==
    ASSUME NEW s \in Seq(Nat), NEW x \in Nat, NEW a \in Nat, NEW b \in Nat
    PROVE  /\ Within(s, a, b) \in Nat /\ Within(Append(s, x), a, b) \in Nat
           /\ Within(Append(s, x), a, b) <= Within(s, a, b) + 1
<1>1. /\ Within(s, a, b) \in Nat
      /\ a <= x /\ x < b => Within(Append(s, x), a, b) = Within(s, a, b) + 1
      /\ ~(a <= x /\ x < b) => Within(Append(s, x), a, b) = Within(s, a, b)
  BY WithinAppend, Zenon
<1> QED
  BY <1>1

LEMMA WithinParts ==
    ASSUME NEW s \in Seq(Nat), NEW a \in Nat, NEW b \in Nat, NEW c \in Nat, a <= b
    PROVE  Within(s, a, c) <= Within(s, a, b) + Within(s, b, c)
<1> DEFINE A == {i \in DOMAIN s : a <= s[i] /\ s[i] < c}
           B == {i \in DOMAIN s : a <= s[i] /\ s[i] < b}
           C == {i \in DOMAIN s : b <= s[i] /\ s[i] < c}
<1>1. IsFiniteSet(DOMAIN s)
  BY FS_Interval, DOMAIN s = 1 .. Len(s), Len(s) \in Nat
<1>2. IsFiniteSet(A) /\ IsFiniteSet(B) /\ IsFiniteSet(C)
  BY <1>1, FS_Subset, A \subseteq DOMAIN s, B \subseteq DOMAIN s, C \subseteq DOMAIN s
<1>3. A \subseteq B \cup C /\ B \cap C = {}
  <2>1. \A i \in DOMAIN s : s[i] \in Nat
    OBVIOUS
  <2> QED
    BY <2>1
<1>4. IsFiniteSet(B \cup C) /\ Cardinality(B \cup C) = Cardinality(B) + Cardinality(C)
  <2>1. IsFiniteSet(B \cup C) /\ IsFiniteSet(B \cap C)
        /\ Cardinality(B \cup C) = Cardinality(B) + Cardinality(C) - Cardinality(B \cap C)
    BY <1>2, FS_Union, FS_Intersection
  <2>2. Cardinality(B \cap C) = 0
    BY <1>3, FS_EmptySet
  <2>3. Cardinality(B) \in Nat /\ Cardinality(C) \in Nat
    BY <1>2, FS_CardinalityType
  <2> QED
    BY <2>1, <2>2, <2>3
<1>5. Cardinality(A) <= Cardinality(B \cup C)
  BY <1>3, <1>4, FS_Subset
<1> QED
  BY <1>4, <1>5 DEF Within

LEMMA WithinLess ==
    ASSUME NEW s \in Seq(Nat), NEW a \in Nat, NEW b \in Nat, NEW c \in Nat, a <= b
    PROVE  Within(s, b, c) <= Within(s, a, c)
<1> DEFINE A == {i \in DOMAIN s : a <= s[i] /\ s[i] < c}
           C == {i \in DOMAIN s : b <= s[i] /\ s[i] < c}
<1>1. IsFiniteSet(DOMAIN s)
  BY FS_Interval, DOMAIN s = 1 .. Len(s), Len(s) \in Nat
<1>2. \A i \in DOMAIN s : s[i] \in Nat
  OBVIOUS
<1>3. IsFiniteSet(A) /\ C \subseteq A
  BY <1>1, <1>2, FS_Subset, A \subseteq DOMAIN s
<1>4. Cardinality(C) <= Cardinality(A)
  BY <1>3, FS_Subset
<1> QED
  BY <1>4 DEF Within

LEMMA WithinNone ==
    ASSUME NEW s \in Seq(Nat), NEW a \in Nat, NEW b \in Nat,
           \A i \in DOMAIN s : ~(a <= s[i] /\ s[i] < b)
    PROVE  Within(s, a, b) = 0
<1>1. {i \in DOMAIN s : a <= s[i] /\ s[i] < b} = {}
  BY SMT
<1> QED
  BY <1>1, FS_EmptySet DEF Within

LEMMA Times == ASSUME NEW n \in Nat, NEW m \in Nat PROVE n * m \in Nat /\ (n + 1) * m = n * m + m
OBVIOUS

\* The stretches that end at p, of any number of renewals, hold as many limits at most.
Spread(s, p, m, lim) == \A n, t \in Nat : t + n * m > p => Within(s, t, p) <= n * lim

\* A bucket whose period, w long, began at p: what it has left and what was granted in the
\* period are together at most the limit; no grant is later than it was seen or than its
\* reset; and what was granted before p is spread.
InPeriod(s, b, p, w, lim, m) ==
    /\ b.reset = p + w /\ p <= b.seen /\ b.tokens <= lim
    /\ \A i \in DOMAIN s : s[i] <= b.seen /\ s[i] <= b.reset
    /\ \A c \in Nat : Within(s, p, c) + b.tokens <= lim
    /\ Spread(s, p, m, lim)

\* No stretch has more than one limit more than it has renewals.
Bounded(s, m, lim) == \A n, t \in Nat : Within(s, t, t + n * m) <= (n + 1) * lim

\* Time passes, ...
LEMMA SpreadLater ==
    ASSUME NEW s \in Seq(Nat), NEW g \in Nat, NEW h \in Nat, g <= h, NEW m \in Nat, NEW lim \in Nat,
           Spread(s, g, m, lim), \A i \in DOMAIN s : s[i] < g
    PROVE  Spread(s, h, m, lim)
<1>1. \A i \in DOMAIN s : s[i] \in Nat
  OBVIOUS
<1>2. ASSUME NEW n \in Nat, NEW t \in Nat, t + n * m > h PROVE Within(s, t, h) <= n * lim
  <2>1. n * m \in Nat /\ n * lim \in Nat
    BY Times
  <2>2. CASE t <= g
    <3>1. Within(s, t, h) <= Within(s, t, g) + Within(s, g, h)
      BY <2>2, WithinParts
    <3>2. Within(s, g, h) = 0
      BY <1>1, WithinNone
    <3>3. Within(s, t, g) <= n * lim
      BY <1>2, <2>1 DEF Spread
    <3>4. Within(s, t, g) \in Nat /\ Within(s, t, h) \in Nat
      BY WithinAppend
    <3> QED
      BY <2>1, <3>1, <3>2, <3>3, <3>4
  <2>3. CASE g < t
    <3>1. Within(s, t, h) = 0
      BY <1>1, <2>3, WithinNone
    <3> QED
      BY <2>1, <3>1
  <2> QED
    BY <2>2, <2>3
<1> QED
  BY <1>2 DEF Spread

\* ... and a period is over.
LEMMA SpreadOn ==
    ASSUME NEW s \in Seq(Nat), NEW b \in TokenBucket, NEW p \in Nat, NEW w \in Nat, NEW lim \in Nat,
           NEW m \in Nat, InPeriod(s, b, p, w, lim, m), NEW g \in Nat, p + m <= g
    PROVE  Spread(s, g, m, lim)
<1>1. b.tokens \in Nat /\ Within(s, p, g) \in Nat
  BY WithinAppend DEF TokenBucket
<1>2. Within(s, p, g) <= lim
  <2>1. Within(s, p, g) + b.tokens <= lim
    BY DEF InPeriod
  <2> QED
    BY <1>1, <2>1
<1>3. ASSUME NEW n \in Nat, NEW t \in Nat, t + n * m > g PROVE Within(s, t, g) <= n * lim
  <2>1. n * m \in Nat /\ n * lim \in Nat /\ Within(s, t, g) \in Nat
    BY Times, WithinAppend
  <2>2. CASE n = 0
    <3>1. n * m = 0 /\ n * lim = 0
      BY <2>2
    <3>2. g < t
      BY <1>3, <3>1
    <3>3. \A i \in DOMAIN s : s[i] \in Nat
      OBVIOUS
    <3>4. Within(s, t, g) = 0
      BY <3>2, <3>3, WithinNone
    <3> QED
      BY <3>1, <3>4
  <2>3. CASE n # 0
    <3> DEFINE j == n - 1
    <3>1. j \in Nat /\ n = j + 1
      BY <2>3
    <3> HIDE DEF j
    <3>2. /\ n * m = j * m + m /\ n * lim = j * lim + lim
          /\ j * m \in Nat /\ j * lim \in Nat
      BY <3>1, Times
    <3>3. CASE p <= t
      <4>1. Within(s, t, g) <= Within(s, p, g)
        BY <3>3, WithinLess
      <4> QED
        BY <1>1, <1>2, <2>1, <3>2, <4>1
    <3>4. CASE t < p
      <4>1. t + j * m > p
        BY <1>3, <3>2
      <4>2. Within(s, t, p) <= j * lim
        BY <3>1, <4>1 DEF InPeriod, Spread
      <4>3. Within(s, t, g) <= Within(s, t, p) + Within(s, p, g)
        BY <3>4, WithinParts
      <4>4. Within(s, t, p) \in Nat
        BY WithinAppend
      <4> QED
        BY <1>1, <1>2, <2>1, <3>2, <4>2, <4>3, <4>4
    <3> QED
      BY <3>3, <3>4
  <2> QED
    BY <2>2, <2>3
<1> QED
  BY <1>3 DEF Spread

LEMMA PeriodBegins ==
    ASSUME NEW s \in Seq(Nat), NEW g \in Nat, NEW w \in Nat, NEW lim \in Nat, NEW m \in Nat,
           \A i \in DOMAIN s : s[i] < g, Spread(s, g, m, lim)
    PROVE  InPeriod(s, [tokens |-> lim, reset |-> g + w, seen |-> g], g, w, lim, m)
<1> DEFINE b == [tokens |-> lim, reset |-> g + w, seen |-> g]
<1>1. b.tokens = lim /\ b.reset = g + w /\ b.seen = g
  OBVIOUS
<1> HIDE DEF b
<1>2. \A i \in DOMAIN s : s[i] \in Nat
  OBVIOUS
<1>3. \A i \in DOMAIN s : s[i] <= g /\ s[i] <= g + w
  BY <1>2
<1>4. ASSUME NEW c \in Nat PROVE Within(s, g, c) = 0
  <2>1. \A i \in DOMAIN s : ~(g <= s[i] /\ s[i] < c)
    BY <1>2
  <2> QED
    BY <2>1, WithinNone
<1>5. \A c \in Nat : Within(s, g, c) + lim <= lim
  BY <1>4
<1>6. InPeriod(s, b, g, w, lim, m)
  BY <1>1, <1>3, <1>5 DEF InPeriod
<1> QED
  BY <1>6 DEF b

\* The first request of a new period, and any other one.
LEMMA PeriodRefilled ==
    ASSUME NEW s \in Seq(Nat), NEW b \in TokenBucket, NEW p \in Nat, NEW w \in Nat, NEW lim \in Nat,
           NEW m \in Nat, m <= w + 1,
           InPeriod(s, b, p, w, lim, m), NEW g \in Nat, g > b.reset
    PROVE  InPeriod(s, [tokens |-> lim, reset |-> g + w, seen |-> g], g, w, lim, m)
<1>1. b.reset \in Nat /\ b.reset = p + w
  BY DEF TokenBucket, InPeriod
<1>2. \A i \in DOMAIN s : s[i] \in Nat
  OBVIOUS
<1>3. \A i \in DOMAIN s : s[i] < g
  BY <1>1, <1>2 DEF InPeriod
<1>4. Spread(s, g, m, lim)
  <2>1. p + m <= g
    BY <1>1
  <2> QED
    BY <2>1, SpreadOn
<1> QED
  BY <1>3, <1>4, PeriodBegins

LEMMA PeriodSeen ==
    ASSUME NEW s \in Seq(Nat), NEW b \in TokenBucket, NEW p \in Nat, NEW w \in Nat, NEW lim \in Nat,
           NEW m \in Nat, InPeriod(s, b, p, w, lim, m), NEW g \in Nat, b.seen <= g
    PROVE  InPeriod(s, [b EXCEPT !.seen = g], p, w, lim, m)
<1> DEFINE e == [b EXCEPT !.seen = g]
<1>1. e.tokens = b.tokens /\ e.reset = b.reset /\ e.seen = g /\ b.seen \in Nat
  BY DEF TokenBucket
<1> HIDE DEF e
<1>2. \A i \in DOMAIN s : s[i] \in Nat
  OBVIOUS
<1>3. \A i \in DOMAIN s : s[i] <= g /\ s[i] <= b.reset
  BY <1>1, <1>2 DEF InPeriod
<1>4. p <= g
  BY <1>1 DEF InPeriod
<1>5. InPeriod(s, e, p, w, lim, m)
  BY <1>1, <1>3, <1>4 DEF InPeriod
<1> QED
  BY <1>5 DEF e

\* A token is taken: the grant counts in the period it was taken in.
LEMMA PeriodGrants ==
    ASSUME NEW s \in Seq(Nat), NEW b \in TokenBucket, NEW p \in Nat, NEW w \in Nat, NEW lim \in Nat,
           NEW m \in Nat, InPeriod(s, b, p, w, lim, m), b.tokens > 0,
           NEW g \in Nat, b.seen = g, g <= b.reset
    PROVE  InPeriod(Append(s, g), TakeToken(b), p, w, lim, m)
<1> DEFINE e == TakeToken(b)
           z == Append(s, g)
<1>1. /\ e.tokens = b.tokens - 1 /\ e.reset = b.reset /\ e.seen = g
      /\ b.reset \in Nat /\ b.tokens \in Nat
  BY DEF TokenBucket, TakeToken
<1>2. e.tokens \in Nat /\ p <= g /\ b.reset = p + w /\ b.tokens <= lim
  BY <1>1 DEF InPeriod
<1>3. \A i \in DOMAIN z : z[i] <= g /\ z[i] <= b.reset
  <2>1. /\ DOMAIN z = 1 .. Len(s) + 1 /\ DOMAIN s = 1 .. Len(s) /\ Len(s) \in Nat
        /\ z[Len(s) + 1] = g /\ \A i \in 1 .. Len(s) : z[i] = s[i]
    BY <1>1
  <2>2. \A i \in 1 .. Len(s) : s[i] <= g /\ s[i] <= b.reset
    BY <2>1 DEF InPeriod
  <2> QED
    BY <1>1, <2>1, <2>2
<1>4. ASSUME NEW c \in Nat PROVE Within(z, p, c) + e.tokens <= lim
  <2>1. Within(s, p, c) \in Nat /\ Within(z, p, c) \in Nat /\ Within(z, p, c) <= Within(s, p, c) + 1
    BY WithinOne
  <2>2. Within(s, p, c) + b.tokens <= lim
    BY DEF InPeriod
  <2> QED
    BY <1>1, <2>1, <2>2
<1>5. Spread(z, p, m, lim)
  <2>1. ASSUME NEW t \in Nat PROVE Within(z, t, p) = Within(s, t, p)
    <3>1. ~(t <= g /\ g < p)
      BY <1>1, <1>2
    <3> QED
      BY <3>1, WithinAppend
  <2> QED
    BY <2>1 DEF InPeriod, Spread
<1> HIDE DEF e, z
<1>6. e.tokens <= lim
  BY <1>1, <1>2
<1>7. InPeriod(z, e, p, w, lim, m)
  BY <1>1, <1>2, <1>3, <1>4, <1>5, <1>6 DEF InPeriod
<1> QED
  BY <1>7 DEF e, z

\* A stretch that ends after a period began holds what is spread before it and what this
\* period granted; an earlier stretch does not hold the new grant.
LEMMA PeriodBounds ==
    ASSUME NEW s \in Seq(Nat), NEW b \in TokenBucket, NEW p \in Nat, NEW w \in Nat, NEW lim \in Nat,
           NEW m \in Nat, NEW g \in Nat, p <= g, InPeriod(Append(s, g), b, p, w, lim, m), Bounded(s, m, lim)
    PROVE  Bounded(Append(s, g), m, lim)
<1> DEFINE z == Append(s, g)
<1>1. z \in Seq(Nat) /\ b.tokens \in Nat
  BY DEF TokenBucket
<1>2. ASSUME NEW n \in Nat, NEW t \in Nat PROVE Within(z, t, t + n * m) <= (n + 1) * lim
  <2> DEFINE c == t + n * m
  <2>1. c \in Nat /\ n * lim \in Nat /\ (n + 1) * lim = n * lim + lim
    BY Times
  <2>2. CASE c <= p
    <3>1. ~(t <= g /\ g < c)
      BY <2>1, <2>2
    <3>2. Within(z, t, c) = Within(s, t, c)
      BY <2>1, <3>1, WithinAppend
    <3> QED
      BY <3>2 DEF Bounded
  <2>3. CASE p < c
    <3>1. Within(z, t, p) <= n * lim
      BY <2>3 DEF InPeriod, Spread
    <3>2. Within(z, p, c) + b.tokens <= lim
      BY <2>1 DEF InPeriod
    <3> HIDE DEF c, z
    <3>3. /\ Within(z, t, p) \in Nat /\ Within(z, p, c) \in Nat /\ Within(z, t, c) \in Nat
      BY <1>1, <2>1, WithinAppend
    <3>4. Within(z, p, c) <= lim
      BY <1>1, <3>2, <3>3
    <3>5. Within(z, t, c) <= n * lim + lim
      <4>1. CASE t <= p
        <5>1. Within(z, t, c) <= Within(z, t, p) + Within(z, p, c)
          BY <1>1, <2>1, <4>1, WithinParts
        <5> QED
          BY <2>1, <3>1, <3>3, <3>4, <5>1
      <4>2. CASE p <= t
        <5>1. Within(z, t, c) <= Within(z, p, c)
          BY <1>1, <2>1, <4>2, WithinLess
        <5> DEFINE x == n * lim
        <5>2. x \in Nat
          BY <2>1
        <5> HIDE DEF x
        <5>3. Within(z, t, c) <= x + lim
          BY <3>3, <3>4, <5>1, <5>2
        <5> QED
          BY <5>3 DEF x
      <4> QED
        BY <4>1, <4>2
    <3> QED
      BY <2>1, <3>5 DEF c
  <2> QED
    BY <2>1, <2>2, <2>3
<1> QED
  BY <1>2 DEF Bounded

\* What a key without a bucket was granted is spread over the past; one with a bucket is in a
\* period.
KeyHolds(k) ==
    /\ Bounded(allowances[k], Renewal(k), KeyLimit(k))
    /\ bucketOf[k] = 0 => /\ \A i \in DOMAIN allowances[k] : allowances[k][i] < gateTime
                          /\ Spread(allowances[k], gateTime, Renewal(k), KeyLimit(k))
    /\ bucketOf[k] # 0 =>
          /\ bucketList[bucketOf[k]].seen <= gateTime
          /\ \E p \in Nat : InPeriod(allowances[k], bucketList[bucketOf[k]], p, KeyWindow(k), KeyLimit(k), Renewal(k))

\* RateBounded, made inductive.
RateInv ==
    /\ \A r \in Reqs : gate[r].at = "allow" =>
          \A k \in LimiterKeys : k # LimiterKey(r) => bucketOf[k] # gate[r].bucket
    /\ \A j, k \in LimiterKeys : j # k /\ bucketOf[j] = bucketOf[k] => bucketOf[j] = 0
    /\ \A kind \in Kinds : sweeps[kind] # 0 => sweeps[kind] + EveryOf[LimiterOf(kind)] <= gateTime
    /\ \A k \in LimiterKeys : KeyHolds(k)

LEMMA RateNumbers ==
    ASSUME GateTypes, NEW k \in LimiterKeys
    PROVE  /\ gateTime \in Nat /\ KeyLimit(k) \in Nat \ {0} /\ KeyWindow(k) \in Nat \ {0}
           /\ Renewal(k) \in Nat \ {0} /\ Renewal(k) <= KeyWindow(k) + 1
           /\ allowances[k] \in Seq(Nat) /\ bucketOf[k] \in 0 .. Len(bucketList) /\ Len(bucketList) \in Nat
           /\ \A i \in DOMAIN allowances[k] : allowances[k][i] \in Nat
           /\ \A i \in 1 .. Len(bucketList) : bucketList[i] \in TokenBucket /\ bucketList[i].seen \in Nat
<1>1. allowances[k] \in Seq(Nat) /\ bucketList \in Seq(TokenBucket)
  BY DEF GateTypes
<1>2. \A i \in 1 .. Len(bucketList) : bucketList[i] \in TokenBucket
  BY <1>1
<1>3. \A b \in TokenBucket : b.seen \in Nat
  BY DEF TokenBucket
<1>4. gateTime \in Nat /\ bucketOf[k] \in 0 .. Len(bucketList)
  BY DEF GateTypes
<1>5. Len(bucketList) \in Nat /\ \A i \in DOMAIN allowances[k] : allowances[k][i] \in Nat
  BY <1>1
<1> QED
  BY <1>1, <1>2, <1>3, <1>4, <1>5, KeyNumbers

\* Time passes or a request moves, and the limiters stay as they are.
LEMMA RateFrame ==
    ASSUME GateTypes, RateInv, gateTime' \in Nat, gateTime <= gateTime',
           UNCHANGED <<bucketList, bucketOf, sweeps, allowances>>,
           \A q \in Reqs : gate'[q].at = "allow" => gate'[q] = gate[q]
    PROVE  RateInv'
<1>1. ASSUME NEW r \in Reqs, gate'[r].at = "allow", NEW k \in LimiterKeys, k # LimiterKey(r)'
      PROVE  bucketOf[k] # gate'[r].bucket
  BY <1>1 DEF RateInv, LimiterKey
<1>2. ASSUME NEW kind \in Kinds, sweeps[kind] # 0 PROVE sweeps[kind] + EveryOf[LimiterOf(kind)] <= gateTime'
  <2>1. sweeps[kind] + EveryOf[LimiterOf(kind)] <= gateTime
    BY <1>2 DEF RateInv
  <2>2. sweeps[kind] \in Nat /\ gateTime \in Nat /\ EveryOf[LimiterOf(kind)] \in Nat
    BY GateNumbers DEF GateTypes, LimiterOf, Limiters
  <2> QED
    BY <2>1, <2>2
<1>3. ASSUME NEW k \in LimiterKeys PROVE KeyHolds(k)'
  <2>1. KeyHolds(k)
    BY <1>3 DEF RateInv
  <2>n. /\ gateTime \in Nat /\ allowances[k] \in Seq(Nat) /\ \A i \in DOMAIN allowances[k] : allowances[k][i] \in Nat
        /\ Renewal(k) \in Nat /\ KeyLimit(k) \in Nat
        /\ bucketOf[k] # 0 => bucketList[bucketOf[k]].seen \in Nat
    BY RateNumbers
  <2>2. ASSUME bucketOf[k] = 0
        PROVE  /\ \A i \in DOMAIN allowances[k] : allowances[k][i] < gateTime'
               /\ Spread(allowances[k], gateTime', Renewal(k), KeyLimit(k))
    <3>1. /\ \A i \in DOMAIN allowances[k] : allowances[k][i] < gateTime
          /\ Spread(allowances[k], gateTime, Renewal(k), KeyLimit(k))
      BY <2>1, <2>2 DEF KeyHolds
    <3>2. \A i \in DOMAIN allowances[k] : allowances[k][i] < gateTime'
      BY <2>n, <3>1
    <3> QED
      BY <2>n, <3>1, <3>2, SpreadLater
  <2>3. bucketOf[k] # 0 => bucketList[bucketOf[k]].seen <= gateTime'
    BY <2>1, <2>n DEF KeyHolds
  <2> QED
    BY <2>1, <2>2, <2>3 DEF KeyHolds
<1> QED
  BY <1>1, <1>2, <1>3 DEF RateInv

\* The sweeper: its threshold lies a whole interval back, ...
LEMMA RateCleanup ==
    ASSUME GateTypes, RateInv, NEW l \in Limiters, Cleanup(l)
    PROVE  RateInv'
<1>1. UNCHANGED <<gate, gateTime, bucketList, bucketOf, allowances>> /\ gateTime \in Nat /\ gateTime > EveryOf[l]
  BY DEF Cleanup, GateTypes
<1>2. ASSUME NEW kind \in Kinds, sweeps'[kind] # 0
      PROVE  sweeps'[kind] + EveryOf[LimiterOf(kind)] <= gateTime
  <2>1. CASE LimiterOf(kind) = l
    <3>1. sweeps'[kind] = gateTime - EveryOf[l]
      BY <2>1 DEF Cleanup
    <3>2. EveryOf[l] \in Nat
      BY GateNumbers
    <3> QED
      BY <1>1, <2>1, <3>1, <3>2
  <2>2. CASE LimiterOf(kind) # l
    BY <1>2, <2>2 DEF Cleanup, RateInv
  <2> QED
    BY <2>1, <2>2
<1>3. ASSUME NEW k \in LimiterKeys PROVE KeyHolds(k)'
  BY <1>1, <1>3 DEF RateInv, KeyHolds
<1>4. ASSUME NEW r \in Reqs, gate'[r].at = "allow", NEW k \in LimiterKeys, k # LimiterKey(r)'
      PROVE  bucketOf'[k] # gate'[r].bucket
  BY <1>1, <1>4 DEF RateInv, LimiterKey
<1> QED
  BY <1>1, <1>2, <1>3, <1>4 DEF RateInv

\* ... so that the period of a bucket it drops began a renewal ago.
LEMMA RateSweep ==
    ASSUME GateTypes, RateInv, NEW kind \in Kinds, Sweep(kind)
    PROVE  RateInv'
<1>1. UNCHANGED <<gate, gateTime, bucketList, allowances>> /\ sweeps[kind] # 0
  BY DEF Sweep, SweepsNext
<1>2. /\ \A j \in LimiterKeys : \/ bucketOf'[j] = bucketOf[j]
                                \/ bucketOf'[j] = 0 /\ Unused(j) /\ j[1] = kind
      /\ \A q \in Kinds : sweeps'[q] \in {0, sweeps[q]}
  BY DEF Sweep, GateTypes
<1>3. ASSUME NEW r \in Reqs, gate'[r].at = "allow", NEW j \in LimiterKeys, j # LimiterKey(r)'
      PROVE  bucketOf'[j] # gate'[r].bucket
  <2>1. bucketOf[j] # gate[r].bucket /\ gate[r].at = "allow" /\ gate'[r] = gate[r]
    BY <1>1, <1>3 DEF RateInv, LimiterKey
  <2>2. gate[r].bucket # 0
    BY <2>1 DEF GateTypes
  <2> QED
    BY <1>2, <2>1, <2>2
<1>4. \A i, j \in LimiterKeys : i # j /\ bucketOf'[i] = bucketOf'[j] => bucketOf'[i] = 0
  BY <1>2 DEF RateInv
<1>5. \A q \in Kinds : sweeps'[q] # 0 => sweeps'[q] + EveryOf[LimiterOf(q)] <= gateTime
  BY <1>2 DEF RateInv
<1>6. ASSUME NEW j \in LimiterKeys PROVE KeyHolds(j)'
  <2>1. KeyHolds(j)
    BY <1>6 DEF RateInv
  <2>2. CASE bucketOf'[j] = bucketOf[j]
    BY <1>1, <2>1, <2>2 DEF KeyHolds
  <2>3. CASE bucketOf'[j] = 0 /\ Unused(j) /\ j[1] = kind
    <3> DEFINE b == bucketList[bucketOf[j]]
               s == allowances[j]
               m == Renewal(j)
               every == EveryOf[LimiterOf(kind)]
    <3>1. bucketOf[j] # 0 /\ b.seen < sweeps[kind]
      BY <2>3 DEF Unused
    <3>2. /\ b \in TokenBucket /\ b.seen \in Nat /\ gateTime \in Nat /\ every \in Nat \ {0} /\ sweeps[kind] \in Nat
          /\ s \in Seq(Nat) /\ \A i \in DOMAIN s : s[i] \in Nat
          /\ KeyWindow(j) \in Nat /\ KeyLimit(j) \in Nat /\ m \in Nat /\ m <= every + 1
      <4>1. bucketOf[j] \in 1 .. Len(bucketList)
        BY <3>1, RateNumbers
      <4>2. every \in Nat \ {0} /\ m <= every + 1
        BY <2>3, KeyNumbers
      <4> QED
        BY <4>1, <4>2, RateNumbers DEF GateTypes
    <3>3. sweeps[kind] + every <= gateTime
      BY <1>1 DEF RateInv
    <3>4. PICK p \in Nat : InPeriod(s, b, p, KeyWindow(j), KeyLimit(j), m)
      BY <2>1, <3>1 DEF KeyHolds
    <3>5. p <= b.seen /\ \A i \in DOMAIN s : s[i] <= b.seen
      BY <3>4 DEF InPeriod
    <3> HIDE DEF b, s, m, every
    <3>6. p + m <= gateTime
      BY <3>1, <3>2, <3>3, <3>5
    <3>7. \A i \in DOMAIN s : s[i] < gateTime
      BY <3>1, <3>2, <3>3, <3>5
    <3>8. Spread(s, gateTime, m, KeyLimit(j))
      BY <3>2, <3>4, <3>6, SpreadOn
    <3> QED
      BY <1>1, <2>1, <2>3, <3>7, <3>8 DEF KeyHolds, s, m
  <2> QED
    BY <1>2, <2>2, <2>3
<1> QED
  BY <1>1, <1>3, <1>4, <1>5, <1>6 DEF RateInv

\* A bucket is looked up, or made: a period begins.
LEMMA RateBucket ==
    ASSUME GateTypes, RateInv, NEW r \in Reqs, GetBucket(r)
    PROVE  RateInv'
<1> DEFINE k == LimiterKey(r)
           n == Len(bucketList)
<1>1. /\ k \in LimiterKeys /\ n \in Nat /\ \A j \in LimiterKeys : bucketOf[j] \in 0 .. n
      /\ bucketList \in Seq(TokenBucket) /\ bucketOf \in [LimiterKeys -> 0 .. n] /\ gateTime \in Nat
      /\ UNCHANGED <<gateTime, sweeps, allowances>>
  BY LimiterReads DEF GateTypes, GetBucket
<1>2. /\ gate'[r].bucket = bucketOf'[k] /\ LimiterKey(r)' = k
      /\ \A q \in Reqs \ {r} : gate'[q] = gate[q]
  <2>1. gate[r] \in Passing /\ gate' = [gate EXCEPT ![r].at = "allow", ![r].bucket = bucketOf'[k]]
    BY LimiterReads DEF GetBucket
  <2>2. gate'[r] = [gate[r] EXCEPT !.at = "allow", !.bucket = bucketOf'[k]]
    BY <2>1 DEF GateTypes
  <2>3. /\ gate'[r].route = gate[r].route /\ gate'[r].cred = gate[r].cred /\ gate'[r].from = gate[r].from
        /\ gate'[r].bucket = bucketOf'[k]
    <3> DEFINE v == bucketOf'[k]
    <3>1. gate'[r] = [gate[r] EXCEPT !.at = "allow", !.bucket = v] /\ gate[r] \in Passing
      BY <2>1, <2>2
    <3> HIDE DEF v
    <3>2. gate'[r].bucket = v
      BY <3>1 DEF Passing
    <3>3. gate'[r].route = gate[r].route /\ gate'[r].cred = gate[r].cred /\ gate'[r].from = gate[r].from
      BY <3>1 DEF Passing
    <3> QED
      BY <3>2, <3>3 DEF v
  <2> QED
    BY <2>1, <2>3 DEF LimiterKey, GateTypes
<1>3. \A q \in Reqs \ {r} : LimiterKey(q)' = LimiterKey(q)
  BY <1>2 DEF LimiterKey
<1>4. \A q \in Kinds : sweeps'[q] # 0 => sweeps'[q] + EveryOf[LimiterOf(q)] <= gateTime'
  BY <1>1 DEF RateInv
<1>5. CASE bucketOf[k] # 0
  <2>1. UNCHANGED <<bucketList, bucketOf>>
    BY <1>5 DEF GetBucket
  <2>2. ASSUME NEW q \in Reqs, gate'[q].at = "allow", NEW j \in LimiterKeys, j # LimiterKey(q)'
        PROVE  bucketOf'[j] # gate'[q].bucket
    <3>1. CASE q = r
      BY <1>1, <1>2, <1>5, <2>1, <2>2, <3>1 DEF RateInv
    <3>2. CASE q # r
      BY <1>2, <1>3, <2>1, <2>2, <3>2 DEF RateInv
    <3> QED
      BY <3>1, <3>2
  <2>3. \A j \in LimiterKeys : KeyHolds(j)'
    BY <1>1, <2>1 DEF RateInv, KeyHolds
  <2> QED
    BY <1>4, <2>1, <2>2, <2>3 DEF RateInv
<1>6. CASE bucketOf[k] = 0
  <2> DEFINE b == FullBucket(k)
  <2>1. bucketList' = Append(bucketList, b) /\ bucketOf' = [bucketOf EXCEPT ![k] = n + 1]
    BY <1>6 DEF GetBucket
  <2>2. /\ bucketOf'[k] = n + 1 /\ \A j \in LimiterKeys \ {k} : bucketOf'[j] = bucketOf[j]
        /\ bucketList'[n + 1] = b /\ \A i \in 1 .. n : bucketList'[i] = bucketList[i]
    BY <1>1, <2>1
  <2>3. ASSUME NEW q \in Reqs, gate'[q].at = "allow", NEW j \in LimiterKeys, j # LimiterKey(q)'
        PROVE  bucketOf'[j] # gate'[q].bucket
    <3>1. CASE q = r
      <4>1. gate'[q].bucket = n + 1 /\ bucketOf'[j] = bucketOf[j] /\ bucketOf[j] \in 0 .. n
        BY <1>1, <1>2, <2>2, <2>3, <3>1
      <4> QED
        BY <1>1, <4>1
    <3>2. CASE q # r
      <4>1. /\ gate[q].at = "allow" /\ gate'[q] = gate[q] /\ j # LimiterKey(q)
        BY <1>2, <1>3, <2>3, <3>2
      <4>2. gate[q].bucket \in 1 .. n /\ bucketOf[j] # gate[q].bucket
        BY <4>1, LimiterReads DEF RateInv
      <4> QED
        BY <1>1, <2>2, <4>1, <4>2
    <3> QED
      BY <3>1, <3>2
  <2>4. \A i, j \in LimiterKeys : i # j /\ bucketOf'[i] = bucketOf'[j] => bucketOf'[i] = 0
    <3>1. \A j \in LimiterKeys : bucketOf[j] # n + 1
      BY <1>1
    <3> QED
      BY <2>2, <3>1 DEF RateInv
  <2>5. ASSUME NEW j \in LimiterKeys PROVE KeyHolds(j)'
    <3>1. KeyHolds(j)
      BY <2>5 DEF RateInv
    <3>2. CASE j # k
      <4>1. bucketOf'[j] = bucketOf[j] /\ (bucketOf[j] # 0 => bucketList'[bucketOf[j]] = bucketList[bucketOf[j]])
        BY <1>1, <2>2, <3>2
      <4> QED
        BY <1>1, <3>1, <4>1 DEF KeyHolds
    <3>3. CASE j = k
      <4> DEFINE s == allowances[k]
                 w == KeyWindow(k)
                 lim == KeyLimit(k)
                 m == Renewal(k)
      <4>1. s \in Seq(Nat) /\ w \in Nat /\ lim \in Nat /\ m \in Nat
        BY <1>1, RateNumbers
      <4>2. (\A i \in DOMAIN s : s[i] < gateTime) /\ Spread(s, gateTime, m, lim)
        BY <1>6, <3>1, <3>3 DEF KeyHolds
      <4>3. b = [tokens |-> lim, reset |-> gateTime + w, seen |-> gateTime] /\ b.seen = gateTime
        BY DEF FullBucket
      <4> HIDE DEF s, w, lim, m
      <4>4. InPeriod(s, b, gateTime, w, lim, m)
        BY <1>1, <4>1, <4>2, <4>3, PeriodBegins
      <4>5. bucketList'[bucketOf'[j]] = b /\ bucketOf'[j] # 0 /\ gateTime <= gateTime
        BY <1>1, <2>2, <3>3
      <4>6. Bounded(s, m, lim)
        BY <3>1, <3>3 DEF KeyHolds, s, m, lim
      <4> HIDE DEF b
      <4> QED
        BY <1>1, <3>3, <4>3, <4>4, <4>5, <4>6 DEF KeyHolds, s, w, lim, m
    <3> QED
      BY <3>2, <3>3
  <2> QED
    BY <1>4, <2>3, <2>4, <2>5 DEF RateInv
<1> QED
  BY <1>5, <1>6

\* The bucket a request holds, as bucket.allow finds it, is in a period.
LEMMA PeriodOfRequest ==
    ASSUME GateTypes, NEW k \in LimiterKeys, NEW b \in TokenBucket, b.seen <= gateTime,
           NEW p \in Nat, InPeriod(allowances[k], b, p, KeyWindow(k), KeyLimit(k), Renewal(k))
    PROVE  \E q \in Nat : /\ InPeriod(allowances[k], Refilled(k, b), q, KeyWindow(k), KeyLimit(k), Renewal(k))
                          /\ gateTime <= Refilled(k, b).reset
<1> DEFINE s == allowances[k]
           w == KeyWindow(k)
           lim == KeyLimit(k)
           m == Renewal(k)
           e == [tokens |-> lim, reset |-> gateTime + w, seen |-> gateTime]
           f == [b EXCEPT !.seen = gateTime]
<1>1. /\ s \in Seq(Nat) /\ w \in Nat /\ lim \in Nat /\ m \in Nat /\ m <= w + 1
      /\ gateTime \in Nat /\ b.reset \in Nat
  BY RateNumbers DEF TokenBucket
<1>2. CASE gateTime > b.reset
  <2>1. Refilled(k, b) = e /\ e.reset = gateTime + w
    BY <1>2 DEF Refilled, FullBucket
  <2> HIDE DEF s, w, lim, m
  <2>2. InPeriod(s, e, gateTime, w, lim, m)
    BY <1>1, <1>2, PeriodRefilled DEF s, w, lim, m
  <2>3. gateTime <= e.reset
    BY <1>1
  <2> HIDE DEF e
  <2> QED
    BY <1>1, <2>1, <2>2, <2>3 DEF s, w, lim, m
<1>3. CASE ~(gateTime > b.reset)
  <2>1. Refilled(k, b) = f /\ f.reset = b.reset
    BY <1>3 DEF Refilled, TokenBucket
  <2>2. InPeriod(s, f, p, w, lim, m)
    BY <1>1, PeriodSeen
  <2>3. gateTime <= f.reset
    BY <1>1, <1>3, <2>1
  <2> HIDE DEF f
  <2> QED
    BY <2>1, <2>2, <2>3
<1> QED
  BY <1>2, <1>3

\* bucket.allow: a grant counts where the limiter knows the bucket, and nowhere else.
LEMMA RateAllow ==
    ASSUME GateTypes, RateInv, NEW r \in Reqs, Allow(r)
    PROVE  RateInv'
<1> DEFINE k == LimiterKey(r)
           i == gate[r].bucket
           b == Refilled(k, bucketList[i])
           e == TakeToken(b)
<1>1. /\ k \in LimiterKeys /\ i \in 1 .. Len(bucketList) /\ bucketList[i] \in TokenBucket
      /\ Len(bucketList) \in Nat /\ bucketList \in Seq(TokenBucket) /\ gateTime \in Nat
      /\ gate[r].at = "allow" /\ UNCHANGED <<gateTime, bucketOf, sweeps>>
      /\ \A j \in LimiterKeys : bucketOf[j] \in 0 .. Len(bucketList)
  BY LimiterReads DEF Allow, GateTypes
<1>2. b \in TokenBucket /\ b.seen = gateTime /\ e \in TokenBucket
  BY <1>1, BucketTypes
<1>3. /\ bucketList'[i] = e
      /\ \A j \in 1 .. Len(bucketList) : j # i => bucketList'[j] = bucketList[j]
  BY <1>1 DEF Allow
<1>4. /\ allowances' = IF b.tokens > 0 /\ bucketOf[k] = i
                    THEN [allowances EXCEPT ![k] = Append(@, gateTime)] ELSE allowances
      /\ allowances \in [LimiterKeys -> Seq(Nat)]
  BY DEF Allow, GateTypes
<1>5. \A j \in LimiterKeys \ {k} : allowances'[j] = allowances[j] /\ bucketOf[j] # i
  BY <1>1, <1>4 DEF RateInv
<1>6. \E place \in GateStages : place # "allow" /\ Goes(r, place)
  BY DEF Allow, GateStages
<1>7. \A q \in Reqs : gate'[q].at = "allow" => gate'[q] = gate[q]
  <2>1. PICK place \in GateStages : place # "allow" /\ Goes(r, place)
    BY <1>6
  <2>2. PICK o \in Passing : gate' = [gate EXCEPT ![r] = o] /\ o.at = place
    BY <2>1, GateGoesOn
  <2> QED
    BY <2>1, <2>2 DEF GateTypes
<1>8. ASSUME NEW q \in Reqs, gate'[q].at = "allow", NEW j \in LimiterKeys, j # LimiterKey(q)'
      PROVE  bucketOf'[j] # gate'[q].bucket
  BY <1>1, <1>7, <1>8 DEF RateInv, LimiterKey
<1>9. ASSUME NEW j \in LimiterKeys, j # k \/ bucketOf[k] # i PROVE KeyHolds(j)'
  <2>1. KeyHolds(j)
    BY <1>9 DEF RateInv
  <2>2. allowances'[j] = allowances[j] /\ bucketOf[j] # i
    BY <1>4, <1>5, <1>9
  <2>3. bucketOf[j] # 0 => bucketList'[bucketOf[j]] = bucketList[bucketOf[j]]
    BY <1>1, <1>3, <2>2
  <2> QED
    BY <1>1, <2>1, <2>2, <2>3 DEF KeyHolds
<1>10. ASSUME NEW j \in LimiterKeys, j = k, bucketOf[j] = i PROVE KeyHolds(j)'
  <2> DEFINE s == allowances[j]
             w == KeyWindow(j)
             lim == KeyLimit(j)
             m == Renewal(j)
  <2>1. s \in Seq(Nat) /\ w \in Nat /\ lim \in Nat /\ m \in Nat
    BY <1>1, RateNumbers
  <2>2. KeyHolds(j) /\ bucketOf[j] # 0
    BY <1>1, <1>10 DEF RateInv
  <2>3. PICK p \in Nat : InPeriod(s, b, p, w, lim, m) /\ gateTime <= b.reset
    <3>1. bucketList[i].seen <= gateTime /\ \E p \in Nat : InPeriod(s, bucketList[i], p, w, lim, m)
      BY <1>10, <2>2 DEF KeyHolds
    <3> QED
      BY <1>1, <1>10, <3>1, PeriodOfRequest
  <2>4. e.seen = gateTime /\ (~(b.tokens > 0) => e = b)
    <3>1. b.tokens \in Nat
      BY <1>2 DEF TokenBucket
    <3>2. TakeToken(b).seen = b.seen
      BY <1>2 DEF TakeToken, TokenBucket
    <3>3. ASSUME ~(b.tokens > 0) PROVE TakeToken(b) = b
      <4>1. b.tokens = 0
        BY <3>1, <3>3
      <4> HIDE DEF b
      <4> QED
        BY <1>2, <4>1 DEF TakeToken, TokenBucket
    <3> QED
      BY <1>2, <3>2, <3>3
  <2>5. /\ Bounded(s, m, lim) /\ bucketOf'[j] = i /\ bucketList'[i] = e /\ i # 0 /\ gateTime' = gateTime
    BY <1>1, <1>3, <1>10, <2>2 DEF KeyHolds
  <2> HIDE DEF s, w, lim, m, b, e
  <2>6. CASE b.tokens > 0
    <3>1. allowances'[j] = Append(s, gateTime)
      BY <1>1, <1>4, <1>10, <2>6 DEF s
    <3>2. InPeriod(Append(s, gateTime), e, p, w, lim, m)
      BY <1>1, <1>2, <2>1, <2>3, <2>6, PeriodGrants DEF e
    <3>3. p <= gateTime
      BY <1>2, <2>3 DEF InPeriod
    <3>4. Bounded(Append(s, gateTime), m, lim)
      BY <1>1, <1>2, <2>1, <2>5, <3>2, <3>3, PeriodBounds
    <3>5. e.seen <= gateTime
      BY <1>1, <2>4
    <3> HIDE DEF i, k
    <3> QED
      BY <2>5, <3>1, <3>2, <3>4, <3>5 DEF KeyHolds, w, lim, m
  <2>7. CASE ~(b.tokens > 0)
    <3>1. allowances'[j] = s
      BY <1>4, <1>10, <2>7 DEF s
    <3>2. InPeriod(s, e, p, w, lim, m) /\ e.seen <= gateTime
      BY <1>1, <2>3, <2>4, <2>7
    <3> HIDE DEF i, k
    <3> QED
      BY <2>5, <3>1, <3>2 DEF KeyHolds, w, lim, m
  <2> QED
    BY <2>6, <2>7
<1>11. \A j \in LimiterKeys : KeyHolds(j)'
  BY <1>1, <1>9, <1>10
<1> QED
  BY <1>1, <1>8, <1>11 DEF RateInv

LEMMA RateStep ==
    ASSUME GateTypes, RateInv, [GateNext]_gateVars
    PROVE  RateInv'
<1>t. gateTime \in Nat
  BY DEF GateTypes
<1>1. CASE RevokeAKey \/ SetAPolicy \/ DropSite \/ HostChanges \/ VerifyMail \/ GateTick \/ UNCHANGED gateVars
  <2>1. UNCHANGED <<gate, bucketList, bucketOf, sweeps, allowances>>
    BY <1>1 DEF RevokeAKey, SetAPolicy, DropSite, HostChanges, VerifyMail, ChangeWorld, GateTick, gateVars
  <2>2. gateTime' \in Nat /\ gateTime <= gateTime'
    BY <1>t, <1>1 DEF RevokeAKey, SetAPolicy, DropSite, HostChanges, VerifyMail, ChangeWorld, GateTick, gateVars
  <2> QED
    BY <2>1, <2>2, RateFrame
<1>2. ASSUME NEW r \in Reqs, NEW o, o.at # "allow", gate' = [gate EXCEPT ![r] = o],
             UNCHANGED <<gateTime, bucketList, bucketOf, sweeps, allowances>>
      PROVE  RateInv'
  <2>1. \A q \in Reqs : gate'[q].at = "allow" => gate'[q] = gate[q]
    BY <1>2 DEF GateTypes
  <2> QED
    BY <1>t, <1>2, <2>1, RateFrame
<1>3. ASSUME NEW r \in Reqs, NEW a \in Asks, EnterProxy(r, a)
      PROVE  RateInv'
  <2> DEFINE place == IF FrontPasses(a) THEN "host" ELSE "refused"
             o == [NoGate EXCEPT !.at = place, !.route = a.route, !.cred = a.cred, !.from = a.from]
  <2>1. gate' = [gate EXCEPT ![r] = o] /\ o.at = place /\ place # "allow"
    BY <1>3 DEF EnterProxy, NoGate
  <2>2. UNCHANGED <<gateTime, bucketList, bucketOf, sweeps, allowances>>
    BY <1>3 DEF EnterProxy, KeepLimiter
  <2> QED
    BY <1>2, <2>1, <2>2
<1>4. ASSUME NEW r \in Reqs, Answer(r)
      PROVE  RateInv'
  <2>1. gate' = [gate EXCEPT ![r] = NoGate] /\ NoGate.at # "allow"
    BY <1>4 DEF Answer, NoGate
  <2> QED
    BY <1>2, <1>4, <2>1 DEF Answer, KeepLimiter
<1>5. ASSUME NEW r \in Reqs, \/ HostMiddleware(r) /\ ~(gate[r].route = "page" /\ world.host = "deployment")
                             \/ Validate(r) \/ AuthMiddleware(r) \/ Authorise(r)
      PROVE  RateInv'
  <2>1. \E place \in GateStages : place # "allow" /\ Goes(r, place)
    BY <1>5 DEF HostMiddleware, Validate, AuthMiddleware, Authorise, GateStages
  <2>2. UNCHANGED <<gateTime, bucketList, bucketOf, sweeps, allowances>>
    BY <1>5 DEF HostMiddleware, Validate, AuthMiddleware, Authorise, KeepLimiter
  <2>3. PICK o \in Passing : gate' = [gate EXCEPT ![r] = o] /\ o.at # "allow"
    BY <2>1, GateGoesOn
  <2> QED
    BY <1>2, <2>2, <2>3
<1>6. ASSUME NEW r \in Reqs, \/ GetAuthPolicy(r)
                             \/ HostMiddleware(r) /\ gate[r].route = "page" /\ world.host = "deployment"
      PROVE  RateInv'
  <2>1. PICK place \in {"validate", "served"}, p \in {world.policy, "unread", "not a site"} :
            gate' = [gate EXCEPT ![r].at = place, ![r].policy = p]
    BY <1>6, Zenon DEF GetAuthPolicy, HostMiddleware
  <2> DEFINE o == [gate[r] EXCEPT !.at = place, !.policy = p]
  <2>2. gate' = [gate EXCEPT ![r] = o] /\ gate[r] \in Passing
    BY <2>1 DEF GateTypes
  <2>3. o.at = place
    BY <2>2 DEF Passing
  <2>4. UNCHANGED <<gateTime, bucketList, bucketOf, sweeps, allowances>>
    BY <1>6 DEF GetAuthPolicy, HostMiddleware, KeepLimiter
  <2> HIDE DEF o
  <2> QED
    BY <1>2, <2>1, <2>2, <2>3, <2>4
<1>7. ASSUME NEW r \in Reqs, HostMiddleware(r) PROVE RateInv'
  BY <1>5, <1>6, <1>7
<1>8. ASSUME NEW r \in Reqs, GetAuthPolicy(r) PROVE RateInv'
  BY <1>6, <1>8
<1>9. ASSUME NEW r \in Reqs, Validate(r) \/ AuthMiddleware(r) \/ Authorise(r) PROVE RateInv'
  BY <1>5, <1>9
<1> QED
  BY <1>1, <1>3, <1>4, <1>7, <1>8, <1>9, RateCleanup, RateSweep, RateBucket, RateAllow DEF GateNext

LEMMA GateStarts == GateInit => GateTypes /\ Access /\ RateInv
<1> SUFFICES ASSUME GateInit PROVE GateTypes /\ Access /\ RateInv
  OBVIOUS
<1>1. NoGate \in Passing /\ NoGate.at = "idle" /\ NoGate.bucket = 0
  BY DEF NoGate, Passing, GateStages, GateCreds
<1>2. \A r \in Reqs : gate[r] = NoGate
  BY DEF GateInit
<1>3. gate \in [Reqs -> Passing]
  BY <1>1 DEF GateInit
<1>4. bucketList \in Seq(TokenBucket) /\ Len(bucketList) = 0
  BY DEF GateInit
<1>5. <<>> \in Seq(Nat) /\ DOMAIN <<>> = {}
  OBVIOUS
<1>6. allowances \in [LimiterKeys -> Seq(Nat)] /\ \A k \in LimiterKeys : allowances[k] = <<>>
  BY <1>5 DEF GateInit
<1>7. GateTypes
  <2>1. world \in Worlds /\ gateTime \in Nat /\ saw \in [Reqs -> SUBSET Worlds]
    BY GateInputs DEF GateInit
  <2>2. bucketOf \in [LimiterKeys -> 0 .. Len(bucketList)]
    BY <1>4 DEF GateInit
  <2>4. sweeps \in [Kinds -> Nat] /\ policyKnown \in BOOLEAN
    BY DEF GateInit
  <2>3. \A r \in Reqs : gate[r].bucket <= Len(bucketList) /\ gate[r].at = "idle"
    BY <1>1, <1>2, <1>4
  <2> QED
    BY <1>3, <1>4, <1>6, <2>1, <2>2, <2>3, <2>4 DEF GateTypes
<1>8. Access
  BY <1>1, <1>2 DEF Access
<1>9. ASSUME NEW k \in LimiterKeys PROVE KeyHolds(k)
  <2>1. KeyLimit(k) \in Nat /\ Renewal(k) \in Nat
    BY KeyNumbers
  <2>2. \A a, b \in Nat : Within(<<>>, a, b) = 0
    BY <1>5, WithinNone
  <2>3. Bounded(<<>>, Renewal(k), KeyLimit(k))
    <3>1. ASSUME NEW n \in Nat, NEW t \in Nat
          PROVE  Within(<<>>, t, t + n * Renewal(k)) <= (n + 1) * KeyLimit(k)
      <4>1. t + n * Renewal(k) \in Nat /\ (n + 1) * KeyLimit(k) \in Nat
        BY <2>1, Times
      <4> QED
        BY <2>2, <4>1
    <3> QED
      BY <3>1 DEF Bounded
  <2>4. Spread(<<>>, 0, Renewal(k), KeyLimit(k))
    <3>1. \A n \in Nat : n * KeyLimit(k) \in Nat
      BY <2>1, Times
    <3> QED
      BY <2>2, <3>1 DEF Spread
  <2>5. bucketOf[k] = 0 /\ gateTime = 0
    BY DEF GateInit
  <2> QED
    BY <1>5, <1>6, <2>3, <2>4, <2>5 DEF KeyHolds
<1>10. RateInv
  <2>1. (\A k \in LimiterKeys : bucketOf[k] = 0) /\ \A kind \in Kinds : sweeps[kind] = 0
    BY DEF GateInit
  <2>2. \A r \in Reqs : gate[r].at # "allow"
    BY <1>1, <1>2
  <2> QED
    BY <1>9, <2>1, <2>2 DEF RateInv
<1> QED
  BY <1>7, <1>8, <1>10

LEMMA GateInvHolds == GateSpec => [](GateTypes /\ Access /\ RateInv)
<1>1. GateTypes /\ Access /\ RateInv /\ [GateNext]_gateVars => (GateTypes /\ Access /\ RateInv)'
  BY TypesStep, AccessStep, RateStep
<1> QED
  BY GateStarts, <1>1, PTL DEF GateSpec

\* The types of the request gate, for any requests, worlds and limits.
THEOREM GateTyped == GateSpec => []GateTypeOK
<1>1. GateTypes => GateTypeOK
  <2> SUFFICES ASSUME GateTypes PROVE GateTypeOK
    OBVIOUS
  <2>1. \A r \in Reqs : gate[r].bucket \in Nat /\ gate[r].bucket <= Len(bucketList)
    BY DEF GateTypes, Passing
  <2>2. Len(bucketList) \in Nat /\ \A i \in 1 .. Len(bucketList) : bucketList[i] \in TokenBucket
    BY DEF GateTypes
  <2>3. \A i \in 1 .. Len(bucketList) : bucketList[i].tokens \in Nat
    BY <2>2 DEF TokenBucket
  <2> QED
    BY <2>1, <2>2, <2>3 DEF GateTypes, GateTypeOK
<1> QED
  BY <1>1, GateInvHolds, PTL

\* Whoever reaches a handler or a site had, while the request was under way, a credential, a
\* policy and a site that allow it, however keys, policies and rows change between the checks;
\* all but the visitors of a page whose policy could not be read or whose host was known by its
\* deployment.  And no user, or address as it is claimed, is granted more than one limit more
\* than there are renewals of its bucket in any stretch of time, whatever the sweeper drops and
\* however its interval and the window compare (deploymentHostMiddleware, Auth.Middleware,
\* Policy.Wrap, requireSiteOwnership, bucket.allow, cleanup).
THEOREM GateHolds == GateSpec => []GateCorrect
<1>1. Access => ServedEntitled
  BY DEF Access, Cleared, ServedEntitled
<1>2. GateTypes /\ RateInv => RateBounded
  <2> SUFFICES ASSUME GateTypes, RateInv,
                      NEW k \in LimiterKeys, NEW t \in 0 .. gateTime, NEW n \in 0 .. gateTime + 1
               PROVE  Within(allowances[k], t, t + n * Renewal(k)) <= (n + 1) * KeyLimit(k)
    BY DEF RateBounded
  <2>1. t \in Nat /\ n \in Nat
    BY DEF GateTypes
  <2>2. Bounded(allowances[k], Renewal(k), KeyLimit(k))
    BY DEF RateInv, KeyHolds
  <2> QED
    BY <2>1, <2>2 DEF Bounded
<1>3. ServedEntitled /\ RateBounded => GateCorrect
  BY DEF GateCorrect
<1> QED
  BY <1>1, <1>2, <1>3, GateInvHolds, PTL

-----------------------------------------------------------------------------
(* One component moves.                                                    *)

\* The steps of every component, or none.
Moves ==
    /\ [HubNext]_hubVars /\ [KernelNext]_kernelVars /\ [SupNext]_supVars
    /\ [LogNext]_logVars /\ [CacheNext]_cacheVars /\ [PsNext]_psVars
    /\ [PolNext]_polVars /\ [DomNext]_domVars /\ [AccNext]_accVars
    /\ [AlertNext]_alertVars /\ [FeedNext]_feedVars /\ [FnNext]_fnVars
    /\ [EnvNext]_envVars /\ [SecNext]_secVars /\ [OutNext]_outVars
    /\ [DiskNext]_diskVars /\ [GateNext]_gateVars /\ [UpkeepNext]_upkeepVars
    /\ [PlanNext]_planVars

\* The initial states of every component.
Starts ==
    /\ HubInit /\ KernelInit /\ SupInit /\ LogInit /\ CacheInit /\ PsInit
    /\ PolInit /\ DomInit /\ AccInit /\ AlertInit /\ FeedInit /\ FnInit
    /\ EnvInit /\ SecInit /\ OutInit /\ DiskInit /\ GateInit /\ UpkeepInit /\ PlanInit

LEMMA PlatformStarts == Init => Starts
  BY DEF Init, Starts

LEMMA PlatformMoves == [Next]_platformVars => Moves
<1> SUFFICES ASSUME [Next]_platformVars PROVE Moves
  OBVIOUS
<1>1. CASE UNCHANGED platformVars
  BY <1>1 DEF platformVars, Moves
<1>2. CASE Next
  <2>0. OthersRest
    BY <1>2 DEF Next
  <2>1. [HubNext]_hubVars
    BY <1>2, <2>0 DEF Next, OthersRest, Rest
  <2>2. [KernelNext]_kernelVars
    BY <1>2, <2>0 DEF Next, OthersRest, Rest
  <2>3. [SupNext]_supVars
    BY <1>2, <2>0 DEF Next, OthersRest, Rest
  <2>4. [LogNext]_logVars
    BY <1>2, <2>0 DEF Next, OthersRest, Rest
  <2>5. [CacheNext]_cacheVars
    BY <1>2, <2>0 DEF Next, OthersRest, Rest
  <2>6. [PsNext]_psVars
    BY <1>2, <2>0 DEF Next, OthersRest, Rest
  <2>7. [PolNext]_polVars
    BY <1>2, <2>0 DEF Next, OthersRest, Rest
  <2>8. [DomNext]_domVars
    BY <1>2, <2>0 DEF Next, OthersRest, Rest
  <2>9. [AccNext]_accVars
    BY <1>2, <2>0 DEF Next, OthersRest, Rest
  <2>10. [AlertNext]_alertVars
    BY <1>2, <2>0 DEF Next, OthersRest, Rest
  <2>11. [FeedNext]_feedVars
    BY <1>2, <2>0 DEF Next, OthersRest, Rest
  <2>12. [FnNext]_fnVars
    BY <1>2, <2>0 DEF Next, OthersRest, Rest
  <2>13. [EnvNext]_envVars
    BY <1>2, <2>0 DEF Next, OthersRest, Rest
  <2>14. [SecNext]_secVars
    BY <1>2, <2>0 DEF Next, OthersRest, Rest
  <2>15. [OutNext]_outVars
    BY <1>2, <2>0 DEF Next, OthersRest, Rest
  <2>16. [DiskNext]_diskVars
    BY <1>2, <2>0 DEF Next, OthersRest, Rest
  <2>17. [GateNext]_gateVars
    BY <1>2, <2>0 DEF Next, OthersRest, Rest
  <2>18. [UpkeepNext]_upkeepVars
    BY <1>2, <2>0 DEF Next, OthersRest, Rest
  <2>19. [PlanNext]_planVars
    BY <1>2, <2>0 DEF Next, OthersRest, Rest
  <2> QED
    BY <2>1, <2>2, <2>3, <2>4, <2>5, <2>6, <2>7, <2>8, <2>9, <2>10, <2>11, <2>12, <2>13, <2>14,
       <2>15, <2>16, <2>17, <2>18, <2>19 DEF Moves
<1> QED
  BY <1>1, <1>2

-----------------------------------------------------------------------------
(* Every component is as its own specification says.                       *)

\* A behaviour of the platform is a behaviour of each of its components, which move or rest.
THEOREM PlatformIsItsParts ==
    Spec => /\ HubSpec /\ KernelSpec /\ SupSpec /\ LogSpec /\ CacheSpec /\ PsSpec
            /\ PolSpec /\ DomSpec /\ AccSpec /\ AlertSpec /\ FeedSpec /\ FnSpec
            /\ EnvSpec /\ SecSpec /\ OutSpec /\ DiskSpec /\ GateSpec /\ UpkeepSpec
            /\ PlanSpec
<1>1. Init => /\ HubInit /\ KernelInit /\ SupInit /\ LogInit /\ CacheInit /\ PsInit
              /\ PolInit /\ DomInit /\ AccInit /\ AlertInit /\ FeedInit /\ FnInit
              /\ EnvInit /\ SecInit /\ OutInit /\ DiskInit /\ GateInit /\ UpkeepInit /\ PlanInit
  BY PlatformStarts DEF Starts
<1>2. [Next]_platformVars => /\ [HubNext]_hubVars /\ [KernelNext]_kernelVars
                             /\ [SupNext]_supVars /\ [LogNext]_logVars
                             /\ [CacheNext]_cacheVars /\ [PsNext]_psVars
                             /\ [PolNext]_polVars /\ [DomNext]_domVars
                             /\ [AccNext]_accVars /\ [AlertNext]_alertVars
                             /\ [FeedNext]_feedVars /\ [FnNext]_fnVars
                             /\ [EnvNext]_envVars /\ [SecNext]_secVars
                             /\ [OutNext]_outVars /\ [DiskNext]_diskVars
                             /\ [GateNext]_gateVars /\ [UpkeepNext]_upkeepVars
                             /\ [PlanNext]_planVars
  BY PlatformMoves DEF Moves
<1> QED
  BY <1>1, <1>2, PTL
     DEF Spec, HubSpec, KernelSpec, SupSpec, LogSpec, CacheSpec, PsSpec, PolSpec, DomSpec, AccSpec,
         AlertSpec, FeedSpec, FnSpec, EnvSpec, SecSpec, OutSpec, DiskSpec, GateSpec, UpkeepSpec,
         PlanSpec

\* The component that moves is always the same.
LEMMA SamePart == Spec => [](part \in Parts)
<1>1. Init => part \in Parts
  BY DEF Init
<1>2. part \in Parts /\ [Next]_platformVars => (part \in Parts)'
  BY DEF Next, OthersRest, platformVars
<1> QED
  BY <1>1, <1>2, PTL DEF Spec

\* The variables of the component that moves have their types, whichever it is.
THEOREM PlatformTypes == Spec => []PlatformTypeOK
<1>1. /\ part \in Parts /\ HubTypeOK /\ KernelTypeOK /\ SupTypeOK /\ LogTypeOK /\ CacheTypeOK
      /\ PsTypeOK /\ PolTypeOK /\ DomTypeOK /\ AccTypeOK /\ AlertTypeOK /\ FeedTypeOK
      /\ FnTypeOK /\ EnvTypeOK /\ SecTypeOK /\ OutTypeOK /\ DiskTypeOK
      /\ GateTypeOK /\ UpkeepTypeOK /\ PlanTypeOK
      => PlatformTypeOK
  BY DEF PlatformTypeOK
<1> QED
  BY <1>1, SamePart, PlatformIsItsParts, HubPanics, KernelOrders, SupervisionHolds, LogsHold,
     CacheFits, SiteNamesHeld, SettingsHeld, DomainsRouted, AccTokens, AlarmsRaisedOnce,
     CollectionsHold, FnSchedule, EnvironmentsResolved, SecretsKept, OutHonest, DiskRowsWhole,
     GateTyped, GateHolds, UpkeepIsSound, PlansHold, PTL

\* Each component keeps its promise, whichever of them moves: what the run of the platform checks.
THEOREM PlatformHolds ==
    Spec => /\ []OnlyLateSubscribersPanic /\ []KernelCorrect /\ []SupervisorCorrect
            /\ []LogsCorrect /\ []BuildsCorrect /\ []NamesUnique
            /\ []SettingsTakeEffect /\ []DomainsCorrect /\ []TokensSpentOnce
            /\ []AlarmPerIncident /\ []CollectionsConsistent /\ []ScheduleFollowsTable
            /\ []EnvCorrect /\ []SecretsCorrect /\ []DeliveryHonest
            /\ []RowsHaveFiles /\ []GateCorrect /\ []UpkeepSound
<1>1. CacheBounded /\ PlanKept => BuildsCorrect
  BY DEF BuildsCorrect
<1> QED
  BY <1>1, PlatformIsItsParts, HubPanics, KernelOrders, SupervisionHolds, LogsHold, CacheFits,
     SiteNamesHeld, SettingsHeld, DomainsRouted, AccTokens, AlarmsRaisedOnce, CollectionsHold,
     FnSchedule, EnvironmentsResolved, SecretsKept, OutHonest, DiskRowsWhole,
     GateTyped, GateHolds, UpkeepIsSound, PlansHold, PTL

=============================================================================
