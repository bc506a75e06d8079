----------------------------- MODULE SiteDomains -----------------------------
(***************************************************************************)
(* Custom domains: their rows (components/sites/domains.go), the routes of *)
(* the proxy (components/proxy/hosts.go) and the deployments that register *)
(* them (components/deploy/domain_routing.go).  A handler reads the row,   *)
(* may wait for DNS, writes the row and then changes the routes, while     *)
(* other requests do the same; a listing counts the attempts to provision  *)
(* the certificate.                                                        *)
(***************************************************************************)
EXTENDS Naturals, FiniteSets

CONSTANTS
    Owners,         \* sites
    Domains,        \* domains
    Handlers,       \* requests that run at the same time
    CertMaxAttempts,
    CertStaleAfter, \* in units of the retry window, certRetryAfter
    MaxTime,        \* bound: the clock, in retry windows
    MaxRequests     \* bound: requests

ASSUME DomainBounds ==
    /\ "none" \notin Owners
    /\ CertMaxAttempts \in Nat \ {0} /\ CertStaleAfter \in Nat \ {0}
    /\ MaxTime \in Nat /\ MaxRequests \in Nat

VARIABLES
    ownerRows,      \* sites with a row
    domainRow,      \* site_domains
    running,        \* sites with a running deployment
    routes,         \* p.deployHosts for custom domains: the site; NoOwner none
    certs,          \* domains with a certificate in the cache (CertInfo)
    handler,        \* each request: where it is, its site and domain
    now,            \* the clock
    requests,       \* bound: requests so far
    reset,          \* auxiliary: when the attempts of a row last began to count
    overtaken,      \* auxiliary: rows deleted while a handler was about to register the
                    \* domain, or by a DELETE that took effect and reported an error
    unwritten       \* auxiliary: rows whose domain was verified and whose UPDATE failed

domVars == <<ownerRows, domainRow, running, routes, certs, handler, now, requests, reset, overtaken, unwritten>>

Keyed == Owners \X Domains
NoOwner == "none"
NoTime == MaxTime + 2

NoRowYet == [present |-> FALSE, verified |-> FALSE, attempts |-> 0, started |-> NoTime, retryAfter |-> 0]
Free == [at |-> "free", key |-> <<>>]

DomInit ==
    /\ ownerRows = Owners
    /\ domainRow = [k \in Keyed |-> NoRowYet]
    /\ running = {}
    /\ routes = [d \in Domains |-> NoOwner]
    /\ certs = {}
    /\ handler = [h \in Handlers |-> Free]
    /\ now = 0
    /\ requests = 0
    /\ reset = [k \in Keyed |-> 0]
    /\ overtaken = {} /\ unwritten = {}

Arrive(h, pc, k) ==
    /\ handler[h] = Free /\ requests < MaxRequests
    /\ requests' = requests + 1
    /\ handler' = [handler EXCEPT ![h] = [at |-> pc, key |-> k]]

Done(h) ==
    /\ handler' = [handler EXCEPT ![h] = Free]
    /\ UNCHANGED requests

Step(h, pc) ==
    /\ handler' = [handler EXCEPT ![h].at = pc]
    /\ UNCHANGED requests

\* A handler that will register the domain of a row it has read.
Activating(k) == \E h \in Handlers : handler[h].key = k /\ handler[h].at \in {"verify", "retry", "activate", "register"}

\* RegisterDeploymentHost of a custom domain replaces the route.
Route(k) == routes' = [routes EXCEPT ![k[2]] = k[1]]

----------------------------------------------------------------------------
(***************************************************************************)
(* registerDomain, deleteDomain, and the site's own deletion.              *)
(***************************************************************************)

\* UNIQUE (site_id, domain): another site may register the same domain.
RegisterDomain(h, k) ==
    /\ k[1] \in ownerRows /\ ~domainRow[k].present
    /\ handler[h] = Free /\ requests < MaxRequests
    /\ requests' = requests + 1
    /\ domainRow' = [domainRow EXCEPT ![k] = [NoRowYet EXCEPT !.present = TRUE]]
    /\ reset' = [reset EXCEPT ![k] = now]
    /\ UNCHANGED <<ownerRows, running, routes, certs, handler, now, overtaken, unwritten>>

\* A DELETE that took effect and reported an error (the client went away, or the
\* five seconds were over) ends the request with the route in place.
DeleteDomain(h, k) ==
    /\ domainRow[k].present
    /\ domainRow' = [domainRow EXCEPT ![k] = NoRowYet]
    /\ \/ /\ Arrive(h, "unregister", k)
          /\ overtaken' = IF Activating(k) THEN overtaken \cup {k} ELSE overtaken
       \/ /\ handler[h] = Free /\ requests < MaxRequests
          /\ requests' = requests + 1
          /\ overtaken' = overtaken \cup {k}
          /\ UNCHANGED handler
    /\ UNCHANGED <<ownerRows, running, routes, certs, now, reset, unwritten>>

\* A plausible slip: the route of the deleted domain is left in place.
KeepHost(h) ==
    /\ handler[h].at = "unregister"
    /\ Done(h)
    /\ UNCHANGED <<ownerRows, domainRow, running, routes, certs, now, reset, overtaken, unwritten>>

\* unregisterHost(domain), whichever site the route belongs to.  What left a route
\* behind is undone, unless a handler is still about to register it.
UnregisterHost(h) ==
    /\ handler[h].at = "unregister"
    /\ LET d == handler[h].key[2]
       IN  /\ routes' = [routes EXCEPT ![d] = NoOwner]
           /\ overtaken' = {k \in overtaken : k[2] = d => Activating(k)}
           /\ unwritten' = {k \in unwritten : k[2] = d => Activating(k)}
    /\ Done(h)
    /\ UNCHANGED <<ownerRows, domainRow, running, certs, now, reset>>

\* deleteSiteRecords deletes the rows of the site's domains and the site's own;
\* nothing removes the routes of the domains.
DeleteOwner(s) ==
    /\ s \in ownerRows /\ requests < MaxRequests
    /\ ownerRows' = ownerRows \ {s}
    /\ domainRow' = [k \in Keyed |-> IF k[1] = s THEN NoRowYet ELSE domainRow[k]]
    /\ running' = running \ {s}
    /\ requests' = requests + 1
    /\ UNCHANGED <<routes, certs, handler, now, reset, overtaken, unwritten>>

----------------------------------------------------------------------------
(***************************************************************************)
(* verifyDomain and retryDomainCert.                                       *)
(***************************************************************************)

\* The limiter admits the request and the row is there; verifyDomain waits for DNS.
Verify(h, k) ==
    /\ domainRow[k].present
    /\ Arrive(h, "verify", k)
    /\ UNCHANGED <<ownerRows, domainRow, running, routes, certs, now, reset, overtaken, unwritten>>

\* The TXT record is there: an UPDATE that may find no row any more, or fail.  Its
\* error is dropped, and the activation follows all the same.
Verified(h) ==
    /\ handler[h].at = "verify"
    /\ LET k == handler[h].key
       IN  \/ /\ domainRow' = IF domainRow[k].present
                               THEN [domainRow EXCEPT ![k].verified = TRUE,
                                         ![k].started = IF @ = NoTime THEN now ELSE @]
                               ELSE domainRow
              /\ unwritten' = IF domainRow[k].present THEN unwritten \ {k} ELSE unwritten
           \/ /\ ~domainRow[k].verified
              /\ unwritten' = unwritten \cup {k}
              /\ UNCHANGED domainRow
    /\ Step(h, "activate")
    /\ UNCHANGED <<ownerRows, running, routes, certs, now, reset, overtaken>>

NotVerified(h) ==
    /\ handler[h].at = "verify"
    /\ Done(h)
    /\ UNCHANGED <<ownerRows, domainRow, running, routes, certs, now, reset, overtaken, unwritten>>

RetryDomainCert(h, k) ==
    /\ domainRow[k].present /\ domainRow[k].verified
    /\ Arrive(h, "retry", k)
    /\ UNCHANGED <<ownerRows, domainRow, running, routes, certs, now, reset, overtaken, unwritten>>

\* The UPDATE; when it reports an error the request ends, whether it took effect or not.
ResetAttempts(h) ==
    /\ handler[h].at = "retry"
    /\ LET k == handler[h].key
       IN  /\ domainRow' = IF domainRow[k].present
                           THEN [domainRow EXCEPT ![k].attempts = 0, ![k].started = now, ![k].retryAfter = now + 1]
                           ELSE domainRow
           /\ reset' = [reset EXCEPT ![k] = now]
    /\ Step(h, "activate") \/ Done(h)
    /\ UNCHANGED <<ownerRows, running, routes, certs, now, overtaken, unwritten>>

UpdateFails(h) ==
    /\ handler[h].at \in {"retry", "record"}
    /\ Done(h)
    /\ UNCHANGED <<ownerRows, domainRow, running, routes, certs, now, reset, overtaken, unwritten>>

\* ActivateCustomDomain: the port of the running deployment, if there is one and it
\* can be read, and then the route.
ActivateRead(h) ==
    /\ handler[h].at = "activate"
    /\ \/ handler[h].key[1] \in running /\ Step(h, "register")
       \/ Done(h)
    /\ UNCHANGED <<ownerRows, domainRow, running, routes, certs, now, reset, overtaken, unwritten>>

ActivateRegister(h) ==
    /\ handler[h].at = "register"
    /\ Route(handler[h].key)
    /\ Done(h)
    /\ UNCHANGED <<ownerRows, domainRow, running, certs, now, reset, overtaken, unwritten>>

----------------------------------------------------------------------------
(***************************************************************************)
(* Deployments and certificates.                                           *)
(***************************************************************************)

\* RegisterCustomDomainHosts of a new deployment lists the verified domains and
\* registers them one by one with the list still open: on the only connection of
\* SQLite no other statement runs in between, so a DELETE comes before or after.
\* The list may break off.
DeployRegisters(s) ==
    /\ s \in ownerRows /\ requests < MaxRequests
    /\ requests' = requests + 1
    /\ running' = running \cup {s}
    /\ \E listed \in SUBSET Domains :
           routes' = [d \in Domains |-> IF d \in listed /\ domainRow[<<s, d>>].verified THEN s ELSE routes[d]]
    /\ UNCHANGED <<ownerRows, domainRow, certs, handler, now, reset, overtaken, unwritten>>

\* autocert obtains the certificate of a routed domain (acmeHostPolicy).
Issue(d) ==
    /\ routes[d] # NoOwner /\ d \notin certs
    /\ certs' = certs \cup {d}
    /\ UNCHANGED <<ownerRows, domainRow, running, routes, handler, now, requests, reset, overtaken, unwritten>>

\* listDomains reads the rows; a domain without certificate whose budget is not
\* exhausted and whose window is over goes on to count an attempt.
Exhausted(row) ==
    \/ row.attempts >= CertMaxAttempts
    \/ row.started # NoTime /\ now >= row.started + CertStaleAfter

ListDomain(h, k) ==
    /\ domainRow[k].present /\ domainRow[k].verified /\ k[2] \notin certs
    /\ ~Exhausted(domainRow[k]) /\ domainRow[k].retryAfter <= now
    /\ Arrive(h, "record", k)
    /\ UNCHANGED <<ownerRows, domainRow, running, routes, certs, now, reset, overtaken, unwritten>>

\* recordCertAttempt: the WHERE looks at the window again.
RecordCertAttempt(h) ==
    /\ handler[h].at = "record"
    /\ LET k == handler[h].key
       IN  domainRow' = IF domainRow[k].present /\ domainRow[k].retryAfter <= now
                        THEN [domainRow EXCEPT ![k].attempts = @ + 1, ![k].retryAfter = now + 1,
                                  ![k].started = IF @ = NoTime THEN now ELSE @]
                        ELSE domainRow
    /\ Done(h)
    /\ UNCHANGED <<ownerRows, running, routes, certs, now, reset, overtaken, unwritten>>

WindowPasses ==
    /\ now < MaxTime
    /\ now' = now + 1
    /\ UNCHANGED <<ownerRows, domainRow, running, routes, certs, handler, requests, reset, overtaken, unwritten>>

DomNext ==
    \/ \E h \in Handlers :
        \/ \E k \in Keyed : \/ RegisterDomain(h, k) \/ DeleteDomain(h, k) \/ Verify(h, k)
                            \/ RetryDomainCert(h, k) \/ ListDomain(h, k)
        \/ UnregisterHost(h) \/ Verified(h) \/ NotVerified(h) \/ ResetAttempts(h) \/ UpdateFails(h)
        \/ ActivateRead(h) \/ ActivateRegister(h) \/ RecordCertAttempt(h)
    \/ \E s \in Owners : DeployRegisters(s) \/ DeleteOwner(s)
    \/ \E d \in Domains : Issue(d)
    \/ WindowPasses

DomSpec == DomInit /\ [][DomNext]_domVars

----------------------------------------------------------------------------

\* The types of the variables.
DomTypeOK ==
    /\ ownerRows \subseteq Owners /\ running \subseteq Owners /\ certs \subseteq Domains
    /\ domainRow \in [Keyed -> [present : BOOLEAN, verified : BOOLEAN, attempts : Nat,
                                started : Nat, retryAfter : Nat]]
    /\ routes \in [Domains -> Owners \cup {NoOwner}]
    /\ \A h \in Handlers : handler[h].at \in {"free", "unregister", "verify", "retry", "activate",
                                              "register", "record"}
    /\ now \in 0..MaxTime /\ requests \in 0..MaxRequests
    /\ overtaken \subseteq Keyed /\ unwritten \subseteq Keyed

\* A custom domain is routed to a site only while the site has it verified, or its
\* deletion is about to remove the route: DELETE removes the row first and the
\* route second, verification and retry set the row first and route second.  The
\* exceptions are exact: a deletion that overtakes one of those, or whose DELETE
\* reports an error, leaves the route behind, and a verification whose UPDATE
\* failed sets it, until a later request mends it (domains.go:425-450, 474-487,
\* 540-546).  A deleted site's domains are not covered: their routes stay.
RoutedOnlyVerified ==
    \A k \in Keyed :
        routes[k[2]] = k[1] /\ k[1] \in ownerRows =>
            \/ domainRow[k].verified
            \/ \E h \in Handlers : handler[h].at = "unregister" /\ handler[h].key[2] = k[2]
            \/ k \in overtaken \cup unwritten

\* Listings that run at the same time count one attempt per retry window, so that
\* a domain is not reported failed before its CertMaxAttempts windows have passed
\* (domains.go:302-327).
OneAttemptPerWindow ==
    \A k \in Keyed : domainRow[k].attempts <= now - reset[k] + 1

\* What the owner of a domain relies on: nobody else's traffic or nobody's at all, and a
\* fair number of attempts (verifyDomain, deleteDomain, recordCertAttempt).
DomainsCorrect == RoutedOnlyVerified /\ OneAttemptPerWindow

==============================================================================
