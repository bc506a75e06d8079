---------------------------- MODULE AuthAccounts ----------------------------
(***************************************************************************)
(* Accounts and the tokens that act on them (components/auth): magic       *)
(* links, kept in memory under a mutex; password reset tokens, invitations *)
(* and email verification tokens, kept in tables that are read, checked    *)
(* and written in separate statements; registration with its personal      *)
(* organization; API keys.  Requests overlap at every statement.           *)
(***************************************************************************)
EXTENDS Naturals, FiniteSets

CONSTANTS
    Emails,         \* accounts, by their UNIQUE email
    Tokens,         \* tokens that are sent out, of any kind
    KindOf,         \* "link", "reset" or "invite"
    ApiKeys,        \* organization keys and site deploy keys
    Calls,          \* requests that run at the same time
    MaxCalls        \* bound: requests

ASSUME AccountsType == KindOf \in [Tokens -> {"link", "reset", "invite"}] /\ MaxCalls \in Nat

VARIABLES
    users,          \* users: the rows
    orgs,           \* orgs: each account's personal organization; a "named" one has the email
                    \* as its UNIQUE slug, a "renamed" one another
    token,          \* mlStore, password_reset_tokens, org_invites
    apiKey,         \* org_api_keys
    members,        \* org_members: accounts that accepted an invitation
    call,           \* where each request is
    calls,          \* bound: requests so far
    uses,           \* auxiliary: how often each token took effect
    overlapped      \* auxiliary: tokens two requests held at the same time, or whose
                    \* use could not be recorded

accVars == <<users, orgs, token, apiKey, members, call, calls, uses, overlapped>>

NoUser == [present |-> FALSE, role |-> "user", org |-> FALSE, verified |-> FALSE, pending |-> FALSE]
NoCall == [at |-> "idle", email |-> "", token |-> "", role |-> "user"]

\* An empty database, or one whose accounts have been there for long.
OldUser == [NoUser EXCEPT !.present = TRUE, !.role = "admin", !.org = TRUE, !.verified = TRUE]

AccInit ==
    /\ \/ users = [e \in Emails |-> NoUser] /\ orgs = [e \in Emails |-> "none"]
       \/ users = [e \in Emails |-> OldUser] /\ orgs = [e \in Emails |-> "named"]
    /\ token = [t \in Tokens |-> "unsent"]
    /\ apiKey = [k \in ApiKeys |-> "none"]
    /\ members = {}
    /\ call = [c \in Calls |-> NoCall]
    /\ calls = 0
    /\ uses = [t \in Tokens |-> 0]
    /\ overlapped = {}

Present == {e \in Emails : users[e].present}

\* lookupOwnedOrg: the caller is the owner of an organization that exists.
Owned(e) == users[e].org /\ orgs[e] # "none"

BeginCall(c, state) ==
    /\ call[c] = NoCall /\ calls < MaxCalls
    /\ calls' = calls + 1
    /\ call' = [call EXCEPT ![c] = state]

ToStep(c, state) ==
    /\ call' = [call EXCEPT ![c] = state]
    /\ UNCHANGED calls

EndCall(c) == ToStep(c, NoCall)

\* A statement on the token failed, or the client is gone.
GiveUp(c) ==
    /\ call[c].at \in {"insert", "org", "default", "verify", "reset", "member"}
    /\ EndCall(c)
    /\ UNCHANGED <<users, orgs, token, apiKey, members, uses, overlapped>>

----------------------------------------------------------------------------
(***************************************************************************)
(* Registration, and the accounts a sign-in creates.                       *)
(***************************************************************************)

\* handleRegister: insertUser counts the rows before it inserts.
Register(c, e) ==
    /\ BeginCall(c, [NoCall EXCEPT !.at = "insert", !.email = e,
                         !.role = IF Present = {} THEN "admin" ELSE "user"])
    /\ UNCHANGED <<users, orgs, token, apiKey, members, uses, overlapped>>

\* findOrCreateEmailUser and its siblings: an account that is there signs in, another
\* one is inserted with an organization of its own and no verification.
FindOrCreateUser(c, e, t) ==
    /\ call[c] = NoCall /\ calls < MaxCalls
    /\ calls' = calls + 1
    /\ \/ e \in Present /\ UNCHANGED call
       \/ e \notin Present /\ call' = [call EXCEPT ![c] = [NoCall EXCEPT !.at = "insert", !.email = e, !.token = t]]

FindOrCreateGoogleUser(c, e) ==
    /\ FindOrCreateUser(c, e, "google")
    /\ UNCHANGED <<users, orgs, token, apiKey, members, uses, overlapped>>

\* The INSERT; a taken email ends the request.
InsertUser(c) ==
    /\ call[c].at = "insert"
    /\ LET e == call[c].email
       IN  \/ /\ e \notin Present
              /\ users' = [users EXCEPT ![e] = [NoUser EXCEPT !.present = TRUE, !.role = call[c].role]]
              /\ ToStep(c, [call[c] EXCEPT !.at = "org"])
           \/ /\ e \in Present
              /\ EndCall(c)
              /\ UNCHANGED users
    /\ UNCHANGED <<orgs, token, apiKey, members, uses, overlapped>>

\* A registration goes on to its verification token; a sign-in is through.
AfterOrg(c) == IF call[c].token = "" THEN ToStep(c, [call[c] EXCEPT !.at = "verify"]) ELSE EndCall(c)

\* CreateOrg: the slug of a deleted account's organization is still taken, and the
\* account is left without one.
CreateOrg(c) ==
    /\ call[c].at = "org"
    /\ LET e == call[c].email
       IN  \/ /\ orgs[e] # "named" /\ orgs' = [orgs EXCEPT ![e] = "named"]
              /\ ToStep(c, [call[c] EXCEPT !.at = "default"])
           \/ orgs[e] = "named" /\ UNCHANGED orgs /\ AfterOrg(c)
    /\ UNCHANGED <<users, token, apiKey, members, uses, overlapped>>

\* UPDATE users SET default_org_id, in a statement of its own.
SetDefaultOrg(c) ==
    /\ call[c].at = "default"
    /\ users' = [users EXCEPT ![call[c].email].org = users[call[c].email].present]
    /\ AfterOrg(c)
    /\ UNCHANGED <<orgs, token, apiKey, members, uses, overlapped>>

StoreVerifyToken(c) ==
    /\ call[c].at = "verify"
    /\ users' = [users EXCEPT ![call[c].email].pending = users[call[c].email].present]
    /\ EndCall(c)
    /\ UNCHANGED <<orgs, token, apiKey, members, uses, overlapped>>

\* handleUpdateOrg writes name and slug together: a new slug frees the email's.
HandleUpdateOrg(e) ==
    /\ Owned(e) /\ orgs[e] = "named"
    /\ orgs' = [orgs EXCEPT ![e] = "renamed"]
    /\ UNCHANGED <<users, token, apiKey, members, call, calls, uses, overlapped>>

\* handleDeleteOrg deletes the row; accounts and invitations still name it.
HandleDeleteOrg(e) ==
    /\ Owned(e)
    /\ orgs' = [orgs EXCEPT ![e] = "none"]
    /\ UNCHANGED <<users, token, apiKey, members, call, calls, uses, overlapped>>

VerifyEmail(e) ==
    /\ users[e].present /\ users[e].pending
    /\ users' = [users EXCEPT ![e].verified = TRUE, ![e].pending = FALSE]
    /\ UNCHANGED <<orgs, token, apiKey, members, call, calls, uses, overlapped>>

\* handleUserByID deletes the row and nothing else.
DeleteUser(e) ==
    /\ users[e].present /\ calls < MaxCalls
    /\ calls' = calls + 1
    /\ users' = [users EXCEPT ![e] = NoUser]
    /\ UNCHANGED <<orgs, token, apiKey, members, call, uses, overlapped>>

----------------------------------------------------------------------------
(***************************************************************************)
(* Tokens that are sent out.                                               *)
(***************************************************************************)

SendToken(t, kind) ==
    /\ token[t] = "unsent" /\ KindOf[t] = kind
    /\ token' = [token EXCEPT ![t] = "live"]
    /\ UNCHANGED <<users, orgs, apiKey, members, call, calls, uses, overlapped>>

HandleSendMagicLink(t) == SendToken(t, "link")

\* Only an account that exists is sent a token; the answer is the same for all.
HandleForgotPassword(t) == Present # {} /\ SendToken(t, "reset")

HandleCreateInvite(t) == (\E e \in Emails : Owned(e)) /\ SendToken(t, "invite")

\* Links and reset tokens expire; nothing looks at the expiry of an invitation.
Expire(t) ==
    /\ token[t] = "live" /\ KindOf[t] # "invite"
    /\ token' = [token EXCEPT ![t] = "expired"]
    /\ UNCHANGED <<users, orgs, apiKey, members, call, calls, uses, overlapped>>

HeldBy(t) == {c \in Calls : call[c].token = t}

Spend(t) == uses' = [uses EXCEPT ![t] = @ + 1]

\* A plausible slip: the link is marked only after the account was found.
VerifyMagicLinkLate(c, t, e) ==
    /\ KindOf[t] = "link" /\ token[t] = "live"
    /\ token' = IF e \in Present THEN [token EXCEPT ![t] = "used"] ELSE token
    /\ Spend(t)
    /\ FindOrCreateUser(c, e, t)
    /\ UNCHANGED <<users, orgs, apiKey, members, overlapped>>

\* handleVerifyMagicLink: the check and the mark are one critical section; then the
\* account is looked for.
VerifyMagicLink(c, t, e) ==
    /\ KindOf[t] = "link" /\ token[t] = "live"
    /\ token' = [token EXCEPT ![t] = "used"]
    /\ Spend(t)
    /\ FindOrCreateUser(c, e, t)
    /\ UNCHANGED <<users, orgs, apiKey, members, overlapped>>

\* handleResetPassword and handleAcceptInvite read the row and check it.
ReadToken(c, t, e) ==
    /\ KindOf[t] \in {"reset", "invite"} /\ token[t] = "live"
    /\ e \in Present
    /\ BeginCall(c, [NoCall EXCEPT !.at = KindOf[t], !.email = e, !.token = t])
    /\ overlapped' = IF HeldBy(t) # {} THEN overlapped \cup {t} ELSE overlapped
    /\ UNCHANGED <<users, orgs, token, apiKey, members, uses>>

\* A reset updates the password, then marks the token, and a failing mark is
\* logged only.
UpdatePassword(c) ==
    /\ call[c].at = "reset"
    /\ Spend(call[c].token)
    /\ ToStep(c, [call[c] EXCEPT !.at = "mark"])
    /\ UNCHANGED <<users, orgs, token, apiKey, members, overlapped>>

MarkReset(c) ==
    /\ call[c].at = "mark"
    /\ \/ /\ token' = [token EXCEPT ![call[c].token] = "used"]
          /\ UNCHANGED overlapped
       \/ /\ overlapped' = overlapped \cup {call[c].token}
          /\ UNCHANGED token
    /\ EndCall(c)
    /\ UNCHANGED <<users, orgs, apiKey, members, uses>>

\* An invitation is marked whether or not it still is pending, then the member is
\* inserted unless present; when that fails the invitation is spent for nothing.
AcceptInvite(c) ==
    /\ call[c].at = "invite"
    /\ token' = [token EXCEPT ![call[c].token] = "used"]
    /\ ToStep(c, [call[c] EXCEPT !.at = "member"])
    /\ UNCHANGED <<users, orgs, apiKey, members, uses, overlapped>>

InsertMember(c) ==
    /\ call[c].at = "member"
    /\ members' = members \cup {call[c].email}
    /\ IF call[c].email \in members THEN UNCHANGED uses ELSE Spend(call[c].token)
    /\ EndCall(c)
    /\ UNCHANGED <<users, orgs, token, apiKey, overlapped>>

----------------------------------------------------------------------------

KeyBecomes(k, was, is) ==
    /\ apiKey[k] = was /\ apiKey' = [apiKey EXCEPT ![k] = is]
    /\ \E e \in Emails : Owned(e)
    /\ UNCHANGED <<users, orgs, token, members, call, calls, uses, overlapped>>

\* An organization's key is deleted with its row, a site's key is marked revoked.
HandleCreateAPIKey(k) == KeyBecomes(k, "none", "org")
HandleCreateSiteKey(k) == KeyBecomes(k, "none", "site")
HandleDeleteAPIKey(k) == KeyBecomes(k, "org", "deleted")
HandleRevokeSiteKey(k) == KeyBecomes(k, "site", "revoked")

\* The process starts again: requests and magic links are gone, and
\* BackfillDefaultOrgs tries once more to give an organization to those without.
RestartAuth ==
    LET legacy == {e \in Present : ~users[e].org /\ orgs[e] # "named"}
    IN  /\ call' = [c \in Calls |-> NoCall]
        /\ token' = [t \in Tokens |-> IF KindOf[t] = "link" /\ token[t] = "live" THEN "expired" ELSE token[t]]
        /\ overlapped' = overlapped \cup {call[c].token : c \in {d \in Calls : call[d].at = "mark"}}
        /\ users' = [e \in Emails |-> IF e \in legacy THEN [users[e] EXCEPT !.org = TRUE] ELSE users[e]]
        /\ orgs' = [e \in Emails |-> IF e \in legacy THEN "named" ELSE orgs[e]]
        /\ UNCHANGED <<apiKey, members, calls, uses>>

AccNext ==
    \/ \E c \in Calls :
        \/ InsertUser(c) \/ CreateOrg(c) \/ SetDefaultOrg(c) \/ StoreVerifyToken(c) \/ UpdatePassword(c) \/ MarkReset(c)
        \/ AcceptInvite(c) \/ InsertMember(c) \/ GiveUp(c)
        \/ \E e \in Emails : \/ Register(c, e) \/ FindOrCreateGoogleUser(c, e)
                           \/ \E t \in Tokens : VerifyMagicLink(c, t, e) \/ ReadToken(c, t, e)
    \/ \E e \in Emails : VerifyEmail(e) \/ DeleteUser(e) \/ HandleUpdateOrg(e) \/ HandleDeleteOrg(e)
    \/ \E t \in Tokens : HandleSendMagicLink(t) \/ HandleForgotPassword(t) \/ HandleCreateInvite(t) \/ Expire(t)
    \/ \E k \in ApiKeys : \/ HandleCreateAPIKey(k) \/ HandleCreateSiteKey(k)
                        \/ HandleDeleteAPIKey(k) \/ HandleRevokeSiteKey(k)
    \/ RestartAuth

AccSpec == AccInit /\ [][AccNext]_accVars

----------------------------------------------------------------------------

\* The types of the variables.
AccTypeOK ==
    /\ users \in [Emails -> [present : BOOLEAN, role : {"user", "admin"}, org : BOOLEAN,
                             verified : BOOLEAN, pending : BOOLEAN]]
    /\ orgs \in [Emails -> {"none", "named", "renamed"}] /\ members \subseteq Emails
    /\ token \in [Tokens -> {"unsent", "live", "used", "expired"}]
    /\ apiKey \in [ApiKeys -> {"none", "org", "site", "deleted", "revoked"}]
    /\ \A c \in Calls : call[c].at \in {"idle", "insert", "org", "default", "verify", "reset", "mark",
                                        "invite", "member"}
    /\ calls \in 0..MaxCalls /\ uses \in [Tokens -> Nat] /\ overlapped \subseteq Tokens

\* A token takes effect once: a magic link even when two requests bring it at the
\* same time or the process restarts; a reset token or an invitation unless two
\* requests had read it before either wrote, or its use could not be recorded
\* (magiclink.go:111-131, passwordreset.go:161-205, membership.go:108-155).
TokensSpentOnce ==
    \A t \in Tokens : uses[t] > 1 => KindOf[t] # "link" /\ t \in overlapped

============================================================================
