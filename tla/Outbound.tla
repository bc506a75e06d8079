------------------------------- MODULE Outbound -------------------------------
(***************************************************************************)
(* What BigBase sends out: webhook deliveries with their retries           *)
(* (components/webhooks), messages through a channel's provider and alert   *)
(* mails (components/messaging).  A request and its answer may be lost or   *)
(* late, the caller's context may end, and what the receiver did and what   *)
(* BigBase reports are two things.                                          *)
(***************************************************************************)
EXTENDS Naturals

CONSTANTS
    Hooks,          \* registered webhooks
    Sends,          \* deliveries, messages and alerts, one each
    MaxAttempts     \* maxAttempts of webhooks.go

ASSUME OutBounds == MaxAttempts \in Nat \ {0}

VARIABLES
    provider,       \* the messages' channel has a registered provider
    recipients,     \* the alert notifier has recipients, from its options
    hookRow,        \* webhooks table: the hooks that exist
    out,            \* where each sending is, its attempt and the result BigBase reported
    wire,           \* the request of each sending: nowhere, on its way, or answered
    handled,        \* how often the receiver took each sending
    accepted,       \* auxiliary: how often it answered below 400
    message         \* messages table: status by sending

outVars == <<provider, recipients, hookRow, out, wire, handled, accepted, message>>

NoOut == [at |-> "idle", kind |-> "hook", attempt |-> 0, result |-> "none"]

OutInit ==
    /\ provider = FALSE /\ recipients \in BOOLEAN
    /\ hookRow = {}
    /\ out = [s \in Sends |-> NoOut]
    /\ wire = [s \in Sends |-> "none"]
    /\ handled = [s \in Sends |-> 0]
    /\ accepted = [s \in Sends |-> 0]
    /\ message = [s \in Sends |-> "none"]

----------------------------------------------------------------------------
(* The webhooks table.                                                       *)

CreateWebhook(h) ==
    /\ h \notin hookRow /\ hookRow' = hookRow \cup {h}
    /\ UNCHANGED <<provider, recipients, out, wire, handled, accepted, message>>

\* A delivery under way has its own copy of the hook and goes on.
DeleteWebhook(h) ==
    /\ h \in hookRow /\ hookRow' = hookRow \ {h}
    /\ UNCHANGED <<provider, recipients, out, wire, handled, accepted, message>>

----------------------------------------------------------------------------
(* The wire and the receiver (external): a request is taken or lost, its     *)
(* answer arrives or is lost.                                                *)

Take(s) ==
    /\ wire[s] = "asked"
    /\ handled' = [handled EXCEPT ![s] = @ + 1]
    /\ \/ wire' = [wire EXCEPT ![s] = "good"] /\ accepted' = [accepted EXCEPT ![s] = @ + 1]
       \/ wire' = [wire EXCEPT ![s] = "bad"] /\ UNCHANGED accepted
    /\ UNCHANGED <<provider, recipients, hookRow, out, message>>

Lose(s) ==
    /\ wire[s] \in {"asked", "good", "bad"} /\ out[s].at = "waits"
    /\ wire' = [wire EXCEPT ![s] = "lost"]
    /\ UNCHANGED <<provider, recipients, hookRow, out, handled, accepted, message>>

----------------------------------------------------------------------------
Ask(s, kind, n) ==
    /\ out' = [out EXCEPT ![s] = [at |-> "waits", kind |-> kind, attempt |-> n, result |-> "none"]]
    /\ wire' = [wire EXCEPT ![s] = "asked"]
OutEnds(s, result) == out' = [out EXCEPT ![s].at = "done", ![s].result = result]

\* DeliverWithBackoff of an event to a hook.
DeliverWithBackoff(s) ==
    /\ out[s].at = "idle" /\ hookRow # {}
    /\ Ask(s, "hook", 1)
    /\ UNCHANGED <<provider, recipients, hookRow, handled, accepted, message>>

\* A delivery that trusts any answer.
DeliverAnyStatus(s) ==
    /\ out[s].at = "waits" /\ out[s].kind = "hook" /\ wire[s] \in {"good", "bad", "lost"}
    /\ OutEnds(s, "ok") /\ UNCHANGED wire
    /\ UNCHANGED <<provider, recipients, hookRow, handled, accepted, message>>

\* A delivery that retries once too often.
DeliverOneMore(s) ==
    /\ out[s].at = "waits" /\ out[s].kind = "hook" /\ UNCHANGED wire
    /\ \/ wire[s] = "good" /\ OutEnds(s, "ok")
       \/ /\ wire[s] \in {"bad", "lost"} /\ out[s].attempt <= MaxAttempts
          /\ out' = [out EXCEPT ![s].at = "backoff"]
    /\ UNCHANGED <<provider, recipients, hookRow, handled, accepted, message>>

\* Deliver: below 400 is the end; an error or no answer waits for the next attempt, and
\* the last attempt's error is the result.
Deliver(s) ==
    /\ out[s].at = "waits" /\ out[s].kind = "hook"
    /\ \/ wire[s] = "good" /\ OutEnds(s, "ok") /\ UNCHANGED wire
       \/ /\ wire[s] \in {"bad", "lost"} /\ out[s].attempt < MaxAttempts
          /\ out' = [out EXCEPT ![s].at = "backoff"] /\ UNCHANGED wire
       \/ /\ wire[s] \in {"bad", "lost"} /\ out[s].attempt = MaxAttempts
          /\ OutEnds(s, "error") /\ UNCHANGED wire
    /\ UNCHANGED <<provider, recipients, hookRow, handled, accepted, message>>

\* The backoff passes, or the caller's context ends first.
Backoff(s) ==
    /\ out[s].at = "backoff"
    /\ \/ Ask(s, "hook", out[s].attempt + 1)
       \/ OutEnds(s, "error") /\ UNCHANGED wire
    /\ UNCHANGED <<provider, recipients, hookRow, handled, accepted, message>>

RegisterProvider ==
    /\ ~provider /\ provider' = TRUE
    /\ UNCHANGED <<recipients, hookRow, out, wire, handled, accepted, message>>

\* send: the provider of the channel, if there is one, and then the row.  Without a
\* provider the message counts as sent.
SendMessage(s) ==
    /\ out[s].at = "idle"
    /\ \/ provider /\ Ask(s, "message", 1)
       \/ ~provider /\ UNCHANGED wire
          /\ out' = [out EXCEPT ![s] = [at |-> "insert", kind |-> "message", attempt |-> 0, result |-> "ok"]]
    /\ UNCHANGED <<provider, recipients, hookRow, handled, accepted, message>>

ProviderAnswers(s) ==
    /\ out[s].at = "waits" /\ out[s].kind = "message" /\ wire[s] \in {"good", "bad", "lost"}
    /\ out' = [out EXCEPT ![s].at = "insert", ![s].result = IF wire[s] = "good" THEN "ok" ELSE "error"]
    /\ UNCHANGED <<provider, recipients, hookRow, wire, handled, accepted, message>>

\* INSERT INTO messages; when it fails the answer is an error, whatever was sent.
InsertMessage(s) ==
    /\ out[s].at = "insert"
    /\ \/ /\ message' = [message EXCEPT ![s] = IF out[s].result = "ok" THEN "sent" ELSE "failed"]
          /\ out' = [out EXCEPT ![s].at = "done"]
       \/ OutEnds(s, "error") /\ UNCHANGED message
    /\ UNCHANGED <<provider, recipients, hookRow, wire, handled, accepted>>

\* NotifyAlert: the mail is sent by a goroutine, which the notifier leaves behind when
\* the context ends or 30 s have passed; the mail may then still go out.
NotifyAlert(s) ==
    /\ out[s].at = "idle"
    /\ \/ recipients /\ Ask(s, "alert", 1)
       \/ ~recipients /\ out' = [out EXCEPT ![s] = [NoOut EXCEPT !.at = "done", !.kind = "alert"]]
          /\ UNCHANGED wire
    /\ UNCHANGED <<provider, recipients, hookRow, handled, accepted, message>>

MailEnds(s) ==
    /\ out[s].at = "waits" /\ out[s].kind = "alert"
    /\ \/ wire[s] = "good" /\ OutEnds(s, "ok")
       \/ wire[s] \in {"asked", "bad", "lost"} /\ OutEnds(s, "error")
    /\ UNCHANGED <<provider, recipients, hookRow, wire, handled, accepted, message>>

OutNext ==
    \/ RegisterProvider
    \/ \E h \in Hooks : CreateWebhook(h) \/ DeleteWebhook(h)
    \/ \E s \in Sends :
         \/ Take(s) \/ Lose(s)
         \/ DeliverWithBackoff(s) \/ Deliver(s) \/ Backoff(s)
         \/ SendMessage(s) \/ ProviderAnswers(s) \/ InsertMessage(s)
         \/ NotifyAlert(s) \/ MailEnds(s)

OutSpec == OutInit /\ [][OutNext]_outVars

----------------------------------------------------------------------------
OutTypeOK ==
    /\ provider \in BOOLEAN /\ recipients \in BOOLEAN
    /\ hookRow \subseteq Hooks
    /\ out \in [Sends -> [at : {"idle", "waits", "backoff", "insert", "done"},
                          kind : {"hook", "message", "alert"}, attempt : 0 .. MaxAttempts,
                          result : {"none", "ok", "error"}]]
    /\ wire \in [Sends -> {"none", "asked", "good", "bad", "lost"}]
    /\ handled \in [Sends -> 0 .. MaxAttempts] /\ accepted \in [Sends -> 0 .. MaxAttempts]
    /\ message \in [Sends -> {"none", "sent", "failed"}]

\* A sending reported as done was accepted by its receiver, at least once, except a
\* message whose channel had no provider, which is recorded as sent by nobody; a retry
\* may repeat what was handled, never more often than there were attempts; and a
\* delivery whose last answer was good is not reported as failed (Deliver,
\* DeliverWithBackoff, send, NotifyAlert).
DeliveryHonest ==
    \A s \in Sends :
        LET nobody == out[s].kind = "message" /\ out[s].attempt = 0
        IN  /\ out[s].result = "ok" => accepted[s] >= 1 \/ nobody
            /\ message[s] = "sent" => accepted[s] >= 1 \/ nobody
            /\ accepted[s] <= handled[s] /\ handled[s] <= out[s].attempt
            /\ out[s].at = "done" /\ out[s].kind = "hook" /\ wire[s] = "good" => out[s].result = "ok"

=============================================================================
