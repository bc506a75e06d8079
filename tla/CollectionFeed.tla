---------------------------- MODULE CollectionFeed ----------------------------
(***************************************************************************)
(* The records of a collection and the events about them: the REST         *)
(* handlers (components/api/api.go), the db object of the functions        *)
(* (components/functions/runtime.go), the event bus, the event recorder    *)
(* and the SSE stream of the monitoring (components/monitoring/events.go,  *)
(* components/internal/eventrecorder).  An update reads the record, merges *)
(* the body and writes the whole back in a second statement; an API        *)
(* mutation is announced on the bus in the same goroutine, through the     *)
(* recorder's insert, count and trim.                                      *)
(***************************************************************************)
EXTENDS Naturals, Sequences, FiniteSets, SequencesExt

CONSTANTS
    Tenants,        \* organizations; 0 is a request that carries none
    Fields,         \* fields of a record
    FeedCalls,      \* requests and function runs under way at the same time
    EventCap,       \* eventrecorder maxEvents
    MaxRecords,     \* bound: records
    MaxFeedCalls    \* bound: calls

ASSUME FeedBounds ==
    0 \in Tenants /\ {EventCap, MaxRecords, MaxFeedCalls} \subseteq Nat /\ IsFiniteSet(FeedCalls)

VARIABLES
    record,         \* the collection: the organization and the fields of each id
    lastId,         \* AUTOINCREMENT
    feedCall,       \* each call: where it is and what it holds
    eventRows,      \* monitoring_events, oldest first
    sse,            \* an SSE client: whether it is subscribed, and the last event it was sent
    author,         \* calls so far: the organization of each; a value is its writer's number
    lastWrite,      \* auxiliary: the last acknowledged write of each field
    erased,         \* auxiliary: ids whose deletion was acknowledged
    stale,          \* auxiliary: ids written while another call held an older copy
    untrimmed       \* auxiliary: a count or a trim of the recorder has failed

recordVars == <<record, lastId, lastWrite, erased, stale>>
eventVars == <<eventRows, sse, untrimmed>>
feedVars == <<recordVars, feedCall, eventVars, author>>

RecordIds == 1..MaxRecords
NoData == [f \in Fields |-> 0]
NoRecord == [org |-> 0, there |-> FALSE, data |-> NoData]
NoEvent == [type |-> "none", id |-> 0]
Quiet == [at |-> "idle", id |-> 0, event |-> NoEvent, copy |-> NoData, set |-> {}, no |-> 0, excess |-> 0, api |-> TRUE]

\* The collection is empty, or holds records of earlier calls, whose values are 0.
FeedInit ==
    /\ lastId \in 0..MaxRecords
    /\ \E orgs \in [1..lastId -> Tenants] :
           record = [i \in RecordIds |-> IF i \in 1..lastId
                                         THEN [org |-> orgs[i], there |-> TRUE, data |-> NoData]
                                         ELSE NoRecord]
    /\ feedCall = [c \in FeedCalls |-> Quiet]
    /\ eventRows = <<>>
    /\ sse = [on |-> FALSE, sent |-> {}]
    /\ author = <<>>
    /\ lastWrite = [i \in RecordIds |-> NoData]
    /\ erased = {}
    /\ stale = {}
    /\ untrimmed = FALSE

\* A call of an organization, through the API or from a function.
CallBegins(c, org, state) ==
    /\ feedCall[c] = Quiet /\ Len(author) < MaxFeedCalls
    /\ author' = Append(author, org)
    /\ feedCall' = [feedCall EXCEPT ![c] = [state EXCEPT !.no = Len(author) + 1]]

CallGoes(c, state) ==
    /\ feedCall' = [feedCall EXCEPT ![c] = state]
    /\ UNCHANGED author

\* Only the API announces what it changed.
CallAnnounces(c, what) ==
    CallGoes(c, IF feedCall[c].api THEN [feedCall[c] EXCEPT !.at = "record", !.event = what] ELSE Quiet)

\* The statement failed, or its context ended: the call returns an error.
CallFails(c) ==
    /\ feedCall[c].at \in {"insert", "merge", "delete"}
    /\ CallGoes(c, Quiet)
    /\ UNCHANGED <<recordVars, eventVars>>

----------------------------------------------------------------------------
(***************************************************************************)
(* createRecord, updateRecord, deleteRecord, and create, update, delete of *)
(* the db object.                                                          *)
(***************************************************************************)

CreateRecord(c, org, api) ==
    /\ CallBegins(c, org, [Quiet EXCEPT !.at = "insert", !.api = api])
    /\ UNCHANGED <<recordVars, eventVars>>

InsertRecord(c) ==
    /\ feedCall[c].at = "insert" /\ lastId < MaxRecords
    /\ lastId' = lastId + 1
    /\ LET written == [f \in Fields |-> feedCall[c].no]
       IN  /\ record' = [record EXCEPT ![lastId + 1] =
                            [org |-> author[feedCall[c].no], there |-> TRUE, data |-> written]]
           /\ lastWrite' = [lastWrite EXCEPT ![lastId + 1] = written]
    /\ CallAnnounces(c, [type |-> "create", id |-> lastId + 1])
    /\ UNCHANGED <<erased, stale, eventVars>>

\* A request without an organization passes the API's check; a function's
\* statements name the organization in their WHERE.
MayTouch(org, api, i) == record[i].org = org \/ (api /\ org = 0)

\* updateRecord reads the record and checks the owner.
ReadRecord(c, org, api, i, fs) ==
    /\ record[i].there /\ MayTouch(org, api, i)
    /\ CallBegins(c, org, [Quiet EXCEPT !.at = "merge", !.id = i, !.copy = record[i].data, !.set = fs, !.api = api])
    /\ UNCHANGED <<recordVars, eventVars>>

Merged(k) == [f \in Fields |-> IF f \in k.set THEN k.no ELSE k.copy[f]]

\* A plausible slip: a record that is gone is written all the same (an upsert).
UpsertRecord(c) ==
    /\ feedCall[c].at = "merge"
    /\ LET k == feedCall[c]
       IN  /\ record' = [record EXCEPT ![k.id].there = TRUE, ![k.id].data = Merged(k)]
           /\ lastWrite' = [lastWrite EXCEPT ![k.id] = [f \in Fields |-> IF f \in k.set THEN k.no ELSE @[f]]]
           /\ stale' = stale \cup {j \in {k.id} : \E d \in FeedCalls \ {c} : feedCall[d].at = "merge" /\ feedCall[d].id = j}
           /\ CallAnnounces(c, [type |-> "update", id |-> k.id])
    /\ UNCHANGED <<lastId, erased, eventVars>>

\* The UPDATE; of a record deleted meanwhile it changes nothing, and is
\* acknowledged and announced all the same.
UpdateRecord(c) ==
    /\ feedCall[c].at = "merge"
    /\ LET k == feedCall[c]
           others == {d \in FeedCalls \ {c} : feedCall[d].at = "merge" /\ feedCall[d].id = k.id}
       IN  /\ \/ /\ record[k.id].there
                 /\ record' = [record EXCEPT ![k.id].data = Merged(k)]
                 /\ lastWrite' = [lastWrite EXCEPT ![k.id] = [f \in Fields |-> IF f \in k.set THEN k.no ELSE @[f]]]
                 /\ stale' = IF others # {} THEN stale \cup {k.id} ELSE stale
              \/ /\ ~record[k.id].there
                 /\ UNCHANGED <<record, lastWrite, stale>>
           /\ CallAnnounces(c, [type |-> "update", id |-> k.id])
    /\ UNCHANGED <<lastId, erased, eventVars>>

\* deleteRecord looks at the owner, and deletes by the id alone.
CheckOwner(c, org, api, i) ==
    /\ record[i].there /\ MayTouch(org, api, i)
    /\ CallBegins(c, org, [Quiet EXCEPT !.at = "delete", !.id = i, !.api = api])
    /\ UNCHANGED <<recordVars, eventVars>>

DeleteRecord(c) ==
    /\ feedCall[c].at = "delete"
    /\ LET i == feedCall[c].id
       IN  \/ /\ record[i].there
              /\ record' = [record EXCEPT ![i].there = FALSE]
              /\ erased' = erased \cup {i}
              /\ CallAnnounces(c, [type |-> "delete", id |-> i])
           \/ /\ ~record[i].there
              /\ CallGoes(c, Quiet)
              /\ UNCHANGED <<record, erased>>
    /\ UNCHANGED <<lastId, lastWrite, stale, eventVars>>

----------------------------------------------------------------------------
(***************************************************************************)
(* emitMutation: Recorder.Record, then the SSE stream.                     *)
(***************************************************************************)

RecordEvent(c) ==
    /\ feedCall[c].at = "record"
    /\ \/ /\ eventRows' = Append(eventRows, feedCall[c].event)
          /\ CallGoes(c, [feedCall[c] EXCEPT !.at = "count"])
       \/ /\ CallGoes(c, [feedCall[c] EXCEPT !.at = "stream"])
          /\ UNCHANGED eventRows
    /\ UNCHANGED <<recordVars, sse, untrimmed>>

CountEvents(c) ==
    /\ feedCall[c].at = "count"
    /\ LET n == Len(eventRows)
       IN  CallGoes(c, [feedCall[c] EXCEPT !.at = IF n > EventCap THEN "trim" ELSE "stream",
                                           !.excess = IF n > EventCap THEN n - EventCap ELSE 0])
    /\ UNCHANGED <<recordVars, eventVars>>

\* The oldest rows go, as many as the count asked for, whoever trimmed since.
TrimEvents(c) ==
    /\ feedCall[c].at = "trim"
    /\ LET n == IF feedCall[c].excess > Len(eventRows) THEN Len(eventRows) ELSE feedCall[c].excess
       IN  eventRows' = SubSeq(eventRows, n + 1, Len(eventRows))
    /\ CallGoes(c, [feedCall[c] EXCEPT !.at = "stream"])
    /\ UNCHANGED <<recordVars, sse, untrimmed>>

\* Recorder.Record ignores what goes wrong after its insert.
TrimFails(c) ==
    /\ feedCall[c].at \in {"count", "trim"}
    /\ untrimmed' = TRUE
    /\ CallGoes(c, [feedCall[c] EXCEPT !.at = "stream"])
    /\ UNCHANGED <<recordVars, sse, eventRows>>

StreamEvent(c) ==
    /\ feedCall[c].at = "stream"
    /\ sse' = IF sse.on THEN [sse EXCEPT !.sent = {feedCall[c].event}] ELSE sse
    /\ CallGoes(c, Quiet)
    /\ UNCHANGED <<recordVars, eventRows, untrimmed>>

\* handleSSEEvents: a client comes, or goes.
SubscribeSSE ==
    /\ ~sse.on
    /\ sse' = [on |-> TRUE, sent |-> {}]
    /\ UNCHANGED <<recordVars, feedCall, eventRows, author, untrimmed>>

UnsubscribeSSE ==
    /\ sse.on
    /\ sse' = [on |-> FALSE, sent |-> {}]
    /\ UNCHANGED <<recordVars, feedCall, eventRows, author, untrimmed>>

FeedNext ==
    \/ \E c \in FeedCalls :
        \/ InsertRecord(c) \/ UpdateRecord(c) \/ DeleteRecord(c) \/ CallFails(c)
        \/ RecordEvent(c) \/ CountEvents(c) \/ TrimEvents(c) \/ TrimFails(c) \/ StreamEvent(c)
        \/ \E org \in Tenants, api \in BOOLEAN :
            \/ CreateRecord(c, org, api)
            \/ \E i \in RecordIds : CheckOwner(c, org, api, i) \/ \E f \in Fields : ReadRecord(c, org, api, i, {f})
    \/ SubscribeSSE \/ UnsubscribeSSE

FeedSpec == FeedInit /\ [][FeedNext]_feedVars

----------------------------------------------------------------------------

Steps == {"idle", "insert", "merge", "delete", "record", "count", "trim", "stream"}

\* The types of the variables.
FeedTypeOK ==
    /\ record \in [RecordIds -> [org : Tenants, there : BOOLEAN, data : [Fields -> 0..MaxFeedCalls]]]
    /\ lastId \in 0..MaxRecords
    /\ \A c \in FeedCalls : feedCall[c].at \in Steps /\ feedCall[c].excess \in Nat
    /\ eventRows \in Seq([type : {"create", "update", "delete"}, id : RecordIds])
    /\ author \in Seq(Tenants)
    /\ erased \cup stale \subseteq RecordIds /\ untrimmed \in BOOLEAN

\* An acknowledged write stays until the next one, unless another update of the
\* record had read it before and wrote after it (api.go:392-411, runtime.go:263-281);
\* an acknowledged delete is final; and a record holds only what its own
\* organization, or an API request without one, wrote into it.
WritesKept ==
    \A i \in 1..lastId :
        /\ record[i].there /\ i \notin stale => record[i].data = lastWrite[i]
        /\ record[i].there <=> i \notin erased
        /\ \A f \in Fields : record[i].data[f] # 0 => author[record[i].data[f]] \in {record[i].org, 0}

\* The recorded and the streamed events are true: the record of a create has been
\* there, the record of a delete is gone; and the recorder holds more events than
\* its cap only while somebody is about to trim them, or once a trim has failed.
EventsTrue ==
    /\ \A i \in DOMAIN eventRows : eventRows[i].type = "delete" => eventRows[i].id \in erased
    /\ \A e \in sse.sent : e.id <= lastId /\ (e.type = "delete" => e.id \in erased)
    /\ ~untrimmed => Len(eventRows) <= EventCap + Cardinality({c \in FeedCalls : feedCall[c].at \in {"count", "trim"}})

CollectionsConsistent == WritesKept /\ EventsTrue

==============================================================================
