----------------------------- MODULE DeployLogs -----------------------------
(***************************************************************************)
(* The logs of the deployments (components/deploy/logs.go, log_stream.go): *)
(* a bounded buffer of lines for each of the latest deployments, and a hub *)
(* per deployment that replays its lines to WebSocket subscribers and then *)
(* streams new ones.  Several goroutines append at the same time (the      *)
(* pipeline, the scanners of the app's output), deployments are deleted    *)
(* while their app still writes, and after a restart resumed apps write    *)
(* into buffers nobody initialised.                                        *)
(***************************************************************************)
EXTENDS Naturals, Sequences, FiniteSets, SequencesExt

CONSTANTS
    Deployments,        \* deployment ids
    Writers,            \* goroutines that append
    Watchers,           \* WebSocket subscribers
    MaxLogDeployments,  \* maxDeployLogDeployments
    MaxLogLines,        \* maxDeployLogLines
    WatchBuf,           \* the capacity of a subscriber's channel
    MaxLines            \* bound: lines written

ASSUME LogFinite == IsFiniteSet(Deployments)
ASSUME LogLimits == {MaxLogDeployments, MaxLogLines, WatchBuf} \subseteq Nat \ {0} /\ MaxLines \in Nat

VARIABLES
    born,           \* deployments there have been, the resumed ones included
    buffer,         \* l.buffer: the lines of the deployments in the map
    logOrder,       \* l.order
    hist,           \* logHub.hist of the deployments that have a hub
    ended,          \* deployments whose hub is closed (logHub.done)
    pending,        \* writers between l.append and the broadcast: what they wrote
    watch,          \* subscribers: the deployment, and the lines queued or received
    lineCount,      \* lines written so far; a line is its number
    lagged,         \* auxiliary: subscribers that lost a line to a full channel
    unlisted,       \* auxiliary: deployments append put into the map, not init
    initPanics      \* auxiliary: init indexed an empty order

logVars == <<born, buffer, logOrder, hist, ended, pending, watch, lineCount, lagged, unlisted, initPanics>>

NoLine == 0
NotWatching == [id |-> "none", on |-> FALSE, queued |-> 0, lines |-> <<>>]

LogInit ==
    /\ born \in SUBSET Deployments
    /\ buffer = << >>
    /\ logOrder = <<>>
    /\ hist = << >>
    /\ ended = {}
    /\ pending = [w \in Writers |-> [id |-> NotWatching.id, line |-> NoLine]]
    /\ watch = [s \in Watchers |-> NotWatching]
    /\ lineCount = 0
    /\ lagged = {}
    /\ unlisted = {}
    /\ initPanics = FALSE

\* A map with one more key, or without some.
With(f, k, v) == [x \in DOMAIN f \cup {k} |-> IF x = k THEN v ELSE f[x]]
Without(f, ks) == [x \in DOMAIN f \ ks |-> f[x]]

\* Trigger gives every deployment a fresh id and initialises its buffer: init evicts
\* the oldest listed deployments until there is room; keys that the
\* order does not list are out of its reach, and with nothing left to evict the
\* index panics.  An evicted id that is no longer in the map frees nothing.
Evictions ==
    LET Enough(n) == Cardinality(DOMAIN buffer \ ToSet(SubSeq(logOrder, 1, n))) < MaxLogDeployments
    IN  {n \in 0..Len(logOrder) : Enough(n)}

InitLogs(d) ==
    /\ d \notin born
    /\ born' = born \cup {d}
    /\ \/ /\ Evictions # {}
          /\ LET n == CHOOSE n \in Evictions : \A m \in Evictions : n <= m
             IN  /\ buffer' = With(Without(buffer, ToSet(SubSeq(logOrder, 1, n))), d, <<>>)
                 /\ logOrder' = Append(SubSeq(logOrder, n + 1, Len(logOrder)), d)
                 /\ unlisted' = unlisted \ ToSet(SubSeq(logOrder, 1, n))
          /\ UNCHANGED initPanics
       \/ /\ Evictions = {}
          /\ buffer' = Without(buffer, ToSet(logOrder))
          /\ logOrder' = <<>>
          /\ unlisted' = unlisted \ ToSet(logOrder)
          /\ initPanics' = TRUE
    /\ UNCHANGED <<hist, ended, pending, watch, lineCount, lagged>>

\* getOrCreateHub: by runDeployment, or by the first subscriber.
CreateHub(d) ==
    /\ d \in born /\ d \notin DOMAIN hist
    /\ hist' = With(hist, d, <<>>)
    /\ UNCHANGED <<born, buffer, logOrder, ended, pending, watch, lineCount, lagged, unlisted, initPanics>>

\* appendDeployLog, first half: the buffer keeps the latest lines.
AppendLine(w, d) ==
    /\ d \in born /\ pending[w].line = NoLine /\ lineCount < MaxLines
    /\ lineCount' = lineCount + 1
    /\ LET old == IF d \in DOMAIN buffer THEN buffer[d] ELSE <<>>
           all == Append(old, lineCount + 1)
       IN  buffer' = With(buffer, d, IF Len(all) > MaxLogLines THEN Tail(all) ELSE all)
    /\ unlisted' = IF d \in DOMAIN buffer THEN unlisted ELSE unlisted \cup {d}
    /\ pending' = [pending EXCEPT ![w] = [id |-> d, line |-> lineCount + 1]]
    /\ UNCHANGED <<born, logOrder, hist, ended, watch, lagged, initPanics>>

Attached(d) == {s \in Watchers : watch[s].on /\ watch[s].id = d}
Full(s) == watch[s].queued = WatchBuf

\* appendDeployLog, second half: logHub.broadcast, unless the hub is missing or
\* closed; a subscriber whose channel is full misses the line.
BroadcastLine(w) ==
    /\ pending[w].line # NoLine
    /\ pending' = [pending EXCEPT ![w].line = NoLine]
    /\ LET d == pending[w].id
           open == d \in DOMAIN hist \ ended
           reached == {s \in Attached(d) : open /\ ~Full(s)}
       IN  /\ hist' = IF open THEN [hist EXCEPT ![d] = Append(@, pending[w].line)] ELSE hist
           /\ watch' = [s \in Watchers |->
                           IF s \in reached
                           THEN [watch[s] EXCEPT !.queued = @ + 1, !.lines = Append(@, pending[w].line)]
                           ELSE watch[s]]
           /\ lagged' = lagged \cup (IF open THEN Attached(d) \ reached ELSE {})
    /\ UNCHANGED <<born, buffer, logOrder, ended, lineCount, unlisted, initPanics>>

\* A subscription that does not replay the history.
SubscribeLive(s, d) ==
    /\ ~watch[s].on /\ watch[s].lines = <<>> /\ d \in DOMAIN hist
    /\ watch' = [watch EXCEPT ![s] = [id |-> d, on |-> d \notin ended, queued |-> 0, lines |-> <<>>]]
    /\ UNCHANGED <<born, buffer, logOrder, hist, ended, pending, lineCount, lagged, unlisted, initPanics>>

\* logHub.subscribe under its lock: the history, as far as the channel holds it,
\* then the live lines; a closed hub only replays.
Subscribe(s, d) ==
    /\ ~watch[s].on /\ watch[s].lines = <<>> /\ d \in DOMAIN hist
    /\ LET replayed == IF Len(hist[d]) > WatchBuf THEN SubSeq(hist[d], 1, WatchBuf) ELSE hist[d]
       IN  /\ watch' = [watch EXCEPT ![s] = [id |-> d, on |-> d \notin ended,
                                             queued |-> Len(replayed), lines |-> replayed]]
           /\ lagged' = IF Len(hist[d]) > WatchBuf THEN lagged \cup {s} ELSE lagged
    /\ UNCHANGED <<born, buffer, logOrder, hist, ended, pending, lineCount, unlisted, initPanics>>

\* handleLogsStream writes a line to the socket.
ReceiveLine(s) ==
    /\ watch[s].queued > 0
    /\ watch' = [watch EXCEPT ![s].queued = @ - 1]
    /\ UNCHANGED <<born, buffer, logOrder, hist, ended, pending, lineCount, lagged, unlisted, initPanics>>

\* The socket failed: unsub takes the channel off the hub.
StopWatching(s) ==
    /\ watch[s].on
    /\ watch' = [watch EXCEPT ![s].on = FALSE, ![s].queued = 0]
    /\ UNCHANGED <<born, buffer, logOrder, hist, ended, pending, lineCount, lagged, unlisted, initPanics>>

\* closeLogStream: the pipeline failed; the subscribers' channels are closed.
CloseStream(d) ==
    /\ d \in DOMAIN hist \ ended
    /\ ended' = ended \cup {d}
    /\ watch' = [s \in Watchers |-> IF s \in Attached(d) THEN [watch[s] EXCEPT !.on = FALSE] ELSE watch[s]]
    /\ UNCHANGED <<born, buffer, logOrder, hist, pending, lineCount, lagged, unlisted, initPanics>>

\* deleteDeployLogs: the deployment or its site is deleted; its first place in the order
\* goes, if it has one.
RemoveLogs(d) ==
    /\ d \in DOMAIN buffer \cup ToSet(logOrder)
    /\ UNCHANGED born
    /\ buffer' = Without(buffer, {d})
    /\ \/ \E i \in 1..Len(logOrder) :
              /\ logOrder[i] = d /\ \A j \in 1..(i - 1) : logOrder[j] # d
              /\ logOrder' = RemoveAt(logOrder, i)
       \/ d \notin ToSet(logOrder) /\ UNCHANGED logOrder
    /\ unlisted' = unlisted \ {d}
    /\ UNCHANGED <<hist, ended, pending, watch, lineCount, lagged, initPanics>>

LogNext ==
    \/ \E d \in Deployments :
        \/ InitLogs(d) \/ CreateHub(d) \/ CloseStream(d) \/ RemoveLogs(d)
        \/ \E w \in Writers : AppendLine(w, d)
        \/ \E s \in Watchers : Subscribe(s, d)
    \/ \E w \in Writers : BroadcastLine(w)
    \/ \E s \in Watchers : ReceiveLine(s) \/ StopWatching(s)

LogSpec == LogInit /\ [][LogNext]_logVars

----------------------------------------------------------------------------

Line == 1..MaxLines

\* The types of the variables.
LogTypeOK ==
    /\ born \subseteq Deployments
    /\ DOMAIN buffer \subseteq born
    /\ \A d \in DOMAIN buffer : buffer[d] \in Seq(Line) /\ Len(buffer[d]) <= MaxLogLines
    /\ logOrder \in Seq(Deployments)
    /\ DOMAIN hist \subseteq Deployments
    /\ \A d \in DOMAIN hist : hist[d] \in Seq(Line)
    /\ ended \subseteq DOMAIN hist
    /\ pending \in [Writers -> [id : Deployments \cup {"none"}, line : 0..MaxLines]]
    /\ \A s \in Watchers : watch[s].queued \in 0..WatchBuf /\ watch[s].lines \in Seq(Line)
    /\ lineCount \in 0..MaxLines
    /\ lagged \subseteq Watchers
    /\ unlisted \subseteq DOMAIN buffer

\* A subscriber whose channel never overflowed has been given exactly what the
\* hub has broadcast, in its order: nothing is lost or sent twice between the
\* replay of the history and the live lines (log_stream.go:26-41, 56-69).
StreamFaithful ==
    \A s \in Watchers \ lagged :
        watch[s].on => watch[s].lines = hist[watch[s].id]

\* init keeps the number of buffers it lists within maxDeployLogDeployments and
\* fails only when as many buffers are in the map behind its back, put there by
\* lines that arrived for a deleted, an evicted or a resumed deployment
\* (logs.go:22-24, 35).
BuffersBounded ==
    /\ Cardinality(DOMAIN buffer \ unlisted) <= MaxLogDeployments
    /\ DOMAIN buffer \ unlisted \subseteq ToSet(logOrder)

\* What a watcher and the operator rely on: the stream is faithful and the buffers do not
\* grow with the number of deployments (Subscribe, Broadcast, init).
LogsCorrect == StreamFaithful /\ BuffersBounded

============================================================================
