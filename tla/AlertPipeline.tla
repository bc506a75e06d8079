---------------------------- MODULE AlertPipeline ----------------------------
(***************************************************************************)
(* Alert rules, the incidents they open and the alarms they raise          *)
(* (components/monitoring).  One goroutine checks the enabled rules at     *)
(* every tick: it copies the rules, then looks up, opens, announces and    *)
(* marks incidents in separate statements under one deadline, while the    *)
(* rules are edited.  The beginning of a breach is kept in memory only;    *)
(* the hooks of alert.triggered investigate and notify in goroutines of    *)
(* their own.                                                              *)
(***************************************************************************)
EXTENDS Naturals, FiniteSets

CONSTANTS
    Rules,              \* alert rules
    Durations,          \* values of duration_seconds, in ticks
    KeptInvestigations, \* the number of rows trimInvestigations keeps
    MaxIncidents,       \* bound: incidents
    MaxChecks           \* bound: ticks of the checker

ASSUME AlertBounds == Durations \subseteq Nat \ {0} /\ {KeptInvestigations, MaxIncidents, MaxChecks} \subseteq Nat

VARIABLES
    rule,           \* monitoring_alerts: present, enabled, metric known, duration
    incident,       \* monitoring_alert_incidents, by number
    opened,         \* how many incidents there have been
    checker,        \* checkAlertRules: where it is, and the incident it announces
    copied,         \* checkAlertRules: the rules it has still to look at
    breachStart,    \* breachStart: the tick a breach was first seen; 0 none
    active,         \* activeIDs
    ticks,          \* the clock
    investigating,  \* onAlertTriggered goroutines, by incident
    delivering,     \* deliverAlert goroutines, by incident
    investigations, \* monitoring_investigations: how many rows
    clearAt,        \* auxiliary: the last check that did not find the rule breached
    announced,      \* auxiliary: alert.triggered events of each incident
    unmarked,       \* auxiliary: incidents whose mark failed or was never made
    blind           \* auxiliary: rules whose open incident could not be looked up

ruleVars == <<rule>>
incidentVars == <<incident, opened, announced, unmarked, blind>>
checkVars == <<checker, copied, breachStart, active, ticks, clearAt>>
hookVars == <<investigating, delivering, investigations>>
alertVars == <<ruleVars, incidentVars, checkVars, hookVars>>

Incidents == 1..MaxIncidents
NoRule == [present |-> FALSE, enabled |-> FALSE, known |-> FALSE, duration |-> 0]
NoIncident == [rule |-> "", open |-> FALSE, triggered |-> FALSE, lasted |-> 0, duration |-> 0]

AlertInit ==
    /\ rule = [r \in Rules |-> NoRule]
    /\ incident = [i \in Incidents |-> NoIncident]
    /\ opened = 0
    /\ checker = [at |-> "idle", incident |-> 0]
    /\ copied = [r \in Rules |-> NoRule]
    /\ breachStart = [r \in Rules |-> 0]
    /\ active = {}
    /\ ticks = 0
    /\ investigating = {} /\ delivering = {} /\ investigations = 0
    /\ clearAt = [r \in Rules |-> 0]
    /\ announced = [i \in Incidents |-> 0]
    /\ unmarked = {} /\ blind = {}

----------------------------------------------------------------------------
(***************************************************************************)
(* The rules.                                                              *)
(***************************************************************************)

HandleAlertCreate(r) ==
    /\ rule[r] = NoRule
    /\ \E known, enabled \in BOOLEAN, d \in Durations :
        rule' = [rule EXCEPT ![r] = [present |-> TRUE, enabled |-> enabled, known |-> known, duration |-> d]]
    /\ UNCHANGED <<incidentVars, checkVars, hookVars>>

\* The metric, the threshold and the enabled flag change; neither the duration,
\* nor the memory of a breach under the old ones.
HandleAlertUpdate(r) ==
    /\ rule[r].present
    /\ \E known, enabled \in BOOLEAN : rule' = [rule EXCEPT ![r].known = known, ![r].enabled = enabled]
    /\ UNCHANGED <<incidentVars, checkVars, hookVars>>

\* The rule goes, its open incidents stay open; an id is not used again.
HandleAlertDelete(r) ==
    /\ rule[r].present
    /\ rule' = [rule EXCEPT ![r].present = FALSE, ![r].enabled = FALSE]
    /\ UNCHANGED <<incidentVars, checkVars, hookVars>>

----------------------------------------------------------------------------
(***************************************************************************)
(* One pass of checkAlertRules.                                            *)
(***************************************************************************)

\* The tick; a query that fails ends the pass with nothing changed.
CheckBegins ==
    /\ checker.at = "idle" /\ ticks < MaxChecks
    /\ ticks' = ticks + 1
    /\ \/ /\ copied' = [r \in Rules |-> IF rule[r].enabled THEN rule[r] ELSE NoRule]
          /\ checker' = [checker EXCEPT !.at = "rules"]
       \/ UNCHANGED <<copied, checker>>
    /\ active' = {}
    /\ UNCHANGED <<ruleVars, incidentVars, hookVars, breachStart, clearAt>>

Looked(r) == copied' = [copied EXCEPT ![r] = NoRule]

\* metricValueWithState does not know the metric: the rule is skipped.
SkipRule(r) ==
    /\ checker.at = "rules" /\ copied[r].present /\ ~copied[r].known
    /\ breachStart' = [breachStart EXCEPT ![r] = 0]
    /\ Looked(r)
    /\ UNCHANGED <<ruleVars, incidentVars, hookVars, checker, active, ticks, clearAt>>

\* evalOperator says no: resolveIncidents closes what is open, if it can.
RuleHolds(r) ==
    /\ checker.at = "rules" /\ copied[r].known
    /\ breachStart' = [breachStart EXCEPT ![r] = 0]
    /\ \/ incident' = [i \in Incidents |-> IF incident[i].rule = r THEN [incident[i] EXCEPT !.open = FALSE]
                                                                   ELSE incident[i]]
       \/ UNCHANGED incident
    /\ Looked(r)
    /\ UNCHANGED <<ruleVars, opened, announced, unmarked, blind, hookVars, checker, active, ticks, clearAt>>

Since(r) == IF breachStart[r] = 0 THEN ticks ELSE breachStart[r]
\* The first check that sees a breach counts as one of its ticks.
DueEarly(r) == ticks - Since(r) + 1 >= copied[r].duration
Due(r) == ticks - Since(r) >= copied[r].duration
OpenIncidents(r) == {i \in Incidents : incident[i].rule = r /\ incident[i].open}

Breached(r) ==
    /\ checker.at = "rules" /\ copied[r].known
    /\ breachStart' = [breachStart EXCEPT ![r] = Since(r)]
    /\ active' = active \cup {r}
    /\ Looked(r)
    /\ UNCHANGED <<ruleVars, hookVars, ticks, clearAt>>

\* The breach is too young, or its incident has been announced.
BreachGoesOn(r) ==
    /\ Breached(r)
    /\ ~Due(r) \/ \E i \in OpenIncidents(r) : incident[i].triggered
    /\ UNCHANGED <<incidentVars, checker>>

\* openOrGetIncident finds an open incident that was not announced.
GetIncident(r) ==
    /\ Breached(r) /\ Due(r)
    /\ \E i \in OpenIncidents(r) : ~incident[i].triggered /\ checker' = [at |-> "emit", incident |-> i]
    /\ UNCHANGED incidentVars

\* It finds none, or cannot look, and inserts one; without it nothing is announced.
OpenIncident(r) ==
    /\ Breached(r) /\ Due(r)
    /\ \/ OpenIncidents(r) = {} /\ UNCHANGED blind
       \/ OpenIncidents(r) # {} /\ blind' = blind \cup {r}
    /\ \/ /\ opened < MaxIncidents
          /\ opened' = opened + 1
          /\ incident' = [incident EXCEPT ![opened + 1] =
                 [rule |-> r, open |-> TRUE, triggered |-> FALSE,
                  lasted |-> ticks - clearAt[r], duration |-> copied[r].duration]]
          /\ checker' = [at |-> "emit", incident |-> opened + 1]
       \/ UNCHANGED <<opened, incident, checker>>
    /\ UNCHANGED <<announced, unmarked>>

\* emitAlertTriggered: the hooks start their goroutines.
EmitAlertTriggered ==
    /\ checker.at = "emit"
    /\ announced' = [announced EXCEPT ![checker.incident] = @ + 1]
    /\ investigating' = investigating \cup {checker.incident}
    /\ delivering' = delivering \cup {checker.incident}
    /\ checker' = [checker EXCEPT !.at = "mark"]
    /\ UNCHANGED <<ruleVars, incident, opened, unmarked, blind, investigations, copied, breachStart, active,
                   ticks, clearAt>>

\* markIncidentTriggered; its error is ignored.
MarkIncidentTriggered ==
    /\ checker.at = "mark"
    /\ \/ incident' = [incident EXCEPT ![checker.incident].triggered = TRUE] /\ UNCHANGED unmarked
       \/ unmarked' = unmarked \cup {checker.incident} /\ UNCHANGED incident
    /\ checker' = [at |-> "rules", incident |-> 0]
    /\ UNCHANGED <<ruleVars, opened, announced, blind, hookVars, copied, breachStart, active, ticks, clearAt>>

\* The pass ends: breaches of rules that are gone or disabled are forgotten.
CheckEnds ==
    /\ checker.at = "rules" /\ \A r \in Rules : ~copied[r].present
    /\ breachStart' = [r \in Rules |-> IF r \in active THEN breachStart[r] ELSE 0]
    /\ clearAt' = [r \in Rules |-> IF r \in active THEN clearAt[r] ELSE ticks]
    /\ checker' = [checker EXCEPT !.at = "idle"]
    /\ UNCHANGED <<ruleVars, incidentVars, hookVars, copied, active, ticks>>

----------------------------------------------------------------------------
(***************************************************************************)
(* The goroutines of the hooks, and the end of the process.                *)
(***************************************************************************)

\* onAlertTriggered stores its report and trims the table, each if it can.
OnAlertTriggered(i) ==
    /\ i \in investigating
    /\ investigating' = investigating \ {i}
    /\ \/ UNCHANGED investigations
       \/ investigations' = investigations + 1
       \/ investigations' = IF investigations + 1 > KeptInvestigations THEN KeptInvestigations
                                                                       ELSE investigations + 1
    /\ UNCHANGED <<ruleVars, incidentVars, checkVars, delivering>>

\* deliverAlert hands the alarm to the notifier, whose failure is logged.
DeliverAlert(i) ==
    /\ i \in delivering
    /\ delivering' = delivering \ {i}
    /\ UNCHANGED <<ruleVars, incidentVars, checkVars, investigating, investigations>>

\* The process dies anywhere and starts again.
RestartMonitoring ==
    /\ checker' = [at |-> "idle", incident |-> 0]
    /\ copied' = [r \in Rules |-> NoRule]
    /\ breachStart' = [r \in Rules |-> 0]
    /\ active' = {}
    /\ investigating' = {} /\ delivering' = {}
    /\ unmarked' = IF checker.at = "mark" THEN unmarked \cup {checker.incident} ELSE unmarked
    /\ UNCHANGED <<ruleVars, incident, opened, announced, blind, investigations, ticks, clearAt>>

AlertNext ==
    \/ \E r \in Rules :
        \/ HandleAlertCreate(r) \/ HandleAlertUpdate(r) \/ HandleAlertDelete(r)
        \/ SkipRule(r) \/ RuleHolds(r) \/ BreachGoesOn(r) \/ GetIncident(r) \/ OpenIncident(r)
    \/ CheckBegins \/ EmitAlertTriggered \/ MarkIncidentTriggered \/ CheckEnds
    \/ \E i \in Incidents : OnAlertTriggered(i) \/ DeliverAlert(i)
    \/ RestartMonitoring

AlertSpec == AlertInit /\ [][AlertNext]_alertVars

----------------------------------------------------------------------------

\* The types of the variables.
AlertTypeOK ==
    /\ rule \in [Rules -> [present : BOOLEAN, enabled : BOOLEAN, known : BOOLEAN, duration : Nat]]
    /\ incident \in [Incidents -> [rule : Rules \cup {""}, open : BOOLEAN, triggered : BOOLEAN,
                                   lasted : Nat, duration : Nat]]
    /\ opened \in 0..MaxIncidents /\ ticks \in 0..MaxChecks
    /\ checker \in [at : {"idle", "rules", "emit", "mark"}, incident : 0..MaxIncidents]
    /\ breachStart \in [Rules -> 0..MaxChecks] /\ clearAt \in [Rules -> 0..MaxChecks]
    /\ investigating \cup delivering \cup unmarked \subseteq Incidents
    /\ active \cup blind \subseteq Rules
    /\ investigations \in Nat /\ announced \in [Incidents -> Nat]

\* An incident is opened only for a breach that every check saw for the whole
\* duration, whatever was disabled, edited or restarted meanwhile; a rule has one
\* open incident unless its incidents could not be read; and an incident raises
\* one alarm: it is marked only once announced, and announced again only when the
\* mark was lost (alert_checker.go:108-140, evidence.go:150-176).
AlarmPerIncident ==
    \A i \in Incidents :
        /\ incident[i].open => incident[i].lasted > incident[i].duration
        /\ incident[i].triggered => announced[i] > 0
        /\ announced[i] > 1 => i \in unmarked
        /\ \A j \in Incidents \ {i} :
               incident[i].open /\ incident[j].open /\ incident[i].rule = incident[j].rule =>
                   incident[i].rule \in blind

==============================================================================
