------------------------------ MODULE Incidents ------------------------------
(***************************************************************************)
(* lib/security-events.ts: what the monitor knows of the attacks on the    *)
(* site.  Each poll fetches the newest firewall events of its look-back    *)
(* window, stores them by id, counts the stored ones into the incidents    *)
(* they belong to, drops what is past its retention and lists the largest  *)
(* incidents that are active.  Polls overlap in what they fetch; one may   *)
(* be missed, fail, or break off between two batches of its inserts.       *)
(*                                                                         *)
(* A tick is the resolution of the firewall's times.  An address keeps its *)
(* country and network, so a pattern and a time make up an event's id.     *)
(***************************************************************************)
EXTENDS Integers, FiniteSets, FiniteSetsExt

CONSTANTS
    Pattern,       \* source address, rule, action and path: what events are grouped by
    Ignored,       \* the patterns whose action is none of WAF_ACTIONS
    Threshold,     \* events an incident of a pattern needs (three; ten when only logged)
    LookBack,      \* ticks a poll looks back (two minutes)
    Active,        \* ticks an incident counts as active (fifteen minutes)
    Retention,     \* ticks an observation is kept (twenty minutes)
    Day,           \* ticks of a day; the incident id contains the day
    Fetchable,     \* events one answer holds (250)
    Batch,         \* observations inserted at once (40)
    Listable,      \* incidents shown (8)
    Gap,           \* ticks between two polls at most
    MaxHits,       \* bound: firewall events
    Horizon        \* bound: the last tick

ASSUME IncidentConstants ==
    /\ {LookBack, Active, Retention, Day, Fetchable, Batch, Listable, Gap, Horizon}
           \subseteq Nat \ {0}
    /\ Threshold \in [Pattern -> Nat \ {0}]
    /\ LookBack <= Retention /\ Active < Retention

VARIABLES
    now,           \* ticks since the start
    hits,          \* the firewall's log; nr tells apart events alike in all else
    stored,        \* security_observations
    incident,      \* security_incidents, by pattern and day
    polled,        \* the time of the last poll and the incidents it listed
    known          \* every observation ever stored

incidentVars == <<now, hits, stored, incident, polled, known>>

Hit == [of : Pattern, at : 0 .. Horizon, nr : Nat]
Observation == [of : Pattern, at : 0 .. Horizon]

DayOf(t) == t \div Day
Incident == Pattern \X (0 .. DayOf(Horizon))
IncidentOf(o) == <<o.of, DayOf(o.at)>>

Never == 0 - 1
NoIncident == [count |-> 0, last |-> Never]

IncidentsInit ==
    /\ now = 0
    /\ hits = {} /\ stored = {} /\ known = {}
    /\ incident = [i \in Incident |-> NoIncident]
    /\ polled = [at |-> 0, alarms |-> {}]

\* Time passes, but no further than the next poll may be away.
Tick ==
    /\ now < Horizon /\ now - polled.at < Gap
    /\ now' = now + 1
    /\ UNCHANGED <<hits, stored, incident, polled, known>>

Strike(p) ==
    /\ Cardinality(hits) < MaxHits
    /\ hits' = hits \union
           {[of |-> p, at |-> now, nr |-> Cardinality({h \in hits : h.of = p /\ h.at = now})]}
    /\ UNCHANGED <<now, stored, incident, polled, known>>

----------------------------------------------------------------------------
\* fetchFirewallEvents: of the events of the window the newest, in whatever
\* order the firewall gives to those of one time.
Answers ==
    LET window == {h \in hits : h.at >= now - LookBack}
    IN  {a \in SUBSET window :
            /\ Cardinality(a) <= Fetchable
            /\ a # window => Cardinality(a) = Fetchable
            /\ \A g \in a, h \in window \ a : g.at >= h.at}

\* insertObservations stores batch after batch, newest first, until one fails;
\* none is stored when the firewall does not answer.
Inserted(answer) ==
    LET events == {h \in answer : h.of \notin Ignored}
    IN  {k \in SUBSET events :
            /\ k # events => Cardinality(k) % Batch = 0
            /\ \A g \in k, h \in events \ k : g.at >= h.at}

\* firewallObservation: events alike in all but their number have one id.
Observed(events) == {[of |-> h.of, at |-> h.at] : h \in events}

RowsOf(rows, i) == {o \in rows : IncidentOf(o) = i}
Latest(rows) == Max({o.at : o \in rows})

\* Adds what was fetched to the old count.
MutantRollup(i, rows, new) ==
    IF RowsOf(new, i) = {} THEN incident[i]
    ELSE [count |-> incident[i].count + Cardinality(RowsOf(new, i)),
          last |-> Latest(RowsOf(rows, i))]

\* observationRollupStatement: the incident of an observation that was inserted,
\* or had been before, is counted anew from the rows that are stored.
Rollup(i, rows, new) ==
    IF RowsOf(new, i) = {} THEN incident[i]
    ELSE [count |-> Cardinality(RowsOf(rows, i)), last |-> Latest(RowsOf(rows, i))]

\* Largest first, then latest first; the ids, which are hashes, decide the rest.
Precedes(x, y) == x.count > y.count \/ (x.count = y.count /\ x.last >= y.last)

\* listActiveSecurityIncidents
Listings(rows) ==
    LET active == {i \in Incident : /\ rows[i].count >= Threshold[i[1]]
                                    /\ rows[i].last >= now - Active}
    IN  {l \in SUBSET active :
            /\ Cardinality(l) <= Listable
            /\ l # active => Cardinality(l) = Listable
            /\ \A i \in l, j \in active \ l : Precedes(rows[i], rows[j])}

\* One invocation: ingestCloudflareSecurityEvents, purgeExpiredSecurityEvents,
\* listActiveSecurityIncidents, under the lease of the monitor's row.  The
\* incidents outlive every other time here.
Poll ==
    /\ now > polled.at
    /\ \E answer \in Answers : \E events \in Inserted(answer) :
           LET new == Observed(events)
               rows == stored \union new
           IN  /\ stored' = {o \in rows : o.at + Retention >= now}
               /\ incident' = [i \in Incident |-> Rollup(i, rows, new)]
               /\ known' = known \union new
    /\ \E l \in Listings(incident') : polled' = [at |-> now, alarms |-> l]
    /\ UNCHANGED <<now, hits>>

IncidentStep == Tick \/ Poll \/ \E p \in Pattern : Strike(p)

----------------------------------------------------------------------------
IncidentsTypeOK ==
    /\ now \in 0 .. Horizon
    /\ hits \subseteq Hit
    /\ stored \subseteq Observation /\ known \subseteq Observation
    /\ incident \in [Incident -> [count : Nat, last : Int]]
    /\ polled \in [at : 0 .. Horizon, alarms : SUBSET Incident]

\* Polls fetch most events twice, lose some and forget them all later.  Still,
\* what is shown has the number of so many different events, close to one
\* another and the last of them recent; and an incident with enough recent
\* events that were stored is shown, unless the list is full of others with as
\* many.
AlertsAreTrue ==
    \A i \in Incident :
        LET mine == RowsOf(known, i)
            recent == {o \in mine : o.at >= polled.at - Active}
        IN  /\ i \in polled.alarms =>
                   /\ recent # {}
                   /\ \E s \in SUBSET mine :
                          /\ Cardinality(s) = incident[i].count
                          /\ Cardinality(s) >= Threshold[i[1]]
                          /\ \A o, p \in s : o.at - p.at <= Retention + Gap
            /\ Cardinality(recent) >= Threshold[i[1]] =>
                   \/ i \in polled.alarms
                   \/ /\ Cardinality(polled.alarms) = Listable
                      /\ \A j \in polled.alarms : incident[j].count >= Cardinality(recent)
=============================================================================
