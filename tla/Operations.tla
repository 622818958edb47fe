----------------------------- MODULE Operations -----------------------------
(***************************************************************************)
(* The parts that run beside the community and share no state with it or   *)
(* with one another: applications of moderators, the security monitor and  *)
(* its incidents, the status message, backups, rate limits, scores, and    *)
(* the moderators' panel, its dialogs and the staff's lists.  In each      *)
(* behaviour one part is at work: what the others do changes nothing for   *)
(* it.                                                                     *)
(***************************************************************************)
EXTENDS Applications, Monitor, Incidents, StatusBoard, Backup, RateLimit, Scores, Panel,
        Dialogs, Queues

CONSTANT Scenarios   \* bounds: which part is at work, on which applications, with what budgets

ASSUME ScenariosConstants ==
    \A s \in Scenarios : s.people \in [Account -> Person] /\ s.budget \in Nat
                          /\ s.clicks \in [Screen -> Nat]

VARIABLE part        \* the part at work

vars == <<part, applicationVars, monitorVars, incidentVars, statusVars, backupVars, rateVars,
          scoreVars, panelVars, dialogVars, queueVars>>

Init ==
    \E s \in Scenarios :
        /\ part = s.part
        /\ ApplicationsInit(s.people, s.ids, s.desks, s.budget)
        /\ MonitorInit(s.budget)
        /\ IncidentsInit
        /\ StatusInit(s.budget)
        /\ BackupInit
        /\ RateInit
        /\ ScoresInit /\ (s.part # "scores" => sample \in MemberSample)
        /\ PanelInit(s.submissions, s.clicks)
        /\ DialogsInit
        /\ QueuesInit /\ (s.part # "lists" => panel = "operations")

Next ==
    \/ /\ part = "applications" /\ ApplicationStep
       /\ UNCHANGED <<part, monitorVars, incidentVars, statusVars, backupVars, rateVars, scoreVars,
                      panelVars, dialogVars, queueVars>>
    \/ /\ part = "monitor" /\ MonitorStep
       /\ UNCHANGED <<part, applicationVars, incidentVars, statusVars, backupVars, rateVars,
                      scoreVars, panelVars, dialogVars, queueVars>>
    \/ /\ part = "incidents" /\ IncidentStep
       /\ UNCHANGED <<part, applicationVars, monitorVars, statusVars, backupVars, rateVars,
                      scoreVars, panelVars, dialogVars, queueVars>>
    \/ /\ part = "status" /\ StatusStep
       /\ UNCHANGED <<part, applicationVars, monitorVars, incidentVars, backupVars, rateVars,
                      scoreVars, panelVars, dialogVars, queueVars>>
    \/ /\ part = "backup" /\ BackupStep
       /\ UNCHANGED <<part, applicationVars, monitorVars, incidentVars, statusVars, rateVars,
                      scoreVars, panelVars, dialogVars, queueVars>>
    \/ /\ part = "rate" /\ RateStep
       /\ UNCHANGED <<part, applicationVars, monitorVars, incidentVars, statusVars, backupVars,
                      scoreVars, panelVars, dialogVars, queueVars>>
    \/ /\ part = "scores" /\ ScoreStep
       /\ UNCHANGED <<part, applicationVars, monitorVars, incidentVars, statusVars, backupVars,
                      rateVars, panelVars, dialogVars, queueVars>>
    \/ /\ part = "panel" /\ PanelStep
       /\ UNCHANGED <<part, applicationVars, monitorVars, incidentVars, statusVars, backupVars,
                      rateVars, scoreVars, dialogVars, queueVars>>
    \/ /\ part = "dialogs" /\ DialogStep
       /\ UNCHANGED <<part, applicationVars, monitorVars, incidentVars, statusVars, backupVars,
                      rateVars, scoreVars, panelVars, queueVars>>
    \/ /\ part = "lists" /\ QueueStep
       /\ UNCHANGED <<part, applicationVars, monitorVars, incidentVars, statusVars, backupVars,
                      rateVars, scoreVars, panelVars, dialogVars>>

\* Both retention jobs run every five minutes, and time passes.
Fairness ==
    /\ WF_applicationVars(ExpireStale)
    /\ WF_applicationVars(PurgeAnswers)
    /\ \A i \in Application : WF_applicationVars(Age(i))

Spec == Init /\ [][Next]_vars /\ Fairness

----------------------------------------------------------------------------
\* Every row, message, workflow and screen has its type.
TypeOK ==
    /\ ApplicationsTypeOK /\ MonitorTypeOK /\ IncidentsTypeOK /\ StatusTypeOK
    /\ BackupTypeOK /\ RateTypeOK /\ ScoresTypeOK /\ PanelTypeOK
    /\ DialogsTypeOK /\ QueuesTypeOK
=============================================================================
