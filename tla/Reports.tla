------------------------------- MODULE Reports -------------------------------
(***************************************************************************)
(* What the API does with error reports: how one is stored and shown, the  *)
(* alert rules, how they are made and what they are judged by, the         *)
(* channels that are told of a firing and the summary of a project. They   *)
(* meet in the database or, a firing, in a call nobody waits for, so that  *)
(* a behaviour runs one of them.                                           *)
(***************************************************************************)
EXTENDS AlertEvaluation, Notifications, Dashboard, StoredReports, AlertRules

VARIABLE part

reportsVars == <<part, vars, notificationVars, dashboardVars, storedVars, alertRulesVars>>

ReportsInit ==
    /\ part \in {"alerts", "channels", "dashboard", "stored", "rules"}
    /\ Init
    /\ NotificationInit
    /\ part # "channels" => ~botToken /\ adapter = [c \in Channels |-> "slack"]
    /\ DashboardInit /\ (part # "dashboard" => signal = "reports")
    /\ StoredInit
    /\ AlertRulesInit

ReportsNext ==
    \/ /\ part = "alerts" /\ Next
       /\ UNCHANGED <<part, notificationVars, dashboardVars, storedVars, alertRulesVars>>
    \/ /\ part = "channels" /\ NotificationNext
       /\ UNCHANGED <<part, vars, dashboardVars, storedVars, alertRulesVars>>
    \/ /\ part = "dashboard" /\ DashboardNext
       /\ UNCHANGED <<part, vars, notificationVars, storedVars, alertRulesVars>>
    \/ /\ part = "stored" /\ StoredNext
       /\ UNCHANGED <<part, vars, notificationVars, dashboardVars, alertRulesVars>>
    \/ /\ part = "rules" /\ AlertRulesNext
       /\ UNCHANGED <<part, vars, notificationVars, dashboardVars, storedVars>>

ReportsSpec == ReportsInit /\ [][ReportsNext]_reportsVars
=============================================================================
