------------------------------ MODULE MCDesktop ------------------------------
(* Instances of Supervision, Accounts and EnhancedApp for TLC.               *)
EXTENDS Supervision, Accounts, EnhancedApp

\* The three share no state of these models: the daemon that runs, the
\* accounts it knows and the App it patches are each explored by themselves.
VARIABLE part

desktopVars == <<part, supervisionVars, accountVars, enhancedVars>>

DesktopInit ==
  /\ part \in {"supervision", "accounts", "enhanced"}
  /\ SupervisionInit /\ AccountsInit /\ EnhancedInit
  /\ part # "supervision" => lock = Other
  /\ part # "accounts" => platform = "wechat" /\ Listed(mem) = {}
  /\ part # "enhanced" => ~app.up /\ visible = 2

DesktopNext ==
  /\ UNCHANGED part
  /\ \/ part = "supervision" /\ SupervisionNext /\ UNCHANGED <<accountVars, enhancedVars>>
     \/ part = "accounts" /\ AccountsNext /\ UNCHANGED <<supervisionVars, enhancedVars>>
     \/ part = "enhanced" /\ EnhancedNext /\ UNCHANGED <<supervisionVars, accountVars>>

\* the fairness of Supervision and of EnhancedApp
DesktopFairness ==
  /\ \A d \in Daemons : WF_supervisionVars(part = "supervision" /\ DaemonStep(d))
  /\ \A t \in Starts : /\ WF_supervisionVars(part = "supervision" /\ StartStep(t))
                       /\ WF_supervisionVars(part = "supervision" /\ Tick(t))
  /\ WF_supervisionVars(part = "supervision" /\ Poll)
  /\ WF_supervisionVars(part = "supervision" /\ Apply)
  /\ WF_supervisionVars(part = "supervision" /\ CooledDown)
  /\ WF_enhancedVars(part = "enhanced" /\ ClientLoads)
  /\ WF_enhancedVars(part = "enhanced" /\ Attach)

DesktopSpec == DesktopInit /\ [][DesktopNext]_desktopVars /\ DesktopFairness
=============================================================================
