---------------------------- MODULE MCOperations ----------------------------
(***************************************************************************)
(* What surrounds the engine: rollouts, the store of dumps, the crash and  *)
(* the dump agent, the versions and the dashboard.  They share neither     *)
(* state nor files: a behaviour is that of one subject.  The store of      *)
(* dumps has two chaining writers and two controllers in one directory,    *)
(* empty or with a ledger whose last line was cut off.                     *)
(***************************************************************************)
EXTENDS RolloutManager, CanaryDeployment, DumpStore, CrashAgent, DumpAgent, Versioning,
        Dashboard

CONSTANTS s1, s2, c1, c2

VARIABLE subject

MCStorers == {s1, s2}
MCControllers == {c1, c2}
MCLedgers == {<< >>, <<Line("torn", Genesis, Genesis)>>}
Symmetric == Permutations(MCStorers) \cup Permutations(MCControllers)

limit(s, e, g) == [minSuccess |-> s, maxErrors |-> e, maxGrowth |-> g]

(* DEFAULT_CANARY_STAGES without the second.                               *)
MCStages == <<limit(70, 50, 10), limit(80, 150, 5), limit(85, 200, 3)>>
MCMetrics == {m \in [success : {65, 82, 100}, errors : {20, 60}, growth : {4, 20}, healthy : BOOLEAN] :
                m.growth = 20 \/ m.errors = 60 => m.success = 100 /\ m.healthy}

operations == <<managerVars, canaryVars, automationVars, dumpVars, agentVars, dumpAgentVars,
                versioningVars, dashboardVars>>

Init ==
  /\ subject \in {"manager", "canary", "automation", "dumps", "agent", "dump agent",
                  "versions", "dashboard"}
  /\ ManagerInit /\ CanaryInit /\ AutomationInit /\ DumpInit /\ AgentInit /\ DumpAgentInit
  /\ VersioningInit /\ DashboardInit
  /\ subject = "dumps" \/ ledger = << >>
  /\ subject = "dump agent" \/ loaded = {}

Only(name, others) == subject = name /\ UNCHANGED <<subject, others>>

Next ==
  \/ Only("manager", <<canaryVars, automationVars, dumpVars,
          agentVars, dumpAgentVars, versioningVars, dashboardVars>>)
     /\ ManagerNext
  \/ Only("canary", <<managerVars, automationVars, dumpVars,
          agentVars, dumpAgentVars, versioningVars, dashboardVars>>)
     /\ CanaryNext
  \/ Only("automation", <<managerVars, canaryVars, dumpVars,
          agentVars, dumpAgentVars, versioningVars, dashboardVars>>)
     /\ AutomationNext
  \/ Only("dumps", <<managerVars, canaryVars, automationVars,
          agentVars, dumpAgentVars, versioningVars, dashboardVars>>)
     /\ DumpNext
  \/ Only("agent", <<managerVars, canaryVars, automationVars,
          dumpVars, dumpAgentVars, versioningVars, dashboardVars>>)
     /\ AgentNext
  \/ Only("dump agent", <<managerVars, canaryVars, automationVars,
          dumpVars, agentVars, versioningVars, dashboardVars>>)
     /\ DumpAgentNext
  \/ Only("versions", <<managerVars, canaryVars, automationVars,
          dumpVars, agentVars, dumpAgentVars, dashboardVars>>)
     /\ VersioningNext
  \/ Only("dashboard", <<managerVars, canaryVars, automationVars,
          dumpVars, agentVars, dumpAgentVars, versioningVars>>)
     /\ DashboardNext

Spec == Init /\ [][Next]_<<subject, operations>>
=============================================================================
