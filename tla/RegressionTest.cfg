\* Two tests in one directory, in any of the ways listed, either of them killed
\* at any step.  After the last nothing happens, so no deadlock is looked for.
SPECIFICATION Spec
CONSTANTS
  Templates <- MCTemplates
  Decoded <- MCDecoded
  PlanFile <- MCPlanFile
  Template <- TemplateIds
  Packets <- runDataPlan
  Shown <- Pdml
  ReadBack <- PlanFromPDML
  Equivalent <- equiv_plan_xml
  Says <- Agrees
  Readable <- Plain
  Invocation <- MCInvocation
  Registered <- OldPreferences
  MaxRuns = 2
INVARIANTS TypeOK VerdictRight OwnTraffic NothingLeft EchoPasses
PROPERTY TestEnds
CHECK_DEADLOCK FALSE
