\* The preferences of this plug-in instead of those that run_tshark expects.
SPECIFICATION Spec
CONSTANTS
  Templates <- MCTemplates
  Decoded <- MCDecoded
  PlanFile <- MCPlanFile
  Template <- TemplateIds
  Packets <- runDataPlan
  Shown <- Pdml
  ReadBack <- PlanFromPDML
  Equivalent <- equiv_plan_xml
  Says <- Agrees
  Readable <- Plain
  Invocation <- MCInvocation
  Registered <- NewPreferences
  MaxRuns = 1
INVARIANT EchoPasses
CHECK_DEADLOCK FALSE
