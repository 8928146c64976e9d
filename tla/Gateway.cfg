\* Two calls, one after the other or overlapping, against two gateways at once
SPECIFICATION TwinSpec
CONSTANTS
  Tenants <- MCTenants
  Namespaces <- MCNamespaces
  Principals <- MCPrincipals
  Connectors = {"drive"}
  Paths <- MCPaths
  Slugs <- MCSlugs
  Hidden = {"_drafts"}
  Nothing = Nothing
  Malformed = Malformed
  Tokens <- MCTokens
  Contents = {"text", "scan", "tome", "mess"}
  Extracts <- MCExtracts
  Size <- MCSize
  Callers = {c1, c2}
  SettingsUsed <- MCSettings
  Populations <- MCPopulations
  Requests <- MCRequests
  MaxCalls = 2
  Secrets <- MCSecrets
INVARIANTS TypeOK RefusedLeavesRows NoLeak
PROPERTIES Isolated
SYMMETRY GatewaySymmetry
CHECK_DEADLOCK FALSE
