\* A deployment behind an identity provider
SPECIFICATION TwinSpec
CONSTANTS
  Tenants <- MCTenants
  Namespaces <- MCNamespaces
  Principals <- MCPrincipals
  Connectors = {"drive"}
  Paths <- MCPaths
  Slugs <- MCSlugs
  Hidden = {"_drafts"}
  Nothing = Nothing
  Malformed = Malformed
  Tokens <- MCTokens
  Contents = {"text", "scan", "tome", "mess"}
  Extracts <- MCExtracts
  Size <- MCSize
  Callers = {c1}
  SettingsUsed <- MCOidc
  Populations <- MCPopulations
  Requests <- MCRequests
  MaxCalls = 1
  Secrets <- MCSecrets
INVARIANTS AllowedToolsWork
CHECK_DEADLOCK FALSE
