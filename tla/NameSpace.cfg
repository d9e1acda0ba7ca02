SPECIFICATION Spec
CONSTANTS
  Programs <- MCPrograms
  Plan <- MCPlan
  Workloads <- MCWorkloads
  MAX_SERVICE_CLASSES = 2
  MAX_SERVICES = 3
  MAX_QUERIES = 2
  Backlog = 2
  MaxKills = 1
  MaxRestarts = 1
  MaxCatalog = 2
INVARIANTS
  LookupExact
  NamesUnique
CHECK_DEADLOCK FALSE
