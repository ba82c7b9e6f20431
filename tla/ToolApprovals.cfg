\* One request for one of two add-ons, asked and decided by two handlers that race under
\* fairness, and two agents that select add-ons.
SPECIFICATION FairSpec
CONSTANTS
  a1 = a1
  r1 = r1
  None = None
  Handlers = {h1, h2}
  Approvals = {p1}
  Agents = {a1, a2}
  Modules = {1, 2}
  Requests = {r1}
  AgentOf <- OneRequest
  ModuleOf <- OneRequestModule
INVARIANTS
  TypeOK
  RunsAtMostOnce
  InstalledWhileUsed
  InsertNeverConflicts
  ReceiptNeverStale
PROPERTIES
  DecisionsAreFinal
  ImplementsPermission
  HandlersEnd
