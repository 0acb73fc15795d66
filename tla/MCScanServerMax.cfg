CONSTANTS
  r1 = r1
  r2 = r2
  Requests <- MCPair
  Limited = TRUE
  Size = 1
  Disabled = {"html", "pdf", "email"}
  MailConfigured = TRUE
  ChromeMayDie = FALSE
  OrphanCap = 1
SPECIFICATION Spec
INVARIANT ChromesWithinMax
