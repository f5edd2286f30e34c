SPECIFICATION FairSpec
CONSTANTS
  Token = {t1}
  Agent = {a1, a2}
  Host = {h1, h2}
  Replica = {r1}
  None = None
PROPERTIES
  ServiceReports
  RevocationObeyed
