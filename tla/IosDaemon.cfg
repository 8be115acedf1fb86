CONSTANTS
  alice = alice
  q1 = q1
  q2 = q2
  c1 = c1
  Local = Local
  None = None
  Identity = {alice}
  Req = {q1, q2}
  Cli = {c1}
  Grants = {0, 1}
  Kinds = {"revoke", "acquire", "release"}
  MaxTokens = 1
  MaxBoots = 2
  MaxFaults = 1
SPECIFICATION Spec
SYMMETRY Symmetry
INVARIANTS
  TypeOK
  ServedWithinGrants
  RevokedCutOff
  TunnelWorks
