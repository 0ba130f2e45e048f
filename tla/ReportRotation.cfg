SPECIFICATION Spec
CONSTANTS
  c1 = c1
  c2 = c2
  r1 = r1
  r2 = r2
  d1 = d1
  d2 = d2
  n1 = n1
  n2 = n2
  k1 = k1
  k2 = k2
  k3 = k3
  Chains = {c1, c2}
  Registries = {r1}
  Dons = {d1, d2}
  Nodes = {n1, n2}
  Keys = {k1, k2, k3}
  Unrecoverable = unrecoverable
  None = None
  RawReports <- FewReports
  Configs <- OneOfTwoChains
  Deployments <- MCDeployments
  MaxF = 1
  MaxChanges = 1
INVARIANTS
  VerifiedByAcceptedRegistry
PROPERTIES
  VerifiedStaysVerified
