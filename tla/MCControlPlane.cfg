SPECIFICATION Spec
CONSTANTS
  Requests = {r1}
  Inputs <- MCInputs
  Resource <- MCResource
  Digests <- MCDigests
  DefinitionOf <- MCDefinitionOf
  Catalogue <- MCCatalogue
  Mandates <- MCMandates
  Policies <- MCPolicies
  OwnSeeds <- MCOwnSeeds
  PeerSeeds <- MCPeerSeeds
  MinSamples = 3
  MaxSamples = 3
  Threshold = 2
  DenyLevel = 1
  Pdps = {"declarative", "allowlist"}
  MaxEdits = 3
  MaxFaults = 1
  None = None
INVARIANTS AdmittedIsGrounded 
PROPERTY ChangeWaitsForApproval
