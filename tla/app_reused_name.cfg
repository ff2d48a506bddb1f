SPECIFICATION Spec
CONSTANTS
  Specs <- MCSpecs
  Broken <- MCBroken
  Resource <- MCResource
  Content <- MCContent
  NoObject = "none"
  Foreign = "foreign"
  Manifest <- MCManifest
  Domains <- MCDomains
  NoDomains = "nodomains"
  MaxVersions = 4
  MaxUid = 2
  MaxFaults = 0
INVARIANTS
  DeployedIsApplied
