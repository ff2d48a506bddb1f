SPECIFICATION FairSpec
CONSTANTS
  Specs <- MCSpecs
  Broken <- MCBroken
  Resource <- MCResource
  Content <- MCContent
  NoObject = "none"
  Foreign = "foreign"
  Manifest <- MCManifest
  Domains <- MCDomains
  NoDomains = "nodomains"
  MaxVersions = 2
  MaxUid = 1
  MaxFaults = 0
PROPERTIES
  FailureReported
