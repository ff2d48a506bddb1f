SPECIFICATION FairSpec
CONSTANTS
  Specs <- MCFewSpecs
  Broken <- MCBroken
  Resource <- MCResource
  Content <- MCContent
  NoObject = "none"
  Foreign = "foreign"
  Manifest <- MCManifest
  Domains <- MCDomains
  NoDomains = "nodomains"
  MaxVersions = 4
  MaxUid = 1
  MaxFaults = 1
PROPERTIES
  Converges
  Refines
