SPECIFICATION Spec
CONSTANTS
  AddressBits = 5
  NoInterface = NoInterface
  NoEntry = NoEntry
  Slug <- MCSlug
  PrefixSlug <- MCPrefixSlug
  Architectures <- MCArchitectures
  Plans <- MCPlans
  OtherClouds <- NoOtherClouds
INVARIANT RolesStayWithTheirHosts
CHECK_DEADLOCK FALSE
