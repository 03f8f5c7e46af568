SPECIFICATION Spec
CONSTANTS
  AddressBits = 5
  NoInterface = NoInterface
  NoEntry = NoEntry
  Slug <- MCSlug
  PrefixSlug <- MCPrefixSlug
  Architectures <- MCArchitectures
  Plans <- MCPlans
  OtherClouds <- MCOtherClouds
INVARIANTS
  TypeOK
  RefusedOnlyForCollisions
  SmallestCover
  NoPrefixIsLost
  AcceptedAddressesAreSound
  NoSilentDangling
  AssembledIsBuildable
  RolesReachTheirHosts
  InventoryNeverInvents
CHECK_DEADLOCK FALSE
