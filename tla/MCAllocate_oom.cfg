SPECIFICATION Spec
CONSTANTS
    l1Size = 24
    l1UnreservedBase = 5
    scratchL1RegionSize = 4
    nocL1AddressAlignBytes = 4
    dramChannelSize = 16
    dramUnreservedBase = 4
    dramUnreservedEnd = 16
    nocDRAMAddressAlignBytes = 8
    NDEBUG = FALSE
    MaxOps = 3
    Modules <- MCModules
INVARIANT OutOfMemoryAsserts
