\* Descriptors of up to two files, sizes whose sum overflows or just fits.
CONSTANTS
    Descriptors <- MCDescriptors
    Names <- MCNames
    MaxInt = 7
SPECIFICATION Spec
INVARIANTS HashIsFaithful TotalIsExact InventoryOfTree
CHECK_DEADLOCK FALSE
