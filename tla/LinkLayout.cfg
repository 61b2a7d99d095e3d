CONSTANTS
  Objects <- MCObjects
  Contents <- MCContents
  Banks = {0, 2, 3}
SPECIFICATION Spec
INVARIANTS
  TypeOK
  InternalRamIsShared
  BitsAreAddressable
  StackIsFree
  BanksAreReserved
  RefusedOnlyWhenFull
CHECK_DEADLOCK FALSE
