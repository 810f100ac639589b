SPECIFICATION Spec
CONSTANTS
  Jsb = Jsb
  Sb = Sb
  Inode = Inode
  x = x
  Pool <- MCPool
  MaxLen = 16
  Tpd = 2
  KeepClean = TRUE
  WrapOrdered = TRUE
  MaxWork = 4
  MaxFaults = 2
INVARIANTS NoForeignData NoTornTruncate FlagMeansReplay
PROPERTIES ImplementsAtomicStore
CHECK_DEADLOCK FALSE
