SPECIFICATION Spec
CONSTANTS
  KeepClean = FALSE
  WrapOrdered = FALSE
  Jsb = Jsb
  Sb = Sb
  Inode = Inode
  x = x
  Pool <- MCPool
  MaxLen = 16
  Tpd = 2
  MaxWork = 4
  MaxFaults = 2
PROPERTIES ImplementsAtomicStore
CHECK_DEADLOCK FALSE
