CONSTANTS
  Client = {c1, c2, c3, c4}
  Listener = {l1}
  SSLListener = {}
  Me = Me
  Nil = Nil
  UseSSL = FALSE
SPECIFICATION Spec
SYMMETRY AddressSymmetry
INVARIANTS CountsExact UnknownExact ClientsSound
PROPERTIES OnlyBranchFreed TreeSpec
