CONSTANTS
  a = a
  b = b
  c = c
  gline = gline
  shun = shun
  wide = wide
  u = u
  Server = {a, b, c}
  Link <- Circle
  MaxConnects = 3
  MaxTroubles = 1
  Ircd = {a, b}
  Pair <- OnePair
  By <- SetBy
  Key = {gline, shun, wide}
  Shun = {shun, wide}
  Duration = {0, 1}
  Client = {u}
  ServerOf <- AtA
  Hits <- AllHit
  Glob <- AllHit
  MaxTime = 2
  MaxAdds = 2
  MaxRemovals = 1
  MaxSplits = 1
  west = west
  mid = mid
  east = east
  Nil = Nil
SPECIFICATION NetSpec
CHECK_DEADLOCK FALSE
INVARIANTS LinksSound BansBite AgreedAtRest HeardRight
PROPERTY CircleSettles
