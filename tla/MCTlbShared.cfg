SPECIFICATION Spec
CONSTANTS
  c1 = c1
  c2 = c2
  c3 = c3
  k = k
  p = p
  q = q
  sk = sk
  sp = sp
  sq = sq
  sx = sx
  CPUs = {c1, c2, c3}
  Kernel = k
  Users = {p, q}
  Spaces = {sk, sp, sq, sx}
  SpaceOf <- SharedSpace
  Tag <- OwnTags
  Foreign = FALSE
  Loads <- SharedLoads
  Frames = {1, 2, 3, 4, 5, 6}
  None = None
INVARIANT FreedUnreachable
CHECK_DEADLOCK FALSE
