\* The documented end of an inactive session, for a client that rekeyed.
SPECIFICATION TableSpec
CONSTANTS
  a1 = a1
  a2 = a2
  i0 = i0
  i1 = i1
  i2 = i2
  Nil = Nil
  Addr = {a1, a2}
  Index = {i0, i1, i2}
  Zero = i0
  Key = {k1}
  Sid = {s1, s2, s3}
  Uses <- MCUses
  TTL = 1
PROPERTY ExpiredRoutesGone
