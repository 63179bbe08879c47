\* Two clients take turns on one address; the router changes once.
SPECIFICATION ProxySpec
CONSTANTS
  a1 = a1
  a2 = a2
  i0 = i0
  i1 = i1
  i2 = i2
  k1 = k1
  k2 = k2
  Nil = Nil
  Addr = {a1}
  Index = {i0, i1, i2}
  Zero = i0
  Key = {k1, k2}
  Sid = {s1, s2, s3}
  Uses <- SharedUses
  Author <- SharedAuthor
  TTL = 0
  MaxVer = 1
  MaxChanges = 1
  Retrying = {}
SYMMETRY SidSymmetry
INVARIANTS
  ProxyTypeOK
  ForwardedRoutable
PROPERTY OpenedResponseVerifiable
