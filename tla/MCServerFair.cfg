\* One client that keeps retrying, alone on its address.
SPECIFICATION FairProxySpec
CONSTANTS
  a1 = a1
  a2 = a2
  i0 = i0
  i1 = i1
  i2 = i2
  k1 = k1
  k2 = k2
  Nil = Nil
  Addr = {a1}
  Index = {i0, i1}
  Zero = i0
  Key = {k1, k2}
  Sid = {s1, s2}
  Uses <- OneUse
  Author <- OneAuthor
  TTL = 1
  MaxVer = 1
  MaxChanges = 1
  Retrying = {a1}
PROPERTIES SoleClientVerifiable 
