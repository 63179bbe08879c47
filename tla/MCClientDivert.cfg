\* A failed call, a move, an edit, and a cleanup in progress.
SPECIFICATION FairSpec
CONSTANTS
  v4 = v4
  v6 = v6
  x4 = x4
  y4 = y4
  x6 = x6
  mine = mine
  others = others
  hook = hook
  cleaner = cleaner
  Nil = Nil
  Proc = {hook, cleaner}
  Hook = hook
  Mark <- MCMark
  Masq = {}
  Markers = {mine, others}
  Fam = {v4, v6}
  V4 = v4
  V6 = v6
  FamOf <- MCFamOf
  Chain = {output, dstnat}
  Output = output
  Value = {x4, x6}
  MaxId = 8
  MaxFaults = 1
  MaxMoves = 1
  MaxEdits = 1
INVARIANT TypeOK
PROPERTIES ForeignUntouched ActiveConverges NoneConverges OtherTableClearedOnce NoInterruption
