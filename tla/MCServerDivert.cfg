\* Two failed calls, one edit, cleanups in progress.
SPECIFICATION Spec
CONSTANTS
  v4 = v4
  v6 = v6
  old = old
  new4 = new4
  new6 = new6
  mine = mine
  masked = masked
  others = others
  dstnat = dstnat
  srcnat = srcnat
  Nil = Nil
  Proc = {hook, cleanup, masqhook, masqcleanup}
  Hook = hook
  Cleanup = cleanup
  MasqHook = masqhook
  MasqCleanup = masqcleanup
  Masq = {masqhook, masqcleanup}
  Mark <- MCMark
  Markers = {mine, masked, others}
  Fam = {v4, v6}
  V4 = v4
  V6 = v6
  Target <- MCTarget
  NetOf <- MCNetOf
  FirstAddress = "a"
  Chain = {dstnat, srcnat}
  DstNat = dstnat
  SrcNat = srcnat
  Value = {old, new4, new6}
  Scenarios <- MCScenarios
  MaxId = 10
  MaxFaults = 2
  MaxEdits = 1
INVARIANT TypeOK
PROPERTIES ForeignUntouched Published Unpublished6 Masqueraded
