\* Two handlers, two saves, one failed cleanup, one restart.
SPECIFICATION FairSpec
CHECK_DEADLOCK FALSE
CONSTANTS
  Nil = Nil
  Empty = Empty
  Garbled = Garbled
  r1 = r1
  r2 = r2
  wg1 = wg1
  wg2 = wg2
  pass = pass
  veth = veth
  hostname = hostname
  veth6 = veth6
  listen = listen
  admin = admin
  Texts <- MCTexts
  Addresses <- MCAddresses
  Addresses6 <- MCAddresses6
  Endpoints <- MCEndpoints
  DefListen = listen
  DefUser = admin
  Doc = {"on", "off", "wg2", "client", "badaddr", "norouter", "noiface", "r2"}
  Offered <- MCOffered
  Writer = {p, q}
  MaxSaves = 2
  MaxFaults = 1
  MaxCrashes = 1
INVARIANTS TypeOK OneStack
PROPERTIES AppliedEventually WantedRulesInstalled UnwantedRulesRemoved StaleIfaceRulesGone
