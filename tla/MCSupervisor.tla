---------------------------- MODULE MCSupervisor ---------------------------
(* Instances of the supervisor: the settings the panel offers.              *)
EXTENDS Supervisor

CONSTANTS r1, r2, wg1, wg2, pass, veth, hostname, veth6, listen, admin

MCTexts      == {r1, r2, wg1, wg2, pass, veth, hostname, veth6, listen, admin}
MCAddresses  == {r1, r2, veth, veth6}
MCAddresses6 == {veth6}
MCEndpoints  == {listen}

\* A profile as the page sends it, without the fields that have defaults.
Sent(address, password, iface, container, divert, masq) ==
  [NoProfile EXCEPT !.remoteAddr = r1, !.remotePort = 13231, !.containerAddr = container,
                    !.divert = divert, !.masquerade = masq,
                    !.router.address = address, !.router.password = password, !.router.wgIface = iface]

Server(p) == [NoSettings EXCEPT !.mode = "server", !.server = p]
Client(p) == [NoSettings EXCEPT !.mode = "client", !.client = p]

\* Everything on, everything off, another interface, the other mode, a
\* container_addr that is not an address, no router yet, no interface yet,
\* another router.
MCOffered ==
  [d \in Doc |->
    CASE d = "on"       -> Server(Sent(r1, pass, wg1, veth, TRUE, TRUE))
      [] d = "off"      -> Server(Sent(r1, pass, wg1, veth, FALSE, FALSE))
      [] d = "wg2"      -> Server(Sent(r1, pass, wg2, veth, TRUE, FALSE))
      [] d = "client"   -> Client(Sent(r1, pass, wg1, veth, TRUE, TRUE))
      [] d = "badaddr"  -> Server(Sent(r1, pass, wg1, hostname, TRUE, FALSE))
      [] d = "norouter" -> Server(Sent(Nil, Nil, wg1, veth, TRUE, TRUE))
      [] d = "noiface"  -> [NoSettings EXCEPT !.server.router.address = r1,
                                              !.server.router.password = pass,
                                              !.server.obfuscation["s1"] = 5]
      [] d = "r2"       -> Server(Sent(r2, pass, wg1, veth, TRUE, FALSE))]
=============================================================================
