---------------------------- MODULE MCCampaignRun ----------------------------
(***************************************************************************)
(* Three hosts in two segments: an HMI that polls a PLC and takes its      *)
(* lease from a server. The changes add, move, replace, remove and silence *)
(* hosts and flows; some reuse an address or a MAC.                        *)
(***************************************************************************)
EXTENDS CampaignRun

MCHost(name, ip, mac, model) ==
  [name |-> name, ip |-> ip, mac |-> mac, model |-> model, firmware |-> None]

MCBase ==
  [hosts |-> <<MCHost("hmi", "ip1", None, "ws"), MCHost("plc", "ip2", "m2", "s7"),
               MCHost("srv", "ip3", None, "server")>>,
   flows |-> <<<<"hmi", "plc", "modbus">>, <<"hmi", "srv", "dhcp">>>>]

MCZone ==
  [ip \in {"ip1", "ip2", "ip3", "ip4", "ip5", "ip6", "ip7"} |->
     IF ip \in {"ip2", "ip5"} THEN [zone |-> "OT-CELL", cell |-> 1]
                              ELSE [zone |-> "IT", cell |-> 0]]

MCAutoMac(model, ip) == model \o ip
MCGatewayMac(segment) == "gw" \o segment.zone
MCShips == [m \in {"ws", "server", "s7"} |-> m]

MCModel(role, os, vendor, family, serves) ==
  [role |-> role, os |-> os, vendor |-> vendor, family |-> family, serves |-> serves]
MCCatalog ==
  [ws |-> MCModel("ws", "windows", None, None, {}),
   server |-> MCModel("file", "windows", None, None, {}),
   s7 |-> MCModel("plc", "s7", "siemens", "simatic", {"s7comm"})]

MCVictim(name, ip, mac, model, external) ==
  [name |-> name, ip |-> ip, mac |-> mac, model |-> model, external |-> external]

\* Two workstations, the second of which takes over a PLC.
MCIncidents ==
  [worm |->
     [hosts |-> <<MCVictim("A", "ip6", "mA", "ws", FALSE), MCVictim("B", "ip7", "mB", "ws", FALSE),
                  MCVictim("P", "10.3", "mP", "s7", FALSE), MCVictim("X", "203.1", "mX", "ws", TRUE)>>,
      flows |-> <<<<"A", "B", "eternalblue">>, <<"B", "P", "s7-control">>,
                  <<"A", "X", "c2-beacon">>>>]]
MCService ==
  [w \in {"eternalblue", "s7-control", "c2-beacon"} |->
     CASE w = "eternalblue" -> "smb" [] w = "s7-control" -> "s7comm" [] OTHER -> "http"]

MCSet(name, new) == [kind |-> "set", name |-> name, new |-> new]

MCChanges ==
  {[kind |-> "add_host", host |-> MCHost("new", "ip4", None, "ws"), dhcp |-> TRUE],
   [kind |-> "add_host", host |-> MCHost("new", "ip2", "m9", "ws"), dhcp |-> FALSE],
   [kind |-> "remove_host", name |-> "plc"],
   MCSet("hmi", [ip |-> "ip5"]),
   MCSet("hmi", [mac |-> "m2"]),
   MCSet("plc", [ip |-> "ip5"]),
   MCSet("plc", [model |-> "server"]),
   [kind |-> "add_flow", flow |-> <<"srv", "plc", "modbus">>],
   [kind |-> "remove_flow", client |-> "hmi", server |-> "plc", proto |-> None],
   [kind |-> "offline", name |-> "plc"],
   [kind |-> "online", name |-> "plc"],
   [kind |-> "sprinkle", key |-> "worm"]}
===============================================================================
