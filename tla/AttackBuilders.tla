---------------------------- MODULE AttackBuilders ----------------------------
(***************************************************************************)
(* ATTACKS of src/tgt/incidents.py: the builders of an incident's flows,   *)
(* called like the ones of a protocol. A scan tries v.ports ports, a       *)
(* malware looks up v.domains names.                                       *)
(***************************************************************************)
EXTENDS OfficeBuilders, PlantBuilders

\* A closed port answers a SYN with a reset.
Scan == <<Message(TRUE, "syn", "ask", "tcp", NoNumber),
          Message(FALSE, "rst", "none", "tcp", NoNumber)>>
port_scan(count, ports) == Each(AtLeastOne(count), LAMBDA i : Each(ports, LAMBDA k : Scan))

smb_eternalblue(count) == Tcp(Polls(2 * count, "tcp"))
c2_beacon(count) == Tcp(Polls(count, "tcp"))
dga_dns(count, domains) == Pairs(Max({count, domains}))
telnet_brute(count) == Tcp(Polls(2 * count, "tcp"))
log4shell(count) == Tcp(Polls(count, "tcp"))
s7_control(count) == Tcp(_s7_connect \o PollsN(count, "s7", 0))

\* STARTDT; a command, answered by confirmation and termination in one
\* segment; the last ones are acknowledged. Each side numbers from 0.
iec104_command(count) ==
  Tcp(<<Begin("startdt")>>
      \o [i \in 1..count |-> TellN("startdt", i - 1) \o Units(ToldN("startdt", 2 * i - 1), 2)]
      \o <<Tell("startdt")>>)

tristation(count) == Each(count, LAMBDA i : PairN(i))
dns_tunnel(count) == Pairs(count)
https_c2(count, v) == Each(AtLeastOne(count), LAMBDA i : https_flow(1, 0, v))
rdp_brute(count) == Each(count, LAMBDA i : Tcp(<<Ask("tcp")>>))
smb_lateral(count) == Tcp(PollsN(count, "tcp", 0))
modbus_write(count) == Tcp(PollsN(count, "tcp", 0))

ATTACKS == {
  "port-scan", "eternalblue", "c2-beacon", "dga-dns", "telnet-brute",
  "log4shell", "s7-control", "iec104-command", "tristation", "dns-tunnel",
  "https-c2", "rdp-brute", "smb-lateral", "modbus-write"}

Attack(key, count, v) ==
  CASE key = "port-scan" -> port_scan(count, v.ports)
    [] key = "eternalblue" -> smb_eternalblue(count)
    [] key = "c2-beacon" -> c2_beacon(count)
    [] key = "dga-dns" -> dga_dns(count, v.domains)
    [] key = "telnet-brute" -> telnet_brute(count)
    [] key = "log4shell" -> log4shell(count)
    [] key = "s7-control" -> s7_control(count)
    [] key = "iec104-command" -> iec104_command(count)
    [] key = "tristation" -> tristation(count)
    [] key = "dns-tunnel" -> dns_tunnel(count)
    [] key = "https-c2" -> https_c2(count, v)
    [] key = "rdp-brute" -> rdp_brute(count)
    [] key = "smb-lateral" -> smb_lateral(count)
    [] key = "modbus-write" -> modbus_write(count)
===============================================================================
