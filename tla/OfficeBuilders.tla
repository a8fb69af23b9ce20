---------------------------- MODULE OfficeBuilders ----------------------------
(***************************************************************************)
(* The flow builders of the IT and the plant's surroundings: the IT half   *)
(* of src/tgt/protocols.py, protocols_infra.py, the engineering sessions   *)
(* of protocols_eng.py and protocols_util.py, the hospital and the logon   *)
(* of protocols_site.py. v is what the two hosts and their hash decide:    *)
(* whether the client aborts (v.rst), what TLS they agree on (v.tls).      *)
(***************************************************************************)
EXTENDS Wire

-----------------------------------------------------------------------------
(* protocols.py                                                            *)

arp_flow(count, b) == Pairs(count)
icmp_flow(count, b) == Each(count, LAMBDA i : PairN(b * AtLeastOne(count) + i))
dns_flow(count, b) == Pairs(count)
http_flow(count, b, v) == tcp_flow(Polls(count, "tcp"), v.rst, 0)
smb_flow(count, b) == Tcp(Polls(AtLeastOne(count), "tcp"))
kerberos_flow(count, b) == Tcp(Polls(count, "tcp"))
ldap_flow(count, b) ==
  Tcp(<<Begin("bind")>> \o Polls(count, "bind") \o <<Quit("bind")>>)

\* tls.session: in TLS 1.3 the client's Finished rides with the first request;
\* a client the server shares no suite with is refused.
tls_session(count, v) ==
  CASE v.tls = "refused" -> <<Ask("tcp")>>
    [] v.tls = "12" -> <<Ask("tcp"), Begin("tls")>> \o Polls(count, "tls")
    [] v.tls = "13" -> <<Begin("tls")>> \o Polls(count, "tls")
https_flow(count, b, v) ==
  tcp_flow(tls_session(count, v), v.rst, IF v.tls = "12" THEN 2 ELSE 1)
edr_flow(count, b, v) == https_flow(count, b, [v EXCEPT !.rst = FALSE])

\* Discover, Offer, Request, Ack; then renewals.
dhcp_flow(count, b) == Pair \o Pairs(count)

\* The registration with the first announcement of a build.
netbios_flow(count, b) ==
  Each(count, LAMBDA i : (IF i = 0 THEN Cast ELSE <<>>)
                           \o CastN(b * AtLeastOne(count) + i))
ntp_flow(count, b) == Each(count, LAMBDA i : PairN(b * AtLeastOne(count) + i))

-----------------------------------------------------------------------------
(* protocols_infra.py                                                      *)

\* Polls, then the agent's trap and its inform, which is acknowledged.
snmp_flow(count, b) == Pairs(AtLeastOne(count)) \o Notice \o Notice \o Cast
snmpv3_flow(count, b) == Pairs(AtLeastOne(count))
lldp_flow(count, b) == Each(AtLeastOne(count), LAMBDA i : Notice)
cdp_flow(count, b) == Each(AtLeastOne(count), LAMBDA i : Notice)
syslog_flow(count, b) == Each(AtLeastOne(count), LAMBDA i : Cast)
mdns_flow(count, b) == Pairs(AtLeastOne(count))
ssdp_flow(count, b) == Each(AtLeastOne(count), LAMBDA i : Pair \o Notice)
llmnr_flow(count, b) == Pairs(AtLeastOne(count))
nbns_flow(count, b) == Pairs(AtLeastOne(count))

Ping(i, l) == IF i % 4 = 3 THEN <<Ask(l)>> ELSE <<>>
\* QoS 0 and QoS 1 publications in turn.
mqtt_flow(count, b) ==
  LET publish(i) == <<IF i % 2 = 0 THEN Tell("mqtt") ELSE Ask("mqtt")>>
  IN  Tcp(<<Begin("mqtt"), Ask("mqtt")>>
          \o Each(AtLeastOne(count), LAMBDA i : publish(i) \o Ping(i, "mqtt"))
          \o <<Quit("mqtt")>>)

\* Node birth, data, node death.
sparkplug_flow(count, b) ==
  Tcp(<<Begin("mqtt"), Ask("mqtt"), Start("node")>>
      \o Each(AtLeastOne(count), LAMBDA i : <<Tell("node")>> \o Ping(i, "node"))
      \o <<Finish("node"), Quit("mqtt")>>)

-----------------------------------------------------------------------------
(* protocols_eng.py, protocols_util.py: people at work                     *)

\* Each transfer has a data connection of its own; the sender closes it.
ftp_flow(count, b) ==
  LET data(up) == session("data", <<IF up THEN Tell("data") ELSE Told("data")>>, up)
      transfer(i) == <<Ask("tcp"), Ask("tcp"), data(i % 2 = 1), Told("tcp")>>
  IN  Steps(<<Told("tcp")>> \o Polls(4, "tcp") \o Each(AtLeastOne(count), transfer)
            \o <<Ask("tcp")>>)

\* Blocks in turn to the client (read) and to the server (write), the last
\* one short; a write is granted first.
tftp_flow(count, b, blocks) ==
  Each(AtLeastOne(count), LAMBDA i :
    Cast \o (IF i % 2 = 0 THEN Each(blocks.read, LAMBDA n : Notice \o Cast)
             ELSE Notice \o Each(blocks.write, LAMBDA n : Cast \o Notice)))

http_fw_flow(count, b) == Steps(Polls(AtLeastOne(count), "tcp"))

\* Banners and key exchange; authentication, channel, commands.
ssh_flow(count, b) ==
  Steps(<<Told("tcp"), Tell("tcp"), Tell("tcp"), Told("tcp"), Ask("tcp"), Tell("tcp")>>
        \o Polls(5 + AtLeastOne(count) + 1, "tcp"))

rdp_flow(count, b) ==
  Steps(<<Ask("tcp"), Ask("tcp"), Begin("tls")>> \o Polls(2, "tls") \o <<Tell("tls")>>
        \o Polls(3 + AtLeastOne(count), "tls"))

vnc_flow(count, b) ==
  LET server == Told("tcp")
      client == Tell("tcp")
  IN  Steps(<<server, client, server, client, server, client, server, client,
              server, client, client>> \o Polls(AtLeastOne(count), "tcp"))

\* Option negotiation, the login, the commands; the server closes.
telnet_flow(count, b) ==
  session("tcp", <<Told("tcp"), Tell("tcp")>> \o Polls(5 + AtLeastOne(count) + 1, "tcp"),
          FALSE)

sel_telnet_flow(count, b) == Steps(<<Told("tcp")>> \o Polls(12, "tcp"))

-----------------------------------------------------------------------------
(* protocols_site.py                                                       *)

\* Association, echo, image transfers, release.
dicom_flow(count, b) ==
  tcp_flow(<<Begin("assoc"), Ask("assoc")>>
           \o Each(AtLeastOne(count), LAMBDA i : <<Tell("assoc"), Ask("assoc")>>)
           \o <<Finish("assoc")>>, FALSE, 1)

hl7_flow(count, b) ==
  Tcp(PollsN(AtLeastOne(count), "tcp", b * AtLeastOne(count)))

\* Negotiate, two-step session setup, tree connect, echoes, disconnect.
smb_logon_flow(count, b) ==
  Tcp(<<Ask("tcp"), Ask("tcp"), Begin("smb"), Begin("tree")>>
      \o Polls(AtLeastOne(count), "tree") \o <<Finish("tree"), Finish("smb")>>)
===============================================================================
