----------------------------- MODULE PlantBuilders -----------------------------
(***************************************************************************)
(* The flow builders of the plant protocols: the OT half of                *)
(* src/tgt/protocols.py, protocols_ot.py, protocols_ind.py,                *)
(* protocols_iiot.py, the controllers of protocols_eng.py and              *)
(* protocols_site.py, protocols_codesys.py. Each gives the messages of one *)
(* call builder(ep, count) of build number b.                              *)
(***************************************************************************)
EXTENDS Wire

\* mutant: every build counts from the start
FromZero(count, b) == 0

\* The number of messages sent by the builds before this one.
_cycle_base(count, b) == b * AtLeastOne(count)

-----------------------------------------------------------------------------
(* protocols.py                                                            *)

modbus_flow(count, b) == Tcp(PollsN(count, "tcp", _cycle_base(count, b)))

\* mutant: the master does not confirm an event
NeverConfirms(count, b) ==
  Tcp(Each(count, LAMBDA i : <<AskN("tcp", b * count + i)>>
                               \o (IF i % 4 < 3 THEN <<>> ELSE <<Report("tcp", NoNumber)>>)))

\* Every fourth exchange is an unsolicited event and its confirmation.
dnp3_flow(count, b) ==
  LET n(i) == _cycle_base(count, b) + i
  IN  Tcp(Each(count, LAMBDA i : IF i % 4 < 3 THEN <<AskN("tcp", n(i))>>
                                 ELSE <<Report("tcp", n(i)), Confirm("tcp", n(i))>>))

enip_flow(count, b) ==
  Held(Tcp(<<Begin("enip")>> \o PollsN(count, "enip", _cycle_base(count, b))
             \o <<Quit("enip")>>), b)

_s7_connect == <<Begin("cotp"), Begin("s7")>>
s7comm_flow(count, b) == Tcp(_s7_connect \o PollsN(count, "s7", _cycle_base(count, b)))

\* STARTDT, the general interrogation, spontaneous values, link tests. Both
\* sides number from 0 in every build.
iec104_exchanges(count) ==
  LET rounds == AtLeastOne(count) - 1
      test == Ask("startdt")
      round(i) == <<Tell("startdt") \o ToldN("startdt", 3 + i)>>
                     \o (IF (i + 1) % 4 = 0 THEN <<test>> ELSE <<>>)
      tested == rounds > 0 /\ rounds % 4 = 0
  IN  <<Begin("startdt"),
        TellN("startdt", 0) \o Units(ToldN("startdt", 2), 3)>>
      \o Each(rounds, round)
      \o <<Tell("startdt")>> \o (IF tested THEN <<>> ELSE <<test>>)
iec104_flow(count, b) == Tcp(iec104_exchanges(count))

bacnet_flow(count, b) == Each(count, LAMBDA i : PairN(_cycle_base(count, b) + i))

\* Hello, OpenSecureChannel, GetEndpoints, CreateSession, ActivateSession,
\* the reads, CloseSession, CloseSecureChannel; sequence numbers from 1.
opcua_flow(count, b) ==
  Tcp(<<Begin("hello"), BeginN("channel", 1), AskN("channel", 2), AskN("channel", 3),
        <<Client("ask", "session", 4), Server("open", "session", 4)>>>>
      \o PollsN(count, "session", 4)
      \o <<<<Client("use", "session", 5 + count), Server("shut", "session", 5 + count)>>,
           <<Client("shut", "channel", 6 + count)>>>>)

enip_identity_flow(count, b) ==
  Tcp(Polls(count, "tcp") \o <<Begin("enip"), Ask("enip"), Quit("enip")>>)
s7_identity_flow(count, b) == Tcp(_s7_connect \o Polls(2 * count + 2, "s7"))

-----------------------------------------------------------------------------
(* protocols_ot.py: identity, engineering                                  *)

modbus_id_flow(count, b) == Tcp(Polls(2 * AtLeastOne(count), "tcp"))
modbus_write_flow(count, b) == Tcp(Polls(5, "tcp"))
bacnet_id_flow(count, b) == Pairs(1 + AtLeastOne(count))
enip_list_flow(count, b) == Pairs(AtLeastOne(count) + 1)

\* Forward_Open over TCP, the cyclic I/O beside it, Forward_Close.
Cyclic(l, k, from) ==
  Each(k, LAMBDA i : <<Message(TRUE, "udp", "use", l, from + i + 1),
                       Message(FALSE, "udp", "use", l, from + i + 1)>>)
enip_io_flow(count, b) ==
  Steps(<<Begin("enip"), Begin("io"), Cyclic("io", AtLeastOne(count), _cycle_base(count, b)),
          Finish("io"), Quit("enip")>>)

enip_eng_flow(count, b) == Tcp(<<Begin("enip")>> \o Polls(3, "enip") \o <<Quit("enip")>>)

\* In a download the controller asks and the station answers.
s7_eng_flow(count, b) ==
  LET pulled == <<Report("s7", NoNumber), Confirm("s7", NoNumber)>>
  IN  Tcp(_s7_connect \o Polls(3, "s7")
          \o <<Begin("upload"), Ask("upload"), Finish("upload"), Ask("s7")>>
          \o pulled \o pulled \o <<Ask("s7")>>)

dnp3_id_flow(count, b) == Tcp(PollsN(AtLeastOne(count), "tcp", -1))
dnp3_time_flow(count, b) == Tcp(PollsN(2, "tcp", -1))
iec104_time_flow(count, b) ==
  Tcp(<<Begin("startdt"), AskN("startdt", 0), Tell("startdt"), Finish("startdt")>>)

-----------------------------------------------------------------------------
(* protocols_ind.py: PROFINET, IEC 61850, PTP                              *)

pn_dcp_flow(count, b) == Pairs(AtLeastOne(count))
pn_dcp_set_flow(count, b) == Pairs(2 * AtLeastOne(count))
pn_rt_flow(count, b) == Each(count, LAMBDA i : PairN(i))
goose_flow(count, b) == Each(count, LAMBDA i : NoticeN(i))
sv_flow(count, b) == Each(count, LAMBDA i : NoticeN(i))

_mms_associate == <<Begin("cotp"), Begin("acse")>>
mms_flow(count, b) ==
  Tcp(_mms_associate \o PollsN(3 + count, "acse", 0) \o <<Finish("acse")>>)

\* Announce with every second Sync; Follow_Up, Delay_Req and Delay_Resp.
_ptp_messages(count) ==
  Each(count, LAMBDA i : (IF i % 2 = 0 THEN Notice ELSE <<>>)
                           \o Notice \o Notice \o Pair)
ptp_flow(count, b) == _ptp_messages(count)
ptp_l2_flow(count, b) == _ptp_messages(count)

-----------------------------------------------------------------------------
(* protocols_eng.py: the controllers' own protocols                        *)

s7plus_exchanges(count) ==
  <<Begin("cotp"), BeginN("object", 1), AskN("object", 2)>>
    \o PollsN(AtLeastOne(count), "object", 2)
    \o <<<<Client("use", "object", 3 + AtLeastOne(count)),
           Server("shut", "object", 3 + AtLeastOne(count))>>>>
s7plus_flow(count, b) == Steps(s7plus_exchanges(count))

fins_flow(count, b) == Each(1 + AtLeastOne(count), LAMBDA i : PairN(i))
slmp_flow(count, b) == Steps(Polls(1 + AtLeastOne(count), "tcp"))

hart_ip_flow(count, b) ==
  LET last == 4 + AtLeastOne(count)
  IN  Steps(<<BeginN("hart", 1)>> \o PollsN(2 + AtLeastOne(count), "hart", 1)
            \o <<<<Client("use", "hart", last), Server("shut", "hart", last)>>>>)

srtp_flow(count, b) == Steps(<<Begin("srtp")>> \o PollsN(AtLeastOne(count), "srtp", 0))

-----------------------------------------------------------------------------
(* protocols_iiot.py: serial gateways, BACnet/SC, LoRaWAN                  *)

modbus_rtu_tcp_flow(count, b) == Tcp(Polls(count, "tcp"))
dnp3_serial_flow(count, b) == Tcp(PollsN(count, "tcp", _cycle_base(count, b) - 1))
realcom_flow(count, b) == Tcp(Polls(count, "tcp"))

\* PORT_INIT; then the server's keep-alives, each echoed by the driver.
realcom_cmd_flow(count, b) ==
  LET n(i) == _cycle_base(count, b) + i
  IN  handshake("tcp") \o Ask("tcp") \o <<delayed_ack(TRUE)>>
      \o Each(count, LAMBDA i : Report("tcp", n(i)) \o Confirm("tcp", n(i))
                                  \o <<delayed_ack(FALSE)>>)
      \o teardown("tcp", TRUE)

moxa_discovery_flow(count, b) == Pairs(AtLeastOne(count))

\* TLS 1.3; its Finished goes with the WebSocket upgrade.
bacnet_sc_flow(count, b) ==
  tcp_flow(<<Begin("tls"), Begin("ws"), Begin("hub")>> \o Polls(count, "hub")
             \o <<Finish("hub")>>, FALSE, 2)

\* The packet forwarder: pulls, uplinks, statistics, now and then a downlink.
lorawan_udp_flow(count, b) ==
  LET every(t, k, r, what) == IF t % k = r THEN what ELSE <<>>
      turn(t) == every(t, 3, 0, Pair) \o Pair \o every(t, 4, 1, Pair)
                   \o every(t, 8, 5, Notice \o Cast)
  IN  Each(AtLeastOne(count), LAMBDA i : turn(_cycle_base(count, b) + i))

-----------------------------------------------------------------------------
(* protocols_site.py, protocols_codesys.py                                 *)

\* Both ring ports' test frames of each round.
Ring(count, b) ==
  Each(AtLeastOne(count), LAMBDA i : NoticeN(2 * (_cycle_base(count, b) + i))
                                       \o NoticeN(2 * (_cycle_base(count, b) + i) + 1))
mrp_flow(count, b) == Ring(count, b)
dlr_flow(count, b) == Ring(count, b)
knxip_flow(count, b) == Pairs(2) \o Each(AtLeastOne(count), LAMBDA i : Notice)
bacnet_cov_flow(count, b) == Pair \o Each(AtLeastOne(count), LAMBDA i : Notice)
enip_write_flow(count, b) ==
  Tcp(<<Begin("enip")>> \o Polls(8, "enip") \o <<Quit("enip")>>)

codesys_disc_flow(count, b) == Pairs(AtLeastOne(Min({3, count})))

\* A services message is acknowledged by the other side's channel layer.
Call(ask, answer) == <<ask, Told("channel"), answer, Tell("channel")>>
codesys_flow(count, b) ==
  LET call(l) == Call(Tell(l), Told(l))
      login(l) == Call(<<Client("ask", l, NoNumber)>>, <<Server("open", l, NoNumber)>>)
      logout(l) == Call(Tell(l), <<Server("shut", l, NoNumber)>>)
      reads(i) == (IF i % 4 = 3 THEN <<Tell("channel")>> ELSE <<>>) \o call("app")
  IN  Held(Steps(<<Ask("tcp"), Begin("channel")>> \o login("device") \o login("app")
                   \o call("app") \o Each(AtLeastOne(count), reads)
                   \o logout("app") \o logout("device") \o <<Quit("channel")>>), b)
===============================================================================
