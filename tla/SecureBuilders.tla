---------------------------- MODULE SecureBuilders ----------------------------
(***************************************************************************)
(* src/tgt/protocols_sec.py: the plaintext builders' conversations again,  *)
(* inside TLS, DTLS or OPC UA's own security.                              *)
(***************************************************************************)
EXTENDS PlantBuilders

\* _messages: the application messages of a flow, without its TCP.
_messages(frames) == SelectSeq(frames, LAMBDA m : m.kind = "data")

\* A client message opens an exchange, the server's next one answers it; a
\* server message nobody asked for stands alone.
_pairs(msgs) ==
  FoldLeft(LAMBDA ex, m : IF m.c \/ ex = <<>> \/ Answered(Last(ex))
                          THEN Append(ex, <<m>>)
                          ELSE Front(ex) \o <<Append(Last(ex), m)>>, <<>>, msgs)

tls_handshake(l) == <<Ask(l), Begin("tls")>>

_tls_flow(plain) ==
  tcp_flow(tls_handshake("tcp") \o _pairs(_messages(plain)) \o <<Finish("tls")>>, FALSE, 2)

enip_tls_flow(count, b) == _tls_flow(enip_flow(count, b))
iec104_tls_flow(count, b) == _tls_flow(iec104_flow(count, b))
dnp3_tls_flow(count, b) == _tls_flow(dnp3_flow(count, b))
modbus_sec_flow(count, b) == _tls_flow(modbus_flow(count, b))

\* ClientHello and HelloVerifyRequest, ClientHello with the cookie and the
\* server's flight, then the client's, whose certificate takes two datagrams; the
\* server's Finished opens it.
dtls_handshake ==
  LET flight == <<Message(TRUE, "udp", "ask", "dtls", NoNumber)>>
      answer(op) == <<Message(FALSE, "udp", op, "dtls", NoNumber)>>
  IN  <<flight, answer("none"), flight, answer("none"), flight \o flight, answer("open")>>

\* The Forward_Open in TLS, the DTLS handshake and the I/O as datagrams.
enip_dtls_flow(count, b) ==
  LET from == 1 + _cycle_base(count, b)
  IN  Steps(tls_handshake("tcp") \o <<Begin("enip"), Begin("io")>>
            \o dtls_handshake \o <<Cyclic("dtls", AtLeastOne(count), from - 1)>>
            \o <<Finish("io"), Quit("enip"), Finish("tls")>>)

\* COTP and InitSsl in the clear, TLS in COTP data.
s7plus_tls_flow(count, b) ==
  LET pairs == _pairs(_messages(s7plus_flow(count, b)))
  IN  tcp_flow(<<Head(pairs), Ask("cotp")>> \o tls_handshake("cotp") \o Tail(pairs)
               \o <<Finish("tls")>>, FALSE, 4)

\* The session of the plain builder, message by message.
opcua_sign_encrypt_flow(count, b) == Tcp(_pairs(_messages(opcua_flow(count, b))))
===============================================================================
