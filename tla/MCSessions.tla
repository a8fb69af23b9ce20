------------------------------ MODULE MCSessions ------------------------------
(***************************************************************************)
(* Every profile of the registry and every attack, between hosts that      *)
(* agree on TLS 1.2, on 1.3 or on nothing, with clients that abort and     *)
(* clients that do not.                                                    *)
(***************************************************************************)
EXTENDS Cycle

MCBlocks == [read |-> 3, write |-> 1]
MCVariants ==
  {[rst |-> r, tls |-> t, blocks |-> MCBlocks, ports |-> 2, domains |-> 2] :
     r \in BOOLEAN, t \in {"12", "13", "refused"}}
MCStreamed == Keys \cup ATTACKS
MCCounts == {1, 3}
\* With class-1 I/O, {"enip-io", "enip-dtls"}, Nested does not hold: over a routed
\* path the opening takes longer than the packet interval.
MCOverlapping == {}

MCRestarting ==
  {"opcua", "opcua-sign-encrypt", "s7plus", "s7plus-tls", "hart-ip", "srtp", "mms",
   "iec104-tls", "fins", "goose", "sv", "pn-rt", "tristation"}
MCUnconfirmed == {"dnp3-tls", "realcom-cmd"}

MCMalware == {<<"port-scan", "dga-dns">>, <<"s7-control">>}
MCRatios == {<<0, 1>>, <<1, 4>>, <<2, 1>>}
MCEvery == {0, 1, 3}
===============================================================================
