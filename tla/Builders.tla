------------------------------- MODULE Builders -------------------------------
(***************************************************************************)
(* The registry of src/tgt/protocols.py: PROFILES[key].build(ep, count) in *)
(* build number b, between hosts that v tells of (OfficeBuilders), and the *)
(* attacks of src/tgt/incidents.py.                                        *)
(***************************************************************************)
EXTENDS AttackBuilders, SecureBuilders

Keys == {
  "modbus", "dnp3", "enip", "s7comm", "iec104", "bacnet", "opcua", "enip-id",
  "s7-id", "arp", "icmp", "dns", "http", "https", "edr", "smb", "kerberos",
  "ldap", "dhcp", "netbios", "ntp", "modbus-id", "bacnet-id", "enip-list",
  "enip-io", "dnp3-id", "s7-eng", "enip-eng", "modbus-write", "dnp3-time",
  "iec104-time", "pn-dcp", "pn-dcp-set", "pn-rt", "goose", "sv", "mms",
  "ptp", "ptp-l2", "snmp", "snmpv3", "lldp", "cdp", "syslog", "mdns", "ssdp",
  "llmnr", "nbns", "mqtt", "sparkplug", "ftp", "tftp", "http-fw", "ssh",
  "rdp", "vnc", "telnet", "s7plus", "fins", "slmp", "hart-ip", "srtp",
  "sel-telnet", "mrp", "dlr", "dicom", "hl7", "knxip", "bacnet-cov",
  "enip-write", "smb-logon", "codesys", "codesys-disc", "modbus-rtu-tcp",
  "dnp3-serial", "realcom", "realcom-cmd", "moxa-discovery", "bacnet-sc",
  "lorawan-udp", "enip-tls", "enip-dtls", "s7plus-tls", "opcua-sign-encrypt",
  "iec104-tls", "dnp3-tls", "modbus-sec"}

Build(key, count, b, v) ==
  CASE key = "modbus" -> modbus_flow(count, b)
    [] key = "dnp3" -> dnp3_flow(count, b)
    [] key = "enip" -> enip_flow(count, b)
    [] key = "s7comm" -> s7comm_flow(count, b)
    [] key = "iec104" -> iec104_flow(count, b)
    [] key = "bacnet" -> bacnet_flow(count, b)
    [] key = "opcua" -> opcua_flow(count, b)
    [] key = "enip-id" -> enip_identity_flow(count, b)
    [] key = "s7-id" -> s7_identity_flow(count, b)
    [] key = "arp" -> arp_flow(count, b)
    [] key = "icmp" -> icmp_flow(count, b)
    [] key = "dns" -> dns_flow(count, b)
    [] key = "http" -> http_flow(count, b, v)
    [] key = "https" -> https_flow(count, b, v)
    [] key = "edr" -> edr_flow(count, b, v)
    [] key = "smb" -> smb_flow(count, b)
    [] key = "kerberos" -> kerberos_flow(count, b)
    [] key = "ldap" -> ldap_flow(count, b)
    [] key = "dhcp" -> dhcp_flow(count, b)
    [] key = "netbios" -> netbios_flow(count, b)
    [] key = "ntp" -> ntp_flow(count, b)
    [] key = "modbus-id" -> modbus_id_flow(count, b)
    [] key = "bacnet-id" -> bacnet_id_flow(count, b)
    [] key = "enip-list" -> enip_list_flow(count, b)
    [] key = "enip-io" -> enip_io_flow(count, b)
    [] key = "dnp3-id" -> dnp3_id_flow(count, b)
    [] key = "s7-eng" -> s7_eng_flow(count, b)
    [] key = "enip-eng" -> enip_eng_flow(count, b)
    [] key = "modbus-write" -> modbus_write_flow(count, b)
    [] key = "dnp3-time" -> dnp3_time_flow(count, b)
    [] key = "iec104-time" -> iec104_time_flow(count, b)
    [] key = "pn-dcp" -> pn_dcp_flow(count, b)
    [] key = "pn-dcp-set" -> pn_dcp_set_flow(count, b)
    [] key = "pn-rt" -> pn_rt_flow(count, b)
    [] key = "goose" -> goose_flow(count, b)
    [] key = "sv" -> sv_flow(count, b)
    [] key = "mms" -> mms_flow(count, b)
    [] key = "ptp" -> ptp_flow(count, b)
    [] key = "ptp-l2" -> ptp_l2_flow(count, b)
    [] key = "snmp" -> snmp_flow(count, b)
    [] key = "snmpv3" -> snmpv3_flow(count, b)
    [] key = "lldp" -> lldp_flow(count, b)
    [] key = "cdp" -> cdp_flow(count, b)
    [] key = "syslog" -> syslog_flow(count, b)
    [] key = "mdns" -> mdns_flow(count, b)
    [] key = "ssdp" -> ssdp_flow(count, b)
    [] key = "llmnr" -> llmnr_flow(count, b)
    [] key = "nbns" -> nbns_flow(count, b)
    [] key = "mqtt" -> mqtt_flow(count, b)
    [] key = "sparkplug" -> sparkplug_flow(count, b)
    [] key = "ftp" -> ftp_flow(count, b)
    [] key = "tftp" -> tftp_flow(count, b, v.blocks)
    [] key = "http-fw" -> http_fw_flow(count, b)
    [] key = "ssh" -> ssh_flow(count, b)
    [] key = "rdp" -> rdp_flow(count, b)
    [] key = "vnc" -> vnc_flow(count, b)
    [] key = "telnet" -> telnet_flow(count, b)
    [] key = "s7plus" -> s7plus_flow(count, b)
    [] key = "fins" -> fins_flow(count, b)
    [] key = "slmp" -> slmp_flow(count, b)
    [] key = "hart-ip" -> hart_ip_flow(count, b)
    [] key = "srtp" -> srtp_flow(count, b)
    [] key = "sel-telnet" -> sel_telnet_flow(count, b)
    [] key = "mrp" -> mrp_flow(count, b)
    [] key = "dlr" -> dlr_flow(count, b)
    [] key = "dicom" -> dicom_flow(count, b)
    [] key = "hl7" -> hl7_flow(count, b)
    [] key = "knxip" -> knxip_flow(count, b)
    [] key = "bacnet-cov" -> bacnet_cov_flow(count, b)
    [] key = "enip-write" -> enip_write_flow(count, b)
    [] key = "smb-logon" -> smb_logon_flow(count, b)
    [] key = "codesys" -> codesys_flow(count, b)
    [] key = "codesys-disc" -> codesys_disc_flow(count, b)
    [] key = "modbus-rtu-tcp" -> modbus_rtu_tcp_flow(count, b)
    [] key = "dnp3-serial" -> dnp3_serial_flow(count, b)
    [] key = "realcom" -> realcom_flow(count, b)
    [] key = "realcom-cmd" -> realcom_cmd_flow(count, b)
    [] key = "moxa-discovery" -> moxa_discovery_flow(count, b)
    [] key = "bacnet-sc" -> bacnet_sc_flow(count, b)
    [] key = "lorawan-udp" -> lorawan_udp_flow(count, b)
    [] key = "enip-tls" -> enip_tls_flow(count, b)
    [] key = "enip-dtls" -> enip_dtls_flow(count, b)
    [] key = "s7plus-tls" -> s7plus_tls_flow(count, b)
    [] key = "opcua-sign-encrypt" -> opcua_sign_encrypt_flow(count, b)
    [] key = "iec104-tls" -> iec104_tls_flow(count, b)
    [] key = "dnp3-tls" -> dnp3_tls_flow(count, b)
    [] key = "modbus-sec" -> modbus_sec_flow(count, b)
    [] key \in ATTACKS -> Attack(key, count, v)
===============================================================================
