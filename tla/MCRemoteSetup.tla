--------------------------- MODULE MCRemoteSetup ---------------------------
(* Two hosts, the DHCP agent on the second; two edits of each kind, which is
   what a lost update takes. *)
EXTENDS RemoteSetup

MCHostSeq == <<"h1", "h2">>
MCNeutronEdits == <<"encap_mode", "vlan_ranges">>
MCVlanEdits == <<"vlan", "encap-iface">>
============================================================================
