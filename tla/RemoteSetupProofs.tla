------------------------- MODULE RemoteSetupProofs -------------------------
(* What the order of the statements guarantees, for any hosts and any edits,
   although the script waits for some of its commands only. *)
EXTENDS RemoteSetup, SequenceFacts

----------------------------------------------------------------------------
(* The programs *)

Statements ==
    {s \in [do : {"sed", "restart", "kill", "connect", "fetch", "copy"}, node : Nodes,
            on : Services \cup {""}, edit : Edits \cup {""}] :
        /\ s.do = "sed" => s.on \in Services \ {"metadata"} /\ s.edit \in Edits
        /\ s.do \in {"restart", "kill"} => s.on \in Services
        /\ s.do = "copy" => s.on = "metadata" /\ s.node # First
        /\ s.do = "fetch" => s.on = "metadata" /\ s.node = First}

Plain(h) == {Connect(h), Restart(h, "agent-ovs")}
VlanStatements ==
    UNION {Plain(h) \cup {Sed(h, "agent-ovs", e) : e \in ToSet(VlanEdits)} : h \in Hosts}
ComputeStatements ==
    UNION {Plain(h) \cup {Sed(h, "dhcp-agent", ForceMetadata), Restart(h, "dhcp-agent"),
                          Kill(h, "metadata"), Restart(h, "metadata")} : h \in Hosts}

LEMMA ListElements ==
    ASSUME NEW S, NEW s \in Seq(S)
    PROVE  /\ \A k \in 1..Len(s) : s[k] \in ToSet(s)
           /\ \A e \in ToSet(s) : \E k \in 1..Len(s) : e = s[k]
BY DEF ToSet

\* What a concatenation has at each place.
LEMMA Concatenated ==
    ASSUME NEW S, NEW a \in Seq(S), NEW b \in Seq(S)
    PROVE  /\ a \o b \in Seq(S) /\ Len(a \o b) = Len(a) + Len(b)
           /\ Len(a) \in Nat /\ Len(b) \in Nat
           /\ \A k \in 1..Len(a) : (a \o b)[k] = a[k]
           /\ \A k \in (Len(a) + 1)..(Len(a) + Len(b)) :
                 (a \o b)[k] = b[k - Len(a)] /\ k - Len(a) \in 1..Len(b)
BY ConcatProperties

LEMMA HostFacts ==
    /\ Len(HostSeq) \in Nat \ {0}
    /\ \A k \in 1..Len(HostSeq) : HostSeq[k] \in Hosts
    /\ First \in Hosts /\ \A k \in 2..Len(HostSeq) : HostSeq[k] # First
<1>1. HostSeq \in Seq(Hosts)
    BY ListsAssumption
<1>2. Len(HostSeq) \in Nat \ {0}
    BY <1>1, HostsAssumption
<1>3. \A k \in 1..Len(HostSeq) : HostSeq[k] \in Hosts
    BY <1>1
<1>4. 1 \in 1..Len(HostSeq) /\ \A k \in 2..Len(HostSeq) : k \in 1..Len(HostSeq) /\ k # 1
    BY <1>2
<1>5. First \in Hosts
    BY <1>3, <1>4 DEF First
<1>6. \A k \in 2..Len(HostSeq) : HostSeq[k] # First
    BY <1>4, HostsAssumption DEF First
<1> QED BY <1>2, <1>3, <1>5, <1>6

LEMMA SedAllIsSeq ==
    ASSUME NEW S, NEW n, NEW f, NEW edits \in Seq(Edits),
           \A e \in ToSet(edits) : Sed(n, f, e) \in S
    PROVE  SedAll(n, f, edits) \in Seq(S) /\ Len(SedAll(n, f, edits)) = Len(edits)
<1>1. \A k \in 1..Len(edits) : edits[k] \in ToSet(edits)
    BY ListElements
<1>2. SedAll(n, f, edits) \in [1..Len(edits) -> S]
    BY <1>1 DEF SedAll
<1> QED BY <1>2 DEF SedAll

\* configure-vlan.py: neutron's edits, its restart, then only the hosts.
LEMMA VlanShape ==
    /\ Len(ConfigureVlan) \in Nat
    /\ Len(NeutronEdits) + 1 <= Len(ConfigureVlan)
    /\ \A k \in 1..Len(NeutronEdits) :
          ConfigureVlan[k] = Sed(Controller, "neutron-server", NeutronEdits[k])
    /\ ConfigureVlan[Len(NeutronEdits) + 1] = Restart(Controller, "neutron-server")
    /\ \A k \in (Len(NeutronEdits) + 2)..Len(ConfigureVlan) : ConfigureVlan[k] \in VlanStatements
<1> DEFINE S == VlanStatements \cup {Restart(Controller, "neutron-server")}
                \cup {Sed(Controller, "neutron-server", e) : e \in ToSet(NeutronEdits)}
           seds == SedAll(Controller, "neutron-server", NeutronEdits)
           restart == <<Restart(Controller, "neutron-server")>>
           hosts == [k \in 1..Len(HostSeq) |-> FixOpflexAgent(HostSeq[k])]
           rest == FlattenSeq(hosts)
<1>1. seds \in Seq(S) /\ Len(seds) = Len(NeutronEdits)
    <2>1. \A e \in ToSet(NeutronEdits) : Sed(Controller, "neutron-server", e) \in S
        OBVIOUS
    <2> HIDE DEF S
    <2> QED BY <2>1, ListsAssumption, SedAllIsSeq
<1>2. restart \in Seq(S) /\ Len(restart) = 1
    <2>1. Restart(Controller, "neutron-server") \in S
        OBVIOUS
    <2> HIDE DEF S
    <2> QED BY <2>1
<1>3. VlanStatements \subseteq S
    OBVIOUS
<1>4. ASSUME NEW h \in Hosts PROVE FixOpflexAgent(h) \in Seq(VlanStatements)
    <2>1. SedAll(h, "agent-ovs", VlanEdits) \in Seq(VlanStatements)
        <3>1. \A e \in ToSet(VlanEdits) : Sed(h, "agent-ovs", e) \in VlanStatements
            BY DEF VlanStatements
        <3> QED BY <3>1, ListsAssumption, SedAllIsSeq
    <2>2. Connect(h) \in VlanStatements /\ Restart(h, "agent-ovs") \in VlanStatements
        BY DEF VlanStatements, Plain
    <2>3. <<Connect(h)>> \in Seq(VlanStatements) /\ <<Restart(h, "agent-ovs")>> \in Seq(VlanStatements)
        BY <2>2
    <2> QED BY <2>1, <2>3, ConcatProperties DEF FixOpflexAgent
<1>5. hosts \in Seq(Seq(VlanStatements)) /\ Len(hosts) > 0
    BY <1>4, HostFacts
<1>6. rest \in Seq(VlanStatements)
    <2> HIDE DEF hosts
    <2> QED BY <1>5, FlattenSeqType
<1> HIDE DEF S, rest
<1>7. rest \in Seq(S)
    BY <1>3, <1>6
<1>8. ConfigureVlan = (seds \o restart) \o rest
    BY DEF ConfigureVlan, rest
<1> DEFINE head == seds \o restart
<1>11. \A k \in 1..Len(NeutronEdits) : seds[k] = Sed(Controller, "neutron-server", NeutronEdits[k])
    BY DEF SedAll
<1>12. restart[1] = Restart(Controller, "neutron-server")
    OBVIOUS
<1>13. \A k \in 1..Len(rest) : rest[k] \in VlanStatements
    BY <1>6
<1> HIDE DEF seds, restart
<1>14. Len(NeutronEdits) \in Nat
    BY ListsAssumption
<1>9. /\ head \in Seq(S) /\ Len(head) = Len(NeutronEdits) + 1
      /\ \A k \in 1..Len(NeutronEdits) : head[k] = seds[k]
      /\ head[Len(NeutronEdits) + 1] = restart[1]
    <2>1. /\ head \in Seq(S) /\ Len(head) = Len(seds) + Len(restart)
          /\ \A k \in 1..Len(seds) : head[k] = seds[k]
          /\ \A k \in (Len(seds) + 1)..(Len(seds) + Len(restart)) : head[k] = restart[k - Len(seds)]
        <3>1. seds \in Seq(S) /\ restart \in Seq(S)
            BY <1>1, <1>2
        <3> QED BY <3>1, Concatenated
    <2> HIDE DEF head
    <2> QED BY <2>1, <1>1, <1>2, <1>14
<1>15. ConfigureVlan = head \o rest
    BY <1>8
<1> HIDE DEF head
<1>10. /\ Len(ConfigureVlan) = Len(head) + Len(rest) /\ Len(rest) \in Nat
       /\ \A k \in 1..Len(head) : ConfigureVlan[k] = head[k]
       /\ \A k \in (Len(head) + 1)..Len(ConfigureVlan) :
             ConfigureVlan[k] = rest[k - Len(head)] /\ k - Len(head) \in 1..Len(rest)
    <2>1. head \in Seq(S)
        BY <1>9
    <2> QED BY <2>1, <1>7, <1>15, Concatenated
<1>16. \A k \in (Len(NeutronEdits) + 2)..Len(ConfigureVlan) : ConfigureVlan[k] \in VlanStatements
    BY <1>9, <1>10, <1>13, <1>14
<1>17. \A k \in 1..Len(NeutronEdits) :
          ConfigureVlan[k] = Sed(Controller, "neutron-server", NeutronEdits[k])
    BY <1>9, <1>10, <1>11, <1>14
<1>18. ConfigureVlan[Len(NeutronEdits) + 1] = Restart(Controller, "neutron-server")
    BY <1>9, <1>10, <1>12, <1>14
<1> QED BY <1>9, <1>10, <1>14, <1>16, <1>17, <1>18

\* fix-computes.py: the copies of the first host's file, then only the hosts.
LEMMA ComputeShape ==
    /\ Len(FixComputes) \in Nat
    /\ Len(HostSeq) <= Len(FixComputes)
    /\ FixComputes[1] = Fetch(First, "metadata")
    /\ \A k \in 2..Len(HostSeq) : FixComputes[k] = Copy(HostSeq[k], "metadata")
    /\ \A k \in (Len(HostSeq) + 1)..Len(FixComputes) : FixComputes[k] \in ComputeStatements
<1> DEFINE copies == [k \in 1..(Len(HostSeq) - 1) |-> Copy(HostSeq[k + 1], "metadata")]
           T == {Fetch(First, "metadata")} \cup {Copy(h, "metadata") : h \in Hosts}
           S == ComputeStatements \cup T
           Body(h) == <<Connect(h)>>
               \o (IF h = DhcpHost THEN UpdateDhcpAgentCfg(h) ELSE <<>>)
               \o (IF h # First THEN RestartMetadataAgent(h) ELSE <<>>)
               \o <<Restart(h, "agent-ovs")>>
           hosts == [k \in 1..Len(HostSeq) |-> Body(HostSeq[k])]
           rest == FlattenSeq(hosts)
           head == UpdateMetadataAgentCfg
<1>1. /\ head \in Seq(T) /\ Len(head) = Len(HostSeq)
      /\ head[1] = Fetch(First, "metadata")
      /\ \A k \in 2..Len(HostSeq) : head[k] = Copy(HostSeq[k], "metadata")
    <2>1. copies \in Seq(T) /\ Len(copies) = Len(HostSeq) - 1
        <3>1. \A k \in 1..(Len(HostSeq) - 1) : copies[k] \in T
            BY HostFacts
        <3>2. Len(HostSeq) - 1 \in Nat
            BY HostFacts
        <3> HIDE DEF T
        <3> QED BY <3>1, <3>2
    <2>2. <<Fetch(First, "metadata")>> \in Seq(T)
        OBVIOUS
    <2>3. \A k \in 2..Len(HostSeq) : copies[k - 1] = Copy(HostSeq[k], "metadata")
        BY HostFacts
    <2>4. head = <<Fetch(First, "metadata")>> \o copies
        BY DEF UpdateMetadataAgentCfg
    <2> HIDE DEF copies, T, head
    <2>5. head \in Seq(T) /\ Len(head) = Len(HostSeq)
        BY <2>1, <2>2, <2>4, HostFacts, ConcatProperties
    <2>6. head[1] = Fetch(First, "metadata")
        BY <2>1, <2>2, <2>4, HostFacts, ConcatProperties
    <2>7. \A k \in 2..Len(HostSeq) : head[k] = copies[k - 1]
        BY <2>1, <2>2, <2>4, HostFacts, ConcatProperties
    <2> QED BY <2>3, <2>5, <2>6, <2>7
<1>2. ASSUME NEW h \in Hosts PROVE Body(h) \in Seq(ComputeStatements)
    <2>1. /\ Connect(h) \in ComputeStatements /\ Restart(h, "agent-ovs") \in ComputeStatements
          /\ Sed(h, "dhcp-agent", ForceMetadata) \in ComputeStatements
          /\ Restart(h, "dhcp-agent") \in ComputeStatements
          /\ Kill(h, "metadata") \in ComputeStatements
          /\ Restart(h, "metadata") \in ComputeStatements
        BY DEF ComputeStatements, Plain
    <2> DEFINE A == <<Connect(h)>>
               B == IF h = DhcpHost THEN UpdateDhcpAgentCfg(h) ELSE <<>>
               C == IF h # First THEN RestartMetadataAgent(h) ELSE <<>>
               D == <<Restart(h, "agent-ovs")>>
    <2>2. A \in Seq(ComputeStatements) /\ D \in Seq(ComputeStatements)
        BY <2>1
    <2>3. B \in Seq(ComputeStatements)
        BY <2>1 DEF UpdateDhcpAgentCfg
    <2>4. C \in Seq(ComputeStatements)
        BY <2>1 DEF RestartMetadataAgent
    <2>5. Body(h) = A \o B \o C \o D
        OBVIOUS
    <2> HIDE DEF A, B, C, D, Body
    <2> QED BY <2>2, <2>3, <2>4, <2>5, ConcatProperties
<1> HIDE DEF T
<1>3. hosts \in Seq(Seq(ComputeStatements)) /\ Len(hosts) > 0
    <2> HIDE DEF Body
    <2> QED BY <1>2, HostFacts
<1>4. rest \in Seq(ComputeStatements)
    <2> HIDE DEF hosts
    <2> QED BY <1>3, FlattenSeqType
<1>5. FixComputes = head \o rest
    BY DEF FixComputes
<1>6. ComputeStatements \subseteq S /\ T \subseteq S
    OBVIOUS
<1> HIDE DEF S, rest, head
<1>7. rest \in Seq(S) /\ head \in Seq(S)
    BY <1>1, <1>4, <1>6
<1>8. /\ Len(FixComputes) = Len(head) + Len(rest) /\ Len(rest) \in Nat
      /\ \A k \in 1..Len(head) : FixComputes[k] = head[k]
      /\ \A k \in (Len(head) + 1)..Len(FixComputes) :
            FixComputes[k] = rest[k - Len(head)] /\ k - Len(head) \in 1..Len(rest)
    BY <1>5, <1>7, Concatenated
<1>9. \A k \in 1..Len(rest) : rest[k] \in ComputeStatements
    BY <1>4
<1>10. \A k \in (Len(HostSeq) + 1)..Len(FixComputes) : FixComputes[k] \in ComputeStatements
    BY <1>1, <1>8, <1>9, HostFacts
<1>11. \A k \in 1..Len(HostSeq) : FixComputes[k] = head[k]
    BY <1>1, <1>8, HostFacts
<1> QED BY <1>1, <1>8, <1>10, <1>11, HostFacts

LEMMA StatementKinds ==
    ASSUME NEW n \in Nodes
    PROVE  /\ \A v \in Services \ {"metadata"}, e \in Edits :
                 /\ Sed(n, v, e) \in Statements
                 /\ Sed(n, v, e).do = "sed" /\ Sed(n, v, e).on = v /\ Sed(n, v, e).node = n
           /\ \A v \in Services :
                 /\ Restart(n, v) \in Statements
                 /\ Restart(n, v).do = "restart" /\ Restart(n, v).on = v /\ Restart(n, v).node = n
           /\ /\ Kill(n, "metadata") \in Statements
              /\ Kill(n, "metadata").do = "kill" /\ Kill(n, "metadata").node = n
           /\ Connect(n) \in Statements /\ Connect(n).do = "connect" /\ Connect(n).node = n
           /\ n = First => Fetch(n, "metadata") \in Statements
           /\ /\ Fetch(n, "metadata").do = "fetch" /\ Fetch(n, "metadata").node = n
              /\ Fetch(n, "metadata").on = "metadata"
           /\ n # First => Copy(n, "metadata") \in Statements
           /\ /\ Copy(n, "metadata").do = "copy" /\ Copy(n, "metadata").node = n
              /\ Copy(n, "metadata").on = "metadata"
<1>1. ASSUME NEW v \in Services \ {"metadata"}, NEW e \in Edits
      PROVE  /\ Sed(n, v, e) \in Statements
             /\ Sed(n, v, e).do = "sed" /\ Sed(n, v, e).on = v /\ Sed(n, v, e).node = n
    BY DEF Sed, Statement, Statements, Services
<1>2. ASSUME NEW v \in Services
      PROVE  /\ Restart(n, v) \in Statements
             /\ Restart(n, v).do = "restart" /\ Restart(n, v).on = v /\ Restart(n, v).node = n
    BY DEF Restart, Statement, Statements, Services
<1>3. /\ Kill(n, "metadata") \in Statements
      /\ Kill(n, "metadata").do = "kill" /\ Kill(n, "metadata").node = n
    BY DEF Kill, Statement, Statements, Services
<1>4. Connect(n) \in Statements /\ Connect(n).do = "connect" /\ Connect(n).node = n
    BY DEF Connect, Statement, Statements, Services
<1>5. /\ n = First => Fetch(n, "metadata") \in Statements
      /\ Fetch(n, "metadata").do = "fetch" /\ Fetch(n, "metadata").node = n
      /\ Fetch(n, "metadata").on = "metadata"
    BY DEF Fetch, Statement, Statements, Services
<1>6. /\ n # First => Copy(n, "metadata") \in Statements
      /\ Copy(n, "metadata").do = "copy" /\ Copy(n, "metadata").node = n
      /\ Copy(n, "metadata").on = "metadata"
    BY DEF Copy, Statement, Statements, Services
<1> QED BY <1>1, <1>2, <1>3, <1>4, <1>5, <1>6

LEMMA VlanStatementFacts ==
    ASSUME NEW s \in VlanStatements
    PROVE  /\ s \in Statements /\ s.node \in Hosts
           /\ s.do \in {"connect", "sed", "restart"}
           /\ s.do \in {"sed", "restart"} => s.on = "agent-ovs"
<1>1. PICK h \in Hosts : \/ s = Connect(h) \/ s = Restart(h, "agent-ovs")
                         \/ \E e \in ToSet(VlanEdits) : s = Sed(h, "agent-ovs", e)
    BY DEF VlanStatements, Plain
<1>2. h \in Nodes /\ ToSet(VlanEdits) \subseteq Edits
    BY DEF Nodes, Edits
<1>3. "agent-ovs" \in Services /\ "agent-ovs" \in Services \ {"metadata"}
    BY DEF Services
<1> QED BY <1>1, <1>2, <1>3, StatementKinds

LEMMA ComputeStatementFacts ==
    ASSUME NEW s \in ComputeStatements
    PROVE  /\ s \in Statements /\ s.node \in Hosts
           /\ s.do \in {"connect", "sed", "restart", "kill"}
           /\ s.do = "sed" => s.on = "dhcp-agent"
<1>1. PICK h \in Hosts : s \in Plain(h) \cup {Sed(h, "dhcp-agent", ForceMetadata),
            Restart(h, "dhcp-agent"), Kill(h, "metadata"), Restart(h, "metadata")}
    BY DEF ComputeStatements
<1>2. h \in Nodes /\ ForceMetadata \in Edits
    BY DEF Nodes, Edits
<1>3. /\ {"agent-ovs", "dhcp-agent", "metadata"} \subseteq Services
      /\ "dhcp-agent" \in Services \ {"metadata"}
    BY DEF Services
<1>4. \/ s = Connect(h) \/ s = Sed(h, "dhcp-agent", ForceMetadata)
      \/ s = Kill(h, "metadata")
      \/ \E v \in Services : s = Restart(h, v)
    BY <1>1, <1>3 DEF Plain
<1> QED BY <1>2, <1>3, <1>4, StatementKinds

\* Every statement of a program is one, of that program's kind.
LEMMA VlanProgram ==
    /\ Len(ConfigureVlan) \in Nat
    /\ \A k \in 1..Len(ConfigureVlan) :
          /\ ConfigureVlan[k] \in Statements
          /\ ConfigureVlan[k].do \in {"connect", "sed", "restart"}
          /\ ConfigureVlan[k].on = "metadata" => ConfigureVlan[k].do = "connect"
          /\ k <= Len(NeutronEdits) => ConfigureVlan[k] = Sed(Controller, "neutron-server", NeutronEdits[k])
          /\ k = Len(NeutronEdits) + 1 => ConfigureVlan[k] = Restart(Controller, "neutron-server")
          /\ k > Len(NeutronEdits) + 1 => ConfigureVlan[k].node \in Hosts
<1> DEFINE s(k) == ConfigureVlan[k]
<1>1. Len(ConfigureVlan) \in Nat /\ Len(NeutronEdits) \in Nat
    BY VlanShape, ListsAssumption
<1>2. ASSUME NEW k \in 1..Len(NeutronEdits)
      PROVE  /\ s(k) = Sed(Controller, "neutron-server", NeutronEdits[k])
             /\ s(k) \in Statements /\ s(k).do = "sed" /\ s(k).on # "metadata"
    <2>1. s(k) = Sed(Controller, "neutron-server", NeutronEdits[k])
        BY VlanShape
    <2>2. NeutronEdits[k] \in Edits /\ Controller \in Nodes
        BY ListsAssumption DEF Nodes
    <2>3. "neutron-server" \in Services \ {"metadata"}
        BY DEF Services
    <2> QED BY <2>1, <2>2, <2>3, StatementKinds
<1>3. ASSUME NEW k \in 1..Len(ConfigureVlan), k = Len(NeutronEdits) + 1
      PROVE  /\ s(k) = Restart(Controller, "neutron-server")
             /\ s(k) \in Statements /\ s(k).do = "restart" /\ s(k).on # "metadata"
    <2>1. s(k) = Restart(Controller, "neutron-server")
        BY <1>3, VlanShape
    <2>2. Controller \in Nodes /\ "neutron-server" \in Services
        BY DEF Nodes, Services
    <2> QED BY <2>1, <2>2, StatementKinds
<1>4. ASSUME NEW k \in 1..Len(ConfigureVlan), k > Len(NeutronEdits) + 1
      PROVE  /\ s(k) \in Statements /\ s(k).node \in Hosts
             /\ s(k).do \in {"connect", "sed", "restart"}
             /\ s(k).on = "metadata" => s(k).do = "connect"
    <2>1. s(k) \in VlanStatements
        <3>1. k \in (Len(NeutronEdits) + 2)..Len(ConfigureVlan)
            BY <1>1, <1>4
        <3> QED BY <3>1, VlanShape
    <2> QED BY <2>1, VlanStatementFacts
<1>5. ASSUME NEW k \in 1..Len(ConfigureVlan)
      PROVE  \/ k \in 1..Len(NeutronEdits) /\ k # Len(NeutronEdits) + 1 /\ ~(k > Len(NeutronEdits) + 1)
             \/ k = Len(NeutronEdits) + 1 /\ ~(k <= Len(NeutronEdits)) /\ ~(k > Len(NeutronEdits) + 1)
             \/ k > Len(NeutronEdits) + 1 /\ ~(k <= Len(NeutronEdits)) /\ k # Len(NeutronEdits) + 1
    BY <1>1
<1> HIDE DEF s
<1>6. ASSUME NEW k \in 1..Len(ConfigureVlan)
      PROVE  /\ s(k) \in Statements
             /\ s(k).do \in {"connect", "sed", "restart"}
             /\ s(k).on = "metadata" => s(k).do = "connect"
             /\ k <= Len(NeutronEdits) => s(k) = Sed(Controller, "neutron-server", NeutronEdits[k])
             /\ k = Len(NeutronEdits) + 1 => s(k) = Restart(Controller, "neutron-server")
             /\ k > Len(NeutronEdits) + 1 => s(k).node \in Hosts
    BY <1>2, <1>3, <1>4, <1>5
<1> QED BY <1>1, <1>6 DEF s

LEMMA ComputeProgram ==
    /\ Len(FixComputes) \in Nat
    /\ \A k \in 1..Len(FixComputes) :
          /\ FixComputes[k] \in Statements
          /\ FixComputes[k].do = "sed" => FixComputes[k].on = "dhcp-agent"
          /\ k = 1 => FixComputes[k] = Fetch(First, "metadata")
          /\ k \in 2..Len(HostSeq) => FixComputes[k] = Copy(HostSeq[k], "metadata")
          /\ k > Len(HostSeq) => FixComputes[k] \in ComputeStatements
<1> DEFINE s(k) == FixComputes[k]
<1>1. Len(FixComputes) \in Nat /\ Len(HostSeq) \in Nat \ {0}
    BY ComputeShape, HostFacts
<1>2. s(1) = Fetch(First, "metadata") /\ s(1) \in Statements /\ s(1).do # "sed"
    <2>1. s(1) = Fetch(First, "metadata")
        BY ComputeShape
    <2>2. First \in Nodes
        BY HostFacts DEF Nodes
    <2> QED BY <2>1, <2>2, StatementKinds
<1>3. ASSUME NEW k \in 2..Len(HostSeq)
      PROVE  s(k) = Copy(HostSeq[k], "metadata") /\ s(k) \in Statements /\ s(k).do # "sed"
    <2>1. s(k) = Copy(HostSeq[k], "metadata")
        BY ComputeShape
    <2>2. HostSeq[k] \in Nodes /\ HostSeq[k] # First
        BY HostFacts DEF Nodes
    <2> QED BY <2>1, <2>2, StatementKinds
<1>4. ASSUME NEW k \in 1..Len(FixComputes), k > Len(HostSeq)
      PROVE  /\ s(k) \in ComputeStatements /\ s(k) \in Statements
             /\ s(k).do = "sed" => s(k).on = "dhcp-agent"
    <2>1. s(k) \in ComputeStatements
        <3>1. k \in (Len(HostSeq) + 1)..Len(FixComputes)
            BY <1>1, <1>4
        <3> QED BY <3>1, ComputeShape
    <2> QED BY <2>1, ComputeStatementFacts
<1>5. ASSUME NEW k \in 1..Len(FixComputes)
      PROVE  \/ k = 1 /\ k \notin 2..Len(HostSeq) /\ ~(k > Len(HostSeq))
             \/ k # 1 /\ k \in 2..Len(HostSeq) /\ ~(k > Len(HostSeq))
             \/ k # 1 /\ k \notin 2..Len(HostSeq) /\ k > Len(HostSeq)
    BY <1>1
<1> HIDE DEF s
<1>6. ASSUME NEW k \in 1..Len(FixComputes)
      PROVE  /\ s(k) \in Statements
             /\ s(k).do = "sed" => s(k).on = "dhcp-agent"
             /\ k = 1 => s(k) = Fetch(First, "metadata")
             /\ k \in 2..Len(HostSeq) => s(k) = Copy(HostSeq[k], "metadata")
             /\ k > Len(HostSeq) => s(k) \in ComputeStatements
    BY <1>2, <1>3, <1>4, <1>5
<1> QED BY <1>1, <1>6 DEF s

LEMMA ProgramFacts ==
    ASSUME NEW p \in Programs
    PROVE  Len(p) \in Nat /\ \A k \in 1..Len(p) : p[k] \in Statements
BY VlanProgram, ComputeProgram DEF Programs

----------------------------------------------------------------------------
(* The inductive invariant *)

\* What runs on a host is a statement the script has passed, with its edit in
\* the copy that sed has read.
RemoteInv ==
    \A r \in remote :
        /\ r.cmd \in Executed
        /\ r.cmd.node \in Hosts
        /\ r.cmd.do \in {"sed", "restart", "kill"}
        /\ r.cmd.do = "sed" /\ r.read => r.cmd.edit \in r.copy

NeutronReady ==
    ToSet(NeutronEdits) \subseteq loaded[Controller]["neutron-server"]
HostsUntouched ==
    /\ remote = {}
    /\ \A h \in Hosts : /\ file[h]["agent-ovs"] \cap ToSet(VlanEdits) = {}
                        /\ loaded[h]["agent-ovs"] \cap ToSet(VlanEdits) = {}

\* configure-vlan.py has neutron's edits in the file as far as it has come, and
\* comes to the hosts only when neutron-server has read them all.
VlanInv ==
    program = ConfigureVlan =>
        /\ \A k \in 1..Len(NeutronEdits) :
              k < pc => NeutronEdits[k] \in file[Controller]["neutron-server"]
        /\ NeutronReady \/ (HostsUntouched /\ pc <= Len(NeutronEdits) + 1)

\* fix-computes.py leaves the agents' own files alone, and copies the first
\* host's metadata_agent.ini before anything else.
ComputeInv ==
    program = FixComputes =>
        /\ \A h \in Hosts : file[h]["agent-ovs"] = {} /\ loaded[h]["agent-ovs"] = {}
        /\ pc > 1 => fetched = {ProxyConfig}
        /\ \A k \in 2..Len(HostSeq) :
              k < pc => file[HostSeq[k]]["metadata"] = {ProxyConfig}

FirstInv == file[First]["metadata"] = {ProxyConfig}

\* An edit that is alone on its file is there, or on its way, or has failed.
SoleInv ==
    \A c \in Executed :
        Alone(c) /\ c \notin failed =>
            c.edit \in file[c.node][c.on] \/ \E r \in remote : r.cmd = c

IInv == TypeOK /\ RemoteInv /\ VlanInv /\ ComputeInv /\ FirstInv /\ SoleInv

----------------------------------------------------------------------------
(* The steps *)

\* What a command that ends does to each file, and to what each service has.
LEMMA EffectAt ==
    ASSUME TypeOK, NEW c \in Statements, NEW copy \in SUBSET Edits, Effect(c, copy)
    PROVE  /\ file' \in [Nodes -> [Services -> SUBSET Edits]]
           /\ loaded' \in [Nodes -> [Services -> SUBSET Edits]]
           /\ \A n \in Nodes, s \in Services :
                /\ c.do \in {"sed", "copy"} /\ n = c.node /\ s = c.on => file'[n][s] = copy
                /\ ~(c.do \in {"sed", "copy"} /\ n = c.node /\ s = c.on)
                      => file'[n][s] = file[n][s]
                /\ c.do = "restart" /\ n = c.node /\ s = c.on => loaded'[n][s] = file[n][s]
                /\ c.do = "kill" /\ n = c.node /\ s = c.on => loaded'[n][s] = {}
                /\ ~(c.do \in {"restart", "kill"} /\ n = c.node /\ s = c.on)
                      => loaded'[n][s] = loaded[n][s]
<1>1. /\ file \in [Nodes -> [Services -> SUBSET Edits]]
      /\ loaded \in [Nodes -> [Services -> SUBSET Edits]]
    BY DEF TypeOK
<1>2. c.node \in Nodes
    BY DEF Statements
<1>3. c.do \in {"sed", "copy", "restart", "kill"} => c.on \in Services
    BY DEF Statements, Services
<1>4. CASE c.do \in {"sed", "copy"}
    <2>1. file' = [file EXCEPT ![c.node][c.on] = copy] /\ loaded' = loaded
        BY <1>4 DEF Effect
    <2> QED BY <1>1, <1>2, <1>3, <1>4, <2>1
<1>5. CASE c.do = "restart"
    <2>1. file' = file /\ loaded' = [loaded EXCEPT ![c.node][c.on] = file[c.node][c.on]]
        BY <1>5 DEF Effect
    <2> QED BY <1>1, <1>2, <1>3, <1>5, <2>1
<1>6. CASE c.do = "kill"
    <2>1. file' = file /\ loaded' = [loaded EXCEPT ![c.node][c.on] = {}]
        BY <1>6 DEF Effect
    <2> QED BY <1>1, <1>2, <1>3, <1>6, <2>1
<1>7. CASE c.do \notin {"sed", "copy", "restart", "kill"}
    <2>1. file' = file /\ loaded' = loaded
        BY <1>7 DEF Effect
    <2> QED BY <1>1, <1>7, <2>1
<1> QED BY <1>4, <1>5, <1>6, <1>7

LEMMA CurrentFacts ==
    ASSUME TypeOK, Advance
    PROVE  /\ pc \in 1..Len(program) /\ Len(program) \in Nat
           /\ Current \in Statements /\ Current = program[pc]
           /\ pc' = pc + 1 /\ program' = program
           /\ Executed' = Executed \cup {Current}
<1>1. Len(program) \in Nat /\ \A k \in 1..Len(program) : program[k] \in Statements
    BY ProgramFacts DEF TypeOK
<1>2. pc \in 1..Len(program) /\ pc' = pc + 1 /\ program' = program
    BY <1>1 DEF TypeOK, Advance
<1>3. Executed' = Executed \cup {Current}
    BY <1>1, <1>2 DEF Executed, Current
<1> QED BY <1>1, <1>2, <1>3 DEF Current

LEMMA EditedTyped ==
    ASSUME TypeOK, NEW c \in Statements, c.do = "sed"
    PROVE  Edited(c) \in SUBSET Edits /\ c.edit \in Edited(c)
<1>1. c.node \in Nodes /\ c.on \in Services /\ c.edit \in Edits
    BY DEF Statements
<1>2. file[c.node][c.on] \in SUBSET Edits
    BY <1>1 DEF TypeOK
<1> QED BY <1>1, <1>2 DEF Edited

\* The command of a remote shell is a statement, and its copy a set of edits.
LEMMA RemoteFacts ==
    ASSUME TypeOK, NEW r \in remote
    PROVE  /\ r.cmd \in Statements /\ r.copy \in SUBSET Edits /\ r.read \in BOOLEAN
           /\ r = [cmd |-> r.cmd, read |-> r.read, copy |-> r.copy]
           /\ \E k \in 1..Len(program) : r.cmd = program[k]
BY ProgramFacts DEF TypeOK, Commands

\* What a command that fails leaves.
LEMMA FailAt ==
    ASSUME TypeOK, NEW r \in remote, Fail(r)
    PROVE  /\ loaded' \in [Nodes -> [Services -> SUBSET Edits]]
           /\ \A n \in Nodes, s \in Services :
                /\ loaded'[n][s] \in {loaded[n][s], {}}
                /\ n # r.cmd.node => loaded'[n][s] = loaded[n][s]
           /\ r.cmd \in Statements /\ r.cmd \in ToSet(program) /\ remote' \subseteq remote
           /\ UNCHANGED <<program, pc, active, runs, fetched, file>>
<1>1. /\ r.cmd \in Statements
      /\ \E k \in 1..Len(program) : r.cmd = program[k]
    BY RemoteFacts
<1>2. r.cmd \in ToSet(program)
    BY <1>1 DEF ToSet
<1>3. loaded \in [Nodes -> [Services -> SUBSET Edits]]
    BY DEF TypeOK
<1>4. CASE loaded' = loaded
    BY <1>1, <1>2, <1>3, <1>4 DEF Fail, script
<1>5. CASE r.cmd.do = "restart" /\ loaded' = [loaded EXCEPT ![r.cmd.node][r.cmd.on] = {}]
    <2>1. r.cmd.node \in Nodes /\ r.cmd.on \in Services
        BY <1>1, <1>5 DEF Statements, Services
    <2>2. /\ loaded' \in [Nodes -> [Services -> SUBSET Edits]]
          /\ \A n \in Nodes, s \in Services :
                /\ loaded'[n][s] \in {loaded[n][s], {}}
                /\ n # r.cmd.node => loaded'[n][s] = loaded[n][s]
        BY <1>3, <1>5, <2>1
    <2> QED BY <1>1, <1>2, <2>2 DEF Fail, script
<1> QED BY <1>4, <1>5 DEF Fail

\* The copy a local command ends with.
LocalCopy == IF Current.do = "copy" THEN fetched ELSE Edited(Current)

LEMMA LocalEffect ==
    ASSUME TypeOK, RunLocal
    PROVE  /\ Current.do \in {"sed", "copy"} => LocalCopy \in SUBSET Edits
           /\ \E copy \in SUBSET Edits :
                /\ Current.do \in {"sed", "copy"} => copy = LocalCopy
                /\ Effect(Current, copy)
<1>1. Current \in Statements
    BY CurrentFacts DEF RunLocal
<1>2. Current.do \in {"sed", "copy"} => LocalCopy \in SUBSET Edits
    BY <1>1, EditedTyped DEF LocalCopy, TypeOK
<1>3. Effect(Current, LocalCopy)
    BY DEF RunLocal, LocalCopy
<1>4. CASE Current.do \in {"sed", "copy"}
    BY <1>2, <1>3, <1>4
<1>5. CASE Current.do \notin {"sed", "copy"}
    <2>1. Effect(Current, {})
        BY <1>3, <1>5 DEF Effect
    <2> QED BY <1>5, <2>1
<1> QED BY <1>2, <1>4, <1>5

LEMMA TypeInductive ==
    ASSUME TypeOK, [Next]_vars
    PROVE  TypeOK'
<1>1. Len(program) \in Nat
    BY ProgramFacts DEF TypeOK
<1>2. CASE Run
    BY <1>1, <1>2, HostsAssumption DEF Run, TypeOK, Commands
<1>3. CASE RunLocal
    <2>1. PICK copy \in SUBSET Edits : Effect(Current, copy)
        BY <1>3, LocalEffect
    <2>2. /\ Current \in Statements /\ pc' = pc + 1 /\ pc \in 1..Len(program)
          /\ program' = program
        BY <1>3, CurrentFacts DEF RunLocal
    <2>3. /\ file' \in [Nodes -> [Services -> SUBSET Edits]]
          /\ loaded' \in [Nodes -> [Services -> SUBSET Edits]]
        BY <2>1, <2>2, EffectAt
    <2>4. fetched' \in SUBSET Edits
        <3>1. CASE Current.do = "fetch"
            <4>1. Current.node \in Nodes /\ Current.on \in Services
                BY <2>2, <3>1 DEF Statements, Services
            <4> QED BY <1>3, <3>1, <4>1 DEF RunLocal, TypeOK
        <3> QED BY <1>3, <3>1 DEF RunLocal, TypeOK
    <2>5. program' \in Programs /\ active' \in BOOLEAN /\ runs' \in 0..MaxRuns
        BY <1>3 DEF RunLocal, Advance, TypeOK
    <2>6. pc' \in 1..(Len(program') + 1)
        BY <1>1, <2>2
    <2>7. remote' \subseteq Commands'
        BY <1>3, <2>2 DEF RunLocal, TypeOK, Commands
    <2>8. failed' \subseteq ToSet(program')
        BY <1>3 DEF RunLocal, Advance, TypeOK
    <2> QED BY <2>3, <2>4, <2>5, <2>6, <2>7, <2>8 DEF TypeOK
<1>4. CASE Exec
    <2>1. /\ Current = program[pc] /\ pc' = pc + 1 /\ pc \in 1..Len(program)
          /\ program' = program
        BY <1>4, CurrentFacts DEF Exec
    <2>2. [cmd |-> Current, read |-> FALSE, copy |-> {}] \in Commands
        BY <2>1 DEF Commands
    <2>3. remote' \subseteq Commands'
        <3>1. Commands' = Commands
            BY <2>1 DEF Commands
        <3> QED BY <1>4, <2>2, <3>1 DEF Exec, TypeOK
    <2>4. pc' \in 1..(Len(program') + 1)
        BY <1>1, <2>1
    <2> QED BY <1>4, <2>3, <2>4 DEF Exec, Advance, TypeOK
<1>5. CASE Abort \/ End
    BY <1>5 DEF Abort, End, TypeOK, Commands
<1>6. ASSUME NEW r \in remote, SedRead(r) PROVE TypeOK'
    <2>1. /\ r.cmd \in Statements /\ r \in Commands
          /\ r = [cmd |-> r.cmd, read |-> r.read, copy |-> r.copy]
        BY RemoteFacts DEF TypeOK
    <2>2. Edited(r.cmd) \in SUBSET Edits
        BY <1>6, <2>1, EditedTyped DEF SedRead
    <2>3. [r EXCEPT !.read = TRUE, !.copy = Edited(r.cmd)] \in Commands
        BY <2>1, <2>2 DEF Commands
    <2>4. remote' \subseteq Commands'
        <3>1. Commands' = Commands
            BY <1>6 DEF SedRead, script, Commands
        <3> QED BY <1>6, <2>3, <3>1 DEF SedRead, TypeOK
    <2> QED BY <1>6, <2>4 DEF SedRead, script, TypeOK
<1>7. ASSUME NEW r \in remote, Finish(r) PROVE TypeOK'
    <2>1. r.cmd \in Statements /\ r.copy \in SUBSET Edits /\ Effect(r.cmd, r.copy)
        BY <1>7, RemoteFacts DEF Finish
    <2>2. /\ file' \in [Nodes -> [Services -> SUBSET Edits]]
          /\ loaded' \in [Nodes -> [Services -> SUBSET Edits]]
        BY <2>1, EffectAt
    <2>3. remote' \subseteq Commands'
        BY <1>7 DEF Finish, script, TypeOK, Commands
    <2> QED BY <1>7, <2>2, <2>3 DEF Finish, script, TypeOK
<1>8. ASSUME NEW r \in remote, Fail(r) PROVE TypeOK'
    <2>1. /\ r.cmd \in ToSet(program) /\ remote' \subseteq remote
          /\ UNCHANGED <<program, pc, active, runs, fetched, file>>
        BY <1>8, FailAt
    <2>2. loaded' \in [Nodes -> [Services -> SUBSET Edits]]
        BY <1>8, FailAt
    <2>3. failed' \subseteq ToSet(program)
        BY <1>8, <2>1 DEF Fail, TypeOK
    <2>4. remote' \subseteq Commands'
        BY <2>1 DEF TypeOK, Commands
    <2> QED BY <2>1, <2>2, <2>3, <2>4 DEF TypeOK
<1>9. CASE UNCHANGED vars
    BY <1>9 DEF vars, TypeOK, Commands
<1> QED BY <1>2, <1>3, <1>4, <1>5, <1>6, <1>7, <1>8, <1>9 DEF Next

LEMMA ExecFacts ==
    ASSUME TypeOK, Exec
    PROVE  /\ Current.node \in Hosts /\ Current.do \in {"sed", "restart", "kill"}
           /\ remote' = remote \cup {[cmd |-> Current, read |-> FALSE, copy |-> {}]}
           /\ file' = file /\ loaded' = loaded /\ fetched' = fetched
<1>1. Current \in Statements /\ ~ Waits
    BY CurrentFacts DEF Exec
<1> QED BY <1>1 DEF Exec, Statements, Nodes, Waits

LEMMA RemoteInductive ==
    ASSUME TypeOK, RemoteInv, [Next]_vars
    PROVE  RemoteInv'
<1>1. CASE Run
    BY <1>1 DEF Run, RemoteInv
<1>2. CASE RunLocal
    <2>1. Executed \subseteq Executed' /\ remote' = remote
        BY <1>2, CurrentFacts DEF RunLocal
    <2> QED BY <2>1 DEF RemoteInv
<1>3. CASE Exec
    <2>1. Executed' = Executed \cup {Current}
        BY <1>3, CurrentFacts DEF Exec
    <2> QED BY <1>3, <2>1, ExecFacts DEF RemoteInv
<1>4. CASE Abort \/ End
    BY <1>4 DEF Abort, End, RemoteInv, Executed
<1>5. ASSUME NEW r \in remote, SedRead(r) PROVE RemoteInv'
    <2> DEFINE new == [r EXCEPT !.read = TRUE, !.copy = Edited(r.cmd)]
    <2>1. Executed' = Executed /\ remote' = (remote \ {r}) \cup {new}
        BY <1>5 DEF SedRead, script, Executed
    <2>2. new.cmd = r.cmd /\ new.copy = Edited(r.cmd)
        <3>1. r \in Commands
            BY DEF TypeOK
        <3> QED BY <3>1 DEF Commands
    <2>3. r.cmd.edit \in Edited(r.cmd)
        BY DEF Edited
    <2>4. new.cmd = r.cmd /\ new.cmd.edit \in new.copy
        BY <2>2, <2>3
    <2> HIDE DEF new
    <2> QED BY <2>1, <2>4 DEF RemoteInv
<1>6. ASSUME NEW r \in remote, Finish(r) PROVE RemoteInv'
    BY <1>6 DEF Finish, script, Executed, RemoteInv
<1>7. ASSUME NEW r \in remote, Fail(r) PROVE RemoteInv'
    BY <1>7 DEF Fail, script, Executed, RemoteInv
<1>8. CASE UNCHANGED vars
    BY <1>8 DEF vars, Executed, RemoteInv
<1> QED BY <1>1, <1>2, <1>3, <1>4, <1>5, <1>6, <1>7, <1>8 DEF Next

LEMMA FirstInductive ==
    ASSUME TypeOK, RemoteInv, FirstInv, [Next]_vars
    PROVE  FirstInv'
<1>1. First \in Nodes /\ "metadata" \in Services
    BY HostFacts DEF Nodes, Services
<1>2. ASSUME NEW c \in Statements, NEW copy \in SUBSET Edits, Effect(c, copy)
      PROVE  FirstInv'
    <2>1. ~(c.do \in {"sed", "copy"} /\ First = c.node /\ "metadata" = c.on)
        BY DEF Statements
    <2> QED BY <1>1, <1>2, <2>1, EffectAt DEF FirstInv
<1>3. CASE RunLocal
    BY <1>2, <1>3, LocalEffect, CurrentFacts DEF RunLocal
<1>4. ASSUME NEW r \in remote, Finish(r) PROVE FirstInv'
    BY <1>2, <1>4, RemoteFacts DEF Finish
<1>5. CASE UNCHANGED file
    BY <1>5 DEF FirstInv
<1> QED BY <1>3, <1>4, <1>5 DEF Next, Run, Exec, Abort, End, SedRead, Fail, vars

\* What the next statement of configure-vlan.py can be.
LEMMA VlanCurrent ==
    ASSUME TypeOK, Advance, program = ConfigureVlan
    PROVE  /\ Current.do \in {"connect", "sed", "restart"}
           /\ Current.node = Controller => pc <= Len(NeutronEdits) + 1
           /\ pc <= Len(NeutronEdits) => Current = Sed(Controller, "neutron-server", NeutronEdits[pc])
           /\ pc = Len(NeutronEdits) + 1 => Current = Restart(Controller, "neutron-server")
<1>1. pc \in 1..Len(ConfigureVlan) /\ Current = ConfigureVlan[pc] /\ Len(NeutronEdits) \in Nat
    BY CurrentFacts, ListsAssumption
<1>2. pc <= Len(NeutronEdits) + 1 \/ pc > Len(NeutronEdits) + 1
    BY <1>1, VlanProgram
<1> QED BY <1>1, <1>2, VlanProgram, HostsAssumption

LEMMA VlanInductive ==
    ASSUME TypeOK, RemoteInv, VlanInv, [Next]_vars
    PROVE  VlanInv'
<1> DEFINE N == Len(NeutronEdits)
           node == Controller
           Done(k) == NeutronEdits[k] \in file[node]["neutron-server"]
<1>1. SUFFICES ASSUME program = ConfigureVlan, program' = program
               PROVE  /\ \A k \in 1..N : k < pc' =>
                            NeutronEdits[k] \in file'[node]["neutron-server"]
                      /\ NeutronReady' \/ (HostsUntouched' /\ pc' <= N + 1)
    <2>1. program' = program
        BY DEF Next, Run, RunLocal, Exec, Advance, Abort, End, SedRead, Finish, Fail, script, vars
    <2> QED BY <2>1 DEF VlanInv
<1>2. /\ \A k \in 1..N : k < pc => Done(k)
      /\ NeutronReady \/ (HostsUntouched /\ pc <= N + 1)
    BY <1>1 DEF VlanInv
<1>3. /\ node \in Nodes /\ "neutron-server" \in Services /\ "agent-ovs" \in Services
      /\ node \notin Hosts /\ Hosts \subseteq Nodes
      /\ "neutron-server" # "agent-ovs" /\ N \in Nat /\ pc \in Nat \ {0}
    BY HostsAssumption, ListsAssumption DEF Nodes, Services, TypeOK
<1>4. \A e \in ToSet(NeutronEdits) : \E k \in 1..N : e = NeutronEdits[k]
    BY ListsAssumption, ListElements
<1>5. CASE Run
    BY <1>1, <1>2, <1>3, <1>5 DEF Run, NeutronReady, HostsUntouched
<1>6. CASE RunLocal
    <2>1. /\ pc' = pc + 1 /\ Current \in Statements
          /\ Current.do \in {"connect", "sed", "restart"}
          /\ Current.node = node => pc <= N + 1
          /\ pc <= N => Current = Sed(node, "neutron-server", NeutronEdits[pc])
          /\ pc = N + 1 => Current = Restart(node, "neutron-server")
        BY <1>1, <1>6, CurrentFacts, VlanCurrent DEF RunLocal
    <2>2. PICK copy \in SUBSET Edits :
              /\ Current.do = "sed" => copy = Edited(Current)
              /\ Effect(Current, copy)
        BY <1>6, LocalEffect DEF LocalCopy
    <2> DEFINE f == file[node]["neutron-server"]
               g == file'[node]["neutron-server"]
               l == loaded'[node]["neutron-server"]
    <2>3. /\ Current.do = "sed" /\ Current.node = node /\ Current.on = "neutron-server"
                => g = f \cup {Current.edit}
          /\ ~(Current.do = "sed" /\ Current.node = node /\ Current.on = "neutron-server")
                => g = f
        BY <1>3, <2>1, <2>2, EffectAt DEF Edited
    <2>4. /\ Current.do = "restart" /\ Current.node = node /\ Current.on = "neutron-server" => l = f
          /\ ~(Current.do = "restart" /\ Current.node = node /\ Current.on = "neutron-server")
                => l = loaded[node]["neutron-server"]
        BY <1>3, <2>1, <2>2, EffectAt
    <2>5. pc <= N => /\ Current.do = "sed" /\ Current.node = node
                     /\ Current.on = "neutron-server" /\ Current.edit = NeutronEdits[pc]
        BY <2>1 DEF Sed, Statement
    <2>6. pc = N + 1 => /\ Current.do = "restart" /\ Current.node = node
                        /\ Current.on = "neutron-server"
        BY <1>3, <2>1, StatementKinds
    <2>7. ASSUME NEW k \in 1..N, k < pc' PROVE NeutronEdits[k] \in g
        <3>1. f \subseteq g
            BY <2>3
        <3>2. CASE k < pc
            BY <1>2, <3>1, <3>2
        <3>3. CASE k = pc
            BY <2>3, <2>5, <3>3
        <3> QED BY <1>3, <2>1, <2>7, <3>2, <3>3
    <2>8. CASE Current.do = "restart" /\ Current.node = node /\ Current.on = "neutron-server"
        <3>1. pc = N + 1
            BY <1>3, <2>1, <2>5, <2>8
        <3>2. ToSet(NeutronEdits) \subseteq f
            BY <1>2, <1>3, <1>4, <3>1
        <3>3. NeutronReady'
            BY <2>4, <2>8, <3>2 DEF NeutronReady
        <3> QED BY <2>7, <3>3
    <2>9. CASE ~(Current.do = "restart" /\ Current.node = node /\ Current.on = "neutron-server")
        <3>1. NeutronReady => NeutronReady'
            BY <2>4, <2>9 DEF NeutronReady
        <3>2. CASE HostsUntouched /\ pc <= N + 1
            <4>1. pc <= N
                BY <1>3, <2>6, <2>9, <3>2
            <4>2. \A h \in Hosts : /\ file'[h]["agent-ovs"] = file[h]["agent-ovs"]
                                   /\ loaded'[h]["agent-ovs"] = loaded[h]["agent-ovs"]
                BY <1>3, <2>1, <2>2, <2>5, <4>1, EffectAt
            <4>3. HostsUntouched'
                BY <1>6, <3>2, <4>2 DEF RunLocal, HostsUntouched
            <4> QED BY <1>3, <2>1, <2>7, <4>1, <4>3
        <3> QED BY <1>2, <2>7, <3>1, <3>2
    <2> QED BY <2>8, <2>9
<1>7. CASE Exec
    <2>1. /\ pc' = pc + 1 /\ Current.node \in Hosts /\ file' = file /\ loaded' = loaded
          /\ pc <= N => Current = Sed(node, "neutron-server", NeutronEdits[pc])
          /\ pc = N + 1 => Current = Restart(node, "neutron-server")
        BY <1>1, <1>7, CurrentFacts, VlanCurrent, ExecFacts DEF Exec
    <2>2. pc > N + 1
        <3>1. ~(pc <= N)
            BY <1>3, <2>1 DEF Sed, Statement
        <3>2. pc # N + 1
            BY <1>3, <2>1, StatementKinds
        <3> QED BY <1>3, <3>1, <3>2
    <2>3. NeutronReady /\ NeutronReady'
        BY <1>2, <1>3, <2>1, <2>2 DEF NeutronReady
    <2>4. \A k \in 1..N : Done(k)
        BY <1>2, <1>3, <2>2
    <2> QED BY <2>1, <2>3, <2>4
<1>8. CASE Abort \/ End
    BY <1>2, <1>8 DEF Abort, End, NeutronReady, HostsUntouched
<1>9. ASSUME NEW r \in remote, SedRead(r) \/ Finish(r) \/ Fail(r)
      PROVE  /\ \A k \in 1..N : k < pc' =>
                   NeutronEdits[k] \in file'[node]["neutron-server"]
             /\ NeutronReady'
    <2>1. r.cmd \in Statements /\ r.copy \in SUBSET Edits /\ r.cmd.node \in Hosts
        BY RemoteFacts DEF RemoteInv
    <2>2. pc' = pc
        BY <1>9 DEF SedRead, Finish, Fail, script
    <2>3. /\ file'[node]["neutron-server"] = file[node]["neutron-server"]
          /\ loaded'[node]["neutron-server"] = loaded[node]["neutron-server"]
        <3>1. CASE SedRead(r)
            BY <3>1 DEF SedRead
        <3>2. CASE Finish(r)
            BY <1>3, <2>1, <3>2, EffectAt DEF Finish
        <3>3. CASE Fail(r)
            BY <1>3, <2>1, <3>3, FailAt
        <3> QED BY <1>9, <3>1, <3>2, <3>3
    <2>4. NeutronReady
        BY <1>2 DEF HostsUntouched
    <2> QED BY <1>2, <2>2, <2>3, <2>4 DEF NeutronReady
<1>10. CASE UNCHANGED vars
    BY <1>2, <1>10 DEF vars, NeutronReady, HostsUntouched
<1> QED BY <1>5, <1>6, <1>7, <1>8, <1>9, <1>10 DEF Next

\* What fix-computes.py passed when a metadata agent is restarted.
LEMMA ComputeCurrent ==
    ASSUME TypeOK, Advance, program = FixComputes
    PROVE  /\ Current.do = "sed" => Current.on = "dhcp-agent"
           /\ pc = 1 => Current = Fetch(First, "metadata")
           /\ Current.do = "fetch" => Current = Fetch(First, "metadata")
           /\ pc \in 2..Len(HostSeq) => Current = Copy(HostSeq[pc], "metadata")
           /\ Current.do = "copy" => Current.on = "metadata" /\ pc > 1
<1>1. /\ pc \in 1..Len(FixComputes) /\ Current = FixComputes[pc] /\ Current \in Statements
      /\ Len(HostSeq) \in Nat \ {0}
    BY CurrentFacts, HostFacts
<1>2. pc = 1 \/ pc \in 2..Len(HostSeq) \/ pc > Len(HostSeq)
    BY <1>1
<1>3. Fetch(First, "metadata").do = "fetch"
    BY DEF Fetch, Statement
<1>4. \A k \in 2..Len(HostSeq) : Copy(HostSeq[k], "metadata").do = "copy"
    BY DEF Copy, Statement
<1>5. Current.do = "copy" => Current.on = "metadata" /\ pc # 1
    BY <1>1, <1>3, ComputeProgram DEF Statements
<1>6. Current.do = "fetch" => Current = Fetch(First, "metadata")
    <2>1. pc > Len(HostSeq) => Current.do # "fetch"
        BY <1>1, ComputeProgram, ComputeStatementFacts
    <2>2. pc \in 2..Len(HostSeq) => Current.do # "fetch"
        BY <1>1, <1>4, ComputeProgram
    <2> QED BY <1>1, <1>2, <2>1, <2>2, ComputeProgram
<1> QED BY <1>1, <1>5, <1>6, ComputeProgram

LEMMA ComputeInductive ==
    ASSUME TypeOK, RemoteInv, FirstInv, ComputeInv, [Next]_vars
    PROVE  ComputeInv'
<1> DEFINE N == Len(HostSeq)
           Own(fl, ld) == \A h \in Hosts : fl[h]["agent-ovs"] = {} /\ ld[h]["agent-ovs"] = {}
           Copied(fl, k) == fl[HostSeq[k]]["metadata"] = {ProxyConfig}
<1>1. SUFFICES ASSUME program = FixComputes, program' = program
               PROVE  /\ Own(file', loaded')
                      /\ pc' > 1 => fetched' = {ProxyConfig}
                      /\ \A k \in 2..N : k < pc' => Copied(file', k)
    <2>1. program' = program
        BY DEF Next, Run, RunLocal, Exec, Advance, Abort, End, SedRead, Finish, Fail, script, vars
    <2> QED BY <2>1 DEF ComputeInv
<1>2. /\ Own(file, loaded)
      /\ pc > 1 => fetched = {ProxyConfig}
      /\ \A k \in 2..N : k < pc => Copied(file, k)
    BY <1>1 DEF ComputeInv
<1>3. /\ {"agent-ovs", "metadata"} \subseteq Services /\ Hosts \subseteq Nodes
      /\ N \in Nat \ {0} /\ pc \in Nat \ {0} /\ First \in Nodes
      /\ \A k \in 2..N : HostSeq[k] \in Nodes
    BY HostFacts DEF Nodes, Services, TypeOK
<1>4. ASSUME NEW c \in Statements, NEW copy \in SUBSET Edits, Effect(c, copy),
             c.do = "sed" => c.on = "dhcp-agent",
             c.do = "copy" => c.on = "metadata" /\ copy = {ProxyConfig}
      PROVE  /\ Own(file', loaded')
             /\ \A k \in 2..N : Copied(file, k) => Copied(file', k)
    <2>1. ASSUME NEW h \in Hosts
          PROVE  file'[h]["agent-ovs"] = {} /\ loaded'[h]["agent-ovs"] = {}
        <3>1. file'[h]["agent-ovs"] = file[h]["agent-ovs"]
            BY <1>3, <1>4, EffectAt
        <3>2. loaded'[h]["agent-ovs"] \in {loaded[h]["agent-ovs"], file[h]["agent-ovs"], {}}
            BY <1>3, <1>4, EffectAt
        <3> QED BY <1>2, <3>1, <3>2
    <2>2. ASSUME NEW k \in 2..N, Copied(file, k) PROVE Copied(file', k)
        BY <1>3, <1>4, <2>2, EffectAt
    <2> QED BY <2>1, <2>2
<1>5. CASE Run
    BY <1>2, <1>3, <1>5 DEF Run
<1>6. CASE RunLocal
    <2>1. /\ pc' = pc + 1 /\ Current \in Statements
          /\ Current.do = "sed" => Current.on = "dhcp-agent"
          /\ pc = 1 => Current = Fetch(First, "metadata")
          /\ Current.do = "fetch" => Current = Fetch(First, "metadata")
          /\ pc \in 2..N => Current = Copy(HostSeq[pc], "metadata")
          /\ Current.do = "copy" => Current.on = "metadata" /\ pc > 1
        BY <1>1, <1>6, CurrentFacts, ComputeCurrent DEF RunLocal
    <2>2. PICK copy \in SUBSET Edits :
              /\ Current.do = "copy" => copy = fetched
              /\ Effect(Current, copy)
        BY <1>6, LocalEffect DEF LocalCopy
    <2>3. /\ Own(file', loaded')
          /\ \A k \in 2..N : Copied(file, k) => Copied(file', k)
        <3>1. Current.do = "copy" => copy = {ProxyConfig}
            BY <1>2, <2>1, <2>2
        <3> HIDE DEF Own, Copied
        <3> QED BY <1>4, <2>1, <2>2, <3>1
    <2>4. fetched' = {ProxyConfig}
        <3>1. Fetch(First, "metadata").node = First /\ Fetch(First, "metadata").on = "metadata"
              /\ Fetch(First, "metadata").do = "fetch"
            BY DEF Fetch, Statement
        <3>2. Current.do = "fetch" => fetched' = file[First]["metadata"]
            BY <1>6, <2>1, <3>1 DEF RunLocal
        <3>3. Current.do # "fetch" => pc > 1 /\ fetched' = fetched
            BY <1>3, <1>6, <2>1, <3>1 DEF RunLocal
        <3> QED BY <1>2, <3>2, <3>3 DEF FirstInv
    <2>5. ASSUME NEW k \in 2..N, k < pc' PROVE Copied(file', k)
        <3>1. CASE k < pc
            BY <1>2, <2>3, <3>1
        <3>2. CASE k = pc
            <4>1. /\ Current.do = "copy" /\ Current.node = HostSeq[k]
                  /\ Current.on = "metadata"
                BY <1>3, <2>1, <3>2, StatementKinds
            <4>2. copy = {ProxyConfig}
                BY <1>2, <2>1, <2>2, <4>1
            <4>3. file'[HostSeq[k]]["metadata"] = copy
                BY <1>3, <2>1, <2>2, <4>1, EffectAt
            <4> QED BY <4>2, <4>3
        <3> QED BY <1>3, <2>1, <2>5, <3>1, <3>2
    <2> QED BY <2>3, <2>4, <2>5
<1>7. CASE Exec
    <2>1. /\ pc' = pc + 1 /\ Current.do \in {"sed", "restart", "kill"}
          /\ file' = file /\ loaded' = loaded /\ fetched' = fetched
          /\ pc = 1 => Current = Fetch(First, "metadata")
          /\ pc \in 2..N => Current = Copy(HostSeq[pc], "metadata")
        BY <1>1, <1>7, CurrentFacts, ComputeCurrent, ExecFacts DEF Exec
    <2>2. pc # 1
        BY <1>3, <2>1, StatementKinds
    <2>3. pc \notin 2..N
        BY <1>3, <2>1, StatementKinds
    <2>4. \A k \in 2..N : k < pc' => k < pc
        BY <1>3, <2>1, <2>3
    <2>5. pc > 1
        BY <1>3, <2>2
    <2>6. Own(file', loaded') /\ fetched' = {ProxyConfig}
        BY <1>2, <2>1, <2>5
    <2>7. \A k \in 2..N : k < pc' => Copied(file', k)
        BY <1>2, <2>1, <2>4
    <2> QED BY <2>6, <2>7
<1>8. CASE Abort \/ End
    BY <1>2, <1>8 DEF Abort, End
<1>9. ASSUME NEW r \in remote, SedRead(r) PROVE UNCHANGED <<pc, fetched, file, loaded>>
    BY <1>9 DEF SedRead, script
<1>10. ASSUME NEW r \in remote, Finish(r)
       PROVE  /\ Own(file', loaded') /\ pc' = pc /\ fetched' = fetched
              /\ \A k \in 2..N : Copied(file, k) => Copied(file', k)
    <2>1. /\ r.cmd \in Statements /\ r.copy \in SUBSET Edits /\ r.cmd.do # "copy"
          /\ Effect(r.cmd, r.copy)
        BY <1>10, RemoteFacts DEF RemoteInv, Finish
    <2>2. r.cmd.do = "sed" => r.cmd.on = "dhcp-agent"
        BY <1>1, RemoteFacts, ComputeProgram
    <2>3. pc' = pc /\ fetched' = fetched
        BY <1>10 DEF Finish, script
    <2> HIDE DEF Own, Copied
    <2> QED BY <1>4, <2>1, <2>2, <2>3
<1>11. ASSUME NEW r \in remote, Fail(r)
       PROVE  UNCHANGED <<pc, fetched, file>> /\ Own(file', loaded')
    <2>1. UNCHANGED <<pc, fetched, file>>
        BY <1>11, FailAt
    <2>2. ASSUME NEW h \in Hosts PROVE loaded'[h]["agent-ovs"] = {}
        <3>1. loaded'[h]["agent-ovs"] \in {loaded[h]["agent-ovs"], {}}
            BY <1>3, <1>11, <2>2, FailAt
        <3> QED BY <1>2, <3>1
    <2> QED BY <1>2, <2>1, <2>2
<1>12. CASE UNCHANGED vars
    BY <1>2, <1>12 DEF vars
<1> QED BY <1>2, <1>5, <1>6, <1>7, <1>8, <1>9, <1>10, <1>11, <1>12 DEF Next

\* A statement that sed runs is the only one on its file with that edit.
LEMMA SoleInductive ==
    ASSUME TypeOK, RemoteInv, SoleInv, [Next]_vars
    PROVE  SoleInv'
<1> DEFINE Sole(c) == c.do = "sed" /\ EditsOf(c.node, c.on) = {c.edit}
           There(c) == c.edit \in file[c.node][c.on]
<1>1. /\ program' = program /\ \A n, s : EditsOf(n, s)' = EditsOf(n, s)
    <2>1. program' = program
        BY DEF Next, Run, RunLocal, Exec, Advance, Abort, End, SedRead, Finish, Fail, script, vars
    <2> QED BY <2>1 DEF EditsOf
<1>2. \A c \in Executed : Sole(c) /\ c \notin failed => There(c) \/ \E r \in remote : r.cmd = c
    BY DEF SoleInv, Alone
<1>3. SUFFICES ASSUME NEW c \in Executed', Sole(c), c \notin failed'
               PROVE  There(c)' \/ \E r \in remote' : r.cmd = c
    BY <1>1 DEF SoleInv, Alone
<1>4. c \in Statements /\ c.node \in Nodes /\ c.on \in Services /\ c.on # "metadata"
      /\ \E k \in 1..Len(program) : c = program[k]
    <2>1. \E k \in 1..Len(program) : c = program[k]
        <3>1. Len(program) \in Nat
            BY ProgramFacts DEF TypeOK
        <3>2. pc' \in 1..(Len(program) + 1)
            <4>1. TypeOK'
                BY TypeInductive
            <4> QED BY <1>1, <4>1 DEF TypeOK
        <3>3. c \in {program[k] : k \in 1..(pc' - 1)}
            BY <1>1, <1>3 DEF Executed
        <3>4. 1..(pc' - 1) \subseteq 1..Len(program)
            <4>1. \A n \in Nat : \A m \in 1..(n + 1) : 1..(m - 1) \subseteq 1..n
                OBVIOUS
            <4> QED BY <3>1, <3>2, <4>1
        <3> QED BY <3>3, <3>4
    <2>2. c \in Statements
        BY <2>1, ProgramFacts DEF TypeOK
    <2> QED BY <1>3, <2>1, <2>2 DEF Statements
\* Another command that writes the file makes the same edit.
<1>5. ASSUME NEW d \in Statements, NEW copy \in SUBSET Edits, Effect(d, copy),
             \E k \in 1..Len(program) : d = program[k],
             d.do = "sed" => d.edit \in copy
      PROVE  /\ There(c) => There(c)'
             /\ d = c => There(c)'
    <2>1. d.do = "copy" => d.on # c.on
        BY <1>4 DEF Statements
    <2>2. d.do = "sed" /\ d.node = c.node /\ d.on = c.on => d.edit = c.edit
        <3>1. d.do = "sed" /\ d.node = c.node /\ d.on = c.on => d.edit \in EditsOf(c.node, c.on)
            BY <1>5 DEF EditsOf
        <3> QED BY <1>3, <3>1
    <2> HIDE DEF Sole
    <2>3. ~(d.do \in {"sed", "copy"} /\ c.node = d.node /\ c.on = d.on)
            => file'[c.node][c.on] = file[c.node][c.on]
        BY <1>4, <1>5, EffectAt
    <2>4. d.do = "sed" /\ c.node = d.node /\ c.on = d.on => file'[c.node][c.on] = copy
        BY <1>4, <1>5, EffectAt
    <2>5. d = c => d.do = "sed"
        BY <1>3 DEF Sole
    <2> QED BY <1>5, <2>1, <2>2, <2>3, <2>4, <2>5
<1>6. CASE Run
    <2>1. pc' = 1
        BY <1>6 DEF Run
    <2> QED BY <2>1 DEF Executed
<1>7. CASE RunLocal
    <2>1. /\ Current \in Statements /\ Executed' = Executed \cup {Current}
          /\ \E k \in 1..Len(program) : Current = program[k]
        BY <1>7, CurrentFacts DEF RunLocal
    <2>2. PICK copy \in SUBSET Edits :
              /\ Current.do = "sed" => copy = Edited(Current)
              /\ Effect(Current, copy)
        BY <1>7, LocalEffect DEF LocalCopy
    <2>3. Current.do = "sed" => Current.edit \in copy
        BY <2>2 DEF Edited
    <2>4. remote' = remote /\ failed' = failed
        BY <1>7 DEF RunLocal
    <2>5. (There(c) => There(c)') /\ (Current = c => There(c)')
        <3> HIDE DEF There
        <3> QED BY <1>5, <2>1, <2>2, <2>3
    <2> HIDE DEF There, Sole
    <2> QED BY <1>2, <1>3, <2>1, <2>4, <2>5
<1>8. CASE Exec
    <2>1. /\ Executed' = Executed \cup {Current} /\ file' = file
          /\ remote' = remote \cup {[cmd |-> Current, read |-> FALSE, copy |-> {}]}
        BY <1>8, CurrentFacts, ExecFacts DEF Exec
    <2>2. There(c)' = There(c) /\ failed' = failed
        BY <1>8, <2>1 DEF Exec
    <2>3. c = Current => \E r \in remote' : r.cmd = c
        <3> DEFINE new == [cmd |-> Current, read |-> FALSE, copy |-> {}]
        <3>1. new \in remote' /\ new.cmd = Current
            BY <2>1
        <3> QED BY <3>1
    <2> HIDE DEF There, Sole
    <2> QED BY <1>2, <1>3, <2>1, <2>2, <2>3
<1>9. CASE Abort \/ End
    BY <1>2, <1>3, <1>9 DEF Abort, End, Executed
<1>10. ASSUME NEW r \in remote, SedRead(r)
       PROVE  There(c)' \/ \E s \in remote' : s.cmd = c
    <2> DEFINE new == [r EXCEPT !.read = TRUE, !.copy = Edited(r.cmd)]
    <2>1. new.cmd = r.cmd
        BY DEF TypeOK, Commands
    <2>2. /\ remote' = (remote \ {r}) \cup {new} /\ Executed' = Executed
          /\ file' = file /\ failed' = failed
        BY <1>10 DEF SedRead, script, Executed
    <2> HIDE DEF new
    <2> QED BY <1>2, <1>3, <2>1, <2>2
<1>11. ASSUME NEW r \in remote, Finish(r)
       PROVE  There(c)' \/ \E s \in remote' : s.cmd = c
    <2>1. /\ r.cmd \in Statements /\ r.copy \in SUBSET Edits
          /\ \E k \in 1..Len(program) : r.cmd = program[k]
        BY RemoteFacts
    <2>2. r.cmd.do = "sed" => r.cmd.edit \in r.copy
        BY <1>11 DEF RemoteInv, Finish
    <2>3. /\ Effect(r.cmd, r.copy) /\ remote' = remote \ {r} /\ Executed' = Executed
          /\ failed' = failed \ {r.cmd}
        BY <1>11 DEF Finish, script, Executed
    <2>4. (There(c) => There(c)') /\ (r.cmd = c => There(c)')
        <3> HIDE DEF There
        <3> QED BY <1>5, <2>1, <2>2, <2>3
    <2> HIDE DEF There, Sole
    <2> QED BY <1>2, <1>3, <2>3, <2>4
<1>12. ASSUME NEW r \in remote, Fail(r)
       PROVE  There(c)' \/ \E s \in remote' : s.cmd = c
    <2>1. remote' = remote \ {r} /\ Executed' = Executed /\ file' = file
        BY <1>12 DEF Fail, script, Executed
    <2>2. c # r.cmd /\ c \notin failed
        <3>1. failed \subseteq failed'
            BY <1>12 DEF Fail
        <3>2. Alone(c)
            BY <1>3 DEF Alone
        <3>3. c = r.cmd => c \in failed'
            BY <1>12, <3>2 DEF Fail
        <3> QED BY <1>3, <3>1, <3>3
    <2> HIDE DEF There, Sole
    <2>3. c \in Executed /\ Sole(c)
        BY <1>3, <2>1
    <2> QED BY <1>2, <2>1, <2>2, <2>3 DEF There
<1>13. CASE UNCHANGED vars
    BY <1>2, <1>3, <1>13 DEF vars, Executed
<1> QED BY <1>6, <1>7, <1>8, <1>9, <1>10, <1>11, <1>12, <1>13 DEF Next

LEMMA InitInvariant ==
    ASSUME Init
    PROVE  IInv
<1>1. /\ First \in Hosts /\ Hosts \subseteq Nodes /\ Controller \in Nodes
      /\ {"neutron-server", "agent-ovs", "metadata"} \subseteq Services
      /\ Len(HostSeq) \in Nat \ {0} /\ Len(NeutronEdits) \in Nat
    BY HostFacts, ListsAssumption DEF Nodes, Services
<1>2. /\ \A n \in Nodes, s \in Services :
            file[n][s] = IF n = First /\ s = "metadata" THEN {ProxyConfig} ELSE {}
      /\ loaded = file
    BY DEF Init
<1>3. /\ file \in [Nodes -> [Services -> SUBSET Edits]]
      /\ loaded \in [Nodes -> [Services -> SUBSET Edits]]
    <2>1. {ProxyConfig} \subseteq Edits
        BY DEF Edits
    <2> QED BY <2>1 DEF Init
<1>4. TypeOK
    <2>1. Len(program) \in Nat
        BY ProgramFacts DEF Init
    <2>2. /\ program \in Programs /\ pc = 1 /\ active = FALSE /\ runs = 0
          /\ fetched = {} /\ remote = {} /\ failed = {}
        BY DEF Init
    <2>3. pc \in 1..(Len(program) + 1) /\ runs \in 0..MaxRuns
        BY <2>1, <2>2, HostsAssumption
    <2> QED BY <1>3, <2>2, <2>3 DEF TypeOK
<1>5. RemoteInv
    BY DEF Init, RemoteInv
<1>6. VlanInv
    BY <1>1, <1>2 DEF Init, VlanInv, HostsUntouched
<1>7. ComputeInv
    BY <1>1, <1>2 DEF Init, ComputeInv
<1>8. FirstInv
    BY <1>1, <1>2 DEF FirstInv
<1>9. SoleInv
    BY DEF Init, SoleInv, Executed
<1> QED BY <1>4, <1>5, <1>6, <1>7, <1>8, <1>9 DEF IInv

LEMMA InvariantInductive ==
    ASSUME IInv, [Next]_vars
    PROVE  IInv'
<1>1. /\ TypeOK /\ RemoteInv /\ VlanInv /\ ComputeInv /\ FirstInv /\ SoleInv
    BY DEF IInv
<1>2. TypeOK'
    BY <1>1, TypeInductive
<1>3. RemoteInv'
    BY <1>1, RemoteInductive
<1>4. VlanInv'
    BY <1>1, VlanInductive
<1>5. ComputeInv'
    BY <1>1, ComputeInductive
<1>6. FirstInv'
    BY <1>1, FirstInductive
<1>7. SoleInv'
    BY <1>1, SoleInductive
<1> QED BY <1>2, <1>3, <1>4, <1>5, <1>6, <1>7 DEF IInv

\* Everything the properties rest on holds in every reachable state.
THEOREM Invariant == Spec => []IInv
<1>1. Init => IInv
    BY InitInvariant
<1>2. IInv /\ [Next]_vars => IInv'
    BY InvariantInductive
<1> QED BY <1>1, <1>2, PTL DEF Spec

----------------------------------------------------------------------------
(* The properties *)

\* The scripts' state is what the declarations say, whatever the lists of hosts
\* and of edits: the counter never leaves the program, and every command that
\* is still running on a host is a statement of it.
THEOREM TypeCorrect == Spec => []TypeOK
<1>1. IInv => TypeOK
    BY DEF IInv
<1> QED BY <1>1, Invariant, PTL

\* configure-vlan.py, at whatever statement it is interrupted and however often
\* it is run again: no OpFlex agent has read a VLAN edit before neutron-server
\* has read all of its own.
THEOREM NeutronIsFirst == Spec => []NeutronFirst
<1>1. IInv => NeutronFirst
    <2>1. SUFFICES ASSUME IInv, NEW h \in Hosts,
                          loaded[h]["agent-ovs"] \cap ToSet(VlanEdits) # {}
                   PROVE  ToSet(NeutronEdits) \subseteq loaded[Controller]["neutron-server"]
        BY DEF NeutronFirst
    <2>2. VlanInv /\ ComputeInv /\ program \in Programs
        BY <2>1 DEF IInv, TypeOK
    <2>3. program # FixComputes
        BY <2>1, <2>2 DEF ComputeInv
    <2> QED BY <2>1, <2>2, <2>3 DEF VlanInv, NeutronReady, HostsUntouched, Programs
<1> QED BY <1>1, Invariant, PTL

\* fix-computes.py restarts a metadata agent only on a host that has the first
\* host's metadata_agent.ini already.
THEOREM MetadataFileIsFirst == Spec => []MetadataFileFirst
<1>1. IInv => MetadataFileFirst
    <2>1. SUFFICES ASSUME IInv, NEW r \in remote,
                          r.cmd.do = "restart", r.cmd.on = "metadata"
                   PROVE  file[r.cmd.node]["metadata"] = file[First]["metadata"]
        BY DEF MetadataFileFirst
    <2>2. /\ TypeOK /\ RemoteInv /\ ComputeInv /\ program \in Programs
          /\ file[First]["metadata"] = {ProxyConfig}
        BY <2>1 DEF IInv, TypeOK, FirstInv
    <2>3. PICK k \in 1..(pc - 1) : r.cmd = program[k]
        BY <2>2 DEF RemoteInv, Executed
    <2>4. /\ Len(program) \in Nat /\ pc \in 1..(Len(program) + 1)
          /\ Len(HostSeq) \in Nat \ {0}
        BY <2>2, ProgramFacts, HostFacts DEF TypeOK
    <2>5. k \in 1..Len(program) /\ k < pc
        BY <2>4
    <2>6. program = FixComputes
        BY <2>1, <2>2, <2>3, <2>5, VlanProgram DEF Programs
    <2>7. k > Len(HostSeq)
        <3>1. k # 1
            BY <2>1, <2>3, <2>5, <2>6, ComputeProgram, StatementKinds, HostFacts DEF Nodes
        <3>2. k \notin 2..Len(HostSeq)
            BY <2>1, <2>3, <2>5, <2>6, ComputeProgram, StatementKinds, HostFacts DEF Nodes
        <3> QED BY <2>4, <3>1, <3>2
    <2>8. \A j \in 2..Len(HostSeq) : file[HostSeq[j]]["metadata"] = {ProxyConfig}
        <3>1. \A j \in 2..Len(HostSeq) : j < pc
            BY <2>4, <2>5, <2>7
        <3> QED BY <2>2, <2>6, <3>1 DEF ComputeInv
    <2>9. \E j \in 1..Len(HostSeq) : r.cmd.node = HostSeq[j]
        BY <2>2, ListsAssumption, ListElements DEF RemoteInv, Hosts
    <2>10. \A j \in 1..Len(HostSeq) : j = 1 \/ j \in 2..Len(HostSeq)
        BY <2>4
    <2> QED BY <2>2, <2>8, <2>9, <2>10 DEF First
<1> QED BY <1>1, Invariant, PTL

\* An edit that no other sed of the script races for its file is in the file
\* once the commands on the host have ended, unless sed itself failed.
THEOREM SoleEditsDoStick == Spec => []SoleEditsStick
<1>1. IInv => SoleEditsStick
    BY DEF IInv, SoleInv, SoleEditsStick, Settled
<1> QED BY <1>1, Invariant, PTL

\* What a later run can no longer lose: the file has the edit, and so does every
\* copy of it that a sed is about to put in its place.
Held(h, e) ==
    /\ e \in file[h]["agent-ovs"]
    /\ \A r \in remote :
          r.cmd.do = "sed" /\ r.read /\ r.cmd.node = h /\ r.cmd.on = "agent-ovs" => e \in r.copy

LEMMA HeldStays ==
    ASSUME NEW h \in Hosts, NEW e \in Edits, IInv, Held(h, e), [Next]_vars
    PROVE  Held(h, e)'
<1>1. TypeOK /\ RemoteInv
    BY DEF IInv
<1>2. h \in Nodes /\ "agent-ovs" \in Services
    BY DEF Nodes, Services
<1>3. ASSUME NEW c \in Statements, NEW copy \in SUBSET Edits, Effect(c, copy),
             c.do = "sed" /\ c.node = h /\ c.on = "agent-ovs" => e \in copy
      PROVE  e \in file'[h]["agent-ovs"]
    <2>1. c.do = "copy" => c.on # "agent-ovs"
        BY DEF Statements
    <2> QED BY <1>1, <1>2, <1>3, <2>1, EffectAt DEF Held
<1>4. CASE RunLocal
    <2>1. Current \in Statements /\ remote' = remote
        BY <1>1, <1>4, CurrentFacts DEF RunLocal
    <2>2. PICK copy \in SUBSET Edits :
              /\ Current.do = "sed" => copy = Edited(Current)
              /\ Effect(Current, copy)
        BY <1>1, <1>4, LocalEffect DEF LocalCopy
    <2>3. Current.do = "sed" /\ Current.node = h /\ Current.on = "agent-ovs" => e \in copy
        BY <2>2 DEF Edited, Held
    <2>4. e \in file'[h]["agent-ovs"]
        BY <1>3, <2>1, <2>2, <2>3
    <2> QED BY <2>1, <2>4 DEF Held
<1>5. CASE Exec
    BY <1>1, <1>5, ExecFacts DEF Held
<1>6. CASE UNCHANGED <<file, remote>>
    BY <1>6 DEF Held
<1>7. ASSUME NEW r \in remote, SedRead(r) PROVE Held(h, e)'
    <2> DEFINE new == [r EXCEPT !.read = TRUE, !.copy = Edited(r.cmd)]
    <2>1. new.cmd = r.cmd /\ new.copy = Edited(r.cmd)
        <3>1. r \in Commands
            BY <1>1 DEF TypeOK
        <3> QED BY <3>1 DEF Commands
    <2>2. remote' = (remote \ {r}) \cup {new} /\ file' = file
        BY <1>7 DEF SedRead
    <2>3. r.cmd.node = h /\ r.cmd.on = "agent-ovs" => e \in Edited(r.cmd)
        BY DEF Held, Edited
    <2> HIDE DEF new
    <2> QED BY <2>1, <2>2, <2>3 DEF Held
<1>8. ASSUME NEW r \in remote, Finish(r) PROVE Held(h, e)'
    <2>1. /\ r.cmd \in Statements /\ r.copy \in SUBSET Edits
          /\ Effect(r.cmd, r.copy) /\ remote' = remote \ {r}
        BY <1>1, <1>8, RemoteFacts DEF Finish
    <2>2. r.cmd.do = "sed" /\ r.cmd.node = h /\ r.cmd.on = "agent-ovs" => e \in r.copy
        BY <1>8 DEF Finish, Held
    <2>3. e \in file'[h]["agent-ovs"]
        BY <1>3, <2>1, <2>2
    <2> QED BY <2>1, <2>3 DEF Held
<1>9. ASSUME NEW r \in remote, Fail(r) PROVE Held(h, e)'
    BY <1>9 DEF Fail, Held
<1> QED BY <1>4, <1>5, <1>6, <1>7, <1>8, <1>9 DEF Next, Run, Abort, End, vars

\* An edit that a quiet host's OpFlex agent configuration had is never lost,
\* by whatever runs of the script follow.
THEOREM SettledEditsAreKept == Spec => SettledEditsKept
<1>1. SUFFICES ASSUME NEW h \in Hosts, NEW e \in ToSet(VlanEdits)
               PROVE  Spec => [](Settled(h) /\ e \in file[h]["agent-ovs"]
                                   => [](e \in file[h]["agent-ovs"]))
    BY DEF SettledEditsKept
<1>2. Settled(h) /\ e \in file[h]["agent-ovs"] => Held(h, e)
    BY DEF Settled, Held
<1>3. IInv /\ Held(h, e) /\ [Next]_vars => Held(h, e)'
    BY HeldStays DEF Edits
<1>4. Held(h, e) => e \in file[h]["agent-ovs"]
    BY DEF Held
<1> QED BY <1>2, <1>3, <1>4, Invariant, PTL DEF Spec

============================================================================
