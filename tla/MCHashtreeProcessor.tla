------------------------ MODULE MCHashtreeProcessor ------------------------
(* A tenant with a bridge domain, which is made up of two objects (the second
   is its reference to a VRF), a subnet and a fault of the bridge domain, and
   between the two levels a node without an object. *)
EXTENDS HashtreeProcessor

MCNodes == {"tenant", "bd", "bdRef", "subnet", "fault", "dummy"}
MCParent == [n \in MCNodes |-> CASE n \in {"tenant", "dummy", "bd"} -> "tenant"
                                 [] n = "subnet" -> "dummy"
                                 [] OTHER -> "bd"]
MCResources == {"Tenant", "BridgeDomain", "Subnet", "Fault"}
MCOwner == [n \in MCNodes |-> CASE n \in {"tenant", "dummy"} -> "Tenant"
                                [] n \in {"bd", "bdRef"} -> "BridgeDomain"
                                [] n = "subnet" -> "Subnet"
                                [] OTHER -> "Fault"]
MCAbove == [r \in MCResources |-> IF r \in {"Subnet", "Fault"} THEN "BridgeDomain" ELSE "Tenant"]
\* Parents first, children first, and related and unrelated objects mixed.
MCOrders ==
    {<<"tenant", "bd", "bdRef", "fault", "dummy", "subnet">>,
     <<"fault", "bdRef", "bd", "tenant", "subnet">>,
     <<"tenant", "bdRef", "fault", "subnet", "bd">>}
============================================================================
