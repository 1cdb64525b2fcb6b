---------------------------- MODULE PortHandover ----------------------------
(* What the migration promises about the neutron ports of a host, without
   scripts, instances or files of XML.

   Two interfaces may claim a port, that is carry its UUID: the qvo interface of
   the hybrid plug, and the tap once it is plugged into br-int.  A copy of the
   UUID may be kept besides.  The copy bridges the gap between the two claims.

   Making the copy and giving up a claim may fail, and nobody notices: the hand
   over goes on.  uncopied and unreleased remember the ports it happened to. *)

CONSTANT Ports

VARIABLES
    claims,         \* the interfaces that carry the port's UUID
    copies,         \* ports of whose UUID a copy is kept
    undoing,        \* the operator has begun to roll back
    uncopied,       \* ports of whose UUID the last copy failed
    unreleased      \* ports whose qvo interface kept its claim when told not to

faults == <<uncopied, unreleased>>
vars == <<claims, copies, undoing, uncopied, unreleased>>

Interfaces == {"qvo", "tap"}

Init ==
    /\ claims = [p \in Ports |-> {"qvo"}]
    /\ copies = {}
    /\ undoing = FALSE
    /\ uncopied = {}
    /\ unreleased = {}

Copy(p) ==
    /\ "qvo" \in claims[p]
    /\ copies' = copies \cup {p}
    /\ uncopied' = uncopied \ {p}
    /\ UNCHANGED <<claims, undoing, unreleased>>

\* Copies fail while the qvo interfaces have the originals.  What copy there was
\* is spoilt.
CopiesFail(ports) ==
    /\ \A p \in ports : "qvo" \in claims[p]
    /\ copies' = copies \ ports
    /\ uncopied' = uncopied \cup ports
    /\ UNCHANGED <<claims, undoing, unreleased>>

\* A kill spoils a copy.  It is noticed: a copy has to be made again.
Spoil(p) ==
    /\ "qvo" \in claims[p]
    /\ copies' = copies \ {p}
    /\ UNCHANGED <<claims, undoing, faults>>

Release(p) ==
    /\ p \in copies \cup uncopied
    /\ claims' = [claims EXCEPT ![p] = @ \ {"qvo"}]
    /\ unreleased' = unreleased \ {p}
    /\ UNCHANGED <<copies, undoing, uncopied>>

ReleaseFails(p) ==
    /\ "qvo" \in claims[p]
    /\ p \in copies \cup uncopied
    /\ unreleased' = unreleased \cup {p}
    /\ UNCHANGED <<claims, copies, undoing, uncopied>>

Reclaim(p) ==
    /\ undoing /\ p \in copies
    /\ claims' = [claims EXCEPT ![p] = @ \cup {"qvo"}]
    /\ UNCHANGED <<copies, undoing, faults>>

Tapped == {p \in Ports : "tap" \in claims[p]}

\* The taps that claim their ports change, by a new XML or a guest that stops.
\* Only a rollback, or a claim that would not be given up, may let a tap claim
\* what its qvo interface claims.
Rewire(taps) ==
    /\ \A p \in taps \ Tapped :
           /\ p \in copies
           /\ undoing \/ "qvo" \notin claims[p] \/ p \in unreleased
    /\ claims' = [p \in Ports |-> (claims[p] \ {"tap"})
                                     \cup (IF p \in taps THEN {"tap"} ELSE {})]
    /\ UNCHANGED <<copies, undoing, faults>>

Undo ==
    /\ undoing' = TRUE
    /\ UNCHANGED <<claims, copies, faults>>

Next ==
    \/ \E p \in Ports : Copy(p) \/ Spoil(p) \/ Release(p) \/ ReleaseFails(p) \/ Reclaim(p)
    \/ \E ports \in SUBSET Ports : CopiesFail(ports) \/ Rewire(ports)
    \/ Undo

Spec == Init /\ [][Next]_vars

============================================================================
