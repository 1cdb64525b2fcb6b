------------------------- MODULE HashtreeProcessor -------------------------
(* aim/hashtree_processor.py: import one tenant's tree of a hashtree dump into
   the AIM database (-d), into APIC (-a), or both, one after the other.

   get_resources walks a list of keys that it appends to itself: the related
   children of an object, and the parent of a related one, since several ACI
   objects make up one AIM resource.  The list is self.differences[CREATE], so
   the second pass of a run with both options begins with the longer one.

   An AIM resource is stored in a transaction of its own.  An exception there
   meets an except clause that names a module which is not imported: it ends the
   process, whatever it was.  An exception of APIC is logged, and the next
   object is pushed.  Meanwhile users of the database create and delete.

   A dump differs from the empty tree by additions only, so the DELETE halves of
   these methods never have work; all keys of a tree belong to one tenant, so
   by_tenant has one entry.  AIM, its converter and APIC are external. *)
EXTENDS Naturals, Sequences, FiniteSets, SequencesExt

CONSTANTS
    Nodes,          \* keys of the tree
    Parent,         \* the node above a node; the root is its own
    Dummies,        \* nodes without an object
    Related,        \* objects that belong to the AIM resource of their parent
    Resources,      \* AIM resources
    Owner,          \* the resource that an object belongs to
    Alone,          \* objects that the converter makes a resource of
    Above,          \* the resource that a resource hangs below; a root is its own
    Roots,          \* AciRoot resources (tenants)
    Faults,         \* AciFault resources
    Orders          \* orders in which diff may list the keys

Objects == Nodes \ Dummies

ASSUME TreeAssumption ==
    /\ Parent \in [Nodes -> Nodes] /\ Dummies \subseteq Nodes
    /\ Owner \in [Nodes -> Resources] /\ Above \in [Resources -> Resources]
    /\ Related \subseteq Objects /\ Alone \subseteq Objects
    /\ Roots \subseteq Resources /\ Faults \subseteq Resources \ Roots
    /\ Orders \subseteq Seq(Nodes) /\ \A order \in Orders : Objects \subseteq ToSet(order)
    /\ IsFiniteSet(Nodes)
    \* An object that is not a part of its parent's resource makes one.
    /\ Objects \subseteq Related \cup Alone

VARIABLES
    pc,             \* "idle", "collect" or "push"
    sides,          \* what is left to do of the command line: "db", "apic"
    keys,           \* self.differences[CREATE]
    at,             \* index into keys, then into queue
    monitored,      \* objects the dump says are monitored
    found,          \* get_resources: result and id_set
    flagged,        \* get_resources: monitored_set
    queue,          \* resources to push
    db,             \* resources in the AIM database
    apic,           \* resources in APIC
    failed,         \* history: resources whose POST failed in this run
    before,         \* history: the database when its push began
    touched         \* history: what users created or deleted since

tool == <<pc, sides, keys, at, monitored, found, flagged, queue>>
vars == <<tool, db, apic, failed, before, touched>>

TypeOK ==
    /\ pc \in {"idle", "collect", "push"}
    /\ sides \subseteq {"db", "apic"} /\ (pc # "idle" => sides # {})
    /\ ToSet(keys) \subseteq Nodes
    /\ at \in Nat \ {0} /\ at <= Len(keys) + Len(queue) + 1
    /\ monitored \subseteq Objects
    /\ ToSet(found) \subseteq Objects
    /\ flagged \subseteq Resources
    /\ ToSet(queue) \subseteq Resources
    /\ db \subseteq Resources /\ apic \subseteq Resources
    /\ failed \subseteq Resources
    /\ before \subseteq Resources /\ touched \subseteq Resources

\* The side that is being worked on: the database comes first.
Side == IF "db" \in sides THEN "db" ELSE "apic"

Init ==
    /\ pc = "idle"
    /\ sides = {} /\ keys = <<>> /\ at = 1 /\ monitored = {}
    /\ found = <<>> /\ flagged = {} /\ queue = <<>>
    /\ db \in {{}, Roots} /\ apic = {}
    /\ failed = {} /\ before = {} /\ touched = {}

----------------------------------------------------------------------------
(* get_resources *)

\* get_hashtree_data, get_differences, and the first call of get_resources.
Start(options, order, mon) ==
    /\ pc = "idle" /\ options # {}
    /\ pc' = "collect"
    /\ sides' = options
    /\ keys' = order
    /\ at' = 1
    /\ monitored' = mon
    /\ UNCHANGED <<found, flagged, queue, db, apic, failed, before, touched>>

\* Mutant: id_set is not consulted.
FillNodeAgain(key) == IF key \in Objects THEN <<key>> ELSE <<>>

\* Mutant: a dummy node is not told apart.
FillNodeDummies(key) == IF key \notin ToSet(found) THEN <<key>> ELSE <<>>

\* _fill_node: the object of a key, unless it is a dummy or in id_set already.
FillNode(key) == IF key \in Objects \ ToSet(found) THEN <<key>> ELSE <<>>

RelatedChildren(key) == SetToSeq({n \in Related : Parent[n] = key /\ n # key})
ParentNode(key) == IF key \in Related /\ Parent[key] \in Objects THEN <<Parent[key]>> ELSE <<>>

\* One turn of the loop over resource_keys.
TakeKey ==
    /\ pc = "collect" /\ at <= Len(keys)
    /\ at' = at + 1
    /\ LET key == keys[at] IN
          /\ found' = found \o FillNode(key)
          /\ keys' = IF FillNode(key) = <<>> THEN keys
                     ELSE keys \o RelatedChildren(key) \o ParentNode(key)
          /\ flagged' = IF FillNode(key) # <<>> /\ key \in monitored
                           /\ (key \in Related => key \in Alone)
                        THEN flagged \cup {Owner[key]} ELSE flagged
    /\ UNCHANGED <<pc, sides, monitored, queue, db, apic, failed, before, touched>>

\* The converter: the resources of the objects, in the order of the objects, but
\* for those that are lost.
Convert(objects, lost) ==
    FoldLeft(LAMBDA seq, n : IF n \in Alone /\ Owner[n] \notin ToSet(seq) \cup lost
                             THEN Append(seq, Owner[n]) ELSE seq, <<>>, objects)

\* aci_push_resources groups resources by tenant, and a fault is not of a tenant.
OfNoTenant == IF Side = "apic" THEN Faults ELSE {}

\* The resources go to aim_push_resources, by way of ACI objects, or to
\* aci_push_resources, once a session is open.
Collected ==
    /\ pc = "collect" /\ at > Len(keys)
    /\ pc' = "push"
    /\ at' = 1
    /\ queue' = Convert(found, OfNoTenant)
    /\ before' = db
    /\ UNCHANGED <<sides, keys, monitored, found, flagged, db, apic, failed, touched>>

\* The process is gone.
Exit ==
    /\ pc' = "idle"
    /\ sides' = {} /\ keys' = <<>> /\ at' = 1 /\ monitored' = {}
    /\ found' = <<>> /\ flagged' = {} /\ queue' = <<>>
    /\ failed' = {} /\ before' = {} /\ touched' = {}
    /\ UNCHANGED <<db, apic>>

\* Mutant: tried again until APIC answers.
SessionFailsRetries ==
    /\ pc = "collect" /\ at > Len(keys) /\ Side = "apic"
    /\ at' = 1
    /\ UNCHANGED <<pc, sides, keys, monitored, found, flagged, queue, db, apic,
                   failed, before, touched>>

\* No session with APIC.
SessionFails == pc = "collect" /\ at > Len(keys) /\ Side = "apic" /\ Exit

----------------------------------------------------------------------------
(* The pushes *)

Pushing(side) == pc = "push" /\ Side = side /\ at <= Len(queue)

\* _push_resource: a fault is set if its parent has a status, a root is updated
\* if it is there, anything else is created or overwritten.
Stored(r) ==
    CASE r \in Faults -> IF Above[r] \in db THEN db \cup {r} ELSE db
      [] r \in Roots  -> db
      [] OTHER        -> db \cup {r}

\* Rows refer to the row above.
Storable(r) == r \in Roots \cup Faults \/ Above[r] \in db

PushToAim ==
    /\ Pushing("db") /\ Storable(queue[at])
    /\ db' = Stored(queue[at])
    /\ at' = at + 1
    /\ UNCHANGED <<pc, sides, keys, monitored, found, flagged, queue, apic,
                   failed, before, touched>>

\* Mutant: the failure is logged and the loop goes on.
PushToAimGoesOn ==
    /\ Pushing("db")
    /\ at' = at + 1
    /\ UNCHANGED <<pc, sides, keys, monitored, found, flagged, queue, db, apic,
                   failed, before, touched>>

\* An exception of the database: the except clause raises a NameError.
PushToAimFails == Pushing("db") /\ Exit

\* push_aci_mos: one POST per resource.
PushToApic ==
    /\ Pushing("apic")
    /\ apic' = apic \cup {queue[at]}
    /\ at' = at + 1
    /\ UNCHANGED <<pc, sides, keys, monitored, found, flagged, queue, db,
                   failed, before, touched>>

\* Mutant: the exception of a POST ends the loop over the objects.
PushToApicBreaks ==
    /\ Pushing("apic")
    /\ failed' = failed \cup {queue[at]}
    /\ at' = Len(queue) + 1
    /\ UNCHANGED <<pc, sides, keys, monitored, found, flagged, queue, db, apic,
                   before, touched>>

PushToApicFails ==
    /\ Pushing("apic")
    /\ failed' = failed \cup {queue[at]}
    /\ at' = at + 1
    /\ UNCHANGED <<pc, sides, keys, monitored, found, flagged, queue, db, apic,
                   before, touched>>

Finish == pc = "push" /\ at > Len(queue) /\ sides = {Side} /\ Exit

\* create_aim_resources has returned, and create_aci_resources begins.
NextPass ==
    /\ pc = "push" /\ at > Len(queue) /\ sides # {Side}
    /\ pc' = "collect"
    /\ sides' = sides \ {Side}
    /\ at' = 1
    /\ found' = <<>> /\ flagged' = {} /\ queue' = <<>>
    /\ before' = {} /\ touched' = {}
    /\ UNCHANGED <<keys, monitored, db, apic, failed>>

----------------------------------------------------------------------------
(* Around the tool *)

Kill == pc # "idle" /\ Exit

\* A user creates a tenant, or deletes something with nothing below it.
UserCreates(r) ==
    /\ r \in Roots \ db
    /\ db' = db \cup {r}
    /\ touched' = IF pc = "push" THEN touched \cup {r} ELSE touched
    /\ UNCHANGED <<tool, apic, failed, before>>

UserDeletes(r) ==
    /\ r \in db
    /\ \A s \in db \ {r} : Above[s] # r
    /\ db' = db \ {r}
    /\ touched' = IF pc = "push" THEN touched \cup {r} ELSE touched
    /\ UNCHANGED <<tool, apic, failed, before>>

ToolStep ==
    \/ TakeKey \/ Collected \/ SessionFails
    \/ PushToAim \/ PushToAimFails \/ PushToApic \/ PushToApicFails
    \/ NextPass \/ Finish

Next ==
    \/ \E options \in SUBSET {"db", "apic"}, order \in Orders, mon \in {{}, Objects} :
          Start(options, order, mon)
    \/ ToolStep \/ Kill
    \/ \E r \in Resources : UserCreates(r) \/ UserDeletes(r)

\* A process that was started keeps running until it ends or is killed.
Spec == Init /\ [][Next]_vars /\ WF_vars(ToolStep)

----------------------------------------------------------------------------
\* Although the list of keys grows while it is walked, and grew in the pass
\* before, each object of the dump is collected exactly once, the resources to
\* push are those of the dump, each once (to APIC all but the faults), and each
\* is known as monitored if the dump says so.
EachObjectOnce ==
    /\ IsInjective(found)
    /\ pc = "push" =>
          /\ ToSet(found) = Objects
          /\ ToSet(queue) = {Owner[n] : n \in Objects \cap Alone}
                               \ (IF Side = "apic" THEN Faults ELSE {})
          /\ IsInjective(queue)
          /\ flagged = {Owner[n] : n \in monitored \cap Alone}

Plain == Resources \ (Roots \cup Faults)

\* A pass over the database, ended, failed or killed at any point, leaves it as
\* it was but for a prefix of the resources, all of which are there, and what
\* users did meanwhile.  A root is not among those that are promised: aim/README.md
\* :39-40 expects the tenant to be created, _push_resource only updates it.
PrefixStored ==
    pc = "push" /\ Side = "db" =>
        LET pushed == {queue[k] : k \in 1..(at - 1)} IN
            /\ db \ touched \subseteq before \cup pushed
            /\ before \subseteq db \cup touched
            /\ pushed \cap Plain \subseteq db \cup touched

\* A pass over APIC that comes to the end of its queue has tried each resource of
\* the dump, whichever POSTs failed and however the list of keys grew in the pass
\* before: what APIC lacks is what it refused, and the faults, none of which it has.
ApicHasTree ==
    /\ apic \cap Faults = {}
    /\ pc = "push" /\ Side = "apic" /\ at > Len(queue) =>
          {Owner[n] : n \in Objects \cap Alone} \ Faults \subseteq apic \cup failed

\* The walk over a list that it appends to comes to an end, in both passes.
RunsEnd == pc # "idle" ~> pc = "idle"

============================================================================
