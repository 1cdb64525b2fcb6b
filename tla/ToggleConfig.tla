---------------------------- MODULE ToggleConfig ----------------------------
(* legacy_migration/toggle_cfg.py and config_info.py: the toggle-config command
   of support_tool, which rewrites neutron's configuration files for the legacy
   ("old") or the unified ("new") driver.

   All files are read into dicts of dicts, changed there, and written back one
   after the other.  The dicts have an arbitrary order, which decides the
   section a change without a section goes to, the file that gets the additions,
   and the order of the writes.  A write truncates first, and nothing is kept of
   the old file: a command that dies there leaves a part of the new one.

   A key is the text before the first "=", blanks included: "core_plugin = ml2"
   has the key "core_plugin ", with a trailing blank, and so has only one of the
   items that the tool looks for.

   A dict keeps one value of each key: of an option that a section gives several
   times, as oslo.config allows, only the last value is read and written back,
   and of a section that comes twice only the second.  What the tool reads of a
   file is on disk; what it drops is in Dropped, and is there until it writes.

   Data abstraction: comments are left out (they are not written back), and
   values are those the tool sets or site values. *)
EXTENDS Naturals, FiniteSets, Sequences, SequencesExt

CONSTANTS
    Files,          \* config_file_names
    NeutronConf,    \* the file whose name contains neutron.conf
    Sections,       \* section names
    Keys,           \* keys, as ConfigInfo splits them off
    OptionOf,       \* the option that neutron takes a key for
    DictOrders,     \* orders in which a dict may list the sections
    SiteValues,     \* values the tool does not set
    Originals,      \* contents the files may have at the outset
    Dropped,        \* and values in them that ConfigInfo does not keep
    NoSection,      \* a section that a file does not have
    Absent,         \* a key that a section does not have
    Broken,         \* a file with a line that is neither section nor key=value
    NoFile

Anywhere == "any section"
None == "None"

Change(item, section, old, new) ==
    [item |-> item, section |-> section, old |-> old, new |-> new]

\* config_changes
Changes == <<
    Change("core_plugin", Anywhere, "ml2", "ml2plus"),
    Change("service_plugins", Anywhere, "cisco_apic_l3", "apic_aim_l3,group_policy,ncp"),
    Change("policy_drivers", Anywhere, "implicit_policy,apic", "aim_mapping"),
    Change("mechanism_drivers ", Anywhere, "cisco_apic_ml2", "apic_aim"),
    Change("extension_drivers", "ml2", None, "apic_aim,port_security"),
    Change("extension_drivers", "group_policy", None,
           "aim_extension,proxy_group,apic_allowed_vm_name,apic_segmentation_label"),
    Change("enable_iptables_firewall", "ml2_apic_aim", None, "True")>>

DownTime == [old |-> "75", new |-> "7200000"]

Types == {"old", "new"}
Values == SiteValues \cup {DownTime[t] : t \in Types}
          \cup ({c[t] : c \in ToSet(Changes), t \in Types} \ {None})
Inis == [Sections -> {NoSection} \cup [Keys -> Values \cup {Absent}]]
NoIni == [s \in Sections |-> NoSection]

ASSUME FilesAssumption ==
    /\ NeutronConf \in Files /\ NoFile \notin Files
    /\ DictOrders \subseteq [Sections -> Nat]
    /\ \A o \in DictOrders : \A s, t \in Sections : o[s] = o[t] => s = t
    /\ {"DEFAULT", "ml2", "group_policy", "ml2_apic_aim"} \subseteq Sections
    /\ {c.item : c \in ToSet(Changes)} \cup {"agent_down_time"} \subseteq Keys
    /\ Absent \notin Values \cup {None} /\ None \notin SiteValues
    /\ IsFiniteSet(Sections) /\ NoSection \notin [Keys -> Values \cup {Absent, None}]
    /\ Originals \subseteq [Files -> Inis] /\ Broken \notin Inis
    /\ Dropped \subseteq [file : Files, section : Sections, key : Keys, value : Values]

VARIABLES
    disk,           \* the files
    command,        \* "old", "new", or "none" when the tool is not running
    mem,            \* cfg_objs
    headless,       \* files read that have no section, kept under the name None
    left,           \* files still to write
    open,           \* the file being written
    last,           \* history: the toggle that completed last, if nothing
                    \* has touched the files since
    damaged,        \* history: files a write of which did not complete
    pristine,       \* files that are, to the line, as at the outset
    original        \* history: the files at the outset

vars == <<disk, command, mem, headless, left, open, last, damaged, pristine, original>>

TypeOK ==
    /\ \A f \in Files : disk[f] # Broken =>
          \A s \in Sections : disk[f][s] # NoSection =>
              \A k \in Keys : disk[f][s][k] \in Values \cup {Absent}
    /\ \A f \in Files, s \in Sections : mem[f][s] # NoSection =>
          \A k \in Keys : mem[f][s][k] \in Values \cup {Absent, None}
    /\ command \in Types \cup {"none"}
    /\ headless \subseteq Files
    /\ left \subseteq Files
    /\ open \in left \cup {NoFile}
    /\ last \in Types \cup {"none"}
    /\ damaged \subseteq Files
    /\ pristine \subseteq Files

Init ==
    /\ disk \in Originals
    /\ command = "none"
    /\ mem = [f \in Files |-> NoIni]
    /\ headless = {}
    /\ left = {}
    /\ open = NoFile
    /\ last = "none"
    /\ damaged = {}
    /\ pristine = Files
    /\ original = disk

----------------------------------------------------------------------------
(* ConfigInfo *)

Has(ini, s, key) == ini[s] # NoSection /\ ini[s][key] # Absent

\* Mutant: an item without a section is looked for in DEFAULT only.
FoundInDefault(ini, c, order) ==
    IF c.section # Anywhere
    THEN IF ini[c.section] # NoSection THEN {c.section} ELSE {}
    ELSE IF Has(ini, "DEFAULT", c.item) THEN {"DEFAULT"} ELSE {}

\* find_config_item: the section given, if the file has it, or else the first
\* one, in the order of the dict, that has the key.
Found(ini, c, order) ==
    IF c.section # Anywhere
    THEN IF ini[c.section] # NoSection THEN {c.section} ELSE {}
    ELSE {s \in Sections : Has(ini, s, c.item) /\
            \A other \in Sections : Has(ini, other, c.item) => order[s] <= order[other]}

\* Mutant: a section that is set is begun anew.
SetAnew(ini, s, key, value) ==
    [ini EXCEPT ![s] = [k \in Keys |-> IF k = key THEN value ELSE Absent]]

\* set_section_config
Set(ini, s, key, value) ==
    [ini EXCEPT ![s] = [k \in Keys |-> IF k = key THEN value
                                       ELSE IF @ = NoSection THEN Absent ELSE @[k]]]

\* Mutant: a key without a value is written as any other.
WrittenNone(ini) == ini

\* write_configuration: a key without a value is commented out.
Written(ini) ==
    [s \in Sections |-> IF ini[s] = NoSection THEN NoSection
        ELSE [k \in Keys |-> IF ini[s][k] = None THEN Absent ELSE ini[s][k]]]

----------------------------------------------------------------------------
(* ToggleConfig *)

\* _set_config on one file.
SetConfig(ini, type, order) ==
    FoldLeft(LAMBDA x, c :
                 IF Found(x, c, order) = {} THEN x
                 ELSE Set(x, CHOOSE s \in Found(x, c, order) : TRUE, c.item, c[type]),
             ini, Changes)

\* Mutant: nothing is added.
AddMissingNone(ini) == ini

\* The additions of new_config.
AddMissing(ini) ==
    FoldLeft(LAMBDA x, c : IF c.old = None THEN Set(x, c.section, c.item, c.new) ELSE x,
             ini, Changes)

SetDownTime(f, ini, type) ==
    IF f = NeutronConf THEN Set(ini, "DEFAULT", "agent_down_time", DownTime[type])
    ELSE ini

\* new_config or old_config: the files are read and changed in memory.  A
\* broken file ends the command before anything else happens.
Toggle(type) ==
    /\ command = "none"
    /\ \A f \in Files : disk[f] # Broken
    /\ command' = type
    /\ \E orders \in [Files -> DictOrders], first \in Files :
          mem' = [f \in Files |->
              LET ini == SetConfig(disk[f], type, orders[f])
              IN  SetDownTime(f, IF type = "new" /\ f = first THEN AddMissing(ini)
                                 ELSE ini, type)]
    /\ headless' = {f \in Files : disk[f] = NoIni}
    /\ left' = Files
    /\ last' = "none"
    /\ UNCHANGED <<disk, open, damaged, pristine, original>>

\* open(output_file, 'w+')
OpenFile(f) ==
    /\ command # "none" /\ open = NoFile
    /\ f \in left
    /\ open' = f
    /\ disk' = [disk EXCEPT ![f] = NoIni]
    /\ pristine' = pristine \ {f}
    /\ UNCHANGED <<command, mem, headless, left, last, damaged, original>>

CloseFile ==
    /\ open \in left \ headless
    /\ disk' = [disk EXCEPT ![open] = Written(mem[open])]
    /\ left' = left \ {open}
    /\ open' = NoFile
    /\ UNCHANGED <<command, mem, headless, last, damaged, pristine, original>>

Stop ==
    /\ command' = "none"
    /\ left' = {}
    /\ open' = NoFile
    /\ headless' = {}
    /\ mem' = [f \in Files |-> NoIni]

Done ==
    /\ command # "none"
    /\ left = {}
    /\ last' = command
    /\ Stop
    /\ UNCHANGED <<disk, damaged, pristine, original>>

\* What may be on the disk when a write ends early: the first sections of the dict.
Parts(ini) ==
    {[s \in Sections |-> IF order[s] < n THEN Written(ini)[s] ELSE NoSection] :
        order \in DictOrders, n \in {0} \cup {o[s] + 1 : o \in DictOrders, s \in Sections}}

\* The name None of the section of a file without sections cannot be written.
WriteFails ==
    /\ open \in headless
    /\ \E part \in Parts(mem[open]) : disk' = [disk EXCEPT ![open] = part]
    /\ damaged' = damaged \cup {open}
    /\ Stop
    /\ UNCHANGED <<last, pristine, original>>

\* The command is killed.
Kill ==
    /\ command # "none"
    /\ \/ /\ open = NoFile
          /\ UNCHANGED <<disk, damaged>>
       \/ /\ open # NoFile
          /\ \E part \in Parts(mem[open]) \cup {Broken} :
                disk' = [disk EXCEPT ![open] = part]
          /\ damaged' = damaged \cup {open}
    /\ Stop
    /\ UNCHANGED <<last, pristine, original>>

\* The operator restores a damaged file from a copy made at the outset.
Restore(f) ==
    /\ command = "none"
    /\ f \in damaged
    /\ disk' = [disk EXCEPT ![f] = original[f]]
    /\ damaged' = damaged \ {f}
    /\ pristine' = pristine \cup {f}
    /\ last' = "none"
    /\ UNCHANGED <<command, mem, headless, left, open, original>>

Next ==
    \/ \E type \in Types : Toggle(type)
    \/ \E f \in Files : OpenFile(f) \/ Restore(f)
    \/ CloseFile \/ Done \/ WriteFails \/ Kill

Spec == Init /\ [][Next]_vars

----------------------------------------------------------------------------
ValueOf(ini, s, key) == IF ini[s] = NoSection THEN Absent ELSE ini[s][key]

\* What neutron may take for an option, of all files.
Effective(s, option) ==
    {ValueOf(disk[f], s, k) : f \in Files, k \in {x \in Keys : OptionOf[x] = option}}
        \ {Absent}

Holders(f, key) == {s \in Sections : Has(original[f], s, key)}

\* Unscoped items that ConfigInfo finds in one section of the file.
Unscoped(f) == {c \in ToSet(Changes) : c.section = Anywhere /\ Cardinality(Holders(f, c.item)) = 1}
Scoped == {c \in ToSet(Changes) : c.section # Anywhere}

IsOf(f, c, type) == \A s \in Holders(f, c.item) : ValueOf(disk[f], s, c.item) = c[type]

\* Nobody spells one of the options that are added in another way than the tool.
SpeltAlike == \A c \in Scoped, k \in Keys : OptionOf[k] = c.item <=> k = c.item

\* A toggle that completes has switched each item it knows in every file that has
\* it in one section, and the additions have one effective value, or none,
\* whatever the order of the dicts and however often it was toggled, or killed
\* between two files, before.
TogglesEverything ==
    last # "none" /\ damaged = {} =>
        /\ \A f \in Files : \A c \in Unscoped(f) : IsOf(f, c, last)
        /\ \A c \in Scoped : Effective(c.section, c.item) = {c[last]} \ {None}
        /\ ValueOf(disk[NeutronConf], "DEFAULT", "agent_down_time") = DownTime[last]

Mine(s, k) ==
    \/ \E c \in ToSet(Changes) : c.item = k /\ c.section \in {s, Anywhere}
    \/ s = "DEFAULT" /\ k = "agent_down_time"

DroppedOf(f, s, k) == {d.value : d \in {x \in Dropped : x.file = f /\ x.section = s /\ x.key = k}}

\* The values of an option that are in a file, and that were at the outset.
Given(f, s, k) ==
    ({ValueOf(disk[f], s, k)} \ {Absent}) \cup (IF f \in pristine THEN DroppedOf(f, s, k) ELSE {})
GivenAtOutset(f, s, k) == ({ValueOf(original[f], s, k)} \ {Absent}) \cup DroppedOf(f, s, k)

\* Options that the tool does not know survive any number of toggles, in every
\* file whose write was never cut short: with all they have, or, if the file
\* gives one several times, with the value that ConfigInfo reads.  The others are
\* lost in the first toggle (config_info.py:43 and 82).
OthersKept ==
    \A f \in Files \ (damaged \cup {open}) : \A s \in Sections, k \in Keys :
        \/ Mine(s, k)
        \/ Given(f, s, k) = GivenAtOutset(f, s, k)
        \/ DroppedOf(f, s, k) # {} /\ ValueOf(disk[f], s, k) = ValueOf(original[f], s, k)

\* Wherever a run is killed, a file that was not being written is of one kind:
\* untouched since the outset, or legacy, or unified.
FilesOfOneKind ==
    \A f \in Files \ (damaged \cup {open}) :
        \/ \E type \in Types : \A c \in Unscoped(f) : IsOf(f, c, type)
        \/ disk[f] = original[f]

\* README.rst:94, "This toggles the neutron configuration between the legacy ML2
\* driver and the unified mechanism driver": after a complete toggle to new
\* neutron runs with the unified core plugin and mechanism driver.
UnifiedDriver ==
    last = "new" /\ damaged = {} =>
        /\ Effective("DEFAULT", "core_plugin") = {"ml2plus"}
        /\ Effective("ml2", "mechanism_drivers") = {"apic_aim"}

============================================================================
