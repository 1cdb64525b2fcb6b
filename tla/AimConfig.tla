----------------------------- MODULE AimConfig -----------------------------
(* legacy_migration/cfg_mgmt_tool.py: the aim-config command of support_tool,
   which generates aim.conf and aimctl.conf from neutron's files, composed with
   toggle-config, which rewrites those files.  The operator runs one command at a
   time.

   The files are read with ConfigInfo too: an option that is repeated has its last
   value.  aim.conf is written before aimctl.conf is put together.  No command
   reads the generated files, so those of an earlier run are forgotten when one
   starts. *)
EXTENDS ToggleConfig

CONSTANT PhysSections   \* names that begin with apic_switch, apic_physdom, ...

VARIABLES
    stage,          \* what aim-config is doing: "idle", "aim", "aimctl", "done"
    generated,      \* the two files: their contents, NoFile or Broken
    input,          \* cfg_objs, and the order of that dict
    sound           \* history: no file was damaged when they were read

aimVars == <<stage, generated, input, sound>>
toolVars == <<vars, aimVars>>

\* The tables of defaults, a few options of each kind for all of them.
AimDefault ==
    [DEFAULT |-> [debug |-> "False"],
     aim |-> [agent_down_time |-> "75", aim_system_id |-> None],
     apic |-> [apic_hosts |-> None, apic_username |-> "admin"]]
AimctlDefault ==
    [DEFAULT |-> [apic_system_id |-> None],
     apic |-> [scope_infra |-> "False", apic_vpc_pairs |-> None]]

Orders == {o \in [1..Cardinality(Files) -> Files] : IsInjective(o)}
NoInput == [inis |-> [f \in Files |-> NoIni], order |-> <<>>]

\* Items that are looked for in all sections.
Searched == {"apic_system_id", "apic_domain_name"}

ASSUME AimAssumption ==
    /\ IsFiniteSet(Files)
    /\ PhysSections \subseteq Sections
    /\ {"DEFAULT", "aim", "apic", "ml2_cisco_apic"} \subseteq Sections
    /\ Searched \subseteq Keys
    /\ UNION {DOMAIN AimDefault[s] : s \in DOMAIN AimDefault} \subseteq Keys
    /\ UNION {DOMAIN AimctlDefault[s] : s \in DOMAIN AimctlDefault} \subseteq Keys
    \* A file has an item that is looked for in one section at most.
    /\ \A files \in Originals, f \in Files, item \in Searched :
          Cardinality({s \in Sections : Has(files[f], s, item)}) <= 1
    \* Sections of switches and domains are not what toggle-config changes: they
    \* have other names than its sections, and list ports instead of its items.
    /\ PhysSections \cap ({"DEFAULT"} \cup {c.section : c \in ToSet(Changes)}) = {}
    /\ \A files \in Originals, f \in Files, s \in PhysSections, c \in ToSet(Changes) :
          ~Has(files[f], s, c.item)

ToolInit ==
    /\ Init
    /\ stage = "idle" /\ sound = FALSE
    /\ generated = [aim |-> NoFile, aimctl |-> NoFile]
    /\ input = NoInput

----------------------------------------------------------------------------
(* AimConfig *)

Having(in, s, k) == {f \in Files : Has(in.inis[f], s, k)}

Places(in, files) == {i \in DOMAIN in.order : in.order[i] \in files}
FirstOf(in, files) == in.order[Min(Places(in, files))]
LastOf(in, files) == in.order[Max(Places(in, files))]

\* The last file that has an option decides.
Option(in, s, k) == in.inis[LastOf(in, Having(in, s, k))][s][k]

\* Mutant: an option is taken from DEFAULT too.
UpdateParametersOfDefault(params, in) ==
    [s \in DOMAIN params |-> [k \in DOMAIN params[s] |->
        IF Having(in, s, k) # {} THEN Option(in, s, k)
        ELSE IF Having(in, "DEFAULT", k) # {} THEN Option(in, "DEFAULT", k)
        ELSE params[s][k]]]

\* _update_parameters
UpdateParameters(params, in) ==
    [s \in DOMAIN params |-> [k \in DOMAIN params[s] |->
        IF Having(in, s, k) = {} THEN params[s][k] ELSE Option(in, s, k)]]

\* _update_section: the first file that has the legacy section overrides [apic].
WithLegacy(in) == {f \in Files : \E k \in Keys : Has(in.inis[f], "ml2_cisco_apic", k)}

UpdateSection(params, in) ==
    LET legacy == in.inis[FirstOf(in, WithLegacy(in))]
    IN  IF WithLegacy(in) = {} THEN params
        ELSE [params EXCEPT !["apic"] = [k \in DOMAIN @ |->
                 IF Has(legacy, "ml2_cisco_apic", k) THEN legacy["ml2_cisco_apic"][k] ELSE @[k]]]

\* _find_config_item: the first file that has the item in a section.
WithItem(in, item) == {f \in Files : \E s \in Sections : Has(in.inis[f], s, item)}

FindConfigItem(in, item) ==
    LET ini == in.inis[FirstOf(in, WithItem(in, item))]
        s == CHOOSE t \in {u \in Sections : Has(ini, u, item)} : TRUE
    IN  IF WithItem(in, item) = {} THEN None ELSE ini[s][item]

\* _get_physical_config: sections of several files are merged.
PhysicalConfig(in) ==
    [s \in {t \in PhysSections : \E f \in Files : in.inis[f][t] # NoSection} |->
        [k \in {x \in Keys : Having(in, s, x) # {}} |-> Option(in, s, k)]]

VmmDomain(in) ==
    LET name == FindConfigItem(in, "apic_domain_name")
    IN  IF name = None THEN <<>> ELSE [s \in {"apic_vmdom:" \o name} |-> <<>>]

AimContents(in) ==
    [UpdateSection(UpdateParameters(AimDefault, in), in)
        EXCEPT !["aim"]["aim_system_id"] = FindConfigItem(in, "apic_system_id")]

Merge(f, g) == [x \in DOMAIN f \cup DOMAIN g |-> IF x \in DOMAIN g THEN g[x] ELSE f[x]]

AimctlContents(in) ==
    Merge(Merge(UpdateSection(UpdateParameters(AimctlDefault, in), in), PhysicalConfig(in)),
          VmmDomain(in))

Contents(file, in) == IF file = "aim" THEN AimContents(in) ELSE AimctlContents(in)

\* get_legacy_config
ReadFiles(order) ==
    /\ command = "none" /\ stage = "idle"
    /\ \A f \in Files : disk[f] # Broken
    /\ input' = [inis |-> disk, order |-> order]
    /\ sound' = (damaged = {})
    /\ stage' = "aim"
    /\ UNCHANGED <<vars, generated>>

\* _get_physical_config fails on the name None of a file without sections.
PutTogether(file) == stage = file /\ (file = "aimctl" => \A f \in Files : input.inis[f] # NoIni)

\* write_configuration truncates ...
Truncate(file) ==
    /\ PutTogether(file) /\ generated[file] = NoFile
    /\ generated' = [generated EXCEPT ![file] = Broken]
    /\ UNCHANGED <<vars, stage, input, sound>>

\* ... and writes.
Fill(file) ==
    /\ stage = file /\ generated[file] = Broken
    /\ generated' = [generated EXCEPT ![file] = Contents(file, input)]
    /\ stage' = IF file = "aim" THEN "aimctl" ELSE "done"
    /\ UNCHANGED <<vars, input, sound>>

\* create_aim_config returns or raises, or is killed.
AimEnds ==
    /\ stage # "idle"
    /\ stage' = "idle" /\ sound' = FALSE /\ input' = NoInput
    /\ generated' = [aim |-> NoFile, aimctl |-> NoFile]
    /\ UNCHANGED vars

ToolNext ==
    \/ stage = "idle" /\ Next /\ UNCHANGED aimVars
    \/ \E order \in Orders : ReadFiles(order)
    \/ \E file \in {"aim", "aimctl"} : Truncate(file) \/ Fill(file)
    \/ AimEnds

ToolSpec == ToolInit /\ [][ToolNext]_toolVars

----------------------------------------------------------------------------
ToolTypeOK ==
    /\ TypeOK
    /\ stage \in {"idle", "aim", "aimctl", "done"}
    /\ command # "none" => stage = "idle"
    /\ \A f \in Files : input.inis[f] # Broken

FilesOfLegacy == {f \in Files : original[f]["ml2_cisco_apic"] # NoSection}
Unique(s, k) == Cardinality({f \in Files : Has(original[f], s, k)}) <= 1

\* No option, legacy section or item that is looked for is in two files.
Unambiguous ==
    /\ Cardinality(FilesOfLegacy) <= 1
    /\ \A s \in Sections, k \in Keys : Unique(s, k) \/ Mine(s, k)
    /\ \A item \in Searched :
          Cardinality({f \in Files : \E s \in Sections : Has(original[f], s, item)}) <= 1

\* README.rst:33, aim-config generates the AIM configuration from the files of the
\* legacy plugin.  It may be run after any number of toggles as well, and with the
\* files in any order: while nothing is in two files and none of them was
\* damaged, it generates what it would have from the files at the outset.
GeneratedFromOriginals ==
    sound /\ Unambiguous =>
        \A file \in {"aim", "aimctl"}, order \in Orders :
            generated[file] \in
                {NoFile, Broken, Contents(file, [inis |-> original, order |-> order])}

============================================================================
