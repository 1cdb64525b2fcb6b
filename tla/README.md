# Verification of the deployment-support tools

TLA+ models, TLC runs and TLAPS proofs for the tools of this repository that
change the state of an OpenStack/ACI deployment.  File and line numbers refer to
the repository.

## 1. Inventory

The repository is a set of independent command-line tools.  They share no
process and no lock; what connects them is state outside of them: files on a
host, Open vSwitch's database, libvirt, neutron, and the order in which an
operator runs them.  That is also where they are hard to test: a unit test
would need a host with guests, and most of the interesting behaviour is what
happens between two commands.

| component | state | operations | interacts through |
|---|---|---|---|
| Instance migration scripts: `legacy_migration/prepare-instances.sh`, `update-saved.sh`, `rollback.sh` | per port: external-ids of the qvo interface, saved external-ids file; per instance: domain state, XML (live or in the managed-save image), room in the image, rollback XML | one loop over running or saved instances, one over those shut off, in each script | the directory `migration-data`, OVSDB, libvirt |
| Remote setup scripts: `legacy_migration/configure-vlan.py`, `fix-computes.py` | configuration file and loaded configuration of each service on each host; commands left running | edit, copy, restart; local and awaited, or remote and not | ssh, files, services |
| OpFlex agent domain manager: `legacy_migration/update_domain.py` (`get-domains`, `update-domains`) | agent configuration files, the mapping file, the manager's caches, remote shells | read all, extract or read mappings, apply, write back | neutron's agent list, ssh, files |
| ML2 configuration toggle: `toggle_cfg.py`, `config_info.py` | sections of several ini files | set old or new values, rewrite all files | files |
| AIM configuration generator: `cfg_mgmt_tool.py` | aim.conf, aimctl.conf; the files of the legacy driver | read all files, merge, write one file after the other | the files that the toggle rewrites |
| Older generator and comparison: `port_config.py`, `fix_nauto_config.py`, `compare_config.py` | none | an earlier copy of the generator that no command imports; two small filters | files |
| Hashtree processor: `aim/hashtree_processor.py` | AIM database, APIC objects, the list of keys it walks | collect the objects of a dump, convert them, store or POST the resources one by one | APIC REST, SQL; users of AIM |
| Tree splitter: `aim/split_trees.py` | none | copy the lines of each tree to a file of its own | files |
| Agent policy inspection: `agent/policy_config.py`, `policy_db.py` | a policy tree in memory, visited flags | flatten, follow children and targets, find missing targets, diff | files |
| Host report database: `openstack/hostreport` | intervals of a drop log | parse, file lines by interval, show, summarise | files |
| Agent upgrade playbooks: `agent/tools/updates` | supervisord configuration, its saved copy, container and its programs | stop, save, disable, start, copy, replace; restore, restart | ansible, files, reboots |
| Database check: `db/db_check.sh` | alembic heads | compare, stamp | SQL |
| Demo set-up, helpers and packaging: `openstack/juno`, `create-setup.sh`, `delete-setup.sh`, `openshift`, `ovs`, `ep_parser`, `debian`, `rpm` | none of their own | straight-line command lists, reports | clients of OpenStack |

What is hard, and what makes each component correct:

- **Migration scripts.**  Two places hold the UUID of a hybrid-plugged port,
  the qvo interface's external-ids and, once it is converted, the XML.
  `update-saved.sh` clears one before it writes the other and relies on a file
  from an earlier script.  Scripts can be killed between any two commands, every
  failure of `virsh` or `ovs-vsctl` is ignored, and guests are suspended,
  resumed and stopped meanwhile.  Correct: no UUID is lost but where it could not
  be read, a converted interface asks for its own port, a complete update
  converts, a complete rollback restores, wherever the update was killed.
- **Remote setup scripts.**  `exec_command` is not awaited, so edits of one file and
  the restart that needs them race, and fail unnoticed.  Correct: the order the
  scripts do wait for (neutron before the agents, the copied file before the
  restart), and races confined to the edits of one run and one file.
- **Domain manager.**  Files are written back whole from what was read earlier;
  a write that times out is silently taken for done and may land later; neutron
  may show other hosts each time it is asked.  Correct: a complete update sets
  every domain, nobody else's settings are undone, and nothing is written by a
  run that cannot read everything it needs.
- **Toggle, generator.**  Order of a Python 2 dict decides which file an option
  is written to; files are truncated one after the other.  Correct: a toggle to and
  fro switches every item in every file and touches nothing else, whatever that
  order, a kill damages no more than the file being written, and the files that
  are generated do not depend on the order, nor on toggles run before.
- **Hashtree processor.**  It appends to the list it walks, and walks the longer
  list again for the other side; one transaction or POST per resource, with errors
  in between, while users change the database.  Correct: each object is collected
  once, an import that fails or is killed has stored a prefix, and what APIC lacks
  after a complete pass is what it refused.
- **Playbooks.**  Tasks fail on a host, half done, while the others go on; any
  playbook is run again on any hosts; hosts boot.  Correct: the saved original is
  the original, packages are not replaced under running programs, a host that
  passed both playbooks runs everything.
- **Policy inspection, report database.**  Lists that grow while they are walked,
  cycles of references, lines on the edge of an interval.  Correct: nothing is
  lost, nothing is counted twice, every command ends.

`PROJECT.json` lists each hazard with its line and the properties that cover it.

## 2. Modules

| module | models | notes |
|---|---|---|
| `InstanceMigration` | the three migration scripts and the host around them | `MCInstanceMigration` and four configurations |
| `InstanceMigrationProofs` | theorems about it | see section 5 |
| `PortHandover` | what the migration promises about ports, without scripts | implemented by `InstanceMigration`: `ImplementsHandover` |
| `RemoteSetup` | both remote setup scripts | `MCRemoteSetup`, two configurations; `RemoteSetupProofs` |
| `OpflexAgentManager` | the domain manager, remote shells, administrators | `MCOpflexAgentManager`, one configuration; `OpflexAgentProofs` |
| `ToggleConfig` | the toggle and the configuration files it rewrites | extended by `AimConfig`; `MCToggleConfig`, one configuration |
| `AimConfig` | the generator, composed with `ToggleConfig` | `MCAimConfig`, one configuration; `ToggleProofs` |
| `HashtreeProcessor` | the import of a dump, AIM, APIC and users | `MCHashtreeProcessor`, one configuration; `HashtreeProofs` |
| `PolicyConfig`, `ReportDb` | policy inspection and drop logs | composed by `Inspection`; `MCInspection`, one configuration; `InspectionProofs` |
| `AgentUpgrade` | the two playbooks that replace the agent's binaries | `MCAgentUpgrade`, one configuration; `AgentUpgradeProofs` |
| `SequenceFacts` | nothing of the program: induction, folds, sequences | used by `HashtreeProofs`, `RemoteSetupProofs`, `ToggleProofs`, `InspectionProofs` |

Definitions whose comment begins with *Mutant* are plausible bugs of the
definition that follows them.  No specification uses them; each shows that one
property can be broken (`mutants` in `PROJECT.json`).

### InstanceMigration

An action is one iteration of a loop: `PrepareDump` and `PrepareSetMetadata`
are the head and the tail of an iteration over `${RUNNING}`, `PrepareExtract` is
one iteration over `${IFACES}`, `PrepareShutDump` and `PrepareShutExtract` those
of the second loop; the same for `Update...` and `Rollback...`.  `todo` and
`ifaces` are the rest of the shell's lists, which are taken once: `InState` is
evaluated when a loop starts, never again.  The loops take elements in any order.

State outside the scripts: `domState` and `xml` (libvirt), `ovsdb`, and the
files `idsFile` and `rollbackXml`.  `room` is the length of a managed-save
image's header: `Suspend` fixes it, by the padding the live XML has then, and
`ManagedSaveDefine` may be refused when a converted interface finds no padding.
libvirt may also accept it, since a header is rounded up: both are steps.

`Suspend`, `Resume`, `PowerOff` happen between scripts, and within them when
`"race"` is in `Deviations`; `Crash` kills a script, which may leave the file it
was about to write empty.  The other deviations are departures from the
procedure, an instance suspended before the preparation (`earlySave`), and a
second run of `prepare-instances.sh` or `update-saved.sh` (`rerunPrepare`,
`rerunUpdate`), or failing commands.  With `libvirtError` any `virsh` may fail:
a list is empty, a dump shows no interface, a `managedsave-define` or a
`metadata --set` changes nothing.  With `ovsError` any `ovs-vsctl` may fail: a `get`
leaves an empty file (`SaveIds`), a `set` leaves the external-ids (`ClearIds`,
`RestoreIds`).  The script goes on in each case.  `missed` and `uncleared` remember
the ports whose ids `prepare-instances.sh` could not read, or left out because
it got no list or dump, and those whose external-ids an `ovs-vsctl set` did not
clear.  `rollback.sh` may be run at any time after an update began, and
any number of times.

Left out: VM names and printing; the endpoint-file lookup, which only warns;
`DRYRUN`, which is a constant of the scripts; a disk that is full, or a failing
`cp`, `sed` or `grep`; bytes, since padding is one token per port; and instances
that nova powers on, which get a new XML from nova.  `RestoreIds` covers the quoting
of `external-ids="$(cat ...)"` by both outcomes for a file without an id.

`PortHandover` is the abstract specification: a port is claimed by its qvo
interface, by a tap on br-int, by both or by none, and a copy of its UUID may be
kept.  A claim of the qvo interface is only released when a copy was made, or tried
(`uncopied`); a tap may only claim what has a copy, and what the qvo
interface does not claim, unless a rollback began or the claim could not be
released (`unreleased`).  The refinement mapping reads claims from `ovsdb` and `xml`,
copies from `idsFile`, `undoing` from the scripts that have begun, and the rest
from `missed` and `uncleared`.

### RemoteSetup

A script is a sequence of statements.  `RunLocal` executes one it waits for;
`Exec` starts a remote one, which lives on in `remote`.  A remote `sed -i` has
two steps, `SedRead` and `Finish`, because it reads the file before it renames a
copy over it; a restart reads the configuration when it ends.  Any of them may
`Fail` instead, at any time, which nobody notices: the file stays as it was, and a
service may have stopped.  `failed` remembers the edits without rivals (`Alone`)
whose last command did.  `Abort` is an
exception or an interrupt at any statement.  A file is the set of edits it has;
`loaded` is what the running service has read.

Left out: Open vSwitch and iptables commands, the cleaning of dead agents and
the final `openstack` calls, which touch none of this state.  The hosts are
listed in the same order by each run.  A script is not started again while the
commands of the run before are still running, which takes seconds.  A statement
the script waits for either takes effect or, when it fails, changes nothing and
ends the script (`Abort`).

### OpflexAgentManager

`Start...` to `Exit` is one process: its memory (`hosts`, `configs`, `mapping`)
is gone afterwards, by a normal end or an exception.  The lazily filled caches
`hosts` and `host_configs` are modelled as they are: `Seen` asks neutron
again while the cache is empty, with any answer, and `BeginRead` happens at the
first use of `host_configs`, in either command.  `WriteFile` starts a shell,
`ShellOpen` truncates, `ShellWrite` fills; `WriteTimeout` lets the tool go on
without it, and the shell may then write at any later time or die.
A shell may also fail, unnoticed, or be left behind by an operator who interrupts
the command.  An administrator changes the other settings of a file at any time.

### ToggleConfig

A file maps sections to keys to values, or has no such section, or is `Broken`
(a line without `=`).  Keys are what `ConfigInfo` splits off, trailing blanks
included: `"mechanism_drivers "` and `"mechanism_drivers"` are two keys for it and
one option for neutron (`OptionOf`).  `Toggle` is everything the command does in
memory: `Found`, `Set`, `SetConfig`, `AddMissing`, `SetDownTime` follow the methods.
`OpenFile` truncates, `CloseFile` is the complete write, `WriteFails` the
exception for a file that was read without a section (its only section is named
None), and `Kill` may leave any part of the new file, or a broken one.
`DictOrders` are the orders that a dict may list sections in.

`ConfigInfo` keeps one value of a key and one section of a name
(`config_info.py:43` and 82).  `disk` is what it reads of a file; the values it does
not keep are `Dropped`, and are in the file as long as it is `pristine`, that is
until the tool opens it for writing.  `Given` is all that a file has of an option.

Left out: comments, which are not written back.

### AimConfig

One run of `aim-config` is `ReadFiles`, with the files in any order of the dict,
then `Truncate` and `Fill` for `aim.conf` and for `aimctl.conf`; the run may end
anywhere, by an exception or a kill.  The contents are put together by operators
named for the methods (`UpdateParameters`, `UpdateSection`, `PhysicalConfig`,
`VmmDomain`): in some the first file that has an option decides, in others the
last.  `aimctl.conf` is put together after `aim.conf` was written, and fails for
a file without sections, whose only section is named None
(`cfg_mgmt_tool.py:133`): `aim.conf` is there then, and `aimctl.conf` is not.
`ToolSpec` lets the operator run toggles and the generator in any order, one at a
time.  The tables of defaults are a few options of each kind.

### HashtreeProcessor

`Start` reads the dump and lists its keys in any of `Orders`; `TakeKey` is one
turn of `get_resources`, which appends related children and parents to the list
it walks; `Collected` converts what was found.  `Convert` merges the parts of an
object into one resource at the place of the first, and does not pass on what
belongs to no tenant (`OfNoTenant`).  `PushToAim` stores a resource in a
transaction of its own: a root is only updated, a fault is set if its parent has
a status, a row needs the row above.  Any exception there ends the process,
because the except clause names `aim_exc`, which the file does not import
(`hashtree_processor.py:370`); `PushToAimFails` is that.  `PushToApic` and
`PushToApicFails` are POSTs, whose errors are only logged.  With both options
`NextPass` begins again with the longer list.  Users create roots and delete
leaves of the database at any time, and `Kill` may come anywhere.

A transaction of the database is one step: how it treats an update that meets a
user's delete is not modelled.

Left out: the `DELETE` halves of the methods, which never have work because a dump
is compared with an empty tree.  The converter, AIM and APIC are external, and
modelled from how the tool uses them.

### PolicyConfig, ReportDb, Inspection

`frames` is a stack of what each `for` statement has still to walk, so that the
recursion of `flatten_dict` and of `find_related_objects` is a sequence of steps;
`FlattenObject` appends to the outermost frame, as the code appends to the list it
walks.  `PrintObject` follows children and those targets that are neither
missing nor visited.  `EpInfo` looks an address up as the code does: an IP address
leads to the first L3 endpoint whose address contains it, which is printed
(`heading`), and by its MAC address to an L2 endpoint, whose policy is followed;
`EpInfoShort` is a query that ends before that.  `Diff` and `FindUnresolved` are one
step each; `DiffShort` is the `KeyError` for an object without `children` (`Bare`),
after some of the objects were compared.

`SummarizeLine` is one line of a drop log: the interval advances by one at most, the
line is filed if it is in the window, and the first line after the window ends the
loop.  A line, or an option, whose date cannot be parsed ends the process: months
are looked up in lower case, and the table has `Aug` (`August`).  `Inspection`
composes the tools: one command at a time, each a process of its own.

Two assumptions say what a dump is.  A nested one is JSON, so that an object
is in it where its parent has it and nowhere else, and everything hangs together
below the top (`ForestAssumption`).  In a flat one an object has one parent, which
lists it once, and no object is below itself (`TreeAssumption`); targets may lead
anywhere, back as well.

Left out: the listing commands, the text of lines, the key that lines are grouped
by within an interval, and tables.

### AgentUpgrade

A play is a sequence of tasks.  ansible finishes a task on every host before the
next one: `TaskDone` and `TaskFails` take hosts in any order, `NextTask` is the
barrier, and a host that failed leaves the play.  `Halfway` gives what a failing
task may leave: a part of the lines disabled, a container stopped and not
started.  `Run` starts either playbook at any time, on any hosts; `Interrupt` is
the operator's; `Reboot` starts the container, with the configuration it
finds.  `passed`, `pending`, `resaved` and `rebooted` are history.

Left out: the playbook that edits the agent's configuration, an example that is to
be tailored, and what becomes of the packages: `replace-binaries.sh` ends with
`rm -f`, so it succeeds whatever rpm did, and nothing else looks at them.

## 3. Runs

| run | question | outcome |
|---|---|---|
| `migration_quiet` | Does a complete update convert, and a complete rollback restore, when scripts are killed anywhere? | `TypeOK`, `UpdateConverts`, `RollbackRestores` hold (22 299 states) |
| `migration_busy` | Can a port lose its UUID, get a blank one or be claimed twice when guests interfere and libvirt and Open vSwitch fail? | `PortIdRecoverable`, `ConvertedKeepsId`, `ClearedBeforeConverted` and the refinement `ImplementsHandover` hold (1 057 026 states) |
| `migration_early_save` | What does the update do with an instance the preparation did not see? | violated: an interface on br-int with a blank id |
| `migration_rerun` | Is the update safe to repeat? | violated: the rollback file is overwritten by converted XML |
| `remote_setup` | What order do the scripts guarantee although they do not wait? | `TypeOK`, `NeutronFirst`, `MetadataFileFirst`, `SoleEditsStick`, `SettledEditsKept` hold (183 570 states) |
| `remote_setup_race` | Does a complete run leave the services with their edits? | violated: a command overtakes another, loses its edit, or fails unnoticed |
| `opflex_agents` | Do the files get their domains, and only their domains? | `TypeOK`, `DomainsUpdated`, `SettingsKept`, `ParsedBeforeWrite` hold (3 569 562 states) |
| `toggle` | Does a toggle to and fro reach every item and nothing else, whatever the order of the dicts, what can a kill leave, and what does the generator make of it? | `ToolTypeOK`, `TogglesEverything`, `OthersKept`, `FilesOfOneKind`, `GeneratedFromOriginals` hold (124 623 states) |
| `toggle_spelling` | Does it reach the driver in a file with one spelling throughout? | violated |
| `hashtree` | What does an import leave behind, in either order of the keys, with failures, kills and users in between? | `TypeOK`, `EachObjectOnce`, `PrefixStored`, `ApicHasTree`, `RunsEnd` hold (54 772 states) |
| `inspection` | Do the read-only tools show everything once, and end? | `TypeOK`, `FlattenedOnce`, `EverythingPrinted`, `PrintedPerReference`, `QuietDiffSamePolicy`, `SummaryCountsShown`, `CountsOfOneInterval`, `CommandsEnd` hold (280 351 states) |
| `agent_upgrade` | Do the playbooks keep the original and end with every program running, with failures, reruns and reboots? | `TypeOK`, `OriginalKept`, `StoppedWhileReplaced`, `UpgradedHostsRun`, `PlaysEnd` hold (223 905 states) |

The four violated runs are the findings of `PROJECT.json`: each quotes the
comment that the code contradicts.  Five further disagreements are described
below, under *Met while modelling*, each with the passing property that says how far
it goes.

### Bounds, and why they are enough

- Migration: two instances, four ports on the quiet host (one instance with two
  plugged ports, one with a plugged port and one that only libvirt knows), three
  on the busy one.  Two ports on an instance are needed for a kill between two
  interfaces, an unplugged port for the missing padding, a second instance for a
  list that is stale for one element.  Ports of different instances interact
  through the loop only.  Model values are not declared symmetric, because the
  instances differ in their ports.
- Remote setup: two hosts, of which one is the first and the other has the DHCP
  agent, two edits per file, two runs.  A lost update takes two edits; a third
  adds no new conflict.  `MaxRuns` bounds the operator; `CHECK_DEADLOCK FALSE`
  because the operator stops.
- Domain manager: two hosts with three files, two domains, one edit by an
  administrator (`MaxEdits`) and one write given up but pending (`MaxLate`), which
  is what a late write over a later run takes.  The number of runs is not bounded.
- Toggle and generator: two files, eight sections (the four that the changes name
  and four that only the generator reads), the seven changes of the code, three
  pairs of legacy files (one without `[ml2_apic_aim]`, one that repeats an item in a
  second section, one with an empty `plugin.ini`), one option that is given twice
  and two orders of the dicts, so that of any two of the four sections either may be
  first.  The generator meets the files in both orders.  The number of runs, kills
  and restored files is not bounded.
- Hashtree: a tenant with six nodes, among them an object in two parts, a dummy
  between two levels and a fault, and three orders of the keys (parents first,
  children first, mixed).  Related objects only meet their parent and its other
  parts, so one such family is enough; two passes are all a run has.
- Inspection: four nested dumps, 6 480 flat ones (five trees and every choice
  of at most two targets for each object), and all logs of up to three lines over
  eight times.  Three lines are one in an interval, one that skips an interval,
  and one after it.
- Upgrade: two hosts, which the barrier between tasks ties together, and two lines
  of configuration, which a half done task takes.  Nothing else is bounded: plays,
  failures, interrupts and reboots go on for ever.

### Fairness

Three specifications state fairness, each of them weak fairness of the tool's own
steps: `HashtreeProcessor` and `Inspection` (`WF_vars(ToolStep)`: a sequential
process, once started, keeps running until it ends, fails or is killed) and
`AgentUpgrade` (`WF_vars(AnsibleStep)`: ansible goes on, and each task either
succeeds or fails, as ansible's own time-outs see to).  No fairness is assumed of
operators, users, kills or reboots, nor of a task or a POST to succeed.  `RunsEnd`,
`CommandsEnd` and `PlaysEnd` rest on it: what could go wrong is a list that grows
as fast as it is walked, a cycle of references, or a play that waits for a host that
left it.

The other specifications are checked for safety only: nothing in the code forces
an operator to go on.  `SettledEditsKept` is a temporal formula, but a safety one,
and so is `ImplementsHandover`.

## 4. Properties worth a word

- `PortIdRecoverable` and `ConvertedKeepsId` are about the ports whose ids
  `prepare-instances.sh` could read, and `ClearedBeforeConverted` about those whose
  external-ids `ovs-vsctl` cleared.  The exempt ones are no oversight of the
  model: with a failed `get` the UUID is lost and the interface gets a blank id, with
  a failed `set` two interfaces claim the port (see *Met while modelling*).  A later
  success ends the exemption.
- `UpdateConverts` holds for instances all of whose ports were plugged: a single
  port without an id costs the instance the padding for it
  (`prepare-instances.sh:49-53`), and the managed-save image may then refuse the
  XML of the whole instance.
- `RollbackRestores` is checked on a quiet host.  With guests that change state
  in the middle of a script a rollback skips or misses instances, by design.
- `ClearedBeforeConverted` says nothing once a rollback began: `rollback.sh`
  restores external-ids (line 51) before the XML (line 60).
- `SoleEditsStick` is about edits that no other command of the script has to share a
  file with, in fact the one of `dhcp_agent.ini`; it exempts those whose own command
  failed.
- `SettledEditsKept` is the positive side of the race: what a run lost can be had
  back by another run, since it never loses what was there.
- `DomainsUpdated` and `ParsedBeforeWrite` are about runs that began with no shell
  left over, in which no write was given up or failed, and that were shown a host
  (`sure`); the other runs have no such promise, and TLC finds a counterexample to
  `DomainsUpdated` when any of the conditions is dropped.
- `OthersKept` promises every value of an option that a file gives once, and the last
  value of one that it gives several times, which is all that `ConfigInfo` keeps:
  the others are lost in the first toggle.
- `TogglesEverything` and `FilesOfOneKind` count an unscoped item that a file has in
  one section.  With two, the tool changes the first of them in dict order.
- `SettingsKept` exempts files edited while the tool or one of its shells was at
  work (`raced`): those edits are lost, a limit of writing files back whole.
- `GeneratedFromOriginals` needs the files to be `Unambiguous`: every option that the
  toggle does not touch, and every item that is looked for in all sections, is in one
  file only, and at most one file has `[ml2_cisco_apic]`; otherwise the order of the
  dict decides.  A file that was damaged by a kill is
  read without complaint, if it can be parsed at all, and defaults are generated.
- `FilesOfOneKind` holds although a kill may come between two files, since it
  excepts files that are being written; it says that no other mixture arises.
- `OriginalKept` exempts a host on which `save` was executed while its
  configuration was disabled (`resaved`).  There the saved copy is overwritten by
  the disabled one: `update-opflex-agent-binaries.yaml:10` copies without looking
  whether a copy exists, so a run of it after one that failed past `disable` loses
  the original unless the other playbook restores it first.
- `StoppedWhileReplaced` exempts hosts that booted during the play: `state:
  started` then finds the container running, with its programs.
- `PrefixStored` says how far an import comes, not that it completes: it stops at
  the first exception, whatever the kind.  It never creates a tenant, by intent
  (`hashtree_processor.py:407-417`), so the rows below a tenant that is not there are
  such an exception.  `aim/README.md:39-40` takes this for a failure of the tool.
- `ApicHasTree` leaves out the faults: `aci_push_resources` finds no tenant for them and
  drops them before anything is posted (`hashtree_processor.py:236-239`).
- `FlattenedOnce` promises children only to the objects at the top of a dump.
  `flatten_dict` meets every other object twice, and the second time it has no
  `_children` left and its `children` are set to `[]`: the depth-first order that
  the comment at `policy_config.py:136` promises for the whole list is lost below
  the first level.
- `PrintedPerReference` is what `ep-info` does, duplicates included: the flag is
  set on targets and never on children, and the L3 endpoint is printed besides.
- `CountsOfOneInterval` allows a line to be counted early, after a gap of more than an
  interval; it is the only one there then.  `openstack/hostreport/README.md:66`
  leads one to expect more.

### Met while modelling

Five disagreements of code and documents that no run is devoted to:

- `prepare-instances.sh:42` announces "save for later", but lines 46 and 105 do
  not look whether `ovs-vsctl get` failed.  The file is empty then,
  `update-saved.sh:54` and `:89` clear OVSDB all the same, and the UUID is lost.
  `PortIdRecoverable` exempts these ports (`missed`); without the exemption TLC
  finds the counterexample.
- `prepare-instances.sh` after an update reads the cleared `{}` from OVSDB and
  writes it over the saved id.  `rerunPrepare` is this deviation, and
  `PortIdRecoverable` does not hold with it.
- `ConfigInfo` keeps the last value of a repeated key (`config_info.py:43`) and the
  last of two sections of one name (`config_info.py:82`), so a toggle drops values
  that it has nothing to do with, although neutron has options that are given
  several times (`service_provider`).  `OthersKept` says what is kept.
- `aim/README.md:38-40` tells of tenants that are missing "even though the hashtree
  should have created it in the DB".  The code does not create it:
  `hashtree_processor.py:407-417` says why, and line 421 leaves the tenant to the
  users.  `PrefixStored` does not count it among the rows that an import stores.
- `openstack/hostreport/README.md:66` has the tool "Summarize logs for each second".
  A line advances the interval once (`report_db.py:198`), so after a gap it is counted
  under an earlier second than its own.  `CountsOfOneInterval` says that it is alone
  there, and never late.

And deviations from what a reader may expect: `show` of
`report_parser.py` prints nothing without `--table`, whose default for click is
empty, and the table is not part of the key that a summary groups lines by;
`ep-info` takes the first endpoint whose address contains the one asked for;
dumps of type `aim` lack what `ep-info`, `find-unresolved` and the printing of
`diff` need, and `list-vms` has no option for the policy type that its function
takes, so it cannot be called; `split_trees.py` has types `config` and
`monitor`, `aim/README.md` `configured` and `monitored`; `fix_nauto_config.py`
deletes a section after its loop (line 36), the last one only.

## 5. Proofs

Eight modules hold proofs.  All of it holds for any values of the constants that
satisfy the named assumptions of the modules (`OwnerAssumption` and so on), which
TLC evaluates on each run.  The theorems listed in `PROJECT.json` state properties
that some run checks on a small instance; each inductive invariant named below
was checked by TLC as well before it was proved, with one exception that is noted.

**`InstanceMigrationProofs`**: any sets of instances and ports, any assignment of
ports and any deviations.

- `TypeCorrect`: `Spec => []TypeOK`.
- `NoRivalClaim`: `Spec => []ClearedBeforeConverted`, for any deviations; the
  property itself exempts ports that `ovs-vsctl` failed to clear.
- `UuidsSurvive` and `ConversionKeepsIds`: `PortIdRecoverable` and
  `ConvertedKeepsId`, for `DisciplinedOperator`, that is for `Deviations` without
  `earlySave` and `rerunPrepare`: kills, races, failing commands of libvirt and Open
  vSwitch and reruns of `update-saved.sh` are allowed.  The run
  `migration_early_save` shows what goes wrong with the one, and with the other TLC
  finds `PortIdRecoverable` violated too (see *Met while modelling*).
- `UpdateDoesConvert` and `RollbackDoesRestore`: `UpdateConverts` and
  `RollbackRestores`, for `ProcedureFollowed`, that is when kills are the only
  deviation, as on `migration_quiet`.

The properties are not inductive.  That a cleared port has its UUID in a file
follows only from how the procedure came to the point where it clears:

- `IdsInv`: every id found in OVSDB or in a file is the port's own (`OwnIds`); a
  script implies the ones before it (`Phases`); nothing is cleared before an update
  began (`OvsdbIntact`); from the end of a preparation on, every plugged port has
  its file or was missed (`FilesComplete`); and, in the middle of it, so does every
  port that the rest of the loops does not cover any more (`PrepareProgress`), a
  fact that has to account for instances that leave `running` between the two loops.
- `XmlInv` adds that XMLs, rollback files and the XML being prepared convert a
  plugged port only to itself.
- `ClearFirst` relates a converted XML, wherever it is kept, to a cleared qvo
  port, up to the first rollback, unless it was not cleared.
- `QuietInv` is what kills alone leave true.  `ScopeInv`: an update meets
  no rollback file, an instance without one was not touched, and a rollback XML
  leads back to the Linux bridges.  `RollbackProgress`: what the rest of a rollback's
  loops does not cover is back already.  `Padding`: an image saved after a
  preparation has room for the interfaces that will be converted in it, so that
  `ManagedSaveDefine` is not refused.  `UpdateProgress` is the counterpart of
  `RollbackProgress` for the update.

Each is proved by one lemma per action, or group of actions that leave it alone.

The refinement builds on these: `MigrationHandsOver` is `DisciplinedOperator =>
(Spec => ImplementsHandover)`.  `StutterStep`, `CopyStep` and the lemmas after them
say what a change of OVSDB, of a file or of an XML is as a step of `PortHandover`, a
failed copy or release included; that it is allowed there (the copy is kept, the qvo
interface has let go) is what `IdsInv`, `XmlInv` and `ClearFirst` say.

**`RemoteSetupProofs`**: any hosts, in any order, any edits.  `TypeCorrect`,
`NeutronIsFirst`, `MetadataFileIsFirst`, `SoleEditsDoStick`, and the temporal
`SettledEditsAreKept`.  The programs are sequences put together from the lists of
the constants, so the first part says what each statement of them is
(`Statements`), at which positions the ones that matter stand, and that a
position is passed only when its statement was executed.  `IInv` has the types and

- `RemoteInv`: a command that runs on a host is one the script has passed, and a
  `sed` that has read its file has its edit in the copy;
- `VlanInv`, `ComputeInv`, `FirstInv`: how far `pc` has come says which files are
  edited, what the neutron server has loaded, and which copies are there;
- `SoleInv`: an edit that is alone on its file is in the file, on its way, or its
  command failed.

For `SettledEditsAreKept`, `Held` strengthens "the edit is in the file" by "and in
every copy that a running `sed` is about to put in its place", which every
step preserves; it holds of any edit of a settled host, where nothing runs.

**`OpflexAgentProofs`**: any hosts, paths, domains and bounds.  `TypeCorrect`,
`SettingsAreKept`, `AllParsedBeforeWrite`, `DomainsAreUpdated`.  `IdleInv` says
that nothing is remembered between commands; `ReadInv` that the files are read all
or not at all; `KeptInv` that what is in memory, or in a pending shell, has the
settings of a file nobody edited meanwhile; `SureInv` that without an error there
is no shell but the one that is waited for.  `ApplyInv` and `WriteInv` are
what the two loops have done so far: a host that the second loop is past is
updated, but for the file that is being written.

**`HashtreeProofs`**: any tree, resources and orders of the keys.  `ImportInv` is
`PrefixStored` (`ImportsPrefix`) and the fact that a pass over APIC has
tried what it has come past, together with the type of the index and the fact that users'
changes are only recorded during a push.  Nothing in it depends on what the queue
contains.  `TypeCorrect`, `ObjectsCollectedOnce` and `TreeTried` (`ApicHasTree`) do,
and rest on `WalkInv`:

- `Walked`: the found objects are those of the keys walked, each once; `flagged`
  are the owners of the monitored ones; the list has every object of the tree;
- `ConvertFacts`: the converter's fold, turn by turn, gives a sequence
  without repetition whose elements are the owners of the objects that stand alone,
  but for those that are lost.

**`ToggleProofs`**: any files, sections, keys and orders of the dicts, any number
of toggles, kills and runs of the generator.  `TypeCorrect` (`ToolTypeOK`),
`OthersAreKept`, `EachOfOneKind`, `GeneratedAsAtOutset` and, for `SpeltAlike`,
`AllIsToggled`.  A toggle
in memory is three folds, over the changes, the sections in the dict's order and
the files, so the first half says what each of them computes: `SetConfigFacts`,
`AddMissingFacts`, `WrittenFacts` and, of all together, `ToggledFacts`.  `ToggleInv`
has four parts.

- `Typed`.
- `DiskGood`: a file that is not being written and was never damaged has its
  original's other options (`Kept`), its items in the same sections (`SameHolders`),
  its sections of switches and domains (`SameSections`), and is the original or of
  one driver in all of them (`UnscopedAre`).  `SameHolders` is what a second toggle
  needs: it finds the items where the first one found them.
- `MemGood`: so has each file in memory, and those already written are on disk
  as they are in memory.
- `DiskDone`: what a completed toggle leaves are files that were in memory so.
  It has an existential over all contents of a file, which TLC cannot
  enumerate; TLC has checked the other three.

`ToolInv` adds the generator: while it runs on undamaged files its input is
`LikeOriginal`, the files of the outset but for what a toggle changes, and what
is written is made of its input.  `SameContents` says of any two such inputs that
the same is generated from them, one lemma for each method: where nothing is in two
files, the first file that has it is the last one too (`OneFile`), and no item that
a toggle changes is among the defaults, the items that are looked for, or,
by `AimAssumption`, in a section of a switch or domain.  The proof showed that
`Unambiguous` must speak of the items that are looked for in all sections: two
files may have such an item in sections of different names, and then the first
file in the order of the dict wins, although no option is in two files.

`SpeltAlike` says that nobody spells an option that the tool *adds* in another
way than the tool does.  It is the one hypothesis about the site's files.  An option
that the tool *changes* needs none, because `Unscoped(f)` looks for the tool's
spelling; that such an option may be missed altogether is what
`toggle_spelling` shows.

**`AgentUpgradeProofs`**: any hosts and lines.  `TypeCorrect`, `OriginalSurvives`,
`ReplacedWhileStopped`, `UpgradeCompletes`.  `OriginalKept` is
inductive with the types.  For `StoppedWhileReplaced`, `BinariesInv` follows a host
through the play, from the container that is down after `stop` to the one that
`start` brings up without programs.  For `UpgradedHostsRun`, `RunInv` does the same
for the second playbook, and `PassedInv` says that a host that passed both keeps
its state, through reboots and through plays on other hosts, until it is in a
play again.

**`InspectionProofs`**: any dumps, logs and options.  `TypeCorrect`,
`FlattenIsRight`, `EpInfoIsComplete`, `PrintedAsOftenAsDue`, `QuietDiffIsRight`,
`AllLinesCounted`, `CountsKeptApart`.  The first three of these that speak of a loop
have an invariant each, over the stack of loops.

- `Flattening`: an object that still has its children is waited for by a loop, and
  the children of every other are in the list, once.  At the end nothing is
  waited for, and by `ForestAssumption` nothing is left out.  Those at the top
  have their children back because the outermost loop meets them once (`Solo`);
  the others are met twice.
- `NothingLost`: what a printed object leads to is printed, warned of, or still to
  be walked; so is whatever was visited.  At the end this makes the
  printed and the missing a set that is closed under children and targets, and
  `FromFacts` says that `Reached` is the least such set.  (That `From`, which takes
  as many steps as there are URIs, gives a closed set is a counting argument:
  each step adds a URI, unless it is closed already.)
- `Tally`: the times an object was printed and the places where the loops still
  lead to it add up to the visited targets above it, and one for the endpoint.
  It needs that no object is below two children of another (`SiblingsApart`), which
  follows from `TreeAssumption`.  Places in a list are counted from its end, since a
  turn takes the first element.
- `ReportInv`, for the summaries: the filed lines are those that `show` prints so far,
  each in one interval (`FiledSoFar`); the intervals are `Chained`; and in a sorted log
  the next line is not before the last interval, unless it is the first
  (`InOrder`).
- `QuietDiffIsRight` needs no more than what `diff` was started with.

**`SequenceFacts`** has what the proofs about folds rest on.  The library states
induction for a predicate given as an operator parameter, which none of the provers
used here can instantiate; so induction is stated for a set of numbers instead
(`InductionFromZero`), and derived from the well-foundedness of strict inclusion
between finite sets: among the sets `0..n` there is a least one.
`RecursionAlong` and `RecursionOnSets` give existence of the functions that the
library's folds are defined by, and `FoldAlong` is the form that is used: a fold
over a sequence, as a function of the number of turns.  `FlattenFacts`, `ConcatFacts`
and their like say which elements a sequence has and when they are distinct.

### Only model-checked

- Liveness: `RunsEnd`, `CommandsEnd`, `PlaysEnd`, since it takes `ENABLED`.
- What the runs that expect a violation refute.

## 6. State of the plan

Done, in this order: the migration scripts and their proofs; the remote setup
scripts; the domain manager; the toggle; the upgrade playbooks; the hashtree
processor; the inspection tools; the generator, composed with the toggle; the
abstract handover, its refinement and the proof of it; the proofs about imports
and upgrades; the remaining safety properties of the migration, the remote setup
scripts, the domain manager, the hashtree processor, the toggle, the generator and
the inspection tools: every invariant that a passing run checks is a theorem.

Left:

- The fault model of the domain manager with two commands at a time, which
  nothing in the code prevents.

### Not modelled

- `port_config.py`, `compare_config.py`, `fix_nauto_config.py`: no command
  imports the first, an older copy of the generator; of the other two, one prints the
  differences of two files and one rewrites two files for a test bed.
- `split_trees.py`, `db_check.sh`: one loop, or one pass of commands, whose
  promise is its statements; the branches of the latter depend on versions of
  other packages.
- Demo set-up and tear-down, Open vSwitch and endpoint helpers: command lists and
  read-only reports without state of their own.
- Packaging: nothing of it runs on a deployment.
- Of the remote setup scripts, Open vSwitch and iptables commands and the cleaning
  of dead agents, whose state no other statement reads; of the playbooks, the
  example that edits a configuration; of the inspection tools, the listings.
