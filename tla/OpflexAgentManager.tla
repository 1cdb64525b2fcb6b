------------------------- MODULE OpflexAgentManager -------------------------
(* legacy_migration/update_domain.py: the get-domains and update-domains
   commands of support_tool.

   get-domains asks neutron for the hosts with a live OpFlex agent, reads their
   configuration files over ssh and writes the VMM domain of each host to a
   mapping file, which the operator may edit.  update-domains reads that file
   and the hosts' files, sets the domain in memory, and writes every file of
   every mapped host back whole, with "echo ... > file".

   remote_cmd gives up after CMD_TIME_WAIT seconds and closes the channel: a
   read then fails the command (the empty list does not unpack into two), a
   write is silently taken for done, although the remote shell may still
   truncate the file, or fill it, at any later time, or die in between.

   Data abstraction: a file is its VMM domain, or NoDomain, and its other
   settings, as a version number; Empty is a truncated file, which json.loads
   refuses.  The order of the files in a directory and of the hosts in a
   mapping is arbitrary. *)
EXTENDS Naturals, FiniteSets

CONSTANTS
    Hosts,          \* hosts with an OpFlex agent
    FilesOf,        \* the files in each host's config_dir
    Domains,        \* VMM domains
    NoDomain,       \* no opflex.domain in a file, no entry in the mapping
    Empty,          \* a truncated file
    Original,       \* the domain of each file at the outset, or NoDomain
    MaxEdits,       \* bound: files edited by an administrator
    MaxLate         \* bound: writes given up and still pending

Paths == UNION {{h} \X FilesOf[h] : h \in Hosts}
Contents == [domain : Domains \cup {NoDomain}, settings : {0, 1}]
Mappings == [Hosts -> Domains \cup {NoDomain}]

ASSUME ManagerAssumption ==
    /\ NoDomain \notin Domains
    /\ Original \in [Paths -> Domains \cup {NoDomain}]
    /\ MaxEdits \in Nat /\ MaxLate \in Nat

ASSUME EmptyAssumption == Empty \notin Contents

VARIABLES
    disk,           \* the files on the hosts
    mappingFile,    \* the file of host to VMM domain mappings
    writes,         \* remote shells that still have a file to write
    command,        \* "get-domains", "update-domains" or "none"
    loop,           \* over the mapped hosts: "apply" in memory, then "write"
    step,           \* "next" host; "read" the hosts; its "files", "wait" for one
    hosts,          \* _hosts, the cache of get_active_opflex_hosts
    configs,        \* _host_configs: the contents read, on the paths read
    mapping,        \* host_vmm_mappings
    todo,           \* mapped hosts the loop has not come to
    paths,          \* files still to read, or to write
    waiting,        \* the write remote_cmd waits for
    settings,       \* history: the settings of each file as last chosen
    raced,          \* history: files edited by hand while the tool was at work
    sure            \* history: this run began on quiet hosts, no write was
                    \* given up or failed, and it was shown a host

process == <<command, loop, step, hosts, configs, mapping, todo, paths, waiting>>
outside == <<settings, raced>>
vars == <<disk, mappingFile, writes, command, loop, step, hosts, configs,
          mapping, todo, paths, waiting, settings, raced, sure>>

Writes == [path : Paths, content : Contents, opened : BOOLEAN]

TypeOK ==
    /\ disk \in [Paths -> Contents \cup {Empty}]
    /\ mappingFile \in Mappings
    /\ writes \subseteq Writes
    /\ command \in {"none", "get-domains", "update-domains"}
    /\ loop \in {"apply", "write"}
    /\ step \in {"next", "read", "files", "wait"}
    /\ hosts \subseteq Hosts
    /\ DOMAIN configs \subseteq Paths
    /\ \A p \in DOMAIN configs : configs[p] \in Contents \cup {Empty}
    /\ mapping \in Mappings
    /\ todo \subseteq Hosts
    /\ paths \subseteq Paths
    /\ waiting \in Writes \cup {Empty}
    /\ settings \in [Paths -> {0, 1}]
    /\ raced \subseteq Paths
    /\ sure \in BOOLEAN

NoConfigs == [p \in {} |-> Empty]
NoMapping == [h \in Hosts |-> NoDomain]

Init ==
    /\ disk = [p \in Paths |-> [domain |-> Original[p], settings |-> 0]]
    /\ mappingFile = NoMapping
    /\ writes = {}
    /\ command = "none"
    /\ loop = "apply"
    /\ step = "next"
    /\ hosts = {}
    /\ configs = NoConfigs
    /\ mapping = NoMapping
    /\ todo = {}
    /\ paths = {}
    /\ waiting = Empty
    /\ settings = [p \in Paths |-> 0]
    /\ raced = {}
    /\ sure = TRUE

----------------------------------------------------------------------------
(* What both commands do. *)

Mapped(m) == {h \in Hosts : m[h] # NoDomain}

Start(c, m) ==
    /\ command = "none"
    /\ command' = c
    /\ mapping' = m
    /\ todo' = Mapped(m)
    /\ sure' = (writes = {})
    /\ UNCHANGED <<disk, mappingFile, writes, loop, step, hosts, configs, paths,
                   waiting, outside>>

StartGet == Start("get-domains", NoMapping)
StartUpdate == Start("update-domains", mappingFile)      \* read_host_mappings

\* Mutant: the files read are kept for the next command.
ExitKeepsConfigs ==
    /\ command' = "none"
    /\ loop' = "apply"
    /\ step' = "next"
    /\ hosts' = {}
    /\ configs' = configs
    /\ mapping' = NoMapping
    /\ todo' = {}
    /\ paths' = {}
    /\ waiting' = Empty
    /\ UNCHANGED <<disk, writes, sure, outside>>

\* The process ends, normally or by an exception, and its memory is gone.
Exit ==
    /\ command' = "none"
    /\ loop' = "apply"
    /\ step' = "next"
    /\ hosts' = {}
    /\ configs' = NoConfigs
    /\ mapping' = NoMapping
    /\ todo' = {}
    /\ paths' = {}
    /\ waiting' = Empty
    /\ UNCHANGED <<disk, writes, sure, outside>>

\* The hosts property: an empty cache is filled with what neutron answers, the
\* hosts it shows as ":-)" at that moment.
Seen(answer) == IF hosts = {} THEN answer ELSE hosts

At(c, where) == command = c /\ step = where

\* The host_configs property finds nothing read yet, and there are files.
NeedsRead(answer) == DOMAIN configs = {} /\ \E p \in Paths : p[1] \in Seen(answer)

BeginRead(answer) ==
    /\ NeedsRead(answer)
    /\ step' = "read"
    /\ hosts' = Seen(answer)
    /\ paths' = {p \in Paths : p[1] \in Seen(answer)}
    /\ UNCHANGED <<disk, mappingFile, writes, command, loop, configs, mapping,
                   todo, waiting, sure, outside>>

\* get_opflex_host_config: cat of the next file.
ReadFile(p) ==
    /\ command # "none" /\ step = "read"
    /\ p \in paths
    /\ configs' = [q \in DOMAIN configs \cup {p} |-> IF q = p THEN disk[p] ELSE configs[q]]
    /\ paths' = paths \ {p}
    /\ step' = IF paths = {p} THEN "next" ELSE "read"
    /\ UNCHANGED <<disk, mappingFile, writes, command, loop, hosts, mapping, todo,
                   waiting, sure, outside>>

\* remote_cmd gave up on an ls or a cat, or ssh failed.
ReadFails ==
    /\ command # "none" /\ step = "read"
    /\ Exit
    /\ UNCHANGED mappingFile

FilesRead(h) == {p \in DOMAIN configs : p[1] = h}
Parsed(h) == \A p \in FilesRead(h) : configs[p] # Empty

----------------------------------------------------------------------------
(* get-domains *)

GetRead(answer) == At("get-domains", "next") /\ BeginRead(answer)

HasDomain(p, d) == configs[p] # Empty /\ configs[p].domain = d

\* The loop over the files of a host breaks at the first one with a domain, and
\* parses none of the files after it; or it ends without having found any.
Extracted(h, d) ==
    IF d = NoDomain THEN \A p \in FilesRead(h) : HasDomain(p, NoDomain)
    ELSE \E p \in FilesRead(h) : HasDomain(p, d)

\* extract_host_vmm_mappings, write_host_mappings.
GetDone(answer) ==
    /\ At("get-domains", "next")
    /\ ~ NeedsRead(answer)
    /\ \A h \in Seen(answer) : FilesRead(h) # {}
    /\ mappingFile' \in {m \in Mappings : \A h \in Hosts : Extracted(h, m[h])}
    /\ Exit

\* A host without files, or a file that is not JSON and that the loop comes to,
\* ends the command.
GetFails(answer) ==
    /\ At("get-domains", "next")
    /\ ~ NeedsRead(answer)
    /\ \E h \in Seen(answer) : FilesRead(h) = {} \/ ~ Parsed(h)
    /\ Exit
    /\ UNCHANGED mappingFile

----------------------------------------------------------------------------
(* update-domains: update_host_vmm_mappings and update_opflex_host_config both
   loop over the mapped hosts. *)

\* A mapped host that was not seen is skipped; while the cache is empty neutron
\* is asked again for every host.
SkipHost(h, answer) ==
    /\ At("update-domains", "next")
    /\ h \in todo \ Seen(answer)
    /\ hosts' = Seen(answer)
    /\ todo' = todo \ {h}
    /\ sure' = (sure /\ Seen(answer) # {})
    /\ UNCHANGED <<disk, mappingFile, writes, command, loop, step, configs,
                   mapping, paths, waiting, outside>>

UpdateRead(h, answer) ==
    At("update-domains", "next") /\ h \in todo \cap Seen(answer) /\ BeginRead(answer)

\* The loop body for a host that was seen and read.
Body(h, l) ==
    /\ At("update-domains", "next")
    /\ loop = l
    /\ h \in todo \cap hosts
    /\ ~ NeedsRead(hosts)
    /\ FilesRead(h) # {}
    /\ todo' = todo \ {h}
    /\ UNCHANGED <<disk, mappingFile, writes, command, loop, hosts, mapping,
                   waiting, sure, outside>>

\* Mutant: one file of the host is enough, as in extract_host_vmm_mappings.
ApplyFirstOnly(h) ==
    /\ Body(h, "apply")
    /\ Parsed(h)
    /\ \E one \in FilesRead(h) :
          configs' = [configs EXCEPT ![one].domain =
                         IF @ = NoDomain THEN @ ELSE mapping[h]]
    /\ UNCHANGED <<step, paths>>

\* Mutant: a file that is not JSON is passed over.
ApplyUnparsed(h) ==
    /\ Body(h, "apply")
    /\ configs' = [p \in DOMAIN configs |->
          IF p[1] = h /\ configs[p] # Empty
          THEN [configs[p] EXCEPT !.domain = mapping[h]] ELSE configs[p]]
    /\ UNCHANGED <<step, paths>>

\* Every file of the host that has a domain gets the mapped one, in memory.
Apply(h) ==
    /\ Body(h, "apply")
    /\ Parsed(h)
    /\ configs' = [p \in DOMAIN configs |->
          IF p[1] = h /\ configs[p].domain # NoDomain
          THEN [configs[p] EXCEPT !.domain = mapping[h]] ELSE configs[p]]
    /\ UNCHANGED <<step, paths>>

\* A host without files, or one of its files is not JSON.
UpdateFails(h, answer) ==
    /\ At("update-domains", "next")
    /\ h \in todo \cap Seen(answer)
    /\ ~ NeedsRead(answer)
    /\ FilesRead(h) = {} \/ ~ Parsed(h)
    /\ Exit
    /\ UNCHANGED mappingFile

\* Mutant: the loop is over the files read, not over the mapped hosts.
BeginWritesOverFiles ==
    /\ At("update-domains", "next")
    /\ loop = "apply"
    /\ todo = {}
    /\ loop' = "write"
    /\ todo' = DOMAIN configs
    /\ UNCHANGED <<disk, mappingFile, writes, command, step, hosts, configs,
                   mapping, paths, waiting, sure, outside>>

BeginWrites ==
    /\ At("update-domains", "next")
    /\ loop = "apply"
    /\ todo = {}
    /\ loop' = "write"
    /\ todo' = Mapped(mapping)
    /\ UNCHANGED <<disk, mappingFile, writes, command, step, hosts, configs,
                   mapping, paths, waiting, sure, outside>>

OpenHost(h) ==
    /\ Body(h, "write")
    /\ step' = "files"
    /\ paths' = FilesRead(h)
    /\ UNCHANGED configs

\* A remote shell is started with the new file.
WriteFile(p) ==
    /\ At("update-domains", "files")
    /\ p \in paths
    /\ configs[p] # Empty
    /\ waiting' = [path |-> p, content |-> configs[p], opened |-> FALSE]
    /\ writes' = writes \cup {waiting'}
    /\ step' = "wait"
    /\ paths' = paths \ {p}
    /\ UNCHANGED <<disk, mappingFile, command, loop, hosts, configs, mapping, todo,
                   sure, outside>>

Awaited(w) ==
    step = "wait" /\ w.path = waiting.path /\ w.content = waiting.content
Pending == \E w \in writes : Awaited(w)
Continue ==
    /\ step' = IF paths = {} THEN "next" ELSE "files"
    /\ waiting' = Empty

\* The channel reached its end of file.
WriteDone ==
    /\ At("update-domains", "wait")
    /\ ~ Pending
    /\ Continue
    /\ UNCHANGED <<disk, mappingFile, writes, command, loop, hosts, configs,
                   mapping, todo, paths, sure, outside>>

\* CMD_TIME_WAIT has passed; the result of remote_cmd is not looked at.
WriteTimeout ==
    /\ At("update-domains", "wait")
    /\ Pending
    /\ Cardinality(writes) <= MaxLate
    /\ Continue
    /\ sure' = FALSE
    /\ UNCHANGED <<disk, mappingFile, writes, command, loop, hosts, configs,
                   mapping, todo, paths, outside>>

\* The operator interrupts the command; the shell it waits for goes on.
Interrupt ==
    /\ At("update-domains", "wait")
    /\ Cardinality(writes) <= MaxLate
    /\ Exit
    /\ UNCHANGED mappingFile

\* exec_command raises on a dead connection, or the file is not JSON: the
\* remaining files are not written.
WriteFails ==
    /\ At("update-domains", "files")
    /\ Exit
    /\ UNCHANGED mappingFile

UpdateDone ==
    /\ At("update-domains", "next")
    /\ loop = "write"
    /\ todo = {}
    /\ Exit
    /\ UNCHANGED mappingFile

Command ==
    \/ StartGet \/ ReadFails
    \/ \E answer \in SUBSET Hosts :
          \/ GetRead(answer) \/ GetDone(answer) \/ GetFails(answer)
          \/ \E h \in Hosts : SkipHost(h, answer) \/ UpdateRead(h, answer)
                            \/ UpdateFails(h, answer)
    \/ StartUpdate \/ BeginWrites \/ WriteDone \/ WriteTimeout \/ Interrupt
    \/ WriteFails \/ UpdateDone
    \/ \E p \in Paths : ReadFile(p) \/ WriteFile(p)
    \/ \E h \in Hosts : Apply(h) \/ OpenHost(h)

----------------------------------------------------------------------------
(* The remote shells, the hosts and their administrators. *)

\* The shell opens the file for > and truncates it.
ShellOpen(w) ==
    /\ ~ w.opened
    /\ disk' = [disk EXCEPT ![w.path] = Empty]
    /\ writes' = (writes \ {w}) \cup {[w EXCEPT !.opened = TRUE]}
    /\ UNCHANGED <<mappingFile, process, sure, outside>>

ShellWrite(w) ==
    /\ w.opened
    /\ disk' = [disk EXCEPT ![w.path] = w.content]
    /\ writes' = writes \ {w}
    /\ UNCHANGED <<mappingFile, process, sure, outside>>

\* A shell may fail, or die when its channel is closed, before or after it
\* opened the file; nobody reads its standard error.
ShellDies(w) ==
    /\ writes' = writes \ {w}
    /\ sure' = (sure /\ ~ Awaited(w))
    /\ UNCHANGED <<disk, mappingFile, process, outside>>

\* The operator edits the mapping between two commands.
EditMapping ==
    /\ command = "none"
    /\ \E h \in Hosts, d \in Domains : mappingFile' = [mappingFile EXCEPT ![h] = d]
    /\ UNCHANGED <<disk, writes, process, sure, outside>>

\* An administrator changes the other settings of a file, or restores it.
EditSettings(p) ==
    /\ settings[p] = 0
    /\ Cardinality({q \in Paths : settings[q] = 1}) < MaxEdits
    /\ settings' = [settings EXCEPT ![p] = 1]
    /\ LET d == IF disk[p] = Empty THEN Original[p] ELSE disk[p].domain
       IN  disk' = [disk EXCEPT ![p] = [domain |-> d, settings |-> 1]]
    /\ raced' = IF command # "none" \/ writes # {} THEN raced \cup {p} ELSE raced \ {p}
    /\ UNCHANGED <<mappingFile, writes, process, sure>>

Next ==
    \/ Command
    \/ \E w \in writes : ShellOpen(w) \/ ShellWrite(w) \/ ShellDies(w)
    \/ EditMapping \/ \E p \in Paths : EditSettings(p)

Spec == Init /\ [][Next]_vars

----------------------------------------------------------------------------
Finished == At("update-domains", "next") /\ loop = "write" /\ todo = {}

\* update_opflex_host_config "updates the configuration files on each active
\* OpFlex host": when update-domains ends, and no write was given up or failed,
\* every file with a domain of every mapped host that was seen has the mapped
\* domain.
DomainsUpdated ==
    Finished /\ sure =>
        \A h \in Mapped(mapping) \cap hosts : \A f \in FilesOf[h] :
            disk[<<h, f>>] # Empty
            /\ disk[<<h, f>>].domain \in {NoDomain, mapping[h]}

\* Although files are written back whole, from memory, the tool never undoes the
\* other settings of a file that nobody edited while the tool, or a shell it
\* left behind, was at work.
SettingsKept ==
    \A p \in Paths \ raced :
        disk[p] = Empty \/ disk[p].settings = settings[p]

\* A file that cannot be parsed ends update-domains before anything is written,
\* unless its host came up after update_host_vmm_mappings: a run that writes has
\* parsed all the files of the hosts it applied the mapping to.
ParsedBeforeWrite ==
    step = "wait" /\ sure =>
        \A h \in Mapped(mapping) \cap hosts : Parsed(h)

============================================================================
