------------------------- MODULE OpflexAgentProofs -------------------------
(* What get-domains and update-domains guarantee for any number of hosts and of
   configuration files, although their shells may be given up and go on. *)
EXTENDS OpflexAgentManager, TLAPS

----------------------------------------------------------------------------
(* The inductive invariant *)

\* The files of the hosts that were shown.
Shown == {p \in Paths : p[1] \in hosts}

\* Between two commands the tool remembers nothing.
IdleInv ==
    command = "none" =>
        loop = "apply" /\ step = "next" /\ hosts = {} /\ DOMAIN configs = {} /\ paths = {}

\* The files are read all or not at all, and of those read are written the ones
\* of the host the loop is at.
ReadInv ==
    /\ step = "read" => DOMAIN configs \cup paths = Shown
    /\ step # "read" => DOMAIN configs \in {{}, Shown}
    /\ step = "next" => paths = {}
    /\ todo \subseteq Mapped(mapping)
    /\ step \in {"files", "wait"} =>
          /\ command = "update-domains" /\ loop = "write"
          /\ paths \subseteq DOMAIN configs
          /\ \A p \in paths : p[1] \in Mapped(mapping)
    /\ step = "wait" =>
          /\ waiting \in Writes /\ waiting.path \in DOMAIN configs \ paths
          /\ waiting.path[1] \in Mapped(mapping)
          /\ waiting.content = configs[waiting.path]

\* Nobody edited the file while the tool was at work: what the tool has read of
\* it, and what is to be written to it, has the file's settings.
KeptInv ==
    \A p \in Paths \ raced :
        /\ disk[p] # Empty => disk[p].settings = settings[p]
        /\ \A w \in writes : w.path = p => w.content.settings = settings[p]
        /\ p \in DOMAIN configs /\ configs[p] # Empty => configs[p].settings = settings[p]

\* While nothing has gone wrong there is no shell but the one that is waited for.
SureInv == command # "none" /\ sure => \A w \in writes : Awaited(w)

Applied(h) ==
    /\ FilesRead(h) # {} /\ Parsed(h)
    /\ \A p \in FilesRead(h) : configs[p].domain \in {NoDomain, mapping[h]}
Handled == IF loop = "apply" THEN Mapped(mapping) \ todo ELSE Mapped(mapping)

\* The mapped hosts that the first loop has come to were skipped, because they
\* were not shown, or have the mapped domain in memory.
ApplyInv ==
    command = "update-domains" /\ sure =>
        /\ Handled # {} => hosts # {}
        /\ \A h \in Handled \cap hosts : Applied(h)
        /\ step = "read" => loop = "apply" /\ Handled \cap hosts = {}

Updated(p) == disk[p] # Empty /\ disk[p].domain \in {NoDomain, mapping[p[1]]}

\* The files that the second loop has come to are updated, but for the one that
\* is being written.
WriteInv ==
    command = "update-domains" /\ sure /\ loop = "write" =>
        \A p \in DOMAIN configs :
            \/ p[1] \notin Mapped(mapping) \ todo
            \/ p \in paths
            \/ step = "wait" /\ p = waiting.path /\ Pending
            \/ Updated(p)

IInv == TypeOK /\ IdleInv /\ ReadInv /\ KeptInv /\ SureInv /\ ApplyInv /\ WriteInv

----------------------------------------------------------------------------
(* The steps, by what they do to the state. *)

Leaves == Exit /\ mappingFile' \in Mappings

Steps ==
    \/ StartGet \/ StartUpdate
    \/ Leaves
    \/ \E answer \in SUBSET Hosts :
          /\ BeginRead(answer) /\ step = "next"
          /\ \/ command = "get-domains"
             \/ command = "update-domains" /\ todo \cap Seen(answer) # {}
    \/ \E p \in Paths : ReadFile(p) \/ WriteFile(p) \/ EditSettings(p)
    \/ \E h \in Hosts, answer \in SUBSET Hosts : SkipHost(h, answer)
    \/ \E h \in Hosts : Apply(h) \/ OpenHost(h)
    \/ BeginWrites \/ WriteDone \/ WriteTimeout
    \/ \E w \in writes : ShellOpen(w) \/ ShellWrite(w) \/ ShellDies(w)
    \/ EditMapping
    \/ UNCHANGED vars

LEMMA StepKinds ==
    ASSUME TypeOK, [Next]_vars
    PROVE  Steps
<1>1. mappingFile \in Mappings
    BY DEF TypeOK
<1>2. ASSUME NEW answer \in SUBSET Hosts, GetRead(answer) PROVE Steps
    BY <1>2 DEF GetRead, At, Steps
<1>3. ASSUME NEW answer \in SUBSET Hosts, GetDone(answer) PROVE Leaves
    BY <1>3 DEF GetDone, Leaves
<1>4. ASSUME NEW answer \in SUBSET Hosts, GetFails(answer) PROVE Leaves
    BY <1>1, <1>4 DEF GetFails, Leaves
<1>5. ASSUME NEW answer \in SUBSET Hosts, NEW h \in Hosts, UpdateRead(h, answer)
      PROVE  Steps
    <2>1. /\ BeginRead(answer) /\ step = "next" /\ command = "update-domains"
          /\ todo \cap Seen(answer) # {}
        BY <1>5 DEF UpdateRead, At
    <2> QED BY <2>1 DEF Steps
<1>6. ASSUME NEW answer \in SUBSET Hosts, NEW h \in Hosts, UpdateFails(h, answer)
      PROVE  Leaves
    BY <1>1, <1>6 DEF UpdateFails, Leaves
<1>7. ASSUME ReadFails \/ Interrupt \/ WriteFails \/ UpdateDone PROVE Leaves
    BY <1>1, <1>7 DEF ReadFails, Interrupt, WriteFails, UpdateDone, Leaves
<1>8. Leaves => Steps
    BY DEF Steps
<1>9. ASSUME Command PROVE Steps
    <2>1. CASE \E answer \in SUBSET Hosts :
              \/ GetRead(answer) \/ GetDone(answer) \/ GetFails(answer)
              \/ \E h \in Hosts : UpdateRead(h, answer) \/ UpdateFails(h, answer)
        BY <1>2, <1>3, <1>4, <1>5, <1>6, <1>8, <2>1
    <2>2. CASE \E answer \in SUBSET Hosts : \E h \in Hosts : SkipHost(h, answer)
        BY <2>2 DEF Steps
    <2>3. CASE ReadFails \/ Interrupt \/ WriteFails \/ UpdateDone
        BY <1>7, <1>8, <2>3
    <2>4. CASE \/ StartGet \/ StartUpdate \/ BeginWrites \/ WriteDone \/ WriteTimeout
               \/ \E p \in Paths : ReadFile(p) \/ WriteFile(p)
               \/ \E h \in Hosts : Apply(h) \/ OpenHost(h)
        BY <2>4 DEF Steps
    <2> QED BY <1>9, <2>1, <2>2, <2>3, <2>4 DEF Command
<1>10. CASE Next
    BY <1>9, <1>10 DEF Next, Steps
<1>11. CASE UNCHANGED vars
    BY <1>11 DEF Steps
<1> QED BY <1>10, <1>11

LEMMA PathFacts ==
    ASSUME NEW p \in Paths
    PROVE  p[1] \in Hosts /\ p[2] \in FilesOf[p[1]] /\ p = <<p[1], p[2]>>
BY DEF Paths

LEMMA ContentFacts ==
    /\ \A d \in Domains \cup {NoDomain}, k \in {0, 1} : [domain |-> d, settings |-> k] \in Contents
    /\ \A c \in Contents : /\ c # Empty /\ c.domain \in Domains \cup {NoDomain}
                           /\ c.settings \in {0, 1}
    /\ \A c \in Contents, d \in Domains \cup {NoDomain} :
          LET new == [c EXCEPT !.domain = d]
          IN  new \in Contents /\ new.domain = d /\ new.settings = c.settings
BY EmptyAssumption DEF Contents

\* What Apply does to the files in memory.
LEMMA ApplyFacts ==
    ASSUME TypeOK, NEW h \in Hosts, Apply(h)
    PROVE  /\ DOMAIN configs' = DOMAIN configs
           /\ \A p \in DOMAIN configs :
                /\ p[1] # h => configs'[p] = configs[p]
                /\ p[1] = h => /\ configs[p] \in Contents /\ configs'[p] \in Contents
                               /\ configs'[p].settings = configs[p].settings
                               /\ configs'[p].domain \in {NoDomain, mapping[h]}
<1> DEFINE new(p) == IF p[1] = h /\ configs[p].domain # NoDomain
                     THEN [configs[p] EXCEPT !.domain = mapping[h]] ELSE configs[p]
<1>1. configs' = [p \in DOMAIN configs |-> new(p)]
    BY DEF Apply
<1>2. mapping[h] \in Domains \cup {NoDomain}
    BY DEF TypeOK, Mappings
<1>3. ASSUME NEW p \in DOMAIN configs, p[1] = h PROVE configs[p] \in Contents
    BY <1>3 DEF Apply, Parsed, FilesRead, TypeOK
<1>4. ASSUME NEW p \in DOMAIN configs, p[1] = h
      PROVE  /\ new(p) \in Contents /\ new(p).settings = configs[p].settings
             /\ new(p).domain \in {NoDomain, mapping[h]}
    BY <1>2, <1>3, <1>4, ContentFacts
<1> QED BY <1>1, <1>3, <1>4

\* What reading a file does to the ones in memory.
LEMMA ReadFacts ==
    ASSUME NEW p \in Paths, ReadFile(p)
    PROVE  /\ DOMAIN configs' = DOMAIN configs \cup {p} /\ configs'[p] = disk[p]
           /\ \A q \in DOMAIN configs : q # p => configs'[q] = configs[q]
BY DEF ReadFile

LEMMA TypeInductive ==
    ASSUME TypeOK, ReadInv, [Next]_vars
    PROVE  TypeOK'
<1>1. Steps
    BY StepKinds
<1>2. CASE StartGet \/ StartUpdate
    <2>1. NoMapping \in Mappings
        BY DEF NoMapping, Mappings
    <2> QED BY <1>2, <2>1 DEF StartGet, StartUpdate, Start, Mapped, TypeOK, outside
<1>3. CASE Leaves
    <2>1. NoMapping \in Mappings
        BY DEF NoMapping, Mappings
    <2>2. DOMAIN NoConfigs = {}
        BY DEF NoConfigs
    <2> QED BY <1>3, <2>1, <2>2 DEF Leaves, Exit, TypeOK, outside
<1>4. ASSUME NEW answer \in SUBSET Hosts, BeginRead(answer) PROVE TypeOK'
    BY <1>4 DEF BeginRead, Seen, TypeOK, outside
<1>5. ASSUME NEW p \in Paths, ReadFile(p) PROVE TypeOK'
    <2>1. disk[p] \in Contents \cup {Empty}
        BY DEF TypeOK
    <2>2. /\ DOMAIN configs' \subseteq Paths
          /\ \A q \in DOMAIN configs' : configs'[q] \in Contents \cup {Empty}
        <3>1. DOMAIN configs \subseteq Paths
              /\ \A q \in DOMAIN configs : configs[q] \in Contents \cup {Empty}
            BY DEF TypeOK
        <3> QED BY <1>5, <2>1, <3>1, ReadFacts
    <2>3. paths' \subseteq Paths /\ step' \in {"next", "read"}
        BY <1>5 DEF ReadFile, TypeOK
    <2> QED BY <1>5, <2>2, <2>3 DEF ReadFile, TypeOK, outside
<1>6. ASSUME NEW p \in Paths, WriteFile(p) PROVE TypeOK'
    <2>1. configs[p] \in Contents
        BY <1>6 DEF WriteFile, ReadInv, At, TypeOK
    <2>2. waiting' \in Writes
        BY <1>6, <2>1 DEF WriteFile, Writes
    <2> QED BY <1>6, <2>2 DEF WriteFile, TypeOK, outside
<1>7. ASSUME NEW p \in Paths, EditSettings(p) PROVE TypeOK'
    <2> DEFINE d == IF disk[p] = Empty THEN Original[p] ELSE disk[p].domain
    <2>1. d \in Domains \cup {NoDomain}
        BY ManagerAssumption, ContentFacts DEF TypeOK
    <2>2. [domain |-> d, settings |-> 1] \in Contents
        BY <2>1, ContentFacts
    <2>3. disk' = [disk EXCEPT ![p] = [domain |-> d, settings |-> 1]]
        BY <1>7 DEF EditSettings
    <2> HIDE DEF d
    <2>4. disk' \in [Paths -> Contents \cup {Empty}]
        BY <2>2, <2>3 DEF TypeOK
    <2>5. settings' \in [Paths -> {0, 1}] /\ raced' \subseteq Paths
        BY <1>7 DEF EditSettings, TypeOK
    <2> QED BY <1>7, <2>4, <2>5 DEF EditSettings, TypeOK, process
<1>8. ASSUME NEW h \in Hosts, NEW answer \in SUBSET Hosts, SkipHost(h, answer) PROVE TypeOK'
    BY <1>8 DEF SkipHost, Seen, TypeOK, outside
<1>9. ASSUME NEW h \in Hosts, Apply(h) PROVE TypeOK'
    <2>1. /\ DOMAIN configs' \subseteq Paths
          /\ \A q \in DOMAIN configs' : configs'[q] \in Contents \cup {Empty}
        BY <1>9, ApplyFacts DEF TypeOK
    <2> QED BY <1>9, <2>1 DEF Apply, Body, TypeOK, outside
<1>10. ASSUME NEW h \in Hosts, OpenHost(h) PROVE TypeOK'
    BY <1>10 DEF OpenHost, Body, FilesRead, TypeOK, outside
<1>11. CASE BeginWrites
    BY <1>11 DEF BeginWrites, Mapped, TypeOK, outside
<1>12. CASE WriteDone \/ WriteTimeout
    BY <1>12 DEF WriteDone, WriteTimeout, Continue, TypeOK, outside
<1>13. ASSUME NEW w \in writes, ShellOpen(w) \/ ShellWrite(w) \/ ShellDies(w) PROVE TypeOK'
    <2>1. w \in Writes /\ w.path \in Paths /\ w.content \in Contents
        BY DEF TypeOK, Writes
    <2>2. [w EXCEPT !.opened = TRUE] \in Writes
        BY <2>1 DEF Writes
    <2>3. writes' \subseteq Writes /\ disk' \in [Paths -> Contents \cup {Empty}]
        BY <1>13, <2>1, <2>2 DEF ShellOpen, ShellWrite, ShellDies, TypeOK
    <2>4. sure' \in BOOLEAN
        BY <1>13 DEF ShellOpen, ShellWrite, ShellDies, TypeOK
    <2> QED BY <1>13, <2>3, <2>4 DEF ShellOpen, ShellWrite, ShellDies, TypeOK, process, outside
<1>14. CASE EditMapping
    BY <1>14 DEF EditMapping, TypeOK, Mappings, process, outside
<1>15. CASE UNCHANGED vars
    BY <1>15 DEF vars, TypeOK
<1> QED BY <1>1, <1>2, <1>3, <1>4, <1>5, <1>6, <1>7, <1>8, <1>9, <1>10, <1>11, <1>12,
           <1>13, <1>14, <1>15 DEF Steps

LEMMA LeavesFacts ==
    ASSUME Leaves
    PROVE  /\ command' = "none" /\ loop' = "apply" /\ step' = "next" /\ hosts' = {}
           /\ DOMAIN configs' = {} /\ paths' = {} /\ todo' = {}
           /\ UNCHANGED <<disk, writes, settings, raced>>
BY DEF Leaves, Exit, NoConfigs, outside

LEMMA IdleInductive ==
    ASSUME TypeOK, IdleInv, ReadInv, [Next]_vars
    PROVE  IdleInv'
<1>1. Steps
    BY StepKinds
<1>2. CASE Leaves
    BY <1>2, LeavesFacts DEF IdleInv
<1>3. CASE \E answer \in SUBSET Hosts :
              /\ BeginRead(answer) /\ step = "next"
              /\ \/ command = "get-domains"
                 \/ command = "update-domains" /\ todo \cap Seen(answer) # {}
    BY <1>3 DEF BeginRead, IdleInv
<1>4. CASE \E p \in Paths : ReadFile(p) \/ WriteFile(p) \/ EditSettings(p)
    BY <1>4 DEF ReadFile, WriteFile, EditSettings, At, process, IdleInv
<1>5. CASE \E h \in Hosts, answer \in SUBSET Hosts : SkipHost(h, answer)
    BY <1>5 DEF SkipHost, At, IdleInv
<1>6. CASE \E h \in Hosts : Apply(h) \/ OpenHost(h)
    BY <1>6 DEF Apply, OpenHost, Body, At, IdleInv
<1>7. CASE BeginWrites \/ WriteDone \/ WriteTimeout
    BY <1>7 DEF BeginWrites, WriteDone, WriteTimeout, At, IdleInv
<1>8. CASE \E w \in writes : ShellOpen(w) \/ ShellWrite(w) \/ ShellDies(w)
    BY <1>8 DEF ShellOpen, ShellWrite, ShellDies, process, IdleInv
<1>9. CASE StartGet \/ StartUpdate \/ EditMapping \/ UNCHANGED vars
    BY <1>9 DEF StartGet, StartUpdate, Start, EditMapping, process, vars, IdleInv
<1> QED BY <1>1, <1>2, <1>3, <1>4, <1>5, <1>6, <1>7, <1>8, <1>9 DEF Steps

LEMMA ReadInductive ==
    ASSUME TypeOK, IdleInv, ReadInv, [Next]_vars
    PROVE  ReadInv'
<1>1. Steps
    BY StepKinds
<1>2. CASE StartGet \/ StartUpdate
    BY <1>2 DEF StartGet, StartUpdate, Start, IdleInv, ReadInv, Shown, Mapped
<1>3. CASE Leaves
    BY <1>3, LeavesFacts DEF ReadInv
<1>4. ASSUME NEW answer \in SUBSET Hosts, BeginRead(answer), step = "next" PROVE ReadInv'
    <2>1. DOMAIN configs = {} /\ configs' = configs /\ paths' = Shown' /\ step' = "read"
        BY <1>4 DEF BeginRead, NeedsRead, Shown
    <2>2. Mapped(mapping)' = Mapped(mapping) /\ todo' = todo
        BY <1>4 DEF BeginRead, Mapped
    <2> QED BY <2>1, <2>2 DEF ReadInv
<1>5. ASSUME NEW p \in Paths, ReadFile(p) PROVE ReadInv'
    <2>1. /\ step = "read" /\ p \in paths /\ paths' = paths \ {p}
          /\ step' = IF paths = {p} THEN "next" ELSE "read"
          /\ Shown' = Shown /\ Mapped(mapping)' = Mapped(mapping) /\ todo' = todo
        BY <1>5 DEF ReadFile, Shown, Mapped
    <2>2. DOMAIN configs' \cup paths' = Shown /\ DOMAIN configs' = DOMAIN configs \cup {p}
        BY <1>5, <2>1, ReadFacts DEF ReadInv
    <2> QED BY <2>1, <2>2 DEF ReadInv
<1>6. ASSUME NEW p \in Paths, WriteFile(p) PROVE ReadInv'
    <2>1. /\ step = "files" /\ step' = "wait" /\ p \in paths /\ paths' = paths \ {p}
          /\ waiting' = [path |-> p, content |-> configs[p], opened |-> FALSE]
          /\ Shown' = Shown /\ Mapped(mapping)' = Mapped(mapping) /\ todo' = todo
          /\ configs' = configs /\ command' = command /\ loop' = loop
        BY <1>6 DEF WriteFile, At, Shown, Mapped
    <2>2. waiting' \in Writes
        <3>1. configs[p] \in Contents
            BY <1>6, <2>1 DEF WriteFile, ReadInv, TypeOK
        <3> QED BY <2>1, <3>1 DEF Writes
    <2>3. waiting'.path = p /\ waiting'.content = configs[p]
        BY <2>1
    <2>4. p \in DOMAIN configs /\ p[1] \in Mapped(mapping)
        BY <2>1 DEF ReadInv
    <2> QED BY <2>1, <2>2, <2>3, <2>4 DEF ReadInv
<1>7. ASSUME NEW h \in Hosts, NEW answer \in SUBSET Hosts, SkipHost(h, answer) PROVE ReadInv'
    <2>1. /\ step = "next" /\ step' = step /\ configs' = configs /\ paths' = paths
          /\ todo' \subseteq todo /\ Mapped(mapping)' = Mapped(mapping)
        BY <1>7 DEF SkipHost, At, Mapped
    <2>2. DOMAIN configs \in {{}, Shown'}
        <3>1. CASE hosts = {}
            BY <2>1, <3>1 DEF ReadInv, Shown
        <3>2. CASE hosts # {}
            BY <1>7, <2>1, <3>2 DEF SkipHost, Seen, ReadInv, Shown
        <3> QED BY <3>1, <3>2
    <2> QED BY <2>1, <2>2 DEF ReadInv
<1>8. ASSUME NEW h \in Hosts, Apply(h) PROVE ReadInv'
    <2>1. /\ step = "next" /\ step' = step /\ DOMAIN configs' = DOMAIN configs
          /\ paths' = paths /\ todo' \subseteq todo /\ Shown' = Shown
          /\ Mapped(mapping)' = Mapped(mapping)
        BY <1>8, ApplyFacts DEF Apply, Body, At, Shown, Mapped
    <2> QED BY <2>1 DEF ReadInv
<1>9. ASSUME NEW h \in Hosts, OpenHost(h) PROVE ReadInv'
    <2>1. /\ step = "next" /\ step' = "files" /\ configs' = configs
          /\ paths' = FilesRead(h) /\ todo' \subseteq todo /\ Shown' = Shown
          /\ Mapped(mapping)' = Mapped(mapping) /\ h \in todo
          /\ command' = "update-domains" /\ loop' = "write"
        BY <1>9 DEF OpenHost, Body, At, Shown, Mapped
    <2>2. /\ FilesRead(h) \subseteq DOMAIN configs
          /\ \A p \in FilesRead(h) : p[1] \in Mapped(mapping)
        BY <2>1 DEF FilesRead, ReadInv
    <2> QED BY <2>1, <2>2 DEF ReadInv
<1>10. CASE BeginWrites
    BY <1>10 DEF BeginWrites, At, ReadInv, Shown, Mapped
<1>11. CASE WriteDone \/ WriteTimeout
    <2>1. /\ step = "wait" /\ step' = (IF paths = {} THEN "next" ELSE "files")
          /\ UNCHANGED <<configs, paths, todo, mapping, hosts, command, loop>>
        BY <1>11 DEF WriteDone, WriteTimeout, Continue, At
    <2> QED BY <2>1 DEF ReadInv, Shown, Mapped
<1>12. CASE UNCHANGED process
    BY <1>12 DEF process, ReadInv, Shown, Mapped
<1>13. CASE \E w \in writes : ShellOpen(w) \/ ShellWrite(w) \/ ShellDies(w)
    BY <1>12, <1>13 DEF ShellOpen, ShellWrite, ShellDies
<1>14. CASE (\E p \in Paths : EditSettings(p)) \/ EditMapping \/ UNCHANGED vars
    BY <1>12, <1>14 DEF EditSettings, EditMapping, vars, process
<1> QED BY <1>1, <1>2, <1>3, <1>4, <1>5, <1>6, <1>7, <1>8, <1>9, <1>10, <1>11,
           <1>13, <1>14 DEF Steps

LEMMA KeptInductive ==
    ASSUME TypeOK, IdleInv, ReadInv, KeptInv, [Next]_vars
    PROVE  KeptInv'
<1>1. Steps
    BY StepKinds
<1>2. CASE UNCHANGED <<disk, writes, settings, raced>> /\ configs' = configs
    BY <1>2 DEF KeptInv
<1>3. CASE Leaves
    BY <1>3, LeavesFacts DEF KeptInv
<1>4. ASSUME NEW p \in Paths, ReadFile(p) PROVE KeptInv'
    <2>1. UNCHANGED <<disk, writes, settings, raced>>
        BY <1>4 DEF ReadFile, outside
    <2>2. ASSUME NEW q \in Paths \ raced, q \in DOMAIN configs', configs'[q] # Empty
          PROVE  configs'[q].settings = settings[q]
        <3> HIDE DEF KeptInv
        <3>1. CASE q = p
            <4>1. configs'[q] = disk[q]
                BY <1>4, <3>1, ReadFacts
            <4> QED BY <2>2, <4>1 DEF KeptInv
        <3>2. CASE q # p
            <4>1. q \in DOMAIN configs /\ configs'[q] = configs[q]
                BY <1>4, <2>2, <3>2, ReadFacts
            <4> QED BY <2>2, <4>1 DEF KeptInv
        <3> QED BY <3>1, <3>2
    <2> QED BY <2>1, <2>2 DEF KeptInv
<1>5. ASSUME NEW p \in Paths, WriteFile(p) PROVE KeptInv'
    <2>1. /\ UNCHANGED <<disk, settings, raced, configs>>
          /\ p \in paths /\ p \in DOMAIN configs /\ configs[p] # Empty
          /\ waiting' = [path |-> p, content |-> configs[p], opened |-> FALSE]
          /\ writes' = writes \cup {waiting'}
        BY <1>5 DEF WriteFile, outside, At, ReadInv
    <2>2. waiting'.path = p /\ waiting'.content = configs[p]
        BY <2>1
    <2>3. p \notin raced => waiting'.content.settings = settings[p]
        BY <2>1, <2>2 DEF KeptInv
    <2> QED BY <2>1, <2>2, <2>3 DEF KeptInv
<1>6. ASSUME NEW p \in Paths, EditSettings(p) PROVE KeptInv'
    <2> DEFINE d == IF disk[p] = Empty THEN Original[p] ELSE disk[p].domain
               new == [domain |-> d, settings |-> 1]
    <2>1. /\ disk' = [disk EXCEPT ![p] = new] /\ settings' = [settings EXCEPT ![p] = 1]
          /\ raced' = IF command # "none" \/ writes # {} THEN raced \cup {p} ELSE raced \ {p}
          /\ UNCHANGED <<writes, configs>>
        BY <1>6 DEF EditSettings, process
    <2>2. new.settings = 1
        OBVIOUS
    <2> HIDE DEF d, new
    <2>3. \A q \in Paths : q # p =>
              disk'[q] = disk[q] /\ settings'[q] = settings[q] /\ (q \notin raced' => q \notin raced)
        BY <2>1 DEF TypeOK
    <2>4. p \notin raced' =>
              /\ disk'[p].settings = settings'[p] /\ writes' = {} /\ DOMAIN configs' = {}
        BY <2>1, <2>2 DEF TypeOK, IdleInv
    <2> QED BY <2>1, <2>3, <2>4 DEF KeptInv
<1>7. ASSUME NEW h \in Hosts, Apply(h) PROVE KeptInv'
    <2>1. UNCHANGED <<disk, writes, settings, raced>>
        BY <1>7 DEF Apply, Body, outside
    <2>2. ASSUME NEW p \in Paths \ raced, p \in DOMAIN configs', configs'[p] # Empty
          PROVE  configs'[p].settings = settings[p]
        BY <1>7, <2>2, ApplyFacts, ContentFacts DEF KeptInv
    <2> QED BY <2>1, <2>2 DEF KeptInv
<1>8. ASSUME NEW w \in writes, ShellOpen(w) \/ ShellWrite(w) \/ ShellDies(w) PROVE KeptInv'
    <2> DEFINE opened == [w EXCEPT !.opened = TRUE]
    <2>1. w \in Writes /\ w.path \in Paths
        BY DEF TypeOK, Writes
    <2>2. opened.path = w.path /\ opened.content = w.content
        BY <2>1 DEF Writes
    <2>3. UNCHANGED <<settings, raced, configs>>
        BY <1>8 DEF ShellOpen, ShellWrite, ShellDies, process, outside
    <2>4. writes' \subseteq writes \cup {opened}
        BY <1>8 DEF ShellOpen, ShellWrite, ShellDies
    <2>5. \A p \in Paths : p # w.path => disk'[p] = disk[p]
        BY <1>8, <2>1 DEF ShellOpen, ShellWrite, ShellDies, TypeOK
    <2>6. disk'[w.path] \in {disk[w.path], Empty, w.content}
        BY <1>8, <2>1 DEF ShellOpen, ShellWrite, ShellDies, TypeOK
    <2> HIDE DEF opened
    <2> QED BY <2>1, <2>2, <2>3, <2>4, <2>5, <2>6 DEF KeptInv
<1>9. CASE StartGet \/ StartUpdate
    BY <1>2, <1>9 DEF StartGet, StartUpdate, Start, outside
<1>10. ASSUME NEW answer \in SUBSET Hosts, BeginRead(answer) PROVE KeptInv'
    BY <1>2, <1>10 DEF BeginRead, outside
<1>11. ASSUME NEW answer \in SUBSET Hosts, NEW h \in Hosts, SkipHost(h, answer) PROVE KeptInv'
    BY <1>2, <1>11 DEF SkipHost, outside
<1>12. ASSUME NEW h \in Hosts, OpenHost(h) PROVE KeptInv'
    BY <1>2, <1>12 DEF OpenHost, Body, outside
<1>13. CASE BeginWrites \/ WriteDone \/ WriteTimeout
    BY <1>2, <1>13 DEF BeginWrites, WriteDone, WriteTimeout, outside
<1>14. CASE EditMapping \/ UNCHANGED vars
    BY <1>2, <1>14 DEF EditMapping, process, outside, vars
<1> QED BY <1>1, <1>3, <1>4, <1>5, <1>6, <1>7, <1>8, <1>9, <1>10, <1>11, <1>12,
           <1>13, <1>14 DEF Steps

\* A shell that is opened is still the one that is waited for, or is not.
LEMMA OpenedFacts ==
    ASSUME TypeOK, NEW w \in writes
    PROVE  LET opened == [w EXCEPT !.opened = TRUE]
           IN  /\ w \in Writes /\ w.path \in Paths /\ w.content \in Contents
               /\ opened.path = w.path /\ opened.content = w.content
BY DEF TypeOK, Writes

LEMMA SureInductive ==
    ASSUME TypeOK, IdleInv, ReadInv, SureInv, [Next]_vars
    PROVE  SureInv'
<1>1. Steps
    BY StepKinds
<1>3. CASE StartGet \/ StartUpdate
    BY <1>3 DEF StartGet, StartUpdate, Start, SureInv
<1>4. CASE Leaves
    BY <1>4, LeavesFacts DEF SureInv
<1>5. ASSUME step \in {"next", "read", "files"}, UNCHANGED <<command, sure, writes>>
      PROVE  SureInv'
    BY <1>5 DEF SureInv, Awaited
<1>6. ASSUME NEW answer \in SUBSET Hosts, BeginRead(answer), step = "next" PROVE SureInv'
    BY <1>5, <1>6 DEF BeginRead
<1>7. ASSUME NEW p \in Paths, ReadFile(p) PROVE SureInv'
    BY <1>5, <1>7 DEF ReadFile
<1>8. ASSUME NEW p \in Paths, WriteFile(p) PROVE SureInv'
    <2>1. /\ step = "files" /\ step' = "wait" /\ writes' = writes \cup {waiting'}
          /\ command' = command /\ sure' = sure
        BY <1>8 DEF WriteFile, At
    <2>2. command # "none" /\ sure => writes = {}
        BY <2>1 DEF SureInv, Awaited
    <2> QED BY <2>1, <2>2 DEF SureInv, Awaited
<1>9. ASSUME NEW p \in Paths, EditSettings(p) PROVE SureInv'
    BY <1>9 DEF EditSettings, process, SureInv, Awaited
<1>10. ASSUME NEW h \in Hosts, NEW answer \in SUBSET Hosts, SkipHost(h, answer) PROVE SureInv'
    BY <1>10 DEF SkipHost, SureInv, Awaited
<1>11. ASSUME NEW h \in Hosts, Apply(h) \/ OpenHost(h) PROVE SureInv'
    BY <1>5, <1>11 DEF Apply, OpenHost, Body, At
<1>12. CASE BeginWrites
    BY <1>5, <1>12 DEF BeginWrites, At
<1>13. CASE WriteDone
    <2>1. command # "none" /\ sure => writes = {}
        BY <1>13 DEF WriteDone, Pending, SureInv
    <2> QED BY <1>13, <2>1 DEF WriteDone, SureInv
<1>14. CASE WriteTimeout
    BY <1>14 DEF WriteTimeout, SureInv
<1>15. ASSUME NEW w \in writes, ShellOpen(w) PROVE SureInv'
    <2> DEFINE opened == [w EXCEPT !.opened = TRUE]
    <2>1. opened.path = w.path /\ opened.content = w.content
        BY OpenedFacts
    <2>2. /\ writes' = (writes \ {w}) \cup {opened}
          /\ UNCHANGED <<command, step, waiting, sure>>
        BY <1>15 DEF ShellOpen, process
    <2> HIDE DEF opened
    <2> QED BY <2>1, <2>2 DEF SureInv, Awaited
<1>16. ASSUME NEW w \in writes, ShellWrite(w) \/ ShellDies(w) PROVE SureInv'
    BY <1>16 DEF ShellWrite, ShellDies, process, SureInv, Awaited
<1>17. CASE EditMapping \/ UNCHANGED vars
    BY <1>17 DEF EditMapping, vars, process, SureInv, Awaited
<1> QED BY <1>1, <1>3, <1>4, <1>6, <1>7, <1>8, <1>9, <1>10, <1>11, <1>12,
           <1>13, <1>14, <1>15, <1>16, <1>17 DEF Steps

LEMMA ApplyInductive ==
    ASSUME TypeOK, IdleInv, ReadInv, ApplyInv, [Next]_vars
    PROVE  ApplyInv'
<1>1. Steps
    BY StepKinds
<1>2. Handled \subseteq Mapped(mapping) /\ Mapped(mapping) \subseteq Hosts
    BY DEF Handled, Mapped
<1>3. ASSUME UNCHANGED <<command, loop, hosts, configs, mapping>>, sure' => sure,
             loop = "apply" => todo' = todo, step' = "read" => step = "read"
      PROVE  ApplyInv'
    <2>1. Mapped(mapping)' = Mapped(mapping) /\ Handled' = Handled
        BY <1>3 DEF Mapped, Handled
    <2>2. \A h \in Hosts : Applied(h)' = Applied(h)
        BY <1>3 DEF Applied, FilesRead, Parsed
    <2> QED BY <1>2, <1>3, <2>1, <2>2 DEF ApplyInv
<1>4. CASE StartGet
    BY <1>4 DEF StartGet, Start, ApplyInv
<1>5. CASE StartUpdate
    <2>1. Handled' = {} /\ step' = "next"
        BY <1>5 DEF StartUpdate, Start, IdleInv, Handled, Mapped
    <2> QED BY <2>1 DEF ApplyInv
<1>6. CASE Leaves
    BY <1>6, LeavesFacts DEF ApplyInv
<1>7. ASSUME NEW answer \in SUBSET Hosts, BeginRead(answer), step = "next",
             command = "get-domains" \/ todo \cap Seen(answer) # {}
      PROVE  ApplyInv'
    <2>1. /\ DOMAIN configs = {} /\ hosts' = Seen(answer) /\ Handled' = Handled
          /\ UNCHANGED <<command, loop, todo, sure>>
        BY <1>7 DEF BeginRead, NeedsRead, Handled, Mapped
    <2>2. SUFFICES ASSUME command = "update-domains", sure
                   PROVE  loop = "apply" /\ Handled \cap hosts' = {} /\ (Handled # {} => hosts' # {})
        BY <2>1 DEF ApplyInv
    <2>3. Handled \cap hosts = {}
        BY <1>2, <2>1, <2>2 DEF ApplyInv, Applied, FilesRead
    <2>4. Handled # {} => hosts # {}
        BY <2>2 DEF ApplyInv
    <2>5. hosts # {} => hosts' = hosts
        BY <2>1 DEF Seen
    <2>6. todo \cap hosts' # {} /\ todo \subseteq Mapped(mapping)
        BY <1>7, <2>1, <2>2 DEF ReadInv
    <2>7. loop # "apply" => Handled = Mapped(mapping)
        BY DEF Handled
    <2>8. loop = "apply"
        BY <2>3, <2>4, <2>5, <2>6, <2>7
    <2> QED BY <2>3, <2>4, <2>5, <2>8
<1>8. ASSUME NEW p \in Paths, ReadFile(p) PROVE ApplyInv'
    <2>1. /\ step = "read" /\ Handled' = Handled
          /\ UNCHANGED <<command, loop, hosts, sure>>
        BY <1>8 DEF ReadFile, Handled, Mapped
    <2> QED BY <2>1 DEF ApplyInv
<1>9. ASSUME NEW p \in Paths, WriteFile(p) \/ EditSettings(p) PROVE ApplyInv'
    BY <1>3, <1>9 DEF WriteFile, EditSettings, process
<1>10. ASSUME NEW h \in Hosts, NEW answer \in SUBSET Hosts, SkipHost(h, answer) PROVE ApplyInv'
    <2>1. /\ step = "next" /\ step' = "next" /\ hosts' = Seen(answer) /\ todo' = todo \ {h}
          /\ h \in todo /\ h \notin hosts' /\ (sure' => sure /\ hosts' # {})
          /\ UNCHANGED <<command, loop, configs, mapping>>
        BY <1>10 DEF SkipHost, At
    <2>2. SUFFICES ASSUME command = "update-domains", sure, hosts' # {}
                   PROVE  \A g \in Handled' \cap hosts' : Applied(g)
        <3>1. \A g : Applied(g)' = Applied(g)
            BY <2>1 DEF Applied, FilesRead, Parsed
        <3> QED BY <2>1, <3>1 DEF ApplyInv
    <2>3. Handled' \subseteq Handled \cup {h} /\ (loop # "apply" => Handled = Mapped(mapping))
        BY <2>1 DEF Handled, Mapped
    <2>4. hosts # {} => hosts' = hosts
        BY <2>1 DEF Seen
    <2>5. h \in Mapped(mapping)
        BY <2>1 DEF ReadInv
    <2> QED BY <2>1, <2>2, <2>3, <2>4, <2>5 DEF ApplyInv
<1>11. ASSUME NEW h \in Hosts, Apply(h) PROVE ApplyInv'
    <2>1. /\ step' = "next" /\ loop = "apply" /\ h \in hosts /\ FilesRead(h) # {}
          /\ todo' = todo \ {h}
          /\ UNCHANGED <<command, loop, hosts, mapping, sure>>
        BY <1>11 DEF Apply, Body, At
    <2>2. \A g \in Hosts : FilesRead(g)' = FilesRead(g)
        BY <1>11, ApplyFacts DEF FilesRead
    <2>3. Applied(h)'
        <3>1. \A p \in FilesRead(h) : /\ configs'[p] # Empty
                                      /\ configs'[p].domain \in {NoDomain, mapping[h]}
            BY <1>11, ApplyFacts, ContentFacts DEF FilesRead
        <3> QED BY <2>1, <2>2, <3>1 DEF Applied, Parsed
    <2>4. ASSUME NEW g \in Hosts, g # h, Applied(g) PROVE Applied(g)'
        <3>1. \A p \in FilesRead(g) : configs'[p] = configs[p]
            BY <1>11, <2>4, ApplyFacts DEF FilesRead
        <3> QED BY <2>1, <2>2, <2>4, <3>1 DEF Applied, Parsed
    <2>5. Handled' \subseteq Handled \cup {h}
        BY <2>1 DEF Handled, Mapped
    <2> QED BY <1>2, <2>1, <2>3, <2>4, <2>5 DEF ApplyInv
<1>12. ASSUME NEW h \in Hosts, OpenHost(h) PROVE ApplyInv'
    BY <1>3, <1>12 DEF OpenHost, Body
<1>13. CASE BeginWrites
    <2>1. /\ Handled' = Handled /\ step' = "next"
          /\ UNCHANGED <<command, hosts, configs, mapping, sure>>
        BY <1>13 DEF BeginWrites, At, Handled, Mapped
    <2>2. \A h \in Hosts : Applied(h)' = Applied(h)
        BY <2>1 DEF Applied, FilesRead, Parsed
    <2> QED BY <1>2, <2>1, <2>2 DEF ApplyInv
<1>14. CASE WriteDone \/ WriteTimeout
    BY <1>3, <1>14 DEF WriteDone, WriteTimeout, Continue
<1>15. ASSUME NEW w \in writes, ShellOpen(w) \/ ShellWrite(w) \/ ShellDies(w) PROVE ApplyInv'
    BY <1>3, <1>15 DEF ShellOpen, ShellWrite, ShellDies, process
<1>16. CASE EditMapping \/ UNCHANGED vars
    BY <1>3, <1>16 DEF EditMapping, vars, process
<1> QED BY <1>1, <1>4, <1>5, <1>6, <1>7, <1>8, <1>9, <1>10, <1>11, <1>12,
           <1>13, <1>14, <1>15, <1>16 DEF Steps

LEMMA WriteInductive ==
    ASSUME TypeOK, IdleInv, ReadInv, SureInv, ApplyInv, ApplyInv', WriteInv, [Next]_vars
    PROVE  WriteInv'
<1>1. Steps
    BY StepKinds
<1> DEFINE Late == command = "update-domains" /\ sure /\ loop = "write"
\* One file suffices, and most steps leave its situation alone.
<1>2. ASSUME UNCHANGED <<command, loop, configs, mapping, todo, disk>>, sure' => sure,
             paths' = paths,
             step = "wait" /\ Pending => step' = "wait" /\ Pending' /\ waiting' = waiting
      PROVE  WriteInv'
    <2>1. Mapped(mapping)' = Mapped(mapping) /\ \A p \in Paths : Updated(p)' = Updated(p)
        BY <1>2 DEF Mapped, Updated
    <2>2. DOMAIN configs \subseteq Paths
        BY DEF TypeOK
    <2> QED BY <1>2, <2>1, <2>2 DEF WriteInv
<1>3. CASE StartGet \/ StartUpdate
    BY <1>3 DEF StartGet, StartUpdate, Start, IdleInv, WriteInv
<1>4. CASE Leaves
    BY <1>4, LeavesFacts DEF WriteInv
<1>5. ASSUME NEW answer \in SUBSET Hosts, BeginRead(answer) PROVE WriteInv'
    BY <1>5 DEF BeginRead, ApplyInv, WriteInv
<1>6. ASSUME NEW p \in Paths, ReadFile(p) PROVE WriteInv'
    BY <1>6 DEF ReadFile, ApplyInv, WriteInv
<1>7. ASSUME NEW p \in Paths, WriteFile(p) PROVE WriteInv'
    <2>1. /\ step = "files" /\ step' = "wait" /\ paths' = paths \ {p}
          /\ waiting' = [path |-> p, content |-> configs[p], opened |-> FALSE]
          /\ writes' = writes \cup {waiting'}
          /\ UNCHANGED <<command, loop, configs, mapping, todo, disk, sure>>
        BY <1>7 DEF WriteFile, At
    <2>2. Pending' /\ waiting'.path = p
        BY <2>1 DEF Pending, Awaited
    <2>3. Mapped(mapping)' = Mapped(mapping) /\ \A q \in Paths : Updated(q)' = Updated(q)
        BY <2>1 DEF Mapped, Updated
    <2>4. DOMAIN configs \subseteq Paths
        BY DEF TypeOK
    <2> QED BY <2>1, <2>2, <2>3, <2>4 DEF WriteInv
<1>8. ASSUME NEW p \in Paths, EditSettings(p) PROVE WriteInv'
    <2> DEFINE d == IF disk[p] = Empty THEN Original[p] ELSE disk[p].domain
               new == [domain |-> d, settings |-> 1]
    <2>1. /\ disk' = [disk EXCEPT ![p] = new]
          /\ UNCHANGED <<writes, process, sure>>
        BY <1>8 DEF EditSettings
    <2>2. disk[p] # Empty => new \in Contents /\ new.domain = disk[p].domain
        <3>1. disk[p] # Empty => disk[p] \in Contents
            BY DEF TypeOK
        <3> QED BY <3>1, ContentFacts
    <2> HIDE DEF d, new
    <2>3. ASSUME NEW q \in Paths, Updated(q) PROVE Updated(q)'
        <3>1. CASE q = p
            BY <2>1, <2>2, <2>3, <3>1, ContentFacts DEF Updated, TypeOK, process
        <3>2. CASE q # p
            BY <2>1, <2>3, <3>2 DEF Updated, TypeOK, process
        <3> QED BY <3>1, <3>2
    <2>4. Mapped(mapping)' = Mapped(mapping) /\ Pending' = Pending /\ DOMAIN configs \subseteq Paths
        BY <2>1 DEF Mapped, Pending, Awaited, process, TypeOK
    <2> QED BY <2>1, <2>3, <2>4 DEF WriteInv, process
<1>9. ASSUME NEW h \in Hosts, NEW answer \in SUBSET Hosts, SkipHost(h, answer) PROVE WriteInv'
    <2>1. /\ step = "next" /\ hosts' = Seen(answer) /\ todo' = todo \ {h} /\ h \notin hosts'
          /\ step' = "next" /\ paths' = paths
          /\ UNCHANGED <<command, loop, configs, mapping, disk>> /\ (sure' => sure)
        BY <1>9 DEF SkipHost, At
    <2>2. Mapped(mapping)' = Mapped(mapping) /\ \A q \in Paths : Updated(q)' = Updated(q)
        BY <2>1 DEF Mapped, Updated
    <2>3. DOMAIN configs \subseteq Shown /\ Shown \subseteq Paths
        BY <2>1 DEF ReadInv, Shown
    <2>4. \A p \in DOMAIN configs : p[1] # h
        BY <2>1, <2>3 DEF Shown, Seen
    <2> QED BY <2>1, <2>2, <2>3, <2>4 DEF WriteInv
<1>10. ASSUME NEW h \in Hosts, Apply(h) PROVE WriteInv'
    BY <1>10 DEF Apply, Body, WriteInv
<1>11. ASSUME NEW h \in Hosts, OpenHost(h) PROVE WriteInv'
    <2>1. /\ step = "next" /\ paths' = FilesRead(h) /\ todo' = todo \ {h}
          /\ UNCHANGED <<command, loop, configs, mapping, disk, sure>>
        BY <1>11 DEF OpenHost, Body, At
    <2>2. Mapped(mapping)' = Mapped(mapping) /\ \A q \in Paths : Updated(q)' = Updated(q)
        BY <2>1 DEF Mapped, Updated
    <2>3. paths = {} /\ DOMAIN configs \subseteq Paths
        BY <2>1 DEF ReadInv, TypeOK
    <2>4. \A p \in DOMAIN configs : p[1] = h => p \in paths'
        BY <2>1 DEF FilesRead
    <2> QED BY <2>1, <2>2, <2>3, <2>4 DEF WriteInv
<1>12. CASE BeginWrites
    BY <1>12 DEF BeginWrites, WriteInv, Mapped
<1>13. CASE WriteDone
    BY <1>2, <1>13 DEF WriteDone, Continue
<1>14. CASE WriteTimeout
    BY <1>14 DEF WriteTimeout, WriteInv
<1>15. ASSUME NEW w \in writes, ShellOpen(w) \/ ShellWrite(w), Late
       PROVE  WriteInv'
    <2> DEFINE opened == [w EXCEPT !.opened = TRUE]
               q == waiting.path
    <2>1. step = "wait" /\ w.path = q /\ w.content = waiting.content /\ w \in Writes
        BY <1>15 DEF SureInv, Awaited, TypeOK
    <2>2. UNCHANGED process /\ sure' = sure
        BY <1>15 DEF ShellOpen, ShellWrite
    <2>3. \A p \in Paths : p # q => Updated(p)' = Updated(p)
        BY <1>15, <2>1, <2>2 DEF ShellOpen, ShellWrite, Updated, TypeOK, process
    <2>4. Mapped(mapping)' = Mapped(mapping) /\ DOMAIN configs \subseteq Paths
        BY <2>2 DEF Mapped, TypeOK, process
    <2>5. CASE ShellOpen(w)
        <3>1. opened \in writes' /\ opened.path = w.path /\ opened.content = w.content
            BY <2>5, OpenedFacts DEF ShellOpen
        <3>2. Pending'
            <4> HIDE DEF opened
            <4> QED BY <2>1, <2>2, <3>1 DEF Pending, Awaited, process
        <3> QED BY <2>1, <2>2, <2>3, <2>4, <3>2 DEF WriteInv, process
    <2>6. CASE ShellWrite(w)
        <3>1. /\ q \in DOMAIN configs /\ q \in Paths /\ q[1] \in Mapped(mapping)
              /\ w.content = configs[q] /\ w.content \in Contents
            BY <2>1, OpenedFacts DEF ReadInv, Writes
        <3>2. q[1] \in hosts
            BY <2>1, <3>1 DEF ReadInv, Shown
        <3>3. q \in FilesRead(q[1])
            BY <3>1 DEF FilesRead
        <3>4. Applied(q[1])
            BY <1>15, <3>1, <3>2 DEF ApplyInv, Handled
        <3>5. disk'[q] = w.content
            BY <2>1, <2>6, <3>1 DEF ShellWrite, TypeOK
        <3>6. Updated(q)'
            BY <2>2, <3>1, <3>3, <3>4, <3>5, ContentFacts DEF Updated, Applied, process
        <3> QED BY <2>2, <2>3, <2>4, <3>6 DEF WriteInv, process
    <2> QED BY <1>15, <2>5, <2>6
<1>16. ASSUME NEW w \in writes, ShellOpen(w) \/ ShellWrite(w), ~ Late
       PROVE  WriteInv'
    BY <1>16 DEF ShellOpen, ShellWrite, process, WriteInv
<1>17. ASSUME NEW w \in writes, ShellDies(w) PROVE WriteInv'
    BY <1>17 DEF ShellDies, process, SureInv, WriteInv
<1>18. CASE EditMapping \/ UNCHANGED vars
    <2>1. UNCHANGED <<process, disk, writes, sure>>
        BY <1>18 DEF EditMapping, vars, process
    <2>2. Pending' = Pending
        BY <2>1 DEF Pending, Awaited, process
    <2> QED BY <1>2, <2>1, <2>2 DEF process
<1> QED BY <1>1, <1>3, <1>4, <1>5, <1>6, <1>7, <1>8, <1>9, <1>10, <1>11, <1>12,
           <1>13, <1>14, <1>15, <1>16, <1>17, <1>18 DEF Steps

LEMMA InitInvariant ==
    ASSUME Init
    PROVE  IInv
<1>1. TypeOK
    <2>1. disk \in [Paths -> Contents] /\ Original \in [Paths -> Domains \cup {NoDomain}]
        BY ManagerAssumption, ContentFacts DEF Init
    <2>2. NoMapping \in Mappings /\ DOMAIN NoConfigs = {}
        BY DEF NoMapping, Mappings, NoConfigs
    <2> QED BY <2>1, <2>2 DEF Init, TypeOK
<1>2. IdleInv /\ ReadInv
    BY DEF Init, IdleInv, ReadInv, NoConfigs, Shown
<1>3. KeptInv
    BY DEF Init, KeptInv, NoConfigs
<1>4. SureInv /\ ApplyInv /\ WriteInv
    BY DEF Init, SureInv, ApplyInv, WriteInv
<1> QED BY <1>1, <1>2, <1>3, <1>4 DEF IInv

LEMMA InvariantInductive ==
    ASSUME IInv, [Next]_vars
    PROVE  IInv'
<1>1. TypeOK /\ IdleInv /\ ReadInv /\ KeptInv /\ SureInv /\ ApplyInv /\ WriteInv
    BY DEF IInv
<1>2. TypeOK'
    BY <1>1, TypeInductive
<1>3. IdleInv'
    BY <1>1, IdleInductive
<1>4. ReadInv'
    BY <1>1, ReadInductive
<1>5. KeptInv'
    BY <1>1, KeptInductive
<1>6. SureInv'
    BY <1>1, SureInductive
<1>7. ApplyInv'
    BY <1>1, ApplyInductive
<1>8. WriteInv'
    BY <1>1, <1>7, WriteInductive
<1> QED BY <1>2, <1>3, <1>4, <1>5, <1>6, <1>7, <1>8 DEF IInv

\* Everything the properties rest on holds in every reachable state.
THEOREM Invariant == Spec => []IInv
<1>1. Init => IInv
    BY InitInvariant
<1>2. IInv /\ [Next]_vars => IInv'
    BY InvariantInductive
<1> QED BY <1>1, <1>2, PTL DEF Spec

----------------------------------------------------------------------------
(* The properties *)

\* The tool's memory, the shells it left behind and the files on the hosts are
\* what the declarations say: no file gets a content that was never chosen for
\* one, and no path is written that was not read.
THEOREM TypeCorrect == Spec => []TypeOK
<1>1. IInv => TypeOK
    BY DEF IInv
<1> QED BY <1>1, Invariant, PTL

\* However late a shell runs that update_opflex_host_config gave up, it undoes
\* no setting of a file that nobody edited while the tool, or a shell it left
\* behind, was at work.
THEOREM SettingsAreKept == Spec => []SettingsKept
<1>1. IInv => SettingsKept
    BY DEF IInv, KeptInv, SettingsKept
<1> QED BY <1>1, Invariant, PTL

\* update_host_vmm_mappings has parsed every file of every mapped host that is
\* shown before update_opflex_host_config writes the first.
THEOREM AllParsedBeforeWrite == Spec => []ParsedBeforeWrite
<1>1. IInv => ParsedBeforeWrite
    <2>1. SUFFICES ASSUME IInv, step = "wait", sure, NEW h \in Mapped(mapping) \cap hosts
                   PROVE  Parsed(h)
        BY DEF ParsedBeforeWrite
    <2>2. command = "update-domains" /\ loop = "write"
        BY <2>1 DEF IInv, ReadInv
    <2> QED BY <2>1, <2>2 DEF IInv, ApplyInv, Handled, Applied
<1> QED BY <1>1, Invariant, PTL

\* An update-domains that saw neither a timeout nor a failed shell has put the
\* mapped domain in every file with a domain of every mapped host it was shown.
THEOREM DomainsAreUpdated == Spec => []DomainsUpdated
<1>1. IInv => DomainsUpdated
    <2>1. SUFFICES ASSUME IInv, Finished, sure,
                          NEW h \in Mapped(mapping) \cap hosts, NEW f \in FilesOf[h]
                   PROVE  disk[<<h, f>>] # Empty /\ disk[<<h, f>>].domain \in {NoDomain, mapping[h]}
        BY DEF DomainsUpdated
    <2> DEFINE p == <<h, f>>
    <2>2. command = "update-domains" /\ step = "next" /\ loop = "write" /\ todo = {}
        BY <2>1 DEF Finished, At
    <2>3. Applied(h)
        BY <2>1, <2>2 DEF IInv, ApplyInv, Handled
    <2>4. DOMAIN configs = Shown /\ paths = {}
        BY <2>1, <2>2, <2>3 DEF IInv, ReadInv, Applied, FilesRead
    <2>5. p \in Shown
        BY <2>1 DEF Shown, Paths, Mapped
    <2>6. Updated(p)
        BY <2>1, <2>2, <2>4, <2>5 DEF IInv, WriteInv
    <2> QED BY <2>6 DEF Updated
<1> QED BY <1>1, Invariant, PTL

============================================================================
