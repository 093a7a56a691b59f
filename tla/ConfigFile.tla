------------------------------- MODULE ConfigFile -------------------------------
(***************************************************************************)
(* config.json and the commands that change it.  Each loads the whole       *)
(* configuration, changes its copy, and saves the whole of it: through      *)
(* config.json.tmp, one name for all of them, which is then renamed.  A     *)
(* name is an entry of a directory, so the model has the files themselves   *)
(* (inodes): a process goes on writing to the one it has opened, whatever   *)
(* its name is by then.                                                     *)
(*                                                                         *)
(* Source: src/wks/api/config/, src/wks/api/monitor/cmd_*.py.               *)
(***************************************************************************)
EXTENDS MonitorRules

CONSTANTS Clients,     \* the processes that change the configuration
          Files, NoFile,
          Empty, Torn, \* just opened for writing; remains of two texts, not JSON
          CacheDir,    \* transform.cache.base_dir
          Priorities,  \* the priorities that may be given; 0 is none
          Start,       \* the rules to begin with
          Changes,     \* the changes that may be asked for
          MaxChanges,  \* bound: how many are
          MaxFailures  \* bound: processes that die, disks that are full

Config == Rules(Priorities \cup {0})

\* What may be in each list, and what may be asked.
PathLists == {"include_paths", "exclude_paths"}
Members == [l \in ListNames |-> CASE l \in PathLists -> Paths
                                  [] l \in {"include_dirnames", "exclude_dirnames"} -> Names
                                  [] l \in {"include_globs", "exclude_globs"} -> Globs]
IsChange(g) ==
    \/ g.op \in {"filter add", "filter remove"} /\ g.list \in ListNames /\ g.at \in Members[g.list]
    \/ g.op = "priority add" /\ g.at \in Paths /\ g.value \in Priorities
    \/ g.op = "priority remove" /\ g.at \in Paths
    \/ g.op = "set" /\ g.list \in ListNames /\ g.all \subseteq Members[g.list]

ASSUME ConfigAssumption ==
    /\ IsFiniteSet(Clients) /\ IsFiniteSet(Files)
    /\ NoFile \notin Files /\ Cardinality(Files) > Cardinality(Clients) + 1
    /\ CacheDir \in Paths /\ Priorities \subseteq Nat \ {0}
    /\ Start \in Config
    /\ \A g \in Changes : IsChange(g)
    /\ MaxChanges \in Nat /\ MaxFailures \in Nat

VARIABLES live,      \* the file that is called config.json
          tmp,       \* the file that is called config.json.tmp, if any
          data,      \* [Files -> what is in it]
          saver,     \* [Clients -> the change in progress]
          changes, failures,
          truth,     \* auxiliary: what the changes reported done amount to
          overlap    \* auxiliary: two of them have been in progress at once

configVars == <<live, tmp, data, saver, changes, failures, truth, overlap>>

NoChange == [op |-> "none"]
AtRest   == [pc |-> "idle", change |-> NoChange, config |-> Empty, file |-> NoFile]

Busy   == {c \in Clients : saver[c].pc # "idle"}
Unused == Files \ ({live, tmp} \cup {saver[c].file : c \in Clients})

ConfigInit ==
    /\ live \in Files /\ live = (CHOOSE f \in Files : TRUE) /\ tmp = NoFile
    /\ data = [f \in Files |-> IF f = live THEN Start ELSE Empty]
    /\ saver = [c \in Clients |-> AtRest]
    /\ changes = 0 /\ failures = 0
    /\ truth = Start /\ overlap = FALSE

-----------------------------------------------------------------------------
\* WKSConfig's validator: the cache directory is monitored.
Valid(config) == Allowed(config, CacheDir)

\* WKSConfig.load
Loads(text) == text \notin {Empty, Torn} /\ Valid(text)

\* What each command makes of the configuration it has loaded: one, or none when it
\* refuses.  Only `config set` validates what it is about to save.
FilterAdd(g, config) ==
    IF Acceptable(config, g.list, g.at) /\ g.at \notin config[g.list]
      THEN {[config EXCEPT ![g.list] = @ \cup {g.at}]} ELSE {}
FilterRemove(g, config) ==
    IF g.at \in config[g.list] THEN {[config EXCEPT ![g.list] = @ \ {g.at}]} ELSE {}
PriorityAdd(g, config) == {[config EXCEPT !.dirs[g.at] = g.value]}
PriorityRemove(g, config) ==
    IF config.dirs[g.at] # 0 THEN {[config EXCEPT !.dirs[g.at] = 0]} ELSE {}
ConfigSet(g, config) == {n \in {[config EXCEPT ![g.list] = g.all]} : Valid(n)}

Outcome(g, config) ==
    CASE g.op = "filter add"      -> FilterAdd(g, config)
      [] g.op = "filter remove"   -> FilterRemove(g, config)
      [] g.op = "priority add"    -> PriorityAdd(g, config)
      [] g.op = "priority remove" -> PriorityRemove(g, config)
      [] g.op = "set"             -> ConfigSet(g, config)

Rest(c) == saver' = [saver EXCEPT ![c] = AtRest]

\* A command that cannot load the configuration, or refuses, changes nothing.
Ask(c, g) ==
    /\ saver[c].pc = "idle"
    /\ changes < MaxChanges /\ changes' = changes + 1
    /\ IF Loads(data[live]) /\ Outcome(g, data[live]) # {}
         THEN /\ \E new \in Outcome(g, data[live]) :
                   saver' = [saver EXCEPT ![c] = [pc |-> "open", change |-> g,
                                                  file |-> NoFile, config |-> new]]
              /\ overlap' = (Busy # {})
              /\ truth' = IF overlap /\ Busy = {} THEN data[live] ELSE truth
         ELSE UNCHANGED <<saver, overlap, truth>>
    /\ UNCHANGED <<live, tmp, data, failures>>

-----------------------------------------------------------------------------
(* WKSConfig.save *)

\* Mutant: config.json itself is opened for writing.
OpenInPlace(c) ==
    /\ saver[c].pc = "open"
    /\ tmp' = live
    /\ data' = [data EXCEPT ![live] = Empty]
    /\ saver' = [saver EXCEPT ![c].pc = "write", ![c].file = live]
    /\ UNCHANGED <<live, changes, failures, truth, overlap>>

\* open("w"): a new file of that name, or the one there is, emptied.
Open(c) ==
    /\ saver[c].pc = "open"
    /\ \E f \in (IF tmp = NoFile THEN {CHOOSE u \in Unused : TRUE} ELSE {tmp}) :
         /\ tmp' = f
         /\ data' = [data EXCEPT ![f] = Empty]
         /\ saver' = [saver EXCEPT ![c].pc = "write", ![c].file = f]
    /\ UNCHANGED <<live, changes, failures, truth, overlap>>

\* json.dump and close: to the file that was opened, over what another has put there.
Write(c) ==
    LET s == saver[c] IN
    /\ s.pc = "write"
    /\ \E text \in (IF data[s.file] \in {Empty, s.config} THEN {s.config}
                                                          ELSE {s.config, Torn}) :
         data' = [data EXCEPT ![s.file] = text]
    /\ saver' = [saver EXCEPT ![c].pc = "replace", ![c].file = NoFile]
    /\ UNCHANGED <<live, tmp, changes, failures, truth, overlap>>

\* temp_path.replace(path): whatever has the name now; without one the save fails.
Replace(c) ==
    /\ saver[c].pc = "replace"
    /\ IF tmp = NoFile THEN UNCHANGED <<live, tmp, truth>>
       ELSE /\ live' = tmp /\ tmp' = NoFile
            /\ IF overlap THEN UNCHANGED truth
                          ELSE truth' \in Outcome(saver[c].change, truth)
    /\ Rest(c)
    /\ UNCHANGED <<data, changes, failures, overlap>>

\* The save raises (a full disk): the temporary file is removed.
SaveFails(c) ==
    /\ saver[c].pc = "write"
    /\ failures < MaxFailures /\ failures' = failures + 1
    /\ tmp' = NoFile
    /\ Rest(c)
    /\ UNCHANGED <<live, data, changes, truth, overlap>>

\* The process dies where it is, and leaves the temporary file.
SaverDies(c) ==
    /\ saver[c].pc # "idle"
    /\ failures < MaxFailures /\ failures' = failures + 1
    /\ Rest(c)
    /\ UNCHANGED <<live, tmp, data, changes, truth, overlap>>

Save(c) == Open(c) \/ Write(c) \/ Replace(c) \/ SaveFails(c) \/ SaverDies(c)

ConfigNext == \E c \in Clients : Save(c) \/ \E g \in Changes : Ask(c, g)

-----------------------------------------------------------------------------
ConfigTypeOK ==
    /\ live \in Files /\ tmp \in Files \cup {NoFile}
    /\ DOMAIN data = Files
    /\ \A f \in Files : data[f] \in {Empty, Torn} \/ data[f] \in Config
    /\ \A c \in Clients :
         /\ saver[c].pc \in {"idle", "open", "write", "replace"}
         /\ saver[c].file \in Files <=> saver[c].pc = "write"
    /\ changes \in 0..MaxChanges /\ failures \in 0..MaxFailures
    /\ truth \in Config /\ overlap \in BOOLEAN

\* config.json is whole, and holds exactly the changes that were reported done, also
\* after a process that died or a disk that was full; unless two commands were
\* changing it at once.
ConfigKept == overlap \/ data[live] = truth

\* A change of a filter path or of a priority takes effect at that path and below it
\* only: what `monitor check` says of any other path stays; and what has been
\* excluded is not monitored.
OfPath(g) ==
    \/ g.op \in {"priority add", "priority remove"}
    \/ g.op \in {"filter add", "filter remove"} /\ g.list \in PathLists
Elsewhere(g) == {p \in Paths : g.at \notin Chain[p]}
RuleReach ==
    [][\A c \in Clients :
         LET g == saver[c].change IN
         saver[c].pc = "replace" /\ live' # live /\ ~overlap /\ OfPath(g)
           => /\ \A p \in Elsewhere(g) : Verdict(data[live'], p) = Verdict(data[live], p)
              /\ g.op = "filter add" /\ g.list = "exclude_paths" => ~Allowed(data[live'], g.at)]_configVars

\* "The cache directory must be within a monitored path and not excluded by filters":
\* whatever the commands save can be loaded again.
SavedLoads == overlap \/ Loads(data[live])
=============================================================================
