------------------------------ MODULE Settings ------------------------------
(***************************************************************************)
(* The settings: config.toml, which the terminal interface and the command *)
(* line read and write as a whole file, and the settings the core owns,    *)
(* which config.toml caches (config.rs, main.rs, core_events.rs,           *)
(* input/settings.rs, testing.rs, cli/commands/settings.rs).               *)
(*                                                                         *)
(* The interface holds its copy of config.toml from start to exit.  Of its *)
(* fields the model keeps some of each kind: theme and level (local; the   *)
(* command sets the first, the interface the second), kill and test        *)
(* (cached from the core; a test configuration has two fields), auto, last *)
(* and migr (the old autoconnect flag, the profile last used, and whether  *)
(* the flag was handed to the core).                                       *)
(***************************************************************************)
EXTENDS Naturals, Sequences

CONSTANTS
  Envs,      \* whether the environment gives a log level
  Limit,     \* bound: starts of the interface, settings changed in it, commands run, and
             \* faults (failed writes, restarts of the core, hand edits)
  MaxTotal   \* bound: all of these together

VARIABLES
  file,    \* config.toml: whether it parses, and its fields
  bak,     \* config.toml.bak holds the text that did not parse
  core,    \* the core's settings; whether its own file is damaged
  asked,   \* requests of the interface and of the command line
  told,    \* frames for the interface and for the command line
  tui,     \* the interface: its copy of config.toml and what it shows
  cmd,     \* the command line
  handed,  \* history: times the old flag was handed to the core
  edited,  \* history: a test setting was changed while the core was damaged
  lost,    \* history: a write failed, an outdated copy was written or a hand edit made
  count    \* starts, edits, commands and faults so far

settingsVars == <<file, bak, core, asked, told, tui, cmd, handed, edited, lost, count>>
settingsHistory == <<handed, edited>>

\* Test values: 1 and 2 are choices, 0 is what a core with a damaged file falls back to.
AppConfig == [theme : 0..1, level : {"warn", "debug", "env"}, kill : BOOLEAN, test : (0..2) \X (0..2),
              auto : BOOLEAN, last : 0..1, migr : BOOLEAN]
Default == [theme |-> 0, level |-> "warn", kill |-> FALSE, test |-> <<1, 1>>,
            auto |-> FALSE, last |-> 0, migr |-> FALSE]
NoCli == [pc |-> "idle", jobs |-> <<>>, cfg |-> Default, test |-> <<1, 1>>]

May(k) == count[k] < Limit[k] /\ count.starts + count.edits + count.cmd + count.faults < MaxTotal

SettingsInit ==
  /\ file = [text |-> "good", c |-> [Default EXCEPT !.auto = TRUE, !.last = 1, !.test = <<2, 1>>]]
  /\ bak = FALSE
  /\ core = [kill |-> FALSE, test |-> <<2, 1>>, auto |-> FALSE, conn |-> 0, damaged |-> FALSE]
  /\ asked = [tui |-> <<>>, cmd |-> <<>>] /\ told = [tui |-> <<>>, cmd |-> <<>>]
  /\ tui = [run |-> FALSE, cfg |-> Default, kill |-> FALSE, test |-> <<1, 1>>, auto |-> FALSE,
            first |-> TRUE, connect |-> FALSE]
  /\ cmd = NoCli
  /\ handed = 0 /\ edited = FALSE /\ lost = FALSE
  /\ count = [starts |-> 0, edits |-> 0, cmd |-> 0, faults |-> 0]

-----------------------------------------------------------------------------
(* config.toml.                                                            *)

\* load_config: an unparsable text is copied and left in place, a missing file is created.
Load == bak' = (bak \/ file.text = "broken")
Loaded == IF file.text = "good" THEN file.c ELSE Default
Created == IF file.text = "missing" THEN [text |-> "good", c |-> Default] ELSE file

\* The whole file is replaced or, when writing fails, left alone.
Save(f, c) ==
  \/ file' = [text |-> "good", c |-> c] /\ UNCHANGED count
  \/ May("faults") /\ file' = f /\ count' = [count EXCEPT !.faults = @ + 1]
Slipped(c) == lost' = (lost \/ file'.text # "good" \/ file'.c # c)

-----------------------------------------------------------------------------
(* The terminal interface.                                                 *)

Ask(who, r) == asked' = [asked EXCEPT ![who] = Append(@, r)]
Quiet == UNCHANGED <<bak, core, told, cmd, settingsHistory>>

\* Start: RUST_LOG or WHOISTHAT_LOG_LEVEL replaces the level in the copy of the file.
TuiStart(env) ==
  /\ ~tui.run /\ May("starts")
  /\ count' = [count EXCEPT !.starts = @ + 1]
  /\ Load /\ file' = Created
  /\ LET c == IF env THEN [Loaded EXCEPT !.level = "env"] ELSE Loaded IN
       tui' = [run |-> TRUE, cfg |-> c, kill |-> c.kill, test |-> c.test, auto |-> FALSE,
               first |-> TRUE, connect |-> c.auto /\ c.last # 0 /\ ~c.migr]
  /\ asked' = [asked EXCEPT !.tui = <<[k |-> "state"]>>]
  /\ told' = [told EXCEPT !.tui = <<>>]
  /\ UNCHANGED <<core, cmd, settingsHistory, lost>>

\* Exit saves the copy; a kill does not.
TuiStop(saves) ==
  /\ tui.run /\ tui' = [tui EXCEPT !.run = FALSE]
  /\ IF saves THEN Save(file, tui.cfg) /\ Slipped(tui.cfg) ELSE UNCHANGED <<file, count, lost>>
  /\ UNCHANGED asked /\ Quiet

Cycle(v) == IF v = 1 THEN 2 ELSE 1

\* persist_and_sync_test_config: all test settings on screen go into the copy.
PersistTest(test) == [tui.cfg EXCEPT !.test = test]

\* SettingsActivate.  Settings of the core wait for its answer; a change of a test setting
\* shows at once, is saved and sent.
Activate(item) ==
  /\ tui.run /\ May("edits")
  /\ LET test == [tui.test EXCEPT ![1] = Cycle(@)]
         c == CASE item = "level" -> [tui.cfg EXCEPT !.level = IF @ = "warn" THEN "debug" ELSE "warn"]
                [] item = "test" -> PersistTest(test)
                [] OTHER -> tui.cfg
         edit == [count EXCEPT !.edits = @ + 1] IN
     /\ IF c = tui.cfg
        THEN UNCHANGED <<file, lost>> /\ count' = edit
        ELSE \/ file' = [text |-> "good", c |-> c] /\ count' = edit /\ UNCHANGED lost
             \/ /\ May("faults") /\ count' = [edit EXCEPT !.faults = @ + 1]
                /\ UNCHANGED file /\ lost' = TRUE
     /\ tui' = [tui EXCEPT !.cfg = c, !.test = IF item = "test" THEN test ELSE @]
     /\ edited' = (edited \/ (item = "test" /\ 0 \in {test[1], test[2]}))
     /\ CASE item = "kill" -> Ask("tui", [k |-> "kill", v |-> ~tui.kill])
          [] item = "auto" -> Ask("tui", [k |-> "auto", v |-> ~tui.auto])
          [] item = "test" -> Ask("tui", [k |-> "test", v |-> test])
          [] OTHER -> UNCHANGED asked
  /\ UNCHANGED <<bak, core, told, cmd, handed>>

\* Mutants: the fallbacks of a damaged core are cached; the hand-over is not remembered.
ApplyStateAlways(s) ==
  LET c == [tui.cfg EXCEPT !.kill = s.kill, !.test = s.test]
      hands == tui.first /\ ~s.damaged /\ ~c.migr /\ c.auto /\ c.last # 0 IN
  [cfg |-> [c EXCEPT !.migr = @ \/ hands], hands |-> hands,
   saves |-> c # tui.cfg \/ hands, connect |-> tui.first /\ tui.connect /\ s.conn = 0]
ApplyStateForgets(s) ==
  LET c == IF s.damaged THEN tui.cfg ELSE [tui.cfg EXCEPT !.kill = s.kill, !.test = s.test]
      hands == tui.first /\ ~s.damaged /\ ~c.migr /\ c.auto /\ c.last # 0 IN
  [cfg |-> c, hands |-> hands,
   saves |-> c # tui.cfg \/ hands, connect |-> tui.first /\ tui.connect /\ s.conn = 0]

\* An application state: the cache follows the core unless the core's file is damaged; the
\* first one hands the old autoconnect flag over, once.
ApplyState(s) ==
  LET c == IF s.damaged THEN tui.cfg ELSE [tui.cfg EXCEPT !.kill = s.kill, !.test = s.test]
      hands == tui.first /\ ~s.damaged /\ ~c.migr /\ c.auto /\ c.last # 0 IN
  [cfg |-> [c EXCEPT !.migr = @ \/ hands], hands |-> hands,
   saves |-> c # tui.cfg \/ hands, connect |-> tui.first /\ tui.connect /\ s.conn = 0]
HandleState ==
  LET s == Head(told.tui).s
      r == ApplyState(s)
      sends == (IF r.hands THEN <<[k |-> "auto", v |-> TRUE]>> ELSE <<>>)
                 \o (IF r.connect THEN <<[k |-> "connect", v |-> 1]>> ELSE <<>>) IN
  /\ Head(told.tui).k = "state"
  /\ tui' = [tui EXCEPT !.cfg = r.cfg, !.kill = s.kill, !.test = s.test, !.auto = s.auto, !.first = FALSE,
                        !.connect = @ /\ ~r.connect]
  /\ IF r.saves THEN Save(file, r.cfg) /\ Slipped(r.cfg) ELSE UNCHANGED <<file, count, lost>>
  /\ asked' = [asked EXCEPT !.tui = @ \o sends]
  /\ handed' = handed + (IF r.hands THEN 1 ELSE 0)

\* The answers; a connection makes its profile the last one used and, with autoconnect on,
\* the one to connect to at start.
HandleAnswer ==
  LET f == Head(told.tui)
      c == CASE f.k = "kill" -> [tui.cfg EXCEPT !.kill = f.v]
             [] f.k = "status" /\ f.v # 0 -> [tui.cfg EXCEPT !.last = f.v]
             [] OTHER -> tui.cfg IN
  /\ f.k # "state"
  /\ tui' = [tui EXCEPT !.cfg = c, !.kill = IF f.k = "kill" THEN f.v ELSE @,
                        !.test = IF f.k = "test" THEN f.v ELSE @,
                        !.auto = IF f.k = "auto" THEN f.v ELSE @]
  /\ IF c # tui.cfg \/ (f.k = "status" /\ f.v # 0) THEN Save(file, c) /\ Slipped(c) ELSE UNCHANGED <<file, count, lost>>
  /\ CASE f.k = "status" /\ f.v # 0 /\ tui.auto -> Ask("tui", [k |-> "auto", v |-> TRUE])
       [] f.k = "reconnected" -> Ask("tui", [k |-> "state"])
       [] OTHER -> UNCHANGED asked
  /\ UNCHANGED handed

HandleCoreEvent ==
  /\ tui.run /\ told.tui # <<>>
  /\ HandleState \/ HandleAnswer
  /\ told' = [told EXCEPT !.tui = Tail(@)]
  /\ UNCHANGED <<bak, core, cmd, edited>>

-----------------------------------------------------------------------------
(* settings set.  The settings of the core come first, one after the other *)
(* (a refusal ends the command), each saving the copy of config.toml read  *)
(* when the session was opened; then the local ones from a fresh read.     *)

Job(k, v) == [k |-> k, v |-> v]
CliCommands == {<<Job("theme", 1)>>, <<Job("kill", TRUE), Job("theme", 1)>>, <<Job("test", 2)>>,
                <<Job("auto", FALSE)>>}
CliKeeps == UNCHANGED <<core, tui, handed>>

\* What the next job does first.
Begins(j) == IF j.k = "kill" THEN "wait" ELSE "fetch"
CliFirst(jobs) == IF jobs = <<>> THEN "idle" ELSE IF Head(jobs).k = "theme" THEN "local" ELSE Begins(Head(jobs))
FirstRequest(j) == IF j.k = "kill" THEN [k |-> "kill", v |-> j.v] ELSE [k |-> "state"]
SendFirst(jobs) ==
  IF CliFirst(jobs) \in {"idle", "local"} THEN UNCHANGED asked ELSE Ask("cmd", FirstRequest(Head(jobs)))

CliOpen(jobs) ==
  /\ cmd.pc = "idle" /\ May("cmd")
  /\ count' = [count EXCEPT !.cmd = @ + 1]
  /\ IF CliFirst(jobs) = "local" THEN UNCHANGED <<file, bak>> ELSE Load /\ file' = Created
  /\ cmd' = [NoCli EXCEPT !.pc = CliFirst(jobs), !.jobs = jobs, !.cfg = Loaded]
  /\ told' = [told EXCEPT !.cmd = <<>>]
  /\ SendFirst(jobs)
  /\ UNCHANGED <<edited, lost>> /\ CliKeeps

\* apply_core for test.* and autoconnect: fetch, change one field, send the whole.
CliFetch ==
  /\ cmd.pc = "fetch" /\ told.cmd # <<>>
  /\ LET s == Head(told.cmd).s
         j == Head(cmd.jobs)
         test == [s.test EXCEPT ![2] = j.v] IN
     /\ Ask("cmd", IF j.k = "test" THEN [k |-> "test", v |-> test] ELSE [k |-> "auto", v |-> j.v])
     /\ edited' = (edited \/ (j.k = "test" /\ test[1] = 0))
  /\ cmd' = [cmd EXCEPT !.pc = "wait"]
  /\ told' = [told EXCEPT !.cmd = Tail(@)]
  /\ UNCHANGED <<file, bak, lost, count>> /\ CliKeeps

CliSave(c) ==
  /\ Save(file, c)
  /\ lost' = (lost \/ file'.c # c \/ [c EXCEPT !.kill = TRUE, !.test = <<1, 1>>, !.auto = TRUE]
                                     # [file.c EXCEPT !.kill = TRUE, !.test = <<1, 1>>, !.auto = TRUE])
  /\ LET jobs == Tail(cmd.jobs) IN
       cmd' = [cmd EXCEPT !.cfg = c, !.jobs = jobs, !.pc = CliFirst(jobs)] /\ SendFirst(jobs)

\* The answer; after a test setting the state is fetched again.
CliWait ==
  /\ cmd.pc = "wait" /\ told.cmd # <<>>
  /\ LET f == Head(told.cmd)
         j == Head(cmd.jobs) IN
     IF j.k = "test" /\ f.k # "state"
     THEN Ask("cmd", [k |-> "state"]) /\ UNCHANGED <<file, lost, count, cmd>>
     ELSE IF j.k = "test"
     THEN CliSave([cmd.cfg EXCEPT !.test = f.s.test])
     ELSE IF f.v # j.v THEN cmd' = NoCli /\ UNCHANGED <<file, lost, count, asked>>
     ELSE CliSave(IF j.k = "kill" THEN [cmd.cfg EXCEPT !.kill = f.v] ELSE [cmd.cfg EXCEPT !.auto = f.v])
  /\ told' = [told EXCEPT !.cmd = Tail(@)]
  /\ UNCHANGED <<bak, edited>> /\ CliKeeps

\* The local settings: read again just before writing.
CliLocal ==
  /\ cmd.pc = "local"
  /\ Load
  /\ Save(Created, [Loaded EXCEPT !.theme = Head(cmd.jobs).v])
  /\ lost' = (lost \/ file'.c # [Loaded EXCEPT !.theme = Head(cmd.jobs).v])
  /\ cmd' = NoCli
  /\ UNCHANGED <<asked, told, edited>> /\ CliKeeps

-----------------------------------------------------------------------------
(* The core, the user's editor.                                            *)

Shown == [kill |-> core.kill, test |-> core.test, auto |-> core.auto, conn |-> core.conn, damaged |-> core.damaged]
AnswerSetting(who, r) ==
  CASE r.k = "state" -> <<[k |-> "state", s |-> Shown]>>
    [] r.k = "kill" -> <<[k |-> "kill", v |-> core'.kill]>>
    [] r.k = "connect" -> <<[k |-> "status", v |-> core'.conn]>>
    [] r.k \in {"test", "auto"} -> <<[k |-> r.k, v |-> r.v]>>
    [] OTHER -> <<>>

\* The kill-switch may stay as it is (include mode, a block that cannot be removed) and a
\* connection may not come up.
CoreHandle(who) ==
  /\ asked[who] # <<>>
  /\ LET r == Head(asked[who]) IN
     /\ core' \in CASE r.k = "kill" -> {core, [core EXCEPT !.kill = r.v]}
                    [] r.k = "test" -> {[core EXCEPT !.test = r.v]}
                    [] r.k = "auto" -> {[core EXCEPT !.auto = r.v]}
                    [] r.k = "connect" -> {[core EXCEPT !.conn = v] : v \in {0, r.v}}
                    [] OTHER -> {core}
     /\ told' = [tui |-> IF tui.run THEN told.tui \o AnswerSetting(who, r) ELSE <<>>,
                  cmd |-> IF who = "cmd" /\ cmd.pc \in {"fetch", "wait"} THEN told.cmd \o AnswerSetting(who, r) ELSE told.cmd]
  /\ asked' = [asked EXCEPT ![who] = Tail(@)]
  /\ UNCHANGED <<file, bak, tui, cmd, settingsHistory, lost, count>>

\* A restart with an unreadable config.json falls back to defaults until it is repaired.
CoreRestart ==
  /\ ~core.damaged /\ May("faults") /\ count' = [count EXCEPT !.faults = @ + 1]
  /\ core' = [kill |-> FALSE, test |-> <<0, 0>>, auto |-> FALSE, conn |-> 0, damaged |-> TRUE]
  /\ asked' = [tui |-> <<>>, cmd |-> <<>>]
  /\ told' = [tui |-> IF tui.run THEN Append(told.tui, [k |-> "reconnected"]) ELSE <<>>, cmd |-> <<>>]
  /\ cmd' = IF cmd.pc \in {"fetch", "wait"} THEN NoCli ELSE cmd
  /\ UNCHANGED <<file, bak, tui, settingsHistory, lost>>
RepairConfig ==
  /\ core.damaged
  /\ core' = [core EXCEPT !.damaged = FALSE, !.test = <<2, 1>>]
  /\ told' = [told EXCEPT !.tui = IF tui.run
                 THEN Append(@, [k |-> "state", s |-> [Shown EXCEPT !.damaged = FALSE, !.test = <<2, 1>>]]) ELSE @]
  /\ UNCHANGED <<file, bak, asked, tui, cmd, settingsHistory, lost, count>>

\* The user writes a text that does not parse, or removes the file, while nothing runs.
HandEdit(text) ==
  /\ ~tui.run /\ cmd.pc = "idle" /\ file.text = "good"
  /\ May("faults") /\ count' = [count EXCEPT !.faults = @ + 1]
  /\ file' = [file EXCEPT !.text = text] /\ bak' = FALSE /\ lost' = TRUE
  /\ UNCHANGED <<core, asked, told, tui, cmd, handed, edited>>

TuiStep == \/ \E env \in Envs : TuiStart(env)
           \/ \E saves \in BOOLEAN : TuiStop(saves)
           \/ \E item \in {"level", "kill", "test", "auto"} : Activate(item)
           \/ HandleCoreEvent
SettingsNext ==
  \/ TuiStep
  \/ \E jobs \in CliCommands : CliOpen(jobs)
  \/ CliFetch \/ CliWait \/ CliLocal
  \/ \E who \in {"tui", "cmd"} : CoreHandle(who)
  \/ CoreRestart \/ RepairConfig
  \/ \E text \in {"broken", "missing"} : HandEdit(text)
SettingsSpec == SettingsInit /\ [][SettingsNext]_settingsVars

-----------------------------------------------------------------------------
(* Properties.                                                             *)

\* What a core with a damaged settings file falls back to does not reach the cache in
\* config.toml, unless the user changes a test setting meanwhile (core_events.rs keeps the
\* cache until the core is repaired; a test setting is always written with its siblings).
FallbackNotCached == edited \/ 0 \notin {file.c.test[1], file.c.test[2]}

\* The old autoconnect flag is handed to the core at most once, over any number of starts,
\* kills and other writers, as long as no write failed and no outdated copy was written.
HandedOnce == handed <= 1 \/ lost

\* A level given in the environment is not written to config.toml
\* (docs/usage/settings.md:45).
EnvNotWritten == file.c.level # "env"
=============================================================================
