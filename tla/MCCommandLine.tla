--------------------------- MODULE MCCommandLine ---------------------------
(***************************************************************************)
(* Parts of the command line and of the settings that share no state: two  *)
(* commands at a time, config.toml and the settings of the core, the check *)
(* for a newer release, status --watch, tui.log and deep links.  Each is   *)
(* explored while the others rest in one initial state.                    *)
(***************************************************************************)
EXTENDS CliSession, Settings, UpdateCheck, StatusWatch, Logs, DeepLink

CONSTANTS a, b  \* the two processes
VARIABLE part

Procs == {a, b}
Sym == Permutations(Procs)
Together == {{"session"}, {"profile"}, {"sub"}, {"profile", "sub"}}
Beside == [none |-> 2, follow |-> 1, tab |-> 1]
Mishaps == [none |-> 3, follow |-> 1, tab |-> 1]
Numbered == [none |-> 5, follow |-> 5, tab |-> 4]
Bounds == [starts |-> 2, edits |-> 1, cmd |-> 1, faults |-> 1]

Init ==
  /\ part \in {"commands", "settings", "update", "watch", "logs", "link"}
  /\ CliInit /\ SettingsInit /\ UpdateInit /\ WatchInit /\ LogInit /\ LinkInit
  /\ part = "commands" \/ (scene = [c \in Clients |-> "profile"] /\ conn = NoRef)
  /\ part = "update" \/ release = 1
  /\ part = "watch" \/ session.p = 0
  /\ part = "logs" \/ reader = "none"
  /\ part = "link" \/ (up /\ shelf.last = 0)
Next ==
  \/ part = "commands" /\ CliNext /\ UNCHANGED <<part, settingsVars, updateVars, watchVars, logVars, linkVars>>
  \/ part = "settings" /\ SettingsNext /\ UNCHANGED <<part, cliVars, updateVars, watchVars, logVars, linkVars>>
  \/ part = "update" /\ UpdateNext /\ UNCHANGED <<part, cliVars, settingsVars, watchVars, logVars, linkVars>>
  \/ part = "watch" /\ WatchNext /\ UNCHANGED <<part, cliVars, settingsVars, updateVars, logVars, linkVars>>
  \/ part = "logs" /\ LogNext /\ UNCHANGED <<part, cliVars, settingsVars, updateVars, watchVars, linkVars>>
  \/ part = "link" /\ LinkNext /\ UNCHANGED <<part, cliVars, settingsVars, updateVars, watchVars, logVars>>
Spec == Init /\ [][Next]_<<part, cliVars, settingsVars, updateVars, watchVars, logVars, linkVars>>
=============================================================================
