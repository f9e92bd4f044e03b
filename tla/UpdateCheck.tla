---------------------------- MODULE UpdateCheck ----------------------------
(***************************************************************************)
(* The check for a newer release: at start the interface queries the       *)
(* network at most once in an interval, otherwise it uses the release it   *)
(* remembers; the user may skip a release (update_check.rs, main.rs,       *)
(* input/mod.rs, popups/general.rs).  Releases are numbers; the running    *)
(* version is 1 and 0 stands for none.                                     *)
(***************************************************************************)
EXTENDS Naturals

CONSTANTS
  Interval,  \* CHECK_INTERVAL_SECS, in ticks of the model's clock
  MaxTime,   \* bound: the clock
  MaxRelease,
  MaxSlips   \* bound: failed writes and clocks set back

VARIABLES
  now, release,
  saved,     \* config.toml: last_update_check, latest_version, skipped_version, check_updates
  ui,        \* the interface: running, its copy of config.toml, background task, popup
  queried,   \* history: when the network was last queried
  slips

updateVars == <<now, release, saved, ui, queried, slips>>

Off(c) == [run |-> FALSE, cfg |-> c, task |-> "none", known |-> 0, pending |-> 0, popup |-> 0]

UpdateInit ==
  /\ now = 1 /\ release \in 1..2
  /\ saved = [last |-> 0, latest |-> 0, skip |-> 0, on |-> TRUE]
  /\ ui = Off(saved)
  /\ queried = 0 /\ slips = 0

Slip == slips < MaxSlips /\ slips' = slips + 1
Write(c) == (saved' = c /\ UNCHANGED slips) \/ (UNCHANGED saved /\ Slip)

\* A time of the last query in the future means that the clock was set back.
ShouldCheck(c) == c.on /\ (c.last = 0 \/ c.last > now \/ now - c.last >= Interval)
ShouldPrompt(latest, skipped) == latest > 1 /\ latest # skipped

\* Mutant: the time is not saved before the query.
LaunchLate ==
  /\ ~ui.run
  /\ LET due == ShouldCheck(saved)
         c == [saved EXCEPT !.last = IF due THEN now ELSE @] IN
     /\ ui' = [Off(c) EXCEPT !.run = TRUE,
                             !.task = IF due THEN "query"
                                      ELSE IF saved.on /\ ShouldPrompt(saved.latest, saved.skip) THEN "recall" ELSE "none"]
     /\ queried' = IF due THEN now ELSE queried
     /\ UNCHANGED <<saved, slips>>
  /\ UNCHANGED <<now, release>>

\* Start: the time is saved before the query.
Launch ==
  /\ ~ui.run
  /\ LET due == ShouldCheck(saved)
         c == [saved EXCEPT !.last = IF due THEN now ELSE @] IN
     /\ ui' = [Off(c) EXCEPT !.run = TRUE,
                             !.task = IF due THEN "query"
                                      ELSE IF saved.on /\ ShouldPrompt(saved.latest, saved.skip) THEN "recall" ELSE "none"]
     /\ queried' = IF due THEN now ELSE queried
     /\ IF due THEN Write(c) ELSE UNCHANGED <<saved, slips>>
  /\ UNCHANGED <<now, release>>

\* The background task; a query that fails falls back to what is remembered.
Task(ok) ==
  /\ ui.run /\ ui.task # "none"
  /\ LET latest == IF ui.task = "query" /\ ok THEN release ELSE ui.cfg.latest IN
       ui' = [ui EXCEPT !.task = "none", !.known = IF ShouldPrompt(latest, ui.cfg.skip) THEN latest ELSE 0]
  /\ UNCHANGED <<now, release, saved, queried, slips>>

UpdateAvailable ==
  /\ ui.run /\ ui.known # 0
  /\ LET c == [ui.cfg EXCEPT !.latest = ui.known] IN
     /\ ui' = [ui EXCEPT !.cfg = c, !.pending = ui.known, !.known = 0]
     /\ IF c # ui.cfg THEN Write(c) ELSE UNCHANGED <<saved, slips>>
  /\ UNCHANGED <<now, release, queried>>

\* promote_pending_update, on a tick without another popup.
Promote ==
  /\ ui.run /\ ui.pending # 0 /\ ui.popup = 0
  /\ ui' = [ui EXCEPT !.popup = @ + ui.pending, !.pending = 0]
  /\ UNCHANGED <<now, release, saved, queried, slips>>

\* s: the popup stays when the skip could not be saved.
SkipRelease ==
  /\ ui.run /\ ui.popup # 0
  /\ LET c == [ui.cfg EXCEPT !.skip = ui.popup] IN
     /\ Write(c)
     /\ ui' = [ui EXCEPT !.cfg = c, !.popup = IF saved' = c THEN 0 ELSE @]
  /\ UNCHANGED <<now, release, queried>>

Dismiss ==
  /\ ui.run /\ ui.popup # 0 /\ ui' = [ui EXCEPT !.popup = 0]
  /\ UNCHANGED <<now, release, saved, queried, slips>>

\* Settings: check for updates.
ToggleCheck ==
  /\ ui.run /\ ui.popup = 0
  /\ LET c == [ui.cfg EXCEPT !.on = ~@] IN ui' = [ui EXCEPT !.cfg = c] /\ Write(c)
  /\ UNCHANGED <<now, release, queried>>

Quit(saves) ==
  /\ ui.run
  /\ IF saves THEN Write(ui.cfg) ELSE UNCHANGED <<saved, slips>>
  /\ ui' = Off(ui.cfg)
  /\ UNCHANGED <<now, release, queried>>

Clock ==
  /\ \/ now < MaxTime /\ now' = now + 1 /\ UNCHANGED slips
     \/ now > 1 /\ Slip /\ now' = now - 1
  /\ UNCHANGED <<release, saved, ui, queried>>
Publish ==
  /\ release < MaxRelease /\ release' = release + 1
  /\ UNCHANGED <<now, saved, ui, queried, slips>>

UpdateNext ==
  \/ Launch \/ UpdateAvailable \/ Promote \/ SkipRelease \/ Dismiss \/ ToggleCheck \/ Clock \/ Publish
  \/ \E ok \in BOOLEAN : Task(ok)
  \/ \E saves \in BOOLEAN : Quit(saves)
UpdateSpec == UpdateInit /\ [][UpdateNext]_updateVars

-----------------------------------------------------------------------------
\* The network is queried at most once in an interval, also over kills and restarts
\* ("Persist before the request so a crash cannot trigger a check storm", main.rs), as long
\* as that write succeeds and the clock is not set back.
NoCheckStorm ==
  [][queried' # queried => queried = 0 \/ now - queried >= Interval \/ slips > 0]_updateVars

=============================================================================
