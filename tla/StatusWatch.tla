---------------------------- MODULE StatusWatch ----------------------------
(***************************************************************************)
(* status --watch: one snapshot, then a line for every frame that changes  *)
(* what is shown (cli/commands/status.rs).  The core reads a snapshot and  *)
(* broadcasts it in two steps; other clients may ask for snapshots too.    *)
(***************************************************************************)
EXTENDS Integers, Sequences

CONSTANTS
  Profiles,   \* profiles a session can use
  MaxChanges  \* bound: changes of the session and snapshots asked for

\* Identifiers of profiles start at 1.
ASSUME WatchAssumption == Profiles \subseteq Nat \ {0}

VARIABLES
  session,  \* core: connected profile (0 for none) and TUN mode
  reading,  \* core: a snapshot that is being built
  frames,   \* frames on their way to the watcher
  watch,    \* the watcher: CliStatus
  mixed,    \* history: the session changed while a snapshot was being built
  changes

watchVars == <<session, reading, frames, watch, mixed, changes>>

NoSnapshot == [p |-> -1, tun |-> FALSE]
Offline == [pc |-> "start", connected |-> FALSE, p |-> 0, tun |-> FALSE, mode |-> "", rate |-> 0]

WatchInit ==
  /\ session \in [p : Profiles \cup {0}, tun : {FALSE}]
  /\ reading = NoSnapshot /\ frames = <<>> /\ watch = Offline /\ mixed = FALSE /\ changes = 0

Broadcast(fs) == frames' = IF watch.pc = "start" THEN <<>> ELSE frames \o fs
Count == changes < MaxChanges /\ changes' = changes + 1

\* A snapshot, asked for by the watcher when it starts or by another client.
ReadSnapshot ==
  /\ reading = NoSnapshot /\ Count
  /\ reading' = session
  /\ watch' = IF watch.pc = "start" THEN [watch EXCEPT !.pc = "fetch"] ELSE watch
  /\ mixed' = FALSE
  /\ UNCHANGED <<session, frames>>
SendSnapshot ==
  /\ reading # NoSnapshot
  /\ Broadcast(<<[k |-> "state", p |-> reading.p, tun |-> reading.tun]>>)
  /\ reading' = NoSnapshot
  /\ UNCHANGED <<session, watch, mixed, changes>>

\* Connect, disconnect, switch; TUN mode ends with the session.  A status message carries a
\* profile in any case.
ChangeSession(p) ==
  /\ p # session.p /\ Count
  /\ session' = [p |-> p, tun |-> session.tun /\ p # 0]
  /\ Broadcast(<<[k |-> "status", p |-> p]>>
                 \o (IF session.tun /\ p = 0 THEN <<[k |-> "tun", on |-> FALSE]>> ELSE <<>>))
  /\ mixed' = (mixed \/ reading # NoSnapshot)
  /\ UNCHANGED <<reading, watch>>
ChangeTun ==
  /\ session.p # 0 /\ Count
  /\ session' = [session EXCEPT !.tun = ~@]
  /\ Broadcast(<<[k |-> "tun", on |-> ~session.tun]>>)
  /\ mixed' = (mixed \/ reading # NoSnapshot)
  /\ UNCHANGED <<reading, watch>>
Traffic ==
  /\ session.p # 0 /\ Count
  /\ Broadcast(<<[k |-> "traffic"]>>)
  /\ UNCHANGED <<session, reading, watch, mixed>>

\* CliStatus::from_app_state keeps no rate; the watch loop puts it back.
FromAppState(f) ==
  [pc |-> "watch", connected |-> f.p # 0, p |-> f.p, tun |-> f.tun, rate |-> watch.rate,
   mode |-> CASE f.p = 0 -> "" [] f.tun -> "tun" [] OTHER -> "proxy"]

\* Mutant: the end of a connection resets the rate only.
StatusChangedLate(f) == IF f.p = 0 THEN [watch EXCEPT !.rate = 0] ELSE [watch EXCEPT !.connected = TRUE, !.p = f.p]

\* The branch that resets the profile and the rates needs a status without a profile, which
\* the core does not send.
StatusChanged(f) == [watch EXCEPT !.connected = f.p # 0, !.p = f.p]

\* A tun-status-changed frame carries a record and is read as a Boolean, which fails.
ReadFrame ==
  /\ frames # <<>> /\ frames' = Tail(frames)
  /\ LET f == Head(frames) IN
       watch' = CASE f.k = "state" -> FromAppState(f)
                  [] f.k = "status" /\ watch.pc = "watch" -> StatusChanged(f)
                  [] f.k = "traffic" /\ watch.pc = "watch" -> [watch EXCEPT !.rate = 1]
                  [] OTHER -> watch
  /\ UNCHANGED <<session, reading, mixed, changes>>

WatchNext ==
  \/ ReadSnapshot \/ SendSnapshot \/ ChangeTun \/ Traffic \/ ReadFrame
  \/ \E p \in Profiles \cup {0} : ChangeSession(p)
WatchSpec == WatchInit /\ [][WatchNext]_watchVars

-----------------------------------------------------------------------------
\* With every frame read, the watcher shows the core's connection: what happened before
\* its snapshot came in is in the snapshot, the rest follows, unless the session changed
\* while a snapshot was being built.
WatchFollows ==
  watch.pc = "watch" /\ frames = <<>> /\ reading = NoSnapshot /\ ~mixed =>
    watch.connected = (session.p # 0) /\ watch.p = session.p

\* ... and TUN mode (docs/integrations/desktop-widgets.md:11).
WatchFollowsTun ==
  watch.pc = "watch" /\ frames = <<>> /\ reading = NoSnapshot /\ ~mixed => watch.tun = session.tun
=============================================================================
