-------------------------------- MODULE Logs --------------------------------
(***************************************************************************)
(* tui.log: the interfaces that write and rotate it (logger.rs), those who *)
(* clear it (popups/general.rs, cli/commands/logs.rs, logfile.rs), and     *)
(* those who read along: `logs --follow` and the Logs tab (ui/logs.rs).    *)
(*                                                                         *)
(* A file is a sequence of records, numbered as they are written; a path   *)
(* names a file or none.  Every system call is a step, so that writers and *)
(* readers of different processes interleave between them.                 *)
(***************************************************************************)
EXTENDS Integers, Sequences

CONSTANTS
  Loggers,    \* for each reader (none, follow, tab), how many interfaces write beside it
  MaxSize,    \* records after which a logger rotates (10 MiB in the code)
  MaxLines,   \* records the tab keeps (500 in the code)
  MaxRecords, \* bound, for each reader: records ever written
  MaxClears   \* bound, for each reader: clearings, and failed renames and opens

ASSUME LogsAssumption ==
  MaxSize \in Nat /\ MaxLines \in Nat \ {0} /\ \A r \in DOMAIN Loggers : Loggers[r] \in Nat

VARIABLES
  files,   \* contents of all files ever created
  path,    \* tui.log, 0 when there is none
  backup,  \* tui.log.1
  logger,  \* the loggers: program point, file held open, bytes counted, degraded
  clearing,\* `logs clear` has truncated the log and not yet removed the backup
  reader,  \* the reader of a behaviour, "none" in some
  tail,    \* logs --follow
  tab,     \* the Logs tab
  recs,    \* records written so far
  mark,    \* history: the last record written before a clearing
  shared,  \* history: a file lost its name or was truncated while another logger writes it
  gap,     \* history: the log was rotated or truncated since the follower began
  slipped, \* history: the log was replaced while the tab reloaded it, or truncated and
           \* filled up again between two looks at it
  mishaps    \* clearings and failures so far

logVars == <<files, path, backup, logger, clearing, reader, tail, tab, recs, mark, shared, gap, slipped, mishaps>>

Ending(s, k) == SubSeq(s, (IF Len(s) > k THEN Len(s) - k ELSE 0) + 1, Len(s))
SizeOf(f) == IF f = 0 THEN 0 ELSE Len(files[f])
Newest(f) == files[f][SizeOf(f)]
NoLogger == [pc |-> "off", fd |-> 0, written |-> 0, degraded |-> FALSE]
NoTail == [pc |-> "off", fd |-> 0, pos |-> 0, from |-> 0, out |-> <<>>]
NewTab == [pc |-> "reload", fd |-> 0, pos |-> 0, lines |-> <<>>, id |-> 0, len |-> 0,
           dirty |-> FALSE, auto |-> TRUE, scroll |-> 0, odd |-> FALSE]

LogInit ==
  /\ files = <<<<>>>> /\ path = 1 /\ backup = 0
  /\ reader \in DOMAIN Loggers /\ tail = NoTail /\ tab = NewTab
  /\ logger = [w \in 1..Loggers[reader] |-> IF w = 1 THEN [NoLogger EXCEPT !.pc = "idle", !.fd = 1] ELSE NoLogger]
  /\ clearing = FALSE
  /\ recs = 0 /\ mark = 0 /\ shared = FALSE /\ gap = FALSE /\ slipped = FALSE /\ mishaps = 0

-----------------------------------------------------------------------------
(* The loggers.                                                            *)

Readers == <<reader, tail, tab>>
Fault == mishaps < MaxClears[reader] /\ mishaps' = mishaps + 1

\* open_log creates the file that is not there.
OpenLog ==
  IF path # 0 THEN UNCHANGED <<files, path>>
  ELSE path' = Len(files) + 1 /\ files' = Append(files, <<>>)

\* init_logger; its counter starts with the size of the file.
InitLogger(w) ==
  /\ logger[w].pc = "off"
  /\ OpenLog
  /\ logger' = [logger EXCEPT ![w] = [pc |-> "idle", fd |-> path', written |-> Len(files'[path']), degraded |-> FALSE]]
  /\ UNCHANGED <<backup, clearing, Readers, recs, mark, shared, gap, slipped, mishaps>>

\* After a rotation that could not create the new file, every write tries again.
Reopened(l, fails) ==
  IF l.degraded /\ ~fails
  THEN [l EXCEPT !.fd = IF path # 0 THEN path ELSE Len(files) + 1, !.written = SizeOf(path), !.degraded = FALSE]
  ELSE l

\* write_locked: reopen when degraded, append, and rotate when the counter says so.
WriteRecord(w) ==
  /\ logger[w].pc = "idle" /\ recs < MaxRecords[reader]
  /\ recs' = recs + 1
  /\ \E fails \in BOOLEAN :
       /\ IF fails THEN logger[w].degraded /\ Fault ELSE UNCHANGED mishaps
       /\ LET l == Reopened(logger[w], fails)
              made == IF l.fd > Len(files) THEN Append(files, <<>>) ELSE files
              full == l.written + 1 >= MaxSize /\ ~l.degraded IN
          /\ files' = [made EXCEPT ![l.fd] = Append(@, recs')]
          /\ path' = IF made # files THEN l.fd ELSE path
          /\ logger' = [logger EXCEPT ![w] = [l EXCEPT !.written = @ + 1, !.pc = IF full THEN "rename" ELSE "idle"]]
          /\ shared' = (shared \/ path' \notin {0, l.fd})
  /\ UNCHANGED <<backup, clearing, Readers, mark, gap, slipped>>

\* rotate: rename, which replaces an older backup and fails when there is no file ...
RotateRename(w) ==
  /\ logger[w].pc = "rename"
  /\ \/ /\ path # 0
        /\ backup' = path /\ path' = 0
        /\ logger' = [logger EXCEPT ![w].pc = "open"]
        /\ shared' = (shared \/ \E v \in DOMAIN logger \ {w} : logger[v].pc # "off")
        /\ gap' = TRUE /\ slipped' = (slipped \/ tab.pc \in {"open", "mark"})
        /\ UNCHANGED mishaps
     \/ /\ \/ path = 0 /\ UNCHANGED mishaps
           \/ path # 0 /\ Fault
        /\ logger' = [logger EXCEPT ![w].pc = "idle"]
        /\ UNCHANGED <<path, backup, shared, gap, slipped>>
  /\ UNCHANGED <<files, clearing, Readers, recs, mark>>

\* Mutant: a logger that goes on in the backup is not marked.
RotateOpenForgets(w) ==
  /\ logger[w].pc = "open"
  /\ \/ /\ OpenLog /\ UNCHANGED mishaps
        /\ logger' = [logger EXCEPT ![w] = [pc |-> "idle", fd |-> path', written |-> 0, degraded |-> FALSE]]
     \/ /\ Fault /\ UNCHANGED <<files, path>>
        /\ logger' = [logger EXCEPT ![w].pc = "idle"]
  /\ UNCHANGED <<backup, clearing, Readers, recs, mark, shared, gap, slipped>>

\* ... and a new file, or degraded.
RotateOpen(w) ==
  /\ logger[w].pc = "open"
  /\ \/ /\ OpenLog /\ UNCHANGED mishaps
        /\ logger' = [logger EXCEPT ![w] = [pc |-> "idle", fd |-> path', written |-> 0, degraded |-> FALSE]]
     \/ /\ Fault /\ UNCHANGED <<files, path>>
        /\ logger' = [logger EXCEPT ![w].pc = "idle", ![w].degraded = TRUE]
  /\ UNCHANGED <<backup, clearing, Readers, recs, mark, shared, gap, slipped>>

\* A panic while the lock is held appends to the path, without lock and counter.
EmergencyWrite(w) ==
  /\ logger[w].pc \in {"rename", "open"} /\ recs < MaxRecords[reader]
  /\ recs' = recs + 1
  /\ LET f == IF path # 0 THEN path ELSE Len(files) + 1
         made == IF path # 0 THEN files ELSE Append(files, <<>>) IN
       path' = f /\ files' = [made EXCEPT ![f] = Append(@, recs')]
  /\ UNCHANGED <<backup, logger, clearing, Readers, mark, shared, gap, slipped, mishaps>>

-----------------------------------------------------------------------------
(* Clearing: in the interface, which resets its counter and reloads the    *)
(* tab, and by `logs clear`, which truncates and then removes the backup.  *)

Truncated(f) == IF f = 0 THEN files ELSE [files EXCEPT ![f] = <<>>]

BackupInUse == \E w \in DOMAIN logger : logger[w].pc # "off" /\ logger[w].fd = backup

LoggerClear(w) ==
  /\ \E fails \in IF logger[w].degraded THEN BOOLEAN ELSE {FALSE} :
       LET l == Reopened(logger[w], fails)
           made == IF l.fd > Len(files) THEN Append(files, <<>>) ELSE files IN
       /\ files' = [made EXCEPT ![l.fd] = <<>>]
       /\ path' = IF made # files THEN l.fd ELSE path
       /\ logger' = [logger EXCEPT ![w] = [l EXCEPT !.written = 0]]
       /\ shared' = (shared \/ l.fd # path' \/ BackupInUse)
  /\ backup' = 0

\* The confirmation popup: the logger clears, the tab is loaded again.
ConfirmClearLogs(w) ==
  /\ logger[w].pc = "idle" /\ Fault /\ tab.pc \in {"idle", "reload"}
  /\ LoggerClear(w)
  /\ mark' = recs /\ gap' = TRUE
  /\ tab' = [tab EXCEPT !.pc = "reload", !.dirty = TRUE]
  /\ UNCHANGED <<clearing, reader, tail, recs, slipped>>

ClearTui ==
  /\ ~clearing /\ Fault
  /\ clearing' = TRUE
  /\ files' = Truncated(path)
  /\ mark' = recs /\ gap' = TRUE /\ tab' = [tab EXCEPT !.dirty = TRUE]
  /\ UNCHANGED <<path, backup, logger, reader, tail, recs, shared, slipped>>
RemoveBackup ==
  /\ clearing
  /\ clearing' = FALSE /\ backup' = 0
  /\ mark' = IF SizeOf(backup) > 0 /\ Newest(backup) > mark THEN Newest(backup) ELSE mark
  /\ shared' = (shared \/ BackupInUse)
  /\ UNCHANGED <<files, path, logger, Readers, recs, gap, slipped, mishaps>>

-----------------------------------------------------------------------------
(* logs --follow.                                                          *)

Writers == <<files, path, backup, logger, clearing, recs, mark, shared, mishaps>>
FollowStep(t) == tail' = t /\ UNCHANGED <<Writers, reader, tab, gap, slipped>>

\* read_tail: the lines to begin with and the place they end at.
ReadTail ==
  /\ reader = "follow" /\ tail.pc = "off" /\ path # 0
  /\ LET shown == Ending(files[path], 1) IN
       tail' = [NoTail EXCEPT !.pc = "open", !.pos = SizeOf(path), !.from = SizeOf(path) - Len(shown), !.out = shown]
  /\ gap' = FALSE
  /\ UNCHANGED <<Writers, reader, tab, slipped>>

\* Mutant: the file is read again from its start.
OpenAtStart ==
  /\ tail.pc = "open"
  /\ FollowStep(IF path = 0 THEN NoTail ELSE [tail EXCEPT !.pc = "stat", !.fd = path, !.pos = 0])

\* Tail::open_at; without a file the command ends.
OpenAt ==
  /\ tail.pc = "open"
  /\ FollowStep(IF path = 0 THEN NoTail
                ELSE [tail EXCEPT !.pc = "stat", !.fd = path, !.pos = IF @ > SizeOf(path) THEN SizeOf(path) ELSE @])

\* Tail::poll: look at the path, open it again when it is another or a shorter file, and
\* read on.
TailStat ==
  /\ tail.pc = "stat"
  /\ FollowStep([tail EXCEPT !.pc = IF path # tail.fd \/ SizeOf(path) < tail.pos THEN "reopen" ELSE "read"])
TailReopen ==
  /\ tail.pc = "reopen"
  /\ FollowStep(IF path = 0 THEN [tail EXCEPT !.pc = "stat"]
                ELSE [tail EXCEPT !.pc = "read", !.fd = path, !.pos = 0])
TailRead ==
  /\ tail.pc = "read"
  /\ LET n == SizeOf(tail.fd) IN
     FollowStep([tail EXCEPT !.pc = "stat", !.out = @ \o SubSeq(files[tail.fd], tail.pos + 1, n),
                             !.pos = IF n > @ THEN n ELSE @])

-----------------------------------------------------------------------------
(* The Logs tab.  Drawing brings the scroll position into range.           *)

IsOdd(r) == r % 2 = 1
Filtered(t) == IF t.odd THEN SelectSeq(t.lines, IsOdd) ELSE t.lines
MaxScroll(t) == IF Len(Filtered(t)) > 1 THEN Len(Filtered(t)) - 1 ELSE 0
Drawn(t) ==
  IF t.pc = "idle" /\ Filtered(t) # <<>> /\ t.scroll > MaxScroll(t) THEN [t EXCEPT !.scroll = MaxScroll(t)] ELSE t
AtEnd(t) == IF t.auto THEN [t EXCEPT !.scroll = MaxScroll(t)] ELSE t
TabStep(t) == reader = "tab" /\ tab' = Drawn(t) /\ UNCHANGED <<Writers, reader, tail, gap>>

\* read_log_file: the tail of the file, or a line that says there is none (record 0), then
\* the file again to read on from there.
Lines(f) == IF f = 0 \/ SizeOf(f) = 0 THEN <<0>> ELSE Ending(files[f], MaxLines)
ReadLogFile(from, to) ==
  /\ tab.pc = from
  /\ LET read == [tab EXCEPT !.lines = Lines(path), !.dirty = FALSE] IN
     TabStep(IF path = 0 THEN AtEnd([read EXCEPT !.pc = to, !.fd = 0])
             ELSE [read EXCEPT !.pc = IF from = "reload" THEN "open" ELSE "reopen", !.pos = SizeOf(path)])
  /\ UNCHANGED slipped

\* LogsState::new and reload: which file this was is looked up afterwards.
ReloadOpen ==
  /\ tab.pc = "open"
  /\ TabStep([tab EXCEPT !.pc = "mark", !.fd = path]) /\ UNCHANGED slipped
ReloadMark ==
  /\ tab.pc = "mark"
  /\ TabStep(AtEnd([tab EXCEPT !.pc = "idle", !.id = path, !.len = SizeOf(path), !.auto = TRUE]))
  /\ slipped' = (slipped \/ tab.dirty)

\* Mutant: a file that got shorter is read on.
PollStatIgnoresSize ==
  /\ tab.pc = "idle"
  /\ LET again == (path # 0 /\ path # tab.id) \/ tab.fd = 0 IN
     TabStep(IF again /\ path = 0 /\ tab.fd = 0 THEN tab
             ELSE [tab EXCEPT !.pc = IF again THEN "again" ELSE "more", !.id = IF again THEN path ELSE @,
                              !.len = SizeOf(path), !.dirty = FALSE])
  /\ slipped' = (slipped \/ (tab.dirty /\ path = tab.id /\ SizeOf(path) >= tab.len))

\* poll: the file is looked up first, read again when it is another or a shorter one, and
\* read on otherwise.
PollStat ==
  /\ tab.pc = "idle"
  /\ LET again == (path # 0 /\ path # tab.id) \/ SizeOf(path) < tab.len \/ tab.fd = 0 IN
     TabStep(IF again /\ path = 0 /\ tab.fd = 0 THEN tab
             ELSE [tab EXCEPT !.pc = IF again THEN "again" ELSE "more", !.id = IF again THEN path ELSE @,
                              !.len = SizeOf(path), !.dirty = FALSE])
  /\ slipped' = (slipped \/ (tab.dirty /\ path = tab.id /\ SizeOf(path) >= tab.len))
PollReopen ==
  /\ tab.pc = "reopen"
  /\ TabStep(AtEnd([tab EXCEPT !.pc = "idle", !.fd = path])) /\ UNCHANGED slipped
ReadOn(t) ==
  LET n == SizeOf(t.fd)
      new == SubSeq(files[t.fd], t.pos + 1, n) IN
  [t EXCEPT !.pc = "idle", !.pos = IF n > @ THEN n ELSE @,
            !.lines = Ending(IF @ = <<0>> /\ new # <<>> THEN new ELSE @ \o new, MaxLines)]
PollMore == tab.pc = "more" /\ TabStep(AtEnd(ReadOn(tab))) /\ UNCHANGED slipped

\* Scrolling up stops the automatic scrolling, reaching the end resumes it; the level
\* filter, and the search, jump to the end.
Scroll ==
  LET max == MaxScroll(tab)
      down == IF tab.scroll < max THEN tab.scroll + 1 ELSE tab.scroll IN
  /\ tab.pc = "idle"
  /\ \/ TabStep([tab EXCEPT !.scroll = down, !.auto = @ \/ down >= max])
     \/ TabStep([tab EXCEPT !.scroll = IF @ > 0 THEN @ - 1 ELSE 0, !.auto = FALSE])
     \/ TabStep([tab EXCEPT !.scroll = 0, !.auto = FALSE])
     \/ TabStep([tab EXCEPT !.scroll = max, !.auto = TRUE])
  /\ UNCHANGED slipped
CycleFilter ==
  /\ tab.pc = "idle"
  /\ TabStep(AtEnd([tab EXCEPT !.odd = ~@, !.auto = TRUE])) /\ UNCHANGED slipped
\* cycle_source: to core.log and back again, which only leaves the reload.
CycleSource == tab.pc = "idle" /\ TabStep([tab EXCEPT !.pc = "reload"]) /\ UNCHANGED slipped

LogNext ==
  \/ \E w \in DOMAIN logger : \/ InitLogger(w) \/ WriteRecord(w) \/ RotateRename(w) \/ RotateOpen(w)
                        \/ EmergencyWrite(w) \/ ConfirmClearLogs(w)
  \/ ClearTui \/ RemoveBackup
  \/ ReadTail \/ OpenAt \/ TailStat \/ TailReopen \/ TailRead
  \/ ReadLogFile("reload", "mark") \/ ReadLogFile("again", "idle")
  \/ ReloadOpen \/ ReloadMark \/ PollStat \/ PollReopen \/ PollMore
  \/ Scroll \/ CycleFilter \/ CycleSource
LogSpec == LogInit /\ [][LogNext]_logVars

-----------------------------------------------------------------------------
(* Properties.                                                             *)

OnDisk == UNION {{files[f][i] : i \in DOMAIN files[f]} : f \in {path, backup} \ {0}}

\* The newest records, as many as fit into one file, are in tui.log or its backup, unless
\* they were cleared: through failed renames and reopens, panics during a rotation and a
\* truncation by another process.  Left out is what follows when a rotation or `logs clear`
\* takes the name of a file that another logger, or a degraded one, goes on writing to.
NewestKept ==
  shared \/ \A r \in 1..recs : r > recs - MaxSize /\ r > mark => r \in OnDisk

\* logs --follow prints no record twice, over rotations, truncations and its own start
\* between reading the tail and opening the file (the comment in `run`), and until the log
\* is rotated or truncated it prints every record from where it began.
FollowExact ==
  /\ \A i, j \in DOMAIN tail.out : i # j => tail.out[i] # tail.out[j]
  /\ tail.pc \in {"stat", "read", "reopen"} /\ ~gap =>
       tail.out = SubSeq(files[tail.fd], tail.from + 1, tail.pos)

\* When a poll of the tab would find nothing to do, the tab holds the end of the log,
\* whatever was rotated or truncated between the system calls of the polls before.
TabSettled == tab.pc = "idle" /\ tab.fd # 0 /\ SizeOf(tab.fd) <= tab.pos /\ tab.id = path /\ tab.len = SizeOf(path)
TabShowsLog == ~slipped /\ ~tab.dirty /\ path # 0 /\ TabSettled => tab.lines = Lines(path)

=============================================================================
