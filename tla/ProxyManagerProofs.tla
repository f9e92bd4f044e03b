-------------------------- MODULE ProxyManagerProofs --------------------------
(***************************************************************************)
(* Proofs about ProxyManager, for any servers, groups, port range and      *)
(* number of cores.                                                        *)
(***************************************************************************)
EXTENDS ProxyManager, PortPoolProofs

\* A core runs exactly while its process was neither stopped nor reaped, only
\* the current core does, and nothing has touched the cores yet to be made.
CoreInv ==
  /\ \A c \in CoreIds : xray[c].running <=> xray[c].proc \in {"alive", "dead"}
  /\ \A c \in CoreIds : xray[c].running => c = core
  /\ \A c \in CoreIds : xray[c].running => xray[c].exited = "open"
  /\ \A c \in CoreIds : c > core => xray[c] = FreshCore /\ c \notin closed
  /\ ~xray[0].running
  /\ watchGen <= core

\* What holds while a section is in the middle of its work.
SectionInv ==
  /\ pc \in {"c_retire", "c_start", "r_start"} => ~xray[core].running
  /\ pc \in {"c_retire", "c_start", "r_stop", "r_start"} => core < MaxCores
  /\ pc \in {"c_start", "c_commit", "r_stop", "r_start", "r_commit", "s_stop"}
       => watchGen = 0
  /\ pc \in {"c_commit", "r_commit"} => core \in Cores /\ core \notin closed
  /\ pc \in {"r_stop", "r_start", "r_commit"} => status.connection = "connected"

\* An exit value, posted or in the hands of a watcher, comes from a crash.
ReportInv ==
  /\ \A c \in CoreIds : xray[c].exited = "value" => c \in crashed
  /\ \A w \in Cores : watcher[w].at \in {"check", "lock", "notify"}
                        => watcher[w].on \in crashed
  /\ reported \subseteq crashed

\* The IPs of the section under way and of the connection match their profile.
IPInv ==
  /\ pc \in {"c_retire", "c_start", "c_commit"} => arg.profile \in Profiles
  /\ pc = "c_commit" => arg.ips \in {arg.profile[1], NoProfile}
  /\ pc = "c_start" => arg.ips \in {arg.profile[1], NoProfile}
  /\ status.connection = "connected" =>
       status.profile \in Profiles /\ proxyIPs \in {status.profile[1], NoProfile}

\* The inductive invariant.
IInv ==
  /\ TypeOK
  /\ CoreInv
  /\ SectionInv
  /\ ReportInv
  /\ IPInv
  /\ DisconnectedMeansStopped
  /\ ConnectedIsWatched

-------------------------------------------------------------------------------
(* Facts about the values the actions assign *)

\* The records the actions assign have their types.
LEMMA ConstantValues ==
  /\ Disconnected \in Status /\ Disconnected.connection = "disconnected"
  /\ Dropped \in Status /\ Dropped.connection = "disconnected" /\ Dropped # Disconnected
  /\ NoArgs \in Args /\ NoArgs.profile = NoProfile /\ NoArgs.ips = NoProfile
  /\ FreshCore \in XrayCore /\ ~FreshCore.running
  /\ FreshCore.proc = "none" /\ FreshCore.exited = "open"
  BY DEF Disconnected, Dropped, NoArgs, FreshCore, Status, Args, XrayCore, Procs, Channels

\* A "connected" status carries the profile it was made for.
LEMMA ConnectedValue ==
  ASSUME NEW p \in Profiles
  PROVE  /\ Connected(p) \in Status
         /\ Connected(p).connection = "connected"
         /\ Connected(p).profile = p
         /\ Connected(p) # Disconnected
  BY DEF Connected, Disconnected, Status

\* A started core runs and has posted no exit.
LEMMA StartedValue ==
  ASSUME NEW port \in {0} \cup Ports
  PROVE  /\ StartedCore(port) \in XrayCore
         /\ StartedCore(port).running
         /\ StartedCore(port).proc = "alive"
         /\ StartedCore(port).exited = "open"
  BY DEF StartedCore, XrayCore, Procs, Channels

\* Stop leaves a core that neither runs nor gained an exit value.
LEMMA StoppedValue ==
  ASSUME NEW x \in XrayCore, NEW o \in StopOutcomes
  PROVE  /\ StoppedCore(x, o) \in XrayCore
         /\ ~StoppedCore(x, o).running
         /\ StoppedCore(x, o).proc \notin {"alive", "dead"}
         /\ StoppedCore(x, o).exited = "value" => x.exited = "value"
  BY DEF StoppedCore, StopOutcomes, XrayCore, Procs, Channels

\* Every call on the pool returns a pool, and a port of the range or none.
LEMMA PortValues ==
  ASSUME pool \in Pool
  PROVE  /\ ApiPort \in {0} \cup Ports
         /\ GetPort(pool) \in Pool
         /\ \A port \in {0} \cup Ports : ReleasePort(pool, port) \in Pool
<1>1. ApiPort \in {0} \cup Ports
  BY GrantedPortIsFree DEF ApiPort
<1>2. 0 \in Int /\ Ports \subseteq Int
  BY RangeAssumption DEF Ports
<1>3. GetPort(pool) \in Pool
  BY <1>2, PoolStaysTyped
<1>4. ASSUME NEW port \in {0} \cup Ports PROVE ReleasePort(pool, port) \in Pool
  BY <1>2, PoolStaysTyped
<1> QED
  BY <1>1, <1>3, <1>4

\* Stopping p.core leaves every other core as it was.
LEMMA StopCoreStep ==
  ASSUME TypeOK, NEW o \in StopOutcomes, StopCore(o)
  PROVE  /\ xray' \in [CoreIds -> XrayCore]
         /\ ~xray'[core].running
         /\ xray'[core].proc \notin {"alive", "dead"}
         /\ xray'[core].exited = "value" => xray[core].exited = "value"
         /\ \A c \in CoreIds \ {core} : xray'[c] = xray[c]
<1>1. core \in CoreIds /\ xray \in [CoreIds -> XrayCore] /\ xray[core] \in XrayCore
  BY DEF TypeOK
<1>2. xray' = [xray EXCEPT ![core] = StoppedCore(xray[core], o)]
  BY DEF StopCore
<1> QED
  BY <1>1, <1>2, StoppedValue

\* Starting a new core leaves every other core as it was.
LEMMA StartStep ==
  ASSUME TypeOK, core < MaxCores, NEW port \in {0} \cup Ports,
         xray' = [xray EXCEPT ![core + 1] = StartedCore(port)]
  PROVE  /\ xray' \in [CoreIds -> XrayCore]
         /\ xray'[core + 1].running
         /\ xray'[core + 1].proc = "alive"
         /\ xray'[core + 1].exited = "open"
         /\ \A c \in CoreIds \ {core + 1} : xray'[c] = xray[c]
<1>1. core + 1 \in CoreIds /\ xray \in [CoreIds -> XrayCore]
  BY ManagerAssumption DEF TypeOK, CoreIds
<1> QED
  BY <1>1, StartedValue

\* Retiring closes the done channel of the current watcher only.
LEMMA RetireStep ==
  ASSUME TypeOK, RetireExitWatcher
  PROVE  /\ closed' \subseteq Cores
         /\ watchGen' = 0 /\ 0 \in CoreIds
         /\ watchStopping' \in BOOLEAN
         /\ closed \subseteq closed' /\ closed' \subseteq closed \cup {watchGen}
  BY ManagerAssumption DEF TypeOK, RetireExitWatcher, CoreIds, Cores

-------------------------------------------------------------------------------
(* The invariant is inductive *)

\* The manager starts in the invariant.
LEMMA InitIInv == Init => IInv
<1> SUFFICES ASSUME Init PROVE IInv
  OBVIOUS
<1>1. CreatePortPool \in Pool
  BY RangeAssumption DEF CreatePortPool, Pool, Ports
<1>2. TypeOK
  <2>1. core \in CoreIds /\ watchGen \in CoreIds /\ collector \in CoreIds
    BY ManagerAssumption DEF Init, CoreIds
  <2>2. xray \in [CoreIds -> XrayCore] /\ status \in Status /\ event \in Status /\ arg \in Args
    BY ConstantValues DEF Init
  <2>3. watcher \in [Cores -> Watcher]
    BY ManagerAssumption DEF Init, Watcher, CoreIds
  <2> QED
    BY <1>1, <2>1, <2>2, <2>3 DEF Init, TypeOK, Sections
<1>3. CoreInv /\ SectionInv
  BY ConstantValues, ManagerAssumption DEF Init, CoreInv, SectionInv, CoreIds
<1>4. ReportInv
  BY ConstantValues DEF Init, ReportInv, CoreIds, Cores
<1>5. IPInv /\ DisconnectedMeansStopped /\ ConnectedIsWatched
  BY ConstantValues, ManagerAssumption
  DEF Init, IPInv, DisconnectedMeansStopped, ConnectedIsWatched, CoreIds
<1> QED
  BY <1>2, <1>3, <1>4, <1>5 DEF IInv

\* Connect stops the running core before anything else.
LEMMA ConnectLockKeeps ==
  ASSUME IInv, NEW p \in Profiles, NEW tun \in BOOLEAN, ConnectLock(p, tun)
  PROVE  IInv'
<1> USE ManagerAssumption DEF coreVars, watchVars, portVars, lockVars, infoVars
<1>1. TypeOK /\ CoreInv
  BY DEF IInv
<1>2. /\ xray' \in [CoreIds -> XrayCore]
      /\ ~xray'[core].running /\ xray'[core].proc \notin {"alive", "dead"}
      /\ xray'[core].exited = "value" => xray[core].exited = "value"
      /\ \A c \in CoreIds \ {core} : xray'[c] = xray[c]
  <2>1. CASE xray[core].running
    BY <1>1, <2>1, StopCoreStep DEF ConnectLock
  <2>2. CASE ~xray[core].running
    BY <1>1, <2>2 DEF ConnectLock, TypeOK, CoreInv
  <2> QED
    BY <2>1, <2>2
<1>3. arg' \in Args /\ arg'.profile = p /\ pc' = "c_retire"
  BY DEF ConnectLock, NoArgs, Args
<1>4. TypeOK'
  BY <1>1, <1>2, <1>3 DEF ConnectLock, IInv, TypeOK, Sections
<1>5. CoreInv'
  <2>1. UNCHANGED <<core, closed, watchGen>> /\ core \in CoreIds /\ core < MaxCores
    BY <1>1 DEF ConnectLock, watchVars, TypeOK
  <2>2. \A c \in CoreIds : c > core => xray'[c] = xray[c]
    BY <1>2, <2>1 DEF CoreIds
  <2> QED
    BY <1>1, <1>2, <2>1, <2>2 DEF CoreInv, CoreIds
<1>6. SectionInv'
  BY <1>1, <1>2, <1>3 DEF ConnectLock, IInv, SectionInv
<1>7. ReportInv'
  BY <1>1, <1>2, <1>3 DEF ConnectLock, IInv, ReportInv
<1>8. IPInv'
  BY <1>1, <1>2, <1>3 DEF ConnectLock, IInv, IPInv
<1>9. DisconnectedMeansStopped'
  BY <1>1, <1>2, <1>3 DEF ConnectLock, IInv, DisconnectedMeansStopped
<1>10. ConnectedIsWatched'
  BY <1>1, <1>2, <1>3 DEF ConnectLock, IInv, ConnectedIsWatched
<1> QED
  BY <1>4, <1>5, <1>6, <1>7, <1>8, <1>9, <1>10 DEF IInv

\* Retiring leaves no current watcher while Connect prepares the next core.
LEMMA ConnectRetireKeeps ==
  ASSUME IInv, ConnectRetire
  PROVE  IInv'
<1> USE ManagerAssumption DEF coreVars, watchVars, portVars, lockVars, infoVars
<1>1. TypeOK /\ IPInv /\ pc = "c_retire"
  BY DEF IInv, ConnectRetire
<1>2. pool' \in Pool /\ ApiPort \in {0} \cup Ports
  BY <1>1, PortValues DEF ConnectRetire, TypeOK
<1>3. /\ arg' \in Args
      /\ arg'.profile = arg.profile
      /\ arg'.ips \in {arg.profile[1], NoProfile}
  BY <1>1, <1>2 DEF ConnectRetire, TypeOK, IPInv, Args, Profiles
<1>4. TypeOK'
  BY <1>1, <1>2, <1>3, ConstantValues
  DEF ConnectRetire, RetireExitWatcher, SetStatus, IInv, TypeOK, CoreIds, Cores,
      Sections
<1>5. CoreInv'
  BY <1>1, <1>2, <1>3, ConstantValues
  DEF ConnectRetire, RetireExitWatcher, SetStatus, IInv, CoreInv, TypeOK, CoreIds, Cores
<1>6. SectionInv'
  BY <1>1, <1>2, <1>3 DEF ConnectRetire, RetireExitWatcher, SetStatus, IInv, SectionInv
<1>7. ReportInv'
  BY <1>1, <1>2, <1>3 DEF ConnectRetire, IInv, ReportInv
<1>8. IPInv'
  BY <1>1, <1>2, <1>3, ConstantValues
  DEF ConnectRetire, RetireExitWatcher, SetStatus, IInv, IPInv
<1>9. DisconnectedMeansStopped'
  BY <1>1, <1>2, <1>3 DEF ConnectRetire, IInv, DisconnectedMeansStopped
<1>10. ConnectedIsWatched'
  BY <1>1, <1>2, <1>3 DEF ConnectRetire, IInv, ConnectedIsWatched
<1> QED
  BY <1>4, <1>5, <1>6, <1>7, <1>8, <1>9, <1>10 DEF IInv

\* A refused Connect leaves a stopped, unwatched manager.
LEMMA ConnectRefusedKeeps ==
  ASSUME IInv, ConnectRefused
  PROVE  IInv'
<1> USE ManagerAssumption DEF coreVars, watchVars, portVars, lockVars, infoVars
<1>1. TypeOK
  BY DEF IInv
<1>2. pool' \in Pool
  BY <1>1, PortValues DEF ConnectRefused, TypeOK, Args
<1>3. TypeOK'
  BY <1>1, <1>2, ConstantValues DEF ConnectRefused, Unlock, IInv, TypeOK, Sections
<1>4. CoreInv'
  BY <1>1, <1>2 DEF ConnectRefused, IInv, CoreInv
<1>5. SectionInv'
  BY <1>1, <1>2 DEF ConnectRefused, Unlock, IInv, SectionInv
<1>6. ReportInv'
  BY <1>1, <1>2 DEF ConnectRefused, IInv, ReportInv
<1>7. IPInv'
  BY <1>1, <1>2 DEF ConnectRefused, Unlock, IInv, IPInv
<1>8. DisconnectedMeansStopped'
  BY <1>1, <1>2, ConstantValues
  DEF ConnectRefused, Unlock, IInv, DisconnectedMeansStopped, TypeOK, SectionInv,
      CoreInv, CoreIds, Cores
<1>9. ConnectedIsWatched'
  BY <1>1, <1>2, ConstantValues
  DEF ConnectRefused, Unlock, IInv, ConnectedIsWatched, TypeOK, SectionInv, CoreInv,
      CoreIds, Cores
<1> QED
  BY <1>3, <1>4, <1>5, <1>6, <1>7, <1>8, <1>9 DEF IInv

\* The new core is the only one that runs: the old one was stopped in ConnectLock.
LEMMA ConnectStartKeeps ==
  ASSUME IInv, ConnectStart
  PROVE  IInv'
<1> USE ManagerAssumption DEF coreVars, watchVars, portVars, lockVars, infoVars
<1>1. TypeOK /\ SectionInv /\ pc = "c_start" /\ core < MaxCores
  BY DEF IInv, ConnectStart, SectionInv
<1>2. \/ /\ xray' \in [CoreIds -> XrayCore] /\ xray'[core + 1].running
         /\ xray'[core + 1].proc = "alive" /\ xray'[core + 1].exited = "open"
         /\ \A c \in CoreIds \ {core + 1} : xray'[c] = xray[c]
         /\ pc' = "c_commit" /\ UNCHANGED <<arg, status, event>>
      \/ UNCHANGED xray /\ Unlock /\ UNCHANGED <<status, event>>
  BY <1>1, StartStep DEF ConnectStart, TypeOK, Args, infoVars
<1>3. TypeOK'
  BY <1>1, <1>2, ConstantValues
  DEF ConnectStart, Unlock, IInv, TypeOK, CoreIds, Cores, Sections
<1>4. CoreInv'
  BY <1>1, <1>2, ConstantValues
  DEF ConnectStart, Unlock, IInv, CoreInv, TypeOK, SectionInv, CoreIds, Cores
<1>5. SectionInv'
  BY <1>1, <1>2, ConstantValues
  DEF ConnectStart, Unlock, IInv, SectionInv, TypeOK, CoreInv, CoreIds, Cores
<1>6. ReportInv'
  BY <1>1, <1>2 DEF ConnectStart, IInv, ReportInv
<1>7. IPInv'
  BY <1>1, <1>2 DEF ConnectStart, Unlock, IInv, IPInv
<1>8. DisconnectedMeansStopped'
  BY <1>1, <1>2, ConstantValues
  DEF ConnectStart, Unlock, IInv, DisconnectedMeansStopped, TypeOK, SectionInv, CoreInv,
      CoreIds, Cores
<1>9. ConnectedIsWatched'
  BY <1>1, <1>2, ConstantValues
  DEF ConnectStart, Unlock, IInv, ConnectedIsWatched, TypeOK, SectionInv, CoreInv,
      CoreIds, Cores
<1> QED
  BY <1>3, <1>4, <1>5, <1>6, <1>7, <1>8, <1>9 DEF IInv

\* The commit hands the running core to a watcher of its own.
LEMMA ConnectCommitKeeps ==
  ASSUME IInv, ConnectCommit
  PROVE  IInv'
<1> USE ManagerAssumption DEF coreVars, watchVars, portVars, lockVars, infoVars
<1>1. TypeOK /\ SectionInv /\ IPInv /\ pc = "c_commit"
  BY DEF IInv, ConnectCommit
<1>2. pool' \in Pool
  BY <1>1, PortValues DEF ConnectCommit, TypeOK
<1>3. /\ arg.profile \in Profiles
      /\ arg.ips \in {arg.profile[1], NoProfile}
      /\ arg.apiPort \in {0} \cup Ports
      /\ arg.ips \in Servers \cup {NoProfile}
  BY <1>1 DEF TypeOK, IPInv, Args
<1>4. /\ status' \in Status
      /\ status'.connection = "connected"
      /\ status'.profile = arg.profile
      /\ status' # Disconnected
  BY <1>3, ConnectedValue DEF ConnectCommit, SetStatus
<1>5. /\ watcher' \in [Cores -> Watcher] /\ watcher'[core].at = "loop"
      /\ \A w \in Cores \ {core} : watcher'[w] = watcher[w]
  BY <1>1 DEF ConnectCommit, StartExitWatcher, TypeOK, SectionInv, Watcher, CoreIds
<1>6. TypeOK'
  BY <1>1, <1>2, <1>3, <1>4, <1>5, ConstantValues
  DEF ConnectCommit, SetStatus, StartExitWatcher, Unlock, IInv, TypeOK, Sections
<1>7. CoreInv'
  BY <1>1, <1>2, <1>3, <1>4, <1>5, ConstantValues
  DEF ConnectCommit, SetStatus, StartExitWatcher, Unlock, IInv, CoreInv, TypeOK,
      CoreIds, Cores
<1>8. SectionInv'
  BY <1>1, <1>2, <1>3, <1>4, <1>5
  DEF ConnectCommit, SetStatus, StartExitWatcher, Unlock, IInv, SectionInv
<1>9. ReportInv'
  BY <1>1, <1>2, <1>3, <1>4, <1>5 DEF ConnectCommit, IInv, ReportInv
<1>10. IPInv'
  BY <1>1, <1>2, <1>3, <1>4, <1>5
  DEF ConnectCommit, SetStatus, StartExitWatcher, Unlock, IInv, IPInv
<1>11. DisconnectedMeansStopped'
  BY <1>1, <1>2, <1>3, <1>4, <1>5 DEF ConnectCommit, IInv, DisconnectedMeansStopped
<1>12. ConnectedIsWatched'
  BY <1>1, <1>2, <1>3, <1>4, <1>5, ConstantValues
  DEF ConnectCommit, SetStatus, StartExitWatcher, Unlock, IInv, ConnectedIsWatched,
      TypeOK, SectionInv, CoreInv, CoreIds, Cores
<1> QED
  BY <1>6, <1>7, <1>8, <1>9, <1>10, <1>11, <1>12 DEF IInv

\* A reload either leaves the running core alone or retires its watcher.
LEMMA ReloadCheckKeeps ==
  ASSUME IInv, Reloadable, ReloadCheck, pc = "free", tunEnabled' \in BOOLEAN
  PROVE  IInv'
<1> USE ManagerAssumption DEF coreVars, watchVars, portVars, lockVars, infoVars
<1>1. TypeOK
  BY DEF IInv
<1>2. /\ pool' \in Pool
      /\ \/ UNCHANGED <<watchStopping, closed, watchGen, pc, arg>>
         \/ /\ core < MaxCores /\ closed' \subseteq Cores /\ closed' \subseteq closed \cup {watchGen}
            /\ watchGen' = 0 /\ watchStopping' \in BOOLEAN /\ pc' = "r_stop" /\ arg' \in Args
  <2>1. pool' \in Pool /\ ReloadPort \in {0} \cup Ports
    BY <1>1, PortValues DEF ReloadCheck, TypeOK, ReloadPort
  <2> QED
    BY <1>1, <2>1, RetireStep DEF ReloadCheck, NoArgs, Args
<1>3. TypeOK'
  BY <1>1, <1>2, ConstantValues
  DEF ReloadCheck, Reloadable, IInv, TypeOK, CoreIds, Cores, Sections
<1>4. CoreInv'
  BY <1>1, <1>2, ConstantValues
  DEF ReloadCheck, Reloadable, IInv, CoreInv, TypeOK, CoreIds, Cores
<1>5. SectionInv'
  BY <1>1, <1>2 DEF ReloadCheck, Reloadable, IInv, SectionInv
<1>6. ReportInv'
  BY <1>1, <1>2 DEF ReloadCheck, IInv, ReportInv
<1>7. IPInv'
  BY <1>1, <1>2 DEF ReloadCheck, IInv, IPInv
<1>8. DisconnectedMeansStopped'
  BY <1>1, <1>2 DEF ReloadCheck, IInv, DisconnectedMeansStopped
<1>9. ConnectedIsWatched'
  BY <1>1, <1>2 DEF ReloadCheck, IInv, ConnectedIsWatched
<1> QED
  BY <1>3, <1>4, <1>5, <1>6, <1>7, <1>8, <1>9 DEF IInv

\* SetTunMode either reloads or only records the flag.
LEMMA SetTunModeKeeps ==
  ASSUME IInv, NEW tun \in BOOLEAN, SetTunMode(tun)
  PROVE  IInv'
<1>1. CASE Reloadable
  BY <1>1, ReloadCheckKeeps DEF SetTunMode
<1>2. CASE ~Reloadable
  <2>1. UNCHANGED <<core, xray, crashed, watcher, closed, watchGen, watchStopping,
          discarded, statsApiPort, collector, pool, tests, pc, arg, status,
          event, proxyIPs, reported>> /\ tunEnabled' \in BOOLEAN
    BY <1>2 DEF SetTunMode, coreVars, watchVars, portVars, lockVars
  <2> QED
    BY <2>1 DEF IInv, TypeOK, CoreInv, SectionInv, ReportInv, IPInv, DisconnectedMeansStopped,
                ConnectedIsWatched
<1> QED
  BY <1>1, <1>2

\* ReloadRouting is a reload.
LEMMA ReloadRoutingKeeps ==
  ASSUME IInv, ReloadRouting
  PROVE  IInv'
  BY ReloadCheckKeeps DEF ReloadRouting, IInv, TypeOK

\* A reload stops the old core before it starts the new one.
LEMMA ReloadStopKeeps ==
  ASSUME IInv, ReloadStop
  PROVE  IInv'
<1> USE ManagerAssumption DEF coreVars, watchVars, portVars, lockVars, infoVars
<1>1. TypeOK
  BY DEF IInv
<1>2. /\ xray' \in [CoreIds -> XrayCore]
      /\ ~xray'[core].running /\ xray'[core].proc \notin {"alive", "dead"}
      /\ xray'[core].exited = "value" => xray[core].exited = "value"
      /\ \A c \in CoreIds \ {core} : xray'[c] = xray[c]
  BY <1>1, StopCoreStep DEF ReloadStop
<1>3. TypeOK'
  BY <1>1, <1>2 DEF ReloadStop, IInv, TypeOK, Sections
<1>4. CoreInv'
  BY <1>1, <1>2 DEF ReloadStop, IInv, CoreInv, TypeOK, CoreIds, Cores
<1>5. SectionInv'
  BY <1>1, <1>2 DEF ReloadStop, IInv, SectionInv
<1>6. ReportInv'
  BY <1>1, <1>2 DEF ReloadStop, IInv, ReportInv
<1>7. IPInv'
  BY <1>1, <1>2 DEF ReloadStop, IInv, IPInv
<1>8. DisconnectedMeansStopped'
  BY <1>1, <1>2 DEF ReloadStop, IInv, DisconnectedMeansStopped
<1>9. ConnectedIsWatched'
  BY <1>1, <1>2 DEF ReloadStop, IInv, ConnectedIsWatched
<1> QED
  BY <1>3, <1>4, <1>5, <1>6, <1>7, <1>8, <1>9 DEF IInv

\* A reload that cannot start the new core ends disconnected.
LEMMA ReloadStartKeeps ==
  ASSUME IInv, ReloadStart
  PROVE  IInv'
<1> USE ManagerAssumption DEF coreVars, watchVars, portVars, lockVars, infoVars
<1>1. TypeOK /\ SectionInv /\ pc = "r_start" /\ core < MaxCores
  BY DEF IInv, ReloadStart, SectionInv
<1>2. \/ /\ xray' \in [CoreIds -> XrayCore] /\ xray'[core + 1].running
         /\ xray'[core + 1].proc = "alive" /\ xray'[core + 1].exited = "open"
         /\ \A c \in CoreIds \ {core + 1} : xray'[c] = xray[c]
         /\ pc' = "r_commit" /\ UNCHANGED <<arg, status, event>>
      \/ UNCHANGED xray /\ Unlock /\ SetStatus(Disconnected)
  BY <1>1, StartStep DEF ReloadStart, TypeOK, Args
<1>3. TypeOK'
  BY <1>1, <1>2, ConstantValues
  DEF ReloadStart, Unlock, SetStatus, IInv, TypeOK, CoreIds, Cores, Sections
<1>4. CoreInv'
  BY <1>1, <1>2, ConstantValues
  DEF ReloadStart, Unlock, SetStatus, IInv, CoreInv, TypeOK, SectionInv, CoreIds, Cores
<1>5. SectionInv'
  BY <1>1, <1>2, ConstantValues
  DEF ReloadStart, Unlock, SetStatus, IInv, SectionInv, TypeOK, CoreInv, CoreIds, Cores
<1>6. ReportInv'
  BY <1>1, <1>2 DEF ReloadStart, IInv, ReportInv
<1>7. IPInv'
  BY <1>1, <1>2, ConstantValues DEF ReloadStart, Unlock, SetStatus, IInv, IPInv
<1>8. DisconnectedMeansStopped'
  BY <1>1, <1>2, ConstantValues
  DEF ReloadStart, Unlock, SetStatus, IInv, DisconnectedMeansStopped, TypeOK,
      SectionInv, CoreInv, CoreIds, Cores
<1>9. ConnectedIsWatched'
  BY <1>1, <1>2, ConstantValues DEF ReloadStart, Unlock, SetStatus, IInv, ConnectedIsWatched
<1> QED
  BY <1>3, <1>4, <1>5, <1>6, <1>7, <1>8, <1>9 DEF IInv

\* The replaced core gets a watcher of its own.
LEMMA ReloadCommitKeeps ==
  ASSUME IInv, ReloadCommit
  PROVE  IInv'
<1> USE ManagerAssumption DEF coreVars, watchVars, portVars, lockVars, infoVars
<1>1. TypeOK /\ SectionInv /\ pc = "r_commit" /\ arg.apiPort \in {0} \cup Ports
  BY DEF IInv, ReloadCommit, TypeOK, Args
<1>2. /\ watcher' \in [Cores -> Watcher] /\ watcher'[core].at = "loop"
      /\ \A w \in Cores \ {core} : watcher'[w] = watcher[w]
  BY <1>1 DEF ReloadCommit, StartExitWatcher, TypeOK, SectionInv, Watcher, CoreIds
<1>3. TypeOK'
  BY <1>1, <1>2, ConstantValues
  DEF ReloadCommit, StartExitWatcher, Unlock, IInv, TypeOK, Sections
<1>4. CoreInv'
  BY <1>1, <1>2, ConstantValues
  DEF ReloadCommit, StartExitWatcher, Unlock, IInv, CoreInv, TypeOK, CoreIds, Cores
<1>5. SectionInv'
  BY <1>1, <1>2 DEF ReloadCommit, StartExitWatcher, Unlock, IInv, SectionInv
<1>6. ReportInv'
  BY <1>1, <1>2 DEF ReloadCommit, IInv, ReportInv
<1>7. IPInv'
  BY <1>1, <1>2 DEF ReloadCommit, StartExitWatcher, Unlock, IInv, IPInv
<1>8. DisconnectedMeansStopped'
  BY <1>1, <1>2, ConstantValues
  DEF ReloadCommit, StartExitWatcher, Unlock, IInv, DisconnectedMeansStopped, TypeOK,
      SectionInv, CoreInv, CoreIds, Cores
<1>9. ConnectedIsWatched'
  BY <1>1, <1>2, ConstantValues
  DEF ReloadCommit, StartExitWatcher, Unlock, IInv, ConnectedIsWatched, TypeOK,
      SectionInv, CoreInv, CoreIds, Cores
<1> QED
  BY <1>3, <1>4, <1>5, <1>6, <1>7, <1>8, <1>9 DEF IInv

\* Stop retires the watcher before it stops the core.
LEMMA StopLockKeeps ==
  ASSUME IInv, StopLock
  PROVE  IInv'
<1> USE ManagerAssumption DEF coreVars, watchVars, portVars, lockVars, infoVars
<1>1. TypeOK
  BY DEF IInv
<1>2. /\ closed' \subseteq Cores
      /\ closed' \subseteq closed \cup {watchGen}
      /\ watchGen' = 0
      /\ watchStopping' \in BOOLEAN
  BY <1>1, RetireStep DEF StopLock
<1>3. pool' \in Pool
  BY <1>1, PortValues DEF StopLock, TypeOK
<1>4. TypeOK'
  <2>1. collector' \in CoreIds /\ watchGen' \in CoreIds /\ statsApiPort' \in {0} \cup Ports
    BY <1>2 DEF StopLock, CoreIds
  <2>2. tunEnabled' \in BOOLEAN /\ pc' \in Sections
    BY DEF StopLock, Sections
  <2> QED
    BY <1>1, <1>2, <1>3, <2>1, <2>2 DEF StopLock, TypeOK
<1>5. CoreInv'
  BY <1>1, <1>2, <1>3, ConstantValues DEF StopLock, IInv, CoreInv, TypeOK, CoreIds, Cores
<1>6. SectionInv'
  BY <1>1, <1>2, <1>3 DEF StopLock, IInv, SectionInv
<1>7. ReportInv'
  BY <1>1, <1>2, <1>3 DEF StopLock, IInv, ReportInv
<1>8. IPInv'
  BY <1>1, <1>2, <1>3 DEF StopLock, IInv, IPInv
<1>9. DisconnectedMeansStopped'
  BY <1>1, <1>2, <1>3 DEF StopLock, IInv, DisconnectedMeansStopped
<1>10. ConnectedIsWatched'
  BY <1>1, <1>2, <1>3 DEF StopLock, IInv, ConnectedIsWatched
<1> QED
  BY <1>4, <1>5, <1>6, <1>7, <1>8, <1>9, <1>10 DEF IInv

\* Stop ends disconnected with no core running.
LEMMA StopFinishKeeps ==
  ASSUME IInv, StopFinish
  PROVE  IInv'
<1> USE ManagerAssumption DEF coreVars, watchVars, portVars, lockVars, infoVars
<1>1. TypeOK
  BY DEF IInv
<1>2. /\ xray' \in [CoreIds -> XrayCore]
      /\ ~xray'[core].running /\ xray'[core].proc \notin {"alive", "dead"}
      /\ xray'[core].exited = "value" => xray[core].exited = "value"
      /\ \A c \in CoreIds \ {core} : xray'[c] = xray[c]
  BY <1>1, StopCoreStep DEF StopFinish
<1>3. TypeOK'
  BY <1>1, <1>2, ConstantValues DEF StopFinish, SetStatus, Unlock, IInv, TypeOK, Sections
<1>4. CoreInv'
  BY <1>1, <1>2, ConstantValues
  DEF StopFinish, SetStatus, Unlock, IInv, CoreInv, TypeOK, CoreIds, Cores
<1>5. SectionInv'
  BY <1>1, <1>2 DEF StopFinish, SetStatus, Unlock, IInv, SectionInv
<1>6. ReportInv'
  BY <1>1, <1>2 DEF StopFinish, IInv, ReportInv
<1>7. IPInv'
  BY <1>1, <1>2, ConstantValues DEF StopFinish, SetStatus, Unlock, IInv, IPInv
<1>8. DisconnectedMeansStopped'
  BY <1>1, <1>2 DEF StopFinish, IInv, DisconnectedMeansStopped
<1>9. ConnectedIsWatched'
  BY <1>1, <1>2 DEF StopFinish, IInv, ConnectedIsWatched
<1> QED
  BY <1>3, <1>4, <1>5, <1>6, <1>7, <1>8, <1>9 DEF IInv

\* Moving a profile changes its group, never its server.
LEMMA UpdateMovedProfileKeeps ==
  ASSUME IInv, NEW g \in Groups, UpdateMovedProfile(g)
  PROVE  IInv'
<1> USE ManagerAssumption DEF coreVars, watchVars, portVars, lockVars, infoVars
<1>1. <<status.profile[1], g>> \in Profiles
  BY DEF IInv, IPInv, UpdateMovedProfile, Profiles
<1>2. status' = Connected(<<status.profile[1], g>>) /\ event' = status'
  BY DEF UpdateMovedProfile, SetStatus
<1>3. /\ status' \in Status
      /\ status'.connection = "connected"
      /\ status'.profile \in Profiles
      /\ status'.profile[1] = status.profile[1]
      /\ status' # Disconnected
  BY <1>1, <1>2, ConnectedValue
<1>4. TypeOK'
  BY <1>1, <1>2, <1>3 DEF UpdateMovedProfile, IInv, TypeOK
<1>5. CoreInv'
  BY <1>1, <1>2, <1>3 DEF UpdateMovedProfile, IInv, CoreInv
<1>6. SectionInv'
  BY <1>1, <1>2, <1>3 DEF UpdateMovedProfile, IInv, SectionInv
<1>7. ReportInv'
  BY <1>1, <1>2, <1>3 DEF UpdateMovedProfile, IInv, ReportInv
<1>8. IPInv'
  BY <1>1, <1>2, <1>3 DEF UpdateMovedProfile, IInv, IPInv
<1>9. DisconnectedMeansStopped'
  BY <1>1, <1>2, <1>3 DEF UpdateMovedProfile, IInv, DisconnectedMeansStopped
<1>10. ConnectedIsWatched'
  BY <1>1, <1>2, <1>3 DEF UpdateMovedProfile, IInv, ConnectedIsWatched
<1> QED
  BY <1>4, <1>5, <1>6, <1>7, <1>8, <1>9, <1>10 DEF IInv

\* The process may die at any time.
LEMMA ProcessExitKeeps ==
  ASSUME IInv, NEW c \in CoreIds, ProcessExit(c)
  PROVE  IInv'
<1> USE ManagerAssumption DEF coreVars, watchVars, portVars, lockVars, infoVars
<1>1. TypeOK
  BY DEF IInv
<1>2. /\ /\ xray' \in [CoreIds -> XrayCore]
      /\ xray[c].proc = "alive"
      /\ xray'[c].proc = "dead"
      /\ xray'[c].running = xray[c].running /\ xray'[c].exited = xray[c].exited
      /\ \A d \in CoreIds \ {c} : xray'[d] = xray[d]
  BY <1>1 DEF ProcessExit, TypeOK, XrayCore, Procs, Channels
<1>3. TypeOK'
  BY <1>1, <1>2 DEF ProcessExit, IInv, TypeOK
<1>4. CoreInv'
  BY <1>1, <1>2, ConstantValues DEF ProcessExit, IInv, CoreInv
<1>5. SectionInv'
  BY <1>1, <1>2 DEF ProcessExit, IInv, SectionInv
<1>6. ReportInv'
  BY <1>1, <1>2 DEF ProcessExit, IInv, ReportInv
<1>7. IPInv'
  BY <1>1, <1>2 DEF ProcessExit, IInv, IPInv
<1>8. DisconnectedMeansStopped'
  BY <1>1, <1>2 DEF ProcessExit, IInv, DisconnectedMeansStopped
<1>9. ConnectedIsWatched'
  BY <1>1, <1>2 DEF ProcessExit, IInv, ConnectedIsWatched
<1> QED
  BY <1>3, <1>4, <1>5, <1>6, <1>7, <1>8, <1>9 DEF IInv

\* Only a process that died on its own posts an exit value.
LEMMA WaitCrashKeeps ==
  ASSUME IInv, NEW c \in CoreIds, WaitCrash(c)
  PROVE  IInv'
<1> USE ManagerAssumption DEF coreVars, watchVars, portVars, lockVars, infoVars
<1>1. TypeOK
  BY DEF IInv
<1>2. /\ xray' \in [CoreIds -> XrayCore]
      /\ xray[c].proc = "dead" /\ xray'[c].proc = "gone" /\ ~xray'[c].running
      /\ \A d \in CoreIds \ {c} : xray'[d] = xray[d]
  <2> DEFINE x == [[[xray[c] EXCEPT !.proc = "gone"] EXCEPT !.running = FALSE]
                     EXCEPT !.exited = IF @ = "open" THEN "value" ELSE @]
  <2>1. x \in XrayCore /\ x.proc = "gone" /\ ~x.running
    BY <1>1 DEF TypeOK, XrayCore, Procs, Channels
  <2>2. xray' = [xray EXCEPT ![c] = x]
    BY <1>1 DEF WaitCrash, TypeOK
  <2>3. xray \in [CoreIds -> XrayCore] /\ xray[c].proc = "dead"
    BY <1>1 DEF WaitCrash, TypeOK
  <2> HIDE DEF x
  <2> QED
    BY <2>1, <2>2, <2>3
<1>3. TypeOK'
  BY <1>1, <1>2 DEF WaitCrash, IInv, TypeOK
<1>4. CoreInv'
  BY <1>1, <1>2, ConstantValues DEF WaitCrash, IInv, CoreInv, TypeOK, CoreIds, Cores
<1>5. SectionInv'
  BY <1>1, <1>2, ConstantValues DEF WaitCrash, IInv, SectionInv, TypeOK, CoreIds, Cores
<1>6. ReportInv'
  BY <1>1, <1>2 DEF WaitCrash, IInv, ReportInv
<1>7. IPInv'
  BY <1>1, <1>2 DEF WaitCrash, IInv, IPInv
<1>8. DisconnectedMeansStopped'
  BY <1>1, <1>2, ConstantValues
  DEF WaitCrash, IInv, DisconnectedMeansStopped, TypeOK, CoreIds, Cores
<1>9. ConnectedIsWatched'
  BY <1>1, <1>2, ConstantValues
  DEF WaitCrash, IInv, ConnectedIsWatched, TypeOK, CoreIds, Cores
<1> QED
  BY <1>3, <1>4, <1>5, <1>6, <1>7, <1>8, <1>9 DEF IInv

\* The exit of a killed process is not posted.
LEMMA WaitStoppedKeeps ==
  ASSUME IInv, NEW c \in CoreIds, WaitStopped(c)
  PROVE  IInv'
<1> USE ManagerAssumption DEF coreVars, watchVars, portVars, lockVars, infoVars
<1>1. TypeOK
  BY DEF IInv
<1>2. /\ /\ xray' \in [CoreIds -> XrayCore]
      /\ xray[c].proc = "killed"
      /\ xray'[c].proc = "gone"
      /\ xray'[c].running = xray[c].running /\ xray'[c].exited = xray[c].exited
      /\ \A d \in CoreIds \ {c} : xray'[d] = xray[d]
  BY <1>1 DEF WaitStopped, TypeOK, XrayCore, Procs, Channels
<1>3. TypeOK'
  BY <1>1, <1>2 DEF WaitStopped, IInv, TypeOK
<1>4. CoreInv'
  BY <1>1, <1>2, ConstantValues DEF WaitStopped, IInv, CoreInv
<1>5. SectionInv'
  BY <1>1, <1>2 DEF WaitStopped, IInv, SectionInv
<1>6. ReportInv'
  BY <1>1, <1>2 DEF WaitStopped, IInv, ReportInv
<1>7. IPInv'
  BY <1>1, <1>2 DEF WaitStopped, IInv, IPInv
<1>8. DisconnectedMeansStopped'
  BY <1>1, <1>2 DEF WaitStopped, IInv, DisconnectedMeansStopped
<1>9. ConnectedIsWatched'
  BY <1>1, <1>2 DEF WaitStopped, IInv, ConnectedIsWatched
<1> QED
  BY <1>3, <1>4, <1>5, <1>6, <1>7, <1>8, <1>9 DEF IInv

\* A watcher that enters its select waits on the core of that moment.
LEMMA WatchEnterKeeps ==
  ASSUME IInv, NEW w \in Cores, WatchEnter(w)
  PROVE  IInv'
<1> USE ManagerAssumption DEF coreVars, watchVars, portVars, lockVars, infoVars
<1>1. TypeOK
  BY DEF IInv
<1>2. /\ watcher' \in [Cores -> Watcher] /\ watcher[w].at = "loop"
      /\ watcher'[w].at = "select" /\ watcher'[w].on = core
      /\ \A v \in Cores \ {w} : watcher'[v] = watcher[v]
  BY <1>1 DEF WatchEnter, TypeOK, Watcher
<1>3. TypeOK'
  BY <1>1, <1>2 DEF WatchEnter, IInv, TypeOK
<1>4. CoreInv'
  BY <1>1, <1>2 DEF WatchEnter, IInv, CoreInv
<1>5. SectionInv'
  BY <1>1, <1>2 DEF WatchEnter, IInv, SectionInv
<1>6. ReportInv'
  BY <1>1, <1>2 DEF WatchEnter, IInv, ReportInv
<1>7. IPInv'
  BY <1>1, <1>2 DEF WatchEnter, IInv, IPInv
<1>8. DisconnectedMeansStopped'
  BY <1>1, <1>2 DEF WatchEnter, IInv, DisconnectedMeansStopped
<1>9. ConnectedIsWatched'
  BY <1>1, <1>2 DEF WatchEnter, IInv, ConnectedIsWatched
<1> QED
  BY <1>3, <1>4, <1>5, <1>6, <1>7, <1>8, <1>9 DEF IInv

\* The watcher of a running core has no reason to end.
LEMMA WatchEndKeeps ==
  ASSUME IInv, NEW w \in Cores, WatchEnd(w)
  PROVE  IInv'
<1> USE ManagerAssumption DEF coreVars, watchVars, portVars, lockVars, infoVars
<1>1. TypeOK
  BY DEF IInv
<1>2. /\ watcher' \in [Cores -> Watcher] /\ watcher[w].at = "select"
      /\ watcher'[w].at = "done"
      /\ \A v \in Cores \ {w} : watcher'[v] = watcher[v]
  BY <1>1 DEF WatchEnd, Step, TypeOK, Watcher
<1>3. TypeOK'
  BY <1>1, <1>2 DEF WatchEnd, IInv, TypeOK
<1>4. CoreInv'
  BY <1>1, <1>2 DEF WatchEnd, IInv, CoreInv
<1>5. SectionInv'
  BY <1>1, <1>2 DEF WatchEnd, IInv, SectionInv
<1>6. ReportInv'
  BY <1>1, <1>2 DEF WatchEnd, IInv, ReportInv
<1>7. IPInv'
  BY <1>1, <1>2 DEF WatchEnd, IInv, IPInv
<1>8. DisconnectedMeansStopped'
  BY <1>1, <1>2 DEF WatchEnd, IInv, DisconnectedMeansStopped
<1>9. ConnectedIsWatched'
  BY <1>1, <1>2
  DEF WatchEnd, IInv, ConnectedIsWatched, TypeOK, SectionInv, CoreInv, CoreIds, Cores
<1> QED
  BY <1>3, <1>4, <1>5, <1>6, <1>7, <1>8, <1>9 DEF IInv

\* A watcher receives an exit value once, and it comes from a crash.
LEMMA WatchReceiveKeeps ==
  ASSUME IInv, NEW w \in Cores, WatchReceive(w)
  PROVE  IInv'
<1> USE ManagerAssumption DEF coreVars, watchVars, portVars, lockVars, infoVars
<1>1. TypeOK
  BY DEF IInv
<1>2. /\ watcher' \in [Cores -> Watcher] /\ watcher[w].at = "select"
      /\ watcher'[w].at = "check" /\ watcher'[w].on = watcher[w].on
      /\ \A v \in Cores \ {w} : watcher'[v] = watcher[v]
  BY <1>1 DEF WatchReceive, Step, TypeOK, Watcher
<1>3. watcher[w].on \in CoreIds
  BY <1>1 DEF TypeOK, Watcher
<1>4. /\ xray' \in [CoreIds -> XrayCore] /\ xray[watcher[w].on].exited = "value"
      /\ xray'[watcher[w].on].exited = "closed"
      /\ \A c \in CoreIds : xray'[c].running = xray[c].running /\ xray'[c].proc = xray[c].proc
      /\ \A c \in CoreIds \ {watcher[w].on} : xray'[c] = xray[c]
  BY <1>1, <1>3 DEF WatchReceive, TypeOK, XrayCore, Channels
<1>5. TypeOK'
  BY <1>1, <1>2, <1>3, <1>4 DEF WatchReceive, IInv, TypeOK
<1>6. CoreInv'
  BY <1>1, <1>2, <1>3, <1>4, ConstantValues DEF WatchReceive, IInv, CoreInv
<1>7. SectionInv'
  BY <1>1, <1>2, <1>3, <1>4 DEF WatchReceive, IInv, SectionInv
<1>8. ReportInv'
  BY <1>1, <1>2, <1>3, <1>4 DEF WatchReceive, IInv, ReportInv
<1>9. IPInv'
  BY <1>1, <1>2, <1>3, <1>4 DEF WatchReceive, IInv, IPInv
<1>10. DisconnectedMeansStopped'
  BY <1>1, <1>2, <1>3, <1>4 DEF WatchReceive, IInv, DisconnectedMeansStopped
<1>11. ConnectedIsWatched'
  BY <1>1, <1>2, <1>3, <1>4, ConstantValues
  DEF WatchReceive, IInv, ConnectedIsWatched, TypeOK, SectionInv, CoreInv, CoreIds,
      Cores
<1> QED
  BY <1>5, <1>6, <1>7, <1>8, <1>9, <1>10, <1>11 DEF IInv

\* A stale watcher ends; another one goes on to report a crash.
LEMMA WatchCheckKeeps ==
  ASSUME IInv, NEW w \in Cores, WatchCheck(w)
  PROVE  IInv'
<1> USE ManagerAssumption DEF coreVars, watchVars, portVars, lockVars, infoVars
<1>1. TypeOK
  BY DEF IInv
<1>2. /\ watcher' \in [Cores -> Watcher] /\ watcher[w].at = "check"
      /\ watcher'[w].at \in {"done", "lock"} /\ watcher'[w].on = watcher[w].on
      /\ \A v \in Cores \ {w} : watcher'[v] = watcher[v]
  BY <1>1 DEF WatchCheck, Step, TypeOK, Watcher
<1>3. discarded' \subseteq CoreIds
  BY <1>1 DEF WatchCheck, TypeOK, Watcher
<1>4. TypeOK'
  BY <1>1, <1>2, <1>3 DEF WatchCheck, IInv, TypeOK
<1>5. CoreInv'
  BY <1>1, <1>2, <1>3 DEF WatchCheck, IInv, CoreInv
<1>6. SectionInv'
  BY <1>1, <1>2, <1>3 DEF WatchCheck, IInv, SectionInv
<1>7. ReportInv'
  BY <1>1, <1>2, <1>3 DEF WatchCheck, IInv, ReportInv
<1>8. IPInv'
  BY <1>1, <1>2, <1>3 DEF WatchCheck, IInv, IPInv
<1>9. DisconnectedMeansStopped'
  BY <1>1, <1>2, <1>3 DEF WatchCheck, IInv, DisconnectedMeansStopped
<1>10. ConnectedIsWatched'
  BY <1>1, <1>2, <1>3
  DEF WatchCheck, IInv, ConnectedIsWatched, TypeOK, SectionInv, CoreInv, CoreIds, Cores
<1> QED
  BY <1>4, <1>5, <1>6, <1>7, <1>8, <1>9, <1>10 DEF IInv

\* A report ends in a "disconnected" status.
LEMMA WatchLockKeeps ==
  ASSUME IInv, NEW w \in Cores, WatchLock(w)
  PROVE  IInv'
<1> USE ManagerAssumption DEF coreVars, watchVars, portVars, lockVars, infoVars
<1>1. TypeOK
  BY DEF IInv
<1>2. /\ watcher' \in [Cores -> Watcher] /\ watcher[w].at = "lock"
      /\ watcher'[w].at = "notify" /\ watcher'[w].on = watcher[w].on
      /\ \A v \in Cores \ {w} : watcher'[v] = watcher[v]
  BY <1>1 DEF WatchLock, Step, TypeOK, Watcher
<1>3. TypeOK'
  BY <1>1, <1>2, ConstantValues DEF WatchLock, IInv, TypeOK
<1>4. CoreInv'
  BY <1>1, <1>2 DEF WatchLock, IInv, CoreInv
<1>5. SectionInv'
  BY <1>1, <1>2 DEF WatchLock, IInv, SectionInv
<1>6. ReportInv'
  BY <1>1, <1>2 DEF WatchLock, IInv, ReportInv
<1>7. IPInv'
  BY <1>1, <1>2, ConstantValues DEF WatchLock, IInv, IPInv
<1>8. DisconnectedMeansStopped'
  BY <1>1, <1>2, ConstantValues DEF WatchLock, IInv, DisconnectedMeansStopped
<1>9. ConnectedIsWatched'
  BY <1>1, <1>2, ConstantValues DEF WatchLock, IInv, ConnectedIsWatched
<1> QED
  BY <1>3, <1>4, <1>5, <1>6, <1>7, <1>8, <1>9 DEF IInv

\* Only a crash is reported.
LEMMA WatchNotifyKeeps ==
  ASSUME IInv, NEW w \in Cores, WatchNotify(w)
  PROVE  IInv'
<1> USE ManagerAssumption DEF coreVars, watchVars, portVars, lockVars, infoVars
<1>1. TypeOK
  BY DEF IInv
<1>2. /\ watcher' \in [Cores -> Watcher] /\ watcher[w].at = "notify"
      /\ watcher'[w].at = "loop" /\ watcher'[w].on = watcher[w].on
      /\ \A v \in Cores \ {w} : watcher'[v] = watcher[v]
  BY <1>1 DEF WatchNotify, Step, TypeOK, Watcher
<1>3. reported' \subseteq CoreIds
  BY <1>1 DEF WatchNotify, TypeOK, Watcher
<1>4. TypeOK'
  BY <1>1, <1>2, <1>3, ConstantValues DEF WatchNotify, IInv, TypeOK
<1>5. CoreInv'
  BY <1>1, <1>2, <1>3 DEF WatchNotify, IInv, CoreInv
<1>6. SectionInv'
  BY <1>1, <1>2, <1>3 DEF WatchNotify, IInv, SectionInv
<1>7. ReportInv'
  BY <1>1, <1>2, <1>3 DEF WatchNotify, IInv, ReportInv
<1>8. IPInv'
  BY <1>1, <1>2, <1>3 DEF WatchNotify, IInv, IPInv
<1>9. DisconnectedMeansStopped'
  BY <1>1, <1>2, <1>3 DEF WatchNotify, IInv, DisconnectedMeansStopped
<1>10. ConnectedIsWatched'
  BY <1>1, <1>2, <1>3, ConstantValues
  DEF WatchNotify, IInv, ConnectedIsWatched, TypeOK, SectionInv, CoreInv, CoreIds, Cores
<1> QED
  BY <1>4, <1>5, <1>6, <1>7, <1>8, <1>9, <1>10 DEF IInv

\* Latency tests touch the pool only.
LEMMA TestBeginsKeeps ==
  ASSUME IInv, TestBegins
  PROVE  IInv'
<1> USE ManagerAssumption DEF coreVars, watchVars, portVars, lockVars, infoVars
<1>1. TypeOK
  BY DEF IInv
<1>2. pool' \in Pool /\ tests' \subseteq Ports
  BY <1>1, PortValues, GrantedPortIsFree DEF TestBegins, TypeOK
<1>3. TypeOK'
  BY <1>1, <1>2 DEF TestBegins, IInv, TypeOK
<1>4. CoreInv'
  BY <1>1, <1>2 DEF TestBegins, IInv, CoreInv
<1>5. SectionInv'
  BY <1>1, <1>2 DEF TestBegins, IInv, SectionInv
<1>6. ReportInv'
  BY <1>1, <1>2 DEF TestBegins, IInv, ReportInv
<1>7. IPInv'
  BY <1>1, <1>2 DEF TestBegins, IInv, IPInv
<1>8. DisconnectedMeansStopped'
  BY <1>1, <1>2 DEF TestBegins, IInv, DisconnectedMeansStopped
<1>9. ConnectedIsWatched'
  BY <1>1, <1>2 DEF TestBegins, IInv, ConnectedIsWatched
<1> QED
  BY <1>3, <1>4, <1>5, <1>6, <1>7, <1>8, <1>9 DEF IInv

\* Latency tests touch the pool only.
LEMMA TestEndsKeeps ==
  ASSUME IInv, NEW port \in Ports, TestEnds(port)
  PROVE  IInv'
<1> USE ManagerAssumption DEF coreVars, watchVars, portVars, lockVars, infoVars
<1>1. TypeOK
  BY DEF IInv
<1>2. pool' \in Pool /\ tests' \subseteq Ports
  BY <1>1, PortValues DEF TestEnds, TypeOK
<1>3. TypeOK'
  BY <1>1, <1>2 DEF TestEnds, IInv, TypeOK
<1>4. CoreInv'
  BY <1>1, <1>2 DEF TestEnds, IInv, CoreInv
<1>5. SectionInv'
  BY <1>1, <1>2 DEF TestEnds, IInv, SectionInv
<1>6. ReportInv'
  BY <1>1, <1>2 DEF TestEnds, IInv, ReportInv
<1>7. IPInv'
  BY <1>1, <1>2 DEF TestEnds, IInv, IPInv
<1>8. DisconnectedMeansStopped'
  BY <1>1, <1>2 DEF TestEnds, IInv, DisconnectedMeansStopped
<1>9. ConnectedIsWatched'
  BY <1>1, <1>2 DEF TestEnds, IInv, ConnectedIsWatched
<1> QED
  BY <1>3, <1>4, <1>5, <1>6, <1>7, <1>8, <1>9 DEF IInv

\* Every step of the manager, its cores and its watchers keeps the invariant.
LEMMA StepIInv == IInv /\ [Next]_vars => IInv'
<1> SUFFICES ASSUME IInv, [Next]_vars PROVE IInv'
  OBVIOUS
<1>1. CASE Requests
  BY <1>1, ConnectLockKeeps, SetTunModeKeeps, ReloadRoutingKeeps, StopLockKeeps,
     UpdateMovedProfileKeeps DEF Requests
<1>2. CASE Holder
  BY <1>2, ConnectRetireKeeps, ConnectRefusedKeeps, ConnectStartKeeps, ConnectCommitKeeps,
     ReloadStopKeeps, ReloadStartKeeps, ReloadCommitKeeps, StopFinishKeeps DEF Holder
<1>3. ASSUME NEW c \in CoreIds, ProcessExit(c) \/ WaitCrash(c) \/ WaitStopped(c) PROVE IInv'
  BY <1>3, ProcessExitKeeps, WaitCrashKeeps, WaitStoppedKeeps
<1>4. ASSUME NEW w \in Cores, WatchStep(w) PROVE IInv'
  BY <1>4, WatchEnterKeeps, WatchEndKeeps, WatchReceiveKeeps, WatchCheckKeeps, WatchLockKeeps,
     WatchNotifyKeeps DEF WatchStep
<1>5. CASE TestBegins
  BY <1>5, TestBeginsKeeps
<1>6. ASSUME NEW port \in Ports, TestEnds(port) PROVE IInv'
  BY <1>6, TestEndsKeeps
<1>7. CASE UNCHANGED vars
  BY <1>7 DEF vars, IInv, TypeOK, CoreInv, SectionInv, ReportInv, IPInv,
              DisconnectedMeansStopped, ConnectedIsWatched
<1> QED
  BY <1>1, <1>2, <1>3, <1>4, <1>5, <1>6, <1>7 DEF Next

-------------------------------------------------------------------------------
(* The ports *)

\* What the pool keeps for the manager, and the port a running core was started with.
Kept == pool.in_use \ tests
CorePort == IF pc \in {"c_commit", "r_commit"} THEN arg.apiPort ELSE statsApiPort

\* The port of the connection and the one a section has reserved are kept; they are two
\* in a switch and the same in a reload that has one already.
PortInv ==
  /\ tests \subseteq pool.in_use
  /\ statsApiPort \in {0} \cup Kept
  /\ pc \in {"c_start", "c_commit", "r_stop", "r_start", "r_commit"} =>
       arg.apiPort \in {0} \cup Kept
  /\ pc \in {"c_start", "c_commit"} /\ arg.apiPort # 0 => arg.apiPort # statsApiPort
  /\ pc \in {"r_stop", "r_start", "r_commit"} /\ statsApiPort # 0 => arg.apiPort = statsApiPort
  /\ pc # "s_stop" => \A c \in CoreIds : xray[c].running => xray[c].apiPort = CorePort

\* GetPort and ReleasePort on the set of reserved ports.
LEMMA PoolPorts ==
  ASSUME pool \in Pool
  PROVE  /\ ApiPort = 0 => GetPort(pool) = pool
         /\ ApiPort # 0 => /\ ApiPort \in Ports \ pool.in_use
                           /\ GetPort(pool).in_use = pool.in_use \cup {ApiPort}
         /\ pool.in_use \subseteq GetPort(pool).in_use
         /\ \A port \in {0} \cup Ports :
              ReleasePort(pool, port).in_use = pool.in_use \ ({port} \ {0})
<1>1. \A port \in Ports : port \in Nat /\ port > 0
  BY RangeAssumption, ManagerAssumption DEF Ports
<1>2. ASSUME NEW port \in {0} \cup Ports
      PROVE  ReleasePort(pool, port).in_use = pool.in_use \ ({port} \ {0})
  BY <1>1 DEF ReleasePort, Pool
<1>3. CASE Exhausted(pool)
  BY <1>2, <1>3 DEF ApiPort, GetPort
<1>4. CASE ~Exhausted(pool)
  <2>1. ApiPort = GrantedPort(pool) /\ ApiPort \in Ports \ pool.in_use /\ ApiPort # 0
    BY <1>1, <1>4, GrantedPortIsFree DEF ApiPort
  <2>2. GetPort(pool).in_use = pool.in_use \cup {ApiPort}
    BY <1>4, <2>1 DEF GetPort
  <2> QED
    BY <1>2, <2>1, <2>2
<1> QED
  BY <1>3, <1>4

\* No core is started and a running one keeps its port.
NoneStarted ==
  \A c \in CoreIds : xray'[c].running => xray[c].running /\ xray'[c].apiPort = xray[c].apiPort

LEMMA StopStartsNone ==
  ASSUME IInv, NEW o \in StopOutcomes, StopCore(o)
  PROVE  NoneStarted /\ \A c \in CoreIds : ~xray'[c].running
  BY StopCoreStep DEF IInv, CoreInv, NoneStarted

\* Steps of the processes and the watchers leave the ports alone.
LEMMA PortsStay ==
  ASSUME IInv, PortInv, NoneStarted, UNCHANGED <<statsApiPort, pool, tests, pc, arg>>
  PROVE  PortInv'
  BY DEF PortInv, NoneStarted, Kept, CorePort

LEMMA ProcessPorts ==
  ASSUME IInv, PortInv, NEW c \in CoreIds, ProcessExit(c) \/ WaitCrash(c) \/ WaitStopped(c)
  PROVE  PortInv'
<1>1. xray \in [CoreIds -> XrayCore]
  BY DEF IInv, TypeOK
<1>2. NoneStarted
  BY <1>1 DEF ProcessExit, WaitCrash, WaitStopped, NoneStarted, XrayCore
<1> QED
  BY <1>2, PortsStay DEF ProcessExit, WaitCrash, WaitStopped, portVars, lockVars

LEMMA WatchPorts ==
  ASSUME IInv, PortInv, NEW w \in Cores, WatchStep(w)
  PROVE  PortInv'
<1>1. UNCHANGED <<statsApiPort, pool, tests, pc, arg>>
  BY DEF WatchStep, WatchEnter, WatchEnd, WatchReceive, WatchCheck, WatchLock, WatchNotify,
         portVars, lockVars
<1>2. CASE UNCHANGED xray
  BY <1>1, <1>2, PortsStay DEF NoneStarted
<1>3. CASE WatchReceive(w)
  <2>1. xray \in [CoreIds -> XrayCore] /\ watcher[w].on \in CoreIds
    BY DEF IInv, TypeOK, Watcher
  <2>2. NoneStarted
    BY <1>3, <2>1 DEF WatchReceive, NoneStarted, XrayCore
  <2> QED
    BY <1>1, <2>2, PortsStay
<1> QED
  BY <1>2, <1>3 DEF WatchStep, WatchEnter, WatchEnd, WatchCheck, WatchLock, WatchNotify, coreVars

\* A test takes a port that nobody has and gives back one of its own.
LEMMA TestPorts ==
  ASSUME IInv, PortInv, TestBegins \/ \E port \in Ports : TestEnds(port)
  PROVE  PortInv'
<1>1. pool \in Pool /\ tests \subseteq Ports
  BY DEF IInv, TypeOK
<1>2. UNCHANGED <<xray, statsApiPort, pc, arg>>
  BY DEF TestBegins, TestEnds, coreVars, lockVars
<1>3. tests' \subseteq pool'.in_use /\ Kept \subseteq Kept'
  <2>1. CASE TestBegins
    <3>1. ApiPort # 0 /\ GrantedPort(pool) = ApiPort
      <4>1. GrantedPort(pool) \in Ports
        BY <1>1, <2>1, GrantedPortIsFree DEF TestBegins
      <4> QED
        BY <2>1, <4>1, RangeAssumption, ManagerAssumption DEF TestBegins, ApiPort, Ports
    <3> QED
      BY <1>1, <2>1, <3>1, PoolPorts DEF TestBegins, PortInv, Kept
  <2>2. ASSUME NEW port \in Ports, TestEnds(port)
        PROVE  tests' \subseteq pool'.in_use /\ Kept \subseteq Kept'
    BY <1>1, <2>2, PoolPorts DEF TestEnds, PortInv, Kept
  <2> QED
    BY <2>1, <2>2
<1> QED
  BY <1>2, <1>3 DEF PortInv, CorePort

\* Connect: the new port is another than that of the connection, which is given back
\* when the new core is in place.
LEMMA ConnectPorts ==
  ASSUME IInv, PortInv,
         \/ \E p \in Profiles, tun \in BOOLEAN : ConnectLock(p, tun)
         \/ ConnectRetire \/ ConnectRefused \/ ConnectStart \/ ConnectCommit
  PROVE  PortInv'
<1>1. /\ pool \in Pool /\ tests \subseteq Ports /\ statsApiPort \in {0} \cup Ports
      /\ arg \in Args /\ arg.apiPort \in {0} \cup Ports
      /\ pool.in_use \subseteq Ports /\ 0 \notin Ports
      /\ xray \in [CoreIds -> XrayCore] /\ core \in CoreIds
  BY RangeAssumption, ManagerAssumption DEF IInv, TypeOK, Args, Pool, Ports
<1>2. ASSUME NEW p \in Profiles, NEW tun \in BOOLEAN, ConnectLock(p, tun)
      PROVE  PortInv'
  <2>1. \A c \in CoreIds : ~xray'[c].running
    BY <1>2, StopStartsNone DEF ConnectLock, IInv, CoreInv
  <2> QED
    BY <1>2, <2>1 DEF ConnectLock, PortInv, Kept, portVars
<1>3. CASE ConnectRetire
  <2>1. \A c \in CoreIds : ~xray'[c].running
    BY <1>3 DEF ConnectRetire, coreVars, IInv, CoreInv, SectionInv
  <2>2. /\ arg'.apiPort = ApiPort /\ pc' = "c_start" /\ pool' = GetPort(pool)
        /\ UNCHANGED <<statsApiPort, tests>>
    BY <1>1, <1>3 DEF ConnectRetire, Args
  <2>3. Kept \subseteq Kept' /\ tests' \subseteq pool'.in_use
    BY <1>1, <2>2, PoolPorts DEF PortInv, Kept
  <2>4. ApiPort # 0 => ApiPort \in Kept' /\ ApiPort # statsApiPort
    BY <1>1, <2>2, PoolPorts DEF PortInv, Kept
  <2> QED
    BY <2>1, <2>2, <2>3, <2>4 DEF PortInv
<1>4. CASE ConnectRefused
  <2>1. \A c \in CoreIds : ~xray'[c].running
    BY <1>4 DEF ConnectRefused, coreVars, IInv, CoreInv, SectionInv
  <2>2. /\ pc = "c_start" /\ pc' = "free" /\ UNCHANGED <<statsApiPort, tests>>
        /\ pool'.in_use = pool.in_use \ ({arg.apiPort} \ {0})
    BY <1>1, <1>4, PoolPorts DEF ConnectRefused, Unlock
  <2> QED
    BY <2>1, <2>2 DEF PortInv, Kept
<1>5. CASE ConnectStart
  <2>1. /\ pc = "c_start" /\ UNCHANGED <<statsApiPort, tests, pool>>
        /\ \A c \in CoreIds : ~xray[c].running
    BY <1>5 DEF ConnectStart, portVars, IInv, CoreInv, SectionInv
  <2>2. CASE UNCHANGED xray /\ Unlock
    BY <2>1, <2>2 DEF PortInv, Kept, Unlock
  <2>3. CASE /\ xray' = [xray EXCEPT ![core + 1] = StartedCore(arg.apiPort)]
             /\ pc' = "c_commit" /\ UNCHANGED arg
    <3>1. \A c \in CoreIds : xray'[c].running => xray'[c].apiPort = arg.apiPort
      BY <1>1, <2>1, <2>3 DEF StartedCore
    <3> QED
      BY <2>1, <2>3, <3>1 DEF PortInv, Kept, CorePort
  <2> QED
    BY <1>5, <2>2, <2>3 DEF ConnectStart
<1>6. CASE ConnectCommit
  <2>1. /\ pc = "c_commit" /\ pc' = "free" /\ statsApiPort' = arg.apiPort
        /\ UNCHANGED <<tests, xray>>
        /\ pool'.in_use = pool.in_use \ ({statsApiPort} \ {0})
    BY <1>1, <1>6, PoolPorts DEF ConnectCommit, Unlock, coreVars
  <2> QED
    BY <2>1 DEF PortInv, Kept, CorePort
<1> QED
  BY <1>2, <1>3, <1>4, <1>5, <1>6

\* A reload keeps the port of the connection, or reserves one if there is none.
LEMMA ReloadPorts ==
  ASSUME IInv, PortInv,
         (\E tun \in BOOLEAN : SetTunMode(tun)) \/ ReloadRouting
           \/ ReloadStop \/ ReloadStart \/ ReloadCommit
  PROVE  PortInv'
<1>1. /\ pool \in Pool /\ statsApiPort \in {0} \cup Ports /\ arg.apiPort \in {0} \cup Ports
      /\ xray \in [CoreIds -> XrayCore] /\ core \in CoreIds
  BY DEF IInv, TypeOK, Args
<1>2. ASSUME pc = "free", ReloadCheck
      PROVE  PortInv'
  <2>1. /\ UNCHANGED <<xray, statsApiPort, tests>>
        /\ \/ UNCHANGED <<pc, arg>>
           \/ pc' = "r_stop" /\ arg'.apiPort = ReloadPort
    BY <1>2 DEF ReloadCheck, coreVars, NoArgs
  <2>2. tests \subseteq pool'.in_use /\ Kept \subseteq Kept'
    BY <1>1, <1>2, <2>1, PoolPorts DEF ReloadCheck, PortInv, Kept
  <2>3. ReloadPort \in {0} \cup Kept' /\ (statsApiPort # 0 => ReloadPort = statsApiPort)
    BY <1>1, <1>2, <2>1, <2>2, PoolPorts DEF ReloadCheck, ReloadPort, PortInv, Kept
  <2> QED
    BY <1>2, <2>1, <2>2, <2>3 DEF PortInv, CorePort
<1>3. ASSUME NEW tun \in BOOLEAN, SetTunMode(tun)
      PROVE  PortInv'
  <2>1. CASE Reloadable
    BY <1>2, <1>3, <2>1 DEF SetTunMode
  <2>2. CASE ~Reloadable
    BY <1>3, <2>2, PortsStay DEF SetTunMode, NoneStarted, coreVars, portVars, lockVars
  <2> QED
    BY <2>1, <2>2
<1>4. CASE ReloadRouting
  BY <1>2, <1>4 DEF ReloadRouting
<1>5. CASE ReloadStop
  <2>1. \A c \in CoreIds : ~xray'[c].running
    BY <1>5, StopStartsNone DEF ReloadStop
  <2> QED
    BY <1>5, <2>1 DEF ReloadStop, PortInv, Kept, portVars
<1>6. CASE ReloadStart
  <2>1. /\ pc = "r_start" /\ UNCHANGED <<statsApiPort, tests, pool>>
        /\ \A c \in CoreIds : ~xray[c].running
    BY <1>6 DEF ReloadStart, portVars, IInv, CoreInv, SectionInv
  <2>2. CASE UNCHANGED xray /\ Unlock
    BY <2>1, <2>2 DEF PortInv, Kept, Unlock
  <2>3. CASE /\ xray' = [xray EXCEPT ![core + 1] = StartedCore(arg.apiPort)]
             /\ pc' = "r_commit" /\ UNCHANGED arg
    <3>1. \A c \in CoreIds : xray'[c].running => xray'[c].apiPort = arg.apiPort
      BY <1>1, <2>1, <2>3 DEF StartedCore
    <3> QED
      BY <2>1, <2>3, <3>1 DEF PortInv, Kept, CorePort
  <2> QED
    BY <1>6, <2>2, <2>3 DEF ReloadStart
<1>7. CASE ReloadCommit
  BY <1>7 DEF ReloadCommit, Unlock, coreVars, PortInv, Kept, CorePort
<1> QED
  BY <1>3, <1>4, <1>5, <1>6, <1>7

\* Stop gives the port back before the core is stopped.
LEMMA StopPorts ==
  ASSUME IInv, PortInv, StopLock \/ StopFinish \/ \E g \in Groups : UpdateMovedProfile(g)
  PROVE  PortInv'
<1>1. pool \in Pool /\ statsApiPort \in {0} \cup Ports
  BY DEF IInv, TypeOK
<1>2. CASE StopLock
  <2>1. /\ pc' = "s_stop" /\ statsApiPort' = 0 /\ UNCHANGED tests
        /\ pool'.in_use = pool.in_use \ ({statsApiPort} \ {0})
    BY <1>1, <1>2, PoolPorts DEF StopLock
  <2> QED
    BY <2>1 DEF PortInv, Kept
<1>3. CASE StopFinish
  <2>1. \A c \in CoreIds : ~xray'[c].running
    BY <1>3, StopStartsNone DEF StopFinish
  <2> QED
    BY <1>3, <2>1 DEF StopFinish, Unlock, PortInv, Kept, portVars
<1>4. ASSUME NEW g \in Groups, UpdateMovedProfile(g)
      PROVE  PortInv'
  BY <1>4, PortsStay DEF UpdateMovedProfile, NoneStarted, coreVars, portVars, lockVars
<1> QED
  BY <1>2, <1>3, <1>4

LEMMA InitPorts == Init => PortInv
  BY DEF Init, PortInv, Kept, CreatePortPool, FreshCore

LEMMA StepPorts == IInv /\ PortInv /\ [Next]_vars => PortInv'
<1> SUFFICES ASSUME IInv, PortInv, [Next]_vars PROVE PortInv'
  OBVIOUS
<1>1. CASE Requests
  BY <1>1, ConnectPorts, ReloadPorts, StopPorts DEF Requests
<1>2. CASE Holder
  BY <1>2, ConnectPorts, ReloadPorts, StopPorts DEF Holder
<1>3. ASSUME NEW c \in CoreIds, ProcessExit(c) \/ WaitCrash(c) \/ WaitStopped(c) PROVE PortInv'
  BY <1>3, ProcessPorts
<1>4. ASSUME NEW w \in Cores, WatchStep(w) PROVE PortInv'
  BY <1>4, WatchPorts
<1>5. CASE TestBegins \/ \E port \in Ports : TestEnds(port)
  BY <1>5, TestPorts
<1>6. CASE UNCHANGED vars
  BY <1>6, PortsStay DEF vars, NoneStarted
<1> QED
  BY <1>1, <1>2, <1>3, <1>4, <1>5, <1>6 DEF Next

-------------------------------------------------------------------------------
(* The theorems *)

\* The invariant gives each property it was strengthened from.
LEMMA IInvGives ==
  ASSUME IInv
  PROVE  /\ TypeOK
         /\ SingleCore
         /\ DisconnectedMeansStopped
         /\ ConnectedIsWatched
         /\ OnlyCrashesReported
         /\ IPsBelongToProfile
  BY DEF IInv, CoreInv, ReportInv, IPInv, SingleCore, OnlyCrashesReported, IPsBelongToProfile

\* Every variable of the manager keeps its type, so a port handed to Xray is one of
\* the range and every core and watcher is one that was created.
THEOREM TypeCorrect == Spec => []TypeOK
<1>1. IInv => TypeOK
  BY IInvGives
<1> QED
  BY <1>1, InitIInv, StepIInv, PTL DEF Spec

\* At most one Xray runs, the one p.core points at, for any number of switches,
\* reloads, stops and crashes in any interleaving with the watchers.
THEOREM OneCore == Spec => []SingleCore
<1>1. IInv => SingleCore
  BY IInvGives
<1> QED
  BY <1>1, InitIInv, StepIInv, PTL DEF Spec

\* A manager that is at rest and says "disconnected" without a reason has stopped
\* its Xray, on every path of Connect, the reloads and Stop, failures included.
THEOREM StoppedWhenDisconnected == Spec => []DisconnectedMeansStopped
<1>1. IInv => DisconnectedMeansStopped
  BY IInvGives
<1> QED
  BY <1>1, InitIInv, StepIInv, PTL DEF Spec

\* The running core of a connection is watched by a watcher of the current
\* generation that no retire has closed.
THEOREM WatchedWhenConnected == Spec => []ConnectedIsWatched
<1>1. IInv => ConnectedIsWatched
  BY IInvGives
<1> QED
  BY <1>1, InitIInv, StepIInv, PTL DEF Spec

\* The unexpected-exit handler never runs for a core that Stop, Connect or a
\* reload ended on purpose.
THEOREM CrashesReportedOnly == Spec => []OnlyCrashesReported
<1>1. IInv => OnlyCrashesReported
  BY IInvGives
<1> QED
  BY <1>1, InitIInv, StepIInv, PTL DEF Spec

\* The server IPs that the kill-switch and the TUN routes use are those of the
\* connected profile.
THEOREM IPsOfTheProfile == Spec => []IPsBelongToProfile
<1>1. IInv => IPsBelongToProfile
  BY IInvGives
<1> QED
  BY <1>1, InitIInv, StepIInv, PTL DEF Spec

\* The StatsService port of the running Xray is reserved and no latency test has it, on
\* every path of Connect, the reloads and the crashes; only Stop gives it back early.
THEOREM StatsPortKept == Spec => []StatsPortReserved
<1>1. Init => IInv /\ PortInv
  BY InitIInv, InitPorts
<1>2. IInv /\ PortInv /\ [Next]_vars => IInv' /\ PortInv'
  BY StepIInv, StepPorts
<1>3. IInv /\ PortInv => StatsPortReserved
  BY DEF PortInv, StatsPortReserved, Kept, CorePort
<1> QED
  BY <1>1, <1>2, <1>3, PTL DEF Spec
===============================================================================
