----------------------------- MODULE CliSession -----------------------------
(***************************************************************************)
(* One-shot commands of the command line against the core: a session is    *)
(* opened, the application state fetched, the command planned from that    *)
(* snapshot, its requests sent under fresh identifiers and their answers   *)
(* picked out of everything the core broadcasts (cli/client.rs,            *)
(* cli/resolve.rs, cli/commands/{connection,profiles,subs}.rs).            *)
(*                                                                         *)
(* Several commands run at the same time, each in a process of its own.    *)
(* Between its snapshot and its requests the others change the core.       *)
(*                                                                         *)
(* Names are atoms: "title" is the name a provider gives, "host1" and      *)
(* "host2" are derived from subscription addresses and contain "host", the *)
(* rest are names a user chose.  Profiles have identifiers only; a bare    *)
(* identifier, like a name, can match profiles of several groups.          *)
(***************************************************************************)
EXTENDS ListOrder

CONSTANTS
  Clients,  \* the processes; each runs one command
  MaxGid,   \* bound: group identifiers
  MaxFaults, \* bound: connections lost and answers timed out
  Mixes     \* bound: the families of commands used together

VARIABLES
  db,       \* core: order and records of the groups, last group identifier
  conn,     \* core: the connected profile, or NoRef
  tun,      \* core: TUN mode
  posted,   \* core: connection and TUN status posted but not yet broadcast
  jobs,     \* core: subscription refreshes in progress
  toCore,   \* by client: requests not yet handled
  inbox,    \* by client: frames not yet read
  cli,      \* by client: the process
  last,     \* config.toml: the profile last connected to
  did,      \* history, by client: its requests that succeeded and that failed
  meant,    \* history, by group: name and address as last asked for
  raced,    \* history: a group was updated from an outdated snapshot
  faults,
  scene     \* the families of commands in use, by client

cliVars == <<db, conn, tun, posted, jobs, toCore, inbox, cli, last, did, meant, raced, faults, scene>>
history == <<did, meant, raced>>

Gids == 1..MaxGid
NoRef == <<0, 0>>
Host(u) == CASE u = "u1" -> "host1" [] u = "u2" -> "host2" [] OTHER -> ""
Group(name, sub, url, ps) ==
  [name |-> name, sub |-> sub, url |-> url, auto |-> TRUE, ps |-> ps, last |-> Len(ps)]
Of(d) == ToSet(d.order)
Without(s, S) == SelectSeq(s, LAMBDA x : x \notin S)
Exists(d, ref) == ref[1] \in Of(d) /\ ref[2] \in ToSet(d.g[ref[1]].ps)

Idle == [pc |-> "idle", n |-> 0, cmd |-> [k |-> "none"], cfg |-> NoRef, todo |-> <<>>, got |-> 0, out |-> "none"]

CliInit ==
  /\ db = [order |-> <<1, 2>>, last |-> 2,
           g |-> [i \in Gids |-> CASE i = 1 -> Group("title", "title", "u1", <<1, 2>>)
                                   [] i = 2 -> Group("mine", "", "none", <<1>>)
                                   [] OTHER -> Group("", "", "none", <<>>)]]
  /\ posted = [status |-> <<>>, tun |-> <<>>] /\ jobs = {}
  /\ toCore = [c \in Clients |-> <<>>] /\ inbox = [c \in Clients |-> <<>>]
  /\ cli = [c \in Clients |-> Idle]
  /\ last = <<2, 1>>
  /\ did = [c \in Clients |-> [ok |-> 0, bad |-> 0]]
  /\ meant = [g \in Gids |-> [name |-> "", url |-> db.g[g].url]]
  /\ raced = FALSE /\ faults = 0
  /\ scene \in {f \in [Clients -> UNION Mixes] : {f[c] : c \in Clients} \in Mixes}
  /\ conn \in {NoRef} \cup {<<1, 2>> : c \in {x \in Clients : scene[x] = "session"}} /\ tun = (conn # NoRef)

-----------------------------------------------------------------------------
(* The core.                                                               *)

\* Broadcast: every connected client gets every frame (an application state is of use
\* to the one who asked only).  frames holds one frame or none.
InSession(c) == cli[c].pc \in {"state", "wait"}
Hears(c, f) == InSession(c) /\ (f.k = "state" => f.id[1] = c)
Sent(frames) ==
  [c \in Clients |-> IF \A i \in DOMAIN frames : Hears(c, frames[i]) THEN inbox[c] \o frames ELSE inbox[c]]
Frame(k, id) == [k |-> k, id |-> id]
Warn(id, key) == [k |-> "warn", id |-> id, key |-> key]
NoId == <<"core", 0>>

\* auto_update is optional.
AutoUpdate(gr, r) == IF r.auto = "keep" THEN gr.auto ELSE r.auto = "on"

\* A group that still carries the provider's name follows it; an update sets the
\* provider's name to the host of the address first.
UpdateGroupConfig(gr, r) ==
  LET sub == IF Host(r.url) # "" THEN Host(r.url) ELSE gr.sub
      follow == r.name = "" \/ (gr.name \in {"", gr.sub} /\ r.name = gr.name)
  IN [gr EXCEPT !.auto = AutoUpdate(gr, r),
                !.sub = sub,
                !.url = IF r.url = "none" THEN @ ELSE r.url,
                !.name = IF ~follow THEN r.name ELSE IF sub = "" THEN "unnamed" ELSE sub]

\* Removing what is gone succeeds; adding to a group that is gone imports nothing.
Fails(r) ==
  CASE r.k \in {"rename", "connect"} -> ~Exists(db, r.ref)
    [] r.k = "move" -> ~Exists(db, r.ref) \/ r.to \notin Of(db)
    [] r.k \in {"reorder", "update"} -> r.g \notin Of(db)
    [] r.k = "addgroup" -> db.last = MaxGid
    [] OTHER -> FALSE

\* A new profile comes last, under an identifier of its own.
WithProfile(gr) == [gr EXCEPT !.ps = Append(@, gr.last + 1), !.last = @ + 1]
\* A group stands in the order once, so removing its first entry removes it.
Stored(d, r) ==
  CASE r.k = "add" /\ r.g \in Of(d) ->
         [d EXCEPT !.g[r.g] = WithProfile(@)]
    [] r.k = "delete" ->
         [d EXCEPT !.g = [g \in Gids |-> [d.g[g] EXCEPT !.ps = Without(@, {ref[2] : ref \in {x \in r.refs : x[1] = g}})]]]
    [] r.k = "move" ->
         LET left == [d EXCEPT !.g[r.ref[1]].ps = Without(@, {r.ref[2]})]
         IN [left EXCEPT !.g[r.to] = WithProfile(@)]
    [] r.k = "reorder" -> [d EXCEPT !.g[r.g].ps = Arrange(r.ids, ToSet(@))]
    [] r.k = "groups" -> [d EXCEPT !.order = Arrange(r.ids, ToSet(@))]
    [] r.k = "update" -> [d EXCEPT !.g[r.g] = UpdateGroupConfig(@, r)]
    [] r.k = "delgroup" -> [d EXCEPT !.order = RemoveFirst(@, r.g), !.g[r.g].ps = <<>>]
    [] r.k = "addgroup" ->
         LET name == IF r.name = "" THEN Host(r.url) ELSE r.name IN
         [d EXCEPT !.last = @ + 1, !.order = Append(@, d.last + 1),
                   !.g[d.last + 1] = Group(name, Host(r.url), r.url, <<>>)]
    [] OTHER -> d

\* AddGroup and UpdateGroup start a refresh in the background.
Spawned(r, id) ==
  CASE r.k = "refresh" -> {[g |-> r.g, id |-> id]}
    [] r.k = "addgroup" /\ r.url # "none" -> {[g |-> db.last + 1, id |-> id]}
    [] r.k = "update" /\ r.url \notin {"none", db.g[r.g].url} -> {[g |-> r.g, id |-> id]}
    [] OTHER -> {}

Answer(r, id) ==
  CASE r.k = "state" -> <<[k |-> "state", id |-> id, db |-> db, conn |-> conn, tun |-> tun]>>
    [] r.k = "delete" -> <<[k |-> "delete", id |-> id, n |-> Cardinality(r.refs)]>>
    [] r.k = "add" -> <<[k |-> "add", id |-> id, n |-> IF r.g \in Of(db) THEN 1 ELSE 0]>>
    [] r.k = "addgroup" -> <<[k |-> "addgroup", id |-> id, g |-> db.last + 1]>>
    [] r.k = "refresh" -> <<>>
    [] OTHER -> <<Frame(r.k, id)>>

Record(c, ok) == IF ok THEN [did EXCEPT ![c].ok = @ + 1] ELSE [did EXCEPT ![c].bad = @ + 1]

Outdated(r) == r.k = "update" /\ ~Fails(r) /\ r.seen # <<db.g[r.g].name, db.g[r.g].url>>

\* The commands on groups and profiles.
HandleStore(c, r, id) ==
  /\ r.k \notin {"connect", "disconnect", "tun"}
  /\ db' = IF Fails(r) THEN db ELSE Stored(db, r)
  /\ conn' = IF r.k = "move" /\ ~Fails(r) /\ conn = r.ref THEN <<r.to, db.g[r.to].last + 1>> ELSE conn
  /\ jobs' = IF Fails(r) THEN jobs ELSE jobs \cup Spawned(r, id)
  /\ inbox' = Sent(IF Fails(r) THEN <<Warn(id, "failed")>> ELSE Answer(r, id))
  /\ did' = IF r.k \in {"state", "refresh"} THEN did
            ELSE Record(c, ~Fails(r) /\ (r.k # "add" \/ r.g \in Of(db)))
  /\ meant' = IF Fails(r) THEN meant
              ELSE CASE r.k = "update" /\ r.of = "name" -> [meant EXCEPT ![r.g].name = r.name]
                     [] r.k = "update" /\ r.of = "url" -> [meant EXCEPT ![r.g].url = r.url]
                     [] r.k = "addgroup" -> [meant EXCEPT ![db.last + 1] = [name |-> r.name, url |-> r.url]]
                     [] OTHER -> meant
  /\ raced' = (raced \/ Outdated(r))
  /\ UNCHANGED <<tun, posted>>

\* Connect, Disconnect, EnableTun, DisableTun: their results are status messages, sent
\* without an identifier.  A switch stops the old session first; the profile may not
\* start, and TUN mode may not come up.
HandleSession(c, r, id, starts, up) ==
  LET known == r.k # "connect" \/ Exists(db, r.ref)
      joined == r.k = "connect" /\ known /\ starts
      on == CASE r.k = "connect" -> IF known THEN joined /\ tun /\ up ELSE tun
              [] r.k = "disconnect" -> FALSE
              [] r.k = "tun" -> IF r.on THEN conn # NoRef /\ (tun \/ up) ELSE FALSE
      refused == r.k = "tun" /\ r.on /\ (conn = NoRef \/ tun \/ ~up)
  IN
  /\ r.k \in {"connect", "disconnect", "tun"}
  /\ conn' = CASE joined -> r.ref [] r.k = "tun" \/ ~known -> conn [] OTHER -> NoRef
  /\ tun' = on
  /\ posted' =
       [status |-> posted.status \o (CASE r.k = "tun" \/ ~known -> <<>>
                                       [] joined -> <<NoRef, r.ref>>
                                       [] OTHER -> <<NoRef>>),
        tun |-> posted.tun \o (CASE r.k = "tun" -> IF refused THEN <<>> ELSE <<r.on>>
                                 [] r.k = "disconnect" -> <<FALSE>>
                                 [] r.k = "connect" /\ known /\ tun -> IF on THEN <<FALSE, TRUE>> ELSE <<FALSE>>
                                 [] OTHER -> <<>>)]
  /\ inbox' = Sent(CASE r.k = "connect" /\ ~joined -> <<Warn(id, "failed")>>
                     [] refused \/ (joined /\ tun /\ ~up) -> <<Warn(id, "tun")>>
                     [] OTHER -> <<>>)
  /\ did' = Record(c, ~refused /\ (r.k = "connect" => joined))
  /\ UNCHANGED <<db, jobs, meant, raced>>

HandleRequest(c) ==
  /\ toCore[c] # <<>>
  /\ LET m == Head(toCore[c]) IN
       \/ HandleStore(c, m.r, m.id)
       \/ \E starts, up \in BOOLEAN : HandleSession(c, m.r, m.id, starts, up)
  /\ toCore' = [toCore EXCEPT ![c] = Tail(@)]
  /\ UNCHANGED <<cli, last, faults, scene>>

\* updateSubscriptionLocked: the title comes with the answer of the provider; the merge
\* keeps the first profile.
RefreshDone(j, ok) ==
  LET gr == db.g[j.g]
      fine == ok /\ j.g \in Of(db) /\ gr.url # "none"
      merged == [gr EXCEPT !.name = IF @ \in {"", gr.sub} THEN "title" ELSE @, !.sub = "title",
                           !.ps = IF @ = <<>> THEN <<gr.last + 1>> ELSE <<@[1]>>,
                           !.last = IF gr.ps = <<>> THEN @ + 1 ELSE @] IN
  /\ j \in jobs /\ jobs' = jobs \ {j}
  /\ db' = IF fine THEN [db EXCEPT !.g[j.g] = merged] ELSE db
  /\ inbox' = Sent(<<IF fine THEN Frame("subscription", j.id) ELSE Warn(j.id, "failed")>>)
  /\ did' = IF cli[j.id[1]].cmd.k = "srefresh" THEN Record(j.id[1], fine) ELSE did
  /\ UNCHANGED <<conn, tun, posted, toCore, cli, last, meant, raced, faults, scene>>

BroadcastStatus ==
  /\ \/ /\ posted.status # <<>>
        /\ posted' = [posted EXCEPT !.status = Tail(@)]
        /\ inbox' = Sent(<<[k |-> "status", ref |-> Head(posted.status)]>>)
     \/ /\ posted.tun # <<>>
        /\ posted' = [posted EXCEPT !.tun = Tail(@)]
        /\ inbox' = Sent(<<[k |-> "tunstatus", on |-> Head(posted.tun)]>>)
  /\ UNCHANGED <<db, conn, tun, jobs, toCore, cli, last, history, faults, scene>>

Drop ==
  /\ conn # NoRef /\ faults < MaxFaults
  /\ conn' = NoRef /\ tun' = FALSE /\ faults' = faults + 1
  /\ posted' = [status |-> Append(posted.status, NoRef),
                tun |-> IF tun THEN Append(posted.tun, FALSE) ELSE posted.tun]
  /\ inbox' = Sent(<<Warn(NoId, "exited")>>)
  /\ UNCHANGED <<db, jobs, toCore, cli, last, history, scene>>

-----------------------------------------------------------------------------
(* Selectors: an identifier or a name; every match, exact ones first.      *)

Sel(by, g, id, name) == [by |-> by, g |-> g, id |-> id, name |-> name]
ById(i) == Sel("id", 0, i, "")
ByRef(g, p) == Sel("ref", g, p, "")
ByName(n) == Sel("name", 0, 0, n)
NoSel == Sel("none", 0, 0, "")
AllSel == Sel("all", 0, 0, "")
NameContains(name, v) == name = v \/ (v = "host" /\ name \in {"host1", "host2"})
GroupHits(d, sel) ==
  LET exact == {g \in Of(d) : d.g[g].name = sel.name}
  IN IF sel.by = "id" THEN {sel.id} \cap Of(d)
     ELSE IF exact # {} THEN exact
     ELSE {g \in Of(d) : NameContains(d.g[g].name, sel.name)}
ProfileHits(d, sel) ==
  {ref \in Of(d) \X {sel.id} : Exists(d, ref) /\ (sel.by = "ref" => ref[1] = sel.g)}
Single(S) == Cardinality(S) = 1
The(S) == CHOOSE x \in S : TRUE

-----------------------------------------------------------------------------
(* Plans.  A stage sends requests and waits for one answer, or for none    *)
(* (then it is the last); Usage is an error found before anything is sent. *)

Usage == <<[send |-> <<>>, await |-> [k |-> "usage"]]>>
NoAwait == [k |-> "none"]
\* need: how many items the answer must report; soft: a failure is only mentioned.
Reply(kind, need, soft) == [k |-> "id", expect |-> kind, need |-> need, soft |-> soft]
Stage(r, await) == [send |-> <<r>>, await |-> await]
Request(r, kind) == <<Stage(r, Reply(kind, 0, FALSE))>>
Maybe(wait, await) == IF wait THEN await ELSE NoAwait

\* select_target: what was named, else the first of the group, else the last used, else
\* the first there is.
SelectTarget(d, cfg, cmd) ==
  LET used == {g \in Of(d) : d.g[g].ps # <<>>}
      firsts == SelectSeq(d.order, LAMBDA g : g \in used) IN
  IF cmd.sel.by # "none" THEN ProfileHits(d, cmd.sel)
  ELSE IF cmd.group.by # "none"
  THEN {<<g, d.g[g].ps[1]>> : g \in IF Single(GroupHits(d, cmd.group)) THEN GroupHits(d, cmd.group) \cap used ELSE {}}
  ELSE IF Exists(d, cfg) THEN {cfg}
  ELSE {<<firsts[1], d.g[firsts[1]].ps[1]>> : i \in 1..(IF firsts = <<>> THEN 0 ELSE 1)}

ConnectPlan(s, cfg, cmd) ==
  LET hits == SelectTarget(s.db, cfg, cmd) IN
  IF ~Single(hits) THEN Usage
  ELSE <<Stage([k |-> "connect", ref |-> The(hits)], Maybe(cmd.wait, [k |-> "up", ref |-> The(hits)]))>>

DisconnectPlan(s, cmd) ==
  IF s.conn = NoRef THEN <<>>
  ELSE <<Stage([k |-> "disconnect"], Maybe(cmd.wait, [k |-> "down"]))>>

ModePlan(s, cmd) ==
  LET want == IF cmd.to = "toggle" THEN ~s.tun ELSE cmd.to = "tun" IN
  IF cmd.to = "status" \/ want = s.tun THEN <<>>
  ELSE <<Stage([k |-> "tun", on |-> want], [k |-> "tun", on |-> want])>>

\* profile add: a group that is not there is created first; of several with the name the
\* first is taken; without a name, the first of all.
ExactGroup(d, sel) ==
  SelectSeq(d.order, LAMBDA g : CASE sel.by = "id" -> g = sel.id
                                  [] sel.by = "name" -> d.g[g].name = sel.name
                                  [] OTHER -> TRUE)
AddPlan(s, cmd) ==
  LET hits == ExactGroup(s.db, cmd.sel)
      add(g) == Stage([k |-> "add", g |-> g], Reply("add", 1, FALSE)) IN
  IF hits # <<>> THEN <<add(hits[1])>>
  ELSE IF cmd.sel.by = "none" THEN Usage
  ELSE Request([k |-> "addgroup", name |-> IF cmd.sel.by = "id" THEN "digits" ELSE cmd.sel.name, url |-> "none"], "addgroup") \o <<add(0)>>

\* profile rm: every selector is resolved before the one request is sent.
RemovePlan(s, cmd) ==
  LET found == [i \in DOMAIN cmd.sels |-> ProfileHits(s.db, cmd.sels[i])]
      refs == UNION ToSet(found) IN
  IF \E i \in DOMAIN found : ~Single(found[i]) THEN Usage
  ELSE <<Stage([k |-> "delete", refs |-> refs], Reply("delete", Cardinality(refs), FALSE))>>

RenamePlan(s, cmd) ==
  LET hits == ProfileHits(s.db, cmd.sel) IN
  IF ~Single(hits) THEN Usage ELSE Request([k |-> "rename", ref |-> The(hits)], "rename")

MovePlan(s, cmd) ==
  LET hits == ProfileHits(s.db, cmd.sel)
      to == GroupHits(s.db, cmd.to) IN
  IF ~Single(hits) \/ ~Single(to) \/ The(hits)[1] \in to THEN Usage
  ELSE Request([k |-> "move", ref |-> The(hits), to |-> The(to)], "move")

\* profile reorder: the same profiles, possibly listed twice.
ReorderPlan(s, cmd) ==
  LET hits == GroupHits(s.db, cmd.sel) IN
  IF ~Single(hits) \/ ToSet(s.db.g[The(hits)].ps) # ToSet(cmd.ids) THEN Usage
  ELSE Request([k |-> "reorder", g |-> The(hits), ids |-> cmd.ids], "reorder")

\* sub add asks for no snapshot; the refresh answers under the same identifier.
SubAddPlan(cmd) ==
  Request([k |-> "addgroup", name |-> cmd.name, url |-> cmd.url], "addgroup")
    \o (IF cmd.wait THEN <<[send |-> <<>>, await |-> Reply("subscription", 0, TRUE)]>> ELSE <<>>)

SubRemovePlan(s, cmd) ==
  LET hits == GroupHits(s.db, cmd.sel) IN
  IF ~Single(hits) THEN Usage ELSE Request([k |-> "delgroup", g |-> The(hits)], "delgroup")

\* sub refresh: all, the named one, the connected one, or the one last used.
RefreshTargets(s, cfg, cmd) ==
  CASE cmd.sel.by = "all" -> s.db.order
    [] cmd.sel.by \notin {"all", "none"} -> IF Single(GroupHits(s.db, cmd.sel)) THEN <<The(GroupHits(s.db, cmd.sel))>> ELSE <<>>
    [] OTHER -> LET g == (IF s.conn # NoRef THEN s.conn ELSE cfg)[1] IN IF g \in Of(s.db) THEN <<g>> ELSE <<>>
RefreshPlan(s, cfg, cmd) ==
  LET targets == RefreshTargets(s, cfg, cmd)
      ask(i) == [k |-> "refresh", g |-> targets[i]] IN
  IF targets = <<>> THEN Usage
  ELSE IF cmd.wait THEN [i \in DOMAIN targets |-> Stage(ask(i), Reply("subscription", 0, FALSE))]
  ELSE <<[send |-> [i \in DOMAIN targets |-> ask(i)], await |-> NoAwait]>>

\* update-group carries name and address in any case: the one that is not meant to change
\* comes from the snapshot.
Update(d, g, of, name, url, auto) ==
  [k |-> "update", g |-> g, of |-> of, name |-> name, url |-> url, auto |-> auto,
   seen |-> <<d.g[g].name, d.g[g].url>>]
\* Mutant: a new address is sent without the name.
UpdatePlanBlank(s, cmd) ==
  LET hits == GroupHits(s.db, cmd.sel)
      g == The(hits) IN
  IF ~Single(hits) THEN Usage
  ELSE Request(CASE cmd.k = "srename" -> Update(s.db, g, "name", cmd.name, s.db.g[g].url, "keep")
                 [] cmd.k = "surl" -> Update(s.db, g, "url", "", cmd.url, "keep")
                 [] OTHER -> Update(s.db, g, "auto", s.db.g[g].name, s.db.g[g].url, cmd.to), "update")

UpdatePlan(s, cmd) ==
  LET hits == GroupHits(s.db, cmd.sel)
      g == The(hits) IN
  IF ~Single(hits) THEN Usage
  ELSE Request(CASE cmd.k = "srename" -> Update(s.db, g, "name", cmd.name, s.db.g[g].url, "keep")
                 [] cmd.k = "surl" -> Update(s.db, g, "url", s.db.g[g].name, cmd.url, "keep")
                 [] OTHER -> Update(s.db, g, "auto", s.db.g[g].name, s.db.g[g].url, cmd.to), "update")

\* sub reorder: positions count from 1; 0 is taken for 1, what is too large for the last.
MovedTo(order, g, pos) ==
  LET rest == RemoveFirst(order, g)
      zero == IF pos = 0 THEN 0 ELSE pos - 1
      to == IF zero < Len(rest) THEN zero ELSE Len(rest)
  IN SubSeq(rest, 1, to) \o <<g>> \o SubSeq(rest, to + 1, Len(rest))
SubReorderPlan(s, cmd) ==
  LET hits == GroupHits(s.db, cmd.sel) IN
  IF ~Single(hits) THEN Usage
  ELSE Request([k |-> "groups", ids |-> MovedTo(s.db.order, The(hits), cmd.pos)], "groups")

Plan(s, cfg, cmd) ==
  CASE cmd.k = "connect" -> ConnectPlan(s, cfg, cmd)
    [] cmd.k = "disconnect" -> DisconnectPlan(s, cmd)
    [] cmd.k = "mode" -> ModePlan(s, cmd)
    [] cmd.k = "padd" -> AddPlan(s, cmd)
    [] cmd.k = "prm" -> RemovePlan(s, cmd)
    [] cmd.k = "prename" -> RenamePlan(s, cmd)
    [] cmd.k = "pmove" -> MovePlan(s, cmd)
    [] cmd.k = "preorder" -> ReorderPlan(s, cmd)
    [] cmd.k = "srm" -> SubRemovePlan(s, cmd)
    [] cmd.k = "srefresh" -> RefreshPlan(s, cfg, cmd)
    [] cmd.k = "sreorder" -> SubReorderPlan(s, cmd)
    [] cmd.k \in {"srename", "surl", "sauto"} -> UpdatePlan(s, cmd)
    [] OTHER -> <<>>

-----------------------------------------------------------------------------
(* The process.                                                            *)

\* Selectors a user would type for this core.
GroupSels == {ById(1), ByName("mine"), ByName("host")}
ProfileSels == {ByRef(1, 1), ById(1), ById(2)}
Connects(sel, group, wait) == [k |-> "connect", sel |-> sel, group |-> group, wait |-> wait]
SessionCommands ==
  {Connects(ById(1), NoSel, TRUE), Connects(NoSel, NoSel, FALSE), Connects(NoSel, ByName("mine"), TRUE)}
    \cup [k : {"disconnect", "toggle"}, wait : {TRUE}]
    \cup [k : {"mode"}, to : {"tun", "toggle"}]
ProfileCommands ==
  [k : {"padd"}, sel : {NoSel, ById(2), ByName("mine"), ByName("new")}]
    \cup [k : {"prm"}, sels : {<<ByRef(1, 1), p>> : p \in ProfileSels}]
    \cup [k : {"prename"}, sel : {ByRef(1, 1), ById(2)}]
    \cup [k : {"pmove"}, sel : {ByRef(1, 1), ById(2)}, to : {ById(2), ByName("title")}]
    \cup [k : {"preorder"}, sel : {ById(1)}, ids : {<<2, 1>>, <<2, 2, 1>>, <<2>>}]
    \cup [k : {"list"}]
SubCommands ==
  [k : {"sadd"}, name : {"", "mine"}, url : {"u2"}, wait : {TRUE}]
    \cup [k : {"srm"}, sel : GroupSels]
    \cup [k : {"srefresh"}, sel : {AllSel}, wait : BOOLEAN]
    \cup [k : {"srefresh"}, sel : {NoSel, ByName("mine")}, wait : {TRUE}]
    \cup [k : {"srename"}, sel : {ById(1)}, name : {"", "mine"}]
    \cup [k : {"surl"}, sel : {ById(1)}, url : {"u2"}]
    \cup [k : {"sauto"}, sel : {ByName("title")}, to : {"on", "off"}]
    \cup [k : {"sreorder"}, sel : {ById(1)}, pos : 0..3]
Commands(fam) ==
  CASE fam = "session" -> SessionCommands \cup [k : {"prm"}, sels : {<<ByRef(2, 1)>>}]
    [] fam = "profile" -> ProfileCommands
    [] OTHER -> SubCommands

Done(c, out) ==
  /\ cli' = [cli EXCEPT ![c].pc = "done", ![c].out = out, ![c].todo = <<>>]
  /\ inbox' = [inbox EXCEPT ![c] = <<>>]
  /\ UNCHANGED <<toCore, last>>

\* Send what the next stage sends; connect also saves the target as the last one used.
Enter(c, p, stages, got) ==
  IF stages = <<>> THEN Done(c, "ok")
  ELSE LET st == Head(stages)
           rs == [i \in DOMAIN st.send |-> [r |-> IF st.send[i].k = "add" /\ st.send[i].g = 0
                                                  THEN [st.send[i] EXCEPT !.g = got] ELSE st.send[i],
                                            id |-> <<c, p.n + i>>]]
           over == st.await.k \in {"none", "usage"} IN
       /\ toCore' = [toCore EXCEPT ![c] = @ \o rs]
       /\ last' = IF rs # <<>> /\ rs[1].r.k = "connect" THEN rs[1].r.ref ELSE last
       /\ cli' = [cli EXCEPT ![c] = [p EXCEPT !.pc = IF over THEN "done" ELSE "wait",
                                              !.n = @ + Len(rs), !.got = got,
                                              !.todo = IF over THEN <<>> ELSE stages,
                                              !.out = CASE st.await.k = "usage" -> "usage"
                                                        [] st.await.k = "none" -> "ok" [] OTHER -> @]]
       /\ inbox' = [inbox EXCEPT ![c] = IF over THEN <<>> ELSE Tail(@)]

\* Session::open_or_spawn and the request for the application state.
Open(c, cmd) ==
  /\ cli[c].pc = "idle" /\ cmd \in Commands(scene[c])
  /\ LET p == [Idle EXCEPT !.pc = "state", !.cmd = cmd, !.cfg = last]
         plan == SubAddPlan(cmd) IN
     IF cmd.k = "sadd"
     THEN /\ cli' = [cli EXCEPT ![c] = [p EXCEPT !.pc = "wait", !.n = 1, !.todo = plan]]
          /\ toCore' = [toCore EXCEPT ![c] = <<[r |-> plan[1].send[1], id |-> <<c, 1>>]>>]
     ELSE /\ cli' = [cli EXCEPT ![c] = p]
          /\ toCore' = [toCore EXCEPT ![c] = <<[r |-> [k |-> "state"], id |-> <<c, 0>>]>>]
  /\ UNCHANGED <<db, conn, tun, posted, jobs, inbox, last, history, faults, scene>>

Skip(c) ==
  /\ inbox' = [inbox EXCEPT ![c] = Tail(@)]
  /\ UNCHANGED <<toCore, cli, last>>

\* toggle decides on one snapshot and runs the command, which opens a session of its own.
ReadState(c) ==
  LET f == Head(inbox[c])
      p == cli[c] IN
  /\ p.pc = "state" /\ inbox[c] # <<>>
  /\ IF f.k # "state" \/ f.id # <<c, p.n>> THEN Skip(c)
     ELSE IF p.cmd.k = "toggle"
     THEN LET cmd == IF f.conn # NoRef THEN [k |-> "disconnect", wait |-> p.cmd.wait] ELSE Connects(NoSel, NoSel, p.cmd.wait) IN
          /\ cli' = [cli EXCEPT ![c] = [p EXCEPT !.cmd = cmd, !.cfg = last, !.n = @ + 1]]
          /\ toCore' = [toCore EXCEPT ![c] = <<[r |-> [k |-> "state"], id |-> <<c, p.n + 1>>]>>]
          /\ inbox' = [inbox EXCEPT ![c] = <<>>]
          /\ UNCHANGED last
     ELSE Enter(c, p, Plan(f, p.cfg, p.cmd), 0)
  /\ UNCHANGED <<db, conn, tun, posted, jobs, history, faults, scene>>

\* Session::wait.
Fatal(await) == CASE await.k = "id" -> {"failed"} [] await.k = "up" -> {"failed"}
                  [] await.k = "tun" -> {"tun"} [] OTHER -> {}
\* Mutant: an answer is taken by its kind alone.
MatchesAny(await, f, id) ==
  CASE await.k = "id" -> f.k = await.expect
    [] await.k = "up" -> f.k = "status" /\ f.ref = await.ref
    [] await.k = "down" -> f.k = "status" /\ f.ref = NoRef
    [] await.k = "tun" -> f.k = "tunstatus" /\ f.on = await.on

MatchesReply(await, f, id) ==
  CASE await.k = "id" -> f.k = await.expect /\ f.id = id
    [] await.k = "up" -> f.k = "status" /\ f.ref = await.ref
    [] await.k = "down" -> f.k = "status" /\ f.ref = NoRef
    [] await.k = "tun" -> f.k = "tunstatus" /\ f.on = await.on

ReadReply(c) ==
  LET f == Head(inbox[c])
      p == cli[c]
      w == Head(p.todo).await
      id == <<c, p.n>> IN
  /\ p.pc = "wait" /\ inbox[c] # <<>>
  /\ CASE f.k = "warn" ->
            IF f.id # id \/ f.key \notin Fatal(w) THEN Skip(c)
            ELSE Done(c, IF w.k = "id" /\ w.soft THEN "ok" ELSE "failed")
       [] f.k # "warn" /\ ~MatchesReply(w, f, id) -> Skip(c)
       [] OTHER ->
            IF w.k = "id" /\ w.need > 0 /\ f.n # w.need THEN Done(c, "failed")
            ELSE Enter(c, p, Tail(p.todo), IF f.k = "addgroup" THEN f.g ELSE p.got)
  /\ UNCHANGED <<db, conn, tun, posted, jobs, history, faults, scene>>

Timeout(c) ==
  /\ InSession(c) /\ inbox[c] = <<>> /\ faults < MaxFaults
  /\ Done(c, "timeout")
  /\ faults' = faults + 1
  /\ UNCHANGED <<db, conn, tun, posted, jobs, history, scene>>

CoreStep ==
  \/ \E c \in Clients : HandleRequest(c)
  \/ \E j \in jobs, ok \in BOOLEAN : RefreshDone(j, ok)
  \/ BroadcastStatus \/ Drop
CliStep(c) ==
  \/ \E cmd \in Commands(scene[c]) : Open(c, cmd)
  \/ ReadState(c) \/ ReadReply(c) \/ Timeout(c)
CliNext == CoreStep \/ \E c \in Clients : CliStep(c)
CliSpec == CliInit /\ [][CliNext]_cliVars

-----------------------------------------------------------------------------
(* Properties.                                                             *)

Awaited == {"padd", "prm", "prename", "pmove", "preorder", "sadd", "srm", "srename", "surl", "sauto", "sreorder"}
ByAnswer(c) == cli[c].cmd.k \in Awaited \/ (cli[c].cmd.k = "srefresh" /\ cli[c].cmd.wait)

\* A command that reports success had each of its requests carried out, and one that
\* reports failure had one refused, whatever the core broadcasts for other clients in
\* between (Session::wait picks answers by identifier).
OutcomeIsOwn ==
  \A c \in Clients :
    /\ cli[c].out = "ok" /\ ByAnswer(c) => did[c] = [ok |-> cli[c].n, bad |-> 0]
    /\ cli[c].out = "failed" => did[c].bad > 0

\* Commands that change one setting of a subscription leave the others alone: the address
\* is the one last asked for and a name the user chose stays, as long as no command
\* worked from an outdated snapshot (update-group always carries name and address).
EditsKept ==
  raced \/ \A g \in Gids : g \in Of(db) => /\ db.g[g].url = meant[g].url
                                           /\ meant[g].name = "" \/ db.g[g].name = meant[g].name

Handled(c) == toCore[c] # <<>> /\ toCore'[c] = Tail(toCore[c])

\* Turning automatic updates on or off leaves the name of the group alone
\* (docs/integrations/cli.md:137).
AutoPreservesName ==
  [][\A c \in Clients :
       LET r == Head(toCore[c]).r IN
       Handled(c) /\ r.k = "update" /\ r.of = "auto" /\ r.g \in Of(db)
         /\ r.seen = <<db.g[r.g].name, db.g[r.g].url>> => db'.g[r.g].name = db.g[r.g].name]_cliVars
=============================================================================
