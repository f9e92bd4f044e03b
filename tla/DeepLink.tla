------------------------------ MODULE DeepLink ------------------------------
(***************************************************************************)
(* A wit:// link that adds a subscription, a profile or a Happ routing     *)
(* (deeplink/actions.rs).  Unlike a command the process does not mark its  *)
(* requests: it takes the answers out of what the core broadcasts to all   *)
(* clients, by kind and group.  Connect, disconnect and toggle run the     *)
(* commands of CliSession.                                                 *)
(***************************************************************************)
EXTENDS Naturals, Sequences, SequencesExt

CONSTANT MaxMeddling  \* bound: requests of other clients

VARIABLES
  up,       \* the core runs
  shelf,    \* core: its groups, in order, and the last identifier
  wanted,   \* requests of the link process
  fetching, \* core: the groups whose subscription is being fetched
  heard,    \* broadcasts the link process has not read, and who caused them
  link,     \* the link process
  meddling, \* requests of other clients so far
  fetched,  \* history: groups whose subscription was fetched
  imported, \* history: groups that got the routing of the link
  placed,   \* history: name of the group that got the profile of the link
  misread   \* history: a frame caused by another client was taken for the answer

linkVars == <<up, shelf, wanted, fetching, heard, link, meddling, fetched, imported, placed, misread>>
linkHistory == <<fetched, imported, placed, misread>>

\* A group is wanted by its name, by a text that is a number, or not at all.
Anywhere == [id |-> 0, name |-> ""]
Wants == {Anywhere, [id |-> 0, name |-> "x"], [id |-> 2, name |-> "2"], [id |-> 0, name |-> "new"]}
Links == [k : {"sub"}, want : {[id |-> 0, name |-> "new"]}] \cup [k : {"profile", "happ"}, want : Wants]
NoLink == [pc |-> "idle", job |-> [k |-> "none", want |-> Anywhere], target |-> 0, seen |-> 0, said |-> "nothing"]

LinkInit ==
  /\ up \in BOOLEAN
  /\ shelf \in {[gs |-> <<>>, last |-> 0], [gs |-> <<[id |-> 1, name |-> "x"]>>, last |-> 1],
                [gs |-> <<[id |-> 1, name |-> "2"], [id |-> 2, name |-> "x"]>>, last |-> 2]}
  /\ wanted = <<>> /\ fetching = {} /\ heard = <<>> /\ link = NoLink
  /\ meddling = 0 /\ fetched = {} /\ imported = {} /\ placed = "none" /\ misread = FALSE

-----------------------------------------------------------------------------
(* The core.                                                               *)

Linked == link.pc \notin {"idle", "done"}
Cast(fs) == heard' = IF Linked THEN heard \o fs ELSE <<>>
Notice(k, g, by) == [k |-> k, g |-> g, by |-> by, gs |-> <<>>]
OnShelf(g) == \E i \in DOMAIN shelf.gs : shelf.gs[i].id = g
NameOf(g) == shelf.gs[SelectInSeq(shelf.gs, LAMBDA x : x.id = g)].name

\* add-group answers at once, and fetches the subscription in the background.
ShelveGroup(name, url, by) ==
  \/ /\ shelf' = [gs |-> Append(shelf.gs, [id |-> shelf.last + 1, name |-> name]), last |-> shelf.last + 1]
     /\ fetching' = IF url THEN fetching \cup {shelf.last + 1} ELSE fetching
     /\ Cast(<<Notice("groupadded", shelf.last + 1, by)>>)
  \/ /\ Cast(<<Notice("addgroupwarn", 0, by)>>)
     /\ UNCHANGED <<shelf, fetching>>
FetchDone(g) ==
  /\ g \in fetching /\ fetching' = fetching \ {g}
  /\ \/ OnShelf(g) /\ Cast(<<Notice("subscription", g, "link")>>) /\ fetched' = fetched \cup {g}
     \/ Cast(<<Notice("subwarn", g, "link")>>) /\ UNCHANGED fetched
  /\ UNCHANGED <<up, shelf, wanted, link, meddling, imported, placed, misread>>

\* A profile for a group that is gone is dropped, and the answer is the same.
CoreServesLink ==
  /\ wanted # <<>> /\ wanted' = Tail(wanted)
  /\ LET r == Head(wanted) IN
       \/ /\ r.k = "state" /\ Cast(<<[Notice("state", 0, "link") EXCEPT !.gs = shelf.gs]>>)
          /\ UNCHANGED <<shelf, fetching, imported, placed>>
       \/ /\ r.k = "addgroup" /\ ShelveGroup(r.name, r.url, "link")
          /\ UNCHANGED <<imported, placed>>
       \/ /\ r.k = "addprofile" /\ Cast(<<Notice("profiles", r.g, "link")>>)
          /\ placed' = IF OnShelf(r.g) THEN NameOf(r.g) ELSE placed
          /\ UNCHANGED <<shelf, fetching, imported>>
       \/ /\ r.k = "happ"
          /\ \/ OnShelf(r.g) /\ Cast(<<Notice("subscription", r.g, "link")>>) /\ imported' = imported \cup {r.g}
             \/ Cast(<<Notice("happwarn", r.g, "link")>>) /\ UNCHANGED imported
          /\ UNCHANGED <<shelf, fetching, placed>>
  /\ UNCHANGED <<up, link, meddling, fetched, misread>>

\* Another client adds, edits, refreshes, fills or deletes a group.
Meddle ==
  /\ up /\ Linked /\ meddling < MaxMeddling /\ meddling' = meddling + 1
  /\ \/ ShelveGroup("other", FALSE, "other") /\ UNCHANGED fetched
     \/ \E i \in DOMAIN shelf.gs : LET g == shelf.gs[i].id IN
          \/ \E k \in {"groupupdated", "profiles", "subwarn"} :
               Cast(<<Notice(k, g, "other")>>) /\ UNCHANGED <<shelf, fetching, fetched>>
          \/ Cast(<<Notice("subscription", g, "other")>>) /\ fetched' = fetched \cup {g} /\ UNCHANGED <<shelf, fetching>>
          \/ /\ shelf' = [shelf EXCEPT !.gs = RemoveAt(@, i)]
             /\ Cast(<<Notice("groupdeleted", g, "other")>>) /\ UNCHANGED <<fetching, fetched>>
  /\ UNCHANGED <<up, wanted, link, imported, placed, misread>>

-----------------------------------------------------------------------------
(* The link process.                                                       *)

FirstId(gs, Test(_)) == LET i == SelectInSeq(gs, Test) IN IF i = 0 THEN 0 ELSE gs[i].id
Named(gs, w) == FirstId(gs, LAMBDA x : x.name = w.name)

\* The group of a profile: 0 if it must be added first.  Without a name the first one.
ProfileTarget(gs, w) ==
  IF w # Anywhere THEN Named(gs, w) ELSE IF gs = <<>> THEN 1 ELSE gs[1].id

\* The group of a routing, by identifier, then by name; without one the only group.
HappTarget(gs, w) ==
  IF w = Anywhere THEN (IF Len(gs) = 1 THEN gs[1].id ELSE 0)
  ELSE LET byId == FirstId(gs, LAMBDA x : w.id # 0 /\ x.id = w.id) IN IF byId # 0 THEN byId ELSE Named(gs, w)

Says(what) == [link EXCEPT !.pc = "done", !.said = what]
Go(pc, target) == [link EXCEPT !.pc = pc, !.target = target]
AddGroupRequest(url) == [k |-> "addgroup", name |-> link'.job.want.name, url |-> url]

\* ensure_core_connected: a core that does not run is started and waited for.
OpenLink(job) ==
  /\ link.pc = "idle"
  /\ LET first == IF job.k = "sub" THEN "sub" ELSE "state" IN
       \/ /\ up' = TRUE /\ link' = [NoLink EXCEPT !.job = job, !.pc = first]
          /\ wanted' = <<IF job.k = "sub" THEN AddGroupRequest(TRUE) ELSE [k |-> "state"]>>
       \/ /\ ~up /\ up' \in BOOLEAN /\ link' = [NoLink EXCEPT !.job = job, !.pc = "done", !.said = "error"]
          /\ UNCHANGED wanted
  /\ UNCHANGED <<shelf, fetching, heard, meddling, linkHistory>>

Chosen(f) ==
  LET w == link.job.want
      g == IF link.job.k = "happ" THEN HappTarget(f.gs, w) ELSE ProfileTarget(f.gs, w) IN
  IF link.job.k = "happ"
  THEN IF g = 0 THEN link' = Says("error") /\ UNCHANGED wanted
       ELSE link' = Go("happ", g) /\ wanted' = <<[k |-> "happ", g |-> g]>>
  ELSE IF g = 0 THEN link' = Go("group", 0) /\ wanted' = <<AddGroupRequest(FALSE)>>
       ELSE link' = Go("added", g) /\ wanted' = <<[k |-> "addprofile", g |-> g]>>

GroupAnswer(f) ==
  IF f.k = "groupadded" THEN link' = Go("added", f.g) /\ wanted' = <<[k |-> "addprofile", g |-> f.g]>>
  ELSE link' = Says("error") /\ UNCHANGED wanted

\* Mutant: any subscription that was fetched counts.
SubAnswerAny(f) ==
  CASE f.k = "groupadded" -> [link EXCEPT !.seen = f.g]
    [] f.k = "subscription" -> Says("imported")
    [] f.k \in {"subwarn", "addgroupwarn"} -> Says("warned")
    [] OTHER -> link
\* The wait for group-added and subscription-updated, or a warning about either.
SubAnswer(f) ==
  CASE f.k = "groupadded" -> [link EXCEPT !.seen = f.g]
    [] f.k = "subscription" /\ link.seen \in {0, f.g} -> Says("imported")
    [] f.k \in {"subwarn", "addgroupwarn"} -> Says("warned")
    [] OTHER -> link
HappAnswer(f) ==
  CASE f.k \in {"subscription", "groupupdated"} /\ f.g = link.target -> Says("imported")
    [] f.k = "happwarn" -> Says("error")
    [] OTHER -> link

\* A frame another client caused and the link process goes by.
Misread(f) ==
  f.by = "other" /\ \/ f.k = "groupadded"
                    \/ f.k = "subscription" /\ link.seen = 0 /\ link.pc = "sub"
                    \/ link.pc = "happ" /\ f.g = link.target

LinkReads ==
  /\ Linked /\ heard # <<>>
  /\ LET f == Head(heard) IN
     /\ CASE link.pc = "state" /\ f.k = "state" -> Chosen(f)
          [] link.pc = "group" /\ f.k \in {"groupadded", "addgroupwarn"} -> GroupAnswer(f)
          [] link.pc = "added" /\ f.k = "profiles" -> link' = Says("imported") /\ UNCHANGED wanted
          [] link.pc = "sub" -> link' = SubAnswer(f) /\ UNCHANGED wanted
          [] link.pc = "happ" -> link' = HappAnswer(f) /\ UNCHANGED wanted
          [] OTHER -> UNCHANGED <<link, wanted>>
     /\ misread' = (misread \/ Misread(f))
  /\ heard' = IF link'.pc = "done" THEN <<>> ELSE Tail(heard)
  /\ UNCHANGED <<up, shelf, fetching, meddling, fetched, imported, placed>>

\* Out of time: a single answer is missed, the waits for several end with what is known.
LinkTimeout ==
  /\ Linked
  /\ link' = Says(CASE link.pc \in {"state", "group", "added"} -> "error"
                    [] link.pc = "sub" /\ link.seen # 0 -> "background"
                    [] OTHER -> "sent")
  /\ heard' = <<>>
  /\ UNCHANGED <<up, shelf, wanted, fetching, meddling, linkHistory>>

LinkNext ==
  \/ \E job \in Links : OpenLink(job)
  \/ LinkReads \/ LinkTimeout \/ CoreServesLink \/ Meddle
  \/ \E g \in fetching : FetchDone(g)
LinkSpec == LinkInit /\ [][LinkNext]_linkVars

-----------------------------------------------------------------------------
\* "Subscription added" and "routing imported" are said only when that was done in the
\* link's own group, and a profile sent to a named group lands in a group of that name,
\* found or added on the way, whatever other clients refresh; unless one of them added a
\* group, finished a refresh before the link knew its group, or edited the target itself.
LinkReportTrue ==
  ~misread =>
    /\ link.said = "imported" =>
         /\ link.job.k = "sub" => link.seen \in fetched
         /\ link.job.k = "happ" => link.target \in imported
    /\ placed # "none" /\ link.job.want # Anywhere => placed = link.job.want.name
=============================================================================
