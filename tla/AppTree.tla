------------------------------ MODULE AppTree ------------------------------
(***************************************************************************)
(* The Profiles tab of the terminal interface: its copy of the groups and  *)
(* profiles, the cursor in the tree that is drawn from it, search, popups, *)
(* focus, and the details it fetches.  The core owns the groups; it        *)
(* changes them for this interface and for other clients, and broadcasts   *)
(* every change after it was made.                                         *)
(*                                                                         *)
(* A state of the interface is a record; what a key or an event does to it *)
(* is an operator from such records to such records.  The event loop draws *)
(* after every event, so Loop is part of every step.  Cursor and rows are  *)
(* counted from 1.                                                         *)
(***************************************************************************)
EXTENDS ListOrder

CONSTANTS
  MaxGid,     \* bound: group identifiers
  MaxAsks,    \* bound, by scene: commands given on this interface and its reconnects
  MaxOthers,  \* bound, by scene: changes by other clients
  MaxSteps,   \* bound, by scene: all of these
  MaxDrops,   \* bound, by scene: its reconnects alone
  Height,     \* rows of the tree panel
  Scenes,     \* bound: the families of keys of which a behaviour uses one
  Managed     \* the groups whose profiles come as JSON and have details

ASSUME TreeAssumption == MaxGid \in Nat /\ MaxGid >= 2 /\ Height \in Nat \ {0}

VARIABLES
  db,      \* core: groups in order, their profiles, counters, the connection
  sending, \* core: by client, the event of a finished change not yet broadcast
  toCore,  \* requests of the interface, in order
  toTui,   \* events for the interface, in order
  app,     \* the interface
  scene,   \* the family of keys in use: "fold", "reorder", "search", "popup" or "details"
  overlapped,   \* history: a change was made while the event of another one was unsent
  scrambled, \* history: an order was applied that left several entries to the hash map
  asks, others, drops

treeVars == <<db, sending, toCore, toTui, app, scene, overlapped, scrambled, asks, others, drops>>

GidsOf(d) == ToSet(d.order)
Prof(id, ver) == [id |-> id, hit |-> FALSE, ver |-> ver]
NoEvent == [k |-> "none"]
NoRef == <<0, 0>>

-----------------------------------------------------------------------------
(* The core: commands on groups and profiles.                              *)

Ids(ps) == [i \in DOMAIN ps |-> ps[i].id]
Has(d, g, id) == g \in GidsOf(d) /\ \E i \in DOMAIN d.ps[g] : d.ps[g][i].id = id
Find(ps, id) == ps[CHOOSE i \in DOMAIN ps : ps[i].id = id]
Without(ps, id) == Entries(ps, {i \in DOMAIN ps : ps[i].id # id})

ArrangeProfiles(ps, ids) ==
  LET order == Arrange(ids, {p.id : p \in ToSet(ps)})
  IN [i \in DOMAIN order |-> Find(ps, order[i])]

Snapshot(d) == [i \in DOMAIN d.order |-> [id |-> d.order[i], ps |-> d.ps[d.order[i]]]]

\* A command changes the database and has an event tell the clients of it; one that fails
\* changes nothing and only warns.
Done(d, e) == [db |-> d, ev |-> e]

AddProfiles(d, g) ==
  LET p == Prof(d.last[g] + 1, 1) IN
  Done([d EXCEPT !.last[g] = p.id, !.ps[g] = Append(@, p)], [k |-> "added", g |-> g, p |-> p])
\* Removing what is gone succeeds, here and for groups.
DeleteProfiles(d, g, id) ==
  Done([d EXCEPT !.ps[g] = Without(@, id)], [k |-> "deleted", g |-> g, id |-> id])
UpdateProfile(d, g, id) ==
  LET p == [Find(d.ps[g], id) EXCEPT !.hit = ~@] IN
  Done([d EXCEPT !.ps[g] = [i \in DOMAIN @ |-> IF @[i].id = id THEN p ELSE @[i]]],
       [k |-> "updated", g |-> g, p |-> p])
\* The profile gets a new identifier in its new group; a connection to it follows.
MoveProfile(d, g, id, to) ==
  LET p == [Find(d.ps[g], id) EXCEPT !.id = d.last[to] + 1] IN
  Done([d EXCEPT !.ps[g] = Without(@, id), !.ps[to] = Append(@, p), !.last[to] = p.id,
                 !.conn = IF @ = <<g, id>> THEN <<to, p.id>> ELSE @],
       [k |-> "moved", g |-> g, id |-> id, to |-> to, p |-> p])
ReorderProfiles(d, g, ids) ==
  Done([d EXCEPT !.ps[g] = ArrangeProfiles(@, ids)], [k |-> "reordered", g |-> g, ids |-> ids])
ReorderGroups(d, ids) ==
  Done([d EXCEPT !.order = Arrange(ids, GidsOf(d))], [k |-> "groups", ids |-> ids])
AddGroup(d) ==
  LET g == d.glast + 1 IN
  Done([d EXCEPT !.glast = g, !.order = Append(@, g), !.ps[g] = <<>>], [k |-> "groupadded", g |-> g])
DropGroup(d, g) ==
  Done([d EXCEPT !.order = Entries(@, {i \in DOMAIN @ : @[i] # g}), !.ps[g] = <<>>],
       [k |-> "groupdeleted", g |-> g])
\* The merge keeps the first profile, with the configuration it now has.
UpdateSubscription(d, g) ==
  LET ps == IF d.ps[g] = <<>> THEN <<Prof(d.last[g] + 1, 1)>> ELSE <<[d.ps[g][1] EXCEPT !.ver = @ + 1]>> IN
  Done([d EXCEPT !.ps[g] = ps, !.last[g] = IF ps[1].id > @ THEN ps[1].id ELSE @],
       [k |-> "subscription", g |-> g, ps |-> ps])
\* The answer comes in any case.
GetProfileDetails(d, g, id) ==
  Done(d, [k |-> "details", g |-> g, id |-> id, ver |-> IF Has(d, g, id) THEN Find(d.ps[g], id).ver ELSE 0])

Exec(d, r) ==
  CASE r.k = "add" /\ r.g \in GidsOf(d) -> AddProfiles(d, r.g)
    [] r.k = "delete" -> DeleteProfiles(d, r.g, r.id)
    [] r.k = "rename" /\ Has(d, r.g, r.id) -> UpdateProfile(d, r.g, r.id)
    [] r.k = "move" /\ Has(d, r.g, r.id) /\ r.to \in GidsOf(d) \ {r.g} -> MoveProfile(d, r.g, r.id, r.to)
    [] r.k = "reorder" /\ r.g \in GidsOf(d) -> ReorderProfiles(d, r.g, r.ids)
    [] r.k = "groups" -> ReorderGroups(d, r.ids)
    [] r.k = "addgroup" /\ d.glast < MaxGid -> AddGroup(d)
    [] r.k = "delgroup" -> DropGroup(d, r.g)
    [] r.k = "refresh" /\ r.g \in GidsOf(d) -> UpdateSubscription(d, r.g)
    [] r.k = "connect" /\ Has(d, r.g, r.id) ->
         Done([d EXCEPT !.conn = <<r.g, r.id>>], [k |-> "status", ref |-> <<r.g, r.id>>])
    [] r.k = "state" -> Done(d, [k |-> "state", groups |-> Snapshot(d), ref |-> d.conn])
    [] r.k = "details" -> GetProfileDetails(d, r.g, r.id)
    [] OTHER -> Done(d, [k |-> "warn"])

Run(c, r) ==
  /\ sending[c] = NoEvent
  /\ db' = Exec(db, r).db
  /\ sending' = [sending EXCEPT ![c] = Exec(db, r).ev]
  /\ overlapped' = (overlapped \/ \E o \in DOMAIN sending : sending[o] # NoEvent)

HandleRequest ==
  /\ toCore # <<>>
  /\ Run("tui", Head(toCore))
  /\ toCore' = Tail(toCore)
  /\ UNCHANGED <<toTui, app, scene, scrambled, asks, others, drops>>

\* Another interface or the command line.
GroupRequests ==
  [k : {"add", "delgroup", "refresh"}, g : GidsOf(db)] \cup [k : {"addgroup"}, g : {0}]
    \cup [k : {"groups"}, ids : {Reverse(db.order)}]
ProfileRequests(g) ==
  [k : {"delete", "rename", "move"}, g : {g}, id : ToSet(Ids(db.ps[g])), to : GidsOf(db) \ {g}]
    \cup [k : {"reorder"}, g : {g}, ids : {Reverse(Ids(db.ps[g]))}]
OtherRequests == GroupRequests \cup UNION {ProfileRequests(g) : g \in GidsOf(db)}

OtherChange ==
  /\ others < MaxOthers[scene] /\ asks + drops + others < MaxSteps[scene] /\ others' = others + 1
  /\ \E r \in OtherRequests : Run("other", r)
  /\ UNCHANGED <<toCore, toTui, app, scene, scrambled, asks, drops>>

Broadcast(c) ==
  /\ sending[c] # NoEvent
  /\ toTui' = Append(toTui, sending[c])
  /\ sending' = [sending EXCEPT ![c] = NoEvent]
  /\ UNCHANGED <<db, toCore, app, scene, overlapped, scrambled, asks, others, drops>>

-----------------------------------------------------------------------------
(* The tree and its cursor.                                                *)

GroupRows(a, i) ==
  LET g == a.groups[i]
      inside == [j \in DOMAIN g.ps |-> [g |-> g.id, id |-> g.ps[j].id, gi |-> i, pi |-> j]]
  IN IF a.query # "none" THEN Entries(inside, {j \in DOMAIN g.ps : a.query = "all" \/ g.ps[j].hit})
     ELSE <<[g |-> g.id, id |-> 0, gi |-> i, pi |-> 0]>> \o (IF g.id \in a.collapsed THEN <<>> ELSE inside)
\* tree_len and tree_node_at: the rows, a group (pi 0) or a profile by its position.
Rows(a) == FlattenSeq([i \in DOMAIN a.groups |-> GroupRows(a, i)])

NoRow == [g |-> 0, id |-> 0, gi |-> 0, pi |-> 0]
Row(a) == IF a.cursor \in DOMAIN Rows(a) THEN Rows(a)[a.cursor] ELSE NoRow
OnProfile(a) == Row(a).pi # 0
OnGroup(a) == Row(a).gi # 0 /\ Row(a).pi = 0

ClampCursor(a) ==
  LET n == Len(Rows(a)) IN
  [a EXCEPT !.cursor = IF n = 0 THEN 1 ELSE IF @ > n THEN n ELSE @]

\* cursor_for_group and cursor_for_node.
At(a, gi, pi) ==
  LET here == {n \in DOMAIN Rows(a) : Rows(a)[n].gi = gi /\ Rows(a)[n].pi = pi} IN
  IF a.query = "none" /\ here # {} THEN [a EXCEPT !.cursor = CHOOSE n \in here : TRUE] ELSE a

GroupIndex(a, g) == CHOOSE i \in DOMAIN a.groups : a.groups[i].id = g
KnowsGroup(a, g) == \E i \in DOMAIN a.groups : a.groups[i].id = g
ProfilesOf(a, g) == a.groups[GroupIndex(a, g)].ps
SetProfiles(a, g, ps) ==
  IF KnowsGroup(a, g) THEN [a EXCEPT !.groups[GroupIndex(a, g)].ps = ps] ELSE a
GroupIds(a) == [i \in DOMAIN a.groups |-> a.groups[i].id]
SwapAt(s, i, j) == [s EXCEPT ![i] = s[j], ![j] = s[i]]

CursorDown(a) == IF a.cursor < Len(Rows(a)) THEN [a EXCEPT !.cursor = @ + 1] ELSE a
\* j, k, g, G, paging and the wheel.
CursorMoves(a) ==
  LET n == Len(Rows(a)) IN
  {CursorDown(a)} \cup {[a EXCEPT !.cursor = IF @ > 1 THEN @ - 1 ELSE 1]}
    \cup {[a EXCEPT !.cursor = IF n > 0 THEN n ELSE @], [a EXCEPT !.cursor = 1, !.scroll = 0]}

ToggleCollapsed(a, g) ==
  ClampCursor([a EXCEPT !.collapsed = IF g \in @ THEN @ \ {g} ELSE @ \cup {g}])

\* h and l: fold, unfold, to the group, into the group, to the details.
CursorLeft(a) ==
  IF a.focus = "right" THEN [a EXCEPT !.focus = "left"]
  ELSE IF OnGroup(a) THEN ClampCursor([a EXCEPT !.collapsed = @ \cup {Row(a).g}])
  ELSE At(a, Row(a).gi, 0)
CursorRight(a) ==
  IF a.focus = "right" THEN a
  ELSE IF OnGroup(a)
       THEN IF Row(a).g \in a.collapsed THEN ToggleCollapsed(a, Row(a).g)
            ELSE IF a.groups[Row(a).gi].ps # <<>> THEN CursorDown(a) ELSE a
  ELSE IF OnProfile(a) THEN [a EXCEPT !.focus = "right"] ELSE a

\* move_item_up and move_item_down: the copy is changed at once, the cursor follows,
\* and the whole new order is sent.
Moved(a, d) ==
  LET r == Row(a)
      next(i) == IF d = "up" THEN i - 1 ELSE i + 1
  IN IF a.query # "none" \/ r = NoRow THEN a
     ELSE IF OnGroup(a)
          THEN IF next(r.gi) \notin DOMAIN a.groups THEN a
               ELSE At([a EXCEPT !.groups = SwapAt(@, r.gi, next(r.gi))], next(r.gi), 0)
     ELSE IF next(r.pi) \notin DOMAIN a.groups[r.gi].ps THEN a
          ELSE At([a EXCEPT !.groups[r.gi].ps = SwapAt(@, r.pi, next(r.pi))], r.gi, next(r.pi))
MoveRequest(a, b) ==
  IF OnGroup(a) THEN <<[k |-> "groups", ids |-> GroupIds(b)]>>
  ELSE <<[k |-> "reorder", g |-> Row(a).g, ids |-> Ids(b.groups[Row(a).gi].ps)]>>

-----------------------------------------------------------------------------
(* The events of the core.                                                 *)

NoPopup == [k |-> "none", g |-> 0, id |-> 0]
ClearDetails(a) == [a EXCEPT !.cached = {}, !.pending = {}]
CloseByEvent(a) == [a EXCEPT !.popup = NoPopup]

\* Mutant: the cursor is left where it was.
ApplyDeletedUnclamped(a, e) ==
  IF KnowsGroup(a, e.g) THEN SetProfiles(a, e.g, Without(ProfilesOf(a, e.g), e.id)) ELSE a

ApplyDeleted(a, e) ==
  ClampCursor(IF KnowsGroup(a, e.g) THEN SetProfiles(a, e.g, Without(ProfilesOf(a, e.g), e.id)) ELSE a)

ApplyAdded(a, e) == IF KnowsGroup(a, e.g) THEN SetProfiles(a, e.g, Append(ProfilesOf(a, e.g), e.p)) ELSE a

ApplyUpdated(a, e) ==
  IF ~KnowsGroup(a, e.g) THEN a
  ELSE SetProfiles(a, e.g, [i \in DOMAIN ProfilesOf(a, e.g) |->
         IF ProfilesOf(a, e.g)[i].id = e.p.id THEN e.p ELSE ProfilesOf(a, e.g)[i]])

ApplySubscription(a, e) == ClearDetails(ClampCursor(SetProfiles(a, e.g, e.ps)))

ApplyGroupDeleted(a, e) ==
  ClampCursor([a EXCEPT !.groups = Entries(@, {i \in DOMAIN @ : @[i].id # e.g}), !.collapsed = @ \ {e.g}])

\* Both reorders: what the event lists comes first, the others in the order of a hash map.
Orders(ids, all) ==
  {o \in SetToSeqs(all) : \A i, j \in DOMAIN o : i < j => ~Ahead(ids, o[j], o[i])}
ApplyReordered(a, e) ==
  IF ~KnowsGroup(a, e.g) THEN {ClampCursor(a)}
  ELSE LET ps == ProfilesOf(a, e.g) IN
       {ClampCursor(SetProfiles(a, e.g, [i \in DOMAIN o |-> Find(ps, o[i])])) : o \in Orders(e.ids, ToSet(Ids(ps)))}
ApplyGroupsReordered(a, e) ==
  {ClampCursor([a EXCEPT !.groups = [i \in DOMAIN o |-> a.groups[GroupIndex(a, o[i])]]])
     : o \in Orders(e.ids, ToSet(GroupIds(a)))}

\* Mutant: the connection keeps the old identity of the profile.
ApplyMovedOnly(a, e) ==
  LET b == ApplyDeleted(a, e) IN
  ClampCursor(IF KnowsGroup(b, e.to) THEN SetProfiles(b, e.to, Append(ProfilesOf(b, e.to), e.p)) ELSE b)

ApplyMoved(a, e) ==
  LET b == ApplyDeleted(a, e)
      c == IF KnowsGroup(b, e.to) THEN SetProfiles(b, e.to, Append(ProfilesOf(b, e.to), e.p)) ELSE b
  IN ClampCursor([c EXCEPT !.conn = IF @ = <<e.g, e.id>> THEN <<e.to, e.p.id>> ELSE @])

ApplyState(a, e) == ClampCursor([a EXCEPT !.groups = e.groups, !.conn = e.ref])

ApplyDetails(a, e) ==
  [a EXCEPT !.pending = @ \ {<<e.g, e.id>>},
            !.cached = {c \in @ : <<c[1], c[2]>> # <<e.g, e.id>>} \cup {<<e.g, e.id, e.ver>>}]

\* handle_core_event; four of the events close any popup.
Apply(a, e) ==
  CASE e.k = "added" -> {CloseByEvent(ClearDetails(ApplyAdded(a, e)))}
    [] e.k = "deleted" -> {CloseByEvent(ClearDetails(ApplyDeleted(a, e)))}
    [] e.k = "groupdeleted" -> {CloseByEvent(ClearDetails(ApplyGroupDeleted(a, e)))}
    [] e.k = "moved" -> {CloseByEvent(ClearDetails(ApplyMoved(a, e)))}
    [] e.k = "updated" -> {ApplyUpdated(a, e)}
    [] e.k = "subscription" -> {ApplySubscription(a, e)}
    [] e.k = "groupadded" -> {[a EXCEPT !.groups = Append(@, [id |-> e.g, ps |-> <<>>])]}
    [] e.k = "reordered" -> ApplyReordered(a, e)
    [] e.k = "groups" -> ApplyGroupsReordered(a, e)
    [] e.k = "status" -> {[a EXCEPT !.conn = e.ref]}
    [] e.k = "state" -> {ApplyState(a, e)}
    [] e.k = "details" -> {ApplyDetails(a, e)}
    [] e.k = "warn" -> {a}

-----------------------------------------------------------------------------
(* The event loop.                                                         *)

\* render_tree: the scroll is moved until the cursor is in view, one row being spared.
Scrolled(a) ==
  LET pos == IF Row(a) = NoRow THEN 0 ELSE a.cursor - 1
      visible == Height - 1 IN
  IF Rows(a) = <<>> THEN a
  ELSE IF pos < a.scroll THEN [a EXCEPT !.scroll = pos]
  ELSE IF pos >= a.scroll + visible THEN [a EXCEPT !.scroll = pos - visible + 1]
  ELSE a

\* profile_details_request: what the selected profile still lacks.
DetailsWanted(a) ==
  /\ scene = "details" /\ OnProfile(a) /\ Row(a).g \in Managed
  /\ <<Row(a).g, Row(a).id>> \notin a.pending
  /\ \A c \in a.cached : <<c[1], c[2]>> # <<Row(a).g, Row(a).id>>

\* One round of run_loop after an event: the details are requested, the screen is drawn.
Loop(a, requests) ==
  LET ref == <<Row(a).g, Row(a).id>> IN
  IF DetailsWanted(a)
  THEN /\ app' = Scrolled([a EXCEPT !.pending = @ \cup {ref}])
       /\ toCore' = toCore \o requests \o <<[k |-> "details", g |-> ref[1], id |-> ref[2]]>>
  ELSE /\ app' = Scrolled(a)
       /\ toCore' = toCore \o requests

HandleCoreEvent ==
  /\ toTui # <<>>
  /\ toTui' = Tail(toTui)
  /\ \E a \in Apply(app, Head(toTui)) : Loop(a, <<>>)
  /\ scrambled' = (scrambled \/ \E a, b \in Apply(app, Head(toTui)) : a # b)
  /\ UNCHANGED <<db, sending, scene, overlapped, asks, others, drops>>

\* The connection is lost with everything on the way; Reconnected asks for the state.
Reconnected ==
  /\ drops < MaxDrops[scene] /\ asks + drops < MaxAsks[scene]
  /\ asks + drops + others < MaxSteps[scene] /\ drops' = drops + 1
  /\ toTui' = <<>>
  /\ app' = ClearDetails(app)
  /\ toCore' = <<[k |-> "state"]>>
  /\ sending' = [sending EXCEPT !["tui"] = NoEvent]
  /\ UNCHANGED <<db, scene, overlapped, scrambled, asks, others>>

-----------------------------------------------------------------------------
(* Keys and clicks.                                                        *)

Ui == UNCHANGED <<db, sending, toTui, scene, overlapped, scrambled, others, drops>>
Key(a) == a # app /\ Loop(a, <<>>) /\ Ui /\ UNCHANGED asks
Ask(a, requests) ==
  /\ asks + drops < MaxAsks[scene] /\ asks + drops + others < MaxSteps[scene] /\ asks' = asks + 1
  /\ Loop(a, requests) /\ Ui

NoModal == app.popup = NoPopup
Searching == app.mode /\ app.focus = "left"
Browsing == NoModal /\ app.focus = "left" /\ ~Searching

MoveCursor == NoModal /\ app.focus = "left"
              /\ \E a \in CursorMoves(app) : Key(a)

Fold == /\ NoModal /\ ~Searching /\ app.focus # "popup"
        /\ Key(CursorLeft(app)) \/ Key(CursorRight(app))

\* Tab, a visit to another tab, and Esc; toggle_focus does not leave "popup".
Focus ==
  /\ NoModal /\ ~Searching
  /\ \/ Key([app EXCEPT !.focus = CASE @ = "right" -> "left"
                                    [] @ = "left" /\ Row(app) # NoRow -> "right"
                                    [] OTHER -> @])
     \/ Key([app EXCEPT !.focus = "left"])
     \/ app.focus = "right" /\ Key([app EXCEPT !.focus = "left"])
     \/ app.focus # "right" /\ Key(ClampCursor([app EXCEPT !.query = "none", !.cursor = IF app.query = "none" THEN @ ELSE 1]))

StartSearch == Browsing /\ Key([app EXCEPT !.mode = TRUE, !.query = "all", !.cursor = 1])

SearchKey ==
  /\ NoModal /\ Searching
  /\ \/ \E q \in {"all", "some"} : Key([app EXCEPT !.query = q, !.cursor = 1])
     \/ Key(ClampCursor([app EXCEPT !.mode = FALSE, !.query = "none", !.cursor = 1]))
     \/ Key(IF app.query = "all" THEN ClampCursor([app EXCEPT !.mode = FALSE, !.query = "none", !.cursor = 1])
            ELSE [app EXCEPT !.mode = FALSE])

Connect(a) == <<[k |-> "connect", g |-> Row(a).g, id |-> Row(a).id]>>

\* Enter and Space.
Enter ==
  /\ Browsing
  /\ \/ OnProfile(app) /\ Ask(app, Connect(app))
     \/ OnGroup(app) /\ Key(ToggleCollapsed(app, Row(app).g))

MoveItem == \E d \in {"up", "down"} :
  /\ Browsing /\ Moved(app, d) # app
  /\ Ask(Moved(app, d), MoveRequest(app, Moved(app, d)))

\* a, A, e, x, X and the popups of the whole program.
Popups == {[k |-> "import", g |-> 0, id |-> 0], [k |-> "addgroup", g |-> 0, id |-> 0]}
  \cup {[k |-> k, g |-> Row(app).g, id |-> Row(app).id] : k \in IF OnProfile(app) THEN {"rename", "delete", "delgroup"}
                                                 ELSE IF OnGroup(app) THEN {"editsub", "delgroup"} ELSE {}}
Help == {[k |-> k, g |-> 0, id |-> 0] : k \in {"help", "tabs"}}
OpenPopup ==
  \/ Browsing /\ \E p \in Popups : Key([app EXCEPT !.popup = p, !.focus = "popup"])
  \/ NoModal /\ ~Searching /\ \E p \in Help : Key([app EXCEPT !.popup = p, !.focus = "popup"])

\* u: update_subscription of the group under the cursor.
AskUpdate ==
  Browsing /\ Row(app) # NoRow /\ Ask(app, <<[k |-> "refresh", g |-> Row(app).g]>>)

Closed == [app EXCEPT !.popup = NoPopup, !.focus = "left"]
PopupEsc == app.popup # NoPopup /\ Key(Closed)
\* A choice in the tab switcher; the other tabs leave the tree alone.
SwitchTab == app.popup.k = "tabs" /\ Key(Closed)

\* What Enter asks for: an import goes to the group under the cursor, the editors and the
\* confirmations use what the popup holds.
ImportRequest == [k |-> "add", g |-> Row(app).g]
EditorRequest(p) == IF p.k = "editsub" THEN [k |-> "refresh", g |-> p.g] ELSE [k |-> "addgroup", g |-> 0]
PopupEnter ==
  /\ app.popup.k \in {"import", "addgroup", "rename", "delete", "delgroup", "editsub"}
  /\ LET p == app.popup IN
     Ask(Closed, <<CASE p.k = "import" -> ImportRequest
                     [] p.k \in {"addgroup", "editsub"} -> EditorRequest(p)
                     [] OTHER -> [k |-> p.k, g |-> p.g, id |-> p.id]>>)

\* A click in the tree selects; on the selected row it folds or connects.
Target(row) == app.scroll + row
ClickTree(row) ==
  /\ NoModal
  /\ LET a == [app EXCEPT !.focus = "left"] IN
     IF Target(row) \notin DOMAIN Rows(a) THEN Key(a)
     ELSE IF a.cursor # Target(row) THEN Key([a EXCEPT !.cursor = Target(row)])
     ELSE IF OnGroup(a) THEN Key(ToggleCollapsed(a, Row(a).g))
     ELSE Ask(a, Connect(a))
ClickDetails == NoModal /\ Key([app EXCEPT !.focus = "right"])

TreeInit ==
  /\ db = [order |-> <<1, 2>>,
           ps |-> [g \in 1..MaxGid |-> CASE g = 1 -> <<Prof(1, 1), Prof(2, 1)>>
                                        [] g = 2 -> <<Prof(1, 1)>> [] OTHER -> <<>>],
           last |-> [g \in 1..MaxGid |-> IF g = 1 THEN 2 ELSE IF g = 2 THEN 1 ELSE 0],
           glast |-> 2, conn |-> NoRef]
  /\ sending = [c \in {"tui", "other"} |-> NoEvent]
  /\ toCore = <<>> /\ toTui = <<>>
  /\ app = [groups |-> Snapshot(db), cursor |-> 1, scroll |-> 0, collapsed |-> {},
            query |-> "none", mode |-> FALSE, focus |-> "left", popup |-> NoPopup,
            conn |-> NoRef, cached |-> {}, pending |-> {}]
  /\ scene \in Scenes /\ overlapped = FALSE /\ scrambled = FALSE /\ asks = 0 /\ others = 0 /\ drops = 0

Keys == \/ MoveCursor
        \/ scene \in {"fold", "search"} /\ (Focus \/ Enter)
        \/ scene = "fold" /\ Fold
        \/ scene = "reorder" /\ MoveItem
        \/ scene = "search" /\ (StartSearch \/ SearchKey)
        \/ scene = "popup" /\ (Focus \/ OpenPopup \/ PopupEsc \/ SwitchTab \/ PopupEnter)
        \/ scene = "details" /\ AskUpdate
Mouse == scene = "fold" /\ (ClickDetails \/ \E row \in 1..Height : ClickTree(row))
TreeNext == \/ HandleRequest \/ OtherChange \/ \E c \in {"tui", "other"} : Broadcast(c)
            \/ HandleCoreEvent \/ Reconnected \/ Keys \/ Mouse

TreeSpec == TreeInit /\ [][TreeNext]_treeVars

-----------------------------------------------------------------------------
\* Without a filter the cursor is on a row of the tree, whatever was folded, deleted,
\* moved or replaced under it, by this user or by another client.
CursorInTree ==
  app.query = "none" /\ Rows(app) # <<>> => app.cursor \in DOMAIN Rows(app)

Settled == toCore = <<>> /\ toTui = <<>> /\ \A c \in DOMAIN sending : sending[c] = NoEvent

\* When nothing is on the way the copy of the groups, in their order, is the core's,
\* although the user's reorders are applied before the core knows of them; and the
\* connection refers to the profile it refers to in the core.
MirrorsCore == Settled /\ ~overlapped /\ ~scrambled => app.groups = Snapshot(db) /\ app.conn = db.conn

\* ratatui: the rows the list widget draws, which keeps a padding around the selection.
Padding == Min({5, (Height - 1) \div 2})
DrawnFrom(a) ==
  LET n == Len(Rows(a))
      low == IF a.cursor - Padding < 1 THEN 1 ELSE a.cursor - Padding
      high == IF a.cursor + Padding > n THEN n ELSE a.cursor + Padding IN
  IF high > a.scroll + Height THEN high - Height
  ELSE IF low <= a.scroll THEN low - 1 ELSE a.scroll

\* "Click Profile / Group: Selects and highlights the item": the row a click acts on is
\* the row drawn there.
ClickHitsDrawnRow ==
  Row(app) # NoRow => \A row \in 1..Height :
    DrawnFrom(app) + row \in DOMAIN Rows(app) => Target(row) = DrawnFrom(app) + row

\* "Toggle focus between Tree and Details panels": without a popup one of them has it.
FocusOnPanel == NoModal => app.focus # "popup"

=============================================================================
