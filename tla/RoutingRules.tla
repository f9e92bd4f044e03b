---------------------------- MODULE RoutingRules ----------------------------
(***************************************************************************)
(* The manual routing rules: kept by the core (one global list, and for a  *)
(* group its own list once it was customised), edited on the Routing tab   *)
(* of the interface, which changes its copy first and then sends the whole *)
(* list, and edited by `route` of the command line, which fetches a list,  *)
(* changes it and sends it back.                                           *)
(***************************************************************************)
EXTENDS Naturals, Sequences, FiniteSets, SequencesExt

CONSTANTS
  Gids,     \* identifiers of the groups; page 0 is the global list
  MaxEdits, \* bound: edits of rules, sources and groups, openings of the tab; no popup is
            \* opened once they are used up
  MaxQueue  \* bound: messages between the interface and the core in each direction

ASSUME RulesAssumption == Gids \subseteq Nat \ {0} /\ IsFiniteSet(Gids)

Global == 0
Pages == Gids \cup {Global}

VARIABLES
  rules,   \* core: the global list
  stored,  \* core: the list of each group, if it has one
  source,  \* core: the groups that use their own list
  alive,   \* core: the groups that exist
  answer,  \* an answer to get-routing put together and not yet sent, by client
  requests, updates,      \* requests of the interface and events for it, in order
  routing, view, custom, \* interface: its copies of rules, of the payloads, of source
  order,                 \* interface: the groups, in the order of their pages
  page, cursor, popup, crashed, \* interface: page, selected rule, popup and its index
  command, \* command line: the page it works on and the list it fetched
  crossed,   \* history: something changed while an answer was on its way
  lost,    \* history: the kinds of edits that threw stored rules away
  edits

ruleVars == <<rules, stored, source, alive, answer, requests, updates, routing, view, custom,
              order, page, cursor, popup, crashed, command, crossed, lost, edits>>
stores == <<rules, stored, source, alive>>
copies == <<routing, view, custom, order>>
history == <<crossed, lost, edits>>

None == [has |-> FALSE, list |-> <<>>]
Some(s) == [has |-> TRUE, list |-> s]
Rule(m, out) == [m |-> m, out |-> out, on |-> TRUE]
NoView == [eff |-> None, cust |-> None]

\* Two entries of ROUTING_PRESETS: one of two rules, and one that contradicts it.
Presets == <<<<Rule("geosite", "direct"), Rule("geoip", "direct")>>, <<Rule("geosite", "block")>>>>

NoMsg == [k |-> "none", g |-> Global, eff |-> <<>>, src |-> "global", cust |-> None]
NoRulePopup == [k |-> "none", i |-> 1]
NoCli == [pc |-> "idle", g |-> Global]

RulesInit ==
  /\ rules = <<Rule("ip", "direct")>>
  /\ stored \in [Gids -> {None, Some(<<Rule("port", "proxy")>>)}]
  /\ source \in SUBSET {g \in Gids : stored[g].has}
  /\ alive = Gids
  /\ answer = [c \in {"tui", "cli"} |-> NoMsg]
  /\ requests = <<>> /\ updates = <<>>
  /\ routing = rules /\ view = [g \in Gids |-> NoView]
  /\ custom = source /\ order \in SetToSeqs(Gids)
  /\ page = 0 /\ cursor = 1 /\ popup = NoRulePopup /\ crashed = FALSE
  /\ command = NoCli /\ crossed = FALSE /\ lost = {} /\ edits = 0

-----------------------------------------------------------------------------
(* The core.                                                               *)

\* routingPayload: the rules that apply, their origin, and the list of the group.
Payload(g) ==
  [k |-> "routing", g |-> g, eff |-> IF g \in source THEN stored[g].list ELSE rules,
   src |-> IF g \in source THEN "custom" ELSE "global",
   cust |-> IF g = Global THEN None ELSE stored[g]]
GroupEvent(k, g) == [NoMsg EXCEPT !.k = k, !.g = g, !.src = IF g \in source' THEN "custom" ELSE "global"]

Answering == \E c \in {"tui", "cli"} : answer[c] # NoMsg

\* SetManualRoutingSource of the database: a first list is a copy of the global one.
Customise(g) == /\ source' = source \cup {g}
                /\ stored' = IF stored[g].has THEN stored ELSE [stored EXCEPT ![g] = Some(rules)]

\* UpdateRouting, under ConnectionMutex: an inheriting group becomes a custom one.
UpdateRouting(g, list) ==
  /\ UNCHANGED alive
  /\ crossed' = (crossed \/ Answering)
  /\ IF g = Global
     THEN /\ rules' = list /\ UNCHANGED <<stored, source>>
          /\ updates' = Append(updates, [Payload(g) EXCEPT !.eff = list])
     ELSE IF g \notin alive THEN UNCHANGED <<rules, stored, source, updates>>
     ELSE /\ stored' = [stored EXCEPT ![g] = Some(list)]
          /\ source' = source \cup {g}
          /\ UNCHANGED rules
          /\ updates' = updates \o (IF g \in source THEN <<>> ELSE <<GroupEvent("group", g)>>)
                            \o <<[Payload(g) EXCEPT !.eff = list, !.src = "custom", !.cust = Some(list)]>>

\* SetManualRoutingSource: the custom list stays on disk when the group inherits again.
SetManualSource(g, src) ==
  /\ UNCHANGED <<rules, alive>>
  /\ crossed' = (crossed \/ Answering)
  /\ IF g \notin alive THEN UNCHANGED <<stored, source, updates>>
     ELSE /\ IF src = "custom" THEN Customise(g)
             ELSE source' = source \ {g} /\ UNCHANGED stored
          /\ updates' = updates \o <<GroupEvent("group", g),
                                 [k |-> "routing", g |-> g,
                                  eff |-> IF src = "custom" THEN stored'[g].list ELSE rules,
                                  src |-> IF src = "custom" THEN "custom" ELSE "global",
                                  cust |-> stored'[g]]>>

\* The requests of the interface are handled one after the other.
HandleRouting ==
  /\ requests # <<>> /\ answer["tui"] = NoMsg /\ Len(updates) < MaxQueue
  /\ requests' = Tail(requests)
  /\ LET r == Head(requests) IN
       CASE r.k = "get" -> /\ answer' = [answer EXCEPT !["tui"] = Payload(r.g)]
                           /\ UNCHANGED <<stores, updates, crossed>>
         [] r.k = "update" -> UpdateRouting(r.g, r.eff) /\ UNCHANGED answer
         [] r.k = "source" -> SetManualSource(r.g, r.src) /\ UNCHANGED answer
  /\ UNCHANGED <<copies, page, cursor, popup, crashed, command, lost, edits>>

\* GetRouting sends what it read to all clients; the command line goes on with it.
SendAnswer(c) ==
  /\ answer[c] # NoMsg /\ Len(updates) < MaxQueue
  /\ updates' = Append(updates, answer[c])
  /\ answer' = [answer EXCEPT ![c] = NoMsg]
  /\ command' = IF c = "cli" THEN [pc |-> "got", g |-> answer[c].g, list |-> answer[c].eff] ELSE command
  /\ UNCHANGED <<stores, requests, copies, page, cursor, popup, crashed, history>>

-----------------------------------------------------------------------------
(* Changes of a list, shared by the interface and the command line.        *)

\* matches_rule and is_applied.
Matches(pr, r) == r.m = pr.m /\ r.out = pr.out
IsApplied(list, preset) ==
  \A i \in DOMAIN preset : \E j \in DOMAIN list : list[j].on /\ Matches(preset[i], list[j])

\* apply_preset: every rule of the preset is switched on or appended.
ApplyRule(list, pr) ==
  LET at == {i \in DOMAIN list : Matches(pr, list[i])} IN
  IF at = {} THEN Append(list, pr)
  ELSE [list EXCEPT ![CHOOSE i \in at : \A j \in at : i <= j].on = TRUE]
ApplyPreset(list, preset) == FoldLeft(ApplyRule, list, preset)

\* remove_preset: the rules of the preset are dropped.
RemovePreset(list, preset) ==
  SelectSeq(list, LAMBDA r : \A i \in DOMAIN preset : ~Matches(preset[i], r))

TogglePreset(list, preset) ==
  IF IsApplied(list, preset) THEN RemovePreset(list, preset) ELSE ApplyPreset(list, preset)

-----------------------------------------------------------------------------
(* The Routing tab of the interface.                                       *)

\* routing_page_group_id: a page without a group stands for the global list.
PageGid == IF page \in DOMAIN order THEN order[page] ELSE Global

\* active_routing_config.
ShownIn(g, global, views) ==
  IF g # Global /\ g \in custom /\ views[g].eff.has THEN views[g].eff.list ELSE global
Shown(g) == ShownIn(g, routing, view)

\* ensure_custom_routing and active_routing_config_mut: the list an edit changes.
Seed(g) ==
  IF g = Global THEN routing
  ELSE IF g \in custom THEN (IF view[g].eff.has THEN view[g].eff.list ELSE routing)
  ELSE IF view[g].cust.has THEN view[g].cust.list ELSE routing

Quiet == requests = <<>> /\ updates = <<>> /\ ~Answering /\ ~crossed
Due(g) == IF g # Global /\ stored[g].has THEN stored[g].list ELSE rules
Record(kind, g, base, quiet) ==
  lost' = IF quiet /\ base # Due(g) THEN lost \cup {kind} ELSE lost

Send(ms) == requests' = requests \o ms
Get(g) == [NoMsg EXCEPT !.k = "get", !.g = g]

\* The edited list replaces the copy and is sent to the core.
Commit(list) ==
  /\ edits < MaxEdits /\ edits' = edits + 1
  /\ Record(IF PageGid = Global \/ view[PageGid].eff.has THEN "loaded" ELSE "unloaded",
            PageGid, Seed(PageGid), Quiet /\ command.pc = "idle")
  /\ IF PageGid = Global
     THEN routing' = list /\ UNCHANGED <<view, custom>>
     ELSE /\ view' = [view EXCEPT ![PageGid].eff = Some(list),
                                  ![PageGid].cust = IF PageGid \in custom THEN @ ELSE None]
          /\ custom' = custom \cup {PageGid}
          /\ UNCHANGED routing
  /\ Send(<<[NoMsg EXCEPT !.k = "update", !.g = PageGid, !.eff = list]>>)
  /\ UNCHANGED order

Ready == ~crashed /\ Len(requests) < MaxQueue
Rest == <<stores, answer, updates, command, crossed>>

\* j and k, and the wheel.
MoveRuleCursor ==
  /\ Ready /\ popup = NoRulePopup
  /\ \/ cursor < Len(Shown(PageGid)) /\ cursor' = cursor + 1
     \/ cursor > 1 /\ cursor' = cursor - 1
  /\ UNCHANGED <<Rest, copies, requests, page, popup, crashed, lost, edits>>

\* The pages form a ring; the rules of the new page are requested.
TurnPage ==
  /\ Ready /\ popup = NoRulePopup
  /\ \E d \in {1, Len(order)} : page' = (page + d) % (Len(order) + 1)
  /\ cursor' = 1
  /\ Send(<<Get(IF page' = 0 THEN Global ELSE order[page'])>>)
  /\ UNCHANGED <<Rest, copies, popup, crashed, lost, edits>>

\* The tab is opened by a key or from the tab switcher: it turns to the page of the
\* connected group, if there is one, and requests the rules of its page.
SyncToConnected == {page} \cup DOMAIN order
OpenTab ==
  /\ Ready /\ popup = NoRulePopup
  /\ edits < MaxEdits /\ edits' = edits + 1
  /\ page' \in SyncToConnected
  /\ Send(<<Get(IF page' \in DOMAIN order THEN order[page'] ELSE Global)>>)
  /\ UNCHANGED <<Rest, copies, cursor, popup, crashed, lost>>

\* a, e, x and p: the popup keeps the index of the selected rule.
OpenRulePopup(k) ==
  /\ Ready /\ popup = NoRulePopup /\ edits < MaxEdits
  /\ k \in {"edit", "delete"} => cursor <= Len(Shown(PageGid))
  /\ popup' = [k |-> k, i |-> cursor]
  /\ UNCHANGED <<Rest, copies, requests, page, cursor, crashed, lost, edits>>

ClosePopup ==
  /\ popup # NoRulePopup /\ popup' = NoRulePopup
  /\ UNCHANGED <<Rest, copies, requests, page, cursor, crashed, lost, edits>>

ToggleRule ==
  /\ Ready /\ popup = NoRulePopup /\ cursor <= Len(Seed(PageGid))
  /\ Commit([Seed(PageGid) EXCEPT ![cursor].on = ~@])
  /\ UNCHANGED <<Rest, page, cursor, popup, crashed>>

\* Enter in the confirmation; the index is not checked again, Vec::remove panics.
ConfirmDelete ==
  /\ Ready /\ popup.k = "delete"
  /\ popup' = NoRulePopup
  /\ IF popup.i <= Len(Seed(PageGid))
     THEN /\ Commit(RemoveAt(Seed(PageGid), popup.i))
          /\ cursor' = IF cursor >= Len(Seed(PageGid)) /\ cursor > 1 THEN cursor - 1 ELSE cursor
          /\ UNCHANGED crashed
     ELSE crashed' = TRUE /\ UNCHANGED <<copies, requests, cursor, lost, edits>>
  /\ UNCHANGED <<Rest, page>>

\* The form is saved: the rule is built from it, switched on.
SaveForm ==
  /\ Ready
  /\ \/ popup.k = "add" /\ Commit(Append(Seed(PageGid), Rule("geosite", "direct")))
     \/ /\ popup.k = "edit" /\ popup.i <= Len(Seed(PageGid))
        /\ Commit([Seed(PageGid) EXCEPT ![popup.i] = Rule("geoip", "direct")])
  /\ popup' = NoRulePopup
  /\ UNCHANGED <<Rest, page, cursor, crashed>>

\* Enter, Space or a click in the list of presets, which stays open.
UsePreset ==
  /\ Ready /\ popup.k = "presets"
  /\ \E n \in DOMAIN Presets : Commit(TogglePreset(Seed(PageGid), Presets[n]))
  /\ UNCHANGED <<Rest, page, cursor, popup, crashed>>

\* g: the source is switched by the core, and the rules are requested.
ToggleSource ==
  /\ Ready /\ popup = NoRulePopup /\ PageGid # Global
  /\ edits < MaxEdits /\ edits' = edits + 1
  /\ Send(<<[NoMsg EXCEPT !.k = "source", !.g = PageGid,
                          !.src = IF PageGid \in custom THEN "inherit" ELSE "custom"],
            Get(PageGid)>>)
  /\ UNCHANGED <<Rest, copies, page, cursor, popup, crashed, lost>>

Clamp(c, list) == IF list = <<>> THEN 1 ELSE IF c > Len(list) THEN Len(list) ELSE c

\* Mutant: only the rules of the page on screen are taken over.
ApplyRoutingOfPage(e) ==
  /\ routing' = IF e.g = Global /\ PageGid = Global THEN e.eff ELSE routing
  /\ view' = IF e.g # Global /\ e.g = PageGid
             THEN [view EXCEPT ![e.g] = [eff |-> Some(e.eff), cust |-> e.cust]] ELSE view
  /\ cursor' = IF e.g = PageGid THEN Clamp(cursor, e.eff) ELSE cursor

\* apply_routing_updated.
ApplyRouting(e) ==
  /\ IF e.g = Global THEN routing' = e.eff /\ UNCHANGED view
     ELSE /\ view' = [view EXCEPT ![e.g] =
                        [eff |-> Some(e.eff),
                         cust |-> IF e.src = "custom" /\ ~e.cust.has THEN Some(e.eff) ELSE e.cust]]
          /\ UNCHANGED routing
  /\ cursor' = IF e.g \in {Global, PageGid} THEN Clamp(cursor, ShownIn(PageGid, routing', view')) ELSE cursor

\* The events of the core: routing-updated, group-updated and group-deleted.
HandleRoutingEvent ==
  /\ updates # <<>> /\ ~crashed
  /\ updates' = Tail(updates)
  /\ LET e == Head(updates) IN
       CASE e.k = "routing" -> ApplyRouting(e) /\ UNCHANGED <<custom, order, page>>
         [] e.k = "group" -> /\ custom' = IF e.src = "custom" THEN custom \cup {e.g} ELSE custom \ {e.g}
                             /\ UNCHANGED <<routing, view, order, page, cursor>>
         [] e.k = "deleted" -> /\ order' = RemoveFirst(order, e.g)
                               /\ view' = [view EXCEPT ![e.g] = NoView]
                               /\ custom' = custom \ {e.g}
                               /\ page' = IF page > Len(order') THEN Len(order') ELSE page
                               /\ cursor' = 1
                               /\ UNCHANGED routing
  /\ UNCHANGED <<stores, answer, requests, popup, crashed, command, history>>

-----------------------------------------------------------------------------
(* The command line.                                                       *)

CliRest == <<copies, requests, page, cursor, popup, crashed>>

\* get_config of route add, rm, enable, disable, move and preset.
CliFetch(g) ==
  /\ command.pc = "idle" /\ edits < MaxEdits /\ g \in alive \cup {Global}
  /\ edits' = edits + 1
  /\ command' = [pc |-> "asked", g |-> g]
  /\ answer' = [answer EXCEPT !["cli"] = Payload(g)]
  /\ UNCHANGED <<stores, updates, CliRest, crossed, lost>>

\* What the commands do to the list they fetched: route add, rm, enable, disable and
\* move, and route preset, which skips a rule that is there, disabled or not.
CliEdits(list) ==
  {Append(list, Rule("port", "proxy"))}
    \cup {RemoveAt(list, i) : i \in DOMAIN list}
    \cup {[list EXCEPT ![i].on = ~@] : i \in DOMAIN list}
    \cup {InsertAt(RemoveAt(list, i), j, list[i]) : i, j \in DOMAIN list}
CliPreset(list, p) ==
  {RemovePreset(list, p),
   list \o SelectSeq(p, LAMBDA r : \A i \in DOMAIN list : ~Matches(list[i], r))}

CliUpdate ==
  /\ command.pc = "got" /\ Len(updates) < MaxQueue
  /\ \E list \in CliEdits(command.list) \cup CliPreset(command.list, Presets[1]) : UpdateRouting(command.g, list)
  /\ Record("cli", command.g, command.list, Quiet)
  /\ command' = NoCli
  /\ UNCHANGED <<answer, CliRest, edits>>

\* route mode of the command line, and the deletion of a group by any client.
CliSource(g) ==
  /\ g \in alive /\ edits < MaxEdits /\ edits' = edits + 1 /\ Len(updates) < MaxQueue
  /\ \E src \in {"inherit", "custom"} : SetManualSource(g, src)
  /\ UNCHANGED <<answer, CliRest, command, lost>>

DeleteGroup(g) ==
  /\ g \in alive /\ edits < MaxEdits /\ edits' = edits + 1 /\ Len(updates) < MaxQueue
  /\ alive' = alive \ {g} /\ source' = source \ {g} /\ stored' = [stored EXCEPT ![g] = None]
  /\ updates' = Append(updates, GroupEvent("deleted", g))
  /\ crossed' = (crossed \/ Answering)
  /\ UNCHANGED <<rules, answer, CliRest, command, lost>>

RulesNext ==
  \/ HandleRouting \/ HandleRoutingEvent \/ \E c \in {"tui", "cli"} : SendAnswer(c)
  \/ MoveRuleCursor \/ TurnPage \/ OpenTab \/ ClosePopup
  \/ \E k \in {"add", "edit", "delete", "presets"} : OpenRulePopup(k)
  \/ ToggleRule \/ ConfirmDelete \/ SaveForm \/ UsePreset \/ ToggleSource
  \/ \E g \in Pages : CliFetch(g)
  \/ CliUpdate
  \/ \E g \in Gids : CliSource(g) \/ DeleteGroup(g)

RulesSpec == RulesInit /\ [][RulesNext]_ruleVars

-----------------------------------------------------------------------------
\* Between two edits, a page the interface has loaded, or that inherits, shows the rules
\* the core routes by, whoever edited them.
PageShowsRules ==
  Quiet /\ ~crashed /\ (PageGid \in custom => view[PageGid].eff.has)
    => Shown(PageGid) = Payload(PageGid).eff

\* Editing a group that inherits is "seeded from the stored custom rules if present".
EditSeededFromStored == lost = {}

=============================================================================
