--------------------------- MODULE RoutingSource ---------------------------
(***************************************************************************)
(* Which rules a subscription group routes by: decided by the core when it *)
(* starts Xray (db.ResolveRouting), and decided again, to be shown, by the *)
(* Routing tab of the interface and by `route list` of the command line.   *)
(* One group with at most one Happ routing profile, whose geo databases    *)
(* are downloaded in the background.                                       *)
(***************************************************************************)
EXTENDS Naturals

VARIABLES
  grp,  \* the group: provider JSON or not, routing mode, is the profile active
  prof, \* the Happ profile: state, names own geo files, has had them downloaded
  job   \* the profile a running download of geo files was started with

sourceVars == <<grp, prof, job>>

RoutingModes == {"auto", "manual", "subscription"}
NoProf == [st |-> "none", urls |-> FALSE, dir |-> FALSE]

SourceInit ==
  /\ grp = [json |-> FALSE, mode |-> "auto", active |-> FALSE]
  /\ prof = NoProf /\ job = NoProf

-----------------------------------------------------------------------------
(* What changes the group: the keys of the Routing tab and of the Happ     *)
(* popup, the commands of the command line, and the core's downloads.      *)

\* A Happ link from the clipboard, a deep link or `route import`: the profile is
\* inserted or replaced, and activated at once unless its geo files must come first.
ImportHapp(urls, on) ==
  /\ ~grp.json /\ job = NoProf
  /\ LET p == [st |-> IF urls THEN "updating" ELSE "ready", urls |-> urls,
               dir |-> urls /\ prof.dir]
         first == prof = NoProf /\ ~grp.active IN
       /\ prof' = p
       /\ job' = IF urls THEN p ELSE NoProf
       /\ grp' = [grp EXCEPT !.active = @ \/ (~urls /\ (on \/ first))]

\* EnsureProfileGeo: a failure writes back the copy the download was started with.
GeoDone(ok) ==
  /\ job # NoProf
  /\ prof' = IF ~ok THEN [job EXCEPT !.st = "error"]
             ELSE IF prof = NoProf THEN prof
             ELSE [prof EXCEPT !.st = "ready", !.dir = TRUE]
  /\ job' = NoProf
  /\ UNCHANGED grp

SetRoutingMode(m) ==
  /\ ~grp.json
  /\ grp' = [grp EXCEPT !.mode = m]
  /\ UNCHANGED <<prof, job>>

\* Activating a profile without its own geo files starts their download again.
ActivateHapp ==
  /\ ~grp.json /\ prof # NoProf /\ job = NoProf
  /\ grp' = [grp EXCEPT !.active = TRUE]
  /\ IF prof.urls /\ (prof.st = "error" \/ ~prof.dir)
     THEN prof' = [prof EXCEPT !.st = "updating"] /\ job' = prof'
     ELSE UNCHANGED <<prof, job>>

HappOff == /\ ~grp.json /\ grp.active
           /\ grp' = [grp EXCEPT !.active = FALSE]
           /\ UNCHANGED <<prof, job>>

DeleteHapp == /\ ~grp.json /\ prof # NoProf
              /\ prof' = NoProf
              /\ grp' = [grp EXCEPT !.active = FALSE]
              /\ UNCHANGED job

\* A refresh finds that the subscription now is, or no longer is, provider JSON.
ChangeFormat == /\ grp' = [grp EXCEPT !.json = ~@]
                /\ UNCHANGED <<prof, job>>

SourceNext ==
  \/ \E urls, on \in BOOLEAN : ImportHapp(urls, on)
  \/ \E ok \in BOOLEAN : GeoDone(ok)
  \/ \E m \in RoutingModes : SetRoutingMode(m)
  \/ ActivateHapp \/ HappOff \/ DeleteHapp \/ ChangeFormat
SourceSpec == SourceInit /\ [][SourceNext]_sourceVars

-----------------------------------------------------------------------------
(* Three answers to the same question.                                     *)

Active == grp.active /\ prof # NoProf

\* Mutant: without a profile the strict mode falls back to the manual rules.
ResolveRoutingLax ==
  IF grp.json \/ grp.mode = "manual" \/ ~Active THEN "manual" ELSE "happ"

\* resolveRouting: a profile is used when the geo files it has are there.
ResolveRouting ==
  CASE grp.json \/ grp.mode = "manual" -> "manual"
    [] ~grp.json /\ grp.mode # "manual" /\ Active -> "happ"
    [] ~grp.json /\ grp.mode = "auto" /\ ~Active -> "manual"
    [] OTHER -> "lan"

\* effective_routing: a profile in the error state counts as unusable.
EffectiveRouting ==
  LET usable == Active /\ prof.st # "error" IN
  IF grp.json \/ grp.mode = "manual" THEN "manual"
  ELSE IF usable THEN "happ"
  ELSE IF grp.mode = "subscription" THEN "lan" ELSE "manual"

\* render_routing_tab: the line "Effective Source".
TabSource ==
  CASE grp.json \/ grp.mode = "manual" -> "manual"
    [] ~grp.json /\ grp.mode = "subscription" ->
         IF Active /\ prof.st # "error" THEN "happ" ELSE "lan"
    [] OTHER -> IF Active /\ prof.st # "error" THEN "happ" ELSE "manual"

\* render_routing_tab: the notice that manual rules do not apply.
TabShadowed ==
  /\ ~grp.json
  /\ grp.mode = "subscription" \/ (grp.mode = "auto" /\ Active)

-----------------------------------------------------------------------------
\* The tab and the command line, which work the source out on their own from fields of the
\* group, name the one the core really uses, except for a profile whose last download
\* failed; for that one too the tab says that the manual rules are shadowed exactly when the
\* core leaves them out.
SourceTrueUnlessError ==
  /\ (Active => prof.st # "error") => EffectiveRouting = ResolveRouting
  /\ TabSource = EffectiveRouting
  /\ TabShadowed <=> ResolveRouting # "manual"

\* effective_routing mirrors db.ResolveRouting: "A profile in the error state has no
\* usable geo assets; the core falls back to manual rules in `auto` and to LAN-only".
SourceIsTrue == EffectiveRouting = ResolveRouting

=============================================================================
