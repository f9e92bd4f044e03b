---------------------------- MODULE LinkNotices ----------------------------
(***************************************************************************)
(* What the read loop promises to the interface: every loss of the core    *)
(* and every recovery is announced once and in order, and after giving up  *)
(* nothing more is announced.  CoreLink implements this specification.     *)
(***************************************************************************)
EXTENDS Sequences

VARIABLES
  link,    \* "up", "down", or "over" once the read loop has given up
  notices, \* announced and not yet shown
  shown    \* the state of the link that the interface shows

vars == <<link, notices, shown>>

States == {"up", "down", "over"}

Init == link = "up" /\ notices = <<>> /\ shown = "up"

Announce(from, to) == /\ link = from
                      /\ link' = to
                      /\ notices' = Append(notices, to)
                      /\ UNCHANGED shown

Lose    == Announce("up", "down")
Recover == Announce("down", "up")
GiveUp  == Announce("down", "over")

Show == /\ notices # <<>>
        /\ shown' = Head(notices)
        /\ notices' = Tail(notices)
        /\ UNCHANGED link

Next == Lose \/ Recover \/ GiveUp \/ Show

Spec == Init /\ [][Next]_vars /\ WF_vars(Show)

=============================================================================
