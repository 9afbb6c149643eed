----------------------------- MODULE UpdateSlot -----------------------------
(***************************************************************************)
(* What the firmware update task promises to the tasks that use it: the    *)
(* updater and the staging area are one slot with one owner at a time.     *)
(* The updater owns the slot while it starts up, a requester owns it from  *)
(* the grant until it hands it over to the updater, and the updater gives  *)
(* it back, or keeps it until the system is reset.                         *)
(***************************************************************************)
CONSTANTS Requester

VARIABLE owner

Booting   == "booting"
Nobody    == "nobody"
Updater   == "updater"
Resetting == "resetting"

Init == owner = Booting

Move(from, to) == owner = from /\ owner' = to

Start       == Move(Booting, Nobody)
Grant(r)    == Move(Nobody, r)
HandOver(r) == Move(r, Updater)
Release     == Move(Updater, Nobody)
Commit      == Move(Updater, Resetting)
Restart     == Move(Resetting, Booting)

Next ==
  \/ Start \/ Release \/ Commit \/ Restart
  \/ \E r \in Requester : Grant(r) \/ HandOver(r)

(* An owner does not keep the slot for ever. *)
Fairness ==
  /\ \A r \in Requester : WF_owner(HandOver(r))
  /\ WF_owner(Release \/ Commit)
  /\ WF_owner(Restart)

Safe == Init /\ [][Next]_owner
Spec == Safe /\ Fairness
=============================================================================
