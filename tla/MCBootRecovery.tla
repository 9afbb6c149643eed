--------------------------- MODULE MCBootRecovery ---------------------------
EXTENDS BootRecovery

Img(v, n, f) == [ver |-> v, next |-> n, force |-> f]

(* An old and a new release, and one that does not ask for a matching recovery
   image and keeps the minimal version. *)
Old     == Img(1, 1, TRUE)
New     == Img(2, 2, TRUE)
Unforced == Img(2, 1, FALSE)

Releases == {Old, New, Unforced}
Delivered == {Old, Unforced}
Updates == {Old, New}
=============================================================================
