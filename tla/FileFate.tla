----------------------------- MODULE FileFate -----------------------------
(***************************************************************************)
(* What the controller promises of each uploaded file.  Its row comes once, *)
(* when its bytes are on a node, and goes for good; the bytes go only after *)
(* a permanent deletion was begun, and for good; and the row, the only way  *)
(* to the bytes, goes only when the deletion is settled (the bytes are gone, *)
(* or queued for removal) or was given up.  What was given up may still be  *)
(* settled by another attempt, what is settled stays so.                   *)
(***************************************************************************)
CONSTANTS Files

VARIABLES
  fate   \* of each file: its row, its bytes on the node that the row names,
         \* and how far its permanent deletion is

Fates == [row : {"none", "live", "trash"}, bytes : {"none", "kept", "gone"},
          deletion : {"no", "begun", "givenUp", "settled"}]

Unborn == [row |-> "none", bytes |-> "none", deletion |-> "no"]

Init == fate = [f \in Files |-> Unborn]

(* A fate x may become y. *)

Keep(x, y) == x = Unborn /\ y = [x EXCEPT !.bytes = "kept"]

Uploaded(x) == x.row = "none" /\ x.bytes = "kept" /\ x.deletion = "no"

\* The upload ends without an answer: nothing will ever name the bytes.
Abandon(x, y) == Uploaded(x) /\ y = [x EXCEPT !.bytes = "none"]

Record(x, y) == Uploaded(x) /\ y = [x EXCEPT !.row = "live"]

\* To the trash and back.
Move(x, y) == x.row # "none" /\ \E r \in {"live", "trash"} : y = [x EXCEPT !.row = r]

Doom(x, y) ==
  x.deletion = "no" /\ x.bytes = "kept" /\ y = [x EXCEPT !.deletion = "begun"]

GiveUp(x, y) == x.deletion = "begun" /\ y = [x EXCEPT !.deletion = "givenUp"]

Settle(x, y) == x.deletion \in {"begun", "givenUp"} /\ y = [x EXCEPT !.deletion = "settled"]

Unlink(x, y) ==
  /\ x.deletion # "no" /\ x.bytes = "kept"
  /\ y = [row |-> x.row, bytes |-> "gone", deletion |-> "settled"]

Forget(x, y) ==
  /\ x.row # "none" /\ x.deletion \in {"settled", "givenUp"}
  /\ y = [x EXCEPT !.row = "none"]

Step(x, y) ==
  \/ Keep(x, y) \/ Abandon(x, y) \/ Record(x, y) \/ Move(x, y)
  \/ Doom(x, y) \/ GiveUp(x, y) \/ Settle(x, y) \/ Unlink(x, y) \/ Forget(x, y)

\* The fates of several files may change at once: a restart abandons every
\* upload, the cleanup begins the deletion of all that expired.
Next ==
  /\ fate' \in [Files -> Fates]
  /\ \A f \in Files : fate'[f] = fate[f] \/ Step(fate[f], fate'[f])

Spec == Init /\ [][Next]_fate
=============================================================================
