----------------------------- MODULE NoticeBoard -----------------------------
(***************************************************************************)
(* What the notification store promises: a board.  A notification is put   *)
(* up once and in one step, taken down when its time is over and never put *)
(* up again; a user's mark is for a notification that was put up, and is   *)
(* never taken back.                                                       *)
(***************************************************************************)
CONSTANTS Notices, Users

VARIABLES
    posted,  \* every notification that was ever put up
    board,   \* those that are up
    marks    \* what each user has read

vars == <<posted, board, marks>>

Init == posted = {} /\ board = {} /\ marks = [u \in Users |-> {}]

PutUp(n) ==
    /\ n \notin posted
    /\ posted' = posted \cup {n} /\ board' = board \cup {n}
    /\ UNCHANGED marks

TakeDown ==
    /\ board' \subseteq board
    /\ UNCHANGED <<posted, marks>>

Mark(u, n) ==
    /\ n \in posted
    /\ marks' = [marks EXCEPT ![u] = @ \cup {n}]
    /\ UNCHANGED <<posted, board>>

Next ==
    \/ \E n \in Notices : PutUp(n)
    \/ TakeDown
    \/ \E u \in Users, n \in Notices : Mark(u, n)

Spec == Init /\ [][Next]_vars
=============================================================================
