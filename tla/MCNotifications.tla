--------------------------- MODULE MCNotifications ---------------------------
(* TLC instances of Notifications: a private service of group "team", an   *)
(* admin who is a member, with the full paths of the groups in his token,  *)
(* and a user who is in no group.                                          *)
EXTENDS Notifications

CONSTANTS ann, private, alice, sid, bob

Team(p)  == [path |-> p, name |-> "team"]
Admins   == [path |-> FALSE, name |-> "admin"]
MCHeader == [c \in Callers |-> "valid"]
MCUser   == [c \in Callers |-> IF c = ann THEN alice ELSE bob]
MCSub    == [c \in Callers |-> sid]
MCGroups == [c \in Callers |-> IF c = ann THEN {Team(TRUE), [Admins EXCEPT !.path = TRUE]} ELSE {}]
MCVisibility == [n \in Notices |-> IF n = private THEN "private" ELSE ""]
MCRequired   == [n \in Notices |-> IF n = private THEN {Team(FALSE)} ELSE {}]
=============================================================================
