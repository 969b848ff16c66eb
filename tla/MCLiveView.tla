------------------------------ MODULE MCLiveView ------------------------------
(* TLC instances of LiveView: a member of the group "team", and a service  *)
(* that may be the team's, healthy or sick, or another team's.             *)
EXTENDS LiveView

CONSTANTS alice, team, sick, other

Group(n)     == [path |-> FALSE, name |-> n]
MCHeader     == [c \in Callers |-> "valid"]
MCUser       == [c \in Callers |-> alice]
MCGroups     == [c \in Callers |-> {[path |-> TRUE, name |-> "team"]}]
MCVisibility == [x \in Contents |-> "private"]
MCRequired   == [x \in Contents |-> {Group(IF x = other THEN "other" ELSE "team")}]
Admins       == Group("admin")
=============================================================================
