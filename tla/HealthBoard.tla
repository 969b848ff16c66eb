----------------------------- MODULE HealthBoard -----------------------------
(***************************************************************************)
(* What the service cache and the health checker promise together: a board *)
(* of services, each with a verdict on the target of its present check.    *)
(* Inspectors take a reading of a target and report it some time later, so *)
(* that the board may show what the target no longer answers; but while a  *)
(* service is not in doubt one inspector at a time has a reading of it, so *)
(* that no report overtakes a later one, and every reading is an answer of *)
(* the target.  A service comes into doubt only when its check is          *)
(* exchanged, or at closing time, and even then nobody makes up "healthy". *)
(***************************************************************************)
CONSTANTS UIDs, Configs, NoConfig, NoService, Inspectors

VARIABLES
    board,    \* config and health of each service, or NoService
    target,   \* what the target of each check answers now
    readings, \* what inspectors found and have not reported yet
    doubted,  \* services whose readings may be false alarms, outdated or several
    closing

vars == <<board, target, readings, doubted, closing>>

(* What is checked of a service.                                           *)
Checked(u) == IF board[u] = NoService THEN NoConfig ELSE board[u].config

Shown(u) == IF board[u] = NoService THEN "unknown" ELSE board[u].health

Init ==
    /\ board = [u \in UIDs |-> NoService]
    /\ target \in [Configs -> {"healthy", "unhealthy", "unknown"}]
    /\ readings = {} /\ doubted = {} /\ closing = FALSE

(* Only a new check casts doubt on a service.                              *)
Recheck(u, c) == doubted' \subseteq IF Checked(u) = c THEN doubted ELSE doubted \cup {u}

(* A listed service keeps its verdict while it has a check.                *)
Enlist(u, c) ==
    /\ \E h \in {"unknown", Shown(u)} :
          /\ c = NoConfig => h = "unknown"
          /\ board' = [board EXCEPT ![u] = [config |-> c, health |-> h]]
    /\ Recheck(u, c)
    /\ UNCHANGED <<target, readings, closing>>

Strike(u) ==
    /\ board' = [board EXCEPT ![u] = NoService]
    /\ Recheck(u, NoConfig)
    /\ UNCHANGED <<target, readings, closing>>

(* No inspector but i has a reading of u, or u is in doubt.                *)
Alone(i, u) == u \in doubted \/ \A r \in readings : r.uid = u => r.by = i

(* Inspector i, who has no reading yet, finds the target of check c of u   *)
(* answering v, or is cut short and thinks the worst.                      *)
Take(i, u, c, v) ==
    /\ \A r \in readings : r.by # i
    /\ Alone(i, u) /\ (u \in doubted \/ c = Checked(u))
    /\ v = target[c] \/ (u \in doubted /\ v \in {"unhealthy", "unknown"})
    /\ readings' = readings \cup {[by |-> i, uid |-> u, config |-> c, verdict |-> v]}
    /\ UNCHANGED <<board, target, doubted, closing>>

(* A reading of the present check goes up.                                 *)
Report(r) ==
    /\ r \in readings /\ Alone(r.by, r.uid)
    /\ Checked(r.uid) = r.config /\ r.config # NoConfig
    /\ board' = [board EXCEPT ![r.uid] = [config |-> r.config, health |-> r.verdict]]
    /\ readings' = readings \ {r}
    /\ UNCHANGED <<target, doubted, closing>>

(* A reading of a check that was exchanged goes nowhere.                   *)
Discard(r) ==
    /\ r \in readings /\ Checked(r.uid) # r.config
    /\ readings' = readings \ {r}
    /\ UNCHANGED <<board, target, doubted, closing>>

TargetTurns(c, h) ==
    /\ target' = [target EXCEPT ![c] = h]
    /\ UNCHANGED <<board, readings, doubted, closing>>

Settle ==
    /\ doubted' \subseteq doubted
    /\ UNCHANGED <<board, target, readings, closing>>

Close ==
    /\ ~closing /\ closing' = TRUE /\ doubted' = UIDs
    /\ UNCHANGED <<board, target, readings>>

Next ==
    \/ \E u \in UIDs : \/ Strike(u)
                       \/ \E c \in Configs \cup {NoConfig} : Enlist(u, c)
                       \/ \E i \in Inspectors, c \in Configs,
                             v \in {"healthy", "unhealthy", "unknown"} : Take(i, u, c, v)
    \/ \E r \in readings : Report(r) \/ Discard(r)
    \/ \E c \in Configs, h \in {"healthy", "unhealthy", "unknown"} : TargetTurns(c, h)
    \/ Settle \/ Close

Spec == Init /\ [][Next]_vars
=============================================================================
