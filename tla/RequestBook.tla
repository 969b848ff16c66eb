----------------------------- MODULE RequestBook -----------------------------
(***************************************************************************)
(* What the access requests promise: a book of requests.  A request is     *)
(* filed pending for one user and one service and decided as often as the  *)
(* administrators like.  Only while its filing has not been answered can a *)
(* decision be lost again; a decided request whose user was answered is    *)
(* never pending again.  A user joins a group only under an approval of a  *)
(* request of theirs, and only a group that the service requires.  A user  *)
(* and service have one pending request at most, unless a request of       *)
(* theirs put them in dispute.                                             *)
(***************************************************************************)
CONSTANTS Users, Services, Groups, RequiredGroups, IDs, NoPair

Pairs == Users \X Services

VARIABLES
    owner,     \* user and service of each request, NoPair before it is made
    status,    \* "none" before a request is filed
    filing,    \* requests whose users wait for an answer
    disputed,  \* pairs of user and service that may have two pending requests
    granting,  \* requests under whose approval groups are being joined
    members    \* users and the groups they are in

vars == <<owner, status, filing, disputed, granting, members>>

Init ==
    /\ owner = [id \in IDs |-> NoPair]
    /\ status = [id \in IDs |-> "none"]
    /\ filing = {} /\ disputed = {} /\ granting = {} /\ members = {}

Ask(id, p) ==
    /\ owner[id] = NoPair
    /\ owner' = [owner EXCEPT ![id] = p]
    /\ filing' = filing \cup {id}
    /\ UNCHANGED <<status, disputed, granting, members>>

File(id) ==
    /\ id \in filing /\ status[id] = "none"
    /\ owner[id] \in disputed \/ \A i \in IDs : owner[i] = owner[id] => status[i] # "pending"
    /\ status' = [status EXCEPT ![id] = "pending"]
    /\ UNCHANGED <<owner, filing, disputed, granting, members>>

(* The filing is repeated and undoes a decision nobody waited for.         *)
Refile(id) ==
    /\ id \in filing /\ status[id] \in {"approved", "denied"}
    /\ status' = [status EXCEPT ![id] = "pending"]
    /\ disputed' = disputed \cup {owner[id]}
    /\ UNCHANGED <<owner, filing, granting, members>>

Decide(id, v) ==
    /\ status[id] # "none"
    /\ status' = [status EXCEPT ![id] = v]
    /\ granting' = granting \cup IF v = "approved" THEN {id} ELSE {}
    /\ UNCHANGED <<owner, filing, disputed, members>>

(* As a request is answered, its user and service may come into dispute.   *)
Dispute(id) ==
    /\ id \in filing \/ status[id] # "none"
    /\ disputed' = disputed \cup {owner[id]}
    /\ filing' \subseteq filing /\ granting' \subseteq granting
    /\ UNCHANGED <<owner, status, members>>

Join(id, g) ==
    /\ id \in granting /\ g \in RequiredGroups[owner[id][2]]
    /\ members' = members \cup {<<owner[id][1], g>>}
    /\ UNCHANGED <<owner, status, filing, disputed, granting>>

(* Requests are answered, and grants come to their end.                    *)
Answer ==
    /\ filing' \subseteq filing /\ granting' \subseteq granting
    /\ UNCHANGED <<owner, status, disputed, members>>

Next ==
    \/ \E id \in IDs :
          \/ \E p \in Pairs : Ask(id, p)
          \/ \E v \in {"approved", "denied"} : Decide(id, v)
          \/ \E g \in Groups : Join(id, g)
          \/ File(id) \/ Refile(id) \/ Dispute(id)
    \/ Answer

Spec == Init /\ [][Next]_vars
=============================================================================
