----------------------------- MODULE SessionOffice ---------------------------
(***************************************************************************)
(* What the WebSocket endpoint promises: an office that admits sessions.   *)
(* A session opens on a token that has not lapsed, shown itself or behind  *)
(* a ticket; the ticket is then spent.  A session keeps its token and is   *)
(* told of nothing that the token does not open.                           *)
(***************************************************************************)
EXTENDS Naturals

CONSTANTS Tokens, Tickets, Conns, Services, Visible, NoToken

VARIABLES
    standing,  \* of each token: "new", "good" or "lapsed"
    admitted,  \* how many sessions each ticket opened
    stub,      \* the token each ticket at hand stands for, or NoToken
    spent,     \* tickets that were used up
    session,   \* the token each open connection stands on, or NoToken
    told       \* services each open connection was told about

vars == <<standing, stub, spent, admitted, session, told>>

Init ==
    /\ standing = [t \in Tokens |-> "new"]
    /\ stub = [k \in Tickets |-> NoToken] /\ spent = {}
    /\ admitted = [k \in Tickets |-> 0]
    /\ session = [c \in Conns |-> NoToken]
    /\ told = [c \in Conns |-> {}]

(* Tokens are issued and lapse; none comes back.                           *)
Age ==
    /\ standing' \in [Tokens -> {"new", "good", "lapsed"}]
    /\ \A t \in Tokens : /\ standing'[t] = "new" => standing[t] = "new"
                         /\ standing'[t] = "good" => standing[t] # "lapsed"
    /\ UNCHANGED <<stub, spent, admitted, session, told>>

Issue(k, t) ==
    /\ standing[t] = "good" /\ stub[k] = NoToken /\ k \notin spent
    /\ stub' = [stub EXCEPT ![k] = t]
    /\ UNCHANGED <<standing, spent, admitted, session, told>>

Spend(k) ==
    /\ stub[k] # NoToken /\ stub' = [stub EXCEPT ![k] = NoToken]
    /\ spent' = spent \cup {k}

(* A ticket expires, or is presented and refused.                          *)
Void(k) == Spend(k) /\ UNCHANGED <<standing, admitted, session, told>>

(* A connection is admitted: the ticket it presents, if it presents one,   *)
(* is spent on it.                                                         *)
Admit(c, t) ==
    /\ standing[t] = "good" /\ session[c] = NoToken
    /\ session' = [session EXCEPT ![c] = t]
    /\ UNCHANGED <<standing, told>>

AdmitByToken(c, t) == Admit(c, t) /\ UNCHANGED <<stub, spent, admitted>>

AdmitByTicket(c, k, t) ==
    /\ Admit(c, t)
    /\ stub[k] = t /\ Spend(k)
    /\ admitted' = [admitted EXCEPT ![k] = @ + 1]

Tell(c, ss) ==
    /\ session[c] # NoToken /\ ss \subseteq Visible[session[c]]
    /\ told' = [told EXCEPT ![c] = @ \cup ss]
    /\ UNCHANGED <<standing, stub, spent, admitted, session>>

Close(c) ==
    /\ session' = [session EXCEPT ![c] = NoToken]
    /\ told' = [told EXCEPT ![c] = {}]
    /\ UNCHANGED <<standing, stub, spent, admitted>>

Next ==
    \/ Age
    \/ \E k \in Tickets : Void(k) \/ \E t \in Tokens : Issue(k, t)
    \/ \E c \in Conns :
          \/ Close(c)
          \/ \E ss \in SUBSET Services : Tell(c, ss)
          \/ \E t \in Tokens : AdmitByToken(c, t) \/ \E k \in Tickets : AdmitByTicket(c, k, t)

Spec == Init /\ [][Next]_vars
=============================================================================
