------------------------------- MODULE WsSession -----------------------------
(***************************************************************************)
(* WebSocket sessions: tickets (internal/wsticket/store.go), the upgrade   *)
(* (internal/api/handlers.go handleWS, handleWSTicket) and the hub's       *)
(* clients, session timers and fan-out (internal/websocket/hub.go), with   *)
(* authentication enabled.                                                 *)
(*                                                                         *)
(* Time is a counter that may advance between any two steps; a token is    *)
(* good until its exp plus the validator's leeway.                         *)
(***************************************************************************)
EXTENDS Naturals, FiniteSets

CONSTANTS
    Tokens,     \* access tokens; each is issued once
    Tickets,    \* ticket IDs; each is drawn once
    Conns,      \* connections
    Services,   \* services that events are about
    Visible,    \* what canAccessPolicy lets the claims of each token see
    NoToken,    \* no token, no ticket value
    Life,       \* lifetime of an access token
    Leeway,     \* clockLeeway
    TicketTTL,
    MaxTime     \* bounds the clock

ASSUME TokenAssumption == NoToken \notin Tokens /\ Visible \in [Tokens -> SUBSET Services]
ASSUME TimeAssumption  == Life \in Nat /\ Leeway \in Nat /\ TicketTTL \in Nat
                          /\ MaxTime \in Nat \ {0}

VARIABLES
    now,
    exp,       \* exp of each token; 0 before it is issued
    ticket,    \* wsticket:{id}: the token whose claims it carries, or NoToken
    dies,      \* when each ticket key expires
    opened,    \* history: how many upgrades each ticket let through
    pc,        \* each connection: "free", "accepted", "registered", "open", "closed"
    token,     \* the token whose claims are the Principal of c, or of the last c
    timer,     \* connections whose session-end timer is set
    clients,   \* h.clients
    frame,     \* services of the event being broadcast: {} or one
    targets,   \* the snapshot of clients it has still to be written to
    received   \* services each connection was told about in its session

connVars == <<pc, token, timer>>
hubVars  == <<clients, frame, targets, received>>
authVars == <<exp, ticket, dies, opened>>
vars == <<now, exp, ticket, dies, opened, pc, token, timer, clients, frame, targets, received>>

TypeOK ==
    /\ now \in 1 .. MaxTime
    /\ exp \in [Tokens -> Nat]
    /\ ticket \in [Tickets -> Tokens \cup {NoToken}] /\ dies \in [Tickets -> Nat]
    /\ opened \in [Tickets -> Nat]
    /\ pc \in [Conns -> {"free", "accepted", "registered", "open", "closed"}]
    /\ token \in [Conns -> Tokens \cup {NoToken}]
    /\ timer \subseteq Conns /\ clients \subseteq Conns /\ targets \subseteq Conns
    /\ frame \in SUBSET Services
    /\ received \in [Conns -> SUBSET Services]

Init ==
    /\ now = 1
    /\ exp = [t \in Tokens |-> 0]
    /\ ticket = [k \in Tickets |-> NoToken] /\ dies = [k \in Tickets |-> 0]
    /\ opened = [k \in Tickets |-> 0]
    /\ pc = [c \in Conns |-> "free"] /\ token = [c \in Conns |-> NoToken]
    /\ timer = {} /\ clients = {} /\ frame = {} /\ targets = {}
    /\ received = [c \in Conns |-> {}]

-----------------------------------------------------------------------------
(* Clock and identity provider (external).                                 *)
Tick ==
    /\ now < MaxTime /\ now' = now + 1
    /\ UNCHANGED <<authVars, connVars, hubVars>>

Login(t) ==
    /\ exp[t] = 0 /\ exp' = [exp EXCEPT ![t] = now + Life]
    /\ UNCHANGED <<now, ticket, dies, opened, connVars, hubVars>>

-----------------------------------------------------------------------------
(* The handlers.                                                           *)

(* requireAuth: the expiry test of ValidateToken.                          *)
Valid(t) == exp[t] > 0 /\ now < exp[t] + Leeway

(* handleWSTicket: SET with the ticket's TTL.                              *)
IssueTicket(t, k) ==
    /\ Valid(t) /\ dies[k] = 0
    /\ ticket' = [ticket EXCEPT ![k] = t]
    /\ dies' = [dies EXCEPT ![k] = now + TicketTTL]
    /\ UNCHANGED <<now, exp, opened, connVars, hubVars>>

(* The key's TTL runs out in Redis.                                        *)
ExpireTicket(k) ==
    /\ ticket[k] # NoToken /\ now >= dies[k]
    /\ ticket' = [ticket EXCEPT ![k] = NoToken]
    /\ UNCHANGED <<now, exp, dies, opened, connVars, hubVars>>

(* No connection c, and no broadcast that will write to the last one.      *)
Unused(c) == pc[c] = "free" /\ c \notin targets

(* The upgrade of connection c goes on with the claims of token t.         *)
Accept(c, t) ==
    /\ pc' = [pc EXCEPT ![c] = "accepted"]
    /\ token' = [token EXCEPT ![c] = t]
    /\ timer' = timer \ {c}
    /\ received' = [received EXCEPT ![c] = {}]

(* handleWS with an Authorization header.                                  *)
UpgradeBearer(c, t) ==
    /\ Unused(c) /\ Valid(t)
    /\ Accept(c, t)
    /\ UNCHANGED <<now, authVars, clients, frame, targets>>

(* Mutation of UpgradeTicket: GET instead of GETDEL.                       *)
UpgradeTicketKeepsIt(c, k) ==
    /\ Unused(c) /\ ticket[k] # NoToken
    /\ IF exp[ticket[k]] > now
       THEN Accept(c, ticket[k]) /\ opened' = [opened EXCEPT ![k] = @ + 1]
       ELSE UNCHANGED <<connVars, received, opened>>
    /\ UNCHANGED <<now, exp, ticket, dies, clients, frame, targets>>

(* handleWS with a ticket: GETDEL, then the guard on the claims' exp; a    *)
(* refused ticket is used up too.                                          *)
UpgradeTicket(c, k) ==
    /\ Unused(c) /\ ticket[k] # NoToken
    /\ ticket' = [ticket EXCEPT ![k] = NoToken]
    /\ IF exp[ticket[k]] > now
       THEN Accept(c, ticket[k]) /\ opened' = [opened EXCEPT ![k] = @ + 1]
       ELSE UNCHANGED <<connVars, received, opened>>
    /\ UNCHANGED <<now, exp, dies, clients, frame, targets>>

-----------------------------------------------------------------------------
(* Hub.ServeWS and drop.                                                   *)

(* The upgrade fails, nothing was registered.                              *)
UpgradeFails(c) ==
    /\ pc[c] = "accepted" /\ pc' = [pc EXCEPT ![c] = "free"]
    /\ UNCHANGED <<now, authVars, token, timer, hubVars>>

(* The client is added to h.clients.                                       *)
Register(c) ==
    /\ pc[c] = "accepted" /\ pc' = [pc EXCEPT ![c] = "registered"]
    /\ clients' = clients \cup {c}
    /\ UNCHANGED <<now, authVars, token, timer, frame, targets, received>>

(* The timer is set only when time.Until(sessionEnd) is positive.          *)
StartTimer(c) ==
    /\ pc[c] = "registered" /\ pc' = [pc EXCEPT ![c] = "open"]
    /\ timer' = IF exp[token[c]] > now THEN timer \cup {c} ELSE timer
    /\ UNCHANGED <<now, authVars, token, hubVars>>

(* Mutation of TimerFires: the client is dropped, the connection stays.    *)
TimerFiresDropsOnly(c) ==
    /\ pc[c] = "open" /\ c \in timer /\ now >= exp[token[c]]
    /\ clients' = clients \ {c}
    /\ UNCHANGED <<now, authVars, connVars, frame, targets, received>>

(* conn.Close from the timer.                                              *)
TimerFires(c) ==
    /\ pc[c] = "open" /\ c \in timer /\ now >= exp[token[c]]
    /\ pc' = [pc EXCEPT ![c] = "closed"]
    /\ UNCHANGED <<now, authVars, token, timer, hubVars>>

(* The client goes away, or its connection breaks.                         *)
Disconnect(c) ==
    /\ pc[c] = "open" /\ pc' = [pc EXCEPT ![c] = "closed"]
    /\ UNCHANGED <<now, authVars, token, timer, hubVars>>

(* Mutation of Leave: the reader returns without drop.                     *)
LeaveWithoutDrop(c) ==
    /\ pc[c] = "closed" /\ pc' = [pc EXCEPT ![c] = "free"]
    /\ timer' = timer \ {c}
    /\ UNCHANGED <<now, authVars, token, hubVars>>

(* The reader of a closed connection ends, drops the client, if a failed   *)
(* write has not yet, and stops the timer.                                 *)
Leave(c) ==
    /\ pc[c] = "closed" /\ pc' = [pc EXCEPT ![c] = "free"]
    /\ timer' = timer \ {c}
    /\ clients' = clients \ {c}
    /\ UNCHANGED <<now, authVars, token, frame, targets, received>>

-----------------------------------------------------------------------------
(* The subscribe goroutine: dispatch and broadcastService.                 *)

(* The next event; the clients are copied under the read lock.             *)
Dispatch(s) ==
    /\ frame = {} /\ frame' = {s}
    /\ targets' = clients
    /\ UNCHANGED <<now, authVars, connVars, clients, received>>

(* Mutation of Write: a failed write takes the client off the table and    *)
(* leaves its connection open.                                             *)
WriteForgetsOnly(c) ==
    /\ c \in targets /\ targets' = targets \ {c}
    /\ \/ ~(frame \subseteq Visible[token[c]]) /\ UNCHANGED <<received, clients>>
       \/ /\ frame \subseteq Visible[token[c]] /\ pc[c] \in {"registered", "open"}
          /\ received' = [received EXCEPT ![c] = @ \cup frame]
          /\ UNCHANGED clients
       \/ /\ frame \subseteq Visible[token[c]]
          /\ clients' = clients \ {c} /\ UNCHANGED received
    /\ UNCHANGED <<now, authVars, pc, token, timer, frame>>

(* One client of the snapshot: skipped when the policy says no, dropped    *)
(* and closed when the write fails, as it does on a closed connection and  *)
(* may, within writeTimeout, on one that is too slow.                      *)
Write(c) ==
    /\ c \in targets /\ targets' = targets \ {c}
    /\ \/ ~(frame \subseteq Visible[token[c]]) /\ UNCHANGED <<received, clients, pc>>
       \/ /\ frame \subseteq Visible[token[c]] /\ pc[c] \in {"registered", "open"}
          /\ received' = [received EXCEPT ![c] = @ \cup frame]
          /\ UNCHANGED <<clients, pc>>
       \/ /\ frame \subseteq Visible[token[c]]
          /\ clients' = clients \ {c} /\ UNCHANGED received
          /\ pc' = IF pc[c] \in {"registered", "open"} THEN [pc EXCEPT ![c] = "closed"] ELSE pc
    /\ UNCHANGED <<now, authVars, token, timer, frame>>

DispatchDone ==
    /\ frame # {} /\ targets = {} /\ frame' = {}
    /\ UNCHANGED <<now, authVars, connVars, clients, targets, received>>

ConnStep(c) ==
    \/ UpgradeFails(c) \/ Register(c) \/ StartTimer(c) \/ TimerFires(c) \/ Leave(c)

Broadcast == (\E c \in Conns : Write(c)) \/ DispatchDone

Next ==
    \/ Tick \/ (\E t \in Tokens : Login(t))
    \/ \E k \in Tickets : ExpireTicket(k) \/ \E t \in Tokens : IssueTicket(t, k)
    \/ \E c \in Conns : \/ \E t \in Tokens : UpgradeBearer(c, t)
                        \/ \E k \in Tickets : UpgradeTicket(c, k)
                        \/ ConnStep(c) \/ Disconnect(c)
    \/ (\E s \in Services : Dispatch(s)) \/ Broadcast

Spec == Init /\ [][Next]_vars

(* Time passes, handlers run on, due timers fire and a write returns       *)
(* within writeTimeout.                                                    *)
FairSpec == Spec /\ WF_vars(Tick) /\ WF_vars(Broadcast)
                 /\ \A c \in Conns : WF_vars(ConnStep(c))

-----------------------------------------------------------------------------
(* Properties.                                                             *)

(* A ticket lets at most one upgrade through, whoever races for it.        *)
TicketOpensOneSession == \A k \in Tickets : opened[k] <= 1

Standing(t) == IF exp[t] = 0 THEN "new" ELSE IF Valid(t) THEN "good" ELSE "lapsed"
Spent == {k \in Tickets : dies[k] # 0 /\ ticket[k] = NoToken}

(* Tickets, upgrades and the fan-out are those of an office: a ticket      *)
(* admits once and never on a lapsed token, whoever races for it, and a    *)
(* session keeps its principal and is told of nothing that this principal  *)
(* may not see.                                                            *)
Office == INSTANCE SessionOffice WITH
              standing <- [t \in Tokens |-> Standing(t)],
              admitted <- opened,
              stub <- ticket, spent <- Spent,
              session <- [c \in Conns |-> IF pc[c] = "free" THEN NoToken ELSE token[c]],
              told <- [c \in Conns |-> IF pc[c] = "free" THEN {} ELSE received[c]]
SessionsAreAdmitted == Office!Spec

(* A ticket that can be redeemed was issued and has opened nothing.        *)
TicketsAreFresh ==
    \A k \in Tickets : /\ ticket[k] # NoToken => dies[k] > 0 /\ opened[k] = 0
                       /\ dies[k] = 0 => opened[k] = 0

(* A connection stands on a token that was issued.                         *)
SessionsAreIssued ==
    \A c \in Conns : pc[c] # "free" => token[c] \in Tokens /\ exp[token[c]] > 0

(* Every open connection is among the clients that the next event is       *)
(* written to, and every client is a connection that has not left: neither *)
(* a failed write to an old snapshot nor the reader, in whatever order     *)
(* they drop a client, leaves an open connection that hears nothing or a   *)
(* client that is no more (hub.go:361, 464).                               *)
ClientsAreConnections ==
    \A c \in Conns : /\ pc[c] \in {"registered", "open"} => c \in clients
                     /\ c \in clients => pc[c] \in {"registered", "open", "closed"}

(* The inductive invariant behind the safety properties.                   *)
IInv == /\ TypeOK /\ TicketsAreFresh /\ TicketOpensOneSession
        /\ SessionsAreIssued /\ ClientsAreConnections

(* A session that is open before its token expires ends once it has.  One  *)
(* that opens later, on a bearer token within the leeway or because time   *)
(* passed since the guard of the ticket path, has no timer and ends only   *)
(* with its connection.                                                    *)
SessionEnds ==
    \A c \in Conns, t \in Tokens :
        (pc[c] = "open" /\ token[c] = t /\ now < exp[t] /\ exp[t] <= MaxTime) ~> pc[c] # "open"

(* The hub forgets a connection that was closed.                           *)
ClosedIsDropped == \A c \in Conns : (pc[c] = "closed") ~> c \notin clients
=============================================================================
