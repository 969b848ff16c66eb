--------------------------- MODULE WsSessionProofs ---------------------------
(***************************************************************************)
(* Proofs about WsSession, for any tokens, tickets, connections and access *)
(* policy and any lifetimes.                                               *)
(***************************************************************************)
EXTENDS WsSession, TLAPS

LEMMA TypeStep == ASSUME TypeOK, [Next]_vars PROVE TypeOK'
  <1> USE TokenAssumption, TimeAssumption DEF TypeOK, authVars, connVars, hubVars
  <1>1. CASE Tick                                                BY <1>1 DEF Tick
  <1>2. CASE \E t \in Tokens : Login(t)                          BY <1>2 DEF Login
  <1>3. CASE \E k \in Tickets, t \in Tokens : IssueTicket(t, k)  BY <1>3 DEF IssueTicket, Valid
  <1>4. CASE \E k \in Tickets : ExpireTicket(k)                  BY <1>4 DEF ExpireTicket
  <1>5. CASE \E c \in Conns, t \in Tokens : UpgradeBearer(c, t)  BY <1>5 DEF UpgradeBearer, Valid, Accept
  <1>6. CASE \E c \in Conns, k \in Tickets : UpgradeTicket(c, k) BY <1>6 DEF UpgradeTicket, Accept
  <1>7. CASE \E c \in Conns : UpgradeFails(c)                    BY <1>7 DEF UpgradeFails
  <1>8. CASE \E c \in Conns : Register(c)                        BY <1>8 DEF Register
  <1>9. CASE \E c \in Conns : StartTimer(c)                      BY <1>9 DEF StartTimer
  <1>10. CASE \E c \in Conns : TimerFires(c)                      BY <1>10 DEF TimerFires
  <1>11. CASE \E c \in Conns : Disconnect(c)                      BY <1>11 DEF Disconnect
  <1>12. CASE \E c \in Conns : Leave(c)                           BY <1>12 DEF Leave
  <1>13. CASE \E s \in Services : Dispatch(s)                     BY <1>13 DEF Dispatch
  <1>14. CASE \E c \in Conns : Write(c)                           BY <1>14 DEF Write
  <1>15. CASE DispatchDone                                        BY <1>15 DEF DispatchDone
  <1>16. CASE UNCHANGED vars                                      BY <1>16 DEF vars
  <1> QED BY <1>1, <1>2, <1>3, <1>4, <1>5, <1>6, <1>7, <1>8, <1>9, <1>10,
         <1>11, <1>12, <1>13, <1>14, <1>15, <1>16
      DEF Next, ConnStep, Broadcast

(* GETDEL: a ticket is gone when it has let one upgrade through.           *)
LEMMA TicketStep ==
    ASSUME TypeOK, TicketsAreFresh, TicketOpensOneSession, [Next]_vars
    PROVE  TicketsAreFresh' /\ TicketOpensOneSession'
  <1> USE TokenAssumption, TimeAssumption
      DEF TypeOK, TicketsAreFresh, TicketOpensOneSession, authVars, connVars, hubVars
  <1>1. CASE Tick                                                BY <1>1 DEF Tick
  <1>2. CASE \E t \in Tokens : Login(t)                          BY <1>2 DEF Login
  <1>3. CASE \E k \in Tickets, t \in Tokens : IssueTicket(t, k)  BY <1>3 DEF IssueTicket, Valid
  <1>4. CASE \E k \in Tickets : ExpireTicket(k)                  BY <1>4 DEF ExpireTicket
  <1>5. CASE \E c \in Conns, t \in Tokens : UpgradeBearer(c, t)  BY <1>5 DEF UpgradeBearer, Valid, Accept
  <1>6. CASE \E c \in Conns, k \in Tickets : UpgradeTicket(c, k) BY <1>6 DEF UpgradeTicket, Accept
  <1>7. CASE \E c \in Conns : UpgradeFails(c)                    BY <1>7 DEF UpgradeFails
  <1>8. CASE \E c \in Conns : Register(c)                        BY <1>8 DEF Register
  <1>9. CASE \E c \in Conns : StartTimer(c)                      BY <1>9 DEF StartTimer
  <1>10. CASE \E c \in Conns : TimerFires(c)                      BY <1>10 DEF TimerFires
  <1>11. CASE \E c \in Conns : Disconnect(c)                      BY <1>11 DEF Disconnect
  <1>12. CASE \E c \in Conns : Leave(c)                           BY <1>12 DEF Leave
  <1>13. CASE \E s \in Services : Dispatch(s)                     BY <1>13 DEF Dispatch
  <1>14. CASE \E c \in Conns : Write(c)                           BY <1>14 DEF Write
  <1>15. CASE DispatchDone                                        BY <1>15 DEF DispatchDone
  <1>16. CASE UNCHANGED vars                                      BY <1>16 DEF vars
  <1> QED BY <1>1, <1>2, <1>3, <1>4, <1>5, <1>6, <1>7, <1>8, <1>9, <1>10,
         <1>11, <1>12, <1>13, <1>14, <1>15, <1>16
      DEF Next, ConnStep, Broadcast

(* ServeWS registers before it serves; the reader and a failed write leave *)
(* no client without a connection, and no connection without its client.   *)
LEMMA ClientStep ==
    ASSUME TypeOK, ClientsAreConnections, [Next]_vars PROVE ClientsAreConnections'
  <1> USE TokenAssumption DEF TypeOK, ClientsAreConnections, authVars, connVars, hubVars
  <1>1. CASE Tick                                                BY <1>1 DEF Tick
  <1>2. CASE \E t \in Tokens : Login(t)                          BY <1>2 DEF Login
  <1>3. CASE \E k \in Tickets, t \in Tokens : IssueTicket(t, k)  BY <1>3 DEF IssueTicket, Valid
  <1>4. CASE \E k \in Tickets : ExpireTicket(k)                  BY <1>4 DEF ExpireTicket
  <1>5. CASE \E c \in Conns, t \in Tokens : UpgradeBearer(c, t)  BY <1>5 DEF UpgradeBearer, Accept, Unused
  <1>6. CASE \E c \in Conns, k \in Tickets : UpgradeTicket(c, k) BY <1>6 DEF UpgradeTicket, Accept, Unused
  <1>7. CASE \E c \in Conns : UpgradeFails(c)                    BY <1>7 DEF UpgradeFails
  <1>8. CASE \E c \in Conns : Register(c)                        BY <1>8 DEF Register
  <1>9. CASE \E c \in Conns : StartTimer(c)                      BY <1>9 DEF StartTimer
  <1>10. CASE \E c \in Conns : TimerFires(c)                      BY <1>10 DEF TimerFires
  <1>11. CASE \E c \in Conns : Disconnect(c)                      BY <1>11 DEF Disconnect
  <1>12. CASE \E c \in Conns : Leave(c)                           BY <1>12 DEF Leave
  <1>13. CASE \E s \in Services : Dispatch(s)                     BY <1>13 DEF Dispatch
  <1>14. CASE \E c \in Conns : Write(c)                           BY <1>14 DEF Write
  <1>15. CASE DispatchDone                                        BY <1>15 DEF DispatchDone
  <1>16. CASE UNCHANGED vars                                      BY <1>16 DEF vars
  <1> QED BY <1>1, <1>2, <1>3, <1>4, <1>5, <1>6, <1>7, <1>8, <1>9, <1>10,
         <1>11, <1>12, <1>13, <1>14, <1>15, <1>16
      DEF Next, ConnStep, Broadcast

(* Once issued, a token's exp does not change.                             *)
LEMMA SessionStep ==
    ASSUME TypeOK, SessionsAreIssued, [Next]_vars PROVE SessionsAreIssued'
  <1> USE TokenAssumption, TimeAssumption
      DEF TypeOK, SessionsAreIssued, authVars, connVars, hubVars
  <1>1. CASE Tick                                                BY <1>1 DEF Tick
  <1>2. CASE \E t \in Tokens : Login(t)                          BY <1>2 DEF Login
  <1>3. CASE \E k \in Tickets, t \in Tokens : IssueTicket(t, k)  BY <1>3 DEF IssueTicket, Valid
  <1>4. CASE \E k \in Tickets : ExpireTicket(k)                  BY <1>4 DEF ExpireTicket
  <1>5. CASE \E c \in Conns, t \in Tokens : UpgradeBearer(c, t)  BY <1>5 DEF UpgradeBearer, Valid, Accept
  <1>6. CASE \E c \in Conns, k \in Tickets : UpgradeTicket(c, k) BY <1>6 DEF UpgradeTicket, Accept
  <1>7. CASE \E c \in Conns : UpgradeFails(c)                    BY <1>7 DEF UpgradeFails
  <1>8. CASE \E c \in Conns : Register(c)                        BY <1>8 DEF Register
  <1>9. CASE \E c \in Conns : StartTimer(c)                      BY <1>9 DEF StartTimer
  <1>10. CASE \E c \in Conns : TimerFires(c)                      BY <1>10 DEF TimerFires
  <1>11. CASE \E c \in Conns : Disconnect(c)                      BY <1>11 DEF Disconnect
  <1>12. CASE \E c \in Conns : Leave(c)                           BY <1>12 DEF Leave
  <1>13. CASE \E s \in Services : Dispatch(s)                     BY <1>13 DEF Dispatch
  <1>14. CASE \E c \in Conns : Write(c)                           BY <1>14 DEF Write
  <1>15. CASE DispatchDone                                        BY <1>15 DEF DispatchDone
  <1>16. CASE UNCHANGED vars                                      BY <1>16 DEF vars
  <1> QED BY <1>1, <1>2, <1>3, <1>4, <1>5, <1>6, <1>7, <1>8, <1>9, <1>10,
         <1>11, <1>12, <1>13, <1>14, <1>15, <1>16
      DEF Next, ConnStep, Broadcast

LEMMA Invariance == Spec => []IInv
  <1>1. ASSUME Init PROVE IInv
    <2>1. TypeOK BY <1>1, TimeAssumption DEF Init, TypeOK
    <2> QED BY <1>1, <2>1 DEF Init, IInv, TicketsAreFresh, TicketOpensOneSession,
            SessionsAreIssued, ClientsAreConnections
  <1>2. IInv /\ [Next]_vars => IInv'
    BY TypeStep, TicketStep, SessionStep, ClientStep DEF IInv
  <1> QED BY <1>1, <1>2, PTL DEF Spec

(* Every reachable state has the types TypeOK says.                        *)
THEOREM TypeCorrect == Spec => []TypeOK
  <1>1. IInv => TypeOK BY DEF IInv
  <1> QED BY <1>1, Invariance, PTL

(* However many upgrades race for a ticket, one is let through.            *)
THEOREM TicketsAreSingleUse == Spec => []TicketOpensOneSession
  <1>1. IInv => TicketOpensOneSession BY DEF IInv
  <1> QED BY <1>1, Invariance, PTL

(* The hub's table and its open connections agree: nobody who is connected *)
(* misses the fan-out, and nobody who left stays in it.                    *)
THEOREM HubKnowsItsClients == Spec => []ClientsAreConnections
  <1>1. IInv => ClientsAreConnections BY DEF IInv
  <1> QED BY <1>1, Invariance, PTL

-----------------------------------------------------------------------------
(* WsSession implements SessionOffice.                                     *)

(* What the office has of tokens, tickets and connections.                 *)
Ages     == [t \in Tokens |-> Standing(t)]
Sessions == [c \in Conns |-> IF pc[c] = "free" THEN NoToken ELSE token[c]]
Told     == [c \in Conns |-> IF pc[c] = "free" THEN {} ELSE received[c]]

(* Time and issuing move tokens from new to good to lapsed, never back.    *)
LEMMA AgeStep ==
    ASSUME TypeOK, Tick \/ \E t \in Tokens : Login(t) PROVE [Office!Next]_(Office!vars)
  <1>1. UNCHANGED <<ticket, dies, opened, pc, token, received>>
    BY DEF Tick, Login, authVars, connVars, hubVars
  <1>2. UNCHANGED <<ticket, Spent, opened, Sessions, Told>>
    BY <1>1 DEF Spent, Sessions, Told
  <1>3. now' \in Nat /\ now' >= now /\ \A t \in Tokens : exp'[t] = exp[t] \/ exp[t] = 0
    BY DEF TypeOK, Tick, Login, authVars
  <1>4. \A t \in Tokens : /\ Standing(t)' \in {"new", "good", "lapsed"}
                          /\ Standing(t)' = "new" => Standing(t) = "new"
                          /\ Standing(t)' = "good" => Standing(t) # "lapsed"
    <2> SUFFICES ASSUME NEW t \in Tokens
                 PROVE  /\ Standing(t)' \in {"new", "good", "lapsed"}
                        /\ Standing(t)' = "new" => Standing(t) = "new"
                        /\ Standing(t)' = "good" => Standing(t) # "lapsed"
      OBVIOUS
    <2>1. Standing(t)' \in {"new", "good", "lapsed"}
      BY DEF Standing
    <2>2. CASE exp[t] = 0
      BY <2>1, <2>2 DEF Standing
    <2>3. CASE exp[t] # 0
      <3>1. exp'[t] = exp[t] /\ exp[t] \in Nat /\ now \in Nat
        BY <1>3, <2>3 DEF TypeOK
      <3>2. Valid(t)' => Valid(t)
        BY <1>3, <3>1, TimeAssumption DEF Valid
      <3> QED
        BY <2>1, <2>3, <3>1, <3>2 DEF Standing
    <2> QED
      BY <2>2, <2>3
  <1>5. Office!Age
    BY <1>1, <1>2, <1>4 DEF Office!Age, Ages, Sessions, Told
  <1> QED
    BY <1>5 DEF Office!Next

(* A ticket is issued on a good token, and becomes void when its key       *)
(* expires.                                                                *)
LEMMA StubStep ==
    ASSUME TypeOK, TicketsAreFresh, NEW k \in Tickets,
           ExpireTicket(k) \/ \E t \in Tokens : IssueTicket(t, k)
    PROVE  [Office!Next]_(Office!vars)
  <1>1. UNCHANGED <<exp, now, opened, pc, token, received>>
    BY DEF ExpireTicket, IssueTicket, connVars, hubVars
  <1>2. UNCHANGED <<Ages, opened, Sessions, Told>>
    BY <1>1 DEF Ages, Standing, Valid, Sessions, Told
  <1>3. ASSUME ExpireTicket(k) PROVE Office!Void(k)
    <2>1. Office!Spend(k)
      BY <1>3, TokenAssumption DEF ExpireTicket, TypeOK, TicketsAreFresh, Spent, Office!Spend
    <2> QED
      BY <1>2, <2>1 DEF Office!Void, Ages, Sessions, Told
  <1>4. ASSUME NEW t \in Tokens, IssueTicket(t, k) PROVE Office!Issue(k, t)
    <2>1. Standing(t) = "good" /\ k \notin Spent
      BY <1>4 DEF IssueTicket, Standing, Spent, Valid
    <2>2. ticket[k] = NoToken
      BY <1>4 DEF IssueTicket, TicketsAreFresh
    <2>3. ticket' = [ticket EXCEPT ![k] = t] /\ UNCHANGED Spent
      BY <1>4, <2>2, TokenAssumption DEF IssueTicket, TypeOK, Spent
    <2> QED
      BY <1>2, <2>1, <2>2, <2>3 DEF Office!Issue, Ages, Sessions, Told
  <1> QED
    BY <1>3, <1>4 DEF Office!Next

(* An upgrade puts the connection on the accepted token, told of nothing.  *)
LEMMA AcceptStep ==
    ASSUME TypeOK, NEW c \in Conns, NEW t \in Tokens, pc[c] = "free", Accept(c, t)
    PROVE  /\ Sessions[c] = NoToken /\ Sessions' = [Sessions EXCEPT ![c] = t]
           /\ UNCHANGED Told
  BY DEF TypeOK, Accept, Sessions, Told

(* The upgrades: GETDEL spends the ticket whether it admits or not, and    *)
(* the guard on exp lets no lapsed token in.                               *)
LEMMA AdmitStep ==
    ASSUME TypeOK, TicketsAreFresh, NEW c \in Conns,
           (\E t \in Tokens : UpgradeBearer(c, t)) \/ \E k \in Tickets : UpgradeTicket(c, k)
    PROVE  [Office!Next]_(Office!vars)
  <1>1. UNCHANGED <<exp, now, dies>> /\ pc[c] = "free"
    BY DEF UpgradeBearer, UpgradeTicket, Unused, authVars
  <1>2. UNCHANGED Ages
    BY <1>1 DEF Ages, Standing, Valid
  <1>3. ASSUME NEW t \in Tokens, UpgradeBearer(c, t) PROVE Office!AdmitByToken(c, t)
    <2>1. Standing(t) = "good" /\ Accept(c, t) /\ UNCHANGED <<ticket, opened>>
      BY <1>3 DEF UpgradeBearer, Standing, Valid, authVars
    <2>2. UNCHANGED Spent
      BY <1>1, <2>1 DEF Spent
    <2> QED
      BY <1>1, <1>2, <2>1, <2>2, AcceptStep
         DEF Office!AdmitByToken, Office!Admit, Ages, Sessions, Told
  <1>4. ASSUME NEW k \in Tickets, UpgradeTicket(c, k)
        PROVE  Office!Void(k) \/ \E t \in Tokens : Office!AdmitByTicket(c, k, t)
    <2>1. PICK t \in Tokens : ticket[k] = t
      BY <1>4 DEF UpgradeTicket, TypeOK
    <2>2. Office!Spend(k)
      BY <1>1, <1>4 DEF UpgradeTicket, TypeOK, TicketsAreFresh, Spent, Office!Spend
    <2>3. CASE exp[t] > now
      <3>1. Accept(c, t) /\ opened' = [opened EXCEPT ![k] = @ + 1]
        BY <1>4, <2>1, <2>3 DEF UpgradeTicket
      <3>2. Standing(t) = "good"
        BY <2>3, TimeAssumption DEF TypeOK, Standing, Valid
      <3>3. Office!AdmitByTicket(c, k, t)
        BY <1>1, <1>2, <2>1, <2>2, <3>1, <3>2, AcceptStep
           DEF Office!AdmitByTicket, Office!Admit, Ages, Sessions, Told
      <3> QED
        BY <3>3
    <2>4. CASE ~(exp[t] > now)
      <3>1. UNCHANGED <<pc, token, received, opened>>
        BY <1>4, <2>1, <2>4 DEF UpgradeTicket, connVars
      <3>2. UNCHANGED <<Sessions, Told>>
        BY <3>1 DEF Sessions, Told
      <3>3. Office!Void(k)
        BY <1>2, <2>2, <3>1, <3>2 DEF Office!Void, Ages, Sessions, Told
      <3> QED
        BY <3>3
    <2> QED
      BY <2>3, <2>4
  <1> QED
    BY <1>3, <1>4 DEF Office!Next

(* A connection ends when its slot is free again.                          *)
LEMMA CloseStep ==
    ASSUME TypeOK, NEW c \in Conns, UpgradeFails(c) \/ Leave(c)
    PROVE  [Office!Next]_(Office!vars)
  <1>1. /\ UNCHANGED <<exp, now, ticket, dies, opened, token, received>>
        /\ pc' = [pc EXCEPT ![c] = "free"]
    BY DEF UpgradeFails, Leave, authVars, hubVars
  <1>2. UNCHANGED <<Ages, Spent>>
    BY <1>1 DEF Ages, Standing, Valid, Spent
  <1>3. Sessions' = [Sessions EXCEPT ![c] = NoToken] /\ Told' = [Told EXCEPT ![c] = {}]
    BY <1>1 DEF TypeOK, Sessions, Told
  <1>4. Office!Close(c)
    BY <1>1, <1>2, <1>3 DEF Office!Close, Ages, Sessions, Told
  <1> QED
    BY <1>4 DEF Office!Next

(* A write that reaches its client was let through by the policy for the   *)
(* token of this very session.                                             *)
LEMMA TellStep ==
    ASSUME TypeOK, SessionsAreIssued, NEW c \in Conns, Write(c)
    PROVE  [Office!Next]_(Office!vars)
  <1>1. UNCHANGED <<exp, now, ticket, dies, opened, token>>
    BY DEF Write, authVars
  <1>2. UNCHANGED <<Ages, Spent>>
    BY <1>1 DEF Ages, Standing, Valid, Spent
  <1>3. \A d \in Conns : pc'[d] = "free" <=> pc[d] = "free"
    BY DEF Write, TypeOK
  <1>4. UNCHANGED Sessions
    BY <1>1, <1>3 DEF Sessions
  <1>5. CASE UNCHANGED received
    <2>1. UNCHANGED Told
      BY <1>3, <1>5 DEF Told
    <2> QED
      BY <1>1, <1>2, <1>4, <2>1 DEF Office!vars, Ages, Sessions, Told
  <1>6. CASE ~UNCHANGED received
    <2>1. PICK ss \in SUBSET Services : ss = frame
      BY DEF TypeOK
    <2>2. /\ ss \subseteq Visible[token[c]] /\ pc[c] # "free"
          /\ received' = [received EXCEPT ![c] = @ \cup ss]
      BY <1>6, <2>1 DEF Write
    <2>3. Sessions[c] = token[c] /\ token[c] # NoToken
      BY <2>2, TokenAssumption DEF Sessions, SessionsAreIssued
    <2>4. Told' = [Told EXCEPT ![c] = @ \cup ss]
      BY <1>3, <2>2 DEF TypeOK, Told
    <2>5. Office!Tell(c, ss)
      BY <1>1, <1>2, <1>4, <2>2, <2>3, <2>4 DEF Office!Tell, Ages, Sessions, Told
    <2> QED
      BY <2>5 DEF Office!Next
  <1> QED
    BY <1>5, <1>6

(* Every step of the handlers and the hub is a step of the office or       *)
(* leaves it as it is.                                                     *)
LEMMA OfficeStep == IInv /\ [Next]_vars => [Office!Next]_(Office!vars)
  <1> SUFFICES ASSUME IInv, [Next]_vars PROVE [Office!Next]_(Office!vars)
    OBVIOUS
  <1>1. TypeOK /\ TicketsAreFresh /\ SessionsAreIssued
    BY DEF IInv
  <1>2. ASSUME UNCHANGED <<exp, now, ticket, dies, opened, token, received>>,
               \A d \in Conns : pc'[d] = "free" <=> pc[d] = "free"
        PROVE  [Office!Next]_(Office!vars)
    <2>1. UNCHANGED <<Ages, Spent, opened, Sessions, Told>>
      BY <1>2 DEF Ages, Standing, Valid, Spent, Sessions, Told
    <2> QED
      BY <1>2, <2>1 DEF Office!vars, Ages, Sessions, Told
  <1>3. ASSUME NEW c \in Conns, Register(c) \/ StartTimer(c) \/ TimerFires(c) \/ Disconnect(c)
        PROVE  [Office!Next]_(Office!vars)
    BY <1>1, <1>2, <1>3 DEF TypeOK, Register, StartTimer, TimerFires, Disconnect, authVars, hubVars
  <1>4. ASSUME (\E s \in Services : Dispatch(s)) \/ DispatchDone \/ UNCHANGED vars
        PROVE  [Office!Next]_(Office!vars)
    BY <1>2, <1>4 DEF Dispatch, DispatchDone, vars, authVars, connVars
  <1> QED
    BY <1>1, <1>3, <1>4, AgeStep, StubStep, AdmitStep, CloseStep, TellStep
       DEF Next, ConnStep, Broadcast

(* The endpoint keeps the promises of the office, for any tokens, tickets, *)
(* connections and lifetimes: single-use tickets, no session on a lapsed   *)
(* token, one principal per session and nothing told that it may not see.  *)
THEOREM EndpointImplementsOffice == Spec => SessionsAreAdmitted
  <1>1. Init => Office!Init
    BY DEF Init, Office!Init, Standing, Spent
  <1> QED
    BY Invariance, OfficeStep, <1>1, PTL DEF Spec, SessionsAreAdmitted, Office!Spec

=============================================================================
