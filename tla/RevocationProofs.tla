-------------------------- MODULE RevocationProofs --------------------------
(***************************************************************************)
(* Proof that a credential taken away keeps nobody online, once its kick   *)
(* is through, but those caught in the one window of Revocation.           *)
(***************************************************************************)
EXTENDS Revocation, ControlPlaneProofs

\* A connection that has been let in on a credential since taken away is past
\* the hello; if it has not registered yet, a kick is still due or it was
\* caught in the window.
WindowInv ==
  /\ token \in [Users -> Nat]
  /\ presented \in [Conns -> Nat]
  /\ \A c \in Conns :
       /\ pc[c] \in {"idle", "hello"} => presented[c] = 0
       /\ Outdated(c) /\ pc[c] = "authed" => UserOf[c] \in kick_due \/ c \in raced

-----------------------------------------------------------------------------
\* Every step of the two processes is one of the server, or none.
LEMMA RevocationNextIsNext == [RevocationNext]_allVars => [Next]_vars
BY DEF RevocationNext, ServerStep, AuthenticateCurrent, Revoke, Reissue, PostKick,
       allVars, Next, Admin

\* The control plane's invariant holds beside the database as well.
LEMMA ServerInvariant == RevocationSpec => []IInv
<1>1. RevocationInit => IInv
  BY InitIInv DEF RevocationInit
<1>2. IInv /\ [RevocationNext]_allVars => IInv'
  BY RevocationNextIsNext, NextIInv
<1>3. QED
  BY <1>1, <1>2, PTL DEF RevocationSpec

\* Where a step of the server takes a connection's task: nothing that has
\* begun goes back, and a kick is not taken back.
Forward(c) ==
  /\ \/ pc'[c] = pc[c]
     \/ pc[c] = "idle" /\ pc'[c] = "hello"
     \/ pc[c] = "hello" /\ pc'[c] = "done"
     \/ pc[c] = "authed" /\ pc'[c] = "loop"
     \/ c \in Registered /\ pc'[c] \notin {"idle", "hello", "authed"}
  /\ cancel[c] => cancel'[c]

\* The server's own steps, for whatever connection is looked at.
LEMMA ServerStepIsForward ==
  ASSUME IInv, ServerStep, NEW c \in Conns
  PROVE  Forward(c)
<1>1. TypeOK
  BY DEF IInv
<1> USE <1>1 DEF Forward, Registered, TypeOK, RegistryTypeOK, Go, registryVars
<1>2. ASSUME NEW d \in Conns, Handshake(d) \/ Environment(d) \/ HeartbeatTick(d) \/ Pong(d)
      PROVE  Forward(c)
  BY <1>2 DEF Handshake, Accept, HandshakeFails, Environment, PeerMutes, PeerReturns,
              PeerLeaves, HeartbeatTick, Pong
<1>3. ASSUME NEW d \in Conns, LoopEnds(d)
      PROVE  Forward(c)
  BY <1>3 DEF LoopEnds, LoopCancelled, LoopShutdown, LoopPeerGone, LoopHeartbeatLost,
              EnterCleanup, Disconnect
<1>4. ASSUME NEW d \in Conns, RegisterSession(d) \/ CleanupRelease(d) \/ CleanupUnregister(d)
      PROVE  Forward(c)
  BY <1>4 DEF RegisterSession, Register, CleanupRelease, CleanupUnregister, Unregister
<1>5. ASSUME NEW d \in Conns, LeaseTaken(d) \/ LeaseBindFails(d)
      PROVE  Forward(c)
  BY <1>5 DEF LeaseTaken, LeaseBindFails, NextPort
<1>6. ASSUME NEW d \in Conns, LeaseReserve(d) \/ LeaseExhausted(d) \/ LeaseBinds(d)
      PROVE  Forward(c)
  BY <1>6 DEF LeaseReserve, LeaseExhausted, LeaseBinds
<1>7. ASSUME NEW d \in Conns, FinishOpen(d) \/ RollBack(d) \/ FinishClose(d)
      PROVE  Forward(c)
  BY <1>7 DEF FinishOpen, RollBack, FinishClose, SetTcpPort, CloseTunnel
<1>8. ASSUME NEW d \in Conns, NEW h \in Hosts,
             \/ OpenHttp(d, h) \/ CloseRequest(d, h)
             \/ \E w \in Wanted : OpenTcp(d, h, w)
      PROVE  Forward(c)
  BY <1>8 DEF OpenHttp, OpenTcp, CloseRequest, Request, OpenTunnel
<1>9. ASSUME \/ Shutdown
             \/ \E p \in Ports : ListenerTask(p)
      PROVE  Forward(c)
  BY <1>9 DEF Shutdown, ListenerTask, taskVars
<1>10. QED
  BY <1>2, <1>3, <1>4, <1>5, <1>6, <1>7, <1>8, <1>9, HostForIs
  DEF ServerStep, Task, Work, Message

\* A kick reaches every registered session of the account, because the index
\* is exact, and every other one let in by it is caught in the window.
LEMMA RevocationNextKeeps ==
  IInv /\ IInv' /\ WindowInv /\ OnlyRacedSurvive /\ [RevocationNext]_allVars
    => WindowInv' /\ OnlyRacedSurvive'
<1> SUFFICES ASSUME IInv, IInv', WindowInv, OnlyRacedSurvive, [RevocationNext]_allVars
             PROVE  WindowInv' /\ OnlyRacedSurvive'
  OBVIOUS
<1>1. /\ sessions = Registered
      /\ sessions' = Registered'
      /\ TypeOK
      /\ \A u \in Users : by_user[u] = {c \in sessions : UserOf[c] = u}
      /\ UserOf \in [Conns -> Users]
  BY RegistryAssumption DEF IInv, NoOrphanRoute, IndexExact
<1>2. CASE ServerStep
  <2>1. \A c \in Conns : Forward(c)
    BY <1>2, ServerStepIsForward
  <2>2. UNCHANGED dbVars
    BY <1>2 DEF ServerStep
  <2>3. \A c \in Conns : Outdated(c)' <=> Outdated(c)
    BY <2>2 DEF dbVars, Outdated
  <2>4. WindowInv'
    BY <2>1, <2>2, <2>3 DEF WindowInv, Forward, Registered, dbVars
  <2>5. ASSUME NEW c \in sessions', Outdated(c)'
        PROVE  cancel'[c] \/ UserOf[c] \in kick_due' \/ c \in raced'
    <3>1. c \in Conns /\ Outdated(c) /\ kick_due' = kick_due /\ raced' = raced
      BY <1>1, <2>2, <2>3, <2>5 DEF dbVars, Registered
    <3>2. CASE c \in sessions
      BY <2>1, <3>1, <3>2 DEF OnlyRacedSurvive, Forward
    <3>3. CASE c \notin sessions
      <4>1. pc[c] = "authed"
        <5>1. pc[c] \notin {"idle", "hello"}
          BY <3>1 DEF WindowInv, Outdated
        <5>2. QED
          BY <1>1, <2>1, <2>5, <3>1, <3>3, <5>1 DEF Registered, Forward
      <4>2. QED
        BY <3>1, <4>1 DEF WindowInv
    <3>4. QED
      BY <3>2, <3>3
  <2>6. QED
    BY <2>4, <2>5 DEF OnlyRacedSurvive
<1>3. ASSUME NEW d \in Conns, NEW t \in 1..MaxIssued, AuthenticateCurrent(d, t)
      PROVE  WindowInv' /\ OnlyRacedSurvive'
  <2> USE <1>3 DEF AuthenticateCurrent, Authenticate, Go, registryVars
  <2>1. /\ pc' = [pc EXCEPT ![d] = "authed"]
        /\ presented' = [presented EXCEPT ![d] = t]
        /\ presented \in [Conns -> Nat]
        /\ t \in Nat
    BY RevocationAssumption DEF WindowInv
  <2>2. ~Outdated(d)'
    BY <2>1 DEF Outdated
  <2>3. \A c \in Conns \ {d} : Outdated(c)' <=> Outdated(c)
    BY <2>1 DEF Outdated
  <2>4. \A c \in Conns \ {d} : pc'[c] = pc[c] /\ presented'[c] = presented[c]
    BY <1>1, <2>1 DEF TypeOK
  <2>5. pc'[d] = "authed" /\ presented' \in [Conns -> Nat]
    BY <1>1, <2>1 DEF TypeOK
  <2>6. WindowInv'
    BY <2>2, <2>3, <2>4, <2>5 DEF WindowInv
  <2>7. \A c \in sessions : c \in Conns
    BY <1>1 DEF Registered
  <2>8. OnlyRacedSurvive'
    BY <2>2, <2>3, <2>7 DEF OnlyRacedSurvive
  <2>9. QED
    BY <2>6, <2>8
<1>4. ASSUME NEW u \in Users, Revoke(u) \/ Reissue(u)
      PROVE  WindowInv' /\ OnlyRacedSurvive'
  <2> USE <1>4 DEF Revoke, Reissue, vars, registryVars, taskVars
  <2>1. /\ kick_due' = kick_due \cup {u}
        /\ UNCHANGED <<pc, presented, raced, cancel, sessions>>
    OBVIOUS
  <2>2. \A c \in Conns : UserOf[c] # u => (Outdated(c)' => Outdated(c))
    BY <1>1 DEF Outdated, WindowInv
  <2>3. WindowInv'
    BY <2>1, <2>2 DEF WindowInv
  <2>4. \A c \in sessions : c \in Conns
    BY <1>1 DEF Registered
  <2>5. OnlyRacedSurvive'
    BY <2>1, <2>2, <2>4 DEF OnlyRacedSurvive
  <2>6. QED
    BY <2>3, <2>5
<1>5. ASSUME NEW u \in Users, PostKick(u)
      PROVE  WindowInv' /\ OnlyRacedSurvive'
  <2> USE <1>5 DEF PostKick, Kick, KickUser, taskVars
  <2>1. \A c \in Conns : Outdated(c)' <=> Outdated(c)
    BY DEF Outdated
  <2>2. WindowInv'
    BY <2>1 DEF WindowInv, InWindow
  <2>3. ASSUME NEW c \in sessions, Outdated(c)
        PROVE  cancel'[c] \/ UserOf[c] \in kick_due' \/ c \in raced'
    <3>1. c \in Conns
      BY <1>1, <2>3 DEF Registered
    <3>2. CASE UserOf[c] = u
      BY <1>1, <2>3, <3>1, <3>2
    <3>3. CASE UserOf[c] # u
      BY <1>1, <2>3, <3>1, <3>3 DEF OnlyRacedSurvive, TypeOK, RegistryTypeOK
    <3>4. QED
      BY <3>2, <3>3
  <2>4. \A c \in sessions' : c \in sessions /\ c \in Conns
    BY <1>1 DEF Registered
  <2>5. QED
    BY <2>1, <2>2, <2>3, <2>4 DEF OnlyRacedSurvive
<1>6. CASE UNCHANGED allVars
  BY <1>6 DEF allVars, vars, dbVars, registryVars, taskVars,
                  WindowInv, OnlyRacedSurvive, Outdated
<1>7. QED
  BY <1>2, <1>3, <1>4, <1>5, <1>6 DEF RevocationNext

\* The window between the check of a credential and the registration of the
\* session is the only way a credential taken away keeps somebody online: for
\* any number of accounts and connections, commands and kicks in any order.
THEOREM OnlyTheWindow == RevocationSpec => []OnlyRacedSurvive
<1>1. RevocationInit => WindowInv /\ OnlyRacedSurvive
  BY DEF RevocationInit, Init, RegistryInit, WindowInv, OnlyRacedSurvive, Outdated
<1>2. IInv /\ IInv' /\ WindowInv /\ OnlyRacedSurvive /\ [RevocationNext]_allVars
        => WindowInv' /\ OnlyRacedSurvive'
  BY RevocationNextKeeps
<1>3. QED
  BY <1>1, <1>2, ServerInvariant, PTL DEF RevocationSpec
=============================================================================
