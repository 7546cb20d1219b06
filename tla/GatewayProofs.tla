--------------------------- MODULE GatewayProofs ---------------------------
(***************************************************************************)
(* Proofs about Gateway, for every number of connections, users and        *)
(* addresses, every set of valid tables and all limits.                    *)
(***************************************************************************)
EXTENDS Gateway, SequenceTheorems, FiniteSetTheorems, TLAPS

USE GatewayAssumption DEF Claim, Frame, Phase, Record

-----------------------------------------------------------------------------
(* Type correctness                                                        *)

\* Taking a batch from a queue leaves two sequences of frames.
LEMMA BatchType ==
    ASSUME NEW S, NEW q \in Seq(S), NEW p \in Seq(S), q # <<>>,
           NEW n, n = Smaller(Batch, Len(q))
    PROVE  /\ p \o SubSeq(q, 1, n) \in Seq(S)
           /\ SubSeq(q, n + 1, Len(q)) \in Seq(S)
<1>1. n \in 1..Len(q)
  BY DEF Smaller
<1>2. SubSeq(q, 1, n) \in Seq(S)
  BY <1>1, SubSeqProperties
<1>3. SubSeq(q, n + 1, Len(q)) \in Seq(S)
  BY <1>1, SubSeqProperties
<1>4. p \o SubSeq(q, 1, n) \in Seq(S)
  BY <1>2, ConcatProperties
<1>. QED BY <1>3, <1>4

\* A packet is charged to a user or to nobody.
LEMMA IpUserType ==
    ASSUME NEW a \in Addr
    PROVE  IpUser(a) \in User \cup {None}
<1>1. CASE \E u \in User : users[u] # None /\ users[u].ip = a
  BY <1>1 DEF IpUser
<1>2. CASE ~ \E u \in User : users[u] # None /\ users[u].ip = a
  BY <1>2 DEF IpUser
<1>. QED BY <1>1, <1>2

\* The user that a packet for address a is charged to has that address in the table.
LEMMA IpUserUnique ==
    ASSUME users \in Tables, NEW u \in User, users[u] # None
    PROVE  IpUser(users[u].ip) = u
<1>1. ValidTable(users)
  OBVIOUS
<1>2. \A v \in User : users[v] # None /\ users[v].ip = users[u].ip => v = u
  BY <1>1 DEF ValidTable
<1>. QED BY <1>2 DEF IpUser

LEMMA RecordType ==
    ASSUME users \in Tables, NEW k \in Claim, Authorized(k)
    PROVE  users[k.user] \in Record
<1>1. ValidTable(users)
  OBVIOUS
<1>2. k.user \in User
  OBVIOUS
<1>. QED BY <1>1, <1>2 DEF ValidTable, Authorized

\* Every step keeps the types.
LEMMA TypeStep == TypeOK /\ PhaseOK /\ [Next]_vars => TypeOK'
<1>. SUFFICES ASSUME TypeOK, PhaseOK, [Next]_vars PROVE TypeOK'
  OBVIOUS
<1>. USE DEF TypeOK, vars, registry, session, tasks
<1>1. ASSUME NEW c \in Conn, NEW k \in Claim, Tunnel(c, k) PROVE TypeOK'
  BY <1>1 DEF Tunnel
<1>2. ASSUME NEW c \in Conn, NEW k \in Claim, Authenticate(c, k) PROVE TypeOK'
  BY <1>2, RecordType DEF Authenticate, Presents, Register, Rivals
<1>3. ASSUME NEW c \in Conn, NEW k \in Claim, Handover(c, k) PROVE TypeOK'
  BY <1>3, RecordType DEF Handover, Presents, Closed, Dropped
<1>4. ASSUME NEW c \in Conn, HandleUpgraded(c) PROVE TypeOK'
  BY <1>4 DEF HandleUpgraded
<1>5. ASSUME NEW c \in Conn, HandleRefused(c) PROVE TypeOK'
  BY <1>5 DEF HandleRefused
<1>6. ASSUME NEW c \in Conn, HandleStream(c) PROVE TypeOK'
  BY <1>6 DEF HandleStream
<1>7. ASSUME NEW c \in Conn, AuthFails(c) PROVE TypeOK'
  BY <1>7 DEF AuthFails
<1>8. ASSUME NEW c \in Conn, Resume(c) PROVE TypeOK'
  BY <1>8 DEF Resume, PhaseOK, Register, Rivals
<1>9. ASSUME NEW c \in Conn, ConfigSent(c) PROVE TypeOK'
  BY <1>9 DEF ConfigSent
<1>10. ASSUME NEW c \in Conn, ConfigFails(c) PROVE TypeOK'
  BY <1>10 DEF ConfigFails
<1>11. ASSUME NEW c \in Conn, Ping(c) PROVE TypeOK'
  <2>1. CASE Full(c)
    BY <1>11, <2>1 DEF Ping
  <2>2. CASE ~Full(c)
    <3>1. queue' = [queue EXCEPT ![c] = Append(@, Pong)] /\ rx' = rx
      BY <1>11, <2>2 DEF Ping
    <3>. QED BY <1>11, <3>1 DEF Ping
  <2>. QED BY <2>1, <2>2
<1>12. ASSUME NEW c \in Conn, PongQueued(c) PROVE TypeOK'
  BY <1>12 DEF PongQueued
<1>13. ASSUME NEW c \in Conn, PongTimeout(c) PROVE TypeOK'
  BY <1>13 DEF PongTimeout
<1>14. ASSUME NEW c \in Conn, ReceiveEnds(c) PROVE TypeOK'
  BY <1>14 DEF ReceiveEnds, Reading
<1>15. ASSUME NEW c \in Conn, ReceiveEof(c) PROVE TypeOK'
  BY <1>15 DEF ReceiveEof, Reading
<1>16. ASSUME NEW c \in Conn, TakeBatch(c) PROVE TypeOK'
  BY <1>16, BatchType DEF TakeBatch, Waiting
<1>17. ASSUME NEW c \in Conn, WriteFails(c) PROVE TypeOK'
  BY <1>17 DEF WriteFails, Waiting
<1>18. ASSUME NEW c \in Conn, Drained(c) PROVE TypeOK'
  BY <1>18 DEF Drained
<1>19. ASSUME NEW c \in Conn, DrainFails(c) PROVE TypeOK'
  BY <1>19 DEF DrainFails
<1>20. ASSUME NEW c \in Conn, TasksStop(c) PROVE TypeOK'
  BY <1>20 DEF TasksStop
<1>21. ASSUME NEW c \in Conn, Cleanup(c) PROVE TypeOK'
  BY <1>21 DEF Cleanup, Forget
<1>22. ASSUME NEW c \in Conn, SocketShut(c) PROVE TypeOK'
  BY <1>22 DEF SocketShut
<1>23. ASSUME NEW c \in Conn, Hangup(c) PROVE TypeOK'
  BY <1>23 DEF Hangup
<1>24. ASSUME NEW t \in Tables, ReplaceUsers(t) PROVE TypeOK'
  BY <1>24 DEF ReplaceUsers, Closed, Dropped
<1>25. ASSUME NEW a \in Addr, TunPacket(a) PROVE TypeOK'
  BY <1>25, IpUserType DEF TunPacket
<1>26. CASE UNCHANGED vars
  BY <1>26
<1>. QED
  BY <1>1, <1>2, <1>3, <1>4, <1>5, <1>6, <1>7, <1>8, <1>9, <1>10, <1>11, <1>12, <1>13, <1>14, <1>15, <1>16, <1>17, <1>18, <1>19, <1>20, <1>21, <1>22, <1>23, <1>24, <1>25, <1>26 DEF Next, Step

-----------------------------------------------------------------------------
(* The invariant of the registry and of the handover window                *)

\* Every step keeps the invariant.
LEMMA InvStep == IInv /\ [Next]_vars => IInv'
<1>. SUFFICES ASSUME IInv, [Next]_vars PROVE IInv'
  OBVIOUS
<1>t. TypeOK'
  BY TypeStep DEF IInv
<1>. DEFINE Goal == PhaseOK' /\ RegistryAgrees' /\ WindowOK' /\ LiveIsEntitled'
<1>. USE <1>t DEF IInv, TypeOK, vars, registry, session, tasks
<1>1. ASSUME NEW c \in Conn, NEW k \in Claim, Tunnel(c, k) PROVE Goal
  <2>1. PhaseOK'
    BY <1>1 DEF Tunnel, PhaseOK
  <2>2. RegistryAgrees'
    BY <1>1 DEF Tunnel, RegistryAgrees, PhaseOK
  <2>3. WindowOK'
    BY <1>1 DEF Tunnel, WindowOK, Live, PhaseOK, RegistryAgrees, LiveIsEntitled
  <2>4. LiveIsEntitled'
    BY <1>1 DEF Tunnel, LiveIsEntitled, Live, PhaseOK, RegistryAgrees, WindowOK
  <2>. QED BY <2>1, <2>2, <2>3, <2>4
<1>2. ASSUME NEW c \in Conn, NEW k \in Claim, Authenticate(c, k) PROVE Goal
  <2>1. PhaseOK'
    BY <1>2, RecordType DEF Authenticate, Presents, Register, Rivals, Authorized, PhaseOK
  <2>2. RegistryAgrees'
    BY <1>2, RecordType DEF Authenticate, Presents, Register, Rivals, Authorized, RegistryAgrees, PhaseOK
  <2>3. WindowOK'
    BY <1>2, RecordType DEF Authenticate, Presents, Register, Rivals, Authorized, WindowOK, Live, PhaseOK, RegistryAgrees, LiveIsEntitled
  <2>4. LiveIsEntitled'
    BY <1>2, RecordType DEF Authenticate, Presents, Register, Rivals, Authorized, LiveIsEntitled, Live, PhaseOK, RegistryAgrees, WindowOK
  <2>. QED BY <2>1, <2>2, <2>3, <2>4
<1>3. ASSUME NEW c \in Conn, NEW k \in Claim, Handover(c, k) PROVE Goal
  <2>1. PhaseOK'
    BY <1>3, RecordType DEF Handover, Presents, Closed, Dropped, Authorized, PhaseOK
  <2>2. RegistryAgrees'
    BY <1>3, RecordType DEF Handover, Presents, Closed, Dropped, Authorized, RegistryAgrees, PhaseOK
  <2>3. WindowOK'
    BY <1>3, RecordType DEF Handover, Presents, Closed, Dropped, Authorized, WindowOK, Live, PhaseOK, RegistryAgrees, LiveIsEntitled
  <2>4. LiveIsEntitled'
    BY <1>3, RecordType DEF Handover, Presents, Closed, Dropped, Authorized, LiveIsEntitled, Live, PhaseOK, RegistryAgrees, WindowOK
  <2>. QED BY <2>1, <2>2, <2>3, <2>4
<1>4. ASSUME NEW c \in Conn, HandleUpgraded(c) PROVE Goal
  <2>1. PhaseOK'
    BY <1>4 DEF HandleUpgraded, PhaseOK
  <2>2. RegistryAgrees'
    BY <1>4 DEF HandleUpgraded, RegistryAgrees, PhaseOK
  <2>3. WindowOK'
    BY <1>4 DEF HandleUpgraded, WindowOK, Live, PhaseOK, RegistryAgrees, LiveIsEntitled
  <2>4. LiveIsEntitled'
    BY <1>4 DEF HandleUpgraded, LiveIsEntitled, Live, PhaseOK, RegistryAgrees, WindowOK
  <2>. QED BY <2>1, <2>2, <2>3, <2>4
<1>5. ASSUME NEW c \in Conn, HandleStream(c) PROVE Goal
  <2>1. PhaseOK'
    BY <1>5 DEF HandleStream, PhaseOK
  <2>2. RegistryAgrees'
    BY <1>5 DEF HandleStream, RegistryAgrees, PhaseOK
  <2>3. WindowOK'
    BY <1>5 DEF HandleStream, WindowOK, Live, PhaseOK, RegistryAgrees, LiveIsEntitled
  <2>4. LiveIsEntitled'
    BY <1>5 DEF HandleStream, LiveIsEntitled, Live, PhaseOK, RegistryAgrees, WindowOK
  <2>. QED BY <2>1, <2>2, <2>3, <2>4
<1>6. ASSUME NEW c \in Conn, ConfigSent(c) PROVE Goal
  <2>1. PhaseOK'
    BY <1>6 DEF ConfigSent, PhaseOK
  <2>2. RegistryAgrees'
    BY <1>6 DEF ConfigSent, RegistryAgrees, PhaseOK
  <2>3. WindowOK'
    BY <1>6 DEF ConfigSent, WindowOK, Live, PhaseOK, RegistryAgrees, LiveIsEntitled
  <2>4. LiveIsEntitled'
    BY <1>6 DEF ConfigSent, LiveIsEntitled, Live, PhaseOK, RegistryAgrees, WindowOK
  <2>. QED BY <2>1, <2>2, <2>3, <2>4
<1>7. ASSUME NEW c \in Conn, ConfigFails(c) PROVE Goal
  <2>1. PhaseOK'
    BY <1>7 DEF ConfigFails, PhaseOK
  <2>2. RegistryAgrees'
    BY <1>7 DEF ConfigFails, RegistryAgrees, PhaseOK
  <2>3. WindowOK'
    BY <1>7 DEF ConfigFails, WindowOK, Live, PhaseOK, RegistryAgrees, LiveIsEntitled
  <2>4. LiveIsEntitled'
    BY <1>7 DEF ConfigFails, LiveIsEntitled, Live, PhaseOK, RegistryAgrees, WindowOK
  <2>. QED BY <2>1, <2>2, <2>3, <2>4
<1>8. ASSUME NEW c \in Conn, Ping(c) PROVE Goal
  <2>1. PhaseOK'
    BY <1>8 DEF Ping, Reading, PhaseOK
  <2>2. RegistryAgrees'
    BY <1>8 DEF Ping, Reading, RegistryAgrees, PhaseOK
  <2>3. WindowOK'
    BY <1>8 DEF Ping, Reading, WindowOK, Live, PhaseOK, RegistryAgrees, LiveIsEntitled
  <2>4. LiveIsEntitled'
    BY <1>8 DEF Ping, Reading, LiveIsEntitled, Live, PhaseOK, RegistryAgrees, WindowOK
  <2>. QED BY <2>1, <2>2, <2>3, <2>4
<1>9. ASSUME NEW c \in Conn, PongQueued(c) PROVE Goal
  <2>1. PhaseOK'
    BY <1>9 DEF PongQueued, PhaseOK
  <2>2. RegistryAgrees'
    BY <1>9 DEF PongQueued, RegistryAgrees, PhaseOK
  <2>3. WindowOK'
    BY <1>9 DEF PongQueued, WindowOK, Live, PhaseOK, RegistryAgrees, LiveIsEntitled
  <2>4. LiveIsEntitled'
    BY <1>9 DEF PongQueued, LiveIsEntitled, Live, PhaseOK, RegistryAgrees, WindowOK
  <2>. QED BY <2>1, <2>2, <2>3, <2>4
<1>10. ASSUME NEW c \in Conn, PongTimeout(c) PROVE Goal
  <2>1. PhaseOK'
    BY <1>10 DEF PongTimeout, PhaseOK
  <2>2. RegistryAgrees'
    BY <1>10 DEF PongTimeout, RegistryAgrees, PhaseOK
  <2>3. WindowOK'
    BY <1>10 DEF PongTimeout, WindowOK, Live, PhaseOK, RegistryAgrees, LiveIsEntitled
  <2>4. LiveIsEntitled'
    BY <1>10 DEF PongTimeout, LiveIsEntitled, Live, PhaseOK, RegistryAgrees, WindowOK
  <2>. QED BY <2>1, <2>2, <2>3, <2>4
<1>11. ASSUME NEW c \in Conn, ReceiveEnds(c) PROVE Goal
  <2>1. PhaseOK'
    BY <1>11 DEF ReceiveEnds, Reading, PhaseOK
  <2>2. RegistryAgrees'
    BY <1>11 DEF ReceiveEnds, Reading, RegistryAgrees, PhaseOK
  <2>3. WindowOK'
    BY <1>11 DEF ReceiveEnds, Reading, WindowOK, Live, PhaseOK, RegistryAgrees, LiveIsEntitled
  <2>4. LiveIsEntitled'
    BY <1>11 DEF ReceiveEnds, Reading, LiveIsEntitled, Live, PhaseOK, RegistryAgrees, WindowOK
  <2>. QED BY <2>1, <2>2, <2>3, <2>4
<1>12. ASSUME NEW c \in Conn, ReceiveEof(c) PROVE Goal
  <2>1. PhaseOK'
    BY <1>12 DEF ReceiveEof, Reading, PhaseOK
  <2>2. RegistryAgrees'
    BY <1>12 DEF ReceiveEof, Reading, RegistryAgrees, PhaseOK
  <2>3. WindowOK'
    BY <1>12 DEF ReceiveEof, Reading, WindowOK, Live, PhaseOK, RegistryAgrees, LiveIsEntitled
  <2>4. LiveIsEntitled'
    BY <1>12 DEF ReceiveEof, Reading, LiveIsEntitled, Live, PhaseOK, RegistryAgrees, WindowOK
  <2>. QED BY <2>1, <2>2, <2>3, <2>4
<1>13. ASSUME NEW c \in Conn, TakeBatch(c) PROVE Goal
  <2>1. PhaseOK'
    BY <1>13 DEF TakeBatch, Waiting, PhaseOK
  <2>2. RegistryAgrees'
    BY <1>13 DEF TakeBatch, Waiting, RegistryAgrees, PhaseOK
  <2>3. WindowOK'
    BY <1>13 DEF TakeBatch, Waiting, WindowOK, Live, PhaseOK, RegistryAgrees, LiveIsEntitled
  <2>4. LiveIsEntitled'
    BY <1>13 DEF TakeBatch, Waiting, LiveIsEntitled, Live, PhaseOK, RegistryAgrees, WindowOK
  <2>. QED BY <2>1, <2>2, <2>3, <2>4
<1>14. ASSUME NEW c \in Conn, WriteFails(c) PROVE Goal
  <2>1. PhaseOK'
    BY <1>14 DEF WriteFails, Waiting, PhaseOK
  <2>2. RegistryAgrees'
    BY <1>14 DEF WriteFails, Waiting, RegistryAgrees, PhaseOK
  <2>3. WindowOK'
    BY <1>14 DEF WriteFails, Waiting, WindowOK, Live, PhaseOK, RegistryAgrees, LiveIsEntitled
  <2>4. LiveIsEntitled'
    BY <1>14 DEF WriteFails, Waiting, LiveIsEntitled, Live, PhaseOK, RegistryAgrees, WindowOK
  <2>. QED BY <2>1, <2>2, <2>3, <2>4
<1>15. ASSUME NEW c \in Conn, Drained(c) PROVE Goal
  <2>1. PhaseOK'
    BY <1>15 DEF Drained, PhaseOK
  <2>2. RegistryAgrees'
    BY <1>15 DEF Drained, RegistryAgrees, PhaseOK
  <2>3. WindowOK'
    BY <1>15 DEF Drained, WindowOK, Live, PhaseOK, RegistryAgrees, LiveIsEntitled
  <2>4. LiveIsEntitled'
    BY <1>15 DEF Drained, LiveIsEntitled, Live, PhaseOK, RegistryAgrees, WindowOK
  <2>. QED BY <2>1, <2>2, <2>3, <2>4
<1>16. ASSUME NEW c \in Conn, DrainFails(c) PROVE Goal
  <2>1. PhaseOK'
    BY <1>16 DEF DrainFails, PhaseOK
  <2>2. RegistryAgrees'
    BY <1>16 DEF DrainFails, RegistryAgrees, PhaseOK
  <2>3. WindowOK'
    BY <1>16 DEF DrainFails, WindowOK, Live, PhaseOK, RegistryAgrees, LiveIsEntitled
  <2>4. LiveIsEntitled'
    BY <1>16 DEF DrainFails, LiveIsEntitled, Live, PhaseOK, RegistryAgrees, WindowOK
  <2>. QED BY <2>1, <2>2, <2>3, <2>4
<1>17. ASSUME NEW c \in Conn, TasksStop(c) PROVE Goal
  <2>1. PhaseOK'
    BY <1>17 DEF TasksStop, PhaseOK
  <2>2. RegistryAgrees'
    BY <1>17 DEF TasksStop, RegistryAgrees, PhaseOK
  <2>3. WindowOK'
    BY <1>17 DEF TasksStop, WindowOK, Live, PhaseOK, RegistryAgrees, LiveIsEntitled
  <2>4. LiveIsEntitled'
    BY <1>17 DEF TasksStop, LiveIsEntitled, Live, PhaseOK, RegistryAgrees, WindowOK
  <2>. QED BY <2>1, <2>2, <2>3, <2>4
<1>18. ASSUME NEW c \in Conn, SocketShut(c) PROVE Goal
  <2>1. PhaseOK'
    BY <1>18 DEF SocketShut, PhaseOK
  <2>2. RegistryAgrees'
    BY <1>18 DEF SocketShut, RegistryAgrees, PhaseOK
  <2>3. WindowOK'
    BY <1>18 DEF SocketShut, WindowOK, Live, PhaseOK, RegistryAgrees, LiveIsEntitled
  <2>4. LiveIsEntitled'
    BY <1>18 DEF SocketShut, LiveIsEntitled, Live, PhaseOK, RegistryAgrees, WindowOK
  <2>. QED BY <2>1, <2>2, <2>3, <2>4
<1>19. ASSUME NEW c \in Conn, Hangup(c) PROVE Goal
  <2>1. PhaseOK'
    BY <1>19 DEF Hangup, PhaseOK
  <2>2. RegistryAgrees'
    BY <1>19 DEF Hangup, RegistryAgrees, PhaseOK
  <2>3. WindowOK'
    BY <1>19 DEF Hangup, WindowOK, Live, PhaseOK, RegistryAgrees, LiveIsEntitled
  <2>4. LiveIsEntitled'
    BY <1>19 DEF Hangup, LiveIsEntitled, Live, PhaseOK, RegistryAgrees, WindowOK
  <2>. QED BY <2>1, <2>2, <2>3, <2>4
<1>20. ASSUME NEW c \in Conn, HandleRefused(c) PROVE Goal
  <2>1. PhaseOK'
    BY <1>20 DEF HandleRefused, PhaseOK
  <2>2. RegistryAgrees'
    BY <1>20 DEF HandleRefused, RegistryAgrees, PhaseOK
  <2>3. WindowOK'
    BY <1>20 DEF HandleRefused, WindowOK, Live, PhaseOK, RegistryAgrees, LiveIsEntitled
  <2>4. LiveIsEntitled'
    BY <1>20 DEF HandleRefused, LiveIsEntitled, Live, PhaseOK, RegistryAgrees, WindowOK
  <2>. QED BY <2>1, <2>2, <2>3, <2>4
<1>21. ASSUME NEW c \in Conn, AuthFails(c) PROVE Goal
  <2>1. PhaseOK'
    BY <1>21 DEF AuthFails, PhaseOK
  <2>2. RegistryAgrees'
    BY <1>21 DEF AuthFails, RegistryAgrees, PhaseOK
  <2>3. WindowOK'
    BY <1>21 DEF AuthFails, WindowOK, Live, PhaseOK, RegistryAgrees, LiveIsEntitled
  <2>4. LiveIsEntitled'
    BY <1>21 DEF AuthFails, LiveIsEntitled, Live, PhaseOK, RegistryAgrees, WindowOK
  <2>. QED BY <2>1, <2>2, <2>3, <2>4
<1>22. ASSUME NEW c \in Conn, Cleanup(c) PROVE Goal
  <2>1. PhaseOK'
    BY <1>22 DEF Cleanup, Forget, PhaseOK
  <2>2. RegistryAgrees'
    BY <1>22 DEF Cleanup, Forget, RegistryAgrees, PhaseOK
  <2>3. WindowOK'
    BY <1>22 DEF Cleanup, Forget, WindowOK, Live, PhaseOK, RegistryAgrees, LiveIsEntitled
  <2>4. LiveIsEntitled'
    BY <1>22 DEF Cleanup, Forget, LiveIsEntitled, Live, PhaseOK, RegistryAgrees, WindowOK
  <2>. QED BY <2>1, <2>2, <2>3, <2>4
<1>23. ASSUME NEW c \in Conn, Resume(c) PROVE Goal
  <2>1. PhaseOK'
    BY <1>23 DEF Resume, Register, Rivals, PhaseOK
  <2>2. RegistryAgrees'
    BY <1>23 DEF Resume, Register, Rivals, RegistryAgrees, PhaseOK
  <2>3. WindowOK'
    BY <1>23 DEF Resume, Register, Rivals, WindowOK, Live, PhaseOK, RegistryAgrees, LiveIsEntitled
  <2>4. LiveIsEntitled'
    BY <1>23 DEF Resume, Register, Rivals, LiveIsEntitled, Live, PhaseOK, RegistryAgrees, WindowOK
  <2>. QED BY <2>1, <2>2, <2>3, <2>4
<1>24. ASSUME NEW t \in Tables, ReplaceUsers(t) PROVE Goal
  <2>1. PhaseOK'
    BY <1>24 DEF ReplaceUsers, Closed, Dropped, PhaseOK
  <2>2. RegistryAgrees'
    BY <1>24 DEF ReplaceUsers, Closed, Dropped, RegistryAgrees, PhaseOK
  <2>3. WindowOK'
    BY <1>24 DEF ReplaceUsers, Closed, Dropped, WindowOK, Live, PhaseOK, RegistryAgrees, LiveIsEntitled
  <2>4. LiveIsEntitled'
    <3>. SUFFICES ASSUME NEW c \in Conn \ raced', Live(c)'
                  PROVE  t[claim[c].user] = cred[c] /\ peer_writers[cred[c].ip] = c
      BY <1>24 DEF ReplaceUsers, LiveIsEntitled
    <3>1. c \in Conn \ raced /\ Live(c)
      BY <1>24 DEF ReplaceUsers, Live, Closed
    <3>2. /\ users[claim[c].user] = cred[c]
          /\ peer_writers[cred[c].ip] = c
          /\ claim[c].user \in User
          /\ cred[c] # None /\ c # None
      <4>1. users[claim[c].user] = cred[c] /\ peer_writers[cred[c].ip] = c
        BY <3>1 DEF LiveIsEntitled
      <4>2. cred[c] \in Record /\ claim[c] \in Claim
        BY <3>1 DEF PhaseOK, Live
      <4>3. claim[c].user \in User
        BY <4>2
      <4>4. cred[c] # None /\ c # None
        BY <3>1, <4>2
      <4>. QED BY <4>1, <4>3, <4>4
    <3>3. ASSUME t[claim[c].user] # cred[c] PROVE writer'[c] # "open"
      BY <1>24, <3>2, <3>3 DEF ReplaceUsers, Closed
    <3>. QED BY <3>2, <3>3 DEF Live
  <2>. QED BY <2>1, <2>2, <2>3, <2>4
<1>25. ASSUME NEW a \in Addr, TunPacket(a) PROVE Goal
  <2>1. PhaseOK'
    BY <1>25 DEF TunPacket, PhaseOK
  <2>2. RegistryAgrees'
    BY <1>25 DEF TunPacket, RegistryAgrees, PhaseOK
  <2>3. WindowOK'
    BY <1>25 DEF TunPacket, WindowOK, Live, PhaseOK, RegistryAgrees, LiveIsEntitled
  <2>4. LiveIsEntitled'
    BY <1>25 DEF TunPacket, LiveIsEntitled, Live, PhaseOK, RegistryAgrees, WindowOK
  <2>. QED BY <2>1, <2>2, <2>3, <2>4
<1>26. ASSUME UNCHANGED vars PROVE Goal
  <2>1. PhaseOK'
    BY <1>26 DEF vars, PhaseOK
  <2>2. RegistryAgrees'
    BY <1>26 DEF vars, RegistryAgrees, PhaseOK
  <2>3. WindowOK'
    BY <1>26 DEF vars, WindowOK, Live, PhaseOK, RegistryAgrees, LiveIsEntitled
  <2>4. LiveIsEntitled'
    BY <1>26 DEF vars, LiveIsEntitled, Live, PhaseOK, RegistryAgrees, WindowOK
  <2>. QED BY <2>1, <2>2, <2>3, <2>4
<1>. QED
  BY <1>1, <1>2, <1>3, <1>4, <1>5, <1>6, <1>7, <1>8, <1>9, <1>10, <1>11, <1>12, <1>13, <1>14, <1>15, <1>16, <1>17, <1>18, <1>19, <1>20, <1>21, <1>22, <1>23, <1>24, <1>25, <1>26 DEF Next, Step

\* The initial states satisfy the invariant.
LEMMA InvInit == Init => IInv
<1>. SUFFICES ASSUME Init PROVE IInv
  OBVIOUS
<1>1. TypeOK
  BY DEF Init, TypeOK
<1>2. PhaseOK /\ WindowOK
  BY DEF Init, PhaseOK, WindowOK
<1>3. RegistryAgrees
  BY DEF Init, RegistryAgrees
<1>4. LiveIsEntitled
  BY DEF Init, LiveIsEntitled, Live
<1>. QED BY <1>1, <1>2, <1>3, <1>4 DEF IInv

(* The invariant holds in every reachable state of the gateway.            *)
THEOREM Invariance == Spec => []IInv
<1>1. Init => IInv
  BY InvInit
<1>2. IInv /\ [Next]_vars => IInv'
  BY InvStep
<1>. QED BY <1>1, <1>2, PTL DEF Spec

(* Every variable of the gateway keeps its type.                           *)
THEOREM TypeCorrect == Spec => []TypeOK
<1>1. IInv => TypeOK
  BY DEF IInv
<1>. QED BY <1>1, Invariance, PTL

(* An open session that no handover race touched is entitled to its        *)
(* address by the table in force and stays within reach of replace_users.  *)
THEOREM Entitlement == Spec => []LiveIsEntitled
<1>1. IInv => LiveIsEntitled
  BY DEF IInv
<1>. QED BY <1>1, Invariance, PTL

(* No two open sessions that no handover race touched share an address.    *)
THEOREM SingleSession == Spec => []OneSession
<1>1. IInv => OneSession
  BY DEF IInv, LiveIsEntitled, OneSession
<1>. QED BY <1>1, Invariance, PTL

(* The two maps of the gateway agree and name running connections only.    *)
THEOREM RegistryCorrect == Spec => []RegistryAgrees
<1>1. IInv => RegistryAgrees
  BY DEF IInv
<1>. QED BY <1>1, Invariance, PTL

(* The only step that frees an address is the cleanup of its own holder.   *)
THEOREM SuccessorSafe == Spec => SuccessorKeepsAddress
<1>. DEFINE P == \A a \in Addr :
          peers[a] # None /\ peers'[a] = None => phase'[peers[a]] = "idle"
<1>1. IInv /\ [Next]_vars => [P]_vars
  <2>. SUFFICES ASSUME IInv, Next, NEW a \in Addr, peers[a] # None, peers'[a] = None
                PROVE  phase'[peers[a]] = "idle"
    OBVIOUS
  <2>. USE DEF IInv, TypeOK, registry
  <2>1. ASSUME NEW c \in Conn, Cleanup(c) PROVE phase'[peers[a]] = "idle"
    BY <2>1 DEF Cleanup, Forget
  <2>2. ASSUME NEW c \in Conn, NEW b \in Addr, Register(c, b) PROVE FALSE
    BY <2>2 DEF Register
  <2>3. ASSUME NEW c \in Conn, NEW k \in Claim, Authenticate(c, k) PROVE FALSE
    <3>1. users[k.user].ip \in Addr
      BY <2>3, RecordType DEF Authenticate, Presents
    <3>. QED BY <2>2, <2>3, <3>1 DEF Authenticate
  <2>4. ASSUME NEW c \in Conn, Resume(c) PROVE FALSE
    <3>1. cred[c].ip \in Addr
      BY <2>4 DEF Resume, PhaseOK
    <3>. QED BY <2>2, <2>4, <3>1 DEF Resume
  <2>5. peers' # peers
    OBVIOUS
  <2>. QED
    BY <2>1, <2>3, <2>4, <2>5 DEF Next, Step, Tunnel, Handover, HandleUpgraded,
       HandleRefused, HandleStream, AuthFails, ConfigSent, ConfigFails, Ping,
       PongQueued, PongTimeout, ReceiveEnds, ReceiveEof, TakeBatch, WriteFails,
       Drained, DrainFails, TasksStop, SocketShut, Hangup, ReplaceUsers, TunPacket
<1>. QED BY <1>1, Invariance, PTL DEF Spec, SuccessorKeepsAddress

-----------------------------------------------------------------------------
(* The frames queued for a session                                         *)

LEMMA SeqFacts ==
    ASSUME NEW S
    PROVE  /\ <<>> \in Seq(S)
           /\ \A q \in Seq(S), x \in S : Append(q, x) \in Seq(S)
           /\ \A q \in Seq(S) : q # <<>> => Tail(q) \in Seq(S)
<1>1. <<>> \in Seq(S)
  OBVIOUS
<1>2. ASSUME NEW q \in Seq(S), NEW x \in S PROVE Append(q, x) \in Seq(S)
  BY AppendProperties
<1>3. ASSUME NEW q \in Seq(S), q # <<>> PROVE Tail(q) \in Seq(S)
  BY <1>3, HeadTailProperties
<1>. QED BY <1>1, <1>2, <1>3

\* Every step keeps the queues of open, unraced sessions free of other users' frames.
LEMMA ChargedStep == IInv /\ IInv' /\ ChargedToReceiver /\ [Next]_vars => ChargedToReceiver'
<1>. SUFFICES ASSUME IInv, IInv', ChargedToReceiver, [Next]_vars,
                     NEW d \in Conn, d \notin raced', Live(d)'
              PROVE  /\ queue'[d] \in Seq({claim'[d].user, Pong})
                     /\ pending'[d] \in Seq({claim'[d].user, Pong})
  BY DEF ChargedToReceiver
<1>. DEFINE S == {claim[d].user, Pong}
            Goal == /\ queue'[d] \in Seq({claim'[d].user, Pong})
                    /\ pending'[d] \in Seq({claim'[d].user, Pong})
<1>. USE DEF IInv, TypeOK, vars, registry, session, tasks
<1>i. ASSUME d \notin raced, Live(d)
      PROVE  queue[d] \in Seq(S) /\ pending[d] \in Seq(S)
  BY <1>i DEF ChargedToReceiver
<1>1. ASSUME NEW c \in Conn, NEW k \in Claim, Tunnel(c, k) PROVE Goal
  BY <1>1, <1>i DEF Tunnel, Live
<1>2. ASSUME NEW c \in Conn, NEW k \in Claim, Authenticate(c, k) PROVE Goal
  <2>1. CASE c = d
    BY <2>1, <1>2, SeqFacts DEF Authenticate, Presents, Register, PhaseOK
  <2>2. CASE c # d
    BY <2>2, <1>2, <1>i DEF Authenticate, Presents, Register, Live
  <2>. QED BY <2>1, <2>2
<1>3. ASSUME NEW c \in Conn, NEW k \in Claim, Handover(c, k) PROVE Goal
  BY <1>3, <1>i DEF Handover, Presents, Closed, Dropped, Live
<1>4. ASSUME NEW c \in Conn, Resume(c) PROVE Goal
  <2>1. CASE c = d
    BY <2>1, <1>4, SeqFacts DEF Resume, Register, PhaseOK
  <2>2. CASE c # d
    BY <2>2, <1>4, <1>i DEF Resume, Register, Live
  <2>. QED BY <2>1, <2>2
<1>5. ASSUME NEW c \in Conn, TakeBatch(c) PROVE Goal
  <2>1. CASE c = d
    <3>1. d \notin raced /\ Live(d) /\ queue[d] # <<>>
      BY <2>1, <1>5 DEF TakeBatch, Waiting, Live
    <3>2. queue[d] \in Seq(S) /\ pending[d] \in Seq(S)
      BY <3>1, <1>i
    <3>3. /\ pending[d] \o SubSeq(queue[d], 1, Smaller(Batch, Len(queue[d]))) \in Seq(S)
          /\ SubSeq(queue[d], Smaller(Batch, Len(queue[d])) + 1, Len(queue[d])) \in Seq(S)
      BY <3>1, <3>2, BatchType
    <3>. QED BY <2>1, <1>5, <3>3 DEF TakeBatch
  <2>2. CASE c # d
    BY <2>2, <1>5, <1>i DEF TakeBatch, Waiting, Live
  <2>. QED BY <2>1, <2>2
<1>6. ASSUME NEW c \in Conn, WriteFails(c) PROVE Goal
  <2>1. c # d
    BY <1>6 DEF WriteFails, Live
  <2>. QED BY <2>1, <1>6, <1>i DEF WriteFails, Waiting, Live
<1>7. ASSUME NEW c \in Conn, PongQueued(c) PROVE Goal
  BY <1>7, <1>i, SeqFacts DEF PongQueued, Live
<1>8. ASSUME NEW c \in Conn, Ping(c) PROVE Goal
  <2>1. \/ queue' = [queue EXCEPT ![c] = Append(@, Pong)]
        \/ queue' = queue
    BY <1>8 DEF Ping
  <2>2. d \notin raced /\ Live(d) /\ claim' = claim /\ pending' = pending
    BY <1>8 DEF Ping, Live
  <2>3. queue[d] \in Seq(S) /\ pending[d] \in Seq(S)
    BY <2>2, <1>i
  <2>4. queue'[d] = queue[d] \/ queue'[d] = Append(queue[d], Pong)
    <3>1. CASE c = d
      BY <2>1, <3>1
    <3>2. CASE c # d
      BY <2>1, <3>2
    <3>. QED BY <3>1, <3>2
  <2>5. Append(queue[d], Pong) \in Seq(S)
    BY <2>3, SeqFacts
  <2>. QED BY <2>2, <2>3, <2>4, <2>5
<1>9. ASSUME NEW a \in Addr, TunPacket(a) PROVE Goal
  <2>1. d \notin raced /\ Live(d) /\ claim' = claim /\ pending' = pending
    BY <1>9 DEF TunPacket, Live
  <2>2. queue[d] \in Seq(S) /\ pending[d] \in Seq(S)
    BY <2>1, <1>i
  <2>3. CASE peers[a] = d
    <3>1. cred[d].ip = a /\ users[claim[d].user] = cred[d] /\ cred[d] # None
      <4>1. peers[a] # None
        BY <2>3
      <4>2. cred[d].ip = a
        BY <2>3, <4>1 DEF RegistryAgrees
      <4>3. users[claim[d].user] = cred[d]
        BY <2>1 DEF LiveIsEntitled
      <4>4. cred[d] \in Record
        BY <2>1 DEF PhaseOK, Live
      <4>. QED BY <4>2, <4>3, <4>4
    <3>2. claim[d].user \in User
      BY <2>1 DEF PhaseOK, Live
    <3>3. IpUser(a) = claim[d].user
      BY <3>1, <3>2, IpUserUnique
    <3>4. Append(queue[d], IpUser(a)) \in Seq(S)
      BY <2>2, <3>3, SeqFacts
    <3>. QED BY <1>9, <2>1, <2>2, <2>3, <3>4 DEF TunPacket
  <2>4. CASE peers[a] # d
    BY <1>9, <2>1, <2>2, <2>4 DEF TunPacket
  <2>. QED BY <2>3, <2>4
<1>10. ASSUME NEW t \in Tables, ReplaceUsers(t) PROVE Goal
  BY <1>10, <1>i DEF ReplaceUsers, Closed, Dropped, Live
<1>11. ASSUME NEW c \in Conn, HandleUpgraded(c) PROVE Goal
  BY <1>11, <1>i DEF HandleUpgraded, Live
<1>12. ASSUME NEW c \in Conn, HandleStream(c) PROVE Goal
  BY <1>12, <1>i DEF HandleStream, Live
<1>13. ASSUME NEW c \in Conn, AuthFails(c) PROVE Goal
  BY <1>13, <1>i DEF AuthFails, Live
<1>14. ASSUME NEW c \in Conn, HandleRefused(c) PROVE Goal
  BY <1>14, <1>i DEF HandleRefused, Live
<1>15. ASSUME NEW c \in Conn, ConfigFails(c) PROVE Goal
  BY <1>15, <1>i DEF ConfigFails, Live
<1>16. ASSUME NEW c \in Conn, ConfigSent(c) PROVE Goal
  BY <1>16, <1>i DEF ConfigSent, Live
<1>17. ASSUME NEW c \in Conn, PongTimeout(c) PROVE Goal
  BY <1>17, <1>i DEF PongTimeout, Live
<1>18. ASSUME NEW c \in Conn, ReceiveEnds(c) PROVE Goal
  BY <1>18, <1>i DEF ReceiveEnds, Reading, Live
<1>19. ASSUME NEW c \in Conn, ReceiveEof(c) PROVE Goal
  BY <1>19, <1>i DEF ReceiveEof, Reading, Live
<1>20. ASSUME NEW c \in Conn, TasksStop(c) PROVE Goal
  BY <1>20, <1>i DEF TasksStop, Live
<1>21. ASSUME NEW c \in Conn, SocketShut(c) PROVE Goal
  BY <1>21, <1>i DEF SocketShut, Live
<1>22. ASSUME NEW c \in Conn, Hangup(c) PROVE Goal
  BY <1>22, <1>i DEF Hangup, Live
<1>23. ASSUME NEW c \in Conn, Drained(c) PROVE Goal
  BY <1>23, <1>i, SeqFacts DEF Drained, Live
<1>24. ASSUME NEW c \in Conn, DrainFails(c) PROVE Goal
  BY <1>24, <1>i, SeqFacts DEF DrainFails, Live
<1>25. ASSUME NEW c \in Conn, Cleanup(c) PROVE Goal
  BY <1>25, <1>i, SeqFacts DEF Cleanup, Forget, Live
<1>26. CASE UNCHANGED vars
  BY <1>26, <1>i DEF Live
<1>. QED
  BY <1>1, <1>2, <1>3, <1>4, <1>5, <1>6, <1>7, <1>8, <1>9, <1>10, <1>11, <1>12, <1>13, <1>14, <1>15, <1>16, <1>17, <1>18, <1>19, <1>20, <1>21, <1>22, <1>23, <1>24, <1>25, <1>26 DEF Next, Step

(* The frames queued for or on their way to an open, unraced session were  *)
(* charged to its own user, or are PONGs.                                  *)
THEOREM Charging == Spec => []ChargedToReceiver
<1>1. Init => ChargedToReceiver
  BY DEF Init, ChargedToReceiver, Live
<1>2. IInv /\ IInv' /\ ChargedToReceiver /\ [Next]_vars => ChargedToReceiver'
  BY ChargedStep
<1>. QED BY <1>1, <1>2, Invariance, PTL DEF Spec

-----------------------------------------------------------------------------
(* The counter of connections                                              *)

LEMMA RunningFinite == IsFiniteSet(Running)
<1>1. Running \subseteq Conn
  BY DEF Running
<1>. QED BY <1>1, FS_Subset

\* A connection enters Running with a count up and leaves it with a count down.
LEMMA CounterStep == TypeOK /\ CounterExact /\ [Next]_vars => CounterExact'
<1>. SUFFICES ASSUME TypeOK, CounterExact, [Next]_vars PROVE CounterExact'
  OBVIOUS
<1>. USE DEF TypeOK, vars, registry, session, tasks
<1>s. ASSUME Running' = Running, connections' = connections PROVE CounterExact'
  BY <1>s DEF CounterExact
<1>u. ASSUME NEW c \in Conn, c \notin Running, Running' = Running \cup {c},
             connections < MaxConnections, connections' = connections + 1
      PROVE  CounterExact'
  <2>1. Cardinality(Running') = Cardinality(Running) + 1
    BY <1>u, RunningFinite, FS_AddElement
  <2>. QED BY <1>u, <2>1 DEF CounterExact
<1>1. ASSUME NEW c \in Conn, NEW k \in Claim, Tunnel(c, k) PROVE CounterExact'
  <2>1. Running' = Running /\ connections' = connections
    BY <1>1 DEF Tunnel, Running
  <2>. QED BY <2>1, <1>s
<1>2. ASSUME NEW c \in Conn, NEW k \in Claim, Authenticate(c, k) PROVE CounterExact'
  <2>1. Running' = Running /\ connections' = connections
    BY <1>2 DEF Authenticate, Presents, Register, Running
  <2>. QED BY <2>1, <1>s
<1>3. ASSUME NEW c \in Conn, NEW k \in Claim, Handover(c, k) PROVE CounterExact'
  <2>1. Running' = Running /\ connections' = connections
    BY <1>3 DEF Handover, Presents, Running
  <2>. QED BY <2>1, <1>s
<1>4. ASSUME NEW c \in Conn, HandleUpgraded(c) PROVE CounterExact'
  <2>1. c \notin Running /\ Running' = Running \cup {c}
    BY <1>4 DEF HandleUpgraded, Running
  <2>. QED BY <2>1, <1>4, <1>u DEF HandleUpgraded
<1>5. ASSUME NEW c \in Conn, HandleStream(c) PROVE CounterExact'
  <2>1. c \notin Running /\ Running' = Running \cup {c}
    BY <1>5 DEF HandleStream, Running
  <2>. QED BY <2>1, <1>5, <1>u DEF HandleStream
<1>6. ASSUME NEW c \in Conn, Cleanup(c) PROVE CounterExact'
  <2>1. c \in Running /\ Running' = Running \ {c}
    BY <1>6 DEF Cleanup, Forget, Running
  <2>2. Cardinality(Running') = Cardinality(Running) - 1
    BY <2>1, RunningFinite, FS_RemoveElement
  <2>. QED BY <1>6, <2>2 DEF CounterExact, Cleanup, Forget
<1>7. ASSUME NEW c \in Conn, HandleRefused(c) PROVE CounterExact'
  <2>1. Running' = Running /\ connections' = connections
    BY <1>7 DEF HandleRefused, Running
  <2>. QED BY <2>1, <1>s
<1>8. ASSUME NEW c \in Conn, AuthFails(c) PROVE CounterExact'
  <2>1. Running' = Running /\ connections' = connections
    BY <1>8 DEF AuthFails, Running
  <2>. QED BY <2>1, <1>s
<1>9. ASSUME NEW c \in Conn, Resume(c) PROVE CounterExact'
  <2>1. Running' = Running /\ connections' = connections
    BY <1>9 DEF Resume, Register, Running
  <2>. QED BY <2>1, <1>s
<1>10. ASSUME NEW c \in Conn, ConfigSent(c) PROVE CounterExact'
  <2>1. Running' = Running /\ connections' = connections
    BY <1>10 DEF ConfigSent, Running
  <2>. QED BY <2>1, <1>s
<1>11. ASSUME NEW c \in Conn, ConfigFails(c) PROVE CounterExact'
  <2>1. Running' = Running /\ connections' = connections
    BY <1>11 DEF ConfigFails, Running
  <2>. QED BY <2>1, <1>s
<1>12. ASSUME NEW c \in Conn, Ping(c) PROVE CounterExact'
  <2>1. Running' = Running /\ connections' = connections
    BY <1>12 DEF Ping, Running
  <2>. QED BY <2>1, <1>s
<1>13. ASSUME NEW c \in Conn, PongQueued(c) PROVE CounterExact'
  <2>1. Running' = Running /\ connections' = connections
    BY <1>13 DEF PongQueued, Running
  <2>. QED BY <2>1, <1>s
<1>14. ASSUME NEW c \in Conn, PongTimeout(c) PROVE CounterExact'
  <2>1. Running' = Running /\ connections' = connections
    BY <1>14 DEF PongTimeout, Running
  <2>. QED BY <2>1, <1>s
<1>15. ASSUME NEW c \in Conn, ReceiveEnds(c) PROVE CounterExact'
  <2>1. Running' = Running /\ connections' = connections
    BY <1>15 DEF ReceiveEnds, Running
  <2>. QED BY <2>1, <1>s
<1>16. ASSUME NEW c \in Conn, ReceiveEof(c) PROVE CounterExact'
  <2>1. Running' = Running /\ connections' = connections
    BY <1>16 DEF ReceiveEof, Running
  <2>. QED BY <2>1, <1>s
<1>17. ASSUME NEW c \in Conn, TakeBatch(c) PROVE CounterExact'
  <2>1. Running' = Running /\ connections' = connections
    BY <1>17 DEF TakeBatch, Running
  <2>. QED BY <2>1, <1>s
<1>18. ASSUME NEW c \in Conn, WriteFails(c) PROVE CounterExact'
  <2>1. Running' = Running /\ connections' = connections
    BY <1>18 DEF WriteFails, Running
  <2>. QED BY <2>1, <1>s
<1>19. ASSUME NEW c \in Conn, Drained(c) PROVE CounterExact'
  <2>1. Running' = Running /\ connections' = connections
    BY <1>19 DEF Drained, Running
  <2>. QED BY <2>1, <1>s
<1>20. ASSUME NEW c \in Conn, DrainFails(c) PROVE CounterExact'
  <2>1. Running' = Running /\ connections' = connections
    BY <1>20 DEF DrainFails, Running
  <2>. QED BY <2>1, <1>s
<1>21. ASSUME NEW c \in Conn, TasksStop(c) PROVE CounterExact'
  <2>1. Running' = Running /\ connections' = connections
    BY <1>21 DEF TasksStop, Running
  <2>. QED BY <2>1, <1>s
<1>22. ASSUME NEW c \in Conn, SocketShut(c) PROVE CounterExact'
  <2>1. Running' = Running /\ connections' = connections
    BY <1>22 DEF SocketShut, Running
  <2>. QED BY <2>1, <1>s
<1>23. ASSUME NEW c \in Conn, Hangup(c) PROVE CounterExact'
  <2>1. Running' = Running /\ connections' = connections
    BY <1>23 DEF Hangup, Running
  <2>. QED BY <2>1, <1>s
<1>24. ASSUME NEW t \in Tables, ReplaceUsers(t) PROVE CounterExact'
  <2>1. Running' = Running /\ connections' = connections
    BY <1>24 DEF ReplaceUsers, Running
  <2>. QED BY <2>1, <1>s
<1>25. ASSUME NEW a \in Addr, TunPacket(a) PROVE CounterExact'
  <2>1. Running' = Running /\ connections' = connections
    BY <1>25 DEF TunPacket, Running
  <2>. QED BY <2>1, <1>s
<1>26. CASE UNCHANGED vars
  BY <1>26, <1>s DEF Running
<1>. QED
  BY <1>1, <1>2, <1>3, <1>4, <1>5, <1>6, <1>7, <1>8, <1>9, <1>10, <1>11, <1>12, <1>13, <1>14, <1>15, <1>16, <1>17, <1>18, <1>19, <1>20, <1>21, <1>22, <1>23, <1>24, <1>25, <1>26 DEF Next, Step

(* The counter of connections is the number of running handle() coroutines *)
(* and never exceeds the limit, whatever path each of them takes.          *)
THEOREM CounterCorrect == Spec => []CounterExact
<1>1. Init => CounterExact
  <2>. SUFFICES ASSUME Init PROVE CounterExact
    OBVIOUS
  <2>1. Running = {}
    BY DEF Init, Running
  <2>. QED BY <2>1, FS_EmptySet DEF Init, CounterExact
<1>2. TypeOK /\ CounterExact /\ [Next]_vars => CounterExact'
  BY CounterStep
<1>. QED BY <1>1, <1>2, TypeCorrect, PTL DEF Spec

-----------------------------------------------------------------------------
(* The refinement mapping.                                                 *)

\* What an open session rests on is the record in force, so the mapping only
\* depends on who has one.
Mapped ==
    \A u \in User : /\ SessionOf(u) = IF Holders(u) = {} THEN None ELSE users[u]
                    /\ Holders(u) # {} => users[u] # None

LEMMA SessionIsRecord == IInv => Mapped
<1>. SUFFICES ASSUME IInv, NEW u \in User
     PROVE  /\ SessionOf(u) = IF Holders(u) = {} THEN None ELSE users[u]
            /\ Holders(u) # {} => users[u] # None
  BY DEF Mapped
<1>1. ASSUME NEW c \in Holders(u)
      PROVE  cred[c] = users[u] /\ cred[c] \in Record
  BY <1>1 DEF Holders, Live, IInv, LiveIsEntitled, PhaseOK
<1>2. CASE Holders(u) # {}
  <2>1. (CHOOSE c \in Holders(u) : TRUE) \in Holders(u)
    BY <1>2
  <2>2. SessionOf(u) = users[u] /\ users[u] \in Record
    BY <1>1, <1>2, <2>1 DEF SessionOf
  <2>. QED BY <1>2, <2>2
<1>. QED BY <1>2 DEF SessionOf

LEMMA SessionIsRecordNext == IInv' => Mapped'
BY SessionIsRecord, PTL

\* Sessions that only end are dropped.
LEMMA Dropping ==
    ASSUME IInv, IInv', users' = users,
           \A u \in User : Holders(u)' \subseteq Holders(u)
    PROVE  \E S \in SUBSET User : Promise!Drop(S)
<1>. DEFINE S == {u \in User : Holders(u)' = {}}
<1>1. \A u \in User : SessionOf(u)' = IF u \in S THEN None ELSE SessionOf(u)
  BY SessionIsRecord, SessionIsRecordNext DEF Mapped
<1>2. Promise!Drop(S)
  BY <1>1 DEF Promise!Drop
<1>. QED BY <1>2

\* A session that is new rests on the record its user has.
LEMMA Opening ==
    ASSUME IInv, IInv', users' = users, NEW v \in User,
           Holders(v)' # {},
           \A u \in User \ {v} : Holders(u)' = Holders(u)
    PROVE  Promise!Open(v)
<1>1. SessionOf(v)' = users[v] /\ users[v] # None
  BY SessionIsRecordNext DEF Mapped
<1>2. \A u \in User \ {v} : SessionOf(u)' = SessionOf(u)
  BY SessionIsRecord, SessionIsRecordNext DEF Mapped
<1>. QED BY <1>1, <1>2 DEF Promise!Open

\* Registration opens the session of its user, or it was raced or is shut.
LEMMA Registering ==
    ASSUME IInv, IInv', users' = users, NEW c \in Conn, NEW a \in Addr,
           Register(c, a), phase[c] \in {"auth", "yielding"}, writer' = writer,
           claim'[c].user \in User,
           \A d \in Conn \ {c} : claim'[d] = claim[d]
    PROVE  (\E S \in SUBSET User : Promise!Drop(S)) \/ (\E u \in User : Promise!Open(u))
<1>. PICK v \in User : v = claim'[c].user
  OBVIOUS
<1>1. \A d \in Conn \ {c} : Live(d)' <=> Live(d)
  BY DEF Register, Live, IInv, TypeOK
<1>2. ~Live(c)
  BY DEF Live
<1>3. \A d \in Conn \ {c} : Live(d) => (d \in raced' <=> d \in raced)
  BY DEF Register, Rivals, Live
<1>4. \A u \in User : Holders(u)' \ {c} = Holders(u)
  BY <1>1, <1>2, <1>3 DEF Holders
<1>5. CASE c \in Holders(v)'
  <2>1. \A u \in User \ {v} : Holders(u)' = Holders(u)
    BY <1>4 DEF Holders
  <2>. QED BY <1>5, <2>1, Opening
<1>6. CASE c \notin Holders(v)'
  <2>1. \A u \in User : Holders(u)' \subseteq Holders(u)
    BY <1>4, <1>6 DEF Holders
  <2>. QED BY <2>1, Dropping
<1>. QED BY <1>5, <1>6

\* A new table ends the sessions of the records it changes, and no other.
LEMMA Replacing ==
    ASSUME IInv, IInv', NEW t \in Tables, ReplaceUsers(t)
    PROVE  Promise!Replace(t)
<1>. USE DEF IInv, TypeOK
<1>1. /\ users' = t
      /\ UNCHANGED <<peers, peer_writers, phase, claim, cred>>
  BY DEF ReplaceUsers, registry
<1>2. \A u \in User : t[u] # users[u] => Holders(u)' = {}
  <2>. SUFFICES ASSUME NEW u \in User, t[u] # users[u], NEW c \in Holders(u)'
       PROVE  FALSE
    OBVIOUS
  <2>1. c \in Conn /\ c \notin raced /\ Live(c) /\ claim[c].user = u
    BY <1>1 DEF Holders, Live, ReplaceUsers, Closed
  <2>2. users[u] = cred[c]
    BY <2>1 DEF LiveIsEntitled
  <2>3. c \notin raced' /\ Live(c)' /\ claim'[c].user = u
    BY DEF Holders
  <2>4. users'[u] = cred'[c]
    BY <2>1, <2>3 DEF LiveIsEntitled
  <2>. QED BY <1>1, <2>2, <2>4
<1>3. \A u \in User : t[u] = users[u] => Holders(u)' = Holders(u)
  <2>. SUFFICES ASSUME NEW u \in User, t[u] = users[u]
       PROVE  Holders(u)' = Holders(u)
    OBVIOUS
  <2>1. Holders(u)' \subseteq Holders(u)
    BY <1>1 DEF Holders, Live, ReplaceUsers, Closed
  <2>2. ASSUME NEW c \in Holders(u) PROVE c \in Holders(u)'
    <3>1. c \in Conn /\ c \notin raced /\ Live(c) /\ claim[c].user = u
      BY <2>2 DEF Holders
    <3>2. users[u] = cred[c] /\ cred[c] \in Record /\ peer_writers[cred[c].ip] = c
      BY <3>1 DEF LiveIsEntitled, PhaseOK, Live
    <3>3. ASSUME NEW w \in User, users[w] # None, t[w] # users[w],
                 peer_writers[users[w].ip] = c
          PROVE  FALSE
      <4>0. ValidTable(users)
        OBVIOUS
      <4>1. users[w] \in Record
        BY <3>3, <4>0 DEF ValidTable
      <4>2. cred[c].ip = users[w].ip
        BY <3>1, <3>3, <4>1 DEF RegistryAgrees
      <4>3. w = u
        BY <3>2, <3>3, <4>0, <4>2 DEF ValidTable
      <4>. QED BY <3>3, <4>3
    <3>4. writer'[c] = writer[c]
      BY <3>1, <3>3 DEF ReplaceUsers, Closed
    <3>5. c \notin raced'
      BY <3>1 DEF ReplaceUsers, Live
    <3>. QED BY <1>1, <3>1, <3>4, <3>5 DEF Holders, Live
  <2>. QED BY <2>1, <2>2
<1>4. \A u \in User : SessionOf(u)' = IF t[u] # users[u] THEN None ELSE SessionOf(u)
  BY <1>1, <1>2, <1>3, SessionIsRecord, SessionIsRecordNext DEF Mapped
<1>. QED BY <1>1, <1>4 DEF Promise!Replace

\* Every step of the gateway is one of Access, or changes nothing of it.
LEMMA RefinementStep ==
    ASSUME IInv, IInv', [Next]_vars
    PROVE  [Promise!AccessNext]_<<users, [u \in User |-> SessionOf(u)]>>
<1>. USE DEF IInv, TypeOK, vars, registry, session, tasks
<1>d. ASSUME users' = users, \A u \in User : Holders(u)' \subseteq Holders(u)
      PROVE  Promise!AccessNext
  BY <1>d, Dropping DEF Promise!AccessNext
<1>s. ASSUME users' = users,
             \A d \in Conn : Live(d)' => /\ Live(d) /\ claim'[d] = claim[d]
                                         /\ d \notin raced' => d \notin raced
      PROVE  Promise!AccessNext
  <2>1. \A u \in User : Holders(u)' \subseteq Holders(u)
    BY <1>s DEF Holders
  <2>. QED BY <1>s, <2>1, <1>d
<1>1. ASSUME NEW c \in Conn, NEW k \in Claim, Tunnel(c, k) PROVE Promise!AccessNext
  BY <1>1, <1>s DEF Tunnel, Live
<1>2. ASSUME NEW c \in Conn, NEW k \in Claim, Authenticate(c, k) PROVE Promise!AccessNext
  <2>1. /\ users[k.user].ip \in Addr /\ k.user \in User
        /\ claim' = [claim EXCEPT ![c] = k]
    BY <1>2, RecordType DEF Authenticate, Presents
  <2>2. claim'[c].user \in User /\ \A d \in Conn \ {c} : claim'[d] = claim[d]
    BY <2>1
  <2>3. /\ users' = users /\ writer' = writer /\ phase[c] = "auth"
        /\ Register(c, users[k.user].ip)
    BY <1>2 DEF Authenticate, Presents
  <2>. QED BY <2>1, <2>2, <2>3, Registering DEF Promise!AccessNext
<1>3. ASSUME NEW c \in Conn, NEW k \in Claim, Handover(c, k) PROVE Promise!AccessNext
  BY <1>3, <1>s DEF Handover, Presents, Closed, Live
<1>4. ASSUME NEW c \in Conn, Resume(c) PROVE Promise!AccessNext
  <2>1. /\ cred[c].ip \in Addr /\ claim[c].user \in User
        /\ users' = users /\ writer' = writer /\ claim' = claim
        /\ phase[c] = "yielding" /\ Register(c, cred[c].ip)
    BY <1>4 DEF Resume, PhaseOK
  <2>. QED BY <2>1, Registering DEF Promise!AccessNext
<1>5. ASSUME NEW c \in Conn,
             HandleUpgraded(c) \/ HandleRefused(c) \/ HandleStream(c) \/ AuthFails(c)
      PROVE  Promise!AccessNext
  BY <1>5, <1>s DEF HandleUpgraded, HandleRefused, HandleStream, AuthFails, Live
<1>6. ASSUME NEW c \in Conn, ConfigSent(c) \/ ConfigFails(c) PROVE Promise!AccessNext
  BY <1>6, <1>s DEF ConfigSent, ConfigFails, Live
<1>7. ASSUME NEW c \in Conn,
             Ping(c) \/ PongQueued(c) \/ PongTimeout(c) \/ ReceiveEnds(c) \/ ReceiveEof(c)
      PROVE  Promise!AccessNext
  BY <1>7, <1>s DEF Ping, PongQueued, PongTimeout, ReceiveEnds, ReceiveEof, Live
<1>8. ASSUME NEW c \in Conn,
             TakeBatch(c) \/ WriteFails(c) \/ Drained(c) \/ DrainFails(c)
      PROVE  Promise!AccessNext
  BY <1>8, <1>s DEF TakeBatch, WriteFails, Drained, DrainFails, Live
<1>9. ASSUME NEW c \in Conn, TasksStop(c) \/ SocketShut(c) \/ Hangup(c)
      PROVE  Promise!AccessNext
  BY <1>9, <1>s DEF TasksStop, SocketShut, Hangup, Live
<1>10. ASSUME NEW c \in Conn, Cleanup(c) PROVE Promise!AccessNext
  <2>1. \A d \in Conn : Live(d)' => d # c /\ Live(d)
    BY <1>10 DEF Cleanup, Forget, Live
  <2>2. users' = users /\ raced' = raced \ {c} /\ claim' = [claim EXCEPT ![c] = None]
    BY <1>10 DEF Cleanup, Forget
  <2>. QED BY <2>1, <2>2, <1>s
<1>11. ASSUME NEW t \in Tables, ReplaceUsers(t) PROVE Promise!AccessNext
  BY <1>11, Replacing DEF Promise!AccessNext
<1>12. ASSUME NEW a \in Addr, TunPacket(a) PROVE Promise!AccessNext
  BY <1>12, <1>s DEF TunPacket, Live
<1>13. CASE UNCHANGED vars
  <2>1. \A u \in User : SessionOf(u)' = SessionOf(u)
    BY <1>13 DEF SessionOf, Holders, Live
  <2>. QED BY <1>13, <2>1
<1>. QED BY <1>1, <1>2, <1>3, <1>4, <1>5, <1>6, <1>7, <1>8, <1>9, <1>10, <1>11, <1>12,
            <1>13 DEF Next, Step

(* The gateway implements Access: outside of handover races a session      *)
(* opens on the record in force, and a table that changes the record ends  *)
(* it in the same step.  (handle and replace_users in sever/gateway.py.)   *)
THEOREM Refinement == Spec => ImplementsAccess
<1>1. Init => Promise!AccessInit
  BY DEF Init, Promise!AccessInit, SessionOf, Holders, Live
<1>2. IInv /\ IInv' /\ [Next]_vars
        => [Promise!AccessNext]_<<users, [u \in User |-> SessionOf(u)]>>
  BY RefinementStep
<1>. QED BY <1>1, <1>2, Invariance, PTL DEF Spec, ImplementsAccess, Promise!AccessSpec

-----------------------------------------------------------------------------
(* The queues.                                                             *)

\* Taking frames makes a queue no longer.
LEMMA Shorter ==
    ASSUME NEW S, NEW q \in Seq(S), q # <<>>
    PROVE  /\ Len(Tail(q)) <= Len(q)
           /\ \A n \in 1..Len(q) : Len(SubSeq(q, n + 1, Len(q))) <= Len(q)
<1>1. Len(Tail(q)) = Len(q) - 1
  BY HeadTailProperties
<1>2. ASSUME NEW n \in 1..Len(q) PROVE Len(SubSeq(q, n + 1, Len(q))) <= Len(q)
  <2>1. SubSeq(q, n + 1, Len(q)) \in Seq(S)
    BY SubSeqProperties
  <2>2. Len(SubSeq(q, n + 1, Len(q))) = IF n + 1 <= Len(q) THEN Len(q) - n ELSE 0
    BY SubSeqProperties
  <2>. QED BY <2>2
<1>. QED BY <1>1, <1>2

LEMMA QueueStep == TypeOK /\ QueueBounded /\ [Next]_vars => QueueBounded'
<1>. SUFFICES ASSUME TypeOK, QueueBounded, [Next]_vars, NEW d \in Conn
     PROVE  Len(queue'[d]) <= MaxQueue
  BY DEF QueueBounded
<1>. USE DEF vars, registry, session, tasks
<1>t. queue[d] \in Seq(Frame) /\ queue \in [Conn -> Seq(Frame)] /\ Len(queue[d]) <= MaxQueue
  BY DEF TypeOK, QueueBounded
<1>1. ASSUME NEW c \in Conn, NEW x \in Frame, ~Full(c),
             queue' = [queue EXCEPT ![c] = Append(@, x)]
      PROVE  Len(queue'[d]) <= MaxQueue
  BY <1>1, <1>t, AppendProperties DEF Full
<1>2. ASSUME NEW c \in Conn, queue' = [queue EXCEPT ![c] = <<>>]
      PROVE  Len(queue'[d]) <= MaxQueue
  BY <1>2, <1>t
<1>3. ASSUME NEW c \in Conn, TakeBatch(c) PROVE Len(queue'[d]) <= MaxQueue
  <2>1. Smaller(Batch, Len(queue[c])) \in 1..Len(queue[c])
    BY <1>3, <1>t DEF TakeBatch, Waiting, Smaller
  <2>. QED BY <1>3, <1>t, <2>1, Shorter DEF TakeBatch, Waiting
<1>4. ASSUME NEW c \in Conn, WriteFails(c) PROVE Len(queue'[d]) <= MaxQueue
  BY <1>4, <1>t, Shorter DEF WriteFails, Waiting
<1>5. ASSUME NEW c \in Conn, Ping(c) \/ PongQueued(c) PROVE Len(queue'[d]) <= MaxQueue
  BY <1>5, <1>t, <1>1 DEF Ping, PongQueued
<1>6. ASSUME NEW a \in Addr, TunPacket(a) PROVE Len(queue'[d]) <= MaxQueue
  <2>1. peers[a] \in Conn /\ IpUser(a) \in Frame
    BY <1>6, IpUserType DEF TunPacket, TypeOK
  <2>. QED BY <1>6, <2>1, <1>1 DEF TunPacket
<1>7. ASSUME NEW c \in Conn,
             (\E k \in Claim : Authenticate(c, k)) \/ Resume(c) \/ Cleanup(c)
      PROVE  Len(queue'[d]) <= MaxQueue
  BY <1>7, <1>2 DEF Authenticate, Resume, Register, Cleanup, Forget
<1>8. CASE UNCHANGED queue
  BY <1>8, <1>t
<1>9. ASSUME NEW c \in Conn, Step(c) PROVE Len(queue'[d]) <= MaxQueue
  BY <1>3, <1>4, <1>5, <1>7, <1>8, <1>9
     DEF Step, Tunnel, Handover, HandleUpgraded, HandleRefused, HandleStream, AuthFails,
         ConfigSent, ConfigFails, PongTimeout, ReceiveEnds, ReceiveEof, Drained, DrainFails,
         TasksStop, SocketShut, Hangup
<1>. QED BY <1>6, <1>8, <1>9 DEF Next, ReplaceUsers

(* A queue never exceeds its maxsize.  (tun_loop and receive in            *)
(* sever/gateway.py.)                                                      *)
THEOREM QueuesBounded == Spec => []QueueBounded
<1>1. Init => QueueBounded
  BY DEF Init, QueueBounded
<1>. QED BY <1>1, QueueStep, TypeCorrect, PTL DEF Spec
=============================================================================
