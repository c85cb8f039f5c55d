--------------------- MODULE ConnectionLifecycle_proofs ---------------------
(***************************************************************************)
(* The safety invariants of ConnectionLifecycle, for any number of         *)
(* connections and users' threads.  Each is a statement about one          *)
(* connection at a time (Begun, Listed, Late, Kept, Down, Finished),       *)
(* proved with the help of the ones before it; two need that users'        *)
(* threads and callbacks do not mix certain calls (SendsOrSets,            *)
(* ClosesOnce), as the code goes wrong when they do.  Together they show   *)
(* that the server implements ServerSession.                               *)
(***************************************************************************)
EXTENDS ConnectionSteps_proofs

-----------------------------------------------------------------------------
(* How a connection begins *)

Kinds == {"connectEstablished", "connectDestroyed", "removeConnectionInLoop",
          "sendInLoop", "shutdownInLoop", "forceCloseInLoop"}

Est(c) == Task("connectEstablished", c)
Dst(c) == Task("connectDestroyed", c)
Rem(c) == Task("removeConnectionInLoop", c)

\* Nothing has happened to c yet.
Fresh(c) ==
  /\ p.index[c] = kNew /\ p.events[c] = {}
  /\ c \notin wrShut /\ ups[c] = 0 /\ downs[c] = 0
  /\ \A u \in User : c \notin held[u]
  /\ Rem(c) \notin TasksOf(baseTasks)
  /\ \A op \in Kinds \ {"connectEstablished", "connectDestroyed"} :
       Task(op, c) \notin TasksOf(ioTasks)

\* A connection is kConnecting until connectEstablished, which is the first task
\* for it and runs once.
Begun(c) ==
  /\ c \notin made => state_[c] = "kConnecting"
  /\ state_[c] = "kConnecting" => Fresh(c)
  /\ state_[c] # "kConnecting" => ups[c] = 1
  /\ Est(c) \in TasksOf(ioTasks) =>
       /\ state_[c] = "kConnecting"
       /\ server = "up" => c \in connections_
       /\ c \in connections_ \/ Dst(c) \in TasksOf(ioTasks)
       /\ \A op \in Kinds : ~Before(ioTasks, Task(op, c), Est(c))

AllBegun == \A c \in Conn : Begun(c)

\* What is not touched stays begun.
LEMMA BegunUntouched ==
  ASSUME NEW d \in Conn, Begun(d), Untouched(d), server' = "up" => server = "up"
  PROVE  Begun(d)'
<1>1. Fresh(d) => Fresh(d)'
  BY DEF Fresh, Untouched, SameTasks, Rem
<1> QED
  BY <1>1 DEF Begun, Untouched, SameTasks, Est, Dst

\* Tasks of different kinds differ.
LEMMA Distinct ==
  \A c : /\ Est(c) # Dst(c) /\ Est(c) # Rem(c) /\ Dst(c) # Rem(c)
         /\ \A op : /\ Task(op, c) = Est(c) => op = "connectEstablished"
                    /\ Task(op, c) = Dst(c) => op = "connectDestroyed"
                    /\ \A op2 : Task(op, c) = Task(op2, c) => op = op2
BY DEF Est, Dst, Rem, Task

\* Every step keeps it.
LEMMA BegunStep == Types /\ AllBegun /\ [Next]_vars => AllBegun'
<1> SUFFICES ASSUME Types, AllBegun, [Next]_vars
             PROVE  AllBegun'
  OBVIOUS
<1>a. ASSUME NEW c \in Conn, OthersUntouched(c), Begun(c)'
      PROVE  AllBegun'
  BY <1>a, BegunUntouched DEF AllBegun, OthersUntouched
<1>b. ASSUME UNCHANGED <<made, state_, connections_, baseTasks, ioTasks, p, peer, wrShut, held,
                         call, ups, downs>>, server' = "up" => server = "up"
      PROVE  AllBegun'
  BY <1>b, BegunUntouched, Untouching DEF AllBegun
<1>c. \A c \in Conn : Begun(c)
  BY DEF AllBegun
<1>d. \A c \in Conn : c \notin made => \A op : Task(op, c) \notin TasksOf(ioTasks)
  BY DEF Types, Typed, TasksTyped, Task
\* A connection that is not kConnecting has begun if its task has run.
<1>e. ASSUME NEW c \in Conn, OthersUntouched(c), state_'[c] # "kConnecting", ups'[c] = 1,
             Est(c) \notin TasksOf(ioTasks'),
             state_[c] # "kConnecting" \/ c \in made \/ c \in made'
      PROVE  AllBegun'
  <2>1. c \in made'
    BY <1>c, <1>e DEF Begun, OthersUntouched
  <2> QED
    BY <1>a, <1>e, <2>1 DEF Begun
<1>1. CASE usage' = usage /\ (poll \/ swapFunctors \/ loopPolls \/ stopServer \/ quitLoops)
  BY <1>b, <1>1 DEF poll, swapFunctors, loopPolls, stopServer, quitLoops
<1>2. CASE UNCHANGED vars
  BY <1>b, <1>2 DEF vars
<1>4. CASE usage' = usage /\ loopEnds
  BY <1>4, <1>c, EmptyTasks DEF loopEnds, AllBegun, Begun, Fresh
<1>5. ASSUME usage' = usage, NEW c \in Conn, handleEventStays(c)
      PROVE  AllBegun'
  <2>1. state_[c] # "kConnecting" /\ Est(c) \notin TasksOf(ioTasks) /\ ups[c] = 1
    BY <1>5, <1>c, StaysTouches, Indices DEF Begun, Fresh
  <2>2. Est(c) \notin TasksOf(ioTasks')
    BY <1>5, <2>1, StaysTouches, Distinct DEF Gains
  <2>3. ups'[c] = 1 /\ state_'[c] # "kConnecting"
    BY <1>5, <2>1, StaysTouches DEF handleEventStays
  <2> QED
    BY <1>5, <1>e, <2>2, <2>3, StaysTouches
<1>6. ASSUME usage' = usage, NEW c \in Conn, handleEventCloses(c)
      PROVE  AllBegun'
  <2>1. state_[c] # "kConnecting" /\ Est(c) \notin TasksOf(ioTasks) /\ ups[c] = 1
    BY <1>6, <1>c, ClosesTouches, Indices DEF Begun, Fresh
  <2>2. Est(c) \notin TasksOf(ioTasks') /\ ups'[c] = 1 /\ state_'[c] # "kConnecting"
    BY <1>6, <2>1, ClosesTouches DEF handleEventCloses, ClosesIt
  <2> QED
    BY <1>6, <1>e, <2>2, ClosesTouches
<1>7. ASSUME usage' = usage, NEW c \in Conn, runConnectEstablished(c)
      PROVE  AllBegun'
  <2>1. state_[c] = "kConnecting" /\ ups[c] = 0 /\ ~Before(ioTasks, Est(c), Est(c))
    BY <1>7, <1>c, EstablishTouches DEF Begun, Fresh, Est, Kinds
  <2>2. Est(c) \notin TasksOf(ioTasks')
    BY <1>7, <2>1, EstablishTouches, Distinct DEF Loses, Est
  <2>3. ups'[c] = 1 /\ state_'[c] # "kConnecting"
    BY <1>7, <2>1, EstablishTouches DEF EstablishesIt, Count
  <2> QED
    BY <1>7, <1>e, <2>2, <2>3, EstablishTouches
<1>8. ASSUME usage' = usage, NEW c \in Conn, runConnectDestroyed(c)
      PROVE  AllBegun'
  <2>1. /\ Dst(c) \in TasksOf(ioTasks) /\ Loses("connectDestroyed", c, ioTasks') /\ DestroysIt(c)
        /\ UNCHANGED <<made, ups, held, wrShut, baseTasks, connections_>>
    BY <1>8, DestroyedTouches DEF Dst, runConnectDestroyed
  <2>2. Est(c) \notin TasksOf(ioTasks')
    BY <1>c, <2>1 DEF Begun, Loses, Est, Dst, Kinds
  <2>3. CASE state_[c] = "kConnecting"
    <3>1. Fresh(c)'
      BY <1>c, <2>1, <2>3 DEF Begun, Fresh, DestroysIt, Loses
    <3> QED
      BY <1>8, <1>a, <2>1, <2>2, <2>3, <3>1, DestroyedTouches DEF Begun, DestroysIt
  <2>4. CASE state_[c] # "kConnecting"
    <3>1. ups'[c] = 1 /\ state_'[c] # "kConnecting"
      BY <1>c, <2>1, <2>4 DEF Begun, DestroysIt
    <3> QED
      BY <1>8, <1>e, <2>2, <3>1, DestroyedTouches
  <2> QED
    BY <2>3, <2>4
<1>9. ASSUME usage' = usage, NEW c \in Conn, runSendInLoop(c)
      PROVE  AllBegun'
  <2>1. state_[c] # "kConnecting" /\ ups[c] = 1 /\ Est(c) \notin TasksOf(ioTasks)
    BY <1>9, <1>c, SendTouches DEF Begun, Fresh, Kinds
  <2>2. ups'[c] = 1 /\ state_'[c] # "kConnecting" /\ Est(c) \notin TasksOf(ioTasks')
    BY <1>9, <2>1, SendTouches DEF runSendInLoop, Loses
  <2> QED
    BY <1>9, <1>e, <2>2, SendTouches
<1>10. ASSUME usage' = usage, NEW c \in Conn, runShutdownInLoop(c)
       PROVE  AllBegun'
  <2>1. state_[c] # "kConnecting" /\ ups[c] = 1 /\ Est(c) \notin TasksOf(ioTasks)
    BY <1>10, <1>c, ShutdownTouches DEF Begun, Fresh, Kinds
  <2>2. ups'[c] = 1 /\ state_'[c] # "kConnecting" /\ Est(c) \notin TasksOf(ioTasks')
    BY <1>10, <2>1, ShutdownTouches DEF runShutdownInLoop, Loses
  <2> QED
    BY <1>10, <1>e, <2>2, ShutdownTouches
<1>11. ASSUME usage' = usage, NEW c \in Conn, forceCloseInLoop(c)
       PROVE  AllBegun'
  <2>1. state_[c] # "kConnecting" /\ ups[c] = 1 /\ Est(c) \notin TasksOf(ioTasks)
    BY <1>11, <1>c, ForceTouches DEF Begun, Fresh, Kinds
  <2>2. ups'[c] = 1 /\ state_'[c] # "kConnecting" /\ Est(c) \notin TasksOf(ioTasks')
    BY <1>11, <2>1, ForceTouches DEF forceCloseInLoop, Loses, ClosesIt
  <2> QED
    BY <1>11, <1>e, <2>2, ForceTouches
<1>12. ASSUME usage' = usage, NEW c \in Conn, newConnection(c)
       PROVE  AllBegun'
  <2>1. state_[c] = "kConnecting" /\ Fresh(c) /\ \A op : Task(op, c) \notin TasksOf(ioTasks)
    BY <1>12, <1>c, <1>d, NewTouches DEF Begun
  <2>2. CASE usage.sameLoop
    <3>1. ups'[c] = 1 /\ state_'[c] # "kConnecting"
      BY <1>12, <2>1, <2>2, NewTouches DEF EstablishesIt, Fresh, Count
    <3>2. Est(c) \notin TasksOf(ioTasks')
      BY <1>12, <2>1, <2>2, NewTouches, Distinct DEF Gains, Est
    <3> QED
      BY <1>12, <1>e, <3>1, <3>2, NewTouches
  <2>3. CASE ~usage.sameLoop
    <3>1. /\ UNCHANGED <<state_, p, wrShut, ups, held, baseTasks, downs>>
          /\ Gains("connectEstablished", c) /\ c \in connections_' /\ c \in made'
      BY <1>12, <2>3, NewTouches
    <3>2. Fresh(c)'
      BY <2>1, <3>1, Distinct DEF Fresh, Gains
    <3>3. \A op \in Kinds : ~Before(ioTasks', Task(op, c), Est(c))
      <4>1. \A op \in Kinds : ~Before(ioTasks, Task(op, c), Est(c))
        BY <2>1 DEF Before, TasksOf, Est
      <4> QED
        BY <2>1, <3>1, <4>1 DEF Gains
    <3>4. Begun(c)'
      BY <2>1, <3>1, <3>2, <3>3 DEF Begun
    <3> QED
      BY <1>12, <1>a, <3>4, NewTouches
  <2> QED
    BY <2>2, <2>3
<1>13. ASSUME usage' = usage, NEW c \in Conn, removeConnectionInLoop(c)
       PROVE  AllBegun'
  <2>1. state_[c] # "kConnecting" /\ ups[c] = 1 /\ Est(c) \notin TasksOf(ioTasks)
    BY <1>13, <1>c, RemoveTouches DEF Begun, Fresh, Rem
  <2>2. ups'[c] = 1 /\ state_'[c] # "kConnecting" /\ Est(c) \notin TasksOf(ioTasks')
    BY <1>13, <2>1, RemoveTouches, Distinct DEF removeConnectionInLoop, Gains
  <2> QED
    BY <1>13, <1>e, <2>2, RemoveTouches
<1>14. ASSUME usage' = usage, NEW c \in Conn, peerCloses(c)
       PROVE  AllBegun'
  <2>1. Begun(c)'
    BY <1>14, <1>c DEF peerCloses, Begun, Fresh
  <2> QED
    BY <1>14, <1>a, <2>1, PeerTouches
<1>15. ASSUME usage' = usage, NEW u \in User, NEW c \in Conn, release(u, c)
       PROVE  AllBegun'
  <2>1. state_[c] # "kConnecting" /\ ups[c] = 1 /\ Est(c) \notin TasksOf(ioTasks)
    BY <1>15, <1>c, ReleaseTouches DEF Begun, Fresh
  <2> QED
    BY <1>15, <1>e, <2>1, ReleaseTouches DEF release
<1>16. ASSUME usage' = usage, NEW u \in User, NEW c \in Conn, NEW op \in usage.remote,
              callChecks(u, c, op)
       PROVE  AllBegun'
  <2>1. state_[c] # "kConnecting" /\ ups[c] = 1 /\ Est(c) \notin TasksOf(ioTasks)
    BY <1>16, <1>c, ChecksTouches DEF Begun, Fresh
  <2> QED
    BY <1>16, <1>e, <2>1, ChecksTouches DEF callChecks
<1>17. ASSUME usage' = usage, NEW u \in User, callSets(u)
       PROVE  AllBegun'
  <2>1. PICK c \in Conn : OthersUntouched(c) /\ c \in made /\ c \in held[u] /\ state_'[c] = "kDisconnecting"
    BY <1>17, SetsTouches
  <2>2. ups[c] = 1 /\ Est(c) \notin TasksOf(ioTasks)
    BY <1>c, <2>1 DEF Begun, Fresh
  <2> QED
    BY <1>17, <1>e, <2>1, <2>2 DEF callSets
<1>18. ASSUME usage' = usage, NEW u \in User, callQueues(u)
       PROVE  AllBegun'
  <2>1. PICK c \in Conn, op \in {"sendInLoop", "shutdownInLoop", "forceCloseInLoop"} :
          OthersUntouched(c) /\ c \in held[u] /\ Gains(op, c)
    BY <1>18, QueuesTouches
  <2>2. state_[c] # "kConnecting" /\ ups[c] = 1 /\ Est(c) \notin TasksOf(ioTasks)
    BY <1>c, <2>1 DEF Begun, Fresh
  <2>3. Est(c) \notin TasksOf(ioTasks')
    BY <2>1, <2>2, Distinct DEF Gains
  <2> QED
    BY <1>18, <1>e, <2>1, <2>2, <2>3 DEF callQueues
<1>21. ASSUME usage' = usage, NEW c \in Conn, stopConnection(c)
       PROVE  AllBegun'
  <2>1. /\ OthersUntouched(c) /\ UNCHANGED <<made, baseTasks, wrShut, held, ups>>
        /\ server = "stopping" /\ server' = server
    BY <1>21, StopTouches DEF stopConnection
  <2>2. CASE usage.sameLoop
    <3>1. DestroysIt(c) /\ ioTasks' = ioTasks /\ Est(c) \notin TasksOf(ioTasks)
      BY <1>21, <2>2, StopTouches DEF Types, Typed, TasksTyped, Est, Task
    <3>2. Fresh(c) => Fresh(c)' \/ state_[c] # "kConnecting"
      BY <2>1, <3>1 DEF Fresh, DestroysIt
    <3>3. Begun(c)'
      BY <1>c, <2>1, <3>1, <3>2 DEF Begun, DestroysIt
    <3> QED
      BY <1>a, <2>1, <3>3
  <2>3. CASE ~usage.sameLoop
    <3>1. Gains("connectDestroyed", c) /\ UNCHANGED <<state_, p, downs>>
      BY <1>21, <2>3, StopTouches
    <3>2. Fresh(c) => Fresh(c)'
      BY <2>1, <3>1, Distinct DEF Fresh, Gains
    <3>3. /\ Dst(c) \in TasksOf(ioTasks') /\ (Est(c) \in TasksOf(ioTasks') => Est(c) \in TasksOf(ioTasks))
          /\ \A op \in Kinds : ~Before(ioTasks, Task(op, c), Est(c)) =>
               ~Before(ioTasks', Task(op, c), Est(c))
      BY <3>1, Distinct DEF Gains, Dst
    <3>4. Begun(c)'
      BY <1>c, <2>1, <3>1, <3>2, <3>3 DEF Begun
    <3> QED
      BY <1>a, <2>1, <3>4
  <2> QED
    BY <2>2, <2>3
<1> QED
  BY <1>1, <1>2, <1>4, <1>5, <1>6, <1>7, <1>8, <1>9, <1>10, <1>11, <1>12, <1>13, <1>14,
     <1>15, <1>16, <1>17, <1>18, <1>21
  DEF Next, Loop, IoLoop, Users, StopServer

\* It holds in every reachable state.
LEMMA AlwaysBegun == Spec => []AllBegun
<1>1. Init => AllBegun
  <2> SUFFICES ASSUME Init, NEW c \in Conn
               PROVE  Begun(c)
    BY DEF AllBegun
  <2>1. p.index[c] = kNew /\ p.events[c] = {}
    BY FirstPoller
  <2>2. Fresh(c)
    BY <2>1, EmptyTasks DEF Init, Fresh
  <2> QED
    BY <2>2, EmptyTasks DEF Init, Begun
<1>2. AllBegun /\ exited /\ [Next]_vars => AllBegun'
  BY ExitedStays DEF vars, loopVars, AllBegun, Begun, Fresh
<1> QED
  BY <1>1, <1>2, BegunStep, ExitedStays, TypesHold, PTL DEF Spec

-----------------------------------------------------------------------------
(* Connected connections *)

\* A connection that is to be removed is not connected any more, and one that is
\* connected is in the map.
Listed(c) ==
  /\ Rem(c) \in TasksOf(baseTasks) => state_[c] # "kConnected"
  /\ state_[c] = "kConnected" /\ (server = "up" \/ usage.sameLoop) => c \in connections_

AllListed == \A c \in Conn : Listed(c)

\* Every step keeps it.
LEMMA ListedStep == Types /\ AllBegun /\ AllListed /\ [Next]_vars => AllListed'
<1> SUFFICES ASSUME Types, AllBegun, AllListed, [Next]_vars
             PROVE  AllListed'
  OBVIOUS
<1>u. ASSUME NEW d \in Conn, Untouched(d), server' = "up" => server = "up", usage' = usage
      PROVE  Listed(d)'
  BY <1>u DEF AllListed, Listed, Untouched, Rem
<1>a. ASSUME NEW c \in Conn, OthersUntouched(c), Listed(c)'
      PROVE  AllListed'
  BY <1>a, <1>u DEF AllListed, OthersUntouched
<1>b. ASSUME UNCHANGED <<made, state_, connections_, baseTasks, ioTasks, p, peer, wrShut, held,
                         call, ups, downs>>, server' = "up" => server = "up", usage' = usage
      PROVE  AllListed'
  BY <1>b, <1>u, Untouching DEF AllListed
<1>c. \A c \in Conn : Begun(c) /\ Listed(c)
  BY DEF AllBegun, AllListed
<1>e. ASSUME NEW c \in Conn, OthersUntouched(c), state_'[c] # "kConnected"
      PROVE  AllListed'
  BY <1>a, <1>e DEF Listed
<1>f. ASSUME NEW c \in Conn, OthersUntouched(c),
             UNCHANGED <<state_, baseTasks, connections_>>
      PROVE  AllListed'
  <2>1. Listed(c)'
    BY <1>c, <1>f DEF Listed, OthersUntouched
  <2> QED
    BY <1>a, <1>f, <2>1
<1>1. CASE usage' = usage /\ (poll \/ swapFunctors \/ loopPolls \/ stopServer \/ quitLoops)
  BY <1>b, <1>1 DEF poll, swapFunctors, loopPolls, stopServer, quitLoops
<1>2. CASE UNCHANGED vars
  BY <1>b, <1>2 DEF vars
<1>4. CASE usage' = usage /\ loopEnds
  BY <1>4, <1>c DEF loopEnds, AllListed, Listed
<1>5. ASSUME usage' = usage, NEW c \in Conn, handleEventStays(c)
      PROVE  AllListed'
  <2>1. UNCHANGED <<baseTasks, connections_>>
    BY <1>5 DEF handleEventStays
  <2>2. state_'[c] = state_[c] \/ state_'[c] = "kDisconnecting"
    BY <1>5, StaysTouches
  <2>3. Listed(c)'
    BY <1>5, <1>c, <2>1, <2>2, StaysTouches DEF Listed, OthersUntouched
  <2> QED
    BY <1>5, <1>a, <2>3, StaysTouches
<1>6. ASSUME usage' = usage, NEW c \in Conn, handleEventCloses(c)
      PROVE  AllListed'
  BY <1>6, <1>e, ClosesTouches DEF ClosesIt
<1>7. ASSUME usage' = usage, NEW c \in Conn, runConnectEstablished(c)
      PROVE  AllListed'
  <2>1. Fresh(c) /\ (server = "up" => c \in connections_) /\ ~usage.sameLoop
    BY <1>7, <1>c, EstablishTouches DEF Begun, Est
  <2>2. Listed(c)'
    BY <1>7, <2>1 DEF Fresh, Listed, runConnectEstablished
  <2> QED
    BY <1>7, <1>a, <2>2, EstablishTouches
<1>8. ASSUME usage' = usage, NEW c \in Conn, runConnectDestroyed(c)
      PROVE  AllListed'
  BY <1>8, <1>e, DestroyedTouches DEF DestroysIt
<1>9. ASSUME usage' = usage, NEW c \in Conn, runSendInLoop(c)
      PROVE  AllListed'
  BY <1>9, <1>f, SendTouches DEF runSendInLoop
<1>10. ASSUME usage' = usage, NEW c \in Conn, runShutdownInLoop(c)
       PROVE  AllListed'
  BY <1>10, <1>f, ShutdownTouches DEF runShutdownInLoop
<1>11. ASSUME usage' = usage, NEW c \in Conn, forceCloseInLoop(c)
       PROVE  AllListed'
  BY <1>11, <1>e, ForceTouches DEF ClosesIt
<1>12. ASSUME usage' = usage, NEW c \in Conn, newConnection(c)
       PROVE  AllListed'
  <2>1. Fresh(c)
    BY <1>12, <1>c, NewTouches DEF Begun
  <2>2. Listed(c)'
    BY <1>12, <2>1, NewTouches DEF Fresh, Listed
  <2> QED
    BY <1>12, <1>a, <2>2, NewTouches
<1>13. ASSUME usage' = usage, NEW c \in Conn, removeConnectionInLoop(c)
       PROVE  AllListed'
  <2>1. state_'[c] # "kConnected"
    BY <1>13, <1>c, RemoveTouches DEF Listed, Rem, removeConnectionInLoop
  <2> QED
    BY <1>13, <1>e, <2>1, RemoveTouches
<1>14. ASSUME usage' = usage, NEW c \in Conn, peerCloses(c)
       PROVE  AllListed'
  BY <1>14, <1>f, PeerTouches DEF peerCloses
<1>15. ASSUME usage' = usage, NEW u \in User, NEW c \in Conn, release(u, c)
       PROVE  AllListed'
  BY <1>15, <1>f, ReleaseTouches DEF release
<1>16. ASSUME usage' = usage, NEW u \in User, NEW c \in Conn, NEW op \in usage.remote,
              callChecks(u, c, op)
       PROVE  AllListed'
  BY <1>16, <1>f, ChecksTouches DEF callChecks
<1>17. ASSUME usage' = usage, NEW u \in User, callSets(u)
       PROVE  AllListed'
  BY <1>17, <1>e, SetsTouches
<1>18. ASSUME usage' = usage, NEW u \in User, callQueues(u)
       PROVE  AllListed'
  BY <1>18, <1>f, QueuesTouches DEF callQueues
<1>19. ASSUME usage' = usage, NEW c \in Conn, stopConnection(c)
       PROVE  AllListed'
  <2>1. CASE usage.sameLoop
    BY <1>19, <1>e, <2>1, StopTouches DEF DestroysIt
  <2>2. CASE ~usage.sameLoop
    <3>1. /\ OthersUntouched(c) /\ UNCHANGED <<state_, baseTasks, server, usage>>
          /\ server = "stopping"
      BY <1>19, <2>2, StopTouches DEF stopConnection
    <3>2. Listed(c)'
      BY <1>c, <2>2, <3>1 DEF Listed
    <3> QED
      BY <1>a, <3>1, <3>2
  <2> QED
    BY <2>1, <2>2
<1> QED
  BY <1>1, <1>2, <1>4, <1>5, <1>6, <1>7, <1>8, <1>9, <1>10, <1>11, <1>12, <1>13, <1>14,
     <1>15, <1>16, <1>17, <1>18, <1>19
  DEF Next, Loop, IoLoop, Users, StopServer

\* It holds in every reachable state.
LEMMA AlwaysListed == Spec => []AllListed
<1>1. Init => AllListed
  BY EmptyTasks DEF Init, AllListed, Listed
<1>2. AllListed /\ exited /\ [Next]_vars => AllListed'
  BY ExitedStays DEF vars, loopVars, AllListed, Listed
<1> QED
  BY <1>1, <1>2, ListedStep, AlwaysBegun, ExitedStays, TypesHold, PTL DEF Spec

\* Every variable always has its type.
THEOREM TypeCorrect == Spec => []TypeOK
<1>1. Typed => TypeOK
  BY DEF Typed
<1> QED
  BY <1>1, TypesHold, PTL

\* While the server is up, a connection that can be used is in its map.
THEOREM ConnectedStaysListed == Spec => []ConnectedIsListed
<1>1. AllListed => ConnectedIsListed
  BY DEF AllListed, Listed, ConnectedIsListed
<1> QED
  BY <1>1, AlwaysListed, PTL

\* A server with one loop leaves no connection that takes itself for connected.
THEOREM OneLoopServerStopsAll == Spec => []OneLoopStopsAll
<1>1. Typed /\ AllListed => OneLoopStopsAll
  BY DEF Typed, Places, AllListed, Listed, OneLoopStopsAll
<1> QED
  BY <1>1, TypesHold, AlwaysListed, PTL

-----------------------------------------------------------------------------
(* Channels that are not left behind *)

\* The I/O loop stands still once it has ended.
Ended == server = "gone" => stage = "functors" /\ batch = 0

\* Every step keeps it.
LEMMA EndedStep == Types /\ Ended /\ [Next]_vars => Ended'
<1> SUFFICES ASSUME Types, Ended, [Next]_vars
             PROVE  Ended'
  OBVIOUS
<1>b. ASSUME UNCHANGED <<stage, batch>>, server' = "gone" => server = "gone"
      PROVE  Ended'
  BY <1>b DEF Ended
<1>1. CASE poll \/ swapFunctors \/ loopPolls
  BY <1>1 DEF poll, swapFunctors, loopPolls, Ended
<1>2. CASE loopEnds
  BY <1>2 DEF loopEnds, loopVars, Ended
<1>3. ASSUME NEW c \in Conn, IoLoop(c)
      PROVE  Ended'
  <2>1. CASE Handles(c) /\ server' = server
    BY <1>b, <2>1 DEF Handles
  <2>2. ASSUME NEW op, Starts(op, c), server' = server
        PROVE  Ended'
    BY <2>2 DEF Starts, Ended, Types, Typed, TypeOK
  <2> QED
    BY <1>3, <2>1, <2>2
    DEF IoLoop, handleEventStays, handleEventCloses, runConnectEstablished,
        runConnectDestroyed, runSendInLoop, runShutdownInLoop, forceCloseInLoop
<1>4. CASE stopServer
  BY <1>b, <1>4 DEF stopServer, loopVars
<1>5. CASE quitLoops
  BY <1>5 DEF quitLoops, loopVars, Ended, Types, Typed, Places
<1>6. ASSUME NEW c \in Conn,
             newConnection(c) \/ removeConnectionInLoop(c) \/ peerCloses(c) \/ stopConnection(c)
      PROVE  Ended'
  BY <1>b, <1>6
  DEF newConnection, removeConnectionInLoop, peerCloses, stopConnection, loopVars
<1>7. ASSUME NEW u \in User, Users(u)
      PROVE  Ended'
  BY <1>b, <1>7 DEF Users, release, callChecks, callSets, callQueues, loopVars
<1>8. CASE UNCHANGED vars
  BY <1>b, <1>8 DEF vars, loopVars
<1> QED
  BY <1>1, <1>2, <1>3, <1>4, <1>5, <1>6, <1>7, <1>8 DEF Next, Loop, StopServer

\* It holds in every reachable state.
LEMMA AlwaysEnded == Spec => []Ended
<1>1. Init => Ended
  BY DEF Init, Ended
<1>2. Ended /\ exited /\ [Next]_vars => Ended'
  BY ExitedStays DEF vars, loopVars, Ended
<1> QED
  BY <1>1, <1>2, EndedStep, ExitedStays, TypesHold, PTL DEF Spec

\* Users' threads send, or they shut down and force-close, but not both.
SendsOrSets(x) == "send" \notin x.remote \/ x.remote \subseteq {"send"}

\* Somebody will still run connectDestroyed, or has to decide to.
Anchored(c) ==
  \/ c \in connections_
  \/ Rem(c) \in TasksOf(baseTasks)
  \/ Dst(c) \in TasksOf(ioTasks)

\* Whenever a channel is in the poller, somebody is going to take it out.
Kept(c) ==
  SendsOrSets(usage) /\ p.index[c] # kNew /\ (server # "gone" \/ usage.sameLoop) => Anchored(c)

AllKept == \A c \in Conn : Kept(c)

Send(c) == Task("sendInLoop", c)

\* The loop may still run tasks.
Running == server = "up" \/ ~usage.sameLoop

\* A connected connection's channel is in the poller.  And when users' threads
\* only send, a connection that is being removed while the server is up is
\* kDisconnected, and so is one that has left the poller, or will have left it,
\* when a send comes to it: the send does not add its channel again.
Late(c) ==
  /\ state_[c] = "kConnected" => p.index[c] # kNew
  /\ usage.remote \subseteq {"send"} =>
       /\ Rem(c) \in TasksOf(baseTasks) => state_[c] = "kDisconnected"
       /\ server = "up" /\ Dst(c) \in TasksOf(ioTasks) => state_[c] = "kDisconnected"
       /\ Running /\ p.index[c] = kNew /\ Send(c) \in TasksOf(ioTasks) =>
            state_[c] = "kDisconnected"
       /\ Before(ioTasks, Dst(c), Send(c)) => state_[c] = "kDisconnected"
       /\ \A u \in User : call[u] # Idle /\ call[u].conn = c /\ p.index[c] = kNew =>
            state_[c] = "kDisconnected"

AllLate == \A c \in Conn : Late(c)

\* Every step keeps it.
LEMMA LateStep == Types /\ AllBegun /\ AllLate /\ [Next]_vars => AllLate'
<1> SUFFICES ASSUME Types, AllBegun, AllLate, [Next]_vars
             PROVE  AllLate'
  OBVIOUS
<1>u. ASSUME NEW d \in Conn, Untouched(d), server' = "up" => server = "up", usage' = usage
      PROVE  Late(d)'
  <2>1. /\ Rem(d) \in TasksOf(baseTasks') <=> Rem(d) \in TasksOf(baseTasks)
        /\ Dst(d) \in TasksOf(ioTasks') <=> Dst(d) \in TasksOf(ioTasks)
        /\ Send(d) \in TasksOf(ioTasks') <=> Send(d) \in TasksOf(ioTasks)
        /\ Before(ioTasks', Dst(d), Send(d)) => Before(ioTasks, Dst(d), Send(d))
    BY <1>u DEF Untouched, SameTasks, Rem, Dst, Send
  <2>2. /\ state_'[d] = state_[d] /\ p'.index[d] = p.index[d]
        /\ \A u \in User : call'[u] # Idle /\ call'[u].conn = d => call[u] = call'[u]
    BY <1>u DEF Untouched
  <2> QED
    BY <1>u, <2>1, <2>2 DEF AllLate, Late, Running
<1>a. ASSUME NEW c \in Conn, OthersUntouched(c), Late(c)'
      PROVE  AllLate'
  BY <1>a, <1>u DEF AllLate, OthersUntouched
<1>b. ASSUME UNCHANGED <<made, state_, connections_, baseTasks, ioTasks, p, peer, wrShut, held,
                         call, ups, downs>>, server' = "up" => server = "up", usage' = usage
      PROVE  AllLate'
  BY <1>b, <1>u, Untouching DEF AllLate
<1>c. \A c \in Conn : Begun(c) /\ Late(c)
  BY DEF AllBegun, AllLate
\* A kDisconnected connection stays late whatever happens.
<1>e. ASSUME NEW c \in Conn, OthersUntouched(c), state_'[c] = "kDisconnected"
      PROVE  AllLate'
  <2>1. Late(c)'
    BY <1>e DEF Late
  <2> QED
    BY <1>a, <1>e, <2>1
\* The loop's queue loses a task.
<1>f. ASSUME NEW c \in Conn, NEW op, Loses(op, c, ioTasks')
      PROVE  /\ Dst(c) \in TasksOf(ioTasks') => Dst(c) \in TasksOf(ioTasks)
             /\ Send(c) \in TasksOf(ioTasks') => Send(c) \in TasksOf(ioTasks)
             /\ Before(ioTasks', Dst(c), Send(c)) => Before(ioTasks, Dst(c), Send(c))
  BY <1>f DEF Loses
<1>g. ASSUME NEW c \in Conn, Gains("forceCloseInLoop", c) \/ Gains("shutdownInLoop", c) \/ ioTasks' = ioTasks
      PROVE  /\ Dst(c) \in TasksOf(ioTasks') => Dst(c) \in TasksOf(ioTasks)
             /\ Send(c) \in TasksOf(ioTasks') => Send(c) \in TasksOf(ioTasks)
             /\ Before(ioTasks', Dst(c), Send(c)) => Before(ioTasks, Dst(c), Send(c))
  BY <1>g DEF Gains, Dst, Send, Task
\* A step that leaves state_ alone, and the channel in the poller if it was there.
<1>h. ASSUME NEW c \in Conn, OthersUntouched(c), state_'[c] = state_[c],
             p.index[c] # kNew => p'.index[c] # kNew, call' = call,
             Rem(c) \in TasksOf(baseTasks') => Rem(c) \in TasksOf(baseTasks),
             Dst(c) \in TasksOf(ioTasks') => Dst(c) \in TasksOf(ioTasks),
             Send(c) \in TasksOf(ioTasks') => Send(c) \in TasksOf(ioTasks),
             Before(ioTasks', Dst(c), Send(c)) => Before(ioTasks, Dst(c), Send(c))
      PROVE  AllLate'
  <2>1. Late(c)'
    BY <1>c, <1>h DEF Late, Running, OthersUntouched
  <2> QED
    BY <1>a, <1>h, <2>1
<1>1. CASE usage' = usage /\ (poll \/ swapFunctors \/ loopPolls \/ stopServer \/ quitLoops)
  BY <1>b, <1>1 DEF poll, swapFunctors, loopPolls, stopServer, quitLoops
<1>2. CASE UNCHANGED vars
  BY <1>b, <1>2 DEF vars
<1>4. CASE usage' = usage /\ loopEnds
  <2>1. ASSUME NEW c \in Conn
        PROVE  Late(c)'
    BY <1>4, <1>c, EmptyTasks DEF loopEnds, Late
  <2> QED
    BY <2>1 DEF AllLate
<1>5. ASSUME usage' = usage, NEW c \in Conn, handleEventStays(c)
      PROVE  AllLate'
  <2>1. /\ p.index[c] # kNew /\ p'.index[c] # kNew /\ OthersUntouched(c)
        /\ UNCHANGED <<baseTasks, call, server>>
    BY <1>5, StaysTouches, Indices DEF handleEventStays
  <2>2. /\ Dst(c) \in TasksOf(ioTasks') => Dst(c) \in TasksOf(ioTasks)
        /\ Send(c) \in TasksOf(ioTasks') => Send(c) \in TasksOf(ioTasks)
        /\ Before(ioTasks', Dst(c), Send(c)) => Before(ioTasks, Dst(c), Send(c))
    BY <1>5, <1>g, StaysTouches
  <2>3. state_[c] = "kDisconnected" => state_'[c] = "kDisconnected"
    BY <1>5, StaysTouches
  <2>4. Late(c)'
    BY <1>5, <1>c, <2>1, <2>2, <2>3 DEF Late
  <2> QED
    BY <1>a, <2>1, <2>4
<1>6. ASSUME usage' = usage, NEW c \in Conn, handleEventCloses(c)
      PROVE  AllLate'
  BY <1>6, <1>e, ClosesTouches DEF ClosesIt
<1>7. ASSUME usage' = usage, NEW c \in Conn, runConnectEstablished(c)
      PROVE  AllLate'
  <2>1. /\ Fresh(c) /\ state_[c] = "kConnecting" /\ ~usage.sameLoop
        /\ p'.index[c] # kNew /\ OthersUntouched(c)
        /\ UNCHANGED <<baseTasks, call, server>>
    BY <1>7, <1>c, EstablishTouches, Indices DEF Begun, Est, EstablishesIt, runConnectEstablished
  <2>2. /\ Dst(c) \in TasksOf(ioTasks') => Dst(c) \in TasksOf(ioTasks)
        /\ Before(ioTasks', Dst(c), Send(c)) => Before(ioTasks, Dst(c), Send(c))
    <3>1. PICK tasks :
            /\ Loses("connectEstablished", c, tasks)
            /\ \/ ioTasks' = tasks
               \/ /\ TasksOf(ioTasks') = TasksOf(tasks) \cup {ForceTask(c)}
                  /\ \A x, y : Before(ioTasks', x, y) =>
                       Before(tasks, x, y) \/ (x \in TasksOf(tasks) /\ y = ForceTask(c))
      BY <1>7, EstablishTouches DEF ForceTask
    <3>2. /\ Dst(c) # ForceTask(c) /\ Send(c) # ForceTask(c)
          /\ Dst(c) \in TasksOf(tasks) => Dst(c) \in TasksOf(ioTasks)
          /\ Before(tasks, Dst(c), Send(c)) => Before(ioTasks, Dst(c), Send(c))
      BY <3>1 DEF Loses, Dst, Send, ForceTask, Task
    <3> QED
      BY <3>1, <3>2
  <2>3. Late(c)'
    BY <1>7, <1>c, <2>1, <2>2 DEF Late, Fresh
  <2> QED
    BY <1>a, <2>1, <2>3
<1>8. ASSUME usage' = usage, NEW c \in Conn, runConnectDestroyed(c)
      PROVE  AllLate'
  <2>1. /\ OthersUntouched(c) /\ DestroysIt(c) /\ Loses("connectDestroyed", c, ioTasks')
        /\ Dst(c) \in TasksOf(ioTasks) /\ UNCHANGED <<baseTasks, call, server>>
    BY <1>8, DestroyedTouches DEF Dst, runConnectDestroyed
  <2>2. Send(c) \in TasksOf(ioTasks') => Before(ioTasks, Dst(c), Send(c))
    BY <2>1 DEF Loses, Dst
  <2>3. \A u \in User : call[u] # Idle => server = "up"
    BY DEF Types, Typed, CallsTyped
  <2>4. state_[c] = "kDisconnected" => state_'[c] = "kDisconnected"
    BY <2>1 DEF DestroysIt
  <2>5. state_'[c] # "kConnected"
    BY <2>1 DEF DestroysIt
  <2>6. Late(c)'
    BY <1>8, <1>c, <1>f, <2>1, <2>2, <2>3, <2>4, <2>5 DEF Late
  <2> QED
    BY <1>a, <2>1, <2>6
<1>9. ASSUME usage' = usage, NEW c \in Conn, runSendInLoop(c)
      PROVE  AllLate'
  <2>1. UNCHANGED <<state_, baseTasks, call>> /\ OthersUntouched(c) /\ Loses("sendInLoop", c, ioTasks')
    BY <1>9, SendTouches DEF runSendInLoop
  <2>2. p.index[c] # kNew => p'.index[c] # kNew
    BY <1>9, SendTouches, Indices
  <2> QED
    BY <1>f, <1>h, <2>1, <2>2
<1>10. ASSUME usage' = usage, NEW c \in Conn, runShutdownInLoop(c)
       PROVE  AllLate'
  <2>1. /\ UNCHANGED <<state_, baseTasks, call, p>> /\ OthersUntouched(c)
        /\ Loses("shutdownInLoop", c, ioTasks')
    BY <1>10, ShutdownTouches DEF runShutdownInLoop
  <2> QED
    BY <1>f, <1>h, <2>1
<1>11. ASSUME usage' = usage, NEW c \in Conn, forceCloseInLoop(c)
       PROVE  AllLate'
  <2>1. OthersUntouched(c) /\ Loses("forceCloseInLoop", c, ioTasks') /\ call' = call
    BY <1>11, ForceTouches DEF forceCloseInLoop
  <2>2. CASE ClosesIt(c)
    BY <1>e, <2>1, <2>2 DEF ClosesIt
  <2>3. CASE UNCHANGED <<state_, downs, connections_, p, baseTasks>>
    BY <1>f, <1>h, <2>1, <2>3
  <2> QED
    BY <1>11, <2>2, <2>3, ForceTouches
<1>12. ASSUME usage' = usage, NEW c \in Conn, newConnection(c)
       PROVE  AllLate'
  <2>1. Fresh(c) /\ state_[c] = "kConnecting" /\ \A op : Task(op, c) \notin TasksOf(ioTasks)
    BY <1>12, <1>c, NewTouches DEF Begun, Types, Typed, TasksTyped, Task
  <2>2. /\ OthersUntouched(c) /\ baseTasks' = baseTasks /\ call' = call
        /\ \A u \in User : call[u] # Idle => call[u].conn # c
    BY <1>12, NewTouches DEF Types, Typed, TypeOK
  <2>3. Send(c) \notin TasksOf(ioTasks') /\ Dst(c) \notin TasksOf(ioTasks')
    BY <1>12, <2>1, NewTouches DEF Gains, Send, Dst, Task
  <2>4. ~Before(ioTasks', Dst(c), Send(c))
    BY <2>3 DEF Before, TasksOf
  <2>5. state_'[c] = "kConnected" => p'.index[c] # kNew
    BY <1>12, <2>1, NewTouches, Indices DEF EstablishesIt
  <2>6. Late(c)'
    BY <2>1, <2>2, <2>3, <2>4, <2>5 DEF Late, Fresh
  <2> QED
    BY <1>a, <2>2, <2>6
<1>13. ASSUME usage' = usage, NEW c \in Conn, removeConnectionInLoop(c)
       PROVE  AllLate'
  <2>1. /\ OthersUntouched(c) /\ Gains("connectDestroyed", c) /\ Rem(c) \in TasksOf(baseTasks)
        /\ UNCHANGED <<state_, p, call, server>>
    BY <1>13, RemoveTouches DEF removeConnectionInLoop, Rem
  <2>2. /\ Send(c) \in TasksOf(ioTasks') => Send(c) \in TasksOf(ioTasks)
        /\ Before(ioTasks', Dst(c), Send(c)) => Before(ioTasks, Dst(c), Send(c))
    BY <2>1 DEF Gains, Dst, Send, Task
  <2>3. Late(c)'
    BY <1>13, <1>c, <2>1, <2>2 DEF Late
  <2> QED
    BY <1>a, <2>1, <2>3
<1>14. ASSUME usage' = usage, NEW c \in Conn, peerCloses(c)
       PROVE  AllLate'
  BY <1>14, <1>h, PeerTouches DEF peerCloses
<1>15. ASSUME usage' = usage, NEW u \in User, NEW c \in Conn, release(u, c)
       PROVE  AllLate'
  BY <1>15, <1>h, ReleaseTouches DEF release
<1>16. ASSUME usage' = usage, NEW u \in User, NEW c \in Conn, NEW op \in usage.remote,
              callChecks(u, c, op)
       PROVE  AllLate'
  <2>1. /\ OthersUntouched(c) /\ UNCHANGED <<state_, p, ioTasks, baseTasks, server>>
        /\ Runnable(c, op, state_[c])
        /\ \A v \in User : call'[v] # Idle /\ v # u => call'[v] = call[v]
    BY <1>16, ChecksTouches DEF callChecks
  <2>2. usage.remote \subseteq {"send"} => p.index[c] # kNew
    <3> SUFFICES ASSUME usage.remote \subseteq {"send"}
                 PROVE  p.index[c] # kNew
      OBVIOUS
    <3>1. op = "send"
      OBVIOUS
    <3>2. state_[c] = "kConnected"
      BY <2>1, <3>1 DEF Runnable
    <3> QED
      BY <1>c, <3>2 DEF Late
  <2>3. Late(c)'
    BY <1>16, <1>c, <2>1, <2>2 DEF Late
  <2> QED
    BY <1>a, <2>1, <2>3
<1>17. ASSUME usage' = usage, NEW u \in User, callSets(u)
       PROVE  AllLate'
  <2>1. PICK c \in Conn : /\ OthersUntouched(c) /\ call[u].op \in usage.remote \ {"send"}
                          /\ state_'[c] = "kDisconnecting"
    BY <1>17, SetsTouches
  <2>2. Late(c)'
    BY <1>17, <2>1 DEF Late
  <2> QED
    BY <1>a, <2>1, <2>2
<1>18. ASSUME usage' = usage, NEW u \in User, callQueues(u)
       PROVE  AllLate'
  <2>1. PICK c \in Conn, op \in {"sendInLoop", "shutdownInLoop", "forceCloseInLoop"} :
          /\ OthersUntouched(c) /\ Gains(op, c) /\ server = "up" /\ call[u] # Idle /\ call[u].conn = c
          /\ \A v \in User : call'[v] # Idle => call[v] # Idle /\ call'[v].conn = call[v].conn
    BY <1>18, QueuesTouches
  <2>2. UNCHANGED <<state_, p, baseTasks, server>>
    BY <1>18 DEF callQueues
  <2>3. /\ Dst(c) \in TasksOf(ioTasks') => Dst(c) \in TasksOf(ioTasks)
        /\ Before(ioTasks', Dst(c), Send(c)) =>
             Before(ioTasks, Dst(c), Send(c)) \/ Dst(c) \in TasksOf(ioTasks)
    BY <2>1 DEF Gains, Dst, Send, Task
  <2>4. Late(c)'
    BY <1>18, <1>c, <2>1, <2>2, <2>3 DEF Late
  <2> QED
    BY <1>a, <2>1, <2>4
<1>19. ASSUME usage' = usage, NEW c \in Conn, stopConnection(c)
       PROVE  AllLate'
  <2>1. /\ OthersUntouched(c) /\ server = "stopping" /\ UNCHANGED <<baseTasks, call, server>>
        /\ \A u \in User : call[u] = Idle
    BY <1>19, StopTouches DEF stopConnection, Types, Typed, CallsTyped
  <2>2. CASE usage.sameLoop
    <3>1. ioTasks' = ioTasks /\ DestroysIt(c) /\ baseTasks = <<>> /\ ~Running'
      BY <1>19, <2>1, <2>2, StopTouches DEF Types, Typed, TasksTyped, Running
    <3>x. /\ Rem(c) \notin TasksOf(baseTasks')
          /\ state_'[c] # "kConnected"
          /\ state_[c] = "kDisconnected" => state_'[c] = "kDisconnected"
      BY <2>1, <3>1, EmptyTasks DEF DestroysIt
    <3>2. Late(c)'
      <4>1. Before(ioTasks', Dst(c), Send(c)) => Before(ioTasks, Dst(c), Send(c))
        BY <3>1
      <4>2. server' # "up" /\ \A u \in User : call'[u] = Idle
        BY <2>1
      <4> QED
        BY <1>c, <1>19, <3>1, <3>x, <4>1, <4>2 DEF Late
    <3> QED
      BY <1>a, <2>1, <3>2
  <2>3. CASE ~usage.sameLoop
    <3>1. Gains("connectDestroyed", c) /\ UNCHANGED <<state_, p>>
      BY <1>19, <2>3, StopTouches
    <3>2. /\ Send(c) \in TasksOf(ioTasks') => Send(c) \in TasksOf(ioTasks)
          /\ Before(ioTasks', Dst(c), Send(c)) => Before(ioTasks, Dst(c), Send(c))
      BY <3>1 DEF Gains, Dst, Send, Task
    <3>3. Late(c)'
      BY <1>19, <1>c, <2>1, <2>3, <3>1, <3>2 DEF Late, Running
    <3> QED
      BY <1>a, <2>1, <3>3
  <2> QED
    BY <2>2, <2>3
<1> QED
  BY <1>1, <1>2, <1>4, <1>5, <1>6, <1>7, <1>8, <1>9, <1>10, <1>11, <1>12, <1>13, <1>14,
     <1>15, <1>16, <1>17, <1>18, <1>19
  DEF Next, Loop, IoLoop, Users, StopServer

\* It holds in every reachable state.
LEMMA AlwaysLate == Spec => []AllLate
<1>1. Init => AllLate
  <2> SUFFICES ASSUME Init, NEW c \in Conn
               PROVE  Late(c)
    BY DEF AllLate
  <2>1. state_[c] = "kConnecting" /\ \A u \in User : call[u] = Idle
    BY DEF Init
  <2>2. /\ Rem(c) \notin TasksOf(baseTasks) /\ Dst(c) \notin TasksOf(ioTasks)
        /\ Send(c) \notin TasksOf(ioTasks) /\ ~Before(ioTasks, Dst(c), Send(c))
    BY EmptyTasks DEF Init
  <2> QED
    BY <2>1, <2>2 DEF Late
<1>2. AllLate /\ exited /\ [Next]_vars => AllLate'
  BY ExitedStays DEF vars, loopVars, AllLate, Late, Running
<1> QED
  BY <1>1, <1>2, LateStep, AlwaysBegun, ExitedStays, TypesHold, PTL DEF Spec

\* Every step keeps it.
LEMMA KeptStep == Types /\ AllBegun /\ AllLate /\ AllKept /\ [Next]_vars => AllKept'
<1> SUFFICES ASSUME Types, AllBegun, AllLate, AllKept, [Next]_vars
             PROVE  AllKept'
  OBVIOUS
<1>u. ASSUME NEW d \in Conn, Untouched(d), server = "gone" => server' = "gone", usage' = usage
      PROVE  Kept(d)'
  <2>1. Anchored(d) => Anchored(d)'
    BY <1>u DEF Anchored, Untouched, SameTasks, Rem, Dst
  <2> QED
    BY <1>u, <2>1 DEF AllKept, Kept, Untouched
<1>a. ASSUME NEW c \in Conn, OthersUntouched(c), Kept(c)'
      PROVE  AllKept'
  BY <1>a, <1>u DEF AllKept, OthersUntouched
<1>b. ASSUME UNCHANGED <<made, state_, connections_, baseTasks, ioTasks, p, peer, wrShut, held,
                         call, ups, downs>>, server = "gone" => server' = "gone", usage' = usage
      PROVE  AllKept'
  BY <1>b, <1>u, Untouching DEF AllKept
<1>c. \A c \in Conn : Begun(c) /\ Late(c) /\ Kept(c)
  BY DEF AllBegun, AllLate, AllKept
\* The channel leaves the poller, or has an anchor afterwards.
<1>e. ASSUME NEW c \in Conn, OthersUntouched(c), p'.index[c] = kNew \/ Anchored(c)'
      PROVE  AllKept'
  BY <1>a, <1>e DEF Kept
\* The channel was in the poller already, and no anchor goes.
<1>f. ASSUME NEW c \in Conn, OthersUntouched(c), p.index[c] = kNew => p'.index[c] = kNew,
             UNCHANGED <<connections_, baseTasks>>,
             Dst(c) \in TasksOf(ioTasks) => Dst(c) \in TasksOf(ioTasks')
      PROVE  AllKept'
  <2>1. Kept(c)'
    BY <1>c, <1>f DEF Kept, Anchored, OthersUntouched
  <2> QED
    BY <1>a, <1>f, <2>1
<1>g. ASSUME NEW c \in Conn, NEW op \in Kinds \ {"connectDestroyed"},
             Gains(op, c) \/ Loses(op, c, ioTasks') \/ ioTasks' = ioTasks
      PROVE  Dst(c) \in TasksOf(ioTasks) => Dst(c) \in TasksOf(ioTasks')
  BY <1>g, Distinct DEF Gains, Loses
<1>1. CASE usage' = usage /\ (poll \/ swapFunctors \/ loopPolls \/ stopServer \/ quitLoops)
  BY <1>b, <1>1 DEF poll, swapFunctors, loopPolls, stopServer, quitLoops
<1>2. CASE UNCHANGED vars
  BY <1>b, <1>2 DEF vars
<1>4. CASE usage' = usage /\ loopEnds
  <2>1. server' = "gone" /\ ~usage.sameLoop
    BY <1>4 DEF loopEnds, Types, Typed, Places
  <2> QED
    BY <1>4, <2>1 DEF AllKept, Kept
<1>5. ASSUME usage' = usage, NEW c \in Conn, handleEventStays(c)
      PROVE  AllKept'
  <2>1. /\ OthersUntouched(c) /\ p.index[c] # kNew /\ UNCHANGED <<connections_, baseTasks>>
        /\ ioTasks' = ioTasks \/ Gains("forceCloseInLoop", c)
    BY <1>5, StaysTouches, Indices DEF handleEventStays
  <2> QED
    BY <1>f, <1>g, <2>1 DEF Kinds
<1>6. ASSUME usage' = usage, NEW c \in Conn, handleEventCloses(c)
      PROVE  AllKept'
  <2>1. p'.index[c] = kNew \/ Rem(c) \in TasksOf(baseTasks')
    BY <1>6, ClosesTouches DEF ClosesIt, Rem
  <2> QED
    BY <1>6, <1>e, <2>1, ClosesTouches DEF Anchored
<1>7. ASSUME usage' = usage, NEW c \in Conn, runConnectEstablished(c)
      PROVE  AllKept'
  <2>1. c \in connections_ \/ Dst(c) \in TasksOf(ioTasks)
    BY <1>7, <1>c, EstablishTouches DEF Begun, Est
  <2>2. connections_' = connections_
    BY <1>7 DEF runConnectEstablished
  <2>3. Dst(c) \in TasksOf(ioTasks) => Dst(c) \in TasksOf(ioTasks')
    <3>1. PICK tasks : /\ Loses("connectEstablished", c, tasks)
                       /\ TasksOf(tasks) \subseteq TasksOf(ioTasks')
      BY <1>7, EstablishTouches
    <3> QED
      BY <3>1, Distinct DEF Loses, Est
  <2> QED
    BY <1>7, <1>e, <2>1, <2>2, <2>3, EstablishTouches DEF Anchored
<1>8. ASSUME usage' = usage, NEW c \in Conn, runConnectDestroyed(c)
      PROVE  AllKept'
  BY <1>8, <1>e, DestroyedTouches DEF DestroysIt
<1>9. ASSUME usage' = usage, NEW c \in Conn, runSendInLoop(c)
      PROVE  AllKept'
  <2>1. /\ OthersUntouched(c) /\ UNCHANGED <<connections_, baseTasks>>
        /\ Dst(c) \in TasksOf(ioTasks) => Dst(c) \in TasksOf(ioTasks')
        /\ Send(c) \in TasksOf(ioTasks) /\ "send" \in usage.remote
    BY <1>9, <1>g, SendTouches DEF runSendInLoop, Send, Kinds, Types, Typed, TasksTyped, Task
  <2>2. Running
    BY <1>9, StartEffect DEF runSendInLoop, Types, Typed, Places, Running
  <2>3. CASE SendsOrSets(usage)
    <3>1. p.index[c] = kNew => state_[c] = "kDisconnected"
      BY <1>c, <2>1, <2>2, <2>3 DEF Late, SendsOrSets
    <3>2. p.index[c] = kNew => p'.index[c] = kNew
      BY <1>9, <3>1, SendTouches
    <3> QED
      BY <1>f, <2>1, <3>2
  <2>4. CASE ~SendsOrSets(usage)
    BY <1>9, <2>4 DEF AllKept, Kept
  <2> QED
    BY <2>3, <2>4
<1>10. ASSUME usage' = usage, NEW c \in Conn, runShutdownInLoop(c)
       PROVE  AllKept'
  BY <1>10, <1>f, <1>g, ShutdownTouches DEF runShutdownInLoop, Kinds
<1>11. ASSUME usage' = usage, NEW c \in Conn, forceCloseInLoop(c)
       PROVE  AllKept'
  <2>1. OthersUntouched(c) /\ (Dst(c) \in TasksOf(ioTasks) => Dst(c) \in TasksOf(ioTasks'))
    BY <1>11, <1>g, ForceTouches DEF Kinds
  <2>2. CASE ClosesIt(c)
    <3>1. p'.index[c] = kNew \/ Rem(c) \in TasksOf(baseTasks')
      BY <2>2 DEF ClosesIt, Rem
    <3> QED
      BY <1>e, <2>1, <3>1 DEF Anchored
  <2>3. CASE UNCHANGED <<state_, downs, connections_, p, baseTasks>>
    BY <1>f, <2>1, <2>3
  <2> QED
    BY <1>11, <2>2, <2>3, ForceTouches
<1>12. ASSUME usage' = usage, NEW c \in Conn, newConnection(c)
       PROVE  AllKept'
  BY <1>12, <1>e, NewTouches DEF Anchored
<1>13. ASSUME usage' = usage, NEW c \in Conn, removeConnectionInLoop(c)
       PROVE  AllKept'
  BY <1>13, <1>e, RemoveTouches DEF Anchored, Gains, Dst
<1>14. ASSUME usage' = usage, NEW c \in Conn, peerCloses(c)
       PROVE  AllKept'
  BY <1>14, <1>f, PeerTouches DEF peerCloses
<1>15. ASSUME usage' = usage, NEW u \in User, NEW c \in Conn, release(u, c)
       PROVE  AllKept'
  BY <1>15, <1>f, ReleaseTouches DEF release
<1>16. ASSUME usage' = usage, NEW u \in User, NEW c \in Conn, NEW op \in usage.remote,
              callChecks(u, c, op)
       PROVE  AllKept'
  BY <1>16, <1>f, ChecksTouches DEF callChecks
<1>17. ASSUME usage' = usage, NEW u \in User, callSets(u)
       PROVE  AllKept'
  BY <1>17, <1>f, SetsTouches DEF callSets
<1>18. ASSUME usage' = usage, NEW u \in User, callQueues(u)
       PROVE  AllKept'
  BY <1>18, <1>f, <1>g, QueuesTouches DEF callQueues, Kinds
<1>19. ASSUME usage' = usage, NEW c \in Conn, stopConnection(c)
       PROVE  AllKept'
  <2>1. p'.index[c] = kNew \/ Dst(c) \in TasksOf(ioTasks')
    BY <1>19, StopTouches DEF DestroysIt, Gains, Dst
  <2> QED
    BY <1>19, <1>e, <2>1, StopTouches DEF Anchored
<1> QED
  BY <1>1, <1>2, <1>4, <1>5, <1>6, <1>7, <1>8, <1>9, <1>10, <1>11, <1>12, <1>13, <1>14,
     <1>15, <1>16, <1>17, <1>18, <1>19
  DEF Next, Loop, IoLoop, Users, StopServer

\* It holds in every reachable state.
LEMMA AlwaysKept == Spec => []AllKept
<1>1. Init => AllKept
  BY FirstPoller DEF AllKept, Kept
<1>2. AllKept /\ exited /\ [Next]_vars => AllKept'
  BY ExitedStays DEF vars, loopVars, AllKept, Kept, Anchored
<1> QED
  BY <1>1, <1>2, KeptStep, AlwaysBegun, AlwaysLate, ExitedStays, TypesHold, PTL DEF Spec

\* Where users' threads either only send or do not send, no send asks for anything
\* when its connection is gone or its channel has left the poller,
LEMMA NoLateSend ==
  ASSUME Types, AllLate, AllKept, Ended, SendsOrSets(usage), NEW c \in Conn, usage' = usage,
         runSendInLoop(c)
  PROVE  /\ p.index[c] = kNew => p'.index[c] = kNew
         /\ Destroyed(c) => p' = p
<1>1. Send(c) \in TasksOf(ioTasks) /\ "send" \in usage.remote
  BY SendTouches DEF Send, Types, Typed, TasksTyped, Task
<1>2. Running /\ server # "gone"
  BY StartEffect DEF runSendInLoop, Types, Typed, TypeOK, Places, Running, Starts, Ended
<1>3. p.index[c] = kNew => state_[c] = "kDisconnected"
  BY <1>1, <1>2 DEF AllLate, Late, SendsOrSets
<1>4. state_[c] = "kDisconnected" => p' = p
  BY DEF runSendInLoop, sendInLoop
<1>5. Destroyed(c) => ~Anchored(c)
  BY DEF Destroyed, Owns, Anchored, Rem, Dst, Task
<1>6. Destroyed(c) => p.index[c] = kNew
  BY <1>2, <1>5 DEF AllKept, Kept
<1> QED
  BY <1>3, <1>4, <1>6

\* so that the process does not exit.
LEMMA AlwaysSound ==
  ASSUME \A x \in Usages : SendsOrSets(x)
  PROVE  Spec => []Types
<1>1. Types /\ AllLate /\ AllKept /\ Ended => ~LateSend
  <2> SUFFICES ASSUME Types, AllLate, AllKept, Ended, LateSend
               PROVE  FALSE
    OBVIOUS
  <2>1. SendsOrSets(usage)
    BY DEF Types, Typed, TypeOK
  <2> QED
    BY <2>1, NoLateSend DEF LateSend
<1>2. Init => Types
  BY FirstTypes
<1> QED
  BY <1>1, <1>2, TypesStep, AlwaysLate, AlwaysKept, AlwaysEnded, PTL DEF Spec

\* No connection is destroyed while its channel is in the poller or in the active
\* list, when users' threads either only send or do not send: ~TcpServer included,
\* for as long as the loop exists.
THEOREM NoChannelDangles ==
  ASSUME \A x \in Usages : SendsOrSets(x)
  PROVE  Spec => []NoDanglingChannel
<1>1. Types /\ AllKept => NoDanglingChannel
  <2> SUFFICES ASSUME Types, AllKept, server # "gone" \/ usage.sameLoop,
                      NEW c \in Conn, Destroyed(c)
               PROVE  p.index[c] = Poller!kNew /\ p.ptr[c] # c /\ c \notin active
    BY DEF NoDanglingChannel
  <2>1. SendsOrSets(usage)
    BY DEF Types, Typed, TypeOK
  <2>2. ~Anchored(c)
    BY DEF Destroyed, Owns, Anchored, Rem, Dst, Task
  <2>3. p.index[c] = kNew
    BY <2>1, <2>2 DEF AllKept, Kept
  <2>4. p.ptr[c] # c /\ c \notin active
    BY <2>3, GoodPoller, Indices DEF Types, Typed, PollerTyped
  <2> QED
    BY <2>3, <2>4 DEF kNew
<1> QED
  BY <1>1, AlwaysSound, AlwaysKept, PTL

-----------------------------------------------------------------------------
(* Connections that go down *)

\* Nobody force-closes; or only the loop's thread closes connections, and no
\* connectDestroyed is queued by ~TcpServer.
ClosesOnce(x) ==
  \/ "forceClose" \notin x.remote \cup x.local
  \/ x.remote \subseteq {"send"} /\ (x.sameLoop \/ ~x.stops)

\* Without forceClose a connection goes down because the other end is gone, or
\* the server.  If its channel is added again afterwards, by a send that comes late,
\* the channel waits for room to write, which no hang-up interrupts: the socket is
\* not shut down while the channel does so.
GoesDownByPeer(c) ==
  downs[c] > 0 =>
    /\ downs[c] = 1 /\ state_[c] \in {"kDisconnecting", "kDisconnected"}
    /\ peer[c] # "open" \/ (state_[c] = "kDisconnected" /\ server # "up")
    /\ p.events[c] \subseteq {"write"}
    /\ p.index[c] = kAdded => p.events[c] = {"write"} /\ peer[c] = "closed" /\ c \notin wrShut

\* When users' threads only send, a connection that went down stays
\* kDisconnected, and its channel out of the interest list.
GoesDownInLoop(c) ==
  /\ downs[c] > 0 => downs[c] = 1 /\ state_[c] = "kDisconnected"
  /\ server = "up" => (p.index[c] = kAdded <=> state_[c] \in {"kConnected", "kDisconnecting"})

Down(c) ==
  /\ state_[c] = "kConnected" => downs[c] = 0
  /\ server = "up" /\ Dst(c) \in TasksOf(ioTasks) => state_[c] \notin {"kConnecting", "kConnected"}
  /\ "forceClose" \notin usage.remote \cup usage.local => GoesDownByPeer(c)
  /\ usage.remote \subseteq {"send"} /\ (usage.sameLoop \/ ~usage.stops) => GoesDownInLoop(c)

AllDown == \A c \in Conn : Down(c)

\* Every step keeps it.
LEMMA DownStep == Types /\ AllBegun /\ AllListed /\ AllLate /\ AllDown /\ [Next]_vars => AllDown'
<1> SUFFICES ASSUME Types, AllBegun, AllListed, AllLate, AllDown, [Next]_vars
             PROVE  AllDown'
  OBVIOUS
<1>u. ASSUME NEW d \in Conn, Untouched(d), server' = "up" => server = "up", usage' = usage
      PROVE  Down(d)'
  <2>1. Down(d) /\ (Dst(d) \in TasksOf(ioTasks') => Dst(d) \in TasksOf(ioTasks))
    BY <1>u DEF AllDown, Untouched, SameTasks, Dst
  <2>2. GoesDownByPeer(d) => GoesDownByPeer(d)'
    BY <1>u DEF GoesDownByPeer, Untouched
  <2>3. GoesDownInLoop(d) => GoesDownInLoop(d)'
    BY <1>u DEF GoesDownInLoop, Untouched
  <2> QED
    BY <1>u, <2>1, <2>2, <2>3 DEF Down, Untouched
<1>a. ASSUME NEW c \in Conn, OthersUntouched(c), Down(c)'
      PROVE  AllDown'
  BY <1>a, <1>u DEF AllDown, OthersUntouched
<1>b. ASSUME UNCHANGED <<made, state_, connections_, baseTasks, ioTasks, p, peer, wrShut, held,
                         call, ups, downs>>, server' = "up" => server = "up", usage' = usage
      PROVE  AllDown'
  BY <1>b, <1>u, Untouching DEF AllDown
<1>c. \A c \in Conn : Begun(c) /\ Listed(c) /\ Late(c) /\ Down(c) /\ downs[c] \in 0..2
  BY DEF AllBegun, AllListed, AllLate, AllDown, Types, Typed, TypeOK
\* A step that only takes tasks from the loop, or queues one that destroys nothing.
<1>f. ASSUME NEW c \in Conn, OthersUntouched(c), UNCHANGED <<state_, p, peer, downs>>,
             Dst(c) \in TasksOf(ioTasks') => Dst(c) \in TasksOf(ioTasks),
             p.events[c] = {"write"} /\ c \in wrShut' => c \in wrShut
      PROVE  AllDown'
  <2>1. GoesDownByPeer(c) => GoesDownByPeer(c)'
    BY <1>f DEF GoesDownByPeer, OthersUntouched
  <2>2. GoesDownInLoop(c) => GoesDownInLoop(c)'
    BY <1>f DEF GoesDownInLoop, OthersUntouched
  <2>3. Down(c)'
    BY <1>c, <1>f, <2>1, <2>2 DEF Down, OthersUntouched
  <2> QED
    BY <1>a, <1>f, <2>3
\* The connection comes up.
<1>g. ASSUME NEW c \in Conn, OthersUntouched(c), state_[c] = "kConnecting", EstablishesIt(c),
             downs' = downs, Dst(c) \notin TasksOf(ioTasks') \/ server # "up"
      PROVE  AllDown'
  <2>1. downs'[c] = 0
    BY <1>c, <1>g DEF Begun, Fresh
  <2>2. GoesDownByPeer(c)' /\ GoesDownInLoop(c)'
    BY <1>g, <2>1 DEF GoesDownByPeer, GoesDownInLoop, EstablishesIt
  <2>3. Down(c)'
    BY <1>g, <2>1, <2>2 DEF Down, OthersUntouched
  <2> QED
    BY <1>a, <1>g, <2>3
<1>t. ASSUME NEW c \in Conn, NEW op \in Kinds \ {"connectDestroyed"},
             Gains(op, c) \/ Loses(op, c, ioTasks') \/ ioTasks' = ioTasks
      PROVE  Dst(c) \in TasksOf(ioTasks') => Dst(c) \in TasksOf(ioTasks)
  BY <1>t, Distinct DEF Gains, Loses
\* Where GoesDownInLoop is claimed, the I/O loop stands still once the server stops.
<1>s. ASSUME usage.remote \subseteq {"send"}, usage.sameLoop \/ ~usage.stops,
             active # {} \/ batch # 0
      PROVE  server = "up"
  BY <1>s DEF Types, Typed, Places
<1>1. CASE usage' = usage /\ (poll \/ swapFunctors \/ loopPolls \/ stopServer \/ quitLoops)
  BY <1>b, <1>1 DEF poll, swapFunctors, loopPolls, stopServer, quitLoops
<1>2. CASE UNCHANGED vars
  BY <1>b, <1>2 DEF vars
<1>4. CASE usage' = usage /\ loopEnds
  <2>1. ASSUME NEW c \in Conn
        PROVE  Down(c)'
    <3>1. /\ UNCHANGED <<state_, p, peer, downs, wrShut, usage>>
          /\ server # "up" /\ server' # "up"
      BY <1>4 DEF loopEnds
    <3>2. GoesDownByPeer(c) => GoesDownByPeer(c)'
      BY <3>1 DEF GoesDownByPeer
    <3>3. GoesDownInLoop(c) => GoesDownInLoop(c)'
      BY <3>1 DEF GoesDownInLoop
    <3> QED
      BY <1>c, <3>1, <3>2, <3>3 DEF Down
  <2> QED
    BY <2>1 DEF AllDown
<1>5. ASSUME usage' = usage, NEW c \in Conn, handleEventStays(c)
      PROVE  AllDown'
  <2>1. /\ p.index[c] = kAdded /\ p'.index[c] = kAdded /\ OthersUntouched(c)
        /\ UNCHANGED <<downs, peer, server>> /\ active # {} /\ server' = server
        /\ Dst(c) \in TasksOf(ioTasks') => Dst(c) \in TasksOf(ioTasks)
    BY <1>5, <1>t, StaysTouches DEF handleEventStays, Handles, Kinds
  <2>2. /\ \/ p'.events[c] = p.events[c]
           \/ state_[c] = "kConnected"
        /\ \/ state_'[c] = state_[c]
           \/ state_[c] \in {"kConnected", "kDisconnecting"} /\ state_'[c] = "kDisconnecting"
        /\ c \in wrShut' => c \in wrShut \/ state_[c] = "kConnected"
    BY <1>5, StaysTouches
  <2>3. state_[c] = "kConnected" => downs[c] = 0
    BY <1>c DEF Down
  <2>4. GoesDownByPeer(c) => GoesDownByPeer(c)'
    BY <2>1, <2>2, <2>3 DEF GoesDownByPeer
  <2>5. usage.remote \subseteq {"send"} /\ (usage.sameLoop \/ ~usage.stops) => GoesDownInLoop(c)'
    <3> SUFFICES ASSUME usage.remote \subseteq {"send"}, usage.sameLoop \/ ~usage.stops
                 PROVE  GoesDownInLoop(c)'
      OBVIOUS
    <3>1. GoesDownInLoop(c) /\ server = "up"
      BY <1>c, <1>s, <2>1 DEF Down
    <3> QED
      BY <2>1, <2>2, <3>1 DEF GoesDownInLoop
  <2>6. Down(c)'
    BY <1>5, <1>c, <2>1, <2>2, <2>3, <2>4, <2>5 DEF Down
  <2> QED
    BY <1>a, <2>1, <2>6
<1>6. ASSUME usage' = usage, NEW c \in Conn, handleEventCloses(c)
      PROVE  AllDown'
  <2>1. /\ p.index[c] = kAdded /\ OthersUntouched(c) /\ active # {} /\ peer' = peer
        /\ ClosesIt(c) /\ p'.index[c] # kAdded
        /\ IF "read" \in p.events[c] THEN peer[c] # "open" ELSE HungUp(c)
    BY <1>6, ClosesTouches, Indices DEF handleEventCloses, Handles, ClosesIt
  <2>2. /\ state_'[c] = "kDisconnected" /\ p'.events[c] = {} /\ peer'[c] # "open"
        /\ downs[c] = 0 => downs'[c] = 1
    BY <2>1 DEF ClosesIt, HungUp, Count
  <2>3. GoesDownByPeer(c) => GoesDownByPeer(c)'
    <3> SUFFICES ASSUME GoesDownByPeer(c)
                 PROVE  GoesDownByPeer(c)'
      OBVIOUS
    <3>1. ~(downs[c] > 0)
      BY <2>1 DEF GoesDownByPeer, HungUp
    <3>2. downs'[c] = 1
      BY <1>c, <2>2, <3>1
    <3> QED
      BY <2>1, <2>2, <3>2 DEF GoesDownByPeer
  <2>4. usage.remote \subseteq {"send"} /\ (usage.sameLoop \/ ~usage.stops) => GoesDownInLoop(c)'
    <3> SUFFICES ASSUME usage.remote \subseteq {"send"}, usage.sameLoop \/ ~usage.stops
                 PROVE  GoesDownInLoop(c)'
      OBVIOUS
    <3>1. GoesDownInLoop(c) /\ server = "up"
      BY <1>c, <1>s, <2>1 DEF Down
    <3>2. ~(downs[c] > 0)
      BY <2>1, <3>1 DEF GoesDownInLoop
    <3>3. downs'[c] = 1
      BY <1>c, <2>2, <3>2
    <3> QED
      BY <2>1, <2>2, <3>3 DEF GoesDownInLoop
  <2>5. Down(c)'
    BY <1>6, <1>c, <2>2, <2>3, <2>4 DEF Down
  <2> QED
    BY <1>a, <2>1, <2>5
<1>7. ASSUME usage' = usage, NEW c \in Conn, runConnectEstablished(c)
      PROVE  AllDown'
  <2>1. state_[c] = "kConnecting"
    BY <1>7, <1>c, EstablishTouches DEF Begun, Est
  <2>2. Dst(c) \in TasksOf(ioTasks') => Dst(c) \in TasksOf(ioTasks)
    <3>1. PICK tasks :
            /\ Loses("connectEstablished", c, tasks)
            /\ TasksOf(ioTasks') \subseteq TasksOf(tasks) \cup {Task("forceCloseInLoop", c)}
      BY <1>7, EstablishTouches
    <3> QED
      BY <3>1, Distinct DEF Loses
  <2>3. server = "up" => Dst(c) \notin TasksOf(ioTasks)
    BY <1>c, <2>1 DEF Down
  <2> QED
    BY <1>7, <1>g, <2>1, <2>2, <2>3, EstablishTouches DEF runConnectEstablished
<1>8. ASSUME usage' = usage, NEW c \in Conn, runConnectDestroyed(c)
      PROVE  AllDown'
  <2>1. /\ OthersUntouched(c) /\ DestroysIt(c) /\ Dst(c) \in TasksOf(ioTasks) /\ batch # 0
        /\ UNCHANGED <<peer, server, wrShut>> /\ ~usage.sameLoop
        /\ Loses("connectDestroyed", c, ioTasks')
    BY <1>8, DestroyedTouches DEF Dst, runConnectDestroyed, Starts
  <2>2. /\ p'.index[c] # kAdded
        /\ state_'[c] \notin {"kConnected"}
        /\ Dst(c) \in TasksOf(ioTasks') => Dst(c) \in TasksOf(ioTasks)
        /\ state_[c] = "kConnecting" => state_'[c] = "kConnecting"
    BY <2>1, Indices DEF DestroysIt, Loses
  <2>3. state_[c] = "kConnected" => downs[c] = 0 /\ server # "up"
    BY <1>c, <2>1 DEF Down
  <2>4. state_[c] = "kConnected" => downs'[c] = 1 /\ state_'[c] = "kDisconnected" /\ p'.events[c] = {}
    BY <2>1, <2>3 DEF DestroysIt, Count
  <2>5. state_[c] # "kConnected" => downs'[c] = downs[c] /\ state_'[c] = state_[c] /\ p'.events[c] = p.events[c]
    BY <2>1 DEF DestroysIt
  <2>6. GoesDownByPeer(c) => GoesDownByPeer(c)'
    <3>1. CASE state_[c] = "kConnected"
      BY <2>1, <2>2, <2>3, <2>4, <3>1 DEF GoesDownByPeer
    <3>2. CASE state_[c] # "kConnected"
      BY <2>1, <2>2, <2>5, <3>2 DEF GoesDownByPeer
    <3> QED
      BY <3>1, <3>2
  <2>7. usage.remote \subseteq {"send"} /\ (usage.sameLoop \/ ~usage.stops) => GoesDownInLoop(c)'
    <3> SUFFICES ASSUME usage.remote \subseteq {"send"}, usage.sameLoop \/ ~usage.stops
                 PROVE  GoesDownInLoop(c)'
      OBVIOUS
    <3>1. GoesDownInLoop(c) /\ server = "up"
      BY <1>c, <1>s, <2>1 DEF Down
    <3>2. state_[c] = "kDisconnected"
      BY <1>c, <2>1, <3>1 DEF Late
    <3> QED
      BY <2>2, <2>5, <3>1, <3>2 DEF GoesDownInLoop
  <2>8. server' = "up" /\ Dst(c) \in TasksOf(ioTasks') => state_'[c] \notin {"kConnecting", "kConnected"}
    BY <1>c, <2>1, <2>2, <2>5 DEF Down
  <2>9. Down(c)'
    BY <1>8, <1>c, <2>2, <2>6, <2>7, <2>8 DEF Down
  <2> QED
    BY <1>a, <2>1, <2>9
<1>9. ASSUME usage' = usage, NEW c \in Conn, runSendInLoop(c)
      PROVE  AllDown'
  <2>1. /\ OthersUntouched(c) /\ UNCHANGED <<state_, downs, peer, wrShut, server>> /\ batch # 0
        /\ Dst(c) \in TasksOf(ioTasks') => Dst(c) \in TasksOf(ioTasks)
        /\ state_[c] # "kConnecting"
    BY <1>9, <1>c, <1>t, SendTouches DEF runSendInLoop, Starts, Kinds, Begun, Fresh
  <2>2. \/ p'.index[c] = p.index[c] /\ p'.events[c] = p.events[c]
        \/ /\ state_[c] # "kDisconnected" /\ peer[c] # "reset" /\ c \notin wrShut
           /\ p'.index[c] = kAdded /\ p'.events[c] = p.events[c] \cup {"write"}
    BY <1>9, SendTouches
  <2>3. state_[c] \in States /\ peer[c] \in {"open", "closed", "reset"}
    BY DEF Types, Typed, TypeOK
  <2>4. GoesDownByPeer(c) => GoesDownByPeer(c)'
    <3>1. CASE p'.index[c] = p.index[c] /\ p'.events[c] = p.events[c]
      BY <2>1, <3>1 DEF GoesDownByPeer
    <3>2. CASE /\ state_[c] # "kDisconnected" /\ peer[c] # "reset" /\ c \notin wrShut
               /\ p'.index[c] = kAdded /\ p'.events[c] = p.events[c] \cup {"write"}
      <4> SUFFICES ASSUME GoesDownByPeer(c), downs'[c] > 0
                   PROVE  GoesDownByPeer(c)'
        BY DEF GoesDownByPeer
      <4>1. /\ downs[c] = 1 /\ state_[c] \in {"kDisconnecting", "kDisconnected"}
            /\ peer[c] # "open" /\ p.events[c] \subseteq {"write"}
        BY <2>1, <3>2 DEF GoesDownByPeer
      <4>2. peer[c] = "closed" /\ p'.events[c] = {"write"}
        BY <2>3, <3>2, <4>1
      <4> QED
        BY <2>1, <3>2, <4>1, <4>2 DEF GoesDownByPeer
    <3> QED
      BY <2>2, <3>1, <3>2
  <2>5. usage.remote \subseteq {"send"} /\ (usage.sameLoop \/ ~usage.stops) => GoesDownInLoop(c)'
    <3> SUFFICES ASSUME usage.remote \subseteq {"send"}, usage.sameLoop \/ ~usage.stops
                 PROVE  GoesDownInLoop(c)'
      OBVIOUS
    <3>1. GoesDownInLoop(c) /\ server = "up"
      BY <1>c, <1>s, <2>1 DEF Down
    <3> QED
      BY <2>1, <2>2, <2>3, <3>1 DEF GoesDownInLoop, States
  <2>6. Down(c)'
    BY <1>9, <1>c, <2>1, <2>4, <2>5 DEF Down
  <2> QED
    BY <1>a, <2>1, <2>6
<1>10. ASSUME usage' = usage, NEW c \in Conn, runShutdownInLoop(c)
       PROVE  AllDown'
  <2>1. /\ OthersUntouched(c) /\ UNCHANGED <<state_, downs, peer, p>>
        /\ Dst(c) \in TasksOf(ioTasks') => Dst(c) \in TasksOf(ioTasks)
        /\ p.events[c] = {"write"} /\ c \in wrShut' => c \in wrShut
    BY <1>10, <1>t, ShutdownTouches DEF runShutdownInLoop, Kinds
  <2> QED
    BY <1>f, <2>1
<1>11. ASSUME usage' = usage, NEW c \in Conn, forceCloseInLoop(c)
       PROVE  AllDown'
  <2>1. /\ OthersUntouched(c) /\ "forceClose" \in usage.remote \cup usage.local /\ batch # 0
        /\ Dst(c) \in TasksOf(ioTasks') => Dst(c) \in TasksOf(ioTasks)
        /\ UNCHANGED <<peer, wrShut>>
    <3>1. /\ OthersUntouched(c) /\ ForceTask(c) \in TasksOf(ioTasks)
          /\ Loses("forceCloseInLoop", c, ioTasks')
      BY <1>11, ForceTouches DEF ForceTask
    <3>2. "forceClose" \in usage.remote \cup usage.local
      BY <3>1 DEF Types, Typed, TasksTyped, ForceTask, Task
    <3>3. Dst(c) \in TasksOf(ioTasks') => Dst(c) \in TasksOf(ioTasks)
      BY <1>t, <3>1 DEF Kinds
    <3>4. batch # 0 /\ UNCHANGED <<peer, wrShut>>
      BY <1>11 DEF forceCloseInLoop, Starts, Types, Typed, TypeOK
    <3> QED
      BY <3>1, <3>2, <3>3, <3>4
  <2>2. CASE state_[c] \in {"kConnected", "kDisconnecting"} /\ ClosesIt(c)
    <3>1. usage.remote \subseteq {"send"} /\ (usage.sameLoop \/ ~usage.stops) => GoesDownInLoop(c)'
      <4> SUFFICES ASSUME usage.remote \subseteq {"send"}, usage.sameLoop \/ ~usage.stops
                   PROVE  GoesDownInLoop(c)'
        OBVIOUS
      <4>1. GoesDownInLoop(c) /\ server = "up"
        BY <1>c, <1>s, <2>1 DEF Down
      <4>2. ~(downs[c] > 0) /\ p.index[c] = kAdded
        BY <2>2, <4>1 DEF GoesDownInLoop
      <4>3. downs[c] = 0
        BY <1>c, <4>2
      <4>4. downs'[c] = 1 /\ state_'[c] = "kDisconnected" /\ p'.index[c] # kAdded
        BY <2>2, <4>2, <4>3, Indices DEF ClosesIt, Count
      <4> QED
        BY <4>4 DEF GoesDownInLoop
    <3>2. Down(c)'
      BY <1>11, <2>1, <2>2, <3>1 DEF Down, ClosesIt
    <3> QED
      BY <1>a, <2>1, <3>2
  <2>3. CASE UNCHANGED <<state_, downs, connections_, p, baseTasks>>
    BY <1>f, <2>1, <2>3
  <2> QED
    BY <1>11, <2>2, <2>3, ForceTouches
<1>12. ASSUME usage' = usage, NEW c \in Conn, newConnection(c)
       PROVE  AllDown'
  <2>1. state_[c] = "kConnecting" /\ Dst(c) \notin TasksOf(ioTasks)
    BY <1>12, <1>c, NewTouches DEF Begun, Types, Typed, TasksTyped, Dst, Task
  <2>2. CASE usage.sameLoop
    <3>1. Dst(c) \notin TasksOf(ioTasks')
      BY <1>12, <1>t, <2>1, <2>2, NewTouches DEF Kinds
    <3> QED
      BY <1>12, <1>g, <2>1, <2>2, <3>1, NewTouches
  <2>3. CASE ~usage.sameLoop
    <3>1. Dst(c) \in TasksOf(ioTasks') => Dst(c) \in TasksOf(ioTasks)
      BY <1>12, <1>t, <2>3, NewTouches DEF Kinds
    <3> QED
      BY <1>12, <1>f, <2>3, <3>1, NewTouches
  <2> QED
    BY <2>2, <2>3
<1>13. ASSUME usage' = usage, NEW c \in Conn, removeConnectionInLoop(c)
       PROVE  AllDown'
  <2>1. /\ OthersUntouched(c) /\ UNCHANGED <<state_, p, peer, downs, wrShut, server>>
        /\ Rem(c) \in TasksOf(baseTasks)
    BY <1>13, RemoveTouches DEF removeConnectionInLoop, Rem
  <2>2. state_[c] \notin {"kConnecting", "kConnected"}
    BY <1>c, <2>1 DEF Begun, Fresh, Listed
  <2>3. GoesDownByPeer(c) => GoesDownByPeer(c)'
    BY <2>1 DEF GoesDownByPeer
  <2>4. GoesDownInLoop(c) => GoesDownInLoop(c)'
    BY <2>1 DEF GoesDownInLoop
  <2>5. Down(c)'
    BY <1>13, <1>c, <2>1, <2>2, <2>3, <2>4 DEF Down
  <2> QED
    BY <1>a, <2>1, <2>5
<1>14. ASSUME usage' = usage, NEW c \in Conn, peerCloses(c)
       PROVE  AllDown'
  <2>1. /\ OthersUntouched(c) /\ UNCHANGED <<state_, p, downs, wrShut, server, ioTasks>>
        /\ peer[c] = "open" /\ peer'[c] # "open"
    BY <1>14, PeerTouches DEF peerCloses
  <2>2. GoesDownByPeer(c) => GoesDownByPeer(c)'
    BY <2>1 DEF GoesDownByPeer
  <2>3. GoesDownInLoop(c) => GoesDownInLoop(c)'
    BY <2>1 DEF GoesDownInLoop
  <2>4. Down(c)'
    BY <1>14, <1>c, <2>1, <2>2, <2>3 DEF Down
  <2> QED
    BY <1>a, <2>1, <2>4
<1>15. ASSUME usage' = usage, NEW u \in User, NEW c \in Conn, release(u, c)
       PROVE  AllDown'
  BY <1>15, <1>f, ReleaseTouches DEF release
<1>16. ASSUME usage' = usage, NEW u \in User, NEW c \in Conn, NEW op \in usage.remote,
              callChecks(u, c, op)
       PROVE  AllDown'
  BY <1>16, <1>f, ChecksTouches DEF callChecks
<1>17. ASSUME usage' = usage, NEW u \in User, callSets(u)
       PROVE  AllDown'
  <2>1. PICK c \in Conn : /\ OthersUntouched(c) /\ call[u].op \in usage.remote \ {"send"}
                          /\ state_'[c] = "kDisconnecting" /\ server = "up"
    BY <1>17, SetsTouches
  <2>2. UNCHANGED <<p, downs, peer, wrShut, ioTasks, server>>
    BY <1>17 DEF callSets
  <2>3. GoesDownByPeer(c) => GoesDownByPeer(c)'
    BY <2>1, <2>2 DEF GoesDownByPeer
  <2>4. Down(c)'
    BY <1>17, <1>c, <2>1, <2>3 DEF Down
  <2> QED
    BY <1>a, <2>1, <2>4
<1>18. ASSUME usage' = usage, NEW u \in User, callQueues(u)
       PROVE  AllDown'
  BY <1>18, <1>f, <1>t, QueuesTouches DEF callQueues, Kinds
<1>19. ASSUME usage' = usage, NEW c \in Conn, stopConnection(c)
       PROVE  AllDown'
  <2>1. /\ OthersUntouched(c) /\ server = "stopping" /\ UNCHANGED <<peer, wrShut, server>>
    BY <1>19, StopTouches DEF stopConnection
  <2>2. CASE usage.sameLoop
    <3>1. DestroysIt(c) /\ p'.index[c] # kAdded
      BY <1>19, <2>2, StopTouches, Indices DEF DestroysIt
    <3>2. state_[c] = "kConnected" =>
            downs'[c] = 1 /\ state_'[c] = "kDisconnected" /\ p'.events[c] = {}
      BY <1>c, <3>1 DEF DestroysIt, Count, Down
    <3>3. state_[c] # "kConnected" =>
            downs'[c] = downs[c] /\ state_'[c] = state_[c] /\ p'.events[c] = p.events[c]
      BY <3>1 DEF DestroysIt
    <3>4. GoesDownByPeer(c) => GoesDownByPeer(c)'
      <4>1. CASE state_[c] = "kConnected"
        BY <2>1, <3>1, <3>2, <4>1 DEF GoesDownByPeer
      <4>2. CASE state_[c] # "kConnected"
        BY <2>1, <3>1, <3>3, <4>2 DEF GoesDownByPeer
      <4> QED
        BY <4>1, <4>2
    <3>5. GoesDownInLoop(c) => GoesDownInLoop(c)'
      <4>1. CASE state_[c] = "kConnected"
        BY <2>1, <3>2, <4>1 DEF GoesDownInLoop
      <4>2. CASE state_[c] # "kConnected"
        BY <2>1, <3>3, <4>2 DEF GoesDownInLoop
      <4> QED
        BY <4>1, <4>2
    <3>6. Down(c)'
      BY <1>19, <1>c, <2>1, <3>2, <3>3, <3>4, <3>5 DEF Down
    <3> QED
      BY <1>a, <2>1, <3>6
  <2>3. CASE ~usage.sameLoop
    <3>1. UNCHANGED <<state_, p, downs>> /\ usage.stops
      BY <1>19, <2>1, <2>3, StopTouches DEF Types, Typed, Places
    <3>2. GoesDownByPeer(c) => GoesDownByPeer(c)'
      BY <2>1, <3>1 DEF GoesDownByPeer
    <3>3. Down(c)'
      BY <1>19, <1>c, <2>1, <2>3, <3>1, <3>2 DEF Down
    <3> QED
      BY <1>a, <2>1, <3>3
  <2> QED
    BY <2>2, <2>3
<1> QED
  BY <1>1, <1>2, <1>4, <1>5, <1>6, <1>7, <1>8, <1>9, <1>10, <1>11, <1>12, <1>13, <1>14,
     <1>15, <1>16, <1>17, <1>18, <1>19
  DEF Next, Loop, IoLoop, Users, StopServer

\* It holds in every reachable state.
LEMMA AlwaysDown == Spec => []AllDown
<1>1. Init => AllDown
  <2> SUFFICES ASSUME Init, NEW c \in Conn
               PROVE  Down(c)
    BY DEF AllDown
  <2>1. p.index[c] # kAdded /\ state_[c] = "kConnecting" /\ downs[c] = 0
    BY FirstPoller, Indices DEF Init
  <2>2. Dst(c) \notin TasksOf(ioTasks)
    BY EmptyTasks DEF Init
  <2> QED
    BY <2>1, <2>2 DEF Down, GoesDownByPeer, GoesDownInLoop
<1>2. AllDown /\ exited /\ [Next]_vars => AllDown'
  BY ExitedStays DEF vars, loopVars, AllDown, Down, GoesDownByPeer, GoesDownInLoop
<1> QED
  BY <1>1, <1>2, DownStep, AlwaysBegun, AlwaysListed, AlwaysLate, ExitedStays, TypesHold, PTL DEF Spec

\* The connection callback says up exactly once, and first; after it has said
\* down it does not say anything again.
UpThenDownOnce ==
  \A c \in Conn : ups[c] <= 1 /\ downs[c] <= ups[c]

\* Where nobody force-closes, or only the loop's thread closes connections and none
\* is handed connectDestroyed by ~TcpServer, the connection callback says up once, and
\* down at most once, after up.
THEOREM UpThenDown ==
  ASSUME \A x \in Usages : ClosesOnce(x)
  PROVE  Spec => []UpThenDownOnce
<1>1. Typed /\ AllBegun /\ AllDown => UpThenDownOnce
  <2> SUFFICES ASSUME Typed, AllBegun, AllDown, NEW c \in Conn
               PROVE  ups[c] <= 1 /\ downs[c] <= ups[c]
    BY DEF UpThenDownOnce
  <2>1. Begun(c) /\ Down(c) /\ downs[c] \in 0..2 /\ ups[c] \in 0..2 /\ ClosesOnce(usage)
    BY DEF Typed, TypeOK, AllBegun, AllDown
  <2>2. CASE state_[c] = "kConnecting"
    BY <2>1, <2>2 DEF Begun, Fresh
  <2>3. CASE state_[c] # "kConnecting"
    <3>1. ups[c] = 1
      BY <2>1, <2>3 DEF Begun
    <3>2. GoesDownByPeer(c) \/ GoesDownInLoop(c)
      BY <2>1 DEF ClosesOnce, Down
    <3>3. downs[c] > 0 => downs[c] = 1
      BY <3>2 DEF GoesDownByPeer, GoesDownInLoop
    <3> QED
      BY <2>1, <3>1, <3>3
  <2> QED
    BY <2>2, <2>3
<1> QED
  BY <1>1, TypesHold, AlwaysBegun, AlwaysDown, PTL

\* Where users' threads either only send or do not send, and connections are closed
\* as UpThenDown asks, a channel that connectDestroyed has taken out of the poller is
\* never added again, whatever is queued when it goes.
THEOREM RemovedChannelStaysOut ==
  ASSUME \A x \in Usages : SendsOrSets(x) /\ ClosesOnce(x)
  PROVE  Spec => RemovedStaysOut
<1> DEFINE Stays == \A c \in Conn : ups[c] > 0 /\ p.index[c] = kNew => p'.index[c] = kNew
<1>1. Types /\ AllBegun /\ AllLate /\ AllKept /\ AllDown /\ Ended /\ [Next]_vars => Stays
  <2> SUFFICES ASSUME Types, AllBegun, AllLate, AllKept, AllDown, Ended, [Next]_vars,
                      NEW d \in Conn, ups[d] > 0, p.index[d] = kNew
               PROVE  p'.index[d] = kNew
    OBVIOUS
  <2>0. SendsOrSets(usage) /\ ClosesOnce(usage) /\ Begun(d) /\ Down(d)
    BY DEF Types, Typed, TypeOK, AllBegun, AllDown
  <2>b. state_[d] # "kConnecting" /\ Est(d) \notin TasksOf(ioTasks) /\ d \in made
    BY <2>0 DEF Begun, Fresh
  <2>a. ASSUME NEW c \in Conn, OthersUntouched(c), c = d => p'.index[d] = kNew
        PROVE  p'.index[d] = kNew
    BY <2>a DEF OthersUntouched, Untouched
  <2>1. CASE \/ poll \/ swapFunctors \/ loopPolls \/ loopEnds \/ stopServer \/ quitLoops
             \/ UNCHANGED vars
    BY <2>1 DEF poll, swapFunctors, loopPolls, loopEnds, stopServer, quitLoops, vars
  <2>2. ASSUME usage' = usage, NEW c \in Conn, handleEventStays(c) \/ handleEventCloses(c)
        PROVE  p'.index[d] = kNew
    BY <2>2, <2>a, StaysTouches, ClosesTouches, Indices
  <2>3. ASSUME usage' = usage, NEW c \in Conn, runConnectEstablished(c) \/ newConnection(c)
        PROVE  p'.index[d] = kNew
    BY <2>3, <2>a, <2>b, EstablishTouches, NewTouches DEF Est
  <2>4. ASSUME usage' = usage, NEW c \in Conn, runConnectDestroyed(c)
        PROVE  p'.index[d] = kNew
    BY <2>4, <2>a, DestroyedTouches DEF DestroysIt
  <2>5. ASSUME usage' = usage, NEW c \in Conn, runSendInLoop(c)
        PROVE  p'.index[d] = kNew
    BY <2>0, <2>5, <2>a, SendTouches, NoLateSend
  <2>6. ASSUME usage' = usage, NEW c \in Conn, forceCloseInLoop(c)
        PROVE  p'.index[d] = kNew
    <3>1. /\ OthersUntouched(c) /\ ForceTask(c) \in TasksOf(ioTasks)
          /\ \/ ClosesIt(c) /\ Runnable(c, "forceClose", state_[c])
             \/ p' = p
      BY <2>6, ForceTouches DEF forceCloseInLoop, ForceTask
    <3>2. CASE usage.sameLoop \/ p' = p
      BY <2>a, <3>1, <3>2 DEF ClosesIt
    <3>3. CASE ~usage.sameLoop /\ ClosesIt(c) /\ Runnable(c, "forceClose", state_[c])
      <4>1. "forceClose" \in usage.remote \cup usage.local
        BY <3>1 DEF Types, Typed, TasksTyped, ForceTask, Task
      <4>2. usage.remote \subseteq {"send"} /\ server = "up"
        BY <2>0, <3>3, <4>1 DEF ClosesOnce, Types, Typed, Places
      <4>3. c # d
        BY <2>0, <3>3, <4>1, <4>2, Indices DEF Down, GoesDownInLoop, Runnable, ClosesOnce
      <4> QED
        BY <2>a, <3>1, <4>3
    <3> QED
      BY <3>1, <3>2, <3>3
  <2>7. ASSUME NEW c \in Conn, runShutdownInLoop(c) \/ removeConnectionInLoop(c) \/ peerCloses(c)
        PROVE  p'.index[d] = kNew
    BY <2>7 DEF runShutdownInLoop, removeConnectionInLoop, peerCloses
  <2>8. ASSUME usage' = usage, NEW c \in Conn, stopConnection(c)
        PROVE  p'.index[d] = kNew
    BY <2>8, <2>a, StopTouches DEF DestroysIt
  <2>9. ASSUME NEW u \in User, Users(u)
        PROVE  p'.index[d] = kNew
    BY <2>9 DEF Users, release, callChecks, callSets, callQueues
  <2> QED
    BY <2>1, <2>2, <2>3, <2>4, <2>5, <2>6, <2>7, <2>8, <2>9
    DEF Next, Loop, IoLoop, StopServer
<1>2. Types /\ AllBegun /\ AllLate /\ AllKept /\ AllDown /\ Ended /\ [Next]_vars =>
        [\A c \in Conn :
           ups[c] > 0 /\ p.index[c] = Poller!kNew => p'.index[c] = Poller!kNew]_vars
  BY <1>1 DEF kNew
<1>3. Spec => []Types
  BY AlwaysSound
<1>4. Spec => []AllDown
  BY AlwaysDown
<1> QED
  BY <1>2, <1>3, <1>4, AlwaysBegun, AlwaysLate, AlwaysKept, AlwaysEnded, PTL
  DEF Spec, RemovedStaysOut

-----------------------------------------------------------------------------
(* One life each: the abstract server *)

\* A connection leaves the server's map, while the server is up, only after it has
\* been reported down.
Finished(c) ==
  /\ Rem(c) \in TasksOf(baseTasks) => downs[c] > 0
  /\ server = "up" /\ c \in made /\ c \notin connections_ => downs[c] > 0

AllFinished == \A c \in Conn : Finished(c)

\* Every step keeps it.
LEMMA FinishedStep == Types /\ AllFinished /\ [Next]_vars => AllFinished'
<1> SUFFICES ASSUME Types, AllFinished, [Next]_vars
             PROVE  AllFinished'
  OBVIOUS
<1>u. ASSUME NEW d \in Conn, Untouched(d), server' = "up" => server = "up"
      PROVE  Finished(d)'
  BY <1>u DEF AllFinished, Finished, Untouched, Rem
<1>a. ASSUME NEW c \in Conn, OthersUntouched(c), Finished(c)'
      PROVE  AllFinished'
  BY <1>a, <1>u DEF AllFinished, OthersUntouched
<1>b. ASSUME UNCHANGED <<made, connections_, baseTasks, downs>>, server' = "up" => server = "up"
      PROVE  AllFinished'
  BY <1>b DEF AllFinished, Finished
<1>c. \A c \in Conn : Finished(c) /\ downs[c] \in 0..2
  BY DEF AllFinished, Types, Typed, TypeOK
\* It has been reported down.
<1>e. ASSUME NEW c \in Conn, OthersUntouched(c), downs'[c] > 0
      PROVE  AllFinished'
  <2>1. Finished(c)'
    BY <1>e DEF Finished
  <2> QED
    BY <1>a, <1>e, <2>1
\* It stays where it is.
<1>f. ASSUME NEW c \in Conn, OthersUntouched(c), UNCHANGED <<made, connections_, baseTasks>>,
             downs[c] > 0 => downs'[c] > 0
      PROVE  AllFinished'
  <2>1. Finished(c)'
    BY <1>c, <1>f DEF Finished, OthersUntouched
  <2> QED
    BY <1>a, <1>f, <2>1
<1>g. ASSUME NEW c \in Conn, ClosesIt(c)
      PROVE  downs'[c] > 0
  BY <1>c, <1>g DEF ClosesIt, Count
<1>h. ASSUME NEW c \in Conn, DestroysIt(c), downs[c] > 0
      PROVE  downs'[c] > 0
  BY <1>c, <1>h DEF DestroysIt, Count
<1>1. CASE poll \/ swapFunctors \/ loopPolls \/ stopServer \/ quitLoops \/ loopEnds
  BY <1>b, <1>1 DEF poll, swapFunctors, loopPolls, stopServer, quitLoops, loopEnds
<1>2. CASE UNCHANGED vars
  BY <1>b, <1>2 DEF vars
<1>3. ASSUME NEW c \in Conn, handleEventStays(c) \/ runSendInLoop(c) \/ runShutdownInLoop(c)
                              \/ runConnectEstablished(c) \/ peerCloses(c)
      PROVE  AllFinished'
  BY <1>b, <1>3
  DEF handleEventStays, runSendInLoop, runShutdownInLoop, runConnectEstablished, peerCloses
<1>4. ASSUME usage' = usage, NEW c \in Conn, handleEventCloses(c)
      PROVE  AllFinished'
  BY <1>4, <1>e, <1>g, ClosesTouches
<1>5. ASSUME usage' = usage, NEW c \in Conn, runConnectDestroyed(c)
      PROVE  AllFinished'
  BY <1>5, <1>f, <1>h, DestroyedTouches DEF runConnectDestroyed
<1>6. ASSUME usage' = usage, NEW c \in Conn, forceCloseInLoop(c)
      PROVE  AllFinished'
  <2>1. OthersUntouched(c) /\ made' = made
    BY <1>6, ForceTouches DEF forceCloseInLoop
  <2>2. CASE ClosesIt(c)
    BY <1>e, <1>g, <2>1, <2>2
  <2>3. CASE UNCHANGED <<state_, downs, connections_, p, baseTasks>>
    BY <1>f, <2>1, <2>3
  <2> QED
    BY <1>6, <2>2, <2>3, ForceTouches
<1>7. ASSUME usage' = usage, NEW c \in Conn, newConnection(c)
      PROVE  AllFinished'
  <2>1. /\ OthersUntouched(c) /\ c \in connections_' /\ baseTasks' = baseTasks
        /\ c \notin made
    BY <1>7, NewTouches
  <2>2. Rem(c) \notin TasksOf(baseTasks)
    BY <2>1 DEF Types, Typed, TasksTyped, Rem, Task
  <2>3. Finished(c)'
    BY <2>1, <2>2 DEF Finished
  <2> QED
    BY <1>a, <2>1, <2>3
<1>8. ASSUME usage' = usage, NEW c \in Conn, removeConnectionInLoop(c)
      PROVE  AllFinished'
  <2>1. OthersUntouched(c) /\ Rem(c) \in TasksOf(baseTasks) /\ downs' = downs
    BY <1>8, RemoveTouches DEF Rem, removeConnectionInLoop
  <2> QED
    BY <1>c, <1>e, <2>1 DEF Finished
<1>9. ASSUME usage' = usage, NEW c \in Conn, stopConnection(c)
      PROVE  AllFinished'
  <2>1. /\ OthersUntouched(c) /\ server = "stopping" /\ server' = server
        /\ baseTasks' = baseTasks
    BY <1>9, StopTouches DEF stopConnection
  <2>2. downs[c] > 0 => downs'[c] > 0
    BY <1>9, <1>h, StopTouches
  <2>3. Finished(c)'
    BY <1>c, <2>1, <2>2 DEF Finished
  <2> QED
    BY <1>a, <2>1, <2>3
<1>10. ASSUME NEW u \in User, Users(u)
       PROVE  AllFinished'
  BY <1>b, <1>10 DEF Users, release, callChecks, callSets, callQueues
<1> QED
  BY <1>1, <1>2, <1>3, <1>4, <1>5, <1>6, <1>7, <1>8, <1>9, <1>10
  DEF Next, Loop, IoLoop, StopServer

\* It holds in every reachable state.
LEMMA AlwaysFinished == Spec => []AllFinished
<1>1. Init => AllFinished
  BY EmptyTasks DEF Init, AllFinished, Finished
<1>2. AllFinished /\ exited /\ [Next]_vars => AllFinished'
  BY ExitedStays DEF vars, loopVars, AllFinished, Finished
<1> QED
  BY <1>1, <1>2, FinishedStep, ExitedStays, TypesHold, PTL DEF Spec

\* The tasks of the I/O loop that keep their connection.
Owners == {"connectEstablished", "connectDestroyed", "forceCloseInLoop"}

\* Somebody has a shared_ptr to c: the map, a user's thread or a task.
Held(c) ==
  \/ c \in connections_
  \/ \E u \in User : c \in held[u]
  \/ Rem(c) \in TasksOf(baseTasks)
  \/ \E op \in Owners : Task(op, c) \in TasksOf(ioTasks)

GoneUnlessHeld == \A c \in Conn : Destroyed(c) <=> c \in made /\ ~Held(c)

\* A connection is destroyed when nobody has a shared_ptr to it any more.
LEMMA DestroyedUnlessHeld == Types => GoneUnlessHeld
<1> SUFFICES ASSUME Types, NEW c \in Conn
             PROVE  Destroyed(c) <=> c \in made /\ ~Held(c)
  BY DEF GoneUnlessHeld
<1>1. ASSUME NEW t \in TasksOf(baseTasks) \cup TasksOf(ioTasks)
      PROVE  t \in Tasks
  BY <1>1 DEF Types, Typed, TypeOK, TasksOf
<1>2. ASSUME NEW t \in Tasks
      PROVE  t = Task(t.op, t.conn)
  BY <1>2 DEF Tasks, Task
<1>3. ASSUME NEW t \in TasksOf(baseTasks), t.conn = c
      PROVE  t = Rem(c)
  BY <1>1, <1>2, <1>3 DEF Types, Typed, TasksTyped, Rem
<1>4. ASSUME NEW t \in TasksOf(ioTasks), t.conn = c, Owns(t)
      PROVE  \E op \in Owners : t = Task(op, c)
  <2>1. t.op \in Owners
    BY <1>1, <1>4 DEF Types, Typed, TasksTyped, Owns, Tasks, Owners
  <2> QED
    BY <1>1, <1>2, <1>4, <2>1
<1>5. ASSUME NEW op \in Owners \cup {"removeConnectionInLoop"}
      PROVE  Owns(Task(op, c)) /\ Task(op, c).conn = c
  BY <1>5 DEF Owns, Task, Owners
<1>6. (\A t \in TasksOf(baseTasks) \cup TasksOf(ioTasks) : Owns(t) => t.conn # c)
        <=> /\ Rem(c) \notin TasksOf(baseTasks)
            /\ \A op \in Owners : Task(op, c) \notin TasksOf(ioTasks)
  BY <1>3, <1>4, <1>5 DEF Rem
<1> QED
  BY <1>6 DEF Destroyed, Held

\* A connection whose channel is active is held.
LEMMA HandledIsHeld ==
  ASSUME Types, AllKept, Ended, SendsOrSets(usage), NEW c \in active
  PROVE  Held(c)
<1>1. p.index[c] = kAdded /\ stage = "dispatch" /\ c \in Conn
  BY DEF Types, Typed, TypeOK, PollerTyped, Places
<1>2. server # "gone"
  BY <1>1 DEF Ended
<1>3. Anchored(c)
  BY <1>1, <1>2, Indices DEF AllKept, Kept
<1> QED
  BY <1>3 DEF Anchored, Held, Dst, Owners

\* What is not touched is destroyed afterwards if it was before.
LEMMA UntouchedHeld ==
  ASSUME GoneUnlessHeld, GoneUnlessHeld', NEW d \in Conn, Untouched(d)
  PROVE  Destroyed(d)' <=> Destroyed(d)
<1>1. Held(d)' <=> Held(d)
  BY DEF Untouched, SameTasks, Held, Rem
<1> QED
  BY <1>1 DEF Untouched, GoneUnlessHeld

\* A connection that is destroyed stays destroyed.
LEMMA StaysDestroyed ==
  ASSUME Types, Types', AllBegun, AllKept, Ended, SendsOrSets(usage), [Next]_vars,
         NEW d \in Conn, Destroyed(d)
  PROVE  Destroyed(d)'
<1>g. GoneUnlessHeld /\ GoneUnlessHeld'
  BY DestroyedUnlessHeld, PTL
<1>d. d \in made /\ ~Held(d)
  BY <1>g DEF GoneUnlessHeld
<1>a. ASSUME NEW c \in Conn, OthersUntouched(c), c = d => ~Held(d)'
      PROVE  Destroyed(d)'
  <2>1. CASE c = d
    BY <1>a, <1>d, <1>g, <2>1 DEF GoneUnlessHeld, OthersUntouched
  <2>2. CASE c # d
    BY <1>a, <1>g, <2>2, UntouchedHeld DEF OthersUntouched
  <2> QED
    BY <2>1, <2>2
<1>b. ASSUME UNCHANGED <<made, state_, connections_, baseTasks, ioTasks, p, peer, wrShut, held,
                         call, ups, downs>>
      PROVE  Destroyed(d)'
  BY <1>b, <1>g, UntouchedHeld, Untouching
\* The step is about another connection.
<1>e. ASSUME NEW c \in Conn, OthersUntouched(c), Held(c) \/ c \notin made
      PROVE  Destroyed(d)'
  BY <1>a, <1>d, <1>e
\* The step keeps all owners away.
<1>f. ASSUME NEW c \in Conn, OthersUntouched(c), UNCHANGED <<connections_, baseTasks>>,
             \A u \in User : c \in held'[u] => c \in held[u],
             NEW op \in {"sendInLoop", "shutdownInLoop"},
             Gains(op, c) \/ Loses(op, c, ioTasks') \/ ioTasks' = ioTasks
      PROVE  Destroyed(d)'
  <2>1. \A x \in Owners : Task(x, c) \in TasksOf(ioTasks') => Task(x, c) \in TasksOf(ioTasks)
    BY <1>f, Distinct DEF Gains, Loses, Owners
  <2>2. Held(c)' => Held(c)
    BY <1>f, <2>1 DEF Held
  <2> QED
    BY <1>a, <1>d, <1>f, <2>2
<1>1. CASE poll \/ swapFunctors \/ loopPolls \/ stopServer \/ quitLoops
  BY <1>b, <1>1 DEF poll, swapFunctors, loopPolls, stopServer, quitLoops
<1>2. CASE UNCHANGED vars
  BY <1>b, <1>2 DEF vars
<1>3. CASE loopEnds
  <2>1. Held(d)' => Held(d)
    BY <1>3, EmptyTasks DEF loopEnds, Held
  <2>2. made' = made
    BY <1>3 DEF loopEnds
  <2> QED
    BY <1>d, <1>g, <2>1, <2>2 DEF GoneUnlessHeld
<1>4. ASSUME usage' = usage, NEW c \in Conn, handleEventStays(c) \/ handleEventCloses(c)
      PROVE  Destroyed(d)'
  <2>1. c \in active
    BY <1>4 DEF handleEventStays, handleEventCloses, Handles
  <2> QED
    BY <1>4, <1>e, <2>1, HandledIsHeld, StaysTouches, ClosesTouches
<1>5. ASSUME usage' = usage, NEW c \in Conn,
             runConnectEstablished(c) \/ runConnectDestroyed(c) \/ forceCloseInLoop(c)
      PROVE  Destroyed(d)'
  <2>1. OthersUntouched(c) /\ \E op \in Owners : Task(op, c) \in TasksOf(ioTasks)
    BY <1>5, EstablishTouches, DestroyedTouches, ForceTouches DEF Owners
  <2> QED
    BY <1>e, <2>1 DEF Held
<1>6. ASSUME usage' = usage, NEW c \in Conn, runSendInLoop(c)
      PROVE  Destroyed(d)'
  BY <1>6, <1>f, SendTouches DEF runSendInLoop
<1>7. ASSUME usage' = usage, NEW c \in Conn, runShutdownInLoop(c)
      PROVE  Destroyed(d)'
  BY <1>7, <1>f, ShutdownTouches DEF runShutdownInLoop
<1>8. ASSUME usage' = usage, NEW c \in Conn, newConnection(c)
      PROVE  Destroyed(d)'
  BY <1>8, <1>e, NewTouches
<1>9. ASSUME usage' = usage, NEW c \in Conn, removeConnectionInLoop(c)
      PROVE  Destroyed(d)'
  BY <1>9, <1>e, RemoveTouches DEF Held, Rem
<1>10. ASSUME usage' = usage, NEW c \in Conn, peerCloses(c)
       PROVE  Destroyed(d)'
  BY <1>10, <1>f, PeerTouches DEF peerCloses
<1>11. ASSUME usage' = usage, NEW u \in User, NEW c \in Conn, release(u, c)
       PROVE  Destroyed(d)'
  BY <1>11, <1>e, ReleaseTouches DEF Held
<1>12. ASSUME usage' = usage, NEW u \in User, NEW c \in Conn, NEW op \in usage.remote,
              callChecks(u, c, op)
       PROVE  Destroyed(d)'
  BY <1>12, <1>e, ChecksTouches DEF Held
<1>13. ASSUME usage' = usage, NEW u \in User, callSets(u) \/ callQueues(u)
       PROVE  Destroyed(d)'
  BY <1>13, <1>e, SetsTouches, QueuesTouches DEF Held
<1>14. ASSUME usage' = usage, NEW c \in Conn, stopConnection(c)
       PROVE  Destroyed(d)'
  BY <1>14, <1>e, StopTouches DEF stopConnection, Held
<1> QED
  BY <1>1, <1>2, <1>3, <1>4, <1>5, <1>6, <1>7, <1>8, <1>9, <1>10, <1>11, <1>12, <1>13, <1>14
  DEF Next, Loop, IoLoop, Users, StopServer

\* The connections that have been destroyed.
Gone == {c \in Conn : Destroyed(c)}

\* Connections are destroyed, after the callback said down or with the server.
LEMMA SessionGoes ==
  ASSUME UNCHANGED <<ups, downs>>, server' = "up" <=> server = "up", Gone \subseteq Gone',
         server = "up" => \A c \in Gone' \ Gone : downs[c] = 1
  PROVE  Session!Next
<1>1. (server = "up")' = (server = "up")
  OBVIOUS
<1>2. Gone' \subseteq Conn
  BY DEF Gone
<1> QED
  BY <1>1, <1>2 DEF Session!Next, Session!Go, Gone

\* The server's destructor begins.
LEMMA SessionStops ==
  ASSUME UNCHANGED <<ups, downs>>, server' # "up", Gone' = Gone
  PROVE  Session!Next
<1>1. (server = "up")' = FALSE
  OBVIOUS
<1> QED
  BY <1>1 DEF Session!Next, Session!Stop, Gone

\* The callback says up.
LEMMA SessionSaysUp ==
  ASSUME NEW c \in Conn, c \notin Gone, ups[c] = 0, downs[c] = 0,
         ups' = [ups EXCEPT ![c] = 1], downs' = downs, Gone' = Gone, server' = server
  PROVE  Session!Next
<1>1. (server = "up")' = (server = "up")
  OBVIOUS
<1> QED
  BY <1>1 DEF Session!Next, Session!SaysUp, Gone

\* The callback says down, and the connection may be destroyed in the same step.
LEMMA SessionSaysDown ==
  ASSUME NEW c \in Conn, c \notin Gone, ups[c] = 1, downs[c] = 0,
         downs' = [downs EXCEPT ![c] = 1], ups' = ups, Gone' \in {Gone, Gone \cup {c}},
         server' = server
  PROVE  Session!Next
<1>1. (server = "up")' = (server = "up")
  OBVIOUS
<1> QED
  BY <1>1 DEF Session!Next, Session!SaysDown, Gone

\* Each step of the server is a step of the abstract one, or changes nothing there.
LEMMA SessionStep ==
  Types /\ Types' /\ AllBegun /\ AllKept /\ Ended /\ SendsOrSets(usage) /\ AllFinished'
  /\ UpThenDownOnce' /\ [Next]_vars => Session!Next
<1> SUFFICES ASSUME Types, Types', AllBegun, AllKept, Ended, SendsOrSets(usage),
                    AllFinished', UpThenDownOnce', [Next]_vars
             PROVE  Session!Next
  OBVIOUS
<1>k. Gone \subseteq Gone'
  BY StaysDestroyed DEF Gone
<1>g. GoneUnlessHeld /\ GoneUnlessHeld'
  BY DestroyedUnlessHeld, PTL
<1>o. \A c \in Conn : /\ downs'[c] > 0 => downs'[c] = 1
                      /\ ups'[c] <= 1 /\ downs'[c] <= 1
                      /\ ups[c] \in 0..2 /\ downs[c] \in 0..2
  <2>1. ups \in [Conn -> 0..2] /\ downs \in [Conn -> 0..2]
    BY DEF Types, Typed, TypeOK
  <2>2. ups' \in [Conn -> 0..2] /\ downs' \in [Conn -> 0..2]
    BY DEF Types, Typed, TypeOK
  <2> QED
    BY <2>1, <2>2 DEF UpThenDownOnce
\* A step in which the callback says nothing.
<1>q. ASSUME UNCHANGED <<ups, downs>>, server' = "up" <=> server = "up"
      PROVE  Session!Next
  <2>1. ASSUME server = "up", NEW c \in Gone' \ Gone
        PROVE  downs[c] = 1
    <3>1. c \in Conn /\ c \in made' /\ c \notin connections_'
      BY DEF Gone, Destroyed
    <3>2. downs'[c] > 0
      BY <1>q, <2>1, <3>1 DEF AllFinished, Finished
    <3> QED
      BY <1>o, <1>q, <3>1, <3>2
  <2> QED
    BY <1>k, <1>q, <2>1, SessionGoes
\* Of the others, none is destroyed.
<1>t. ASSUME NEW c \in Conn, OthersUntouched(c)
      PROVE  Gone' \ {c} = Gone \ {c}
  BY <1>g, <1>t, UntouchedHeld DEF OthersUntouched, Gone
\* The callback says up.
<1>u. ASSUME NEW c \in Conn, OthersUntouched(c), c \notin Gone, c \notin Gone',
             state_[c] = "kConnecting", ups' = [ups EXCEPT ![c] = Count(@)], downs' = downs
      PROVE  Session!Next
  <2>1. ups[c] = 0 /\ downs[c] = 0
    BY <1>u DEF AllBegun, Begun, Fresh
  <2>2. ups' = [ups EXCEPT ![c] = 1]
    BY <1>u, <2>1 DEF Count
  <2>3. Gone' = Gone
    BY <1>t, <1>u
  <2> QED
    BY <1>u, <2>1, <2>2, <2>3, SessionSaysUp DEF OthersUntouched
\* The callback says down.
<1>d. ASSUME NEW c \in Conn, OthersUntouched(c), c \notin Gone,
             state_[c] # "kConnecting", downs' = [downs EXCEPT ![c] = Count(@)], ups' = ups
      PROVE  Session!Next
  <2>1. downs'[c] = Count(downs[c])
    BY <1>d DEF Types, Typed, TypeOK
  <2>2. ups[c] = 1 /\ downs[c] = 0
    <3>1. ups[c] = 1
      BY <1>d DEF AllBegun, Begun
    <3>2. downs'[c] <= 1 /\ downs[c] \in 0..2
      BY <1>o
    <3> QED
      BY <2>1, <3>1, <3>2 DEF Count
  <2>3. downs' = [downs EXCEPT ![c] = 1]
    BY <1>d, <2>2 DEF Count
  <2>4. Gone' \in {Gone, Gone \cup {c}}
    BY <1>d, <1>k, <1>t
  <2> QED
    BY <1>d, <2>2, <2>3, <2>4, SessionSaysDown DEF OthersUntouched
<1>h. ASSUME NEW c \in Conn, Held(c)
      PROVE  c \notin Gone
  BY <1>g, <1>h DEF Gone, GoneUnlessHeld
<1>1. CASE poll \/ swapFunctors \/ loopPolls \/ quitLoops \/ loopEnds
  BY <1>q, <1>1 DEF poll, swapFunctors, loopPolls, quitLoops, loopEnds
<1>2. CASE UNCHANGED vars
  BY <1>q, <1>2 DEF vars
<1>3. CASE stopServer
  <2>1. Gone' = Gone
    BY <1>3, <1>g, UntouchedHeld, Untouching DEF stopServer, Gone
  <2> QED
    BY <1>3, <2>1, SessionStops DEF stopServer
<1>4. ASSUME NEW c \in Conn, handleEventStays(c) \/ runSendInLoop(c) \/ runShutdownInLoop(c)
                              \/ removeConnectionInLoop(c) \/ peerCloses(c)
      PROVE  Session!Next
  BY <1>q, <1>4
  DEF handleEventStays, runSendInLoop, runShutdownInLoop, removeConnectionInLoop, peerCloses
<1>5. ASSUME usage' = usage, NEW c \in Conn, handleEventCloses(c)
      PROVE  Session!Next
  <2>1. OthersUntouched(c) /\ p.index[c] = kAdded /\ c \in active
    BY <1>5, ClosesTouches DEF handleEventCloses, Handles
  <2>2. c \notin Gone
    BY <1>h, <2>1, HandledIsHeld
  <2>3. state_[c] # "kConnecting"
    BY <2>1, Indices DEF AllBegun, Begun, Fresh
  <2>4. downs' = [downs EXCEPT ![c] = Count(@)] /\ ups' = ups
    BY <1>5 DEF handleEventCloses, handleClose
  <2> QED
    BY <1>d, <2>1, <2>2, <2>3, <2>4
<1>6. ASSUME usage' = usage, NEW c \in Conn, forceCloseInLoop(c)
      PROVE  Session!Next
  <2>1. OthersUntouched(c) /\ Task("forceCloseInLoop", c) \in TasksOf(ioTasks)
    BY <1>6, ForceTouches
  <2>2. c \notin Gone /\ ups' = ups
    BY <1>6, <1>h, <2>1 DEF Held, Owners, forceCloseInLoop
  <2>3. CASE Runnable(c, "forceClose", state_[c])
    <3>1. state_[c] # "kConnecting" /\ downs' = [downs EXCEPT ![c] = Count(@)]
      BY <1>6, <2>3 DEF forceCloseInLoop, handleClose, Runnable
    <3> QED
      BY <1>d, <2>1, <2>2, <3>1
  <2>4. CASE ~Runnable(c, "forceClose", state_[c])
    BY <1>6, <1>q, <2>4 DEF forceCloseInLoop
  <2> QED
    BY <2>3, <2>4
<1>7. ASSUME usage' = usage, NEW c \in Conn, runConnectEstablished(c)
      PROVE  Session!Next
  <2>1. /\ OthersUntouched(c) /\ Est(c) \in TasksOf(ioTasks)
        /\ UNCHANGED <<connections_, downs>>
    BY <1>7, EstablishTouches DEF Est, runConnectEstablished
  <2>2. c \notin Gone
    BY <1>h, <2>1 DEF Held, Owners, Est
  <2>3. state_[c] = "kConnecting" /\ (c \in connections_ \/ Dst(c) \in TasksOf(ioTasks))
    BY <2>1 DEF AllBegun, Begun
  <2>4. Dst(c) \in TasksOf(ioTasks) => Dst(c) \in TasksOf(ioTasks')
    <3>1. PICK tasks : /\ Loses("connectEstablished", c, tasks)
                       /\ TasksOf(tasks) \subseteq TasksOf(ioTasks')
      BY <1>7, EstablishTouches
    <3> QED
      BY <3>1, Distinct DEF Loses, Est
  <2>5. Held(c)'
    BY <2>1, <2>3, <2>4 DEF Held, Owners, Dst
  <2>6. c \notin Gone'
    BY <1>g, <2>5 DEF Gone, GoneUnlessHeld
  <2>7. ups' = [ups EXCEPT ![c] = Count(@)]
    BY <1>7 DEF runConnectEstablished, connectEstablished
  <2> QED
    BY <1>u, <2>1, <2>2, <2>3, <2>6, <2>7
<1>8. ASSUME usage' = usage, NEW c \in Conn, runConnectDestroyed(c)
      PROVE  Session!Next
  <2>1. OthersUntouched(c) /\ Dst(c) \in TasksOf(ioTasks) /\ ups' = ups
    BY <1>8, DestroyedTouches DEF Dst, runConnectDestroyed
  <2>2. c \notin Gone
    BY <1>h, <2>1 DEF Held, Owners, Dst
  <2>3. CASE state_[c] = "kConnected"
    <3>1. downs' = [downs EXCEPT ![c] = Count(@)]
      BY <1>8, <2>3 DEF runConnectDestroyed, connectDestroyed
    <3> QED
      BY <1>d, <2>1, <2>2, <2>3, <3>1
  <2>4. CASE state_[c] # "kConnected"
    BY <1>8, <1>q, <2>4 DEF runConnectDestroyed, connectDestroyed
  <2> QED
    BY <2>3, <2>4
<1>9. ASSUME usage' = usage, NEW c \in Conn, newConnection(c)
      PROVE  Session!Next
  <2>1. OthersUntouched(c) /\ c \notin made /\ c \in connections_' /\ downs' = downs
    BY <1>9, NewTouches
  <2>2. CASE usage.sameLoop
    <3>1. ups' = [ups EXCEPT ![c] = Count(@)]
      BY <1>9, <2>2 DEF newConnection, connectEstablished
    <3>2. c \notin Gone /\ c \notin Gone' /\ state_[c] = "kConnecting"
      BY <2>1 DEF Gone, Destroyed, AllBegun, Begun
    <3> QED
      BY <1>u, <2>1, <3>1, <3>2
  <2>3. CASE ~usage.sameLoop
    BY <1>9, <1>q, <2>3 DEF newConnection
  <2> QED
    BY <2>2, <2>3
<1>10. ASSUME NEW u \in User, Users(u)
       PROVE  Session!Next
  BY <1>q, <1>10 DEF Users, release, callChecks, callSets, callQueues
<1>11. ASSUME usage' = usage, NEW c \in Conn, stopConnection(c)
       PROVE  Session!Next
  <2>1. OthersUntouched(c) /\ c \in connections_ /\ UNCHANGED <<ups, server>>
    BY <1>11, StopTouches DEF stopConnection
  <2>2. c \notin Gone
    BY <2>1 DEF Gone, Destroyed
  <2>3. CASE usage.sameLoop /\ state_[c] = "kConnected"
    <3>1. downs' = [downs EXCEPT ![c] = Count(@)]
      BY <1>11, <2>3 DEF stopConnection, connectDestroyed
    <3> QED
      BY <1>d, <2>1, <2>2, <2>3, <3>1
  <2>4. CASE ~(usage.sameLoop /\ state_[c] = "kConnected")
    <3>1. downs' = downs
      BY <1>11, <2>4 DEF stopConnection, connectDestroyed
    <3> QED
      BY <1>q, <2>1, <3>1
  <2> QED
    BY <2>3, <2>4
<1> QED
  BY <1>1, <1>2, <1>3, <1>4, <1>5, <1>6, <1>7, <1>8, <1>9, <1>10, <1>11
  DEF Next, Loop, IoLoop, StopServer

\* Where users' threads either only send or do not send, and connections are closed
\* as UpThenDown asks, the server implements ServerSession.
THEOREM Refinement ==
  ASSUME \A x \in Usages : SendsOrSets(x) /\ ClosesOnce(x)
  PROVE  Spec => OneLifeEach
<1>1. Init => Session!Init
  <2> SUFFICES ASSUME Init
               PROVE  Session!Init
    OBVIOUS
  <2>1. /\ ups = [c \in Conn |-> 0] /\ downs = [c \in Conn |-> 0]
        /\ {c \in Conn : Destroyed(c)} = {} /\ (server = "up") = TRUE
    BY DEF Init, Destroyed
  <2> QED
    BY <2>1 DEF Session!Init
<1>2. Types => SendsOrSets(usage)
  BY DEF Types, Typed, TypeOK
<1>3. Types /\ Types' /\ AllBegun /\ AllKept /\ Ended /\ AllFinished' /\ UpThenDownOnce'
      /\ [Next]_vars => [Session!Next]_(Session!vars)
  BY <1>2, SessionStep
<1>4. Spec => []UpThenDownOnce
  BY UpThenDown
<1>5. Spec => []Types
  BY AlwaysSound
<1> QED
  BY <1>1, <1>3, <1>4, <1>5, AlwaysBegun, AlwaysKept, AlwaysEnded, AlwaysFinished, PTL
  DEF Spec, OneLifeEach, Session!Spec
=============================================================================
