--------------------------- MODULE Runtime_proof ---------------------------
(***************************************************************************)
(* Proofs about Runtime, for every number of devices and profiles and      *)
(* every bound.  The inductive invariant IInv is that of RuntimeInvariant. *)
(* A step that ends the process is one case for all actions (most of IInv  *)
(* is void afterwards); for the others there is one lemma per part of the  *)
(* invariant, with one step per action.                                    *)
(***************************************************************************)
EXTENDS RuntimeInvariant, TLAPS

-----------------------------------------------------------------------------
(* Initially.                                                              *)

\* IInv holds before main() runs.
LEMMA InitIInv == Init => IInv
<1> SUFFICES ASSUME Init PROVE IInv
  OBVIOUS
<1> USE NumProfilesAssumption, NumDevicesAssumption, BoundsAssumption
    DEF Init, ServerInit, Children, Publishers, Devices, MediaMTX
<1>1. TypeOK
  <2>1. pc \in Pcs /\ PositionOK
    BY DEF PositionOK, Pcs, StartPcs
  <2>2. WorldOK
    BY DEF WorldOK, ChildStates
  <2>3. FieldsOK
    BY DEF FieldsOK
  <2>4. ServerTypeOK
    BY DEF ServerTypeOK
  <2> QED
    BY <2>1, <2>2, <2>3, <2>4 DEF TypeOK
<1>2. SpawnInv /\ ListInv /\ ChildrenTracked /\ TerminateInv
  BY DEF SpawnInv, ListInv, ChildrenTracked, TerminateInv, Alive, BeforeSpawn,
         BeforePublish, BeforeServe, AllSpawned, TermPcs, PublishersDown,
         MediaMTXDown
<1>3. ServerInv /\ NoCloseUnderServe
  BY DEF ServerInv, NoCloseUnderServe, BeforeSpawn, BeforePublish,
         BeforeServe, AllSpawned, AllServing, ClosingPcs, ServersDown,
         DiscoveryDown, StopPcs
<1>4. ResponderInv /\ ServedAfterMedia
  BY DEF ResponderInv, ServedAfterMedia, DiscoveryDown, StopPcs
<1> QED
  BY <1>1, <1>2, <1>3, <1>4 DEF IInv, ChildInv, EndpointInv, ServiceInv

-----------------------------------------------------------------------------
(* Steps that end the process.                                             *)

\* A step that is none of them.
NoLeave ==
  /\ ~Leave("ok") /\ ~Leave("error") /\ ~Leave("traceback")
  /\ ~Leave("interrupted") /\ ~Leave("killed")

\* The bound on interrupts is kept by every step.
LEMMA InterruptsBounded ==
  ASSUME IInv, [Next]_vars
  PROVE  interrupts' \in 0 .. MaxInterrupts
<1> USE BoundsAssumption DEF IInv, TypeOK, WorldOK
<1>1. CASE Interrupt
  BY <1>1 DEF Interrupt
<1>2. CASE UNCHANGED interrupts
  BY <1>2
<1>3. ASSUME ~Interrupt PROVE UNCHANGED interrupts
  BY <1>3 DEF Next, vars, MainThread, Kill, ServerThread, ResponderEnds,
              ChildExits, MediaMTXListens, Terminated
<1> QED
  BY <1>1, <1>2, <1>3

\* The end of the process, whatever its status, keeps IInv.
LEMMA LeaveKeepsIInv ==
  ASSUME IInv, NEW status \in Statuses, Leave(status),
         interrupts' \in 0 .. MaxInterrupts
  PROVE  IInv'
<1> USE NumProfilesAssumption, NumDevicesAssumption, BoundsAssumption
    DEF IInv, ChildInv, EndpointInv, ServiceInv, Leave, ServersGone, Children,
        Publishers, Devices, MediaMTX
<1>1. TypeOK'
  <2>1. ServerTypeOK'
    BY DEF TypeOK, ServerTypeOK
  <2>2. pc' \in Pcs /\ PositionOK'
    BY DEF TypeOK, PositionOK, Pcs
  <2>3. WorldOK'
    BY DEF TypeOK, WorldOK
  <2>4. FieldsOK'
    BY DEF TypeOK, FieldsOK
  <2> QED
    BY <2>1, <2>2, <2>3, <2>4 DEF TypeOK
<1>2. SpawnInv' /\ ListInv' /\ ChildrenTracked' /\ TerminateInv'
  BY DEF SpawnInv, ListInv, ChildrenTracked, TerminateInv, BeforeSpawn,
         BeforePublish, BeforeServe, AllSpawned, TermPcs, PublishersDown,
         MediaMTXDown
<1>3. ServerInv' /\ NoCloseUnderServe'
  BY DEF TypeOK, ServerTypeOK, ServerInv, NoCloseUnderServe, BeforeServe,
         BeforePublish, BeforeSpawn, AllServing, AllSpawned, ClosingPcs,
         ServersDown, DiscoveryDown, StopPcs
<1>4. ResponderInv' /\ ServedAfterMedia'
  BY DEF TypeOK, ServerTypeOK, ResponderInv, ServedAfterMedia, DiscoveryDown,
         StopPcs
<1> QED
  BY <1>1, <1>2, <1>3, <1>4

-----------------------------------------------------------------------------
(* The other steps.                                                        *)

\* Types, and positions within the loops.
LEMMA TypeStep ==
  ASSUME IInv, [Next]_vars, NoLeave
  PROVE  TypeOK'
<1> USE NumProfilesAssumption, NumDevicesAssumption, BoundsAssumption
    DEF IInv, NoLeave, Goto, Moves, Alive, MediaMTX, Publishers, Children,
      Devices, fields, world, serverVars, TypeOK, PositionOK, WorldOK,
      FieldsOK, ServerTypeOK, ChildStates, Pcs, StartPcs, LoopPcs, StopPcs,
      GapPcs
<1>1. ASSUME LoadConfig, UNCHANGED interrupts PROVE TypeOK'
  <2>1. pc' \in Pcs
    BY <1>1 DEF LoadConfig
  <2>2. PositionOK'
    BY <1>1 DEF LoadConfig
  <2>3. WorldOK'
    BY <1>1 DEF LoadConfig
  <2>4. FieldsOK'
    BY <1>1 DEF LoadConfig
  <2>5. ServerTypeOK'
    BY <1>1 DEF LoadConfig
  <2> QED
    BY <2>1, <2>2, <2>3, <2>4, <2>5
<1>2. ASSUME RequireBinaries, UNCHANGED interrupts PROVE TypeOK'
  <2>1. pc' \in Pcs
    BY <1>2 DEF RequireBinaries
  <2>2. PositionOK'
    BY <1>2 DEF RequireBinaries
  <2>3. WorldOK'
    BY <1>2 DEF RequireBinaries
  <2>4. FieldsOK'
    BY <1>2 DEF RequireBinaries
  <2>5. ServerTypeOK'
    BY <1>2 DEF RequireBinaries
  <2> QED
    BY <2>1, <2>2, <2>3, <2>4, <2>5
<1>3. ASSUME MakeTempdir, UNCHANGED interrupts PROVE TypeOK'
  <2>1. pc' \in Pcs
    BY <1>3 DEF MakeTempdir
  <2>2. PositionOK'
    BY <1>3 DEF MakeTempdir
  <2>3. WorldOK'
    BY <1>3 DEF MakeTempdir
  <2>4. FieldsOK'
    BY <1>3 DEF MakeTempdir
  <2>5. ServerTypeOK'
    BY <1>3 DEF MakeTempdir
  <2> QED
    BY <2>1, <2>2, <2>3, <2>4, <2>5
<1>4. ASSUME SpawnMediaMTX, UNCHANGED interrupts PROVE TypeOK'
  <2>1. pc' \in Pcs
    BY <1>4 DEF SpawnMediaMTX
  <2>2. PositionOK'
    BY <1>4 DEF SpawnMediaMTX
  <2>3. WorldOK'
    BY <1>4 DEF SpawnMediaMTX
  <2>4. FieldsOK'
    BY <1>4 DEF SpawnMediaMTX
  <2>5. ServerTypeOK'
    BY <1>4 DEF SpawnMediaMTX
  <2> QED
    BY <2>1, <2>2, <2>3, <2>4, <2>5
<1>5. ASSUME PortPoll, UNCHANGED interrupts PROVE TypeOK'
  <2>1. pc' \in Pcs
    BY <1>5 DEF PortPoll
  <2>2. PositionOK'
    BY <1>5 DEF PortPoll
  <2>3. WorldOK'
    BY <1>5 DEF PortPoll
  <2>4. FieldsOK'
    BY <1>5 DEF PortPoll
  <2>5. ServerTypeOK'
    BY <1>5 DEF PortPoll
  <2> QED
    BY <2>1, <2>2, <2>3, <2>4, <2>5
<1>6. ASSUME PortConnect, UNCHANGED interrupts PROVE TypeOK'
  <2>1. pc' \in Pcs
    BY <1>6 DEF PortConnect
  <2>2. PositionOK'
    BY <1>6 DEF PortConnect
  <2>3. WorldOK'
    BY <1>6 DEF PortConnect
  <2>4. FieldsOK'
    BY <1>6 DEF PortConnect
  <2>5. ServerTypeOK'
    BY <1>6 DEF PortConnect
  <2> QED
    BY <2>1, <2>2, <2>3, <2>4, <2>5
<1>7. ASSUME StartPublisher, UNCHANGED interrupts PROVE TypeOK'
  <2>1. pc' \in Pcs
    BY <1>7 DEF StartPublisher, LastPublisher
  <2>2. PositionOK'
    BY <1>7 DEF StartPublisher, LastPublisher
  <2>3. WorldOK'
    BY <1>7 DEF StartPublisher, LastPublisher
  <2>4. FieldsOK'
    BY <1>7 DEF StartPublisher, LastPublisher
  <2>5. ServerTypeOK'
    BY <1>7 DEF StartPublisher, LastPublisher
  <2> QED
    BY <2>1, <2>2, <2>3, <2>4, <2>5
<1>8. ASSUME StartServer, UNCHANGED interrupts PROVE TypeOK'
  <2>1. pc' \in Pcs
    BY <1>8 DEF StartServer, StartServing
  <2>2. PositionOK'
    BY <1>8 DEF StartServer, StartServing
  <2>3. WorldOK'
    BY <1>8 DEF StartServer, StartServing
  <2>4. FieldsOK'
    BY <1>8 DEF StartServer, StartServing
  <2>5. ServerTypeOK'
    BY <1>8 DEF StartServer, StartServing
  <2> QED
    BY <2>1, <2>2, <2>3, <2>4, <2>5
<1>9. ASSUME StartDiscovery, UNCHANGED interrupts PROVE TypeOK'
  BY <1>9 DEF StartDiscovery
<1>10. ASSUME Started, UNCHANGED interrupts PROVE TypeOK'
  BY <1>10 DEF Started, FirstPolled
<1>11. ASSUME PollChild, UNCHANGED interrupts PROVE TypeOK'
  <2>1. pc' \in Pcs
    BY <1>11 DEF PollChild, LastPublisher
  <2>2. PositionOK'
    BY <1>11 DEF PollChild, LastPublisher
  <2>3. WorldOK'
    BY <1>11 DEF PollChild, LastPublisher
  <2>4. FieldsOK'
    BY <1>11 DEF PollChild, LastPublisher
  <2>5. ServerTypeOK'
    BY <1>11 DEF PollChild, LastPublisher
  <2> QED
    BY <2>1, <2>2, <2>3, <2>4, <2>5
<1>12. ASSUME Sleep, UNCHANGED interrupts PROVE TypeOK'
  BY <1>12 DEF Sleep, FirstPolled
<1>13. ASSUME ShutdownRequested, UNCHANGED interrupts PROVE TypeOK'
  BY <1>13 DEF ShutdownRequested, AfterRequested
<1>14. ASSUME EnterStop, UNCHANGED interrupts PROVE TypeOK'
  BY <1>14 DEF EnterStop
<1>15. ASSUME StopDiscovery, UNCHANGED interrupts PROVE TypeOK'
  <2>1. pc' \in Pcs
    BY <1>15 DEF StopDiscovery
  <2>2. PositionOK'
    BY <1>15 DEF StopDiscovery
  <2>3. WorldOK'
    BY <1>15 DEF StopDiscovery
  <2>4. FieldsOK'
    BY <1>15 DEF StopDiscovery
  <2>5. ServerTypeOK'
    BY <1>15 DEF StopDiscovery
  <2> QED
    BY <2>1, <2>2, <2>3, <2>4, <2>5
<1>16. ASSUME JoinDiscovery, UNCHANGED interrupts PROVE TypeOK'
  <2>1. pc' \in Pcs
    BY <1>16 DEF JoinDiscovery
  <2>2. PositionOK'
    BY <1>16 DEF JoinDiscovery
  <2>3. WorldOK'
    BY <1>16 DEF JoinDiscovery
  <2>4. FieldsOK'
    BY <1>16 DEF JoinDiscovery
  <2>5. ServerTypeOK'
    BY <1>16 DEF JoinDiscovery
  <2> QED
    BY <2>1, <2>2, <2>3, <2>4, <2>5
<1>17. ASSUME ShutdownServer, UNCHANGED interrupts PROVE TypeOK'
  <2>1. pc' \in Pcs
    BY <1>17 DEF ShutdownServer, RequestShutdown
  <2>2. PositionOK'
    BY <1>17 DEF ShutdownServer, RequestShutdown
  <2>3. WorldOK'
    BY <1>17 DEF ShutdownServer, RequestShutdown
  <2>4. FieldsOK'
    BY <1>17 DEF ShutdownServer, RequestShutdown
  <2>5. ServerTypeOK'
    BY <1>17 DEF ShutdownServer, RequestShutdown
  <2> QED
    BY <2>1, <2>2, <2>3, <2>4, <2>5
<1>18. ASSUME AwaitShutdown, UNCHANGED interrupts PROVE TypeOK'
  BY <1>18 DEF AwaitShutdown, ShutdownReturns
<1>19. ASSUME CloseServer, UNCHANGED interrupts PROVE TypeOK'
  BY <1>19 DEF CloseServer, ServerClose
<1>20. ASSUME JoinThread, UNCHANGED interrupts PROVE TypeOK'
  <2>1. pc' \in Pcs
    BY <1>20 DEF JoinThread
  <2>2. PositionOK'
    BY <1>20 DEF JoinThread
  <2>3. WorldOK'
    BY <1>20 DEF JoinThread
  <2>4. FieldsOK'
    BY <1>20 DEF JoinThread
  <2>5. ServerTypeOK'
    BY <1>20 DEF JoinThread
  <2> QED
    BY <2>1, <2>2, <2>3, <2>4, <2>5
<1>21. ASSUME ClearServers, UNCHANGED interrupts PROVE TypeOK'
  BY <1>21 DEF ClearServers
<1>22. ASSUME ClearThreads, UNCHANGED interrupts PROVE TypeOK'
  BY <1>22 DEF ClearThreads, FirstTerminated
<1>23. ASSUME NothingToTerminate, UNCHANGED interrupts PROVE TypeOK'
  <2>1. pc' \in Pcs
    BY <1>23 DEF NothingToTerminate, Referenced
  <2>2. PositionOK'
    BY <1>23 DEF NothingToTerminate, Referenced
  <2>3. WorldOK'
    BY <1>23 DEF NothingToTerminate, Referenced
  <2>4. FieldsOK'
    BY <1>23 DEF NothingToTerminate, Referenced
  <2>5. ServerTypeOK'
    BY <1>23 DEF NothingToTerminate, Referenced
  <2> QED
    BY <2>1, <2>2, <2>3, <2>4, <2>5
<1>24. ASSUME Terminate, UNCHANGED interrupts PROVE TypeOK'
  <2>1. pc' \in Pcs
    BY <1>24 DEF Terminate, AfterTerminate, AwaitSignalled, Referenced
  <2>2. PositionOK'
    BY <1>24 DEF Terminate, AfterTerminate, AwaitSignalled, Referenced
  <2>3. WorldOK'
    BY <1>24 DEF Terminate, AfterTerminate, AwaitSignalled, Referenced
  <2>4. FieldsOK'
    BY <1>24 DEF Terminate, AfterTerminate, AwaitSignalled, Referenced
  <2>5. ServerTypeOK'
    BY <1>24 DEF Terminate, AfterTerminate, AwaitSignalled, Referenced
  <2> QED
    BY <2>1, <2>2, <2>3, <2>4, <2>5
<1>25. ASSUME AwaitInterrupted, UNCHANGED interrupts PROVE TypeOK'
  BY <1>25 DEF AwaitInterrupted, AfterTerminate
<1>26. ASSUME AwaitKilled, UNCHANGED interrupts PROVE TypeOK'
  <2>1. pc' \in Pcs
    BY <1>26 DEF AwaitKilled, AfterTerminate
  <2>2. PositionOK'
    BY <1>26 DEF AwaitKilled, AfterTerminate
  <2>3. WorldOK'
    BY <1>26 DEF AwaitKilled, AfterTerminate
  <2>4. FieldsOK'
    BY <1>26 DEF AwaitKilled, AfterTerminate
  <2>5. ServerTypeOK'
    BY <1>26 DEF AwaitKilled, AfterTerminate
  <2> QED
    BY <2>1, <2>2, <2>3, <2>4, <2>5
<1>27. ASSUME ClearPublishers, UNCHANGED interrupts PROVE TypeOK'
  BY <1>27 DEF ClearPublishers
<1>28. ASSUME DropMediaMTX, UNCHANGED interrupts PROVE TypeOK'
  BY <1>28 DEF DropMediaMTX
<1>29. ASSUME Cleanup, UNCHANGED interrupts PROVE TypeOK'
  BY <1>29 DEF Cleanup
<1>30. ASSUME ContinueStop, UNCHANGED interrupts PROVE TypeOK'
  BY <1>30 DEF ContinueStop, GoRound
<1>31. ASSUME Return, UNCHANGED interrupts PROVE TypeOK'
  BY <1>31 DEF Return
<1>32. ASSUME Interrupt PROVE TypeOK'
  <2>1. pc' \in Pcs
    BY <1>32 DEF Interrupt
  <2>2. PositionOK'
    BY <1>32 DEF Interrupt
  <2>3. WorldOK'
    BY <1>32 DEF Interrupt
  <2>4. FieldsOK'
    BY <1>32 DEF Interrupt
  <2>5. ServerTypeOK'
    BY <1>32 DEF Interrupt
  <2> QED
    BY <2>1, <2>2, <2>3, <2>4, <2>5
<1>33. ASSUME Kill PROVE TypeOK'
  BY <1>33 DEF Kill
<1>34. ASSUME NEW d \in Devices, ServerThread(d) PROVE TypeOK'
  <2>1. pc' \in Pcs
    BY <1>34 DEF ServerThread, ServingThread, EnterLoop, LeaveLoop
  <2>2. PositionOK'
    BY <1>34 DEF ServerThread, ServingThread, EnterLoop, LeaveLoop
  <2>3. WorldOK'
    BY <1>34 DEF ServerThread, ServingThread, EnterLoop, LeaveLoop
  <2>4. FieldsOK'
    BY <1>34 DEF ServerThread, ServingThread, EnterLoop, LeaveLoop
  <2>5. ServerTypeOK'
    BY <1>34 DEF ServerThread, ServingThread, EnterLoop, LeaveLoop
  <2> QED
    BY <2>1, <2>2, <2>3, <2>4, <2>5
<1>35. ASSUME ResponderEnds PROVE TypeOK'
  BY <1>35 DEF ResponderEnds
<1>36. ASSUME NEW c \in Children, ChildExits(c) PROVE TypeOK'
  BY <1>36 DEF ChildExits
<1>37. ASSUME MediaMTXListens PROVE TypeOK'
  BY <1>37 DEF MediaMTXListens
<1>38. ASSUME UNCHANGED vars PROVE TypeOK'
  BY <1>38 DEF vars
<1> QED
  BY <1>1, <1>2, <1>3, <1>4, <1>5, <1>6, <1>7, <1>8, <1>9, <1>10, <1>11,
    <1>12, <1>13, <1>14, <1>15, <1>16, <1>17, <1>18, <1>19, <1>20, <1>21,
    <1>22, <1>23, <1>24, <1>25, <1>26, <1>27, <1>28, <1>29, <1>30, <1>31,
    <1>32, <1>33, <1>34, <1>35, <1>36, <1>37, <1>38 DEF Next, MainThread,
    Terminated

\* What the main thread knows of the children.
LEMMA ChildStep ==
  ASSUME IInv, [Next]_vars, NoLeave, TypeOK'
  PROVE  ChildInv'
<1> USE NumProfilesAssumption, NumDevicesAssumption, BoundsAssumption
    DEF IInv, NoLeave, Goto, Moves, Alive, MediaMTX, Publishers, Children,
      Devices, fields, world, serverVars, TypeOK, PositionOK, WorldOK,
      FieldsOK, ServerTypeOK, ChildStates, ChildInv, SpawnInv, ListInv,
      ChildrenTracked, TerminateInv, Referenced, Dead, Pcs, StartPcs,
      LoopPcs, StopPcs, GapPcs, TermPcs, BeforeSpawn, BeforePublish,
      BeforeServe, AllSpawned, PublishersDown, MediaMTXDown
<1>1. ASSUME LoadConfig, UNCHANGED interrupts PROVE ChildInv'
  BY <1>1 DEF LoadConfig
<1>2. ASSUME RequireBinaries, UNCHANGED interrupts PROVE ChildInv'
  BY <1>2 DEF RequireBinaries
<1>3. ASSUME MakeTempdir, UNCHANGED interrupts PROVE ChildInv'
  BY <1>3 DEF MakeTempdir
<1>4. ASSUME SpawnMediaMTX, UNCHANGED interrupts PROVE ChildInv'
  BY <1>4 DEF SpawnMediaMTX
<1>5. ASSUME PortPoll, UNCHANGED interrupts PROVE ChildInv'
  BY <1>5 DEF PortPoll
<1>6. ASSUME PortConnect, UNCHANGED interrupts PROVE ChildInv'
  BY <1>6 DEF PortConnect
<1>7. ASSUME StartPublisher, UNCHANGED interrupts PROVE ChildInv'
  <2>1. SpawnInv'
    BY <1>7 DEF StartPublisher, LastPublisher
  <2>2. ListInv'
    <3>1. CASE idx = LastPublisher
      <4>1. pc = "publish" /\ pc' = "serve" /\ publishers' = publishers \cup {idx}
        BY <1>7, <3>1 DEF StartPublisher
      <4>2. \A p \in Publishers : p \in publishers'
        BY <3>1, <4>1 DEF LastPublisher
      <4>3. publishers' = Publishers
        BY <4>1, <4>2
      <4> QED
        BY <4>1, <4>3
    <3>2. CASE idx # LastPublisher
      <4>1. pc' = "publish" /\ idx' = idx + 1 /\ publishers' = publishers \cup {idx}
        BY <1>7, <3>2 DEF StartPublisher, LastPublisher
      <4>2. pc = "publish"
        BY <1>7 DEF StartPublisher
      <4> QED
        BY <4>1, <4>2
    <3> QED
      BY <3>1, <3>2
  <2>3. ChildrenTracked'
    BY <1>7 DEF StartPublisher, LastPublisher
  <2>4. TerminateInv'
    BY <1>7 DEF StartPublisher, LastPublisher
  <2> QED
    BY <2>1, <2>2, <2>3, <2>4
<1>8. ASSUME StartServer, UNCHANGED interrupts PROVE ChildInv'
  BY <1>8 DEF StartServer, StartServing
<1>9. ASSUME StartDiscovery, UNCHANGED interrupts PROVE ChildInv'
  BY <1>9 DEF StartDiscovery
<1>10. ASSUME Started, UNCHANGED interrupts PROVE ChildInv'
  BY <1>10 DEF Started, FirstPolled
<1>11. ASSUME PollChild, UNCHANGED interrupts PROVE ChildInv'
  BY <1>11 DEF PollChild, LastPublisher
<1>12. ASSUME Sleep, UNCHANGED interrupts PROVE ChildInv'
  BY <1>12 DEF Sleep, FirstPolled
<1>13. ASSUME ShutdownRequested, UNCHANGED interrupts PROVE ChildInv'
  BY <1>13 DEF ShutdownRequested, AfterRequested
<1>14. ASSUME EnterStop, UNCHANGED interrupts PROVE ChildInv'
  BY <1>14 DEF EnterStop
<1>15. ASSUME StopDiscovery, UNCHANGED interrupts PROVE ChildInv'
  BY <1>15 DEF StopDiscovery
<1>16. ASSUME JoinDiscovery, UNCHANGED interrupts PROVE ChildInv'
  BY <1>16 DEF JoinDiscovery
<1>17. ASSUME ShutdownServer, UNCHANGED interrupts PROVE ChildInv'
  BY <1>17 DEF ShutdownServer, RequestShutdown
<1>18. ASSUME AwaitShutdown, UNCHANGED interrupts PROVE ChildInv'
  BY <1>18 DEF AwaitShutdown, ShutdownReturns
<1>19. ASSUME CloseServer, UNCHANGED interrupts PROVE ChildInv'
  BY <1>19 DEF CloseServer, ServerClose
<1>20. ASSUME JoinThread, UNCHANGED interrupts PROVE ChildInv'
  BY <1>20 DEF JoinThread
<1>21. ASSUME ClearServers, UNCHANGED interrupts PROVE ChildInv'
  BY <1>21 DEF ClearServers
<1>22. ASSUME ClearThreads, UNCHANGED interrupts PROVE ChildInv'
  BY <1>22 DEF ClearThreads, FirstTerminated
<1>23. ASSUME NothingToTerminate, UNCHANGED interrupts PROVE ChildInv'
  BY <1>23 DEF NothingToTerminate, Referenced
<1>24. ASSUME Terminate, UNCHANGED interrupts PROVE ChildInv'
  BY <1>24 DEF Terminate, AfterTerminate, AwaitSignalled, Referenced
<1>25. ASSUME AwaitInterrupted, UNCHANGED interrupts PROVE ChildInv'
  BY <1>25 DEF AwaitInterrupted, AfterTerminate
<1>26. ASSUME AwaitKilled, UNCHANGED interrupts PROVE ChildInv'
  BY <1>26 DEF AwaitKilled, AfterTerminate
<1>27. ASSUME ClearPublishers, UNCHANGED interrupts PROVE ChildInv'
  BY <1>27 DEF ClearPublishers
<1>28. ASSUME DropMediaMTX, UNCHANGED interrupts PROVE ChildInv'
  BY <1>28 DEF DropMediaMTX
<1>29. ASSUME Cleanup, UNCHANGED interrupts PROVE ChildInv'
  BY <1>29 DEF Cleanup
<1>30. ASSUME ContinueStop, UNCHANGED interrupts PROVE ChildInv'
  BY <1>30 DEF ContinueStop, GoRound
<1>31. ASSUME Return, UNCHANGED interrupts PROVE ChildInv'
  BY <1>31 DEF Return
<1>32. ASSUME Interrupt PROVE ChildInv'
  BY <1>32 DEF Interrupt
<1>33. ASSUME Kill PROVE ChildInv'
  BY <1>33 DEF Kill
<1>34. ASSUME NEW d \in Devices, ServerThread(d) PROVE ChildInv'
  BY <1>34 DEF ServerThread, ServingThread, EnterLoop, LeaveLoop
<1>35. ASSUME ResponderEnds PROVE ChildInv'
  BY <1>35 DEF ResponderEnds
<1>36. ASSUME NEW c \in Children, ChildExits(c) PROVE ChildInv'
  BY <1>36 DEF ChildExits
<1>37. ASSUME MediaMTXListens PROVE ChildInv'
  BY <1>37 DEF MediaMTXListens
<1>38. ASSUME UNCHANGED vars PROVE ChildInv'
  BY <1>38 DEF vars
<1> QED
  BY <1>1, <1>2, <1>3, <1>4, <1>5, <1>6, <1>7, <1>8, <1>9, <1>10, <1>11,
    <1>12, <1>13, <1>14, <1>15, <1>16, <1>17, <1>18, <1>19, <1>20, <1>21,
    <1>22, <1>23, <1>24, <1>25, <1>26, <1>27, <1>28, <1>29, <1>30, <1>31,
    <1>32, <1>33, <1>34, <1>35, <1>36, <1>37, <1>38 DEF Next, MainThread,
    Terminated

\* What the main thread knows of the endpoints and their threads.
LEMMA EndpointStep ==
  ASSUME IInv, [Next]_vars, NoLeave, TypeOK'
  PROVE  EndpointInv'
<1> USE NumProfilesAssumption, NumDevicesAssumption, BoundsAssumption
    DEF IInv, NoLeave, Goto, Moves, Alive, MediaMTX, Publishers, Children,
      Devices, fields, world, serverVars, TypeOK, PositionOK, WorldOK,
      FieldsOK, ServerTypeOK, ChildStates, EndpointInv, ServerInv,
      NoCloseUnderServe, Pcs, StartPcs, LoopPcs, StopPcs, GapPcs,
      BeforeSpawn, BeforePublish, BeforeServe, AllSpawned, AllServing,
      DiscoveryDown, ClosingPcs, ServersDown
<1>1. ASSUME LoadConfig, UNCHANGED interrupts PROVE EndpointInv'
  BY <1>1 DEF LoadConfig
<1>2. ASSUME RequireBinaries, UNCHANGED interrupts PROVE EndpointInv'
  BY <1>2 DEF RequireBinaries
<1>3. ASSUME MakeTempdir, UNCHANGED interrupts PROVE EndpointInv'
  BY <1>3 DEF MakeTempdir
<1>4. ASSUME SpawnMediaMTX, UNCHANGED interrupts PROVE EndpointInv'
  BY <1>4 DEF SpawnMediaMTX
<1>5. ASSUME PortPoll, UNCHANGED interrupts PROVE EndpointInv'
  BY <1>5 DEF PortPoll
<1>6. ASSUME PortConnect, UNCHANGED interrupts PROVE EndpointInv'
  BY <1>6 DEF PortConnect
<1>7. ASSUME StartPublisher, UNCHANGED interrupts PROVE EndpointInv'
  BY <1>7 DEF StartPublisher, LastPublisher
<1>8. ASSUME StartServer, UNCHANGED interrupts PROVE EndpointInv'
  <2>1. ServerInv'
    <3>1. /\ pc = "serve"
          /\ servers' = servers \cup {idx} /\ threads' = threads \cup {idx}
          /\ socket' = [socket EXCEPT ![idx] = "open"]
          /\ loop' = [loop EXCEPT ![idx] = "started"]
          /\ isShutDown' = isShutDown
      BY <1>8 DEF StartServer, StartServing
    <3>2. CASE idx = NumDevices
      <4>1. pc' = "discover"
        BY <1>8, <3>1, <3>2 DEF StartServer
      <4>2. \A d \in Devices : d \in servers'
        BY <3>1, <3>2
      <4>3. servers' = Devices
        BY <3>1, <4>2
      <4> QED
        BY <3>1, <4>1, <4>3
    <3>3. CASE idx # NumDevices
      <4>1. pc' = "serve" /\ idx' = idx + 1
        BY <1>8, <3>3 DEF StartServer
      <4> QED
        BY <3>1, <4>1
    <3> QED
      BY <3>2, <3>3
  <2>2. NoCloseUnderServe'
    BY <1>8 DEF StartServer, StartServing
  <2> QED
    BY <2>1, <2>2
<1>9. ASSUME StartDiscovery, UNCHANGED interrupts PROVE EndpointInv'
  BY <1>9 DEF StartDiscovery
<1>10. ASSUME Started, UNCHANGED interrupts PROVE EndpointInv'
  BY <1>10 DEF Started, FirstPolled
<1>11. ASSUME PollChild, UNCHANGED interrupts PROVE EndpointInv'
  BY <1>11 DEF PollChild, LastPublisher
<1>12. ASSUME Sleep, UNCHANGED interrupts PROVE EndpointInv'
  BY <1>12 DEF Sleep, FirstPolled
<1>13. ASSUME ShutdownRequested, UNCHANGED interrupts PROVE EndpointInv'
  BY <1>13 DEF ShutdownRequested, AfterRequested
<1>14. ASSUME EnterStop, UNCHANGED interrupts PROVE EndpointInv'
  BY <1>14 DEF EnterStop
<1>15. ASSUME StopDiscovery, UNCHANGED interrupts PROVE EndpointInv'
  BY <1>15 DEF StopDiscovery
<1>16. ASSUME JoinDiscovery, UNCHANGED interrupts PROVE EndpointInv'
  BY <1>16 DEF JoinDiscovery
<1>17. ASSUME ShutdownServer, UNCHANGED interrupts PROVE EndpointInv'
  BY <1>17 DEF ShutdownServer, RequestShutdown
<1>18. ASSUME AwaitShutdown, UNCHANGED interrupts PROVE EndpointInv'
  BY <1>18 DEF AwaitShutdown, ShutdownReturns
<1>19. ASSUME CloseServer, UNCHANGED interrupts PROVE EndpointInv'
  BY <1>19 DEF CloseServer, ServerClose
<1>20. ASSUME JoinThread, UNCHANGED interrupts PROVE EndpointInv'
  BY <1>20 DEF JoinThread
<1>21. ASSUME ClearServers, UNCHANGED interrupts PROVE EndpointInv'
  BY <1>21 DEF ClearServers
<1>22. ASSUME ClearThreads, UNCHANGED interrupts PROVE EndpointInv'
  BY <1>22 DEF ClearThreads, FirstTerminated
<1>23. ASSUME NothingToTerminate, UNCHANGED interrupts PROVE EndpointInv'
  BY <1>23 DEF NothingToTerminate, Referenced
<1>24. ASSUME Terminate, UNCHANGED interrupts PROVE EndpointInv'
  BY <1>24 DEF Terminate, AfterTerminate, AwaitSignalled, Referenced
<1>25. ASSUME AwaitInterrupted, UNCHANGED interrupts PROVE EndpointInv'
  BY <1>25 DEF AwaitInterrupted, AfterTerminate
<1>26. ASSUME AwaitKilled, UNCHANGED interrupts PROVE EndpointInv'
  BY <1>26 DEF AwaitKilled, AfterTerminate
<1>27. ASSUME ClearPublishers, UNCHANGED interrupts PROVE EndpointInv'
  BY <1>27 DEF ClearPublishers
<1>28. ASSUME DropMediaMTX, UNCHANGED interrupts PROVE EndpointInv'
  BY <1>28 DEF DropMediaMTX
<1>29. ASSUME Cleanup, UNCHANGED interrupts PROVE EndpointInv'
  BY <1>29 DEF Cleanup
<1>30. ASSUME ContinueStop, UNCHANGED interrupts PROVE EndpointInv'
  BY <1>30 DEF ContinueStop, GoRound
<1>31. ASSUME Return, UNCHANGED interrupts PROVE EndpointInv'
  BY <1>31 DEF Return
<1>32. ASSUME Interrupt PROVE EndpointInv'
  BY <1>32 DEF Interrupt
<1>33. ASSUME Kill PROVE EndpointInv'
  BY <1>33 DEF Kill
<1>34. ASSUME NEW d \in Devices, ServerThread(d) PROVE EndpointInv'
  <2>1. ServerInv'
    <3>1. CASE EnterLoop(d)
      BY <1>34, <3>1 DEF ServerThread, EnterLoop
    <3>2. CASE LeaveLoop(d)
      BY <1>34, <3>2 DEF ServerThread, LeaveLoop
    <3> QED
      BY <1>34, <3>1, <3>2 DEF ServerThread, ServingThread
  <2>2. NoCloseUnderServe'
    BY <1>34 DEF ServerThread, ServingThread, EnterLoop, LeaveLoop
  <2> QED
    BY <2>1, <2>2
<1>35. ASSUME ResponderEnds PROVE EndpointInv'
  BY <1>35 DEF ResponderEnds
<1>36. ASSUME NEW c \in Children, ChildExits(c) PROVE EndpointInv'
  BY <1>36 DEF ChildExits
<1>37. ASSUME MediaMTXListens PROVE EndpointInv'
  BY <1>37 DEF MediaMTXListens
<1>38. ASSUME UNCHANGED vars PROVE EndpointInv'
  BY <1>38 DEF vars
<1> QED
  BY <1>1, <1>2, <1>3, <1>4, <1>5, <1>6, <1>7, <1>8, <1>9, <1>10, <1>11,
    <1>12, <1>13, <1>14, <1>15, <1>16, <1>17, <1>18, <1>19, <1>20, <1>21,
    <1>22, <1>23, <1>24, <1>25, <1>26, <1>27, <1>28, <1>29, <1>30, <1>31,
    <1>32, <1>33, <1>34, <1>35, <1>36, <1>37, <1>38 DEF Next, MainThread,
    Terminated

\* The responder, and what has been spawned when somebody can be served.
LEMMA ResponderStep ==
  ASSUME IInv, [Next]_vars, NoLeave, TypeOK'
  PROVE  ServiceInv'
<1> USE NumProfilesAssumption, NumDevicesAssumption, BoundsAssumption
    DEF IInv, NoLeave, Goto, Moves, Alive, MediaMTX, Publishers, Children,
      Devices, fields, world, serverVars, TypeOK, PositionOK, WorldOK,
      FieldsOK, ServerTypeOK, ChildStates, ServiceInv, ResponderInv,
      ServedAfterMedia, ChildInv, SpawnInv, Pcs, StartPcs, LoopPcs, StopPcs,
      GapPcs, BeforeSpawn, BeforePublish, BeforeServe, AllSpawned,
      DiscoveryDown
<1>1. ASSUME LoadConfig, UNCHANGED interrupts PROVE ServiceInv'
  BY <1>1 DEF LoadConfig
<1>2. ASSUME RequireBinaries, UNCHANGED interrupts PROVE ServiceInv'
  BY <1>2 DEF RequireBinaries
<1>3. ASSUME MakeTempdir, UNCHANGED interrupts PROVE ServiceInv'
  BY <1>3 DEF MakeTempdir
<1>4. ASSUME SpawnMediaMTX, UNCHANGED interrupts PROVE ServiceInv'
  BY <1>4 DEF SpawnMediaMTX
<1>5. ASSUME PortPoll, UNCHANGED interrupts PROVE ServiceInv'
  BY <1>5 DEF PortPoll
<1>6. ASSUME PortConnect, UNCHANGED interrupts PROVE ServiceInv'
  BY <1>6 DEF PortConnect
<1>7. ASSUME StartPublisher, UNCHANGED interrupts PROVE ServiceInv'
  BY <1>7 DEF StartPublisher, LastPublisher
<1>8. ASSUME StartServer, UNCHANGED interrupts PROVE ServiceInv'
  BY <1>8 DEF StartServer, StartServing
<1>9. ASSUME StartDiscovery, UNCHANGED interrupts PROVE ServiceInv'
  BY <1>9 DEF StartDiscovery
<1>10. ASSUME Started, UNCHANGED interrupts PROVE ServiceInv'
  BY <1>10 DEF Started, FirstPolled
<1>11. ASSUME PollChild, UNCHANGED interrupts PROVE ServiceInv'
  BY <1>11 DEF PollChild, LastPublisher
<1>12. ASSUME Sleep, UNCHANGED interrupts PROVE ServiceInv'
  BY <1>12 DEF Sleep, FirstPolled
<1>13. ASSUME ShutdownRequested, UNCHANGED interrupts PROVE ServiceInv'
  BY <1>13 DEF ShutdownRequested, AfterRequested
<1>14. ASSUME EnterStop, UNCHANGED interrupts PROVE ServiceInv'
  BY <1>14 DEF EnterStop
<1>15. ASSUME StopDiscovery, UNCHANGED interrupts PROVE ServiceInv'
  BY <1>15 DEF StopDiscovery
<1>16. ASSUME JoinDiscovery, UNCHANGED interrupts PROVE ServiceInv'
  BY <1>16 DEF JoinDiscovery
<1>17. ASSUME ShutdownServer, UNCHANGED interrupts PROVE ServiceInv'
  BY <1>17 DEF ShutdownServer, RequestShutdown
<1>18. ASSUME AwaitShutdown, UNCHANGED interrupts PROVE ServiceInv'
  BY <1>18 DEF AwaitShutdown, ShutdownReturns
<1>19. ASSUME CloseServer, UNCHANGED interrupts PROVE ServiceInv'
  BY <1>19 DEF CloseServer, ServerClose
<1>20. ASSUME JoinThread, UNCHANGED interrupts PROVE ServiceInv'
  BY <1>20 DEF JoinThread
<1>21. ASSUME ClearServers, UNCHANGED interrupts PROVE ServiceInv'
  BY <1>21 DEF ClearServers
<1>22. ASSUME ClearThreads, UNCHANGED interrupts PROVE ServiceInv'
  BY <1>22 DEF ClearThreads, FirstTerminated
<1>23. ASSUME NothingToTerminate, UNCHANGED interrupts PROVE ServiceInv'
  BY <1>23 DEF NothingToTerminate, Referenced
<1>24. ASSUME Terminate, UNCHANGED interrupts PROVE ServiceInv'
  BY <1>24 DEF Terminate, AfterTerminate, AwaitSignalled, Referenced
<1>25. ASSUME AwaitInterrupted, UNCHANGED interrupts PROVE ServiceInv'
  BY <1>25 DEF AwaitInterrupted, AfterTerminate
<1>26. ASSUME AwaitKilled, UNCHANGED interrupts PROVE ServiceInv'
  BY <1>26 DEF AwaitKilled, AfterTerminate
<1>27. ASSUME ClearPublishers, UNCHANGED interrupts PROVE ServiceInv'
  BY <1>27 DEF ClearPublishers
<1>28. ASSUME DropMediaMTX, UNCHANGED interrupts PROVE ServiceInv'
  BY <1>28 DEF DropMediaMTX
<1>29. ASSUME Cleanup, UNCHANGED interrupts PROVE ServiceInv'
  BY <1>29 DEF Cleanup
<1>30. ASSUME ContinueStop, UNCHANGED interrupts PROVE ServiceInv'
  BY <1>30 DEF ContinueStop, GoRound
<1>31. ASSUME Return, UNCHANGED interrupts PROVE ServiceInv'
  BY <1>31 DEF Return
<1>32. ASSUME Interrupt PROVE ServiceInv'
  BY <1>32 DEF Interrupt
<1>33. ASSUME Kill PROVE ServiceInv'
  BY <1>33 DEF Kill
<1>34. ASSUME NEW d \in Devices, ServerThread(d) PROVE ServiceInv'
  BY <1>34 DEF ServerThread, ServingThread, EnterLoop, LeaveLoop
<1>35. ASSUME ResponderEnds PROVE ServiceInv'
  BY <1>35 DEF ResponderEnds
<1>36. ASSUME NEW c \in Children, ChildExits(c) PROVE ServiceInv'
  BY <1>36 DEF ChildExits
<1>37. ASSUME MediaMTXListens PROVE ServiceInv'
  BY <1>37 DEF MediaMTXListens
<1>38. ASSUME UNCHANGED vars PROVE ServiceInv'
  BY <1>38 DEF vars
<1> QED
  BY <1>1, <1>2, <1>3, <1>4, <1>5, <1>6, <1>7, <1>8, <1>9, <1>10, <1>11,
    <1>12, <1>13, <1>14, <1>15, <1>16, <1>17, <1>18, <1>19, <1>20, <1>21,
    <1>22, <1>23, <1>24, <1>25, <1>26, <1>27, <1>28, <1>29, <1>30, <1>31,
    <1>32, <1>33, <1>34, <1>35, <1>36, <1>37, <1>38 DEF Next, MainThread,
    Terminated

-----------------------------------------------------------------------------
(* The inductive invariant and what follows from it.                       *)

\* Every step keeps IInv.
THEOREM IInvStep == IInv /\ [Next]_vars => IInv'
<1> SUFFICES ASSUME IInv, [Next]_vars PROVE IInv'
  OBVIOUS
<1>1. ASSUME NEW status \in Statuses, Leave(status) PROVE IInv'
  BY <1>1, InterruptsBounded, LeaveKeepsIInv
<1>2. ASSUME \A status \in Statuses : ~Leave(status) PROVE IInv'
  <2>1. NoLeave
    BY <1>2 DEF NoLeave, Statuses
  <2>2. TypeOK'
    BY <2>1, TypeStep
  <2> QED
    BY <2>1, <2>2, ChildStep, EndpointStep, ResponderStep DEF IInv
<1> QED
  BY <1>1, <1>2

\* IInv is an invariant of every run.
THEOREM Invariance == Spec => []IInv
  BY InitIInv, IInvStep, PTL DEF Spec

\* Type correctness, with the bounds of every loop of the main thread.
THEOREM TypeCorrect == Spec => []TypeOK
<1>1. IInv => TypeOK
  BY DEF IInv
<1> QED
  BY <1>1, Invariance, PTL

\* When stop() has returned nothing of the run is left, however often it was
\* interrupted and run again.
THEOREM StopReleases == Spec => []StopReleasesEverything
<1>1. IInv => StopReleasesEverything
  <2> SUFFICES ASSUME IInv, pc = "stopped" PROVE StopReleasesEverything
    BY DEF StopReleasesEverything
  <2>1. \A c \in Children : child[c] \notin Alive
    BY NumProfilesAssumption
       DEF IInv, ChildInv, TerminateInv, PublishersDown, MediaMTXDown, Dead,
           Children, Publishers, MediaMTX
  <2>2. \A d \in Devices : socket[d] # "open"
    BY DEF IInv, EndpointInv, ServerInv, ServersDown, DiscoveryDown, ClosingPcs
  <2>3. \A d \in Devices : loop[d] \in {"none", "ended"}
    BY <2>2 DEF IInv, TypeOK, ServerTypeOK, EndpointInv, ServerInv,
                NoCloseUnderServe
  <2>4. responder # "running" /\ ~tempdir
    BY DEF IInv, ServiceInv, ResponderInv, DiscoveryDown, ChildInv, TerminateInv
  <2> QED
    BY <2>1, <2>2, <2>3, <2>4 DEF StopReleasesEverything
<1> QED
  BY <1>1, Invariance, PTL

\* stop() can reach every live child until the process ends.
THEOREM Tracked == Spec => []ChildrenTracked
<1>1. IInv => ChildrenTracked
  BY DEF IInv, ChildInv
<1> QED
  BY <1>1, Invariance, PTL

\* No socket is closed under its serve_forever.
THEOREM CloseAfterServe == Spec => []NoCloseUnderServe
<1>1. IInv => NoCloseUnderServe
  BY DEF IInv, EndpointInv
<1> QED
  BY <1>1, Invariance, PTL

\* Nobody is served before every child was started.
THEOREM MediaFirst == Spec => []ServedAfterMedia
<1>1. IInv => ServedAfterMedia
  BY DEF IInv, ServiceInv
<1> QED
  BY <1>1, Invariance, PTL

-----------------------------------------------------------------------------
(* The order in which children are signalled.                              *)

\* Only two statements signal a child, and both do it in order.
LEMMA SignalStep ==
  ASSUME IInv, [Next]_vars
  PROVE  SignalsInOrder
<1> USE NumProfilesAssumption
    DEF Goto, Moves, IInv, TypeOK, WorldOK, FieldsOK, PositionOK, ChildStates, Children,
        Publishers, MediaMTX
<1>1. ASSUME pc \in {"term", "termWait"}, NEW c \in Children, Signals(c),
             c = idx
      PROVE  /\ \A d \in Devices : socket[d] # "open"
             /\ responder # "running"
             /\ c = MediaMTX => \A p \in Publishers : child[p] \notin Alive
  <2>1. \A d \in Devices : socket[d] # "open"
    BY <1>1 DEF EndpointInv, ServerInv, ServersDown, DiscoveryDown, StopPcs,
                ClosingPcs
  <2>2. responder # "running"
    BY <1>1 DEF ServiceInv, ResponderInv, DiscoveryDown, StopPcs
  <2>3. c = MediaMTX => \A p \in Publishers : child[p] \notin Alive
    BY <1>1 DEF ChildInv, TerminateInv, TermPcs, Dead
  <2> QED
    BY <2>1, <2>2, <2>3
<1>2. ASSUME Terminate PROVE SignalsInOrder
  <2>1. ASSUME NEW c \in Children, Signals(c)
        PROVE  c = idx /\ child'[c] # "killed"
    BY <1>2, <2>1 DEF Terminate, Signals
  <2>2. pc = "term"
    BY <1>2 DEF Terminate
  <2> QED
    BY <1>1, <2>1, <2>2 DEF SignalsInOrder
<1>3. ASSUME AwaitInterrupted PROVE SignalsInOrder
  <2>1. pc = "termWait" /\ child[idx] # "running" /\ child[idx] # "none"
    BY <1>3 DEF AwaitInterrupted, ChildInv, SpawnInv, TerminateInv, AllSpawned,
                Pcs, StopPcs, BeforeServe, BeforePublish, BeforeSpawn
  <2>2. ASSUME NEW c \in Children, Signals(c)
        PROVE  c = idx /\ child[c] = "interrupted"
    BY <1>3, <2>1, <2>2 DEF AwaitInterrupted, Signals
  <2> QED
    BY <1>1, <2>1, <2>2 DEF SignalsInOrder
<1>4. ASSUME ~Terminate, ~AwaitInterrupted PROVE SignalsInOrder
  <2>1. ASSUME NEW c \in Children PROVE ~Signals(c)
    <3>1. CASE UNCHANGED child
      BY <3>1 DEF Signals
    <3>2. CASE SpawnMediaMTX
      BY <3>2 DEF SpawnMediaMTX, Leave, Signals
    <3>3. CASE StartPublisher
      BY <3>3 DEF StartPublisher, Leave, Signals
    <3>4. CASE \E x \in Children : ChildExits(x)
      BY <3>4 DEF ChildExits, Signals
    <3>5. ASSUME MainThread, ~SpawnMediaMTX, ~StartPublisher
          PROVE  UNCHANGED child
      BY <1>4, <3>5
         DEF MainThread, world, Leave, LoadConfig, RequireBinaries, MakeTempdir,
             PortPoll, PortConnect, StartServer, StartDiscovery, Started,
             PollChild, Sleep, ShutdownRequested, EnterStop, StopDiscovery,
             JoinDiscovery, ShutdownServer, AwaitShutdown, CloseServer,
             JoinThread, ClearServers, ClearThreads, NothingToTerminate,
             AwaitKilled, ClearPublishers, DropMediaMTX, Cleanup,
             ContinueStop, Return
    <3>6. ASSUME ~MainThread, \A x \in Children : ~ChildExits(x)
          PROVE  UNCHANGED child
      BY <3>6 DEF Next, vars, world, Leave, Interrupt, Kill, ServerThread,
                  ResponderEnds, MediaMTXListens, Terminated
    <3> QED
      BY <3>1, <3>2, <3>3, <3>4, <3>5, <3>6
  <2> QED
    BY <2>1 DEF SignalsInOrder
<1> QED
  BY <1>2, <1>3, <1>4

\* Children are signalled in order in every run.
THEOREM Orderly == Spec => OrderlyShutdown
<1>1. IInv /\ [Next]_vars => [SignalsInOrder]_vars
  BY SignalStep
<1> QED
  BY <1>1, Invariance, PTL DEF Spec, OrderlyShutdown

-----------------------------------------------------------------------------
(* Runtime implements Supervisor.                                          *)

\* The end of the process is the abstract End, where that allows the status.
LEMMA LeaveIsEnd ==
  ASSUME NEW status \in Statuses, Leave(status), pc # "exited",
         \/ status = "killed"
         \/ status # "ok" /\ pc \in StartPcs
         \/ status \in {"traceback", "interrupted"} /\ pc \notin LoopPcs
         \/ pc = "stopped" /\ (\A c \in Children : Dead(c))
                           /\ status \in {"ok", "error", "interrupted"}
  PROVE  Abstract!Next
<1>1. Phase' = "ended" /\ Spawned' = Spawned /\ Living' = Living /\ exit' = status
  BY DEF Leave, Phase, StartPcs, LoopPcs, Spawned, Living
<1>2. Phase # "ended"
  BY DEF Phase
<1>3. Abstract!MayEnd(status)
  <2>1. CASE pc \in StartPcs
    BY <2>1 DEF Phase, Abstract!MayEnd, Statuses, StartPcs
  <2>2. CASE pc = "stopped" /\ \A c \in Children : Dead(c)
    <3>1. Living = {}
      BY <2>2 DEF Living, Dead
    <3>2. Phase = "stopping"
      BY <2>2 DEF Phase, StartPcs, LoopPcs
    <3> QED
      BY <3>1, <3>2 DEF Abstract!MayEnd, Statuses
  <2>3. CASE /\ pc \notin StartPcs \cup LoopPcs
             /\ status \in {"traceback", "interrupted"}
    BY <2>3 DEF Phase, Abstract!MayEnd
  <2>4. CASE status = "killed"
    BY <2>4 DEF Abstract!MayEnd
  <2> QED
    BY <2>1, <2>2, <2>3, <2>4
<1>4. Abstract!End(status)
  BY <1>1, <1>2, <1>3 DEF Abstract!End
<1> QED
  BY <1>4 DEF Abstract!Next, Statuses

\* A step within a phase that starts and ends no child.
LEMMA PhaseKept ==
  ASSUME UNCHANGED <<child, exit>>, Phase' = Phase
  PROVE  UNCHANGED Abstract!vars
BY DEF Abstract!vars, Spawned, Living

\* Every step of a run is a step of Supervisor or a stutter.
LEMMA AbstractStep ==
  ASSUME IInv, IInv', [Next]_vars
  PROVE  [Abstract!Next]_(Abstract!vars)
<1> USE NumProfilesAssumption
<1> USE DEF Children, Publishers, MediaMTX, Goto, Moves
<1>1. /\ child \in [Children -> ChildStates]
      /\ PositionOK /\ PositionOK'
      /\ SpawnInv /\ SpawnInv'
  BY DEF IInv, TypeOK, WorldOK, ChildInv
<1>2. ASSUME NEW status \in Statuses, Leave(status), pc \in StartPcs, status # "ok"
      PROVE  Abstract!Next
  BY <1>2, LeaveIsEnd DEF StartPcs
<1>3. ASSUME NEW c \in Children, child[c] = "none",
             child' = [child EXCEPT ![c] = "running"], exit' = exit,
             pc \in StartPcs, pc' \in StartPcs
      PROVE  Abstract!Next
  <2>1. Phase = "starting" /\ Phase' = Phase
    BY <1>3 DEF Phase
  <2>2. Spawned' = Spawned \cup {c} /\ Living' = Living \cup {c} /\ c \notin Spawned
    BY <1>1, <1>3 DEF Spawned, Living, Alive
  <2>3. Abstract!Spawn(c)
    BY <1>3, <2>1, <2>2 DEF Abstract!Spawn
  <2> QED
    BY <2>3 DEF Abstract!Next
<1>4. ASSUME \/ LoadConfig \/ RequireBinaries \/ MakeTempdir \/ PortPoll
             \/ PortConnect \/ StartServer \/ StartDiscovery
      PROVE  [Abstract!Next]_(Abstract!vars)
  <2>1. \/ Leave("error") /\ pc \in StartPcs
        \/ Leave("traceback") /\ pc \in StartPcs
        \/ pc \in StartPcs /\ pc' \in StartPcs /\ UNCHANGED <<child, exit>>
    BY <1>4 DEF LoadConfig, RequireBinaries, MakeTempdir, PortPoll, PortConnect,
                StartServer, StartDiscovery, world, StartPcs
  <2>2. CASE Leave("error") /\ pc \in StartPcs
    BY <1>2, <2>2 DEF Statuses
  <2>3. CASE Leave("traceback") /\ pc \in StartPcs
    BY <1>2, <2>3 DEF Statuses
  <2>4. CASE pc \in StartPcs /\ pc' \in StartPcs /\ UNCHANGED <<child, exit>>
    BY <2>4, PhaseKept DEF Phase
  <2> QED
    BY <2>1, <2>2, <2>3, <2>4
<1>5. ASSUME SpawnMediaMTX PROVE [Abstract!Next]_(Abstract!vars)
  <2>1. CASE Leave("traceback")
    BY <1>2, <1>5, <2>1 DEF SpawnMediaMTX, StartPcs, Statuses
  <2>2. CASE ~Leave("traceback")
    BY <1>1, <1>3, <1>5, <2>2 DEF SpawnMediaMTX, StartPcs, SpawnInv, BeforeSpawn
  <2> QED
    BY <2>1, <2>2
<1>6. ASSUME StartPublisher PROVE [Abstract!Next]_(Abstract!vars)
  <2>1. CASE Leave("traceback")
    BY <1>2, <1>6, <2>1 DEF StartPublisher, StartPcs, Statuses
  <2>2. CASE ~Leave("traceback")
    <3>1. idx \in Children /\ child[idx] = "none"
      BY <1>1, <1>6 DEF StartPublisher, SpawnInv, PositionOK
    <3> QED
      BY <1>3, <1>6, <2>2, <3>1 DEF StartPublisher, StartPcs
  <2> QED
    BY <2>1, <2>2
<1>7. ASSUME Started PROVE [Abstract!Next]_(Abstract!vars)
  <2>1. /\ Phase = "starting" /\ Phase' = "serving"
        /\ UNCHANGED <<child, exit>>
    BY <1>7 DEF Started, Phase, StartPcs, LoopPcs, world
  <2>2. Spawned = Children
    BY <1>1, <1>7 DEF Started, Spawned, SpawnInv, AllSpawned, Pcs, StartPcs,
                      BeforeServe, BeforePublish, BeforeSpawn
  <2>3. Abstract!GoLive
    BY <2>1, <2>2 DEF Abstract!GoLive, Spawned, Living
  <2> QED
    BY <2>3 DEF Abstract!Next
<1>8. ASSUME pc \in LoopPcs, pc' \in {"guard", "requested"}, UNCHANGED <<child, exit>>
      PROVE  Abstract!Next
  <2>1. Phase = "serving" /\ Phase' = "stopping"
    BY <1>8 DEF Phase, StartPcs, LoopPcs
  <2>2. Abstract!BeginStop
    BY <1>8, <2>1 DEF Abstract!BeginStop, Spawned, Living
  <2> QED
    BY <2>2 DEF Abstract!Next
<1>9. ASSUME PollChild \/ Sleep PROVE [Abstract!Next]_(Abstract!vars)
  <2>1. /\ pc \in LoopPcs /\ pc' \in LoopPcs \cup {"guard"}
        /\ UNCHANGED <<child, exit>>
    BY <1>9 DEF PollChild, Sleep, world, LoopPcs
  <2>2. CASE pc' = "guard"
    BY <1>8, <2>1, <2>2
  <2>3. CASE pc' \in LoopPcs
    BY <2>1, <2>3, PhaseKept DEF Phase, LoopPcs, StartPcs
  <2> QED
    BY <2>1, <2>2, <2>3
<1> DEFINE Stopping == {"requested", "stopped"} \cup GapPcs \cup StopPcs
<1>11. pc \in Stopping => Phase = "stopping"
  BY DEF Phase, StartPcs, LoopPcs, GapPcs, StopPcs
<1>12. pc' \in Stopping => Phase' = "stopping"
  BY DEF Phase, StartPcs, LoopPcs, GapPcs, StopPcs
<1>13. ASSUME \/ ShutdownRequested \/ EnterStop \/ StopDiscovery
              \/ JoinDiscovery \/ ShutdownServer \/ AwaitShutdown
              \/ CloseServer \/ JoinThread \/ ClearServers \/ ClearThreads
              \/ NothingToTerminate \/ ClearPublishers \/ DropMediaMTX
              \/ ContinueStop
       PROVE  [Abstract!Next]_(Abstract!vars)
  <2>1. pc \in Stopping /\ pc' \in Stopping /\ UNCHANGED <<child, exit>>
    BY <1>13 DEF ShutdownRequested, AfterRequested, EnterStop, StopDiscovery,
                 JoinDiscovery, ShutdownServer, AwaitShutdown, CloseServer,
                 JoinThread, ClearServers, ClearThreads, NothingToTerminate,
                 ClearPublishers, DropMediaMTX, ContinueStop, GoRound, world,
                 StopPcs, GapPcs
  <2> QED
    BY <1>11, <1>12, <2>1, PhaseKept
<1>14. ASSUME Terminate \/ AwaitInterrupted PROVE UNCHANGED Abstract!vars
  <2>1. /\ pc \in Stopping /\ pc' \in Stopping /\ exit' = exit
        /\ idx \in Children
    BY <1>1, <1>14, NumProfilesAssumption
       DEF Terminate, AwaitInterrupted, AfterTerminate, AwaitSignalled, StopPcs,
           GapPcs, PositionOK, Referenced, IInv, TypeOK, FieldsOK
  <2>2. child[idx] # "none"
    BY <1>1, <1>14, <2>1 DEF Terminate, AwaitInterrupted, SpawnInv, AllSpawned,
       Pcs, StopPcs, BeforeServe, BeforePublish, BeforeSpawn
  <2>3. \A c \in Children : /\ (child'[c] # "none") <=> (child[c] # "none")
                            /\ (child'[c] \in Alive) <=> (child[c] \in Alive)
    BY <1>1, <1>14, <2>1, <2>2 DEF Terminate, AwaitInterrupted, Alive, ChildStates
  <2>4. Spawned' = Spawned /\ Living' = Living
    BY <2>3 DEF Spawned, Living
  <2> QED
    BY <1>11, <1>12, <2>1, <2>4 DEF Abstract!vars
<1>15. ASSUME AwaitKilled \/ Cleanup PROVE [Abstract!Next]_(Abstract!vars)
  <2>1. CASE Leave("traceback")
    BY <1>15, <2>1, LeaveIsEnd DEF AwaitKilled, Cleanup, Statuses, LoopPcs
  <2>2. CASE ~Leave("traceback")
    <3>1. pc \in Stopping /\ pc' \in Stopping /\ UNCHANGED <<child, exit>>
      BY <1>15, <2>2 DEF AwaitKilled, Cleanup, AfterTerminate, world, StopPcs
    <3> QED
      BY <1>11, <1>12, <3>1, PhaseKept
  <2> QED
    BY <2>1, <2>2
<1>16. ASSUME Return PROVE Abstract!Next
  <2>1. PICK status \in {"ok", "error", "interrupted"} : Leave(status)
    BY <1>16 DEF Return
  <2>2. pc = "stopped" /\ \A c \in Children : Dead(c)
    BY <1>16 DEF Return, IInv, ChildInv, TerminateInv, PublishersDown, MediaMTXDown
  <2> QED
    BY <2>1, <2>2, LeaveIsEnd DEF Statuses
<1>17. ASSUME Interrupt PROVE [Abstract!Next]_(Abstract!vars)
  <2>1. CASE pc \in StartPcs \cup GapPcs \cup {"stopped"} /\ Leave("interrupted")
    BY <2>1, LeaveIsEnd DEF Statuses, StartPcs, GapPcs, LoopPcs
  <2>2. CASE pc \in LoopPcs /\ pc' = "requested" /\ UNCHANGED <<child, exit>>
    BY <1>8, <2>2
  <2>3. CASE pc \in Stopping /\ pc' \in Stopping /\ UNCHANGED <<child, exit>>
    BY <1>11, <1>12, <2>3, PhaseKept
  <2> QED
    BY <1>17, <2>1, <2>2, <2>3 DEF Interrupt, world, GapPcs
<1>18. ASSUME Kill PROVE Abstract!Next
  BY <1>18, LeaveIsEnd DEF Kill, Statuses
<1>19. ASSUME \/ \E d \in Devices : ServerThread(d)
              \/ ResponderEnds \/ MediaMTXListens \/ Terminated
              \/ UNCHANGED vars
       PROVE  UNCHANGED Abstract!vars
  <2>1. UNCHANGED <<pc, child, exit>>
    BY <1>19 DEF ServerThread, ResponderEnds, MediaMTXListens, Terminated, vars,
                 world
  <2> QED
    BY <2>1, PhaseKept DEF Phase
<1>20. ASSUME NEW c \in Children, ChildExits(c) PROVE Abstract!Next
  <2>1. Phase' = Phase /\ exit' = exit
    BY <1>20 DEF ChildExits, Phase
  <2>2. c \in Living /\ Living' = Living \ {c} /\ Spawned' = Spawned
    BY <1>1, <1>20 DEF ChildExits, Living, Spawned, Alive
  <2>3. Abstract!Die(c)
    BY <2>1, <2>2 DEF Abstract!Die
  <2> QED
    BY <2>3 DEF Abstract!Next
<1> QED
  BY <1>4, <1>5, <1>6, <1>7, <1>9, <1>13, <1>14, <1>15, <1>16, <1>17, <1>18,
     <1>19, <1>20 DEF Next, MainThread

\* Runtime implements Supervisor.
THEOREM Refinement == Spec => SupervisorSpec
<1>1. Init => Abstract!Init
  BY NumProfilesAssumption DEF Init, Abstract!Init, Phase, Spawned, Living, StartPcs, Alive
<1>2. IInv /\ IInv' /\ [Next]_vars => [Abstract!Next]_(Abstract!vars)
  BY AbstractStep
<1> QED
  BY <1>1, <1>2, Invariance, PTL DEF Spec, SupervisorSpec, Abstract!Spec

=============================================================================
