---------------------------- MODULE ShutdownProofs ----------------------------
(***************************************************************************)
(* The end of a daemon: what is lost is lost for a reason, and each step   *)
(* is one that VMLifecycle allows to its daemons.                          *)
(*                                                                         *)
(* The argument for the first: a guest has something to flush only while   *)
(* its VM runs, and neither Main nor the handler gets to where the process *)
(* ends but with a VM that has stopped, for good, or with an excuse.       *)
(***************************************************************************)
EXTENDS Shutdown, TLAPS

(* What the VM is, by where Main is: only Main starts it.                  *)
OnceStarted ==
  /\ vm = "new" <=> main = "new"
  /\ vm = "starting" => main = "starting"
  /\ main = "starting" => vm # "running"

(* Only a running guest has something in memory.                           *)
DirtyRuns == data = "dirty" => vm = "running"

(* Who is about to end the process has an excuse, or no VM to lose.        *)
Leaving == {"return", "joining", "removing", "left"}
Excused ==
  /\ main \in {"asking", "polling"} => excuses # {}
  /\ main \in Leaving => excuses # {} \/ vm = "stopped"
  /\ handler = "exit" => excuses # {} \/ vm = "stopped"

(* The process is gone when one of the two has left.                       *)
Left == main = "left" \/ handler = "left" => ~alive

IInv == TypeOK /\ OnceStarted /\ DirtyRuns /\ Excused /\ Left /\ FlushedOrWarned

-----------------------------------------------------------------------------
(* Asking the VM to stop keeps the types of what it changes.               *)
LEMMA AskType ==
  ASSUME TypeOK, AskOrStop \/ PullPlug
  PROVE  /\ vm' \in {"new", "starting", "running", "stopped", "killed"}
         /\ data' \in {"clean", "dirty", "lost"}
         /\ excuses' \subseteq Excuse
<1>1. CASE UNCHANGED <<vmVars, excuses>>
  BY <1>1 DEF TypeOK, vmVars
<1>2. CASE PullPlug
  <2>1. vm' \in {vm, "stopped"} /\ data' \in {data, "lost"}
    BY <1>2 DEF PullPlug, Stopped
  <2>2. excuses' \subseteq excuses \cup {"pulled"}
    BY <1>2 DEF PullPlug
  <2>. QED
    BY <2>1, <2>2 DEF TypeOK, Excuse
<1>. QED
  BY <1>1, <1>2 DEF AskOrStop

(* Every step keeps the types of the variables.                            *)
LEMMA TypeStep ==
  ASSUME TypeOK, [Next]_vars
  PROVE  TypeOK'
<1> USE DEF TypeOK, Excuse, File
<1>1. ASSUME StartVM PROVE TypeOK'
  BY <1>1 DEF StartVM, MainGoes, vmVars, syncVars, others
<1>2. ASSUME Started PROVE TypeOK'
  BY <1>2 DEF Started, MainGoes, vmVars, syncVars, others
<1>3. ASSUME StartFails PROVE TypeOK'
  BY <1>3 DEF StartFails, MainGoes, vmVars, syncVars, others
<1>4. ASSUME InitOutput PROVE TypeOK'
  BY <1>4 DEF InitOutput, MainGoes, vmVars, syncVars, others
<1>5. ASSUME InitFails PROVE TypeOK'
  BY <1>5 DEF InitFails, MainGoes, vmVars, syncVars, others
<1>6. ASSUME Bound PROVE TypeOK'
  BY <1>6 DEF Bound, MainGoes, vmVars, syncVars, others
<1>7. ASSUME BindFails PROVE TypeOK'
  BY <1>7 DEF BindFails, MainGoes, vmVars, syncVars, others
<1>8. ASSUME AskedEnough PROVE TypeOK'
  BY <1>8 DEF AskedEnough, MainGoes, vmVars, syncVars, others
<1>9. ASSUME PolledEnough PROVE TypeOK'
  BY <1>9 DEF PolledEnough, MainGoes, vmVars, syncVars, others
<1>10. ASSUME SSHReady PROVE TypeOK'
  BY <1>10 DEF SSHReady, MainGoes, vmVars, syncVars, others
<1>11. ASSUME SSHTimeout PROVE TypeOK'
  BY <1>11 DEF SSHTimeout, MainGoes, vmVars, syncVars, others
<1>12. ASSUME FirstSyncEnds PROVE TypeOK'
  BY <1>12 DEF FirstSyncEnds, MainGoes, vmVars, syncVars, others
<1>13. ASSUME WriteRuntime PROVE TypeOK'
  BY <1>13 DEF WriteRuntime, Writes, MainGoes, vmVars, syncVars, others
<1>14. ASSUME WriteState PROVE TypeOK'
  BY <1>14 DEF WriteState, Writes, MainGoes, vmVars, syncVars, others
<1>15. ASSUME PublishFails PROVE TypeOK'
  BY <1>15 DEF PublishFails, MainGoes, vmVars, syncVars, others
<1>16. ASSUME VMStopped PROVE TypeOK'
  BY <1>16 DEF VMStopped, Stopped, MainGoes, vmVars, syncVars, others
<1>17. ASSUME Unwind PROVE TypeOK'
  BY <1>17 DEF Unwind, MainGoes, vmVars, syncVars, others
<1>18. ASSUME Joined PROVE TypeOK'
  BY <1>18 DEF Joined, MainGoes, vmVars, syncVars, others
<1>19. ASSUME MainExits PROVE TypeOK'
  BY <1>19 DEF MainExits, Die, Stopped, MainGoes, vmVars, syncVars, others
<1>20. ASSUME SigTerm PROVE TypeOK'
  BY <1>20 DEF SigTerm, HandlerGoes, vmVars, syncVars, others
<1>21. ASSUME CloseAndCancel PROVE TypeOK'
  BY <1>21 DEF CloseAndCancel, HandlerGoes, vmVars, syncVars, others
<1>22. ASSUME Aim PROVE TypeOK'
  <2>1. hung' \subseteq {"handler", "helper", "ssh"}
    <3>1. hung' = hung \/ hung' = hung \cup {"ssh"}
      BY <1>22 DEF Aim, Stopped
    <3>. QED
      BY <3>1
  <2>. QED
    BY <1>22, <2>1 DEF Aim, HandlerGoes, vmVars
<1>23. ASSUME SSHPoweroff PROVE TypeOK'
  BY <1>23 DEF SSHPoweroff, HandlerGoes, vmVars, syncVars, others
<1>24. ASSUME SSHFails PROVE TypeOK'
  BY <1>24 DEF SSHFails, HandlerGoes, vmVars, syncVars, others
<1>25. ASSUME Request PROVE TypeOK'
  <2>1. hung' \subseteq {"handler", "helper", "ssh"}
    <3>1. hung' = hung \/ hung' = hung \cup {"handler"}
      BY <1>25 DEF Request, Stopped
    <3>. QED
      BY <3>1
  <2>2. /\ vm' \in {"new", "starting", "running", "stopped", "killed"}
        /\ data' \in {"clean", "dirty", "lost"}
        /\ excuses' \subseteq Excuse
    BY <1>25, AskType DEF Request
  <2>. QED
    BY <1>25, <2>1, <2>2 DEF Request, HandlerGoes
<1>26. ASSUME Requested PROVE TypeOK'
  BY <1>26 DEF Requested, HandlerGoes, vmVars, syncVars, others
<1>27. ASSUME RequestFails PROVE TypeOK'
  <2>1. /\ vm' \in {"new", "starting", "running", "stopped", "killed"}
        /\ data' \in {"clean", "dirty", "lost"}
        /\ excuses' \subseteq Excuse
    BY <1>27, AskType DEF RequestFails
  <2>. QED
    BY <1>27, <2>1 DEF RequestFails, HandlerGoes, syncVars
<1>28. ASSUME SeesStopped PROVE TypeOK'
  BY <1>28 DEF SeesStopped, Stopped, HandlerGoes, vmVars, syncVars, others
<1>29. ASSUME WaitExpires PROVE TypeOK'
  BY <1>29 DEF WaitExpires, Stopped, HandlerGoes, vmVars, syncVars, others
<1>30. ASSUME HandlerExits PROVE TypeOK'
  BY <1>30 DEF HandlerExits, Die, Stopped, HandlerGoes, vmVars, syncVars,
     others
<1>31. ASSUME GuestWrites PROVE TypeOK'
  BY <1>31 DEF GuestWrites, vmVars, syncVars, others
<1>32. ASSUME GuestPowersOff PROVE TypeOK'
  BY <1>32 DEF GuestPowersOff, vmVars, syncVars, others
<1>33. ASSUME HelperAsks PROVE TypeOK'
  <2>1. hung' \subseteq {"handler", "helper", "ssh"}
    <3>1. hung' = hung \/ hung' = hung \cup {"helper"}
      BY <1>33 DEF HelperAsks, Stopped
    <3>. QED
      BY <3>1
  <2>2. /\ vm' \in {"new", "starting", "running", "stopped", "killed"}
        /\ data' \in {"clean", "dirty", "lost"}
        /\ excuses' \subseteq Excuse
    BY <1>33, AskType DEF HelperAsks
  <2>. QED
    BY <1>33, <2>1, <2>2 DEF HelperAsks
<1>34. ASSUME HelperReturns PROVE TypeOK'
  BY <1>34 DEF HelperReturns, vmVars, syncVars, others
<1>35. ASSUME Tick PROVE TypeOK'
  BY <1>35 DEF Tick, Clock, vmVars, syncVars, others
<1>36. ASSUME DateEnds PROVE TypeOK'
  BY <1>36 DEF DateEnds, Clock, vmVars, syncVars, others
<1>37. ASSUME ClockDone PROVE TypeOK'
  BY <1>37 DEF ClockDone, Clock, vmVars, syncVars, others
<1>38. ASSUME UNCHANGED vars PROVE TypeOK'
  BY <1>38 DEF vars, vmVars, syncVars, others
<1>39. ASSUME ListenerEnds PROVE TypeOK'
  BY <1>39 DEF ListenerEnds, vmVars, syncVars
<1>. QED
  BY <1>1, <1>2, <1>3, <1>4, <1>5, <1>6, <1>7, <1>8, <1>9, <1>10, <1>11, <1>12,
     <1>13, <1>14, <1>15, <1>16, <1>17, <1>18, <1>19, <1>20, <1>21, <1>22,
     <1>23, <1>24, <1>25, <1>26, <1>27, <1>28, <1>29, <1>30, <1>31, <1>32,
     <1>33, <1>34, <1>35, <1>36, <1>37, <1>38, <1>39
     DEF Next, MainStep, HandlerStep, Gone

(* Every step keeps what the positions of Main and the handler mean for    *)
(* the VM and for what its guest has in memory.                            *)
LEMMA OrderStep ==
  ASSUME TypeOK, OnceStarted, DirtyRuns, Excused, Left, FlushedOrWarned,
         [Next]_vars
  PROVE  (OnceStarted /\ DirtyRuns /\ Excused /\ Left /\ FlushedOrWarned)'
<1> DEFINE Order == OnceStarted /\ DirtyRuns /\ Excused /\ Left /\ FlushedOrWarned
<1> SUFFICES Order'
  OBVIOUS
<1> USE DEF TypeOK, OnceStarted, DirtyRuns, Excused, Leaving, Left, FlushedOrWarned
<1>1. ASSUME StartVM PROVE Order'
  BY <1>1 DEF StartVM, MainGoes, vmVars, syncVars, others
<1>2. ASSUME Started PROVE Order'
  BY <1>2 DEF Started, MainGoes, vmVars, syncVars, others
<1>3. ASSUME StartFails PROVE Order'
  BY <1>3 DEF StartFails, MainGoes, vmVars, syncVars, others
<1>4. ASSUME InitOutput PROVE Order'
  BY <1>4 DEF InitOutput, MainGoes, vmVars, syncVars, others
<1>5. ASSUME InitFails PROVE Order'
  BY <1>5 DEF InitFails, MainGoes, vmVars, syncVars, others
<1>6. ASSUME Bound PROVE Order'
  BY <1>6 DEF Bound, MainGoes, vmVars, syncVars, others
<1>7. ASSUME BindFails PROVE Order'
  BY <1>7 DEF BindFails, MainGoes, vmVars, syncVars, others
<1>8. ASSUME AskedEnough PROVE Order'
  BY <1>8 DEF AskedEnough, MainGoes, vmVars, syncVars, others
<1>9. ASSUME PolledEnough PROVE Order'
  BY <1>9 DEF PolledEnough, MainGoes, vmVars, syncVars, others
<1>10. ASSUME SSHReady PROVE Order'
  BY <1>10 DEF SSHReady, MainGoes, vmVars, syncVars, others
<1>11. ASSUME SSHTimeout PROVE Order'
  BY <1>11 DEF SSHTimeout, MainGoes, vmVars, syncVars, others
<1>12. ASSUME FirstSyncEnds PROVE Order'
  BY <1>12 DEF FirstSyncEnds, MainGoes, vmVars, syncVars, others
<1>13. ASSUME WriteRuntime PROVE Order'
  BY <1>13 DEF WriteRuntime, Writes, MainGoes, vmVars, syncVars, others
<1>14. ASSUME WriteState PROVE Order'
  BY <1>14 DEF WriteState, Writes, MainGoes, vmVars, syncVars, others
<1>15. ASSUME PublishFails PROVE Order'
  BY <1>15 DEF PublishFails, MainGoes, vmVars, syncVars, others
<1>16. ASSUME VMStopped PROVE Order'
  BY <1>16 DEF VMStopped, Stopped, MainGoes, vmVars, syncVars, others
<1>17. ASSUME Unwind PROVE Order'
  BY <1>17 DEF Unwind, MainGoes, vmVars, syncVars, others
<1>18. ASSUME Joined PROVE Order'
  BY <1>18 DEF Joined, MainGoes, vmVars, syncVars, others
<1>19. ASSUME MainExits PROVE Order'
  BY <1>19 DEF MainExits, Die, Stopped, MainGoes, vmVars, syncVars, others
<1>20. ASSUME SigTerm PROVE Order'
  BY <1>20 DEF SigTerm, HandlerGoes, vmVars, syncVars, others
<1>21. ASSUME CloseAndCancel PROVE Order'
  BY <1>21 DEF CloseAndCancel, HandlerGoes, vmVars, syncVars, others
<1>22. ASSUME Aim PROVE Order'
  BY <1>22 DEF Aim, HandlerGoes, vmVars, syncVars, others
<1>23. ASSUME SSHPoweroff PROVE Order'
  BY <1>23 DEF SSHPoweroff, HandlerGoes, vmVars, syncVars, others
<1>24. ASSUME SSHFails PROVE Order'
  BY <1>24 DEF SSHFails, HandlerGoes, vmVars, syncVars, others
<1>25. ASSUME Request PROVE Order'
  BY <1>25 DEF Request, AskOrStop, PullPlug, Stopped, HandlerGoes, vmVars,
     syncVars, others
<1>26. ASSUME Requested PROVE Order'
  BY <1>26 DEF Requested, HandlerGoes, vmVars, syncVars, others
<1>27. ASSUME RequestFails PROVE Order'
  BY <1>27 DEF RequestFails, PullPlug, Stopped, HandlerGoes, vmVars, syncVars,
     others
<1>28. ASSUME SeesStopped PROVE Order'
  BY <1>28 DEF SeesStopped, Stopped, HandlerGoes, vmVars, syncVars, others
<1>29. ASSUME WaitExpires PROVE Order'
  BY <1>29 DEF WaitExpires, Stopped, HandlerGoes, vmVars, syncVars, others
<1>30. ASSUME HandlerExits PROVE Order'
  BY <1>30 DEF HandlerExits, Die, Stopped, HandlerGoes, vmVars, syncVars,
     others
<1>31. ASSUME GuestWrites PROVE Order'
  BY <1>31 DEF GuestWrites, vmVars, syncVars, others
<1>32. ASSUME GuestPowersOff PROVE Order'
  BY <1>32 DEF GuestPowersOff, vmVars, syncVars, others
<1>33. ASSUME HelperAsks PROVE Order'
  BY <1>33 DEF HelperAsks, AskOrStop, PullPlug, Stopped, vmVars, syncVars,
     others
<1>34. ASSUME HelperReturns PROVE Order'
  BY <1>34 DEF HelperReturns, vmVars, syncVars, others
<1>35. ASSUME Tick PROVE Order'
  BY <1>35 DEF Tick, Clock, vmVars, syncVars, others
<1>36. ASSUME DateEnds PROVE Order'
  BY <1>36 DEF DateEnds, Clock, vmVars, syncVars, others
<1>37. ASSUME ClockDone PROVE Order'
  BY <1>37 DEF ClockDone, Clock, vmVars, syncVars, others
<1>38. ASSUME UNCHANGED vars PROVE Order'
  BY <1>38 DEF vars, vmVars, syncVars, others
<1>39. ASSUME ListenerEnds PROVE Order'
  BY <1>39 DEF ListenerEnds, vmVars, syncVars
<1>. QED
  BY <1>1, <1>2, <1>3, <1>4, <1>5, <1>6, <1>7, <1>8, <1>9, <1>10, <1>11, <1>12,
     <1>13, <1>14, <1>15, <1>16, <1>17, <1>18, <1>19, <1>20, <1>21, <1>22,
     <1>23, <1>24, <1>25, <1>26, <1>27, <1>28, <1>29, <1>30, <1>31, <1>32,
     <1>33, <1>34, <1>35, <1>36, <1>37, <1>38, <1>39
     DEF Next, MainStep, HandlerStep, Gone

(* The invariant holds in every reachable state.                           *)
THEOREM Invariance == Spec => []IInv
<1>1. Init => IInv
  BY DEF Init, IInv, TypeOK, Excuse, File, OnceStarted, DirtyRuns, Excused, Leaving,
         Left, FlushedOrWarned
<1>2. IInv /\ [Next]_vars => IInv'
  BY TypeStep, OrderStep DEF IInv
<1>. QED
  BY <1>1, <1>2, PTL DEF Spec

(* Every variable keeps its type.                                          *)
THEOREM TypeCorrect == Spec => []TypeOK
BY Invariance, PTL DEF IInv

(* The guest's unwritten data are never lost without one of the excuses:   *)
(* a failed start, a warning, a VM that could not be asked, or a SIGTERM   *)
(* before the VM was started.                                              *)
THEOREM NoSilentLoss == Spec => []FlushedOrWarned
BY Invariance, PTL DEF IInv

-----------------------------------------------------------------------------
(* What VMLifecycle sees of the daemon has not changed.                    *)
LEMMA Stutters ==
  ASSUME Phase' = Phase, vm' = "running" <=> vm = "running",
         handler' = "armed" <=> handler = "armed", files' = files
  PROVE  UNCHANGED Lifecycle!vars
BY DEF Lifecycle!vars, Lifecycle!probed, Lifecycle!cliVars, Lifecycle!daemonVars,
       Lifecycle!fileVars,
       WriterOf

(* It has not changed except that the VM has stopped.                      *)
LEMMA StopsOnly ==
  ASSUME vm = "running", vm' = "stopped", UNCHANGED <<alive, main, files>>,
         handler' = "armed" <=> handler = "armed"
  PROVE  Lifecycle!VMStops("daemon")
<1>1. Phase' = Phase
  BY DEF Phase
<1>. QED
  BY <1>1 DEF Lifecycle!VMStops, Lifecycle!probed, Lifecycle!cliVars, Lifecycle!fileVars, WriterOf

(* A VM that is pulled out stops, or nothing is seen of it.                *)
LEMMA PullSeen ==
  ASSUME IInv, alive, AskOrStop \/ PullPlug, UNCHANGED <<alive, main, files>>,
         handler' = "armed" <=> handler = "armed"
  PROVE  [Lifecycle!Next]_(Lifecycle!vars)
<1>1. vm' = vm \/ vm' = "stopped"
  BY DEF AskOrStop, PullPlug, vmVars
<1>2. CASE vm = "running" /\ vm' = "stopped"
  BY <1>2, StopsOnly DEF Lifecycle!Next
<1>3. CASE vm' = vm \/ vm # "running"
  <2>1. Phase' = Phase /\ (vm' = "running" <=> vm = "running")
    BY <1>1, <1>3 DEF Phase
  <2>. QED
    BY <2>1, Stutters
<1>. QED
  BY <1>1, <1>2, <1>3

(* A step of the daemon is one of VMLifecycle's, or is not seen there.     *)
LEMMA StepFits ==
  ASSUME IInv, [Next]_vars
  PROVE  [Lifecycle!Next]_(Lifecycle!vars)
<1> DEFINE Fits == [Lifecycle!Next]_(Lifecycle!vars)
<1> SUFFICES Fits
  OBVIOUS
<1> USE DEF Lifecycle!MainGoto, Lifecycle!probed, Lifecycle!cliVars, Lifecycle!fileVars
<1>1. ASSUME StartVM PROVE Fits
  <2>1. /\ Phase' = Phase /\ files' = files
        /\ vm' = "running" <=> vm = "running"
        /\ handler' = "armed" <=> handler = "armed"
    BY <1>1 DEF StartVM, MainGoes, syncVars, others, Phase
  <2>. QED
    BY <2>1, Stutters
<1>2. ASSUME Started PROVE Fits
  <2>1. Phase = "notified" /\ Phase' = "booting"
    BY <1>2 DEF Started, MainGoes, Phase
  <2>2. Lifecycle!StartVM("daemon")
    BY <1>2, <2>1 DEF Started, MainGoes, vmVars, syncVars, others, WriterOf,
       Lifecycle!StartVM, IInv, TypeOK, OnceStarted, File
  <2>. QED
    BY <2>2 DEF Lifecycle!Next
<1>3. ASSUME StartFails PROVE Fits
  <2>1. Phase = "notified" /\ Phase' = "returning"
    BY <1>3 DEF StartFails, MainGoes, Phase
  <2>2. Lifecycle!Return("daemon")
    BY <1>3, <2>1 DEF StartFails, MainGoes, vmVars, syncVars, others,
       WriterOf, Lifecycle!Return, IInv, TypeOK, OnceStarted, File
  <2>. QED
    BY <2>2 DEF Lifecycle!Next
<1>4. ASSUME InitOutput PROVE Fits
  <2>1. /\ Phase' = Phase /\ files' = files
        /\ vm' = "running" <=> vm = "running"
        /\ handler' = "armed" <=> handler = "armed"
    BY <1>4 DEF InitOutput, MainGoes, vmVars, syncVars, others, Phase
  <2>. QED
    BY <2>1, Stutters
<1>5. ASSUME InitFails PROVE Fits
  <2>1. Phase = "booting" /\ Phase' = "returning"
    BY <1>5 DEF InitFails, MainGoes, Phase
  <2>2. Lifecycle!Return("daemon")
    BY <1>5, <2>1 DEF InitFails, MainGoes, vmVars, syncVars, others, WriterOf,
       Lifecycle!Return, IInv, TypeOK, OnceStarted, File
  <2>. QED
    BY <2>2 DEF Lifecycle!Next
<1>6. ASSUME Bound PROVE Fits
  <2>1. /\ Phase' = Phase /\ files' = files
        /\ vm' = "running" <=> vm = "running"
        /\ handler' = "armed" <=> handler = "armed"
    BY <1>6 DEF Bound, MainGoes, vmVars, syncVars, others, Phase
  <2>. QED
    BY <2>1, Stutters
<1>7. ASSUME BindFails PROVE Fits
  <2>1. /\ Phase' = Phase /\ files' = files
        /\ vm' = "running" <=> vm = "running"
        /\ handler' = "armed" <=> handler = "armed"
    BY <1>7 DEF BindFails, MainGoes, vmVars, syncVars, others, Phase
  <2>. QED
    BY <2>1, Stutters
<1>8. ASSUME AskedEnough PROVE Fits
  <2>1. /\ Phase' = Phase /\ files' = files
        /\ vm' = "running" <=> vm = "running"
        /\ handler' = "armed" <=> handler = "armed"
    BY <1>8 DEF AskedEnough, MainGoes, vmVars, syncVars, others, Phase
  <2>. QED
    BY <2>1, Stutters
<1>9. ASSUME PolledEnough PROVE Fits
  <2>1. Phase = "booting" /\ Phase' = "returning"
    BY <1>9 DEF PolledEnough, MainGoes, Phase
  <2>2. Lifecycle!Return("daemon")
    BY <1>9, <2>1 DEF PolledEnough, MainGoes, vmVars, syncVars, others,
       WriterOf, Lifecycle!Return, IInv, TypeOK, OnceStarted, File
  <2>. QED
    BY <2>2 DEF Lifecycle!Next
<1>10. ASSUME SSHReady PROVE Fits
  <2>1. /\ Phase' = Phase /\ files' = files
        /\ vm' = "running" <=> vm = "running"
        /\ handler' = "armed" <=> handler = "armed"
    BY <1>10 DEF SSHReady, MainGoes, vmVars, syncVars, others, Phase
  <2>. QED
    BY <2>1, Stutters
<1>11. ASSUME SSHTimeout PROVE Fits
  <2>1. Phase = "booting" /\ Phase' = "serving"
    BY <1>11 DEF SSHTimeout, MainGoes, Phase
  <2>2. Lifecycle!Degrade("daemon")
    BY <1>11, <2>1 DEF SSHTimeout, MainGoes, vmVars, syncVars, others,
       WriterOf, Lifecycle!Degrade, IInv, TypeOK, OnceStarted, File
  <2>. QED
    BY <2>2 DEF Lifecycle!Next
<1>12. ASSUME FirstSyncEnds PROVE Fits
  <2>1. /\ Phase' = Phase /\ files' = files
        /\ vm' = "running" <=> vm = "running"
        /\ handler' = "armed" <=> handler = "armed"
    BY <1>12 DEF FirstSyncEnds, MainGoes, vmVars, syncVars, others, Phase
  <2>. QED
    BY <2>1, Stutters
<1>13. ASSUME WriteRuntime PROVE Fits
  <2>1. Phase = "booting" /\ Phase' = "writing"
    BY <1>13 DEF WriteRuntime, Writes, MainGoes, Phase
  <2>2. Lifecycle!WriteRuntime("daemon")
    BY <1>13, <2>1 DEF WriteRuntime, Writes, MainGoes, vmVars, syncVars,
       others, WriterOf, Lifecycle!WriteRuntime, IInv, TypeOK, OnceStarted,
       File
  <2>. QED
    BY <2>2 DEF Lifecycle!Next
<1>14. ASSUME WriteState PROVE Fits
  <2>1. Phase = "writing" /\ Phase' = "serving"
    BY <1>14 DEF WriteState, Writes, MainGoes, Phase
  <2>2. Lifecycle!WriteState("daemon")
    BY <1>14, <2>1 DEF WriteState, Writes, MainGoes, vmVars, syncVars, others,
       WriterOf, Lifecycle!WriteState, IInv, TypeOK, OnceStarted, File
  <2>. QED
    BY <2>2 DEF Lifecycle!Next
<1>15. ASSUME PublishFails PROVE Fits
  <2>1. Phase \in {"booting", "writing"} /\ Phase' = "returning"
    BY <1>15 DEF PublishFails, MainGoes, Phase
  <2>2. Lifecycle!Return("daemon")
    BY <1>15, <2>1 DEF PublishFails, MainGoes, vmVars, syncVars, others,
       WriterOf, Lifecycle!Return, IInv, TypeOK, OnceStarted, File
  <2>. QED
    BY <2>2 DEF Lifecycle!Next
<1>16. ASSUME VMStopped PROVE Fits
  <2>1. Phase = "serving" /\ Phase' = "returning"
    BY <1>16 DEF VMStopped, MainGoes, Phase
  <2>2. Lifecycle!Return("daemon")
    BY <1>16, <2>1 DEF VMStopped, Stopped, MainGoes, vmVars, syncVars, others,
       WriterOf, Lifecycle!Return, IInv, TypeOK, OnceStarted, File
  <2>. QED
    BY <2>2 DEF Lifecycle!Next
<1>17. ASSUME Unwind PROVE Fits
  <2>1. /\ Phase' = Phase /\ files' = files
        /\ vm' = "running" <=> vm = "running"
        /\ handler' = "armed" <=> handler = "armed"
    BY <1>17 DEF Unwind, MainGoes, vmVars, syncVars, others, Phase
  <2>. QED
    BY <2>1, Stutters
<1>18. ASSUME Joined PROVE Fits
  <2>1. Phase = "returning" /\ Phase' = "removing"
    BY <1>18 DEF Joined, MainGoes, Phase
  <2>2. Lifecycle!Unrecord("daemon")
    BY <1>18, <2>1 DEF Joined, MainGoes, vmVars, syncVars, others, WriterOf,
       Lifecycle!Unrecord, IInv, TypeOK, OnceStarted, File
  <2>. QED
    BY <2>2 DEF Lifecycle!Next
<1>19. ASSUME MainExits PROVE Fits
  <2>1. Phase = "removing" /\ Phase' = "dead"
    BY <1>19 DEF MainExits, Die, MainGoes, Phase
  <2>2. Lifecycle!Exit("daemon")
    BY <1>19, <2>1 DEF MainExits, Die, Stopped, MainGoes, vmVars, syncVars,
       others, WriterOf, Lifecycle!Exit, IInv, TypeOK, OnceStarted, File
  <2>. QED
    BY <2>2 DEF Lifecycle!Next
<1>20. ASSUME SigTerm PROVE Fits
  <2>1. Phase' = Phase /\ Phase \in {"notified", "booting", "writing", "serving",
                                       "returning", "removing"}
    BY <1>20 DEF SigTerm, HandlerGoes, others, Phase, IInv, TypeOK, Left
  <2>2. Lifecycle!StopSignal("stop")
    BY <1>20, <2>1 DEF SigTerm, HandlerGoes, vmVars, others, WriterOf,
       Lifecycle!StopSignal, Lifecycle!Goto, Lifecycle!Alive
  <2>. QED
    BY <2>2 DEF Lifecycle!Next
<1>21. ASSUME CloseAndCancel PROVE Fits
  <2>1. /\ Phase' = Phase /\ files' = files
        /\ vm' = "running" <=> vm = "running"
        /\ handler' = "armed" <=> handler = "armed"
    BY <1>21 DEF CloseAndCancel, HandlerGoes, vmVars, syncVars, others, Phase
  <2>. QED
    BY <2>1, Stutters
<1>22. ASSUME Aim PROVE Fits
  <2>1. /\ Phase' = Phase /\ files' = files
        /\ vm' = "running" <=> vm = "running"
        /\ handler' = "armed" <=> handler = "armed"
    BY <1>22 DEF Aim, HandlerGoes, vmVars, syncVars, others, Phase
  <2>. QED
    BY <2>1, Stutters
<1>23. ASSUME SSHPoweroff PROVE Fits
  <2>1. /\ Phase' = Phase /\ files' = files
        /\ vm' = "running" <=> vm = "running"
        /\ handler' = "armed" <=> handler = "armed"
    BY <1>23 DEF SSHPoweroff, HandlerGoes, vmVars, syncVars, others, Phase
  <2>. QED
    BY <2>1, Stutters
<1>24. ASSUME SSHFails PROVE Fits
  <2>1. /\ Phase' = Phase /\ files' = files
        /\ vm' = "running" <=> vm = "running"
        /\ handler' = "armed" <=> handler = "armed"
    BY <1>24 DEF SSHFails, HandlerGoes, vmVars, syncVars, others, Phase
  <2>. QED
    BY <2>1, Stutters
<1>25. ASSUME Request PROVE Fits
  BY <1>25, PullSeen DEF Request, HandlerGoes, syncVars
<1>26. ASSUME Requested PROVE Fits
  <2>1. /\ Phase' = Phase /\ files' = files
        /\ vm' = "running" <=> vm = "running"
        /\ handler' = "armed" <=> handler = "armed"
    BY <1>26 DEF Requested, HandlerGoes, vmVars, syncVars, others, Phase
  <2>. QED
    BY <2>1, Stutters
<1>27. ASSUME RequestFails PROVE Fits
  BY <1>27, PullSeen DEF RequestFails, HandlerGoes, syncVars
<1>28. ASSUME SeesStopped PROVE Fits
  <2>1. /\ Phase' = Phase /\ files' = files
        /\ vm' = "running" <=> vm = "running"
        /\ handler' = "armed" <=> handler = "armed"
    BY <1>28 DEF SeesStopped, HandlerGoes, vmVars, syncVars, others, Phase
  <2>. QED
    BY <2>1, Stutters
<1>29. ASSUME WaitExpires PROVE Fits
  <2>1. /\ Phase' = Phase /\ files' = files
        /\ vm' = "running" <=> vm = "running"
        /\ handler' = "armed" <=> handler = "armed"
    BY <1>29 DEF WaitExpires, HandlerGoes, vmVars, syncVars, others, Phase
  <2>. QED
    BY <2>1, Stutters
<1>30. ASSUME HandlerExits PROVE Fits
  <2>1. Phase # "dead" /\ Phase # "unused" /\ Phase' = "dead"
    BY <1>30 DEF HandlerExits, Die, HandlerGoes, Phase, TypeOK, IInv
  <2>2. Lifecycle!HandlerExit("daemon")
    BY <1>30, <2>1 DEF HandlerExits, Die, Stopped, HandlerGoes, vmVars,
       syncVars, others, WriterOf, Lifecycle!HandlerExit, Lifecycle!Alive,
       Lifecycle!Dies, IInv, TypeOK, OnceStarted, File
  <2>. QED
    BY <2>2 DEF Lifecycle!Next
<1>31. ASSUME GuestWrites PROVE Fits
  <2>1. /\ Phase' = Phase /\ files' = files
        /\ vm' = "running" <=> vm = "running"
        /\ handler' = "armed" <=> handler = "armed"
    BY <1>31 DEF GuestWrites, vmVars, syncVars, others, Phase
  <2>. QED
    BY <2>1, Stutters
<1>32. ASSUME GuestPowersOff PROVE Fits
  <2>1. Lifecycle!VMStops("daemon")
    BY <1>32, StopsOnly DEF GuestPowersOff, others
  <2>. QED
    BY <2>1 DEF Lifecycle!Next
<1>33. ASSUME HelperAsks PROVE Fits
  BY <1>33, PullSeen DEF HelperAsks, syncVars
<1>34. ASSUME HelperReturns PROVE Fits
  <2>1. /\ Phase' = Phase /\ files' = files
        /\ vm' = "running" <=> vm = "running"
        /\ handler' = "armed" <=> handler = "armed"
    BY <1>34 DEF HelperReturns, vmVars, syncVars, others, Phase
  <2>. QED
    BY <2>1, Stutters
<1>35. ASSUME Tick PROVE Fits
  <2>1. /\ Phase' = Phase /\ files' = files
        /\ vm' = "running" <=> vm = "running"
        /\ handler' = "armed" <=> handler = "armed"
    BY <1>35 DEF Tick, Clock, vmVars, syncVars, others, Phase
  <2>. QED
    BY <2>1, Stutters
<1>36. ASSUME DateEnds PROVE Fits
  <2>1. /\ Phase' = Phase /\ files' = files
        /\ vm' = "running" <=> vm = "running"
        /\ handler' = "armed" <=> handler = "armed"
    BY <1>36 DEF DateEnds, Clock, vmVars, syncVars, others, Phase
  <2>. QED
    BY <2>1, Stutters
<1>37. ASSUME ClockDone PROVE Fits
  <2>1. /\ Phase' = Phase /\ files' = files
        /\ vm' = "running" <=> vm = "running"
        /\ handler' = "armed" <=> handler = "armed"
    BY <1>37 DEF ClockDone, Clock, vmVars, syncVars, others, Phase
  <2>. QED
    BY <2>1, Stutters
<1>38. ASSUME UNCHANGED vars PROVE Fits
  <2>1. Phase' = Phase
    BY <1>38 DEF vars, Phase
  <2>. QED
    BY <1>38, <2>1, Stutters DEF vars, vmVars, others
<1>39. ASSUME ListenerEnds PROVE Fits
  <2>1. Phase' = Phase /\ Phase \in {"notified", "booting", "writing", "serving",
                                       "returning", "removing"}
    BY <1>39 DEF ListenerEnds, Phase, IInv, TypeOK, Left
  <2>2. Lifecycle!ListenerEnds("daemon")
    BY <1>39, <2>1 DEF ListenerEnds, vmVars, WriterOf, Lifecycle!ListenerEnds,
       Lifecycle!Listens, Lifecycle!Alive
  <2>. QED
    BY <2>2 DEF Lifecycle!Next
<1>. QED
  BY <1>1, <1>2, <1>3, <1>4, <1>5, <1>6, <1>7, <1>8, <1>9, <1>10, <1>11,
     <1>12, <1>13, <1>14, <1>15, <1>16, <1>17, <1>18, <1>19, <1>20, <1>21,
     <1>22, <1>23, <1>24, <1>25, <1>26, <1>27, <1>28, <1>29, <1>30, <1>31,
     <1>32, <1>33, <1>34, <1>35, <1>36, <1>37, <1>38, <1>39 DEF Next, MainStep,
     HandlerStep, Gone

(* Every step of the daemon, of Main, the handler, the helper, the status  *)
(* listener or the guest, is one that VMLifecycle allows to its daemons.   *)
THEOREM FitsLifecycle == Spec => EndsAsInLifecycle
<1>1. IInv /\ [Next]_vars => [Lifecycle!Next]_(Lifecycle!vars)
  BY StepFits
<1>. QED
  BY <1>1, Invariance, PTL DEF Spec, EndsAsInLifecycle

=============================================================================
