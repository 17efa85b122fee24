--------------------------- MODULE VMLifecycleProofs ---------------------------
(***************************************************************************)
(* What start and stop guarantee to users who run one command at a time,   *)
(* for any number of launcher processes and daemons.                       *)
(*                                                                         *)
(* The argument: a daemon that no start has overlooked lives alone.  A     *)
(* start that goes past its probe has either found none alive or knows     *)
(* nothing of one whose listener has ended or whose answer was lost: the   *)
(* others own the status socket or are still watched by the command that   *)
(* spawned them; and until that start ends nobody else spawns one.         *)
(***************************************************************************)
EXTENDS VMLifecycle, TLAPS

Cleaning == {"stale state", "stale runtime", "stale marker", "clean"}
Recorded == {"recorded", "notified", "booting", "writing", "serving"}

(* One command at a time.                                                  *)
OneCommand == \A c, e \in CLIs : cpc[c] # "idle" /\ cpc[e] # "idle" => c = e

(* A daemon that was not overlooked lives alone; it has the socket, or its *)
(* start still watches it.                                                 *)
OneDaemon == \A d, e \in Daemons : Alive(d) /\ Alive(e) /\ d \notin missed => d = e
Found == \A d \in Daemons : Listens(d) /\ d \notin missed => sock = d
Watched ==
  \A d \in Daemons :
    dpc[d] = "spawned" /\ d \notin missed =>
      \E c \in CLIs : cpc[c] = "watching" /\ proc[c] = d

(* What a command in progress knows of the daemons.                        *)
NoneAlive ==
  \A c \in CLIs, d \in Daemons :
    cpc[c] \in Cleaning /\ Alive(d) => c \in blind /\ d \in missed
OnlyMine ==
  \A c \in CLIs, d \in Daemons :
    cpc[c] \in {"watching", "reaping"} /\ Alive(d) /\ d # proc[c] =>
      /\ d \in missed
      /\ cpc[c] = "watching" => proc[c] \in missed

(* A VM runs inside its daemon.                                            *)
Inside ==
  \A d \in Daemons :
    on[d] => dpc[d] \in {"booting", "writing", "serving", "returning", "removing"}

(* The files that describe a daemon.                                       *)
Named ==
  \A d \in Daemons :
    dpc[d] \in Recorded /\ d \notin missed => pidFile = d \/ d \in nameless
RuntimeMine ==
  /\ \A c \in CLIs :
       cpc[c] \in {"stale marker", "clean"} /\ c \notin blind => runtime = None
  /\ \A d \in Daemons : Alive(d) /\ d \notin missed => runtime \in {None, d}
StateMine ==
  /\ \A c \in CLIs :
       cpc[c] \in {"stale runtime", "stale marker", "clean"} /\ c \notin blind =>
         vmState = None
  /\ \A c \in CLIs :
       cpc[c] = "watching" /\ proc[c] \notin missed => vmState \in {None, proc[c]}
MarkerMine ==
  /\ \A c \in CLIs : cpc[c] = "clean" /\ c \notin blind => degraded = None
  /\ \A c \in CLIs :
       cpc[c] = "watching" /\ proc[c] \notin missed => degraded \in {None, proc[c]}
WrittenInOrder ==
  \A d \in Daemons :
    /\ dpc[d] = "writing" /\ d \notin missed => runtime = d
    /\ vmState = d => dpc[d] \in {"serving", "returning", "removing", "dead"}
    /\ vmState = d /\ dpc[d] = "serving" /\ d \notin missed => runtime = d
    /\ degraded = d => dpc[d] \in {"serving", "returning", "removing", "dead"}

Agreed == OneCommand /\ OneDaemon /\ Found /\ NoneAlive /\ OnlyMine /\ Inside
Described == Named /\ RuntimeMine /\ StateMine /\ MarkerMine /\ WrittenInOrder

IInv == TypeOK /\ Agreed /\ Watched /\ Described

(* The types of the variables, by who writes them.                         *)
CliType ==
  /\ cpc \in [CLIs -> {"idle", "stale state", "stale runtime", "stale marker",
                       "clean", "watching", "signalling", "reaping"}]
  /\ proc \in [CLIs -> Daemons \cup {None}]
  /\ said \in [CLIs -> {"none", "started", "stopped", "failed"}]
  /\ failed \subseteq Daemons /\ missed \subseteq Daemons /\ blind \subseteq CLIs
HasProc == \A c \in CLIs : cpc[c] \in {"watching", "signalling", "reaping"} => proc[c] # None
DaemonType ==
  /\ dpc \in [Daemons -> {"unused", "spawned", "listening", "recorded", "notified",
                          "booting", "writing", "serving", "returning", "removing",
                          "dead"}]
  /\ on \in [Daemons -> BOOLEAN]
  /\ term \in [Daemons -> BOOLEAN]
  /\ nameless \subseteq Daemons /\ deaf \subseteq Daemons
FileType == {sock, pidFile, runtime, vmState, degraded} \subseteq Daemons \cup {None}

LEMMA TypeParts == TypeOK <=> CliType /\ HasProc /\ DaemonType /\ FileType
BY DEF TypeOK, CliType, HasProc, DaemonType, FileType

LEMMA FailType ==
  ASSUME CliType, HasProc, NEW c \in CLIs, Fail(c)
  PROVE  CliType'
<1>1. proc[c] \in Daemons
  BY DEF Fail, Goto, CliType, HasProc
<1>2. cpc' \in [CLIs -> {"idle", "stale state", "stale runtime", "stale marker",
                        "clean", "watching", "signalling", "reaping"}]
  BY DEF Fail, Goto, CliType
<1>3. said' \in [CLIs -> {"none", "started", "stopped", "failed"}]
  BY DEF Fail, Say, CliType
<1>. QED
  BY <1>1, <1>2, <1>3 DEF Fail, CliType, probed

LEMMA CliTypeStep ==
  ASSUME CliType, FileType, HasProc, [Next]_vars
  PROVE  CliType'
<1> USE LifecycleAssumption DEF CliType, FileType, cliVars, probed
<1>1. ASSUME NEW c \in CLIs, StartProbe(c) PROVE CliType'
  <2>1. cpc' \in {cpc, [cpc EXCEPT ![c] = "stale state"]} /\ UNCHANGED <<proc, failed>>
    BY <1>1 DEF StartProbe, Goto
  <2>2. said' \in [CLIs -> {"none", "started", "stopped", "failed"}]
    BY <1>1 DEF StartProbe, Say
  <2>3. /\ missed' \in {missed, missed \cup Overlooked}
        /\ blind' \in {blind, blind \ {c}, blind \cup {c}}
    BY <1>1 DEF StartProbe
  <2>4. Overlooked \subseteq Daemons
    BY DEF Overlooked
  <2>5. missed' \subseteq Daemons /\ blind' \subseteq CLIs
    BY <2>3, <2>4
  <2>6. cpc' \in [CLIs -> {"idle", "stale state", "stale runtime", "stale marker",
                          "clean", "watching", "signalling", "reaping"}]
    BY <2>1
  <2>. QED
    BY <2>1, <2>2, <2>5, <2>6
<1>2. ASSUME NEW c \in CLIs, StartRemovesState(c) PROVE CliType'
  BY <1>2 DEF StartRemovesState, Goto
<1>3. ASSUME NEW c \in CLIs, StartRemovesRuntime(c) PROVE CliType'
  BY <1>3 DEF StartRemovesRuntime, Goto
<1>4. ASSUME NEW c \in CLIs, StartRemovesMarker(c) PROVE CliType'
  BY <1>4 DEF StartRemovesMarker, Goto
<1>5. ASSUME NEW c \in CLIs, NEW d \in Daemons, StartSpawn(c, d) PROVE CliType'
  BY <1>5 DEF StartSpawn, Goto
<1>6. ASSUME NEW c \in CLIs, StartSeesState(c) PROVE CliType'
  BY <1>6 DEF StartSeesState, Goto, Say
<1>7. ASSUME NEW c \in CLIs, StartSeesMarker(c) PROVE CliType'
  BY <1>7, FailType DEF StartSeesMarker
<1>8. ASSUME NEW c \in CLIs, StartSeesExit(c) PROVE CliType'
  BY <1>8, FailType DEF StartSeesExit
<1>9. ASSUME NEW c \in CLIs, StartTimesOut(c) PROVE CliType'
  BY <1>9, FailType DEF StartTimesOut
<1>10. ASSUME NEW c \in CLIs, Interrupt(c) PROVE CliType'
  BY <1>10 DEF Interrupt
<1>11. ASSUME NEW c \in CLIs, StopRead(c) PROVE CliType'
  <2>1. /\ cpc' \in {cpc, [cpc EXCEPT ![c] = "signalling"]}
        /\ proc' \in {proc, [proc EXCEPT ![c] = pidFile]}
        /\ UNCHANGED <<failed, probed>>
    BY <1>11 DEF StopRead, Goto
  <2>2. said' \in [CLIs -> {"none", "started", "stopped", "failed"}]
    BY <1>11 DEF StopRead, Say
  <2>3. proc' \in [CLIs -> Daemons \cup {None}]
    BY <2>1
  <2>4. cpc' \in [CLIs -> {"idle", "stale state", "stale runtime", "stale marker",
                          "clean", "watching", "signalling", "reaping"}]
    BY <2>1
  <2>. QED
    BY <2>1, <2>2, <2>3, <2>4
<1>12. ASSUME NEW c \in CLIs, StopSignal(c) PROVE CliType'
  BY <1>12 DEF StopSignal, Goto, Say
<1>13. ASSUME NEW c \in CLIs, StopReaped(c) PROVE CliType'
  BY <1>13 DEF StopReaped, Goto, Say
<1>14. ASSUME NEW c \in CLIs, StopTimesOut(c) PROVE CliType'
  BY <1>14 DEF StopTimesOut, Goto, Say
<1>15. ASSUME NEW d \in Daemons, Listen(d) PROVE CliType'
  BY <1>15 DEF Listen, MainGoto
<1>30. ASSUME NEW d \in Daemons, ListenerEnds(d) PROVE CliType'
  BY <1>30 DEF ListenerEnds, Listens
<1>16. ASSUME NEW d \in Daemons, FailEarly(d) PROVE CliType'
  BY <1>16 DEF FailEarly
<1>17. ASSUME NEW d \in Daemons, Record(d) PROVE CliType'
  BY <1>17 DEF Record, MainGoto
<1>18. ASSUME NEW d \in Daemons, Notify(d) PROVE CliType'
  BY <1>18 DEF Notify, MainGoto
<1>19. ASSUME NEW d \in Daemons, StartVM(d) PROVE CliType'
  BY <1>19 DEF StartVM, MainGoto
<1>20. ASSUME NEW d \in Daemons, WriteRuntime(d) PROVE CliType'
  BY <1>20 DEF WriteRuntime, MainGoto
<1>21. ASSUME NEW d \in Daemons, WriteState(d) PROVE CliType'
  BY <1>21 DEF WriteState, MainGoto
<1>22. ASSUME NEW d \in Daemons, Degrade(d) PROVE CliType'
  BY <1>22 DEF Degrade, MainGoto
<1>23. ASSUME NEW d \in Daemons, VMStops(d) PROVE CliType'
  BY <1>23 DEF VMStops
<1>24. ASSUME NEW d \in Daemons, Return(d) PROVE CliType'
  BY <1>24 DEF Return
<1>29. ASSUME NEW d \in Daemons, Unrecord(d) PROVE CliType'
  BY <1>29 DEF Unrecord, MainGoto
<1>25. ASSUME NEW d \in Daemons, Exit(d) PROVE CliType'
  BY <1>25 DEF Exit, MainGoto
<1>26. ASSUME NEW d \in Daemons, HandlerExit(d) PROVE CliType'
  BY <1>26 DEF HandlerExit, Dies
<1>27. ASSUME NEW d \in Daemons, Crash(d) PROVE CliType'
  BY <1>27 DEF Crash, Dies
<1>28. CASE UNCHANGED vars
  BY <1>28 DEF vars
<1>. QED
  BY <1>1, <1>2, <1>3, <1>4, <1>5, <1>6, <1>7, <1>8, <1>9, <1>10, <1>11,
     <1>12, <1>13, <1>14, <1>15, <1>16, <1>17, <1>18, <1>19, <1>20, <1>21,
     <1>22, <1>23, <1>24, <1>25, <1>26, <1>27, <1>28, <1>29, <1>30 DEF Next

LEMMA HasProcStep ==
  ASSUME CliType, HasProc, [Next]_vars
  PROVE  HasProc'
<1> USE LifecycleAssumption DEF HasProc, CliType, cliVars, probed
<1>1. ASSUME NEW c \in CLIs, StartProbe(c) PROVE HasProc'
  BY <1>1 DEF StartProbe, Goto, Say
<1>2. ASSUME NEW c \in CLIs, StartRemovesState(c) PROVE HasProc'
  BY <1>2 DEF StartRemovesState, Goto
<1>3. ASSUME NEW c \in CLIs, StartRemovesRuntime(c) PROVE HasProc'
  BY <1>3 DEF StartRemovesRuntime, Goto
<1>4. ASSUME NEW c \in CLIs, StartRemovesMarker(c) PROVE HasProc'
  BY <1>4 DEF StartRemovesMarker, Goto
<1>5. ASSUME NEW c \in CLIs, NEW d \in Daemons, StartSpawn(c, d) PROVE HasProc'
  BY <1>5 DEF StartSpawn, Goto
<1>6. ASSUME NEW c \in CLIs, StartSeesState(c) PROVE HasProc'
  BY <1>6 DEF StartSeesState, Goto, Say
<1>7. ASSUME NEW c \in CLIs, StartSeesMarker(c) PROVE HasProc'
  BY <1>7 DEF StartSeesMarker, Fail, Goto, Say
<1>8. ASSUME NEW c \in CLIs, StartSeesExit(c) PROVE HasProc'
  BY <1>8 DEF StartSeesExit, Fail, Goto, Say
<1>9. ASSUME NEW c \in CLIs, StartTimesOut(c) PROVE HasProc'
  BY <1>9 DEF StartTimesOut, Fail, Goto, Say
<1>10. ASSUME NEW c \in CLIs, Interrupt(c) PROVE HasProc'
  BY <1>10 DEF Interrupt
<1>11. ASSUME NEW c \in CLIs, StopRead(c) PROVE HasProc'
  BY <1>11 DEF StopRead, Goto, Say
<1>12. ASSUME NEW c \in CLIs, StopSignal(c) PROVE HasProc'
  BY <1>12 DEF StopSignal, Goto, Say
<1>13. ASSUME NEW c \in CLIs, StopReaped(c) PROVE HasProc'
  BY <1>13 DEF StopReaped, Goto, Say
<1>14. ASSUME NEW c \in CLIs, StopTimesOut(c) PROVE HasProc'
  BY <1>14 DEF StopTimesOut, Goto, Say
<1>15. ASSUME NEW d \in Daemons, Listen(d) PROVE HasProc'
  BY <1>15 DEF Listen, MainGoto
<1>30. ASSUME NEW d \in Daemons, ListenerEnds(d) PROVE HasProc'
  BY <1>30 DEF ListenerEnds, Listens
<1>16. ASSUME NEW d \in Daemons, FailEarly(d) PROVE HasProc'
  BY <1>16 DEF FailEarly
<1>17. ASSUME NEW d \in Daemons, Record(d) PROVE HasProc'
  BY <1>17 DEF Record, MainGoto
<1>18. ASSUME NEW d \in Daemons, Notify(d) PROVE HasProc'
  BY <1>18 DEF Notify, MainGoto
<1>19. ASSUME NEW d \in Daemons, StartVM(d) PROVE HasProc'
  BY <1>19 DEF StartVM, MainGoto
<1>20. ASSUME NEW d \in Daemons, WriteRuntime(d) PROVE HasProc'
  BY <1>20 DEF WriteRuntime, MainGoto
<1>21. ASSUME NEW d \in Daemons, WriteState(d) PROVE HasProc'
  BY <1>21 DEF WriteState, MainGoto
<1>22. ASSUME NEW d \in Daemons, Degrade(d) PROVE HasProc'
  BY <1>22 DEF Degrade, MainGoto
<1>23. ASSUME NEW d \in Daemons, VMStops(d) PROVE HasProc'
  BY <1>23 DEF VMStops
<1>24. ASSUME NEW d \in Daemons, Return(d) PROVE HasProc'
  BY <1>24 DEF Return
<1>29. ASSUME NEW d \in Daemons, Unrecord(d) PROVE HasProc'
  BY <1>29 DEF Unrecord, MainGoto
<1>25. ASSUME NEW d \in Daemons, Exit(d) PROVE HasProc'
  BY <1>25 DEF Exit, MainGoto
<1>26. ASSUME NEW d \in Daemons, HandlerExit(d) PROVE HasProc'
  BY <1>26 DEF HandlerExit, Dies
<1>27. ASSUME NEW d \in Daemons, Crash(d) PROVE HasProc'
  BY <1>27 DEF Crash, Dies
<1>28. CASE UNCHANGED vars
  BY <1>28 DEF vars
<1>. QED
  BY <1>1, <1>2, <1>3, <1>4, <1>5, <1>6, <1>7, <1>8, <1>9, <1>10, <1>11,
     <1>12, <1>13, <1>14, <1>15, <1>16, <1>17, <1>18, <1>19, <1>20, <1>21,
     <1>22, <1>23, <1>24, <1>25, <1>26, <1>27, <1>28, <1>29, <1>30 DEF Next

LEMMA DaemonTypeStep ==
  ASSUME DaemonType, [Next]_vars
  PROVE  DaemonType'
<1> USE LifecycleAssumption DEF DaemonType, daemonVars
<1>1. ASSUME NEW c \in CLIs, StartProbe(c) PROVE DaemonType'
  BY <1>1 DEF StartProbe, Goto, Say
<1>2. ASSUME NEW c \in CLIs, StartRemovesState(c) PROVE DaemonType'
  BY <1>2 DEF StartRemovesState, Goto
<1>3. ASSUME NEW c \in CLIs, StartRemovesRuntime(c) PROVE DaemonType'
  BY <1>3 DEF StartRemovesRuntime, Goto
<1>4. ASSUME NEW c \in CLIs, StartRemovesMarker(c) PROVE DaemonType'
  BY <1>4 DEF StartRemovesMarker, Goto
<1>5. ASSUME NEW c \in CLIs, NEW d \in Daemons, StartSpawn(c, d) PROVE DaemonType'
  BY <1>5 DEF StartSpawn, Goto
<1>6. ASSUME NEW c \in CLIs, StartSeesState(c) PROVE DaemonType'
  BY <1>6 DEF StartSeesState, Goto, Say
<1>7. ASSUME NEW c \in CLIs, StartSeesMarker(c) PROVE DaemonType'
  BY <1>7 DEF StartSeesMarker, Fail, Goto, Say
<1>8. ASSUME NEW c \in CLIs, StartSeesExit(c) PROVE DaemonType'
  BY <1>8 DEF StartSeesExit, Fail, Goto, Say
<1>9. ASSUME NEW c \in CLIs, StartTimesOut(c) PROVE DaemonType'
  BY <1>9 DEF StartTimesOut, Fail, Goto, Say
<1>10. ASSUME NEW c \in CLIs, Interrupt(c) PROVE DaemonType'
  BY <1>10 DEF Interrupt
<1>11. ASSUME NEW c \in CLIs, StopRead(c) PROVE DaemonType'
  BY <1>11 DEF StopRead, Goto, Say
<1>12. ASSUME NEW c \in CLIs, StopSignal(c) PROVE DaemonType'
  BY <1>12 DEF StopSignal, Goto, Say
<1>13. ASSUME NEW c \in CLIs, StopReaped(c) PROVE DaemonType'
  BY <1>13 DEF StopReaped, Goto, Say
<1>14. ASSUME NEW c \in CLIs, StopTimesOut(c) PROVE DaemonType'
  BY <1>14 DEF StopTimesOut, Goto, Say
<1>15. ASSUME NEW d \in Daemons, Listen(d) PROVE DaemonType'
  BY <1>15 DEF Listen, MainGoto
<1>30. ASSUME NEW d \in Daemons, ListenerEnds(d) PROVE DaemonType'
  BY <1>30 DEF ListenerEnds, Listens
<1>16. ASSUME NEW d \in Daemons, FailEarly(d) PROVE DaemonType'
  BY <1>16 DEF FailEarly
<1>17. ASSUME NEW d \in Daemons, Record(d) PROVE DaemonType'
  BY <1>17 DEF Record, MainGoto
<1>18. ASSUME NEW d \in Daemons, Notify(d) PROVE DaemonType'
  BY <1>18 DEF Notify, MainGoto
<1>19. ASSUME NEW d \in Daemons, StartVM(d) PROVE DaemonType'
  BY <1>19 DEF StartVM, MainGoto
<1>20. ASSUME NEW d \in Daemons, WriteRuntime(d) PROVE DaemonType'
  BY <1>20 DEF WriteRuntime, MainGoto
<1>21. ASSUME NEW d \in Daemons, WriteState(d) PROVE DaemonType'
  BY <1>21 DEF WriteState, MainGoto
<1>22. ASSUME NEW d \in Daemons, Degrade(d) PROVE DaemonType'
  BY <1>22 DEF Degrade, MainGoto
<1>23. ASSUME NEW d \in Daemons, VMStops(d) PROVE DaemonType'
  BY <1>23 DEF VMStops
<1>24. ASSUME NEW d \in Daemons, Return(d) PROVE DaemonType'
  BY <1>24 DEF Return
<1>29. ASSUME NEW d \in Daemons, Unrecord(d) PROVE DaemonType'
  BY <1>29 DEF Unrecord, MainGoto
<1>25. ASSUME NEW d \in Daemons, Exit(d) PROVE DaemonType'
  BY <1>25 DEF Exit, MainGoto
<1>26. ASSUME NEW d \in Daemons, HandlerExit(d) PROVE DaemonType'
  BY <1>26 DEF HandlerExit, Dies
<1>27. ASSUME NEW d \in Daemons, Crash(d) PROVE DaemonType'
  BY <1>27 DEF Crash, Dies
<1>28. CASE UNCHANGED vars
  BY <1>28 DEF vars
<1>. QED
  BY <1>1, <1>2, <1>3, <1>4, <1>5, <1>6, <1>7, <1>8, <1>9, <1>10, <1>11,
     <1>12, <1>13, <1>14, <1>15, <1>16, <1>17, <1>18, <1>19, <1>20, <1>21,
     <1>22, <1>23, <1>24, <1>25, <1>26, <1>27, <1>28, <1>29, <1>30 DEF Next

LEMMA FileTypeStep ==
  ASSUME FileType, [Next]_vars
  PROVE  FileType'
<1> USE LifecycleAssumption DEF FileType, fileVars
<1>1. ASSUME NEW c \in CLIs, StartProbe(c) PROVE FileType'
  BY <1>1 DEF StartProbe, Goto, Say
<1>2. ASSUME NEW c \in CLIs, StartRemovesState(c) PROVE FileType'
  BY <1>2 DEF StartRemovesState, Goto
<1>3. ASSUME NEW c \in CLIs, StartRemovesRuntime(c) PROVE FileType'
  BY <1>3 DEF StartRemovesRuntime, Goto
<1>4. ASSUME NEW c \in CLIs, StartRemovesMarker(c) PROVE FileType'
  BY <1>4 DEF StartRemovesMarker, Goto
<1>5. ASSUME NEW c \in CLIs, NEW d \in Daemons, StartSpawn(c, d) PROVE FileType'
  BY <1>5 DEF StartSpawn, Goto
<1>6. ASSUME NEW c \in CLIs, StartSeesState(c) PROVE FileType'
  BY <1>6 DEF StartSeesState, Goto, Say
<1>7. ASSUME NEW c \in CLIs, StartSeesMarker(c) PROVE FileType'
  BY <1>7 DEF StartSeesMarker, Fail, Goto, Say
<1>8. ASSUME NEW c \in CLIs, StartSeesExit(c) PROVE FileType'
  BY <1>8 DEF StartSeesExit, Fail, Goto, Say
<1>9. ASSUME NEW c \in CLIs, StartTimesOut(c) PROVE FileType'
  BY <1>9 DEF StartTimesOut, Fail, Goto, Say
<1>10. ASSUME NEW c \in CLIs, Interrupt(c) PROVE FileType'
  BY <1>10 DEF Interrupt
<1>11. ASSUME NEW c \in CLIs, StopRead(c) PROVE FileType'
  BY <1>11 DEF StopRead, Goto, Say
<1>12. ASSUME NEW c \in CLIs, StopSignal(c) PROVE FileType'
  BY <1>12 DEF StopSignal, Goto, Say
<1>13. ASSUME NEW c \in CLIs, StopReaped(c) PROVE FileType'
  BY <1>13 DEF StopReaped, Goto, Say
<1>14. ASSUME NEW c \in CLIs, StopTimesOut(c) PROVE FileType'
  BY <1>14 DEF StopTimesOut, Goto, Say
<1>15. ASSUME NEW d \in Daemons, Listen(d) PROVE FileType'
  BY <1>15 DEF Listen, MainGoto
<1>30. ASSUME NEW d \in Daemons, ListenerEnds(d) PROVE FileType'
  BY <1>30 DEF ListenerEnds, Listens
<1>16. ASSUME NEW d \in Daemons, FailEarly(d) PROVE FileType'
  BY <1>16 DEF FailEarly
<1>17. ASSUME NEW d \in Daemons, Record(d) PROVE FileType'
  BY <1>17 DEF Record, MainGoto
<1>18. ASSUME NEW d \in Daemons, Notify(d) PROVE FileType'
  BY <1>18 DEF Notify, MainGoto
<1>19. ASSUME NEW d \in Daemons, StartVM(d) PROVE FileType'
  BY <1>19 DEF StartVM, MainGoto
<1>20. ASSUME NEW d \in Daemons, WriteRuntime(d) PROVE FileType'
  BY <1>20 DEF WriteRuntime, MainGoto
<1>21. ASSUME NEW d \in Daemons, WriteState(d) PROVE FileType'
  BY <1>21 DEF WriteState, MainGoto
<1>22. ASSUME NEW d \in Daemons, Degrade(d) PROVE FileType'
  BY <1>22 DEF Degrade, MainGoto
<1>23. ASSUME NEW d \in Daemons, VMStops(d) PROVE FileType'
  BY <1>23 DEF VMStops
<1>24. ASSUME NEW d \in Daemons, Return(d) PROVE FileType'
  BY <1>24 DEF Return
<1>29. ASSUME NEW d \in Daemons, Unrecord(d) PROVE FileType'
  BY <1>29 DEF Unrecord, MainGoto
<1>25. ASSUME NEW d \in Daemons, Exit(d) PROVE FileType'
  BY <1>25 DEF Exit, MainGoto
<1>26. ASSUME NEW d \in Daemons, HandlerExit(d) PROVE FileType'
  BY <1>26 DEF HandlerExit, Dies
<1>27. ASSUME NEW d \in Daemons, Crash(d) PROVE FileType'
  BY <1>27 DEF Crash, Dies
<1>28. CASE UNCHANGED vars
  BY <1>28 DEF vars
<1>. QED
  BY <1>1, <1>2, <1>3, <1>4, <1>5, <1>6, <1>7, <1>8, <1>9, <1>10, <1>11,
     <1>12, <1>13, <1>14, <1>15, <1>16, <1>17, <1>18, <1>19, <1>20, <1>21,
     <1>22, <1>23, <1>24, <1>25, <1>26, <1>27, <1>28, <1>29, <1>30 DEF Next

(* Every step keeps the types of the variables.                            *)
LEMMA TypeStep ==
  ASSUME TypeOK, [Next]_vars
  PROVE  TypeOK'
<1>1. CliType /\ HasProc /\ DaemonType /\ FileType
  BY TypeParts
<1>2. CliType' /\ HasProc' /\ DaemonType' /\ FileType'
  BY <1>1, CliTypeStep, HasProcStep, DaemonTypeStep, FileTypeStep
<1>. QED
  BY <1>2 DEF TypeOK, CliType, HasProc, DaemonType, FileType

(* Whatever lives when a start probes is overlooked if the start goes on.  *)
LEMMA ProbeOverlooks ==
  ASSUME Serial, IInv, NEW c \in CLIs, cpc[c] = "idle", Alone(c),
         NEW d \in Daemons, Alive(d)
  PROVE  d \in Overlooked
<1>1. CASE dpc[d] = "spawned"
  BY <1>1 DEF IInv, Watched, Alone, Overlooked
<1>2. CASE Listens(d)
  BY <1>2 DEF IInv, Agreed, Found, Overlooked
<1>3. CASE d \in deaf
  BY <1>3 DEF Overlooked
<1>. QED
  BY <1>1, <1>2, <1>3 DEF Listens

(* A start that has gone past its probe knows whether it is blind.         *)
LEMMA ProbeEffect ==
  ASSUME Serial, IInv, NEW c \in CLIs, StartProbe(c)
  PROVE  /\ UNCHANGED <<proc, dpc, on, nameless, deaf, fileVars>>
         /\ \/ UNCHANGED <<cpc, probed>>
            \/ /\ cpc[c] = "idle" /\ cpc' = [cpc EXCEPT ![c] = "stale state"]
               /\ \A e \in CLIs : cpc[e] = "idle"
               /\ missed \subseteq missed'
               /\ \A d \in Daemons : Alive(d) => c \in blind' /\ d \in missed'
<1>1. /\ UNCHANGED <<proc, dpc, on, nameless, deaf, fileVars>>
      /\ cpc[c] = "idle" /\ Alone(c)
  BY DEF StartProbe, daemonVars, fileVars
<1>2. CASE UNCHANGED <<cpc, probed>>
  BY <1>1, <1>2
<1>3. CASE /\ Goto(c, "idle", "stale state")
           /\ missed' = missed \cup Overlooked
           /\ blind' = IF Overlooked = {} THEN blind \ {c} ELSE blind \cup {c}
  <2>1. ASSUME NEW d \in Daemons, Alive(d) PROVE c \in blind' /\ d \in missed'
    BY <1>1, <1>3, <2>1, ProbeOverlooks
  <2>. QED
    BY <1>1, <1>3, <2>1 DEF Goto, Alone
<1>. QED
  BY <1>2, <1>3 DEF StartProbe

(* What a stop does to the process it signals.                             *)
LEMMA SignalEffect ==
  ASSUME TypeOK, NEW c \in CLIs, StopSignal(c)
  PROVE  /\ cpc[c] = "signalling" /\ proc[c] \in Daemons
         /\ UNCHANGED <<proc, on, nameless, deaf, probed, fileVars>>
         /\ \/ cpc' = [cpc EXCEPT ![c] = "idle"] /\ UNCHANGED dpc
            \/ /\ cpc' = [cpc EXCEPT ![c] = "reaping"]
               /\ Alive(proc[c])
               /\ \/ UNCHANGED dpc
                  \/ /\ dpc[proc[c]] \in {"spawned", "listening", "recorded"}
                     /\ dpc' = [dpc EXCEPT ![proc[c]] = "dead"]
<1>1. cpc[c] = "signalling" /\ UNCHANGED <<proc, on, nameless, deaf, probed, fileVars>>
  BY DEF StopSignal, Goto
<1>2. proc[c] \in Daemons
  BY <1>1 DEF TypeOK
<1>3. CASE Goto(c, "signalling", "idle") /\ UNCHANGED dpc
  BY <1>1, <1>2, <1>3 DEF Goto
<1>4. CASE Goto(c, "signalling", "reaping") /\ Alive(proc[c])
  <2>1. \/ UNCHANGED dpc
        \/ /\ dpc[proc[c]] \in {"spawned", "listening", "recorded"}
           /\ dpc' = [dpc EXCEPT ![proc[c]] = "dead"]
    BY <1>4 DEF StopSignal, Goto
  <2>. QED
    BY <1>1, <1>2, <1>4, <2>1 DEF Goto
<1>. QED
  BY <1>3, <1>4 DEF StopSignal

(* Every step keeps the commands and the daemons in agreement.             *)
LEMMA AgreementStep ==
  ASSUME Serial, IInv, [Next]_vars
  PROVE  Agreed'
<1>0. /\ Agreed /\ Serial /\ None \notin Daemons
      /\ DOMAIN cpc = CLIs /\ DOMAIN proc = CLIs
      /\ DOMAIN dpc = Daemons /\ DOMAIN on = Daemons
  BY LifecycleAssumption DEF IInv, TypeOK
<1> USE <1>0
    DEF Agreed, OneCommand, OneDaemon, Found, NoneAlive, OnlyMine, Inside, Cleaning,
        Alone, cliVars, probed, daemonVars, fileVars, Alive, Listens
<1>1. ASSUME NEW c \in CLIs, StartProbe(c) PROVE Agreed'
  <2>1. CASE UNCHANGED <<cpc, probed>>
    BY <1>1, <2>1, ProbeEffect
  <2>2. CASE /\ cpc[c] = "idle" /\ cpc' = [cpc EXCEPT ![c] = "stale state"]
             /\ \A e \in CLIs : cpc[e] = "idle"
             /\ missed \subseteq missed'
             /\ \A d \in Daemons : Alive(d) => c \in blind' /\ d \in missed'
    <3>1. UNCHANGED <<proc, dpc, on, deaf, sock>>
      BY <1>1, ProbeEffect
    <3>2. OneCommand' /\ OneDaemon' /\ Found' /\ Inside'
      BY <2>2, <3>1
    <3>3. NoneAlive' /\ OnlyMine'
      BY <2>2, <3>1
    <3>. QED
      BY <3>2, <3>3
  <2>. QED
    BY <1>1, <2>1, <2>2, ProbeEffect
<1>2. ASSUME NEW c \in CLIs, StartRemovesState(c) PROVE Agreed'
  BY <1>2 DEF StartRemovesState, Goto
<1>3. ASSUME NEW c \in CLIs, StartRemovesRuntime(c) PROVE Agreed'
  BY <1>3 DEF StartRemovesRuntime, Goto
<1>4. ASSUME NEW c \in CLIs, StartRemovesMarker(c) PROVE Agreed'
  BY <1>4 DEF StartRemovesMarker, Goto
<1>5. ASSUME NEW c \in CLIs, NEW d \in Daemons, StartSpawn(c, d) PROVE Agreed'
  <2>1. /\ cpc[c] = "clean" /\ cpc' = [cpc EXCEPT ![c] = "watching"]
        /\ proc' = [proc EXCEPT ![c] = d]
        /\ dpc[d] = "unused" /\ dpc' = [dpc EXCEPT ![d] = "spawned"]
        /\ missed' = IF c \in blind THEN missed \cup {d} ELSE missed
        /\ UNCHANGED <<on, deaf, blind, sock>>
    BY <1>5 DEF StartSpawn, Goto
  <2>2. \A e \in Daemons : Alive(e) => c \in blind /\ e \in missed
    BY <2>1
  <2>3. \A e \in CLIs : cpc[e] # "idle" => e = c
    BY <2>1
  <2>4. \A e \in Daemons : Alive(e)' /\ e # d => e \in missed' /\ d \in missed'
    BY <2>1, <2>2
  <2>5. OneDaemon'
    BY <2>4
  <2>6. Found' /\ Inside'
    BY <2>1, <2>2
  <2>7. OneCommand'
    BY <2>1, <2>3
  <2>8. \A e \in CLIs : cpc'[e] # "idle" => e = c
    BY <2>1, <2>3
  <2>9. cpc'[c] = "watching" /\ proc'[c] = d
    BY <2>1
  <2>10. OnlyMine'
    BY <2>4, <2>8, <2>9
  <2>11. NoneAlive'
    BY <2>8, <2>9
  <2>. QED
    BY <2>5, <2>6, <2>7, <2>10, <2>11
<1>6. ASSUME NEW c \in CLIs, StartSeesState(c) PROVE Agreed'
  BY <1>6 DEF StartSeesState, Goto, Say
<1>7. ASSUME NEW c \in CLIs, StartSeesMarker(c) PROVE Agreed'
  BY <1>7 DEF StartSeesMarker, Fail, Goto, Say
<1>8. ASSUME NEW c \in CLIs, StartSeesExit(c) PROVE Agreed'
  BY <1>8 DEF StartSeesExit, Fail, Goto, Say
<1>9. ASSUME NEW c \in CLIs, StartTimesOut(c) PROVE Agreed'
  BY <1>9 DEF StartTimesOut, Fail, Goto, Say
<1>10. ASSUME NEW c \in CLIs, Interrupt(c) PROVE Agreed'
  BY <1>10 DEF Interrupt
<1>11. ASSUME NEW c \in CLIs, StopRead(c) PROVE Agreed'
  <2>1. Alone(c) /\ cpc[c] = "idle" /\ UNCHANGED <<dpc, on, sock, deaf, probed>>
    BY <1>11 DEF StopRead
  <2>2. CASE UNCHANGED <<cpc, proc>>
    BY <2>1, <2>2
  <2>3. CASE /\ cpc' = [cpc EXCEPT ![c] = "signalling"]
             /\ proc' = [proc EXCEPT ![c] = pidFile]
    BY <2>1, <2>3
  <2>. QED
    BY <1>11, <2>2, <2>3 DEF StopRead, Goto
<1>12. ASSUME NEW c \in CLIs, StopSignal(c) PROVE Agreed'
  <2>0. TypeOK
    BY DEF IInv
  <2>1. /\ cpc[c] = "signalling" /\ proc[c] \in Daemons
        /\ UNCHANGED <<proc, on, nameless, deaf, probed, fileVars>>
    BY <1>12, <2>0, SignalEffect
  <2>2. CASE cpc' = [cpc EXCEPT ![c] = "idle"] /\ UNCHANGED dpc
    BY <2>1, <2>2
  <2>3. CASE cpc' = [cpc EXCEPT ![c] = "reaping"] /\ Alive(proc[c]) /\ UNCHANGED dpc
    <3>1. OneDaemon' /\ Found' /\ Inside'
      BY <2>1, <2>3
    <3>2. \A e \in CLIs : e # c => cpc'[e] = cpc[e] /\ proc'[e] = proc[e]
      BY <2>1, <2>3
    <3>3. \A e \in CLIs : cpc[e] # "idle" => e = c
      BY <2>1
    <3>4. \A e \in CLIs : cpc'[e] # "idle" => e = c
      BY <3>2, <3>3
    <3>5. cpc'[c] = "reaping" /\ proc'[c] = proc[c]
      BY <2>1, <2>3
    <3>6. \A d \in Daemons : Alive(d)' /\ d # proc[c] => d \in missed'
      BY <2>1, <2>3
    <3>7. OneCommand'
      BY <3>4
    <3>8. NoneAlive' /\ OnlyMine'
      BY <3>4, <3>5, <3>6
    <3>. QED
      BY <3>1, <3>7, <3>8
  <2>4. CASE /\ cpc' = [cpc EXCEPT ![c] = "reaping"]
             /\ dpc[proc[c]] \in {"spawned", "listening", "recorded"}
             /\ dpc' = [dpc EXCEPT ![proc[c]] = "dead"]
    BY <2>1, <2>4
  <2>. QED
    BY <1>12, <2>0, <2>2, <2>3, <2>4, SignalEffect
<1>13. ASSUME NEW c \in CLIs, StopReaped(c) PROVE Agreed'
  BY <1>13 DEF StopReaped, Goto, Say
<1>14. ASSUME NEW c \in CLIs, StopTimesOut(c) PROVE Agreed'
  BY <1>14 DEF StopTimesOut, Goto, Say
<1>15. ASSUME NEW d \in Daemons, Listen(d) PROVE Agreed'
  BY <1>15 DEF Listen, MainGoto
<1>30. ASSUME NEW d \in Daemons, ListenerEnds(d) PROVE Agreed'
  BY <1>30 DEF ListenerEnds, Listens
<1>16. ASSUME NEW d \in Daemons, FailEarly(d) PROVE Agreed'
  BY <1>16 DEF FailEarly
<1>17. ASSUME NEW d \in Daemons, Record(d) PROVE Agreed'
  BY <1>17 DEF Record, MainGoto
<1>18. ASSUME NEW d \in Daemons, Notify(d) PROVE Agreed'
  BY <1>18 DEF Notify, MainGoto
<1>19. ASSUME NEW d \in Daemons, StartVM(d) PROVE Agreed'
  BY <1>19 DEF StartVM, MainGoto
<1>20. ASSUME NEW d \in Daemons, WriteRuntime(d) PROVE Agreed'
  BY <1>20 DEF WriteRuntime, MainGoto
<1>21. ASSUME NEW d \in Daemons, WriteState(d) PROVE Agreed'
  BY <1>21 DEF WriteState, MainGoto
<1>22. ASSUME NEW d \in Daemons, Degrade(d) PROVE Agreed'
  BY <1>22 DEF Degrade, MainGoto
<1>23. ASSUME NEW d \in Daemons, VMStops(d) PROVE Agreed'
  BY <1>23 DEF VMStops
<1>24. ASSUME NEW d \in Daemons, Return(d) PROVE Agreed'
  BY <1>24 DEF Return
<1>29. ASSUME NEW d \in Daemons, Unrecord(d) PROVE Agreed'
  BY <1>29 DEF Unrecord, MainGoto
<1>25. ASSUME NEW d \in Daemons, Exit(d) PROVE Agreed'
  BY <1>25 DEF Exit, MainGoto
<1>26. ASSUME NEW d \in Daemons, HandlerExit(d) PROVE Agreed'
  BY <1>26 DEF HandlerExit, Dies
<1>27. ASSUME NEW d \in Daemons, Crash(d) PROVE Agreed'
  BY <1>27 DEF Crash, Dies
<1>28. CASE UNCHANGED vars
  BY <1>28 DEF vars
<1>. QED
  BY <1>1, <1>2, <1>3, <1>4, <1>5, <1>6, <1>7, <1>8, <1>9, <1>10, <1>11,
     <1>12, <1>13, <1>14, <1>15, <1>16, <1>17, <1>18, <1>19, <1>20, <1>21,
     <1>22, <1>23, <1>24, <1>25, <1>26, <1>27, <1>28, <1>29, <1>30 DEF Next

(* Every step keeps a start watching what has not bound the socket yet.    *)
LEMMA WatchedStep ==
  ASSUME Serial, IInv, [Next]_vars
  PROVE  Watched'
<1>0. /\ Watched /\ Serial /\ None \notin Daemons
      /\ DOMAIN cpc = CLIs /\ DOMAIN proc = CLIs
      /\ DOMAIN dpc = Daemons /\ DOMAIN on = Daemons
  BY LifecycleAssumption DEF IInv, TypeOK
<1> USE <1>0 DEF Watched, cliVars, probed, daemonVars, fileVars
<1>1. ASSUME NEW c \in CLIs, StartProbe(c) PROVE Watched'
  <2>1. /\ UNCHANGED <<proc, dpc>>
        /\ \A d \in Daemons : d \notin missed' => d \notin missed
        /\ \A e \in CLIs : cpc[e] = "watching" => cpc'[e] = cpc[e]
    BY <1>1, ProbeEffect
  <2>. QED
    BY <2>1
<1>2. ASSUME NEW c \in CLIs, StartRemovesState(c) PROVE Watched'
  BY <1>2 DEF StartRemovesState, Goto
<1>3. ASSUME NEW c \in CLIs, StartRemovesRuntime(c) PROVE Watched'
  BY <1>3 DEF StartRemovesRuntime, Goto
<1>4. ASSUME NEW c \in CLIs, StartRemovesMarker(c) PROVE Watched'
  BY <1>4 DEF StartRemovesMarker, Goto
<1>5. ASSUME NEW c \in CLIs, NEW d \in Daemons, StartSpawn(c, d) PROVE Watched'
  BY <1>5 DEF StartSpawn, Goto
<1>6. ASSUME NEW c \in CLIs, StartSeesState(c) PROVE Watched'
  <2>1. /\ cpc[c] = "watching" /\ vmState # None
        /\ cpc' = [cpc EXCEPT ![c] = "idle"]
        /\ UNCHANGED <<proc, missed, dpc>>
    BY <1>6 DEF StartSeesState, Goto, probed
  <2>2. proc[c] \in Daemons
    <3>1. CliType /\ HasProc
      BY TypeParts DEF IInv
    <3>. QED
      BY <2>1, <3>1 DEF CliType, HasProc
  <2>3. proc[c] \notin missed => vmState = proc[c]
    BY <2>1 DEF IInv, Described, StateMine
  <2>4. proc[c] \notin missed => dpc[proc[c]] # "spawned"
    BY <2>2, <2>3 DEF IInv, Described, WrittenInOrder
  <2>. QED
    BY <2>1, <2>4
<1>7. ASSUME NEW c \in CLIs, StartSeesMarker(c) PROVE Watched'
  <2>1. /\ cpc[c] = "watching" /\ degraded # None
        /\ cpc' = [cpc EXCEPT ![c] = "idle"]
        /\ UNCHANGED <<proc, missed, dpc>>
    BY <1>7 DEF StartSeesMarker, Fail, Goto, probed
  <2>2. proc[c] \in Daemons
    <3>1. CliType /\ HasProc
      BY TypeParts DEF IInv
    <3>. QED
      BY <2>1, <3>1 DEF CliType, HasProc
  <2>3. proc[c] \notin missed => degraded = proc[c]
    BY <2>1 DEF IInv, Described, MarkerMine
  <2>4. proc[c] \notin missed => dpc[proc[c]] # "spawned"
    BY <2>2, <2>3 DEF IInv, Described, WrittenInOrder
  <2>. QED
    BY <2>1, <2>4
<1>8. ASSUME NEW c \in CLIs, StartSeesExit(c) PROVE Watched'
  BY <1>8 DEF StartSeesExit, Fail, Goto, Alive
<1>9. ASSUME NEW c \in CLIs, StartTimesOut(c) PROVE Watched'
  BY <1>9 DEF StartTimesOut, Fail, Goto, Say
<1>10. ASSUME NEW c \in CLIs, Interrupt(c) PROVE Watched'
  BY <1>10 DEF Interrupt
<1>11. ASSUME NEW c \in CLIs, StopRead(c) PROVE Watched'
  BY <1>11 DEF StopRead, Goto, Say
<1>12. ASSUME NEW c \in CLIs, StopSignal(c) PROVE Watched'
  <2>1. TypeOK
    BY DEF IInv
  <2>. QED
    BY <1>12, <2>1, SignalEffect
<1>13. ASSUME NEW c \in CLIs, StopReaped(c) PROVE Watched'
  BY <1>13 DEF StopReaped, Goto, Say
<1>14. ASSUME NEW c \in CLIs, StopTimesOut(c) PROVE Watched'
  BY <1>14 DEF StopTimesOut, Goto, Say
<1>15. ASSUME NEW d \in Daemons, Listen(d) PROVE Watched'
  BY <1>15 DEF Listen, MainGoto
<1>30. ASSUME NEW d \in Daemons, ListenerEnds(d) PROVE Watched'
  BY <1>30 DEF ListenerEnds, Listens
<1>16. ASSUME NEW d \in Daemons, FailEarly(d) PROVE Watched'
  BY <1>16 DEF FailEarly
<1>17. ASSUME NEW d \in Daemons, Record(d) PROVE Watched'
  BY <1>17 DEF Record, MainGoto
<1>18. ASSUME NEW d \in Daemons, Notify(d) PROVE Watched'
  BY <1>18 DEF Notify, MainGoto
<1>19. ASSUME NEW d \in Daemons, StartVM(d) PROVE Watched'
  BY <1>19 DEF StartVM, MainGoto
<1>20. ASSUME NEW d \in Daemons, WriteRuntime(d) PROVE Watched'
  BY <1>20 DEF WriteRuntime, MainGoto
<1>21. ASSUME NEW d \in Daemons, WriteState(d) PROVE Watched'
  BY <1>21 DEF WriteState, MainGoto
<1>22. ASSUME NEW d \in Daemons, Degrade(d) PROVE Watched'
  BY <1>22 DEF Degrade, MainGoto
<1>23. ASSUME NEW d \in Daemons, VMStops(d) PROVE Watched'
  BY <1>23 DEF VMStops
<1>24. ASSUME NEW d \in Daemons, Return(d) PROVE Watched'
  BY <1>24 DEF Return
<1>29. ASSUME NEW d \in Daemons, Unrecord(d) PROVE Watched'
  BY <1>29 DEF Unrecord, MainGoto
<1>25. ASSUME NEW d \in Daemons, Exit(d) PROVE Watched'
  BY <1>25 DEF Exit, MainGoto
<1>26. ASSUME NEW d \in Daemons, HandlerExit(d) PROVE Watched'
  BY <1>26 DEF HandlerExit, Dies
<1>27. ASSUME NEW d \in Daemons, Crash(d) PROVE Watched'
  BY <1>27 DEF Crash, Dies
<1>28. CASE UNCHANGED vars
  BY <1>28 DEF vars
<1>. QED
  BY <1>1, <1>2, <1>3, <1>4, <1>5, <1>6, <1>7, <1>8, <1>9, <1>10, <1>11,
     <1>12, <1>13, <1>14, <1>15, <1>16, <1>17, <1>18, <1>19, <1>20, <1>21,
     <1>22, <1>23, <1>24, <1>25, <1>26, <1>27, <1>28, <1>29, <1>30 DEF Next

(* Every step keeps the files in agreement with the daemons.               *)
LEMMA FilesStep ==
  ASSUME Serial, IInv, [Next]_vars
  PROVE  Described'
<1>0. /\ Agreed /\ Described /\ Serial /\ None \notin Daemons
      /\ DOMAIN cpc = CLIs /\ DOMAIN proc = CLIs
      /\ DOMAIN dpc = Daemons /\ DOMAIN on = Daemons
  BY LifecycleAssumption DEF IInv, TypeOK
<1> USE <1>0
    DEF Described, Named, RuntimeMine, StateMine, MarkerMine, WrittenInOrder,
        Recorded, Cleaning,
        Alone, Agreed, OneCommand, OneDaemon, NoneAlive, OnlyMine,
        cliVars, probed, daemonVars, fileVars, Alive
<1>1. ASSUME NEW c \in CLIs, StartProbe(c) PROVE Described'
  <2>1. /\ UNCHANGED <<proc, dpc, on, nameless, fileVars>>
        /\ \/ UNCHANGED <<cpc, probed>>
           \/ /\ cpc' = [cpc EXCEPT ![c] = "stale state"]
              /\ \A e \in CLIs : cpc[e] = "idle"
              /\ missed \subseteq missed'
    BY <1>1, ProbeEffect
  <2>2. Named' /\ WrittenInOrder'
    BY <2>1
  <2>3. RuntimeMine'
    BY <2>1
  <2>4. StateMine' /\ MarkerMine'
    BY <2>1
  <2>. QED
    BY <2>2, <2>3, <2>4
<1>2. ASSUME NEW c \in CLIs, StartRemovesState(c) PROVE Described'
  BY <1>2 DEF StartRemovesState, Goto
<1>3. ASSUME NEW c \in CLIs, StartRemovesRuntime(c) PROVE Described'
  BY <1>3 DEF StartRemovesRuntime, Goto
<1>4. ASSUME NEW c \in CLIs, StartRemovesMarker(c) PROVE Described'
  BY <1>4 DEF StartRemovesMarker, Goto
<1>5. ASSUME NEW c \in CLIs, NEW d \in Daemons, StartSpawn(c, d) PROVE Described'
  BY <1>5 DEF StartSpawn, Goto
<1>6. ASSUME NEW c \in CLIs, StartSeesState(c) PROVE Described'
  BY <1>6 DEF StartSeesState, Goto, Say
<1>7. ASSUME NEW c \in CLIs, StartSeesMarker(c) PROVE Described'
  BY <1>7 DEF StartSeesMarker, Fail, Goto, Say
<1>8. ASSUME NEW c \in CLIs, StartSeesExit(c) PROVE Described'
  BY <1>8 DEF StartSeesExit, Fail, Goto, Say
<1>9. ASSUME NEW c \in CLIs, StartTimesOut(c) PROVE Described'
  BY <1>9 DEF StartTimesOut, Fail, Goto, Say
<1>10. ASSUME NEW c \in CLIs, Interrupt(c) PROVE Described'
  BY <1>10 DEF Interrupt
<1>11. ASSUME NEW c \in CLIs, StopRead(c) PROVE Described'
  <2>1. CASE UNCHANGED cpc
    BY <1>11, <2>1 DEF StopRead
  <2>2. CASE cpc[c] = "idle" /\ cpc' = [cpc EXCEPT ![c] = "signalling"]
    BY <1>11, <2>2 DEF StopRead
  <2>. QED
    BY <1>11, <2>1, <2>2 DEF StopRead, Goto
<1>12. ASSUME NEW c \in CLIs, StopSignal(c) PROVE Described'
  <2>0. TypeOK
    BY DEF IInv
  <2>1. /\ cpc[c] = "signalling" /\ proc[c] \in Daemons
        /\ UNCHANGED <<proc, on, nameless, deaf, probed, fileVars>>
    BY <1>12, <2>0, SignalEffect
  <2>2. CASE cpc' = [cpc EXCEPT ![c] = "idle"] /\ UNCHANGED dpc
    BY <2>1, <2>2
  <2>3. CASE cpc' = [cpc EXCEPT ![c] = "reaping"] /\ Alive(proc[c]) /\ UNCHANGED dpc
    BY <2>1, <2>3
  <2>4. CASE /\ cpc' = [cpc EXCEPT ![c] = "reaping"]
             /\ dpc[proc[c]] \in {"spawned", "listening", "recorded"}
             /\ dpc' = [dpc EXCEPT ![proc[c]] = "dead"]
    BY <2>1, <2>4
  <2>. QED
    BY <1>12, <2>0, <2>2, <2>3, <2>4, SignalEffect
<1>13. ASSUME NEW c \in CLIs, StopReaped(c) PROVE Described'
  BY <1>13 DEF StopReaped, Goto, Say
<1>14. ASSUME NEW c \in CLIs, StopTimesOut(c) PROVE Described'
  BY <1>14 DEF StopTimesOut, Goto, Say
<1>15. ASSUME NEW d \in Daemons, Listen(d) PROVE Described'
  BY <1>15 DEF Listen, MainGoto
<1>30. ASSUME NEW d \in Daemons, ListenerEnds(d) PROVE Described'
  BY <1>30 DEF ListenerEnds, Listens
<1>16. ASSUME NEW d \in Daemons, FailEarly(d) PROVE Described'
  BY <1>16 DEF FailEarly
<1>17. ASSUME NEW d \in Daemons, Record(d) PROVE Described'
  BY <1>17 DEF Record, MainGoto
<1>18. ASSUME NEW d \in Daemons, Notify(d) PROVE Described'
  BY <1>18 DEF Notify, MainGoto
<1>19. ASSUME NEW d \in Daemons, StartVM(d) PROVE Described'
  BY <1>19 DEF StartVM, MainGoto
<1>20. ASSUME NEW d \in Daemons, WriteRuntime(d) PROVE Described'
  BY <1>20 DEF WriteRuntime, MainGoto
<1>21. ASSUME NEW d \in Daemons, WriteState(d) PROVE Described'
  BY <1>21 DEF WriteState, MainGoto
<1>22. ASSUME NEW d \in Daemons, Degrade(d) PROVE Described'
  BY <1>22 DEF Degrade, MainGoto
<1>23. ASSUME NEW d \in Daemons, VMStops(d) PROVE Described'
  BY <1>23 DEF VMStops
<1>24. ASSUME NEW d \in Daemons, Return(d) PROVE Described'
  <2>1. /\ dpc' = [dpc EXCEPT ![d] = "returning"]
        /\ dpc[d] \in {"notified", "booting", "writing", "serving"}
        /\ UNCHANGED <<cpc, proc, nameless, probed, pidFile, runtime, vmState, degraded>>
    BY <1>24 DEF Return
  <2>2. Named'
    BY <2>1
  <2>3. RuntimeMine' /\ StateMine' /\ MarkerMine'
    BY <2>1
  <2>4. WrittenInOrder'
    BY <2>1
  <2>. QED
    BY <2>2, <2>3, <2>4
<1>29. ASSUME NEW d \in Daemons, Unrecord(d) PROVE Described'
  BY <1>29 DEF Unrecord, MainGoto
<1>25. ASSUME NEW d \in Daemons, Exit(d) PROVE Described'
  BY <1>25 DEF Exit, MainGoto
<1>26. ASSUME NEW d \in Daemons, HandlerExit(d) PROVE Described'
  BY <1>26 DEF HandlerExit, Dies
<1>27. ASSUME NEW d \in Daemons, Crash(d) PROVE Described'
  BY <1>27 DEF Crash, Dies
<1>28. CASE UNCHANGED vars
  BY <1>28 DEF vars
<1>. QED
  BY <1>1, <1>2, <1>3, <1>4, <1>5, <1>6, <1>7, <1>8, <1>9, <1>10, <1>11,
     <1>12, <1>13, <1>14, <1>15, <1>16, <1>17, <1>18, <1>19, <1>20, <1>21,
     <1>22, <1>23, <1>24, <1>25, <1>26, <1>27, <1>28, <1>29, <1>30 DEF Next

(* Every step keeps the invariant.                                         *)
LEMMA Inductive ==
  ASSUME Serial, IInv, [Next]_vars
  PROVE  IInv'
BY TypeStep, AgreementStep, WatchedStep, FilesStep DEF IInv

(* Initially and after every step the invariant holds.                     *)
THEOREM Invariance == ASSUME Serial PROVE Spec => []IInv
<1>1. Init => IInv
  BY LifecycleAssumption
     DEF Init, IInv, TypeOK, Agreed, Described, OneCommand, OneDaemon, Found, NoneAlive,
         OnlyMine, Inside, Watched, Named, RuntimeMine, StateMine, MarkerMine,
              WrittenInOrder,
         Cleaning, Recorded, Alive, Listens
<1>2. IInv /\ [Next]_vars => IInv'
  BY Inductive
<1>. QED
  BY <1>1, <1>2, PTL DEF Spec

(* Every variable keeps its type, and every command that signals or        *)
(* watches a process has one.                                              *)
THEOREM TypeCorrect == ASSUME Serial PROVE Spec => []TypeOK
BY Invariance, PTL DEF IInv

(* For users who run one command at a time: two VMs have the disks only if *)
(* a start has overlooked a daemon, whose listener had ended or whose      *)
(* answer was lost.  Nothing is asked of the framework.                    *)
THEOREM OneAtATime == ASSUME Serial PROVE Spec => []OneVM
<1>1. IInv => OneVM
  BY DEF IInv, Agreed, Inside, OneDaemon, OneVM, Alive
<1>. QED
  BY <1>1, Invariance, PTL

(* A VM that runs, and was not overlooked, can be stopped, and inspected   *)
(* as long as its daemon has a listener.                                   *)
THEOREM InReach == ASSUME Serial PROVE Spec => []Reachable
<1>1. IInv => Reachable
  BY DEF IInv, Agreed, Described, Found, Named, Recorded, Reachable, Up, Listens, Alive
<1>. QED
  BY <1>1, Invariance, PTL

(* run and shell never go to another VM's address while a VM runs that was *)
(* not overlooked.                                                         *)
THEOREM NoStaleAddress == ASSUME Serial PROVE Spec => []RuntimeMatches
<1>1. IInv => RuntimeMatches
  BY DEF IInv, Described, RuntimeMine, RuntimeMatches, Up, Alive
<1>. QED
  BY <1>1, Invariance, PTL

(* Who tells a user that the VM has started or stopped.                    *)
LEMMA WhoSays ==
  ASSUME TypeOK, Next, NEW c \in CLIs, said'[c] \notin {said[c], "none", "failed"}
  PROVE  \/ said'[c] = "started" /\ StartSeesState(c)
         \/ said'[c] = "stopped" /\ StopReaped(c)
<1>0. DOMAIN said = CLIs
  BY DEF TypeOK
<1>1. ASSUME NEW d \in Daemons,
             \/ Listen(d) \/ ListenerEnds(d) \/ FailEarly(d) \/ Record(d) \/ Notify(d) \/ StartVM(d)
             \/ WriteRuntime(d) \/ WriteState(d) \/ Degrade(d)
             \/ VMStops(d) \/ Return(d) \/ Unrecord(d) \/ Exit(d)
             \/ HandlerExit(d) \/ Crash(d)
      PROVE  said' = said
  BY <1>1 DEF Listen, ListenerEnds, FailEarly, Record, Notify, StartVM, WriteRuntime, WriteState,
              Degrade,
              VMStops, Return, Unrecord, Exit, HandlerExit, Crash, Dies, cliVars, probed
<1>2. ASSUME NEW e \in CLIs,
             \/ StartRemovesState(e) \/ StartRemovesRuntime(e) \/ StartRemovesMarker(e)
             \/ \E d \in Daemons : StartSpawn(e, d)
             \/ Interrupt(e)
      PROVE  said' = said
  BY <1>2 DEF StartRemovesState, StartRemovesRuntime, StartRemovesMarker, StartSpawn,
              Interrupt
<1>3. ASSUME NEW e \in CLIs,
             \/ StartProbe(e) \/ StartSeesMarker(e) \/ StartSeesExit(e) \/ StartTimesOut(e)
             \/ StopRead(e) \/ StopSignal(e) \/ StopTimesOut(e)
      PROVE  \E what \in {"none", "failed"} :
               said' \in {said, [said EXCEPT ![e] = what]}
  BY <1>3 DEF StartProbe, StartSeesMarker, StartSeesExit, StartTimesOut, Fail, StopRead,
              StopSignal, StopTimesOut, Say
<1>4. ASSUME NEW e \in CLIs, StartSeesState(e) \/ StopReaped(e) PROVE e = c
  BY <1>0, <1>4 DEF StartSeesState, StopReaped, Say
<1>5. StartSeesState(c) => said'[c] = "started"
  BY <1>0 DEF StartSeesState, Say
<1>6. StopReaped(c) => said'[c] = "stopped"
  BY <1>0 DEF StopReaped, Say
<1>7. \E e \in CLIs : StartSeesState(e) \/ StopReaped(e)
  BY <1>0, <1>1, <1>2, <1>3 DEF Next
<1>. QED
  BY <1>4, <1>5, <1>6, <1>7

(* start reports success only for what its own daemon has written, unless  *)
(* it has overlooked another one.                                          *)
THEOREM StartTellsTruth == ASSUME Serial PROVE Spec => StartHonest
<1>. DEFINE Honest ==
       \A c \in CLIs : said'[c] = "started" /\ said[c] # "started" /\ proc[c] \notin missed =>
         /\ vmState = proc[c]
         /\ dpc[proc[c]] = "serving" => runtime = proc[c]
<1>1. ASSUME IInv, Next PROVE Honest
  <2>1. ASSUME NEW c \in CLIs, said'[c] = "started", said[c] # "started",
               proc[c] \notin missed
        PROVE  /\ vmState = proc[c]
               /\ dpc[proc[c]] = "serving" => runtime = proc[c]
    <3>1. StartSeesState(c)
      BY <1>1, <2>1, WhoSays DEF IInv
    <3>2. cpc[c] = "watching" /\ vmState # None
      BY <3>1 DEF StartSeesState, Goto
    <3>3. vmState = proc[c] /\ proc[c] \in Daemons
      BY <1>1, <2>1, <3>2 DEF IInv, TypeOK, Described, StateMine
    <3>. QED
      BY <1>1, <2>1, <3>3 DEF IInv, Described, WrittenInOrder
  <2>. QED
    BY <2>1
<1>2. UNCHANGED vars => Honest
  BY DEF vars, cliVars, probed
<1>3. IInv /\ [Next]_vars => [Honest]_vars
  BY <1>1, <1>2
<1>. QED
  BY <1>3, Invariance, PTL DEF Spec, StartHonest

(* stop says that the VM has stopped only when none has the disks that was *)
(* not overlooked.                                                         *)
THEOREM StopTellsTruth == ASSUME Serial PROVE Spec => StopHonest
<1>. DEFINE Honest ==
       \A c \in CLIs : said'[c] = "stopped" /\ said[c] # "stopped" =>
         \A d \in Daemons : on[d] => d \in missed
<1>1. ASSUME IInv, Next PROVE Honest
  <2>1. ASSUME NEW c \in CLIs, said'[c] = "stopped", said[c] # "stopped"
        PROVE  \A d \in Daemons : on[d] => d \in missed
    <3>1. StopReaped(c)
      BY <1>1, <2>1, WhoSays DEF IInv
    <3>. QED
      BY <1>1, <3>1 DEF StopReaped, Goto, IInv, Agreed, OnlyMine, Inside, Alive
  <2>. QED
    BY <2>1
<1>2. UNCHANGED vars => Honest
  BY DEF vars, cliVars, probed
<1>3. IInv /\ [Next]_vars => [Honest]_vars
  BY <1>1, <1>2
<1>. QED
  BY <1>3, Invariance, PTL DEF Spec, StopHonest
=============================================================================
