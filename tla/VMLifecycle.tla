------------------------------ MODULE VMLifecycle ------------------------------
(***************************************************************************)
(* start and stop of the launcher, and the daemons that start leaves       *)
(* behind.  They meet in five files of the working directory: the status   *)
(* socket, vm.pid, vm-runtime.json, vm-state.json and                      *)
(* vm-state-degraded.json.  Each is modelled by the daemon that wrote it.  *)
(*                                                                         *)
(* A daemon's Main goroutine and its signal handler run side by side; its  *)
(* forwards are in ForwardRegistry, the data disk is in DataDisk.          *)
(***************************************************************************)
CONSTANTS
  CLIs,       \* launcher processes
  Daemons,    \* their daemons, one for every process id
  Serial,     \* users run one command at a time, and let a start that has
              \* spawned its daemon run until the daemon listens
  None

ASSUME LifecycleAssumption ==
  /\ Serial \in BOOLEAN
  /\ None \notin Daemons

VARIABLES
  cpc,       \* where each command is
  proc,      \* the process that each command has spawned or is stopping
  said,      \* what each command told its user
  dpc,       \* where Main of each daemon is
  on,        \* its VM runs
  term,      \* its signal handler is shutting it down
  sock,      \* the last daemon to bind the status socket
  pidFile,   \* vm.pid
  runtime,   \* vm-runtime.json
  vmState,   \* vm-state.json
  degraded,  \* vm-state-degraded.json
  failed,    \* daemons whose start told its user that it failed
  nameless,  \* daemons that could not write vm.pid
  deaf,      \* daemons whose status listener has ended
  blind,     \* starts whose probe overlooked a daemon that was alive
  missed     \* the daemons they overlooked, and those they spawned beside them

probed == <<blind, missed>>
cliVars == <<cpc, proc, said, failed, probed>>
daemonVars == <<dpc, on, term, nameless, deaf>>
fileVars == <<sock, pidFile, runtime, vmState, degraded>>
vars == <<cliVars, daemonVars, fileVars>>

-----------------------------------------------------------------------------
Alive(d) == dpc[d] \notin {"unused", "dead"}
Listens(d) == Alive(d) /\ dpc[d] # "spawned" /\ d \notin deaf

(* Main is between vm.Start and its return.                                *)
Up(d) == on[d] /\ dpc[d] \in {"booting", "writing", "serving"}

(* Somebody can answer isVMRunning or the probe of startCmd; both take an  *)
(* error or 2 s without an answer for "not running".                       *)
Answers == sock # None /\ Listens(sock)

(* The live daemons that a probe without an answer has overlooked: the one *)
(* whose answer was lost, those that cannot answer any more, and those     *)
(* that have been overlooked before.                                       *)
Overlooked == {d \in Daemons : Alive(d) /\ d \in {sock} \cup deaf \cup missed}

Alone(c) == Serial => \A e \in CLIs \ {c} : cpc[e] = "idle"

Goto(c, from, to) ==
  /\ cpc[c] = from
  /\ cpc' = [cpc EXCEPT ![c] = to]

Say(c, what) == said' = [said EXCEPT ![c] = what]

(* start tells its user that the VM did not start.                         *)
Fail(c) ==
  /\ Goto(c, "watching", "idle")
  /\ Say(c, "failed")
  /\ failed' = failed \cup {proc[c]}
  /\ UNCHANGED <<proc, probed>>

Init ==
  /\ cpc = [c \in CLIs |-> "idle"]
  /\ proc = [c \in CLIs |-> None]
  /\ said = [c \in CLIs |-> "none"]
  /\ dpc = [d \in Daemons |-> "unused"]
  /\ on = [d \in Daemons |-> FALSE]
  /\ term = [d \in Daemons |-> FALSE]
  /\ sock = None /\ pidFile = None /\ runtime = None
  /\ vmState = None /\ degraded = None
  /\ failed = {} /\ nameless = {} /\ deaf = {}
  /\ blind = {} /\ missed = {}

-----------------------------------------------------------------------------
(* Slips, as in ForwardRegistry.                                           *)

\* StartProbe that asks the pid file instead of the socket
SlipPidProbe(c) ==
  /\ cpc[c] = "idle" /\ Alone(c)
  /\ \/ pidFile = None /\ Goto(c, "idle", "stale state") /\ Say(c, "none")
     \/ pidFile # None /\ Say(c, "failed") /\ UNCHANGED cpc
  /\ UNCHANGED <<proc, failed, probed, daemonVars, fileVars>>

\* StartRemovesState that leaves the old file for the daemon to replace
SlipKeepState(c) ==
  /\ Goto(c, "stale state", "stale runtime")
  /\ UNCHANGED <<proc, said, failed, probed, daemonVars, fileVars>>

\* StartRemovesRuntime, likewise
SlipKeepRuntime(c) ==
  /\ Goto(c, "stale runtime", "stale marker")
  /\ UNCHANGED <<proc, said, failed, probed, daemonVars, fileVars>>

\* StopReaped that does not look whether the process is gone
SlipNoWait(c) ==
  /\ Goto(c, "reaping", "idle")
  /\ Say(c, "stopped")
  /\ pidFile' = None
  /\ UNCHANGED <<proc, failed, probed, daemonVars, sock, runtime, vmState, degraded>>

\* StopTimesOut that cleans up as StopReaped does
SlipTimeoutRemoves(c) ==
  /\ Goto(c, "reaping", "idle")
  /\ Alive(proc[c])
  /\ Say(c, "failed")
  /\ pidFile' = None
  /\ UNCHANGED <<proc, failed, probed, daemonVars, sock, runtime, vmState, degraded>>

\* StopRead that goes on without a pid
SlipNoPid(c) ==
  /\ cpc[c] = "idle" /\ Alone(c)
  /\ Goto(c, "idle", "signalling")
  /\ Say(c, "none")
  /\ proc' = [proc EXCEPT ![c] = pidFile]
  /\ UNCHANGED <<failed, probed, daemonVars, fileVars>>

-----------------------------------------------------------------------------
(* launcher start: startCmd, without the data disk.                        *)

(* Whatever goes wrong with the probe lets the start go on.                *)
StartProbe(c) ==
  /\ cpc[c] = "idle" /\ Alone(c)
  /\ \/ /\ Goto(c, "idle", "stale state")
        /\ Say(c, "none")
        /\ missed' = missed \cup Overlooked
        /\ blind' = IF Overlooked = {} THEN blind \ {c} ELSE blind \cup {c}
     \/ Answers /\ Say(c, "failed") /\ UNCHANGED <<cpc, probed>>
  /\ UNCHANGED <<proc, failed, daemonVars, fileVars>>

StartRemovesState(c) ==
  /\ Goto(c, "stale state", "stale runtime")
  /\ vmState' = None
  /\ UNCHANGED <<proc, said, failed, probed, daemonVars, sock, pidFile, runtime, degraded>>

StartRemovesRuntime(c) ==
  /\ Goto(c, "stale runtime", "stale marker")
  /\ runtime' = None
  /\ UNCHANGED <<proc, said, failed, probed, daemonVars, sock, pidFile, vmState, degraded>>

StartRemovesMarker(c) ==
  /\ Goto(c, "stale marker", "clean")
  /\ degraded' = None
  /\ UNCHANGED <<proc, said, failed, probed, daemonVars, sock, pidFile, runtime, vmState>>

StartSpawn(c, d) ==
  /\ dpc[d] = "unused"
  /\ Goto(c, "clean", "watching")
  /\ dpc' = [dpc EXCEPT ![d] = "spawned"]
  /\ proc' = [proc EXCEPT ![c] = d]
  /\ missed' = IF c \in blind THEN missed \cup {d} ELSE missed
  /\ UNCHANGED <<said, failed, blind, on, term, nameless, deaf, fileVars>>

(* The select takes any watcher that is ready.                             *)
StartSeesState(c) ==
  /\ vmState # None
  /\ Goto(c, "watching", "idle")
  /\ Say(c, "started")
  /\ UNCHANGED <<proc, failed, probed, daemonVars, fileVars>>

StartSeesMarker(c) ==
  /\ degraded # None
  /\ Fail(c)
  /\ UNCHANGED <<daemonVars, fileVars>>

StartSeesExit(c) ==
  /\ Fail(c)
  /\ ~Alive(proc[c])
  /\ UNCHANGED <<daemonVars, fileVars>>

(* After 4 minutes, by which time the daemon listens.                      *)
StartTimesOut(c) ==
  /\ Fail(c)
  /\ dpc[proc[c]] # "spawned"
  /\ UNCHANGED <<daemonVars, fileVars>>

(* A removal or the spawn fails, or the user interrupts the command.       *)
Interrupt(c) ==
  /\ cpc[c] # "idle"
  /\ (Serial /\ cpc[c] = "watching") => dpc[proc[c]] # "spawned"
  /\ cpc' = [cpc EXCEPT ![c] = "idle"]
  /\ UNCHANGED <<proc, said, failed, probed, daemonVars, fileVars>>

-----------------------------------------------------------------------------
(* launcher stop: stopCmd.                                                 *)

StopRead(c) ==
  /\ cpc[c] = "idle" /\ Alone(c)
  /\ \/ /\ pidFile # None
        /\ Goto(c, "idle", "signalling")
        /\ Say(c, "none")
        /\ proc' = [proc EXCEPT ![c] = pidFile]
     \/ pidFile = None /\ Say(c, "failed") /\ UNCHANGED <<cpc, proc>>
  /\ UNCHANGED <<failed, probed, daemonVars, fileVars>>

(* Before signal.Notify a SIGTERM kills, and after the first one further   *)
(* ones are ignored.                                                       *)
StopSignal(c) ==
  LET d == proc[c] IN
  /\ \/ /\ Goto(c, "signalling", "idle")
        /\ ~Alive(d)
        /\ Say(c, "failed")
        /\ UNCHANGED <<dpc, term>>
     \/ /\ Goto(c, "signalling", "reaping")
        /\ Alive(d)
        /\ IF dpc[d] \in {"spawned", "listening", "recorded"}
             THEN dpc' = [dpc EXCEPT ![d] = "dead"] /\ UNCHANGED term
             ELSE term' = [term EXCEPT ![d] = TRUE] /\ UNCHANGED dpc
        /\ UNCHANGED said
  /\ UNCHANGED <<proc, failed, probed, on, nameless, deaf, fileVars>>

(* Whoever's pid file it is by now.                                        *)
StopReaped(c) ==
  /\ Goto(c, "reaping", "idle")
  /\ ~Alive(proc[c])
  /\ Say(c, "stopped")
  /\ pidFile' = None
  /\ UNCHANGED <<proc, failed, probed, daemonVars, sock, runtime, vmState, degraded>>

StopTimesOut(c) ==
  /\ Goto(c, "reaping", "idle")
  /\ Alive(proc[c])
  /\ Say(c, "failed")
  /\ UNCHANGED <<proc, failed, probed, daemonVars, fileVars>>

-----------------------------------------------------------------------------
(* The daemon: runVMDaemon.                                                *)

MainGoto(d, from, to) ==
  /\ dpc[d] = from
  /\ dpc' = [dpc EXCEPT ![d] = to]

(* startStatusListener removes the socket of whoever has it, and binds.    *)
Listen(d) ==
  /\ MainGoto(d, "spawned", "listening")
  /\ sock' = d
  /\ UNCHANGED <<cliVars, on, term, nameless, deaf, pidFile, runtime, vmState, degraded>>

(* The goroutine of the listener leaves at the first Accept that fails,    *)
(* and removes the socket by its name; the daemon lives on.                *)
ListenerEnds(d) ==
  /\ Listens(d)
  /\ deaf' = deaf \cup {d}
  /\ sock' = None
  /\ UNCHANGED <<cliVars, dpc, on, term, nameless, pidFile, runtime, vmState, degraded>>

(* The configuration is refused, or the socket cannot be bound once the    *)
(* old one is gone: only vm-runtime.json is cleaned up yet.                *)
FailEarly(d) ==
  /\ \/ dpc[d] = "spawned" /\ sock' \in {sock, None}
     \/ dpc[d] = "listening" /\ UNCHANGED sock
  /\ dpc' = [dpc EXCEPT ![d] = "dead"]
  /\ runtime' = None
  /\ UNCHANGED <<cliVars, on, term, nameless, deaf, pidFile, vmState, degraded>>

(* A pid file that cannot be written is only warned about.                 *)
Record(d) ==
  /\ MainGoto(d, "listening", "recorded")
  /\ \/ pidFile' = d /\ UNCHANGED nameless
     \/ pidFile' \in {pidFile, None} /\ nameless' = nameless \cup {d}
  /\ UNCHANGED <<cliVars, on, term, deaf, sock, runtime, vmState, degraded>>

Notify(d) ==
  /\ MainGoto(d, "recorded", "notified")
  /\ UNCHANGED <<cliVars, on, term, nameless, deaf, fileVars>>

(* Nothing here keeps a second VM from the disks; that the framework may   *)
(* refuse an image in use is a failure like any other (Return).            *)
StartVM(d) ==
  /\ MainGoto(d, "notified", "booting")
  /\ on' = [on EXCEPT ![d] = TRUE]
  /\ UNCHANGED <<cliVars, term, nameless, deaf, fileVars>>

(* The guest reports its address, the forwards are bound, SSH answers.     *)
WriteRuntime(d) ==
  /\ MainGoto(d, "booting", "writing")
  /\ runtime' = d
  /\ UNCHANGED <<cliVars, on, term, nameless, deaf, sock, pidFile, vmState, degraded>>

WriteState(d) ==
  /\ MainGoto(d, "writing", "serving")
  /\ vmState' = d
  /\ UNCHANGED <<cliVars, on, term, nameless, deaf, sock, pidFile, runtime, degraded>>

(* SSH does not answer: the daemon stays, with or without its marker.      *)
Degrade(d) ==
  /\ MainGoto(d, "booting", "serving")
  /\ degraded' \in {d, degraded}
  /\ UNCHANGED <<cliVars, on, term, nameless, deaf, sock, pidFile, runtime, vmState>>

(* The guest powers off, by itself or for the signal handler or shutdownVM.*)
VMStops(d) ==
  /\ on[d]
  /\ on' = [on EXCEPT ![d] = FALSE]
  /\ UNCHANGED <<cliVars, dpc, term, nameless, deaf, fileVars>>

(* Main returns: on a failure, or because its VM has stopped.              *)
Return(d) ==
  /\ \/ dpc[d] \in {"notified", "booting", "writing"}
     \/ dpc[d] = "serving" /\ ~on[d]
  /\ dpc' = [dpc EXCEPT ![d] = "returning"]
  /\ UNCHANGED <<cliVars, on, term, nameless, deaf, fileVars>>

(* The deferred calls remove vm.pid, once the clock synchronization has    *)
(* ended, and then vm-runtime.json, whoever's they are.                    *)
Unrecord(d) ==
  /\ MainGoto(d, "returning", "removing")
  /\ pidFile' = None
  /\ UNCHANGED <<cliVars, on, term, nameless, deaf, sock, runtime, vmState, degraded>>

Exit(d) ==
  /\ MainGoto(d, "removing", "dead")
  /\ runtime' = None
  /\ on' = [on EXCEPT ![d] = FALSE]
  /\ UNCHANGED <<cliVars, term, nameless, deaf, sock, pidFile, vmState, degraded>>

(* The signal handler exits once the VM has stopped or 60 s have passed:   *)
(* no deferred call runs.  A crash of the daemon looks the same.           *)
Dies(d) ==
  /\ dpc' = [dpc EXCEPT ![d] = "dead"]
  /\ on' = [on EXCEPT ![d] = FALSE]
  /\ UNCHANGED <<cliVars, term, nameless, deaf, fileVars>>

HandlerExit(d) == Alive(d) /\ term[d] /\ Dies(d)
Crash(d) == Alive(d) /\ ~term[d] /\ Dies(d)

-----------------------------------------------------------------------------
Next ==
  \/ \E c \in CLIs :
       \/ StartProbe(c) \/ StartRemovesState(c) \/ StartRemovesRuntime(c)
       \/ StartRemovesMarker(c) \/ \E d \in Daemons : StartSpawn(c, d)
       \/ StartSeesState(c) \/ StartSeesMarker(c) \/ StartSeesExit(c)
       \/ StartTimesOut(c) \/ Interrupt(c)
       \/ StopRead(c) \/ StopSignal(c) \/ StopReaped(c) \/ StopTimesOut(c)
  \/ \E d \in Daemons :
       \/ Listen(d) \/ ListenerEnds(d) \/ FailEarly(d) \/ Record(d) \/ Notify(d) \/ StartVM(d)
       \/ WriteRuntime(d) \/ WriteState(d) \/ Degrade(d)
       \/ VMStops(d) \/ Return(d) \/ Unrecord(d) \/ Exit(d)
       \/ HandlerExit(d) \/ Crash(d)

Spec == Init /\ [][Next]_vars

-----------------------------------------------------------------------------
(* Every variable holds a value of its type, and a command that signals or *)
(* watches a process has one.                                              *)
TypeOK ==
  /\ cpc \in [CLIs -> {"idle", "stale state", "stale runtime", "stale marker",
                       "clean", "watching", "signalling", "reaping"}]
  /\ proc \in [CLIs -> Daemons \cup {None}]
  /\ \A c \in CLIs : cpc[c] \in {"watching", "signalling", "reaping"} => proc[c] # None
  /\ said \in [CLIs -> {"none", "started", "stopped", "failed"}]
  /\ dpc \in [Daemons -> {"unused", "spawned", "listening", "recorded", "notified",
                          "booting", "writing", "serving", "returning", "removing",
                          "dead"}]
  /\ on \in [Daemons -> BOOLEAN]
  /\ term \in [Daemons -> BOOLEAN]
  /\ {sock, pidFile, runtime, vmState, degraded} \subseteq Daemons \cup {None}
  /\ {failed, nameless, deaf, missed} \subseteq SUBSET Daemons
  /\ blind \subseteq CLIs

(* Two VMs use the disks only if a start has overlooked a daemon: because  *)
(* its listener had ended, or the answer to the probe was lost or late.    *)
(* Nothing but the probe keeps a second VM away.                           *)
OneVM ==
  \A d, e \in Daemons : on[d] /\ on[e] /\ d # e => d \in missed /\ e \in missed

(* A VM that runs can be inspected and stopped: the status socket leads to *)
(* its daemon unless the listener has ended, and so does vm.pid if it      *)
(* could be written.  Not promised beside a daemon that was overlooked.    *)
Reachable ==
  \A d \in Daemons :
    Up(d) /\ d \notin missed =>
      /\ sock = d \/ d \in deaf
      /\ pidFile = d \/ d \in nameless

(* run and shell never go to the address of another VM than the one that   *)
(* runs, as long as no start has overlooked it.                            *)
RuntimeMatches ==
  \A d \in Daemons : Up(d) /\ d \notin missed => runtime \in {None, d}

(* start reports success only for what its own daemon has written: its     *)
(* result, and the runtime state that run needs as long as it lives; but   *)
(* a start that has overlooked a daemon may take that one's result.        *)
StartHonest ==
  [][\A c \in CLIs : said'[c] = "started" /\ said[c] # "started" /\ proc[c] \notin missed =>
       /\ vmState = proc[c]
       /\ dpc[proc[c]] = "serving" => runtime = proc[c]]_vars

(* When stop reports that the VM has stopped, no VM has the disks, except  *)
(* one that was overlooked by a start, or was started beside such a one.   *)
StopHonest ==
  [][\A c \in CLIs : said'[c] = "stopped" /\ said[c] # "stopped" =>
       \A d \in Daemons : on[d] => d \in missed]_vars

(* vm-state.json is the result of a successful start: no daemon writes it  *)
(* once its start has told the user that it failed.                        *)
NoLateResult ==
  [][\A d \in failed : vmState' = d => vmState = d]_vars
=============================================================================
