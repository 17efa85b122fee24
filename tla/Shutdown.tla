------------------------------- MODULE Shutdown -------------------------------
(***************************************************************************)
(* How the daemon ends, and what becomes of the guest's unwritten data.    *)
(* Five goroutines of one process take part: Main (runVMDaemon from        *)
(* vm.Start on), the signal handler, the helper that shutdownVM starts, the*)
(* clock synchronization and the status listener, which is there as long as*)
(* its socket is.  The VM lives in the daemon's process: it dies with it,  *)
(* and what the guest has not flushed by then is lost.                     *)
(*                                                                         *)
(* Time is left out: a timeout may expire whenever what it waits for has   *)
(* not happened.  closeForwarders is part of the step that calls it; that  *)
(* it ends, whatever requests hold the mutex, is ForwardRegistry's         *)
(* TermCloses.                                                             *)
(***************************************************************************)
VARIABLES
  alive,      \* the daemon process runs
  vm,         \* the virtual machine
  data,       \* the guest's files: "clean", "dirty" in its memory, "lost"
  main,       \* where Main is
  handler,    \* where the signal handler is
  helper,     \* where the helper of shutdownVM is
  clock,      \* where the clock synchronization is
  target,     \* sshTarget is set
  cancelled,  \* clockSyncCtx is cancelled
  hung,       \* whose calls will never return: RequestStop or Stop of the
              \* "handler" or of the "helper", the "ssh" of the handler
  excuses,    \* what has gone wrong so far, of Excuse
  files       \* which of its files are there, of File

vmVars == <<vm, data>>
syncVars == <<helper, clock, target, cancelled, hung>>
others == <<syncVars, excuses, files>>
vars == <<alive, vmVars, main, handler, others>>

Excuse == {
  "failed",   \* the start ended in an error
  "early",    \* the handler looked at a VM that Main had not started yet
  "expired",  \* the handler warned that the VM did not stop within 60 s
  "pulled"}   \* vm.Stop ended the VM without asking the guest

File ==
  {"vm.sock", "vm.pid", "vm-runtime.json", "vm-state.json", "vm-state-degraded.json"}

-----------------------------------------------------------------------------
(* The virtual machine, as far as the daemon can tell (external).          *)

Stopped == vm \in {"new", "stopped"}  \* what State() = Stopped means

(* vm.Stop, which may fail, and which does nothing to a VM that has stopped.*)
PullPlug ==
  /\ vm' \in IF Stopped THEN {vm} ELSE {vm, "stopped"}
  /\ excuses' = IF vm' = vm THEN excuses ELSE excuses \cup {"pulled"}
  /\ data' = IF vm' # vm /\ data = "dirty" THEN "lost" ELSE data

(* RequestStop where it is possible, else Stop.  A guest that is asked may *)
(* power off, or ignore it when it has no ACPI handler yet.                *)
AskOrStop ==
  \/ vm = "running" /\ UNCHANGED <<vmVars, excuses>>
  \/ vm # "running" /\ PullPlug

(* The end of the process, which takes a running VM with it.               *)
Die ==
  /\ alive' = FALSE
  /\ vm' = IF Stopped THEN vm ELSE "killed"
  /\ data' = IF data = "dirty" THEN "lost" ELSE data

GuestWrites ==
  /\ alive /\ vm = "running"
  /\ data' = "dirty"
  /\ UNCHANGED <<alive, vm, main, handler, others>>

(* The guest powers off when it was told to, or because a user said so; it *)
(* promises neither.                                                       *)
GuestPowersOff ==
  /\ alive /\ vm = "running"
  /\ vm' = "stopped"
  /\ data' = "clean"
  /\ UNCHANGED <<alive, main, handler, others>>

-----------------------------------------------------------------------------
(* Where the goroutines go.                                                *)

MainGoes(from, to) ==
  /\ alive
  /\ main = from
  /\ main' = to

HandlerGoes(from, to) ==
  /\ alive
  /\ handler = from
  /\ handler' = to

Clock(from, to) ==
  /\ alive
  /\ clock = from
  /\ clock' = to
  /\ UNCHANGED <<alive, vmVars, main, handler, helper, target, cancelled, hung,
                 excuses, files>>

-----------------------------------------------------------------------------
(* Slips, as in ForwardRegistry.                                           *)

\* SSHPoweroff that takes the guest's answer for the end of the guest
SlipNoWait ==
  /\ HandlerGoes("ssh", "exit")
  /\ vm = "running" /\ "ssh" \notin hung
  /\ UNCHANGED <<alive, vmVars, main, others>>

\* WaitExpires without its deadline
SlipNoDeadline ==
  /\ HandlerGoes("wait", "exit")
  /\ Stopped
  /\ UNCHANGED <<alive, vmVars, main, others>>

\* BindFails that calls RequestStop itself
SlipAskInline ==
  /\ MainGoes("binding", "requesting")
  /\ excuses' = excuses \cup {"failed"}
  /\ UNCHANGED <<alive, vmVars, handler, syncVars, files>>

\* AskedEnough without its timeout
SlipNoTimeout ==
  /\ MainGoes("asking", "polling")
  /\ helper = "done"
  /\ UNCHANGED <<alive, vmVars, handler, others>>

\* Unwind that joins the synchronization before it cancels it
SlipJoinFirst ==
  /\ MainGoes("return", "joining")
  /\ UNCHANGED <<alive, vmVars, handler, others>>

\* VMStopped that also returns when SIGTERM has cancelled the context
SlipReturnOnCancel ==
  /\ MainGoes("serving", "return")
  /\ Stopped \/ cancelled
  /\ UNCHANGED <<alive, vmVars, handler, others>>

\* ClockDone that looks at the VM instead of the context
SlipUntilStopped == Stopped /\ Clock("idle", "done")

-----------------------------------------------------------------------------
(* Main: runVMDaemon from vm.Start on.                                     *)

StartVM ==
  /\ MainGoes("new", "starting")
  /\ vm = "new"
  /\ vm' = "starting"
  /\ UNCHANGED <<alive, data, handler, others>>

Started ==
  /\ MainGoes("starting", "booting")
  /\ vm = "starting"
  /\ vm' = "running"
  /\ UNCHANGED <<alive, data, handler, others>>

(* Also when the handler has pulled the plug meanwhile.                    *)
StartFails ==
  /\ MainGoes("starting", "return")
  /\ vm' = IF vm = "starting" THEN "stopped" ELSE vm
  /\ excuses' = excuses \cup {"failed"}
  /\ UNCHANGED <<alive, data, handler, syncVars, files>>

InitOutput ==
  /\ MainGoes("booting", "binding")
  /\ target' = TRUE
  /\ UNCHANGED <<alive, vmVars, handler, helper, clock, cancelled, hung, excuses,
                 files>>

(* No init output, or an unusable one: return, and leave the VM to die.    *)
InitFails ==
  /\ MainGoes("booting", "return")
  /\ excuses' = excuses \cup {"failed"}
  /\ UNCHANGED <<alive, vmVars, handler, syncVars, files>>

Bound ==
  /\ MainGoes("binding", "sshWait")
  /\ UNCHANGED <<alive, vmVars, handler, others>>

BindFails ==
  /\ MainGoes("binding", "asking")
  /\ helper' = "asking"
  /\ excuses' = excuses \cup {"failed"}
  /\ UNCHANGED <<alive, vmVars, handler, clock, target, cancelled, hung, files>>

SSHReady ==
  /\ MainGoes("sshWait", "firstSync")
  /\ UNCHANGED <<alive, vmVars, handler, others>>

(* Degraded: no clock synchronization, nothing published, but it serves,   *)
(* with or without its marker.                                             *)
SSHTimeout ==
  /\ MainGoes("sshWait", "serving")
  /\ files' \in {files, files \cup {"vm-state-degraded.json"}}
  /\ UNCHANGED <<alive, vmVars, handler, syncVars, excuses>>

(* The first synchronization is over, well or not: start the goroutine.    *)
FirstSyncEnds ==
  /\ MainGoes("firstSync", "publish")
  /\ clock' = "idle"
  /\ UNCHANGED <<alive, vmVars, handler, helper, target, cancelled, hung, excuses,
                 files>>

Writes(file, from, to) ==
  /\ MainGoes(from, to)
  /\ files' = files \cup {file}
  /\ UNCHANGED <<alive, vmVars, handler, syncVars, excuses>>

WriteRuntime == Writes("vm-runtime.json", "publish", "writing")
WriteState == Writes("vm-state.json", "writing", "serving")

PublishFails ==
  /\ \E from \in {"publish", "writing"} : MainGoes(from, "return")
  /\ excuses' = excuses \cup {"failed"}
  /\ UNCHANGED <<alive, vmVars, handler, syncVars, files>>

VMStopped ==
  /\ MainGoes("serving", "return")
  /\ Stopped
  /\ UNCHANGED <<alive, vmVars, handler, others>>

(* The deferred calls, last first: cancel and join the synchronization,    *)
(* when there is one, close the forwards, cancel, remove vm.pid and        *)
(* vm-runtime.json.  Then main exits.                                      *)
Unwind ==
  /\ MainGoes("return", "joining")
  /\ cancelled' = TRUE
  /\ UNCHANGED <<alive, vmVars, handler, helper, clock, target, hung, excuses,
                 files>>

Joined ==
  /\ MainGoes("joining", "removing")
  /\ clock \in {"none", "done"}
  /\ files' = files \ {"vm.pid"}
  /\ UNCHANGED <<alive, vmVars, handler, syncVars, excuses>>

MainExits ==
  /\ MainGoes("removing", "left")
  /\ files' = files \ {"vm-runtime.json"}
  /\ Die
  /\ UNCHANGED <<handler, syncVars, excuses>>

-----------------------------------------------------------------------------
(* shutdownVM, which only the failed bind calls: the helper makes the      *)
(* request, Main gives it 5 s and the VM 30 s more.                        *)

HelperAsks ==
  /\ alive /\ helper = "asking"
  /\ helper' = "requesting"
  /\ AskOrStop
  /\ hung' \in {hung} \cup IF Stopped THEN {} ELSE {hung \cup {"helper"}}
  /\ UNCHANGED <<alive, main, handler, clock, target, cancelled, files>>

HelperReturns ==
  /\ alive /\ helper = "requesting" /\ "helper" \notin hung
  /\ helper' = "done"
  /\ UNCHANGED <<alive, vmVars, main, handler, clock, target, cancelled, hung,
                 excuses, files>>

(* The helper is done, or 5 s are over.                                    *)
AskedEnough ==
  /\ MainGoes("asking", "polling")
  /\ UNCHANGED <<alive, vmVars, handler, others>>

(* The VM has stopped, or 30 s are over.                                   *)
PolledEnough ==
  /\ MainGoes("polling", "return")
  /\ UNCHANGED <<alive, vmVars, handler, others>>

-----------------------------------------------------------------------------
(* startGuestClockSynchronization: when both the ticker and the context    *)
(* are ready, select takes either; a command with a cancelled context does *)
(* not start, and one that runs is killed.                                 *)

Tick == ~cancelled /\ Clock("idle", "dating")
DateEnds == Clock("dating", "idle")
ClockDone == cancelled /\ Clock("idle", "done")

(* The status listener leaves at the first Accept that fails, and takes    *)
(* its socket with it; nobody waits for it or starts it again.             *)
ListenerEnds ==
  /\ alive /\ "vm.sock" \in files
  /\ files' = files \ {"vm.sock"}
  /\ UNCHANGED <<alive, vmVars, main, handler, syncVars, excuses>>

-----------------------------------------------------------------------------
(* The signal handler.  It takes one signal; later ones are ignored.       *)

SigTerm ==
  /\ HandlerGoes("armed", "closing")
  /\ UNCHANGED <<alive, vmVars, main, others>>

CloseAndCancel ==
  /\ HandlerGoes("closing", "aiming")
  /\ cancelled' = TRUE
  /\ UNCHANGED <<alive, vmVars, main, helper, clock, target, hung, excuses,
                 files>>

(* An address that Main learns later is not looked at again.               *)
Aim ==
  /\ \/ ~target /\ HandlerGoes("aiming", "request") /\ UNCHANGED hung
     \/ target /\ HandlerGoes("aiming", "ssh") /\ hung' \in {hung, hung \cup {"ssh"}}
  /\ UNCHANGED <<alive, vmVars, main, helper, clock, target, cancelled, excuses,
                 files>>

SSHPoweroff ==
  /\ HandlerGoes("ssh", "wait")
  /\ vm = "running" /\ "ssh" \notin hung
  /\ UNCHANGED <<alive, vmVars, main, others>>

(* Unreachable, refused, or cut off by the poweroff that it brought about. *)
SSHFails ==
  /\ HandlerGoes("ssh", "request")
  /\ "ssh" \notin hung
  /\ UNCHANGED <<alive, vmVars, main, others>>

Request ==
  /\ HandlerGoes("request", "requesting")
  /\ AskOrStop
  /\ hung' \in {hung} \cup IF Stopped THEN {} ELSE {hung \cup {"handler"}}
  /\ UNCHANGED <<alive, main, helper, clock, target, cancelled, files>>

Requested ==
  /\ HandlerGoes("requesting", "wait")
  /\ "handler" \notin hung
  /\ UNCHANGED <<alive, vmVars, main, others>>

(* RequestStop returned an error.                                          *)
RequestFails ==
  /\ HandlerGoes("requesting", "wait")
  /\ "handler" \notin hung
  /\ PullPlug
  /\ UNCHANGED <<alive, main, syncVars, files>>

SeesStopped ==
  /\ HandlerGoes("wait", "exit")
  /\ Stopped
  /\ excuses' = IF vm = "new" THEN excuses \cup {"early"} ELSE excuses
  /\ UNCHANGED <<alive, vmVars, main, syncVars, files>>

WaitExpires ==
  /\ HandlerGoes("wait", "exit")
  /\ ~Stopped
  /\ excuses' = excuses \cup {"expired"}
  /\ UNCHANGED <<alive, vmVars, main, syncVars, files>>

HandlerExits ==
  /\ HandlerGoes("exit", "left")
  /\ Die
  /\ UNCHANGED <<main, others>>

-----------------------------------------------------------------------------
Init ==
  /\ alive = TRUE
  /\ vm = "new" /\ data = "clean"
  /\ main = "new" /\ handler = "armed" /\ helper = "none" /\ clock = "none"
  /\ target = FALSE /\ cancelled = FALSE /\ hung = {}
  /\ excuses = {}
  /\ files = {"vm.sock", "vm.pid"}

MainStep ==
  \/ StartVM \/ Started \/ StartFails \/ InitOutput \/ InitFails
  \/ Bound \/ BindFails \/ AskedEnough \/ PolledEnough
  \/ SSHReady \/ SSHTimeout \/ FirstSyncEnds
  \/ WriteRuntime \/ WriteState \/ PublishFails
  \/ VMStopped \/ Unwind \/ Joined \/ MainExits

HandlerStep ==
  \/ SigTerm \/ CloseAndCancel \/ Aim \/ SSHPoweroff \/ SSHFails
  \/ Request \/ Requested \/ RequestFails \/ SeesStopped \/ WaitExpires
  \/ HandlerExits

Gone == ~alive /\ UNCHANGED vars

Next ==
  \/ GuestWrites \/ GuestPowersOff
  \/ MainStep \/ HandlerStep
  \/ HelperAsks \/ HelperReturns
  \/ Tick \/ DateEnds \/ ClockDone
  \/ ListenerEnds
  \/ Gone

Spec == Init /\ [][Next]_vars

(* Goroutines run and timeouts expire.  Once it is connected an ssh has no *)
(* timeout: the one that runs `date` may hang until its context is         *)
(* cancelled.  The guest promises nothing, and what hangs stays so.        *)
Fairness ==
  /\ WF_vars(Started \/ StartFails) /\ WF_vars(InitOutput \/ InitFails)
  /\ WF_vars(Bound \/ BindFails)
  /\ WF_vars(AskedEnough) /\ WF_vars(PolledEnough)
  /\ WF_vars(SSHReady \/ SSHTimeout) /\ WF_vars(cancelled /\ FirstSyncEnds)
  /\ WF_vars(WriteRuntime \/ WriteState \/ PublishFails) /\ WF_vars(VMStopped)
  /\ WF_vars(Unwind) /\ WF_vars(Joined) /\ WF_vars(MainExits)
  /\ WF_vars(cancelled /\ DateEnds) /\ WF_vars(ClockDone)
  /\ WF_vars(CloseAndCancel) /\ WF_vars(Aim)
  /\ WF_vars(SSHPoweroff \/ SSHFails)
  /\ WF_vars(Request) /\ WF_vars(Requested \/ RequestFails)
  /\ WF_vars(SeesStopped \/ WaitExpires)
  /\ WF_vars(HandlerExits)

FairSpec == Spec /\ Fairness

-----------------------------------------------------------------------------
(* Every variable holds a value of its type.                               *)
TypeOK ==
  /\ {alive, target, cancelled} \subseteq BOOLEAN
  /\ vm \in {"new", "starting", "running", "stopped", "killed"}
  /\ data \in {"clean", "dirty", "lost"}
  /\ main \in {"new", "starting", "booting", "binding", "asking", "polling",
               "sshWait", "firstSync", "publish", "writing", "serving", "return",
               "joining", "removing", "left"}
  /\ handler \in {"armed", "closing", "aiming", "ssh", "request", "requesting",
                  "wait", "exit", "left"}
  /\ helper \in {"none", "asking", "requesting", "done"}
  /\ clock \in {"none", "idle", "dating", "done"}
  /\ hung \subseteq {"handler", "helper", "ssh"}
  /\ excuses \subseteq Excuse
  /\ files \subseteq File

(* The guest's data is lost only if the start had failed, if the handler   *)
(* warned after 60 s, if the VM could not be asked and was stopped, or if  *)
(* SIGTERM came before the VM was started.  Otherwise a daemon, healthy or *)
(* degraded, never exits under a guest that has something left to flush,   *)
(* whichever of Main and the handler gets there first.                     *)
FlushedOrWarned == data = "lost" => excuses # {}

(* SIGTERM ends the daemon, whatever Main is doing and whether or not the  *)
(* guest reacts, unless the handler's ssh, RequestStop or Stop hangs.      *)
TermEnds == handler = "closing" ~> (~alive \/ hung \cap {"handler", "ssh"} # {})

(* The same with a RequestStop that hangs: shutdownVM bounds its own just  *)
(* because it may block; the handler calls it unbounded.                   *)
StopBounded == handler = "closing" ~> (~alive \/ "ssh" \in hung)

(* A start that cannot bind a port ends, even if RequestStop blocks.       *)
BindFailureEnds == main = "asking" ~> ~alive

(* Main that returns also leaves: the synchronization it joins is never    *)
(* stuck in an ssh that hangs.                                             *)
ReturnEnds == main = "return" ~> ~alive

(* Once the synchronization is cancelled it stops for good, even if SIGTERM*)
(* comes before Main starts it.                                            *)
ClockStops == cancelled ~> [](~alive \/ clock \in {"none", "done"})

-----------------------------------------------------------------------------
(* This daemon among those of VMLifecycle: one that somebody has started   *)
(* and given up waiting for, and that a stop is about to signal.  Its VM   *)
(* counts as running from the moment that vm.Start has succeeded.          *)

Phase ==
  CASE ~alive -> "dead"
    [] alive /\ main \in {"new", "starting"} -> "notified"
    [] alive /\ main \in {"booting", "binding", "asking", "polling", "sshWait",
                         "firstSync", "publish"} -> "booting"
    [] alive /\ main \in {"return", "joining"} -> "returning"
    [] OTHER -> main

WriterOf(file) == IF file \in files THEN "daemon" ELSE "nobody"

Lifecycle == INSTANCE VMLifecycle WITH
  CLIs <- {"stop"}, Daemons <- {"daemon"}, Serial <- TRUE, None <- "nobody",
  cpc <- [c \in {"stop"} |-> IF handler = "armed" THEN "signalling" ELSE "reaping"],
  proc <- [c \in {"stop"} |-> "daemon"],
  said <- [c \in {"stop"} |-> "none"],
  dpc <- [d \in {"daemon"} |-> Phase],
  on <- [d \in {"daemon"} |-> vm = "running"],
  term <- [d \in {"daemon"} |-> handler # "armed"],
  sock <- WriterOf("vm.sock"),
  pidFile <- WriterOf("vm.pid"), runtime <- WriterOf("vm-runtime.json"),
  vmState <- WriterOf("vm-state.json"), degraded <- WriterOf("vm-state-degraded.json"),
  failed <- {}, nameless <- {},
  deaf <- IF "vm.sock" \in files THEN {} ELSE {"daemon"}, blind <- {}, missed <- {}

(* Whatever Main, the handler, the helper, the listener and the guest do   *)
(* here, each step is one that VMLifecycle allows to a daemon: start, stop *)
(* and the next daemon, meet nothing that VMLifecycle has left out.        *)
EndsAsInLifecycle == [][Lifecycle!Next]_(Lifecycle!vars)
=============================================================================
