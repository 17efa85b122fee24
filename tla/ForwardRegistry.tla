--------------------------- MODULE ForwardRegistry ---------------------------
(***************************************************************************)
(* The daemon's table of port forwards: forwarderRegistry with its mutex,  *)
(* the flags forwardsReady and forwardsStopping, the host sockets that are *)
(* listening, and the copy of the table published in vm-state.json.        *)
(*                                                                         *)
(* Three kinds of goroutine share it.  Main is runVMDaemon: it binds the   *)
(* forwards of `launcher start`, waits for SSH, publishes them and then    *)
(* waits for the VM to stop.  Sig is the SIGTERM handler.  Every member of *)
(* Clients is a connection to the control socket, serving one request of   *)
(* `launcher forward` after another.                                       *)
(*                                                                         *)
(* A step is atomic when no other goroutine, no client of a host port and  *)
(* no reader of vm-state.json can tell it from several.  The two windows   *)
(* that can be told apart are kept: a socket that is bound and not yet     *)
(* published, and a mapping that is unpublished and not yet closed.        *)
(***************************************************************************)
EXTENDS Naturals, Sequences

CONSTANTS
  Names,        \* forward labels that parseForwardSpec accepts
  MaxPort,      \* the largest TCP port (65535)
  LoopbackIPs,  \* addresses for which net.IP.IsLoopback holds
  DefaultIP,    \* 127.0.0.1
  OtherIPs,     \* addresses that are not loopback
  Clients,      \* connections to the control socket
  Main, Sig,    \* the goroutine of runVMDaemon, the signal handler
  Requests,     \* the requests that clients may send
  Unlisted,     \* ForwardService: a remove that took effect, unanswered
  StartSpecs,   \* the --forward arguments of `launcher start`, in order
  None          \* no value: nil, an absent file, an unset field

ForwardSpec == [name: Names, guest: 1..MaxPort, req: 0..MaxPort]

(* A running LoopbackForwarder; req is requestedPort, port the bound one.  *)
Forwarder ==
  [name: Names, ip: LoopbackIPs, req: 0..MaxPort, port: 1..MaxPort,
   guest: 1..MaxPort]

(* The entry of vm-state.json for a forward.                               *)
ForwardState ==
  [name: Names, ip: LoopbackIPs, port: 1..MaxPort, guest: 1..MaxPort]

Request ==
  [op: {"add", "remove", "list"}, name: Names, guest: Nat, port: Nat,
   ip: LoopbackIPs \cup OtherIPs \cup {None}]

(* forwardSpecList.Set refuses a second spec with the name of an earlier   *)
(* one, in the command line and again in the daemon.                       *)
RegistryAssumption ==
  /\ MaxPort \in Nat \ {0}
  /\ DefaultIP \in LoopbackIPs
  /\ OtherIPs \cap LoopbackIPs = {}
  /\ None \notin LoopbackIPs \cup OtherIPs \cup Clients \cup {Main, Sig}
  /\ None \notin ForwardState
  /\ None \notin Forwarder
  /\ None \notin Requests /\ Unlisted \notin Requests \cup {None}
  /\ Main # Sig /\ Main \notin Clients /\ Sig \notin Clients
  /\ Requests \subseteq Request
  /\ StartSpecs \in Seq(ForwardSpec)
  /\ \A i, j \in DOMAIN StartSpecs :
       StartSpecs[i].name = StartSpecs[j].name => i = j

ASSUME RegistryAssumptionHolds == RegistryAssumption

VARIABLES
  alive,        \* the daemon process runs
  mutex,        \* forwarderRegistryMu: its holder, or None
  registry,     \* forwarderRegistry, as the set of its forwarders
  listening,    \* forwarders whose host socket is open
  vmState,      \* the forwards of vm-state.json, or Absent
  ready,        \* forwardsReady
  stopping,     \* forwardsStopping
  pc,           \* where each goroutine is
  next,         \* Main: the spec it binds next
  fresh,        \* Main: bound, not yet registered
  startStates,  \* Main: forwardStates, what it will publish
  req,          \* the request each client has sent
  held,         \* the forwarder that the holder of the mutex works on
  reply         \* how each client's last request ended

vars == <<alive, mutex, registry, listening, vmState, ready, stopping, pc,
          next, fresh, startStates, req, held, reply>>

mainVars == <<next, fresh, startStates>>
clientVars == <<req, held, reply>>

-----------------------------------------------------------------------------
(* The registry as a map from names.                                       *)

Absent == {None}  \* vm-state.json is not there

StateOf(f) == [name |-> f.name, ip |-> f.ip, port |-> f.port, guest |-> f.guest]
States(reg) == {StateOf(f) : f \in reg}
Put(reg, f) == {g \in reg : g.name # f.name} \cup {f}
Drop(reg, n) == {g \in reg : g.name # n}
Existing(n) == {f \in registry : f.name = n}

(* What updateForward checks of an add before it touches anything.         *)
HostIP(r) == IF r.ip = None THEN DefaultIP ELSE r.ip
Acceptable(r) ==
  /\ r.guest \in 1..MaxPort
  /\ r.port \in 0..MaxPort
  /\ HostIP(r) \in LoopbackIPs
SlipSameTarget(f, r) == f.guest = r.guest /\ f.ip = HostIP(r)

SameSettings(f, r) ==
  f.guest = r.guest /\ f.req = r.port /\ f.ip = HostIP(r)

(* The ports a listen on ip may return: the one asked for, or any for 0.   *)
(* A port that one of this daemon's forwarders holds is not available; that*)
(* anything else may hold it shows as a listen that fails.                 *)
BindChoices(ip, port) ==
  {p \in 1..MaxPort :
     /\ port \in {0, p}
     /\ \A f \in listening : f.ip = ip => f.port # p}

SlipRequestedPort(n, ip, port, guest) ==
  {[name |-> n, ip |-> ip, req |-> port, port |-> port, guest |-> guest] :
     p \in BindChoices(ip, port)}

NewForwarder(n, ip, port, guest) ==
  {[name |-> n, ip |-> ip, req |-> port, port |-> p, guest |-> guest] :
     p \in BindChoices(ip, port)}

Goto(t, from, to) ==
  /\ alive
  /\ pc[t] = from
  /\ pc' = [pc EXCEPT ![t] = to]

-----------------------------------------------------------------------------
(* Slips: each could have been written for the action in its comment, and  *)
(* breaks a property below.  No specification uses them.                   *)

\* WriteArtifacts that unlocks before forwardsReady is set
SlipUnlockEarly ==
  /\ Goto(Main, "publishing", "published")
  /\ vmState' = startStates
  /\ mutex' = None
  /\ UNCHANGED <<alive, registry, listening, ready, stopping, mainVars,
                 clientVars>>

\* WriteArtifactsFails that returns without the unlock
SlipKeepLock ==
  /\ Goto(Main, "publishing", "close")
  /\ UNCHANGED <<alive, mutex, registry, listening, vmState, ready, stopping,
                 mainVars, clientVars>>

\* SetReady that ignores forwardsStopping
SlipReadyAnyway ==
  /\ Goto(Main, "published", "run")
  /\ ready' = TRUE
  /\ mutex' = None
  /\ UNCHANGED <<alive, registry, listening, vmState, stopping, mainVars,
                 clientVars>>

\* AddBind that lets the mutex go before the save
SlipSaveUnlocked(c) ==
  /\ Goto(c, "waiting", "adding")
  /\ mutex = None
  /\ req[c].op = "add" /\ ready /\ Acceptable(req[c]) /\ Existing(req[c].name) = {}
  /\ \E f \in NewForwarder(req[c].name, HostIP(req[c]), req[c].port, req[c].guest) :
       /\ held' = f
       /\ registry' = Put(registry, f)
       /\ listening' = listening \cup {f}
  /\ UNCHANGED <<alive, mutex, vmState, ready, stopping, mainVars, req, reply>>

\* AddSaveFails that forgets to close the socket
SlipLeaveOpen(c) ==
  /\ Goto(c, "adding", "idle")
  /\ registry' = Drop(registry, req[c].name)
  /\ held' = None
  /\ mutex' = None
  /\ reply' = [reply EXCEPT ![c] = "saveFailed"]
  /\ req' = [req EXCEPT ![c] = None]
  /\ UNCHANGED <<alive, listening, vmState, ready, stopping, mainVars>>

\* RemoveDelete that closes before the file is saved
SlipCloseFirst(c) ==
  /\ Goto(c, "waiting", "removing")
  /\ mutex = None
  /\ req[c].op = "remove" /\ ready
  /\ \E f \in Existing(req[c].name) : held' = f /\ listening' = listening \ {f}
  /\ registry' = Drop(registry, req[c].name)
  /\ mutex' = c
  /\ UNCHANGED <<alive, vmState, ready, stopping, mainVars, req, reply>>

\* RemoveSaveFails that does not put the forwarder back
SlipNoRollback(c) ==
  /\ Goto(c, "removing", "idle")
  /\ held' = None
  /\ mutex' = None
  /\ reply' = [reply EXCEPT ![c] = "saveFailed"]
  /\ req' = [req EXCEPT ![c] = None]
  /\ UNCHANGED <<alive, registry, listening, vmState, ready, stopping, mainVars>>

\* RemoveSaveFails that returns without the unlock
SlipErrorKeepsLock(c) ==
  /\ Goto(c, "removing", "idle")
  /\ registry' = Put(registry, held)
  /\ held' = None
  /\ reply' = [reply EXCEPT ![c] = "saveFailed"]
  /\ req' = [req EXCEPT ![c] = None]
  /\ UNCHANGED <<alive, mutex, listening, vmState, ready, stopping, mainVars>>

\* RemoveClose that finds the socket by its port alone
SlipCloseByPort(c) ==
  /\ Goto(c, "unlisting", "idle")
  /\ listening' = {f \in listening : f.port # held.port}
  /\ held' = None
  /\ mutex' = None
  /\ reply' = [reply EXCEPT ![c] = "ok"]
  /\ req' = [req EXCEPT ![c] = None]
  /\ UNCHANGED <<alive, registry, vmState, ready, stopping, mainVars>>

-----------------------------------------------------------------------------
Init ==
  /\ alive = TRUE
  /\ mutex = None
  /\ registry = {}
  /\ listening = {}
  /\ vmState = Absent
  /\ ready = FALSE
  /\ stopping = FALSE
  /\ pc = [t \in Clients \cup {Main, Sig} |->
             IF t = Main THEN "bind" ELSE IF t = Sig THEN "armed" ELSE "idle"]
  /\ next = 1
  /\ fresh = None
  /\ startStates = {}
  /\ req = [c \in Clients |-> None]
  /\ held = None
  /\ reply = [c \in Clients |-> "none"]

-----------------------------------------------------------------------------
(* Main: runVMDaemon from the moment the guest's address is known.         *)

BindSpec ==
  /\ Goto(Main, "bind", "register")
  /\ next \in DOMAIN StartSpecs
  /\ LET s == StartSpecs[next] IN
       \E f \in NewForwarder(s.name, DefaultIP, s.req, s.guest) :
         /\ fresh' = f
         /\ listening' = listening \cup {f}
  /\ UNCHANGED <<alive, mutex, registry, vmState, ready, stopping, next,
                 startStates, clientVars>>

BindSpecFails ==
  /\ Goto(Main, "bind", "close")
  /\ next \in DOMAIN StartSpecs
  /\ UNCHANGED <<alive, mutex, registry, listening, vmState, ready, stopping,
                 mainVars, clientVars>>

(* registerForwarder does not look at stopping.                            *)
RegisterSpec ==
  /\ Goto(Main, "register", "bind")
  /\ mutex = None
  /\ registry' = Put(registry, fresh)
  /\ startStates' = startStates \cup {StateOf(fresh)}
  /\ fresh' = None
  /\ next' = next + 1
  /\ UNCHANGED <<alive, mutex, listening, vmState, ready, stopping, clientVars>>

(* SSH answered: take the mutex to publish the start.                      *)
SSHReady ==
  /\ Goto(Main, "bind", "publish")
  /\ next \notin DOMAIN StartSpecs
  /\ UNCHANGED <<alive, mutex, registry, listening, vmState, ready, stopping,
                 mainVars, clientVars>>

(* SSH never answered: stay up, degraded, and never become ready.          *)
SSHTimeout ==
  /\ Goto(Main, "bind", "run")
  /\ next \notin DOMAIN StartSpecs
  /\ UNCHANGED <<alive, mutex, registry, listening, vmState, ready, stopping,
                 mainVars, clientVars>>

LockToPublish ==
  /\ Goto(Main, "publish", "publishing")
  /\ mutex = None
  /\ mutex' = Main
  /\ UNCHANGED <<alive, registry, listening, vmState, ready, stopping,
                 mainVars, clientVars>>

(* The rename of vm-state.json is what readers of the file see.            *)
WriteArtifacts ==
  /\ Goto(Main, "publishing", "published")
  /\ vmState' = startStates
  /\ UNCHANGED <<alive, mutex, registry, listening, ready, stopping, mainVars,
                 clientVars>>

WriteArtifactsFails ==
  /\ Goto(Main, "publishing", "close")
  /\ mutex' = None
  /\ UNCHANGED <<alive, registry, listening, vmState, ready, stopping,
                 mainVars, clientVars>>

SetReady ==
  /\ Goto(Main, "published", "run")
  /\ ready' = ~stopping
  /\ mutex' = None
  /\ UNCHANGED <<alive, registry, listening, vmState, stopping, mainVars,
                 clientVars>>

(* The VM stopped on its own: leave, running the deferred closeForwarders. *)
VMStopped ==
  /\ Goto(Main, "run", "close")
  /\ UNCHANGED <<alive, mutex, registry, listening, vmState, ready, stopping,
                 mainVars, clientVars>>

-----------------------------------------------------------------------------
(* Sig, and closeForwarders as Sig and Main run it.                        *)

SigTerm ==
  /\ Goto(Sig, "armed", "close")
  /\ UNCHANGED <<alive, mutex, registry, listening, vmState, ready, stopping,
                 mainVars, clientVars>>

BeginClose(t) ==
  /\ Goto(t, "close", "closing")
  /\ mutex = None
  /\ mutex' = t
  /\ ready' = FALSE
  /\ stopping' = TRUE
  /\ UNCHANGED <<alive, registry, listening, vmState, mainVars, clientVars>>

CloseOne(t) ==
  /\ alive
  /\ pc[t] = "closing"
  /\ \E f \in registry :
       /\ registry' = registry \ {f}
       /\ listening' = listening \ {f}
  /\ UNCHANGED <<alive, mutex, vmState, ready, stopping, pc, mainVars,
                 clientVars>>

EndClose(t) ==
  /\ Goto(t, "closing", "exit")
  /\ registry = {}
  /\ mutex' = None
  /\ UNCHANGED <<alive, registry, listening, vmState, ready, stopping,
                 mainVars, clientVars>>

(* os.Exit: Main on return, and the handler once the VM stopped or 60 s    *)
(* passed.  Before that the handler asks the guest and the framework to    *)
(* stop the VM, for as long as that takes.                                 *)
Exit(t) ==
  /\ Goto(t, "exit", "exited")
  /\ alive' = FALSE
  /\ listening' = {}
  /\ UNCHANGED <<mutex, registry, vmState, ready, stopping, mainVars,
                 clientVars>>

(* The daemon is killed, or the host fails.                                *)
Crash ==
  /\ alive
  /\ alive' = FALSE
  /\ listening' = {}
  /\ UNCHANGED <<mutex, registry, vmState, ready, stopping, pc, mainVars,
                 clientVars>>

-----------------------------------------------------------------------------
(* A client of the control socket: handleForwardRequest and updateForward. *)

Receive(c, r) ==
  /\ Goto(c, "idle", "waiting")
  /\ req' = [req EXCEPT ![c] = r]
  /\ reply' = [reply EXCEPT ![c] = "none"]
  /\ UNCHANGED <<alive, mutex, registry, listening, vmState, ready, stopping,
                 mainVars, held>>

Answer(c, how) ==
  /\ reply' = [reply EXCEPT ![c] = how]
  /\ req' = [req EXCEPT ![c] = None]

(* The answers that follow from the table as it is when the mutex is taken.*)
Verdict(r) ==
  CASE ~ready -> "notReady"
    [] ready /\ r.op = "list" -> "ok"
    [] ready /\ r.op = "remove" -> "ok"
    [] ready /\ r.op = "add" ->
         IF \E f \in Existing(r.name) : Acceptable(r) /\ SameSettings(f, r)
           THEN "ok" ELSE "rejected"

(* Whether the request needs more than an answer.                          *)
Effective(r) ==
  /\ ready
  /\ \/ r.op = "remove" /\ Existing(r.name) # {}
     \/ r.op = "add" /\ Acceptable(r) /\ Existing(r.name) = {}

AnswerOnly(c) ==
  /\ Goto(c, "waiting", "idle")
  /\ mutex = None
  /\ ~Effective(req[c])
  /\ Answer(c, Verdict(req[c]))
  /\ UNCHANGED <<alive, mutex, registry, listening, vmState, ready, stopping,
                 mainVars, held>>

AddBind(c) ==
  /\ Goto(c, "waiting", "adding")
  /\ mutex = None
  /\ req[c].op = "add" /\ Effective(req[c])
  /\ \E f \in NewForwarder(req[c].name, HostIP(req[c]), req[c].port, req[c].guest) :
       /\ held' = f
       /\ registry' = Put(registry, f)
       /\ listening' = listening \cup {f}
  /\ mutex' = c
  /\ UNCHANGED <<alive, vmState, ready, stopping, mainVars, req, reply>>

AddBindFails(c) ==
  /\ Goto(c, "waiting", "idle")
  /\ mutex = None
  /\ req[c].op = "add" /\ Effective(req[c])
  /\ Answer(c, "bindFailed")
  /\ UNCHANGED <<alive, mutex, registry, listening, vmState, ready, stopping,
                 mainVars, held>>

AddSave(c) ==
  /\ Goto(c, "adding", "idle")
  /\ vmState' = States(registry)
  /\ held' = None
  /\ mutex' = None
  /\ Answer(c, "ok")
  /\ UNCHANGED <<alive, registry, listening, ready, stopping, mainVars>>

AddSaveFails(c) ==
  /\ Goto(c, "adding", "idle")
  /\ registry' = Drop(registry, req[c].name)
  /\ listening' = listening \ {held}
  /\ held' = None
  /\ mutex' = None
  /\ Answer(c, "saveFailed")
  /\ UNCHANGED <<alive, vmState, ready, stopping, mainVars>>

RemoveDelete(c) ==
  /\ Goto(c, "waiting", "removing")
  /\ mutex = None
  /\ req[c].op = "remove" /\ Effective(req[c])
  /\ \E f \in Existing(req[c].name) : held' = f
  /\ registry' = Drop(registry, req[c].name)
  /\ mutex' = c
  /\ UNCHANGED <<alive, listening, vmState, ready, stopping, mainVars, req, reply>>

RemoveSave(c) ==
  /\ Goto(c, "removing", "unlisting")
  /\ vmState' = States(registry)
  /\ UNCHANGED <<alive, mutex, registry, listening, ready, stopping, mainVars,
                 clientVars>>

RemoveSaveFails(c) ==
  /\ Goto(c, "removing", "idle")
  /\ registry' = Put(registry, held)
  /\ held' = None
  /\ mutex' = None
  /\ Answer(c, "saveFailed")
  /\ UNCHANGED <<alive, listening, vmState, ready, stopping, mainVars>>

(* Close releases the socket even when it reports an error.                *)
RemoveClose(c) ==
  /\ Goto(c, "unlisting", "idle")
  /\ listening' = listening \ {held}
  /\ held' = None
  /\ mutex' = None
  /\ \E how \in {"ok", "closeFailed"} : Answer(c, how)
  /\ UNCHANGED <<alive, registry, vmState, ready, stopping, mainVars>>

-----------------------------------------------------------------------------
MainStep ==
  \/ BindSpec \/ BindSpecFails \/ RegisterSpec
  \/ SSHReady \/ SSHTimeout
  \/ LockToPublish \/ WriteArtifacts \/ WriteArtifactsFails \/ SetReady
  \/ VMStopped

CloseStep(t) == BeginClose(t) \/ CloseOne(t) \/ EndClose(t) \/ Exit(t)

ClientStep(c) ==
  \/ AnswerOnly(c)
  \/ AddBind(c) \/ AddBindFails(c) \/ AddSave(c) \/ AddSaveFails(c)
  \/ RemoveDelete(c) \/ RemoveSave(c) \/ RemoveSaveFails(c) \/ RemoveClose(c)

(* Once the process is gone nothing happens any more.                      *)
Gone == ~alive /\ UNCHANGED vars

Next ==
  \/ MainStep
  \/ SigTerm
  \/ \E t \in {Main, Sig} : CloseStep(t)
  \/ \E c \in Clients : ClientStep(c)
  \/ \E c \in Clients, r \in Requests : Receive(c, r)
  \/ Crash
  \/ Gone

Spec == Init /\ [][Next]_vars

(* Goroutines run.  Go hands a contended mutex to its waiters in turn, so  *)
(* one that waits for it gets it in the end: strong fairness for the steps *)
(* that take it.  Nobody has to send SIGTERM, stop the VM or kill it.      *)
(* Nothing is assumed where Main or the handler waits for the guest or the *)
(* framework: before the publication (SSHReady) and before the Exit.       *)
Fairness ==
  /\ WF_vars(BindSpec \/ BindSpecFails)
  /\ SF_vars(RegisterSpec)
  /\ SF_vars(LockToPublish)
  /\ WF_vars(WriteArtifacts \/ WriteArtifactsFails)
  /\ WF_vars(SetReady)
  /\ \A t \in {Main, Sig} :
       SF_vars(BeginClose(t)) /\ WF_vars(CloseOne(t) \/ EndClose(t))
  /\ \A c \in Clients :
       /\ SF_vars(AnswerOnly(c) \/ AddBind(c) \/ AddBindFails(c) \/ RemoveDelete(c))
       /\ WF_vars(\/ AddSave(c) \/ AddSaveFails(c) \/ RemoveSave(c)
                  \/ RemoveSaveFails(c) \/ RemoveClose(c))

FairSpec == Spec /\ Fairness

-----------------------------------------------------------------------------
(* Every variable holds a value of its type.                               *)
TypeOK ==
  /\ alive \in BOOLEAN
  /\ mutex \in Clients \cup {Main, Sig, None}
  /\ registry \subseteq Forwarder
  /\ listening \subseteq Forwarder
  /\ vmState \in (SUBSET ForwardState) \cup {Absent}
  /\ ready \in BOOLEAN
  /\ stopping \in BOOLEAN
  /\ pc \in [Clients \cup {Main, Sig} ->
       {"bind", "register", "publish", "publishing", "published", "run",
        "armed", "close", "closing", "exit", "exited",
        "idle", "waiting", "adding", "removing", "unlisting"}]
  /\ next \in 1..(Len(StartSpecs) + 1)
  /\ fresh \in Forwarder \cup {None}
  /\ startStates \subseteq ForwardState
  /\ req \in [Clients -> Requests \cup {None}]
  /\ held \in Forwarder \cup {None}
  /\ reply \in [Clients -> {"none", "ok", "notReady", "rejected", "bindFailed",
                            "saveFailed", "closeFailed"}]

(* While the daemon runs and nobody stopped it, a mapping that a consumer  *)
(* reads in vm-state.json is listening: an add publishes after it bound    *)
(* and a remove unpublishes before it closes, whatever fails in between.   *)
PublishedListening ==
  alive /\ ~stopping /\ vmState # Absent => vmState \subseteq States(listening)

(* Between two requests the three copies of the table agree: what is       *)
(* published is what is registered is what listens.  The roll-back of an   *)
(* add or a remove whose save failed, and a start that publishes its own   *)
(* copy of the states, must leave them so.                                 *)
Quiescent ==
  alive /\ ready /\ mutex = None =>
    vmState = States(registry) /\ listening = registry

(* Once vm-state.json shows the start as successful, a forward request that*)
(* gets the mutex finds the daemon ready: publishing and setting           *)
(* forwardsReady are under one hold of the mutex.                          *)
StartedIsReady ==
  alive /\ vmState # Absent /\ mutex = None /\ ~stopping => ready

(* No host socket is open that closeForwarders could not find: each is in  *)
(* the registry, or in the hands of the one goroutine that just bound or   *)
(* unlisted it.                                                            *)
NoSocketLeak ==
  alive => listening = registry \cup ({fresh, held} \ {None})

(* Once the daemon is stopping, a forward request is refused, whichever    *)
(* way the stop and the end of the start interleave.                       *)
RefusalStep ==
  \A c \in Clients :
    stopping /\ reply'[c] # reply[c] => reply'[c] \in {"none", "notReady"}
StoppingRefuses == [][RefusalStep]_vars

(* A host socket closes because its own forward is removed, or failed to   *)
(* be added, or because the daemon is stopping: never for the sake of      *)
(* another forward.                                                        *)
PreservingStep ==
  \A f \in listening \ listening' :
    \/ ~alive' \/ stopping
    \/ \E c \in Clients : mutex = c /\ req[c].name = f.name
OthersPreserved == [][PreservingStep]_vars

(* The answer to c's request, against what is published and what listens.  *)
Truthful(c) ==
  LET r == req[c]
      shown == {s \in vmState' : s.name = r.name}
      open == {f \in listening' : f.name = r.name}
  IN CASE reply'[c] = "ok" /\ r.op = "add" ->
            \E s \in shown :
              /\ s.guest = r.guest /\ s.ip = HostIP(r) /\ r.port \in {0, s.port}
              /\ States(open) = {s}
       [] reply'[c] = "ok" /\ r.op = "remove" -> shown = {} /\ open = {}
       [] reply'[c] = "saveFailed" -> States(open) = shown
       [] OTHER -> TRUE

(* What a request is told is true when it is told: an add answered "ok" is *)
(* published and listens on what was asked for, a remove answered "ok" is  *)
(* neither, and one that failed changed nothing a consumer can see.        *)
AnswersTrue ==
  [][\A c \in Clients : pc[c] # "idle" /\ pc'[c] = "idle" => Truthful(c)]_vars

(* What vm-state.json is rewritten with is in effect at that moment.       *)
(* docs/architecture.md calls it the effective labeled forwards of a       *)
(* successful start; a stop that arrives during the start refutes it.      *)
WrittenIsEffective ==
  [][vmState' # vmState /\ vmState' # Absent =>
       vmState' \subseteq States(listening')]_vars

(* A forward request is answered, unless the daemon goes away: the mutex   *)
(* is released on every path.                                              *)
Answered == \A c \in Clients : pc[c] = "waiting" ~> pc[c] = "idle" \/ ~alive

(* SIGTERM gets through closeForwarders, whatever requests and start-up it *)
(* meets: the handler is never stuck in front of the mutex and goes on to  *)
(* stop the VM.                                                            *)
TermCloses == (pc[Sig] = "close") ~> (pc[Sig] \in {"exit", "exited"} \/ ~alive)

-----------------------------------------------------------------------------
(* What the daemon promises to the users of `launcher forward`: its states *)
(* as those of ForwardService.  A forward is in effect while vm-state.json *)
(* shows it.                                                               *)
Phase ==
  IF ~alive \/ stopping THEN "stopped" ELSE IF ready THEN "ready" ELSE "starting"

Table ==
  IF alive /\ ready
    THEN {f \in registry \cup ({held} \ {None}) : StateOf(f) \in vmState}
    ELSE {}

Pending == [c \in Clients |-> IF pc[c] = "unlisting" THEN Unlisted ELSE req[c]]

Service == INSTANCE ForwardService WITH
  phase <- Phase, table <- Table, pending <- Pending

(* Every request is answered as the table stands at one instant between its*)
(* arrival and its answer: repeated requests succeed, conflicting ones fail*)
(* and nothing else fails but for the host, whatever save or bind goes     *)
(* wrong on the way.                                                       *)
ServiceSpec == Service!Spec
=============================================================================
