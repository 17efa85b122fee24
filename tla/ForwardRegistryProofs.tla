------------------------- MODULE ForwardRegistryProofs -------------------------
(***************************************************************************)
(* The safety of the forward registry for every number of names, ports,    *)
(* clients and requests.  The invariant is built in three layers, each     *)
(* proved with the help of those below it: who is where and holds what,    *)
(* which sockets there are, and what is published of them.                 *)
(***************************************************************************)
EXTENDS ForwardRegistry, TLAPS

Working == {"adding", "removing", "unlisting"}
StartingUp == {"bind", "register", "publish", "publishing", "published"}
Leaving == {"closing", "exit", "exited"}
Inside == Working \cup {"publishing", "published", "closing"}

Threads == Clients \cup {Main, Sig}

(* The mutex is held by exactly the goroutine that is inside.              *)
Control ==
  /\ \A t \in Threads : (mutex = t) <=> (pc[t] \in Inside)
  /\ pc[Main] \in StartingUp \cup Leaving \cup {"run", "close"}
  /\ pc[Sig] \in Leaving \cup {"armed", "close"}
  /\ \A c \in Clients :
       /\ pc[c] \in Working \cup {"idle", "waiting"}
       /\ pc[c] # "idle" => req[c] \in Requests
       /\ pc[c] \in Working => held \in Forwarder /\ held.name = req[c].name
  /\ pc[Main] = "register" <=> fresh # None
  /\ fresh # None =>
       next \in DOMAIN StartSpecs /\ fresh.name = StartSpecs[next].name
  /\ held # None => \E c \in Clients : pc[c] \in Working
  /\ ready => ~stopping /\ pc[Main] \notin StartingUp
  /\ pc[Main] \in Leaving \/ pc[Sig] \in Leaving => stopping
  /\ \A c \in Clients : pc[c] \in Working => ready

(* Every open socket is accounted for, and names tell forwarders apart.    *)
Sockets ==
  /\ \A f, g \in registry : f.name = g.name => f = g
  /\ pc[Main] \in StartingUp =>
       \A f \in registry :
         \E i \in DOMAIN StartSpecs : i < next /\ f.name = StartSpecs[i].name
  /\ \A c \in Clients :
       /\ pc[c] = "adding" => held \in registry
       /\ pc[c] \in {"removing", "unlisting"} =>
            \A f \in registry : f.name # held.name
  /\ NoSocketLeak

(* vm-state.json against the registry, at each point of a change.          *)
Publication ==
  /\ ~ready /\ ~stopping /\ vmState # Absent => pc[Main] = "published"
  /\ pc[Main] = "published" => vmState = startStates
  /\ pc[Main] \in StartingUp /\ ~stopping => startStates = States(registry)
  /\ pc[Main] \in StartingUp \ {"published"} => vmState = Absent
  /\ ready =>
       /\ \A c \in Clients :
            /\ pc[c] = "adding" => vmState = States(registry \ {held})
            /\ pc[c] = "removing" => vmState = States(registry \cup {held})
            /\ pc[c] = "unlisting" => vmState = States(registry)
       /\ mutex \notin Clients => vmState = States(registry)

IInv == TypeOK /\ Control /\ Sockets /\ Publication

(* What the file says of a forwarder is an entry of the right type.        *)
LEMMA StateType ==
  ASSUME NEW f \in Forwarder
  PROVE  StateOf(f) \in ForwardState
BY DEF StateOf, Forwarder, ForwardState

LEMMA StatesType ==
  ASSUME NEW reg, reg \subseteq Forwarder
  PROVE  States(reg) \subseteq ForwardState
BY StateType DEF States

(* A listen that succeeds gives a forwarder with the settings asked for.   *)
LEMMA NewForwarderType ==
  ASSUME NEW n \in Names, NEW ip \in LoopbackIPs, NEW port \in 0..MaxPort,
         NEW guest \in 1..MaxPort, NEW f \in NewForwarder(n, ip, port, guest)
  PROVE  f \in Forwarder /\ f.name = n /\ f \notin listening
<1>1. PICK p \in BindChoices(ip, port) :
        f = [name |-> n, ip |-> ip, req |-> port, port |-> p, guest |-> guest]
  BY DEF NewForwarder
<1>2. p \in 1..MaxPort /\ \A g \in listening : g.ip = ip => g.port # p
  BY <1>1 DEF BindChoices
<1>. QED
  BY <1>1, <1>2 DEF Forwarder

(* The settings of an acceptable add are those of a forwarder.             *)
LEMMA AcceptableType ==
  ASSUME NEW r \in Requests, Acceptable(r)
  PROVE  /\ r.name \in Names /\ HostIP(r) \in LoopbackIPs
         /\ r.port \in 0..MaxPort /\ r.guest \in 1..MaxPort
BY RegistryAssumptionHolds DEF RegistryAssumption, Request, Acceptable

(* The specs of the start name their forwarders.                           *)
LEMMA StartSpecType ==
  ASSUME NEW i \in DOMAIN StartSpecs
  PROVE  /\ i \in 1..Len(StartSpecs)
         /\ StartSpecs[i].name \in Names /\ StartSpecs[i].req \in 0..MaxPort
         /\ StartSpecs[i].guest \in 1..MaxPort
<1>1. StartSpecs \in Seq(ForwardSpec)
  BY RegistryAssumptionHolds DEF RegistryAssumption
<1>2. StartSpecs[i] \in ForwardSpec /\ i \in 1..Len(StartSpecs)
  BY <1>1
<1>. QED
  BY <1>2 DEF ForwardSpec

(* Every step keeps the types of the variables.                            *)
LEMMA TypeStep ==
  ASSUME TypeOK, Control, [Next]_vars
  PROVE  TypeOK'
<1> USE RegistryAssumptionHolds DEF RegistryAssumption, TypeOK, Control, Threads,
                                    Working, Inside, StartingUp, Leaving
<1>1. CASE BindSpec
  <2>1. next \in DOMAIN StartSpecs
    BY <1>1 DEF BindSpec
  <2>2. PICK f \in NewForwarder(StartSpecs[next].name, DefaultIP,
                               StartSpecs[next].req, StartSpecs[next].guest) :
          fresh' = f /\ listening' = listening \cup {f}
    BY <1>1 DEF BindSpec
  <2>3. f \in Forwarder
    BY <2>1, <2>2, StartSpecType, NewForwarderType
  <2>. QED
    BY <1>1, <2>2, <2>3 DEF BindSpec, Goto, clientVars
<1>2. CASE BindSpecFails
  BY <1>2 DEF BindSpecFails, Goto, mainVars, clientVars

<1>3. CASE RegisterSpec
  <2>1. fresh \in Forwarder /\ next \in 1..Len(StartSpecs)
    BY <1>3, StartSpecType DEF RegisterSpec, Goto
  <2>2. StateOf(fresh) \in ForwardState /\ Put(registry, fresh) \subseteq Forwarder
    BY <2>1, StateType DEF Put
  <2>3. next + 1 \in 1..(Len(StartSpecs) + 1)
    BY <2>1
  <2>4. /\ registry' \subseteq Forwarder /\ startStates' \subseteq ForwardState
        /\ next' \in 1..(Len(StartSpecs) + 1) /\ fresh' \in Forwarder \cup {None}
    BY <1>3, <2>2, <2>3 DEF RegisterSpec
  <2>5. pc' = [pc EXCEPT ![Main] = "bind"]
    BY <1>3 DEF RegisterSpec, Goto
  <2>. QED
    BY <1>3, <2>4, <2>5 DEF RegisterSpec, clientVars
<1>4. CASE SSHReady
  BY <1>4 DEF SSHReady, Goto, mainVars, clientVars

<1>5. CASE SSHTimeout
  BY <1>5 DEF SSHTimeout, Goto, mainVars, clientVars

<1>6. CASE LockToPublish
  BY <1>6 DEF LockToPublish, Goto, mainVars, clientVars

<1>7. CASE WriteArtifacts
  BY <1>7 DEF WriteArtifacts, Goto, mainVars, clientVars

<1>8. CASE WriteArtifactsFails
  BY <1>8 DEF WriteArtifactsFails, Goto, mainVars, clientVars

<1>9. CASE SetReady
  BY <1>9 DEF SetReady, Goto, mainVars, clientVars

<1>10. CASE VMStopped
  BY <1>10 DEF VMStopped, Goto, mainVars, clientVars

<1>11. CASE SigTerm
  BY <1>11 DEF SigTerm, Goto, mainVars, clientVars

<1>12. ASSUME NEW t \in {Main, Sig}, BeginClose(t) PROVE TypeOK'
  BY <1>12 DEF BeginClose, Goto, mainVars, clientVars

<1>13. ASSUME NEW t \in {Main, Sig}, CloseOne(t) PROVE TypeOK'
  BY <1>13 DEF CloseOne, mainVars, clientVars

<1>14. ASSUME NEW t \in {Main, Sig}, EndClose(t) PROVE TypeOK'
  BY <1>14 DEF EndClose, Goto, mainVars, clientVars

<1>15. ASSUME NEW t \in {Main, Sig}, Exit(t) PROVE TypeOK'
  BY <1>15 DEF Exit, Goto, mainVars, clientVars

<1>16. ASSUME NEW c \in Clients, AnswerOnly(c) PROVE TypeOK'
  <2>1. req[c] \in Request
    BY <1>16 DEF AnswerOnly, Goto
  <2>2. Verdict(req[c]) \in {"ok", "notReady", "rejected"}
    BY <2>1 DEF Verdict, Request
  <2>. QED
    BY <1>16, <2>2 DEF AnswerOnly, Goto, Answer, mainVars
<1>17. ASSUME NEW c \in Clients, AddBind(c) PROVE TypeOK'
  <2>1. req[c] \in Requests /\ Acceptable(req[c])
    BY <1>17 DEF AddBind, Goto, Effective
  <2>2. PICK f \in NewForwarder(req[c].name, HostIP(req[c]), req[c].port,
                               req[c].guest) :
          /\ held' = f
          /\ registry' = Put(registry, f)
          /\ listening' = listening \cup {f}
    BY <1>17 DEF AddBind
  <2>3. f \in Forwarder
    BY <2>1, <2>2, AcceptableType, NewForwarderType
  <2>. QED
    BY <1>17, <2>2, <2>3 DEF AddBind, Goto, Put, mainVars
<1>18. ASSUME NEW c \in Clients, AddBindFails(c) PROVE TypeOK'
  BY <1>18 DEF AddBindFails, Goto, mainVars, clientVars, Answer, Effective

<1>19. ASSUME NEW c \in Clients, AddSave(c) PROVE TypeOK'
  BY <1>19, StatesType DEF AddSave, Goto, Answer, mainVars
<1>20. ASSUME NEW c \in Clients, AddSaveFails(c) PROVE TypeOK'
  BY <1>20 DEF AddSaveFails, Goto, mainVars, clientVars, Answer, Drop

<1>21. ASSUME NEW c \in Clients, RemoveDelete(c) PROVE TypeOK'
  BY <1>21 DEF RemoveDelete, Goto, mainVars, clientVars, Existing, Drop,
     Effective

<1>22. ASSUME NEW c \in Clients, RemoveSave(c) PROVE TypeOK'
  BY <1>22, StatesType DEF RemoveSave, Goto, mainVars, clientVars
<1>23. ASSUME NEW c \in Clients, RemoveSaveFails(c) PROVE TypeOK'
  BY <1>23 DEF RemoveSaveFails, Goto, mainVars, clientVars, Answer, Put

<1>24. ASSUME NEW c \in Clients, RemoveClose(c) PROVE TypeOK'
  BY <1>24 DEF RemoveClose, Goto, mainVars, clientVars, Answer

<1>25. ASSUME NEW c \in Clients, NEW r \in Requests, Receive(c, r) PROVE TypeOK'
  BY <1>25 DEF Receive, Goto, mainVars, clientVars

<1>26. CASE Crash
  BY <1>26 DEF Crash, mainVars, clientVars

<1>27. CASE UNCHANGED vars
  BY <1>27 DEF mainVars, clientVars, vars

<1>28. QED
  BY <1>1, <1>2, <1>3, <1>4, <1>5, <1>6, <1>7, <1>8, <1>9, <1>10, <1>11,
     <1>12, <1>13, <1>14, <1>15, <1>16, <1>17, <1>18, <1>19, <1>20, <1>21,
     <1>22, <1>23, <1>24, <1>25, <1>26, <1>27 DEF Next, MainStep,
     CloseStep, ClientStep, Gone

(* Every step leaves the mutex with the one goroutine that is inside.      *)
LEMMA ControlStep ==
  ASSUME TypeOK, Control, [Next]_vars
  PROVE  Control'
<1> USE RegistryAssumptionHolds
    DEF RegistryAssumption, TypeOK, Control, Threads, Working, Inside,
        StartingUp, Leaving
<1>1. CASE BindSpec
  <2>1. next \in DOMAIN StartSpecs
    BY <1>1 DEF BindSpec
  <2>2. PICK f \in NewForwarder(StartSpecs[next].name, DefaultIP,
                               StartSpecs[next].req, StartSpecs[next].guest) :
          fresh' = f
    BY <1>1 DEF BindSpec
  <2>3. f \in Forwarder /\ f.name = StartSpecs[next].name
    BY <2>1, <2>2, StartSpecType, NewForwarderType
  <2>. QED
    BY <1>1, <2>1, <2>2, <2>3 DEF BindSpec, Goto, clientVars
<1>2. CASE BindSpecFails
  BY <1>2 DEF BindSpecFails, Goto, mainVars, clientVars
<1>3. CASE RegisterSpec
  BY <1>3 DEF RegisterSpec, Goto, mainVars, clientVars
<1>4. CASE SSHReady
  BY <1>4 DEF SSHReady, Goto, mainVars, clientVars
<1>5. CASE SSHTimeout
  BY <1>5 DEF SSHTimeout, Goto, mainVars, clientVars
<1>6. CASE LockToPublish
  BY <1>6 DEF LockToPublish, Goto, mainVars, clientVars
<1>7. CASE WriteArtifacts
  BY <1>7 DEF WriteArtifacts, Goto, mainVars, clientVars
<1>8. CASE WriteArtifactsFails
  BY <1>8 DEF WriteArtifactsFails, Goto, mainVars, clientVars
<1>9. CASE SetReady
  BY <1>9 DEF SetReady, Goto, mainVars, clientVars
<1>10. CASE VMStopped
  BY <1>10 DEF VMStopped, Goto, mainVars, clientVars
<1>11. CASE SigTerm
  BY <1>11 DEF SigTerm, Goto, mainVars, clientVars
<1>12. ASSUME NEW t \in {Main, Sig}, BeginClose(t) PROVE Control'
  BY <1>12 DEF BeginClose, Goto, mainVars, clientVars
<1>13. ASSUME NEW t \in {Main, Sig}, CloseOne(t) PROVE Control'
  BY <1>13 DEF CloseOne, mainVars, clientVars
<1>14. ASSUME NEW t \in {Main, Sig}, EndClose(t) PROVE Control'
  BY <1>14 DEF EndClose, Goto, mainVars, clientVars
<1>15. ASSUME NEW t \in {Main, Sig}, Exit(t) PROVE Control'
  BY <1>15 DEF Exit, Goto, mainVars, clientVars
<1>16. ASSUME NEW c \in Clients, AnswerOnly(c) PROVE Control'
  BY <1>16 DEF AnswerOnly, Goto, mainVars, clientVars, Answer
<1>17. ASSUME NEW c \in Clients, AddBind(c) PROVE Control'
  <2>1. req[c] \in Requests /\ Acceptable(req[c]) /\ ready
    BY <1>17 DEF AddBind, Goto, Effective
  <2>2. PICK f \in NewForwarder(req[c].name, HostIP(req[c]), req[c].port,
                               req[c].guest) : held' = f
    BY <1>17 DEF AddBind
  <2>3. f \in Forwarder /\ f.name = req[c].name
    BY <2>1, <2>2, AcceptableType, NewForwarderType
  <2>. QED
    BY <1>17, <2>1, <2>2, <2>3 DEF AddBind, Goto, mainVars
<1>18. ASSUME NEW c \in Clients, AddBindFails(c) PROVE Control'
  BY <1>18 DEF AddBindFails, Goto, mainVars, clientVars, Answer
<1>19. ASSUME NEW c \in Clients, AddSave(c) PROVE Control'
  BY <1>19 DEF AddSave, Goto, mainVars, clientVars, Answer
<1>20. ASSUME NEW c \in Clients, AddSaveFails(c) PROVE Control'
  BY <1>20 DEF AddSaveFails, Goto, mainVars, clientVars, Answer, Drop
<1>21. ASSUME NEW c \in Clients, RemoveDelete(c) PROVE Control'
  BY <1>21 DEF RemoveDelete, Goto, mainVars, clientVars, Existing,
     Effective
<1>22. ASSUME NEW c \in Clients, RemoveSave(c) PROVE Control'
  BY <1>22 DEF RemoveSave, Goto, mainVars, clientVars
<1>23. ASSUME NEW c \in Clients, RemoveSaveFails(c) PROVE Control'
  BY <1>23 DEF RemoveSaveFails, Goto, mainVars, clientVars, Answer, Put
<1>24. ASSUME NEW c \in Clients, RemoveClose(c) PROVE Control'
  BY <1>24 DEF RemoveClose, Goto, mainVars, clientVars, Answer
<1>25. ASSUME NEW c \in Clients, NEW r \in Requests, Receive(c, r) PROVE Control'
  BY <1>25 DEF Receive, Goto, mainVars, clientVars
<1>26. CASE Crash
  BY <1>26 DEF Crash, mainVars, clientVars
<1>27. CASE UNCHANGED vars
  BY <1>27 DEF mainVars, clientVars, vars
<1>28. QED
  BY <1>1, <1>2, <1>3, <1>4, <1>5, <1>6, <1>7, <1>8, <1>9, <1>10, <1>11,
     <1>12, <1>13, <1>14, <1>15, <1>16, <1>17, <1>18, <1>19, <1>20, <1>21,
     <1>22, <1>23, <1>24, <1>25, <1>26, <1>27 DEF Next, MainStep,
     CloseStep, ClientStep, Gone

(* Every step keeps the open sockets accounted for.                        *)
LEMMA SocketsStep ==
  ASSUME TypeOK, Control, Control', Sockets, [Next]_vars
  PROVE  Sockets'
<1> USE RegistryAssumptionHolds
    DEF RegistryAssumption, TypeOK, Control, Threads, Working, Inside,
        StartingUp, Leaving, Sockets, NoSocketLeak
<1>1. CASE BindSpec
  <2>1. next \in DOMAIN StartSpecs
    BY <1>1 DEF BindSpec
  <2>2. PICK f \in NewForwarder(StartSpecs[next].name, DefaultIP,
                               StartSpecs[next].req, StartSpecs[next].guest) :
          fresh' = f /\ listening' = listening \cup {f}
    BY <1>1 DEF BindSpec
  <2>3. f \in Forwarder /\ fresh = None
    BY <1>1, <2>1, <2>2, StartSpecType, NewForwarderType DEF BindSpec, Goto
  <2>. QED
    BY <1>1, <2>1, <2>2, <2>3 DEF BindSpec, Goto, clientVars
<1>2. CASE BindSpecFails
  BY <1>2 DEF BindSpecFails, Goto, mainVars, clientVars
<1>3. CASE RegisterSpec
  <2>1. /\ fresh \in Forwarder /\ next \in 1..Len(StartSpecs)
        /\ fresh.name = StartSpecs[next].name
    BY <1>3, StartSpecType DEF RegisterSpec, Goto
  <2>2. \A f \in registry : f.name # fresh.name
    BY <1>3, <2>1, StartSpecType DEF RegisterSpec, Goto
  <2>3. registry' = registry \cup {fresh}
    BY <1>3, <2>2 DEF RegisterSpec, Put
  <2>. QED
    BY <1>3, <2>1, <2>3, StartSpecType DEF RegisterSpec, Goto, clientVars
<1>4. CASE SSHReady
  BY <1>4 DEF SSHReady, Goto, mainVars, clientVars
<1>5. CASE SSHTimeout
  BY <1>5 DEF SSHTimeout, Goto, mainVars, clientVars
<1>6. CASE LockToPublish
  BY <1>6 DEF LockToPublish, Goto, mainVars, clientVars
<1>7. CASE WriteArtifacts
  BY <1>7 DEF WriteArtifacts, Goto, mainVars, clientVars
<1>8. CASE WriteArtifactsFails
  BY <1>8 DEF WriteArtifactsFails, Goto, mainVars, clientVars
<1>9. CASE SetReady
  BY <1>9 DEF SetReady, Goto, mainVars, clientVars
<1>10. CASE VMStopped
  BY <1>10 DEF VMStopped, Goto, mainVars, clientVars
<1>11. CASE SigTerm
  BY <1>11 DEF SigTerm, Goto, mainVars, clientVars
<1>12. ASSUME NEW t \in {Main, Sig}, BeginClose(t) PROVE Sockets'
  BY <1>12 DEF BeginClose, Goto, mainVars, clientVars
<1>13. ASSUME NEW t \in {Main, Sig}, CloseOne(t) PROVE Sockets'
  <2>1. PICK f \in registry :
          registry' = registry \ {f} /\ listening' = listening \ {f}
    BY <1>13 DEF CloseOne
  <2>2. mutex = t /\ held = None
    BY <1>13 DEF CloseOne
  <2>3. f # fresh
    BY <2>1, StartSpecType
  <2>. QED
    BY <1>13, <2>1, <2>2, <2>3 DEF CloseOne, mainVars, clientVars
<1>14. ASSUME NEW t \in {Main, Sig}, EndClose(t) PROVE Sockets'
  BY <1>14 DEF EndClose, Goto, mainVars, clientVars
<1>15. ASSUME NEW t \in {Main, Sig}, Exit(t) PROVE Sockets'
  BY <1>15 DEF Exit, Goto, mainVars, clientVars
<1>16. ASSUME NEW c \in Clients, AnswerOnly(c) PROVE Sockets'
  BY <1>16 DEF AnswerOnly, Goto, mainVars, clientVars, Answer
<1>17. ASSUME NEW c \in Clients, AddBind(c) PROVE Sockets'
  <2>1. /\ req[c] \in Requests /\ Acceptable(req[c])
        /\ ready /\ \A f \in registry : f.name # req[c].name
    BY <1>17 DEF AddBind, Goto, Effective, Existing
  <2>2. PICK f \in NewForwarder(req[c].name, HostIP(req[c]), req[c].port,
                               req[c].guest) :
          /\ held' = f
          /\ registry' = Put(registry, f)
          /\ listening' = listening \cup {f}
    BY <1>17 DEF AddBind
  <2>3. f \in Forwarder /\ f.name = req[c].name
    BY <2>1, <2>2, AcceptableType, NewForwarderType
  <2>4. registry' = registry \cup {f}
    BY <2>1, <2>2, <2>3 DEF Put
  <2>. QED
    BY <1>17, <2>1, <2>2, <2>3, <2>4 DEF AddBind, Goto, mainVars
<1>18. ASSUME NEW c \in Clients, AddBindFails(c) PROVE Sockets'
  BY <1>18 DEF AddBindFails, Goto, mainVars, clientVars, Answer
<1>19. ASSUME NEW c \in Clients, AddSave(c) PROVE Sockets'
  BY <1>19 DEF AddSave, Goto, mainVars, clientVars, Answer
<1>20. ASSUME NEW c \in Clients, AddSaveFails(c) PROVE Sockets'
  BY <1>20 DEF AddSaveFails, Goto, mainVars, clientVars, Answer, Drop
<1>21. ASSUME NEW c \in Clients, RemoveDelete(c) PROVE Sockets'
  BY <1>21 DEF RemoveDelete, Goto, mainVars, clientVars, Existing, Drop,
     Effective
<1>22. ASSUME NEW c \in Clients, RemoveSave(c) PROVE Sockets'
  BY <1>22 DEF RemoveSave, Goto, mainVars, clientVars
<1>23. ASSUME NEW c \in Clients, RemoveSaveFails(c) PROVE Sockets'
  BY <1>23 DEF RemoveSaveFails, Goto, mainVars, clientVars, Answer, Put
<1>24. ASSUME NEW c \in Clients, RemoveClose(c) PROVE Sockets'
  BY <1>24 DEF RemoveClose, Goto, mainVars, clientVars, Answer
<1>25. ASSUME NEW c \in Clients, NEW r \in Requests, Receive(c, r) PROVE Sockets'
  BY <1>25 DEF Receive, Goto, mainVars, clientVars
<1>26. CASE Crash
  BY <1>26 DEF Crash, mainVars, clientVars
<1>27. CASE UNCHANGED vars
  BY <1>27 DEF mainVars, clientVars, vars
<1>28. QED
  BY <1>1, <1>2, <1>3, <1>4, <1>5, <1>6, <1>7, <1>8, <1>9, <1>10, <1>11,
     <1>12, <1>13, <1>14, <1>15, <1>16, <1>17, <1>18, <1>19, <1>20, <1>21,
     <1>22, <1>23, <1>24, <1>25, <1>26, <1>27 DEF Next, MainStep,
     CloseStep, ClientStep, Gone

(* A step that leaves the file, the table and the mutex alone, and nobody  *)
(* gets to work by it.                                                     *)
LEMMA PublicationFrame ==
  ASSUME Publication,
         UNCHANGED <<mutex, registry, vmState, ready, stopping, startStates, held>>,
         \/ pc'[Main] = pc[Main]
         \/ pc[Main] \notin StartingUp /\ pc'[Main] \notin StartingUp,
         \A c \in Clients : pc'[c] \in Working => pc'[c] = pc[c]
  PROVE  Publication'
BY DEF Publication, Working, StartingUp

(* A change that is complete leaves the file telling the whole table.      *)
LEMMA PublicationDone ==
  ASSUME ready', vmState' = States(registry'), pc'[Main] \notin StartingUp,
         \A c \in Clients : pc'[c] \notin Working
  PROVE  Publication'
BY DEF Publication, Working, StartingUp

(* Once the daemon stops, only the file and Main's place matter.           *)
LEMMA PublicationStopped ==
  ASSUME Publication, stopping', ~ready', UNCHANGED <<vmState, startStates>>,
         pc'[Main] \in {"published"} \cup StartingUp => pc'[Main] = pc[Main]
  PROVE  Publication'
BY DEF Publication

(* Every step keeps vm-state.json as far behind the registry as the change *)
(* in progress says, and no further.                                       *)
LEMMA PublicationStep ==
  ASSUME TypeOK, Control, Control', Sockets, Publication, [Next]_vars
  PROVE  Publication'
<1> USE RegistryAssumptionHolds
    DEF RegistryAssumption, TypeOK, Control, Threads, Working, Inside,
        StartingUp, Leaving, Sockets, Publication
<1>1. CASE BindSpec
  BY <1>1 DEF BindSpec, Goto, mainVars, clientVars
<1>2. CASE BindSpecFails
  BY <1>2 DEF BindSpecFails, Goto, mainVars, clientVars
<1>3. CASE RegisterSpec
  <2>1. /\ fresh \in Forwarder
        /\ \A f \in registry : f.name # fresh.name
    BY <1>3, StartSpecType DEF RegisterSpec, Goto
  <2>2. registry' = registry \cup {fresh}
    BY <1>3, <2>1 DEF RegisterSpec, Put
  <2>3. States(registry') = States(registry) \cup {StateOf(fresh)}
    BY <2>2 DEF States
  <2>4. \A c \in Clients : pc[c] \notin Working
    BY <1>3 DEF RegisterSpec, Goto
  <2>. QED
    BY <1>3, <2>3, <2>4 DEF RegisterSpec, Goto, clientVars
<1>4. CASE SSHReady
  BY <1>4 DEF SSHReady, Goto, mainVars, clientVars
<1>5. CASE SSHTimeout
  BY <1>5 DEF SSHTimeout, Goto, mainVars, clientVars
<1>6. CASE LockToPublish
  BY <1>6 DEF LockToPublish, Goto, mainVars, clientVars
<1>7. CASE WriteArtifacts
  <2>1. startStates # Absent
    BY DEF Absent
  <2>. QED
    BY <1>7, <2>1 DEF WriteArtifacts, Goto, mainVars, clientVars
<1>8. CASE WriteArtifactsFails
  BY <1>8 DEF WriteArtifactsFails, Goto, mainVars, clientVars
<1>9. CASE SetReady
  BY <1>9 DEF SetReady, Goto, mainVars, clientVars
<1>10. CASE VMStopped
  <2>1. /\ pc[Main] = "run" /\ pc' = [pc EXCEPT ![Main] = "close"]
        /\ UNCHANGED <<mutex, registry, vmState, ready, stopping, startStates, held>>
    BY <1>10 DEF VMStopped, Goto, mainVars, clientVars
  <2>2. /\ \/ pc'[Main] = pc[Main]
           \/ pc[Main] \notin StartingUp /\ pc'[Main] \notin StartingUp
        /\ \A e \in Clients : pc'[e] \in Working => pc'[e] = pc[e]
    BY <2>1
  <2>. QED
    BY <2>1, <2>2, PublicationFrame
<1>11. CASE SigTerm
  <2>1. /\ pc[Sig] = "armed" /\ pc' = [pc EXCEPT ![Sig] = "close"]
        /\ UNCHANGED <<mutex, registry, vmState, ready, stopping, startStates, held>>
    BY <1>11 DEF SigTerm, Goto, mainVars, clientVars
  <2>2. /\ \/ pc'[Main] = pc[Main]
           \/ pc[Main] \notin StartingUp /\ pc'[Main] \notin StartingUp
        /\ \A e \in Clients : pc'[e] \in Working => pc'[e] = pc[e]
    BY <2>1
  <2>. QED
    BY <2>1, <2>2, PublicationFrame
<1>12. ASSUME NEW t \in {Main, Sig}, BeginClose(t) PROVE Publication'
  <2>1. /\ stopping' /\ ~ready' /\ UNCHANGED <<vmState, startStates>>
        /\ pc' = [pc EXCEPT ![t] = "closing"]
    BY <1>12 DEF BeginClose, Goto, mainVars
  <2>2. pc'[Main] \in {"published"} \cup StartingUp => pc'[Main] = pc[Main]
    BY <2>1
  <2>. QED
    BY <2>1, <2>2, PublicationStopped
<1>13. ASSUME NEW t \in {Main, Sig}, CloseOne(t) PROVE Publication'
  <2>1. pc[t] = "closing" /\ UNCHANGED <<vmState, startStates, ready, stopping, pc>>
    BY <1>13 DEF CloseOne, mainVars
  <2>2. stopping /\ ~ready
    BY <2>1
  <2>. QED
    BY <2>1, <2>2, PublicationStopped
<1>14. ASSUME NEW t \in {Main, Sig}, EndClose(t) PROVE Publication'
  <2>1. /\ pc[t] = "closing" /\ pc' = [pc EXCEPT ![t] = "exit"]
        /\ UNCHANGED <<vmState, startStates, ready, stopping>>
    BY <1>14 DEF EndClose, Goto, mainVars
  <2>2. stopping /\ ~ready
    BY <2>1
  <2>3. pc'[Main] \in {"published"} \cup StartingUp => pc'[Main] = pc[Main]
    BY <2>1
  <2>. QED
    BY <2>1, <2>2, <2>3, PublicationStopped
<1>15. ASSUME NEW t \in {Main, Sig}, Exit(t) PROVE Publication'
  BY <1>15 DEF Exit, Goto, mainVars, clientVars
<1>16. ASSUME NEW c \in Clients, AnswerOnly(c) PROVE Publication'
  <2>1. /\ pc' = [pc EXCEPT ![c] = "idle"] /\ Main # c
        /\ UNCHANGED <<mutex, registry, vmState, ready, stopping, startStates, held>>
    BY <1>16 DEF AnswerOnly, Goto, mainVars
  <2>2. pc'[Main] = pc[Main] /\ \A e \in Clients : pc'[e] \in Working => pc'[e] = pc[e]
    BY <2>1
  <2>. QED
    BY <2>1, <2>2, PublicationFrame
<1>17. ASSUME NEW c \in Clients, AddBind(c) PROVE Publication'
  <2>1. /\ req[c] \in Requests /\ Acceptable(req[c])
        /\ ready /\ \A f \in registry : f.name # req[c].name
    BY <1>17 DEF AddBind, Goto, Effective, Existing
  <2>2. PICK f \in NewForwarder(req[c].name, HostIP(req[c]), req[c].port,
                               req[c].guest) :
          held' = f /\ registry' = Put(registry, f)
    BY <1>17 DEF AddBind
  <2>3. f.name = req[c].name
    BY <2>1, <2>2, AcceptableType, NewForwarderType
  <2>4. registry' \ {held'} = registry
    BY <2>1, <2>2, <2>3 DEF Put
  <2>. QED
    BY <1>17, <2>1, <2>4 DEF AddBind, Goto, mainVars
<1>18. ASSUME NEW c \in Clients, AddBindFails(c) PROVE Publication'
  <2>1. /\ pc' = [pc EXCEPT ![c] = "idle"] /\ Main # c
        /\ UNCHANGED <<mutex, registry, vmState, ready, stopping, startStates, held>>
    BY <1>18 DEF AddBindFails, Goto, mainVars
  <2>2. pc'[Main] = pc[Main] /\ \A e \in Clients : pc'[e] \in Working => pc'[e] = pc[e]
    BY <2>1
  <2>. QED
    BY <2>1, <2>2, PublicationFrame
<1>19. ASSUME NEW c \in Clients, AddSave(c) PROVE Publication'
  <2>1. /\ pc[c] = "adding" /\ pc' = [pc EXCEPT ![c] = "idle"]
        /\ vmState' = States(registry') /\ ready' = ready
    BY <1>19 DEF AddSave, Goto
  <2>2. ready /\ mutex = c
    BY <2>1
  <2>3. pc'[Main] \notin StartingUp /\ \A e \in Clients : pc'[e] \notin Working
    BY <2>1, <2>2
  <2>. QED
    BY <2>1, <2>2, <2>3, PublicationDone
<1>20. ASSUME NEW c \in Clients, AddSaveFails(c) PROVE Publication'
  <2>1. held \in registry /\ held.name = req[c].name
    BY <1>20 DEF AddSaveFails, Goto
  <2>2. registry' = registry \ {held}
    BY <1>20, <2>1 DEF AddSaveFails, Drop
  <2>3. /\ pc[c] = "adding" /\ pc' = [pc EXCEPT ![c] = "idle"]
        /\ UNCHANGED <<vmState, ready>>
    BY <1>20 DEF AddSaveFails, Goto
  <2>4. ready /\ vmState = States(registry \ {held}) /\ mutex = c
    BY <2>3
  <2>5. pc'[Main] \notin StartingUp /\ \A e \in Clients : pc'[e] \notin Working
    BY <2>3, <2>4
  <2>. QED
    BY <2>2, <2>3, <2>4, <2>5, PublicationDone
<1>21. ASSUME NEW c \in Clients, RemoveDelete(c) PROVE Publication'
  <2>1. PICK f \in registry : f.name = req[c].name /\ held' = f
    BY <1>21 DEF RemoveDelete, Existing
  <2>2. registry' \cup {held'} = registry
    BY <1>21, <2>1 DEF RemoveDelete, Drop
  <2>3. /\ ready /\ mutex = None /\ mutex' = c
        /\ pc' = [pc EXCEPT ![c] = "removing"]
        /\ UNCHANGED <<vmState, ready, stopping, startStates>>
    BY <1>21 DEF RemoveDelete, Goto, Effective, mainVars
  <2>4. vmState' = States(registry' \cup {held'})
    BY <2>2, <2>3
  <2>5. pc'[Main] = pc[Main] /\ pc[Main] \notin StartingUp
    BY <2>3
  <2>6. \A e \in Clients : e # c => pc'[e] \notin Working
    BY <2>3
  <2>. QED
    BY <2>3, <2>4, <2>5, <2>6
<1>22. ASSUME NEW c \in Clients, RemoveSave(c) PROVE Publication'
  BY <1>22 DEF RemoveSave, Goto, mainVars, clientVars
<1>23. ASSUME NEW c \in Clients, RemoveSaveFails(c) PROVE Publication'
  <2>1. \A f \in registry : f.name # held.name
    BY <1>23 DEF RemoveSaveFails, Goto
  <2>2. registry' = registry \cup {held}
    BY <1>23, <2>1 DEF RemoveSaveFails, Put
  <2>3. /\ pc[c] = "removing" /\ pc' = [pc EXCEPT ![c] = "idle"]
        /\ UNCHANGED <<vmState, ready>>
    BY <1>23 DEF RemoveSaveFails, Goto
  <2>4. ready /\ vmState = States(registry \cup {held}) /\ mutex = c
    BY <2>3
  <2>5. pc'[Main] \notin StartingUp /\ \A e \in Clients : pc'[e] \notin Working
    BY <2>3, <2>4
  <2>. QED
    BY <2>2, <2>3, <2>4, <2>5, PublicationDone
<1>24. ASSUME NEW c \in Clients, RemoveClose(c) PROVE Publication'
  <2>1. /\ pc[c] = "unlisting" /\ pc' = [pc EXCEPT ![c] = "idle"]
        /\ UNCHANGED <<vmState, ready, registry>>
    BY <1>24 DEF RemoveClose, Goto
  <2>2. ready /\ vmState = States(registry) /\ mutex = c
    BY <2>1
  <2>3. pc'[Main] \notin StartingUp /\ \A e \in Clients : pc'[e] \notin Working
    BY <2>1, <2>2
  <2>. QED
    BY <2>1, <2>2, <2>3, PublicationDone
<1>25. ASSUME NEW c \in Clients, NEW r \in Requests, Receive(c, r) PROVE Publication'
  <2>1. /\ pc' = [pc EXCEPT ![c] = "waiting"] /\ Main # c
        /\ UNCHANGED <<mutex, registry, vmState, ready, stopping, startStates, held>>
    BY <1>25 DEF Receive, Goto, mainVars
  <2>2. pc'[Main] = pc[Main] /\ \A e \in Clients : pc'[e] \in Working => pc'[e] = pc[e]
    BY <2>1
  <2>. QED
    BY <2>1, <2>2, PublicationFrame
<1>26. CASE Crash
  <2>1. UNCHANGED <<pc, mutex, registry, vmState, ready, stopping, startStates, held>>
    BY <1>26 DEF Crash, mainVars, clientVars
  <2>. QED
    BY <2>1, PublicationFrame
<1>27. CASE UNCHANGED vars
  <2>1. UNCHANGED <<pc, mutex, registry, vmState, ready, stopping, startStates, held>>
    BY <1>27 DEF mainVars, clientVars, vars
  <2>. QED
    BY <2>1, PublicationFrame
<1> HIDE DEF TypeOK, Control, Sockets, Publication, RegistryAssumption
<1>28. QED
  BY <1>1, <1>2, <1>3, <1>4, <1>5, <1>6, <1>7, <1>8, <1>9, <1>10, <1>11,
     <1>12, <1>13, <1>14, <1>15, <1>16, <1>17, <1>18, <1>19, <1>20, <1>21,
     <1>22, <1>23, <1>24, <1>25, <1>26, <1>27 DEF Next, MainStep,
     CloseStep, ClientStep, Gone

(* The invariant holds in every reachable state.                           *)
THEOREM Invariance == Spec => []IInv
<1>1. Init => IInv
  <2> SUFFICES ASSUME Init PROVE IInv
    OBVIOUS
  <2> USE RegistryAssumptionHolds DEF RegistryAssumption, Init
  <2>1. TypeOK
    <3>1. StartSpecs \in Seq(ForwardSpec) /\ Len(StartSpecs) \in Nat
      OBVIOUS
    <3>2. next \in 1..(Len(StartSpecs) + 1)
      BY <3>1
    <3>. QED
      BY <3>2 DEF TypeOK, Absent
  <2>2. Control
    BY DEF Control, Threads, Working, Inside, StartingUp, Leaving
  <2>3. Sockets
    BY DEF Sockets, NoSocketLeak
  <2>4. Publication
    BY DEF Publication, States, Absent, StartingUp
  <2>. QED
    BY <2>1, <2>2, <2>3, <2>4 DEF IInv
<1>2. IInv /\ [Next]_vars => IInv'
  BY TypeStep, ControlStep, SocketsStep, PublicationStep DEF IInv
<1>. QED
  BY <1>1, <1>2, PTL DEF Spec

(* Every variable keeps its type.                                          *)
THEOREM TypeCorrect == Spec => []TypeOK
BY Invariance, PTL DEF IInv

(* Every open socket is in the registry or in the hands of the goroutine   *)
(* that bound or unlisted it: closeForwarders leaves none behind.          *)
THEOREM NoLeak == Spec => []NoSocketLeak
<1>1. IInv => NoSocketLeak
  BY DEF IInv, Sockets
<1>. QED
  BY <1>1, Invariance, PTL

(* A mapping in vm-state.json is listening, through every add, remove and  *)
(* roll-back.                                                              *)
THEOREM Published == Spec => []PublishedListening
<1>1. IInv => PublishedListening
  <2> SUFFICES ASSUME IInv, alive, ~stopping, vmState # Absent
               PROVE  vmState \subseteq States(listening)
    BY DEF PublishedListening
  <2> USE DEF IInv, TypeOK, Control, Sockets, NoSocketLeak, Publication,
              StartingUp, Working
  <2>1. registry \subseteq listening /\ (held # None => held \in listening)
    OBVIOUS
  <2>2. \A r1, r2 : r1 \subseteq r2 => States(r1) \subseteq States(r2)
    BY DEF States
  <2>3. CASE ~ready
    BY <2>1, <2>2, <2>3
  <2>4. CASE ready /\ mutex \notin Clients
    BY <2>1, <2>2, <2>4
  <2>5. ASSUME NEW c \in Clients, ready, mutex = c
        PROVE  vmState \subseteq States(listening)
    <3>1. pc[c] \in Working /\ held \in Forwarder
      BY <2>5 DEF Threads, Inside
    <3>2. held # None
      BY <3>1, RegistryAssumptionHolds DEF RegistryAssumption
    <3>3. \/ vmState = States(registry \ {held})
          \/ vmState = States(registry \cup {held})
          \/ vmState = States(registry)
      BY <2>5, <3>1
    <3>. QED
      BY <2>1, <2>2, <3>2, <3>3
  <2>. QED
    BY <2>3, <2>4, <2>5
<1>. QED
  BY <1>1, Invariance, PTL

(* Between two requests the published, the registered and the listening    *)
(* forwards are the same.                                                  *)
THEOREM Agreement == Spec => []Quiescent
<1>1. IInv => Quiescent
  <2> SUFFICES ASSUME IInv, alive, ready, mutex = None
               PROVE  vmState = States(registry) /\ listening = registry
    BY DEF Quiescent
  <2> USE DEF IInv, TypeOK, Control, Sockets, NoSocketLeak, Publication
  <2>1. mutex \notin Threads
    BY RegistryAssumptionHolds DEF RegistryAssumption, Threads
  <2>2. fresh = None
    BY DEF StartingUp
  <2>3. held = None
    BY <2>1 DEF Threads, Inside
  <2>. QED
    BY <2>1, <2>2, <2>3 DEF Threads
<1>. QED
  BY <1>1, Invariance, PTL

(* Whoever reads the result of the start and then gets the mutex finds the *)
(* daemon ready.                                                           *)
THEOREM Started == Spec => []StartedIsReady
<1>1. IInv => StartedIsReady
  <2> SUFFICES ASSUME IInv, alive, vmState # Absent, mutex = None, ~stopping
               PROVE  ready
    BY DEF StartedIsReady
  <2>1. pc[Main] # "published"
    BY RegistryAssumptionHolds
       DEF RegistryAssumption, IInv, Control, Threads, Inside
  <2>. QED
    BY <2>1 DEF IInv, Publication
<1>. QED
  BY <1>1, Invariance, PTL

(* A stopping daemon refuses every forward request.                        *)
THEOREM Refused == Spec => StoppingRefuses
<1>1. IInv /\ [Next]_vars => [RefusalStep]_vars
  <2> SUFFICES ASSUME IInv, [Next]_vars PROVE RefusalStep
    OBVIOUS
  <2> USE RegistryAssumptionHolds
      DEF RegistryAssumption, RefusalStep, IInv, TypeOK, Control, Working, Inside,
          Threads, StartingUp, Leaving
  <2>1. CASE BindSpec
    BY <2>1 DEF BindSpec, Goto, mainVars, clientVars
  <2>2. CASE BindSpecFails
    BY <2>2 DEF BindSpecFails, Goto, mainVars, clientVars
  <2>3. CASE RegisterSpec
    BY <2>3 DEF RegisterSpec, Goto, mainVars, clientVars
  <2>4. CASE SSHReady
    BY <2>4 DEF SSHReady, Goto, mainVars, clientVars
  <2>5. CASE SSHTimeout
    BY <2>5 DEF SSHTimeout, Goto, mainVars, clientVars
  <2>6. CASE LockToPublish
    BY <2>6 DEF LockToPublish, Goto, mainVars, clientVars
  <2>7. CASE WriteArtifacts
    BY <2>7 DEF WriteArtifacts, Goto, mainVars, clientVars
  <2>8. CASE WriteArtifactsFails
    BY <2>8 DEF WriteArtifactsFails, Goto, mainVars, clientVars
  <2>9. CASE SetReady
    BY <2>9 DEF SetReady, Goto, mainVars, clientVars
  <2>10. CASE VMStopped
    BY <2>10 DEF VMStopped, Goto, mainVars, clientVars
  <2>11. CASE SigTerm
    BY <2>11 DEF SigTerm, Goto, mainVars, clientVars
  <2>12. ASSUME NEW t \in {Main, Sig}, BeginClose(t) PROVE RefusalStep
    BY <2>12 DEF BeginClose, Goto, mainVars, clientVars
  <2>13. ASSUME NEW t \in {Main, Sig}, CloseOne(t) PROVE RefusalStep
    BY <2>13 DEF CloseOne, mainVars, clientVars
  <2>14. ASSUME NEW t \in {Main, Sig}, EndClose(t) PROVE RefusalStep
    BY <2>14 DEF EndClose, Goto, mainVars, clientVars
  <2>15. ASSUME NEW t \in {Main, Sig}, Exit(t) PROVE RefusalStep
    BY <2>15 DEF Exit, Goto, mainVars, clientVars
  <2>16. ASSUME NEW c \in Clients, AnswerOnly(c) PROVE RefusalStep
    BY <2>16 DEF AnswerOnly, Goto, mainVars, clientVars, Answer, Effective,
       Verdict
  <2>17. ASSUME NEW c \in Clients, AddBind(c) PROVE RefusalStep
    BY <2>17 DEF AddBind, Goto, mainVars, clientVars, Effective
  <2>18. ASSUME NEW c \in Clients, AddBindFails(c) PROVE RefusalStep
    BY <2>18 DEF AddBindFails, Goto, mainVars, clientVars, Answer, Effective
  <2>19. ASSUME NEW c \in Clients, AddSave(c) PROVE RefusalStep
    BY <2>19 DEF AddSave, Goto, mainVars, clientVars, Answer
  <2>20. ASSUME NEW c \in Clients, AddSaveFails(c) PROVE RefusalStep
    BY <2>20 DEF AddSaveFails, Goto, mainVars, clientVars, Answer, Drop
  <2>21. ASSUME NEW c \in Clients, RemoveDelete(c) PROVE RefusalStep
    BY <2>21 DEF RemoveDelete, Goto, mainVars, clientVars, Effective
  <2>22. ASSUME NEW c \in Clients, RemoveSave(c) PROVE RefusalStep
    BY <2>22 DEF RemoveSave, Goto, mainVars, clientVars
  <2>23. ASSUME NEW c \in Clients, RemoveSaveFails(c) PROVE RefusalStep
    BY <2>23 DEF RemoveSaveFails, Goto, mainVars, clientVars, Answer, Put
  <2>24. ASSUME NEW c \in Clients, RemoveClose(c) PROVE RefusalStep
    BY <2>24 DEF RemoveClose, Goto, mainVars, clientVars, Answer
  <2>25. ASSUME NEW c \in Clients, NEW r \in Requests, Receive(c, r) PROVE RefusalStep
    BY <2>25 DEF Receive, Goto, mainVars, clientVars
  <2>26. CASE Crash
    BY <2>26 DEF Crash, mainVars, clientVars
  <2>27. CASE UNCHANGED vars
    BY <2>27 DEF vars
  <2>28. QED
    BY <2>1, <2>2, <2>3, <2>4, <2>5, <2>6, <2>7, <2>8, <2>9, <2>10, <2>11,
       <2>12, <2>13, <2>14, <2>15, <2>16, <2>17, <2>18, <2>19, <2>20, <2>21,
       <2>22, <2>23, <2>24, <2>25, <2>26, <2>27 DEF Next, MainStep,
       CloseStep, ClientStep, Gone
<1>. QED
  BY <1>1, Invariance, PTL DEF StoppingRefuses, Spec

(* Requests close no forward but their own.                                *)
THEOREM Preserved == Spec => OthersPreserved
<1>1. IInv /\ [Next]_vars => [PreservingStep]_vars
  <2> SUFFICES ASSUME IInv, [Next]_vars PROVE PreservingStep
    OBVIOUS
  <2> USE RegistryAssumptionHolds
      DEF RegistryAssumption, PreservingStep, IInv, TypeOK, Control, Working, Inside,
          Threads, StartingUp, Leaving
  <2>1. CASE BindSpec
    BY <2>1 DEF BindSpec, Goto, mainVars, clientVars
  <2>2. CASE BindSpecFails
    BY <2>2 DEF BindSpecFails, Goto, mainVars, clientVars
  <2>3. CASE RegisterSpec
    BY <2>3 DEF RegisterSpec, Goto, mainVars, clientVars
  <2>4. CASE SSHReady
    BY <2>4 DEF SSHReady, Goto, mainVars, clientVars
  <2>5. CASE SSHTimeout
    BY <2>5 DEF SSHTimeout, Goto, mainVars, clientVars
  <2>6. CASE LockToPublish
    BY <2>6 DEF LockToPublish, Goto, mainVars, clientVars
  <2>7. CASE WriteArtifacts
    BY <2>7 DEF WriteArtifacts, Goto, mainVars, clientVars
  <2>8. CASE WriteArtifactsFails
    BY <2>8 DEF WriteArtifactsFails, Goto, mainVars, clientVars
  <2>9. CASE SetReady
    BY <2>9 DEF SetReady, Goto, mainVars, clientVars
  <2>10. CASE VMStopped
    BY <2>10 DEF VMStopped, Goto, mainVars, clientVars
  <2>11. CASE SigTerm
    BY <2>11 DEF SigTerm, Goto, mainVars, clientVars
  <2>12. ASSUME NEW t \in {Main, Sig}, BeginClose(t) PROVE PreservingStep
    BY <2>12 DEF BeginClose, Goto, mainVars, clientVars
  <2>13. ASSUME NEW t \in {Main, Sig}, CloseOne(t) PROVE PreservingStep
    BY <2>13 DEF CloseOne, mainVars, clientVars
  <2>14. ASSUME NEW t \in {Main, Sig}, EndClose(t) PROVE PreservingStep
    BY <2>14 DEF EndClose, Goto, mainVars, clientVars
  <2>15. ASSUME NEW t \in {Main, Sig}, Exit(t) PROVE PreservingStep
    BY <2>15 DEF Exit, Goto, mainVars, clientVars
  <2>16. ASSUME NEW c \in Clients, AnswerOnly(c) PROVE PreservingStep
    BY <2>16 DEF AnswerOnly, Goto, mainVars, clientVars, Answer, Effective,
       Verdict
  <2>17. ASSUME NEW c \in Clients, AddBind(c) PROVE PreservingStep
    BY <2>17 DEF AddBind, Goto, mainVars, clientVars, Effective
  <2>18. ASSUME NEW c \in Clients, AddBindFails(c) PROVE PreservingStep
    BY <2>18 DEF AddBindFails, Goto, mainVars, clientVars, Answer, Effective
  <2>19. ASSUME NEW c \in Clients, AddSave(c) PROVE PreservingStep
    BY <2>19 DEF AddSave, Goto, mainVars, clientVars, Answer
  <2>20. ASSUME NEW c \in Clients, AddSaveFails(c) PROVE PreservingStep
    BY <2>20 DEF AddSaveFails, Goto, mainVars, clientVars, Answer, Drop
  <2>21. ASSUME NEW c \in Clients, RemoveDelete(c) PROVE PreservingStep
    BY <2>21 DEF RemoveDelete, Goto, mainVars, clientVars, Effective
  <2>22. ASSUME NEW c \in Clients, RemoveSave(c) PROVE PreservingStep
    BY <2>22 DEF RemoveSave, Goto, mainVars, clientVars
  <2>23. ASSUME NEW c \in Clients, RemoveSaveFails(c) PROVE PreservingStep
    BY <2>23 DEF RemoveSaveFails, Goto, mainVars, clientVars, Answer, Put
  <2>24. ASSUME NEW c \in Clients, RemoveClose(c) PROVE PreservingStep
    BY <2>24 DEF RemoveClose, Goto, mainVars, clientVars, Answer
  <2>25. ASSUME NEW c \in Clients, NEW r \in Requests, Receive(c, r)
      PROVE PreservingStep
    BY <2>25 DEF Receive, Goto, mainVars, clientVars
  <2>26. CASE Crash
    BY <2>26 DEF Crash, mainVars, clientVars
  <2>27. CASE UNCHANGED vars
    BY <2>27 DEF vars
  <2>28. QED
    BY <2>1, <2>2, <2>3, <2>4, <2>5, <2>6, <2>7, <2>8, <2>9, <2>10, <2>11,
       <2>12, <2>13, <2>14, <2>15, <2>16, <2>17, <2>18, <2>19, <2>20, <2>21,
       <2>22, <2>23, <2>24, <2>25, <2>26, <2>27 DEF Next, MainStep,
       CloseStep, ClientStep, Gone
<1>. QED
  BY <1>1, Invariance, PTL DEF OthersPreserved, Spec
=============================================================================
