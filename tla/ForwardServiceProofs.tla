------------------------- MODULE ForwardServiceProofs -------------------------
(***************************************************************************)
(* The forward registry implements ForwardService, for every number of     *)
(* names, ports, clients and requests.  A forward that is being added takes*)
(* effect when vm-state.json is saved, and so does one being removed; every*)
(* other step of a request is a stutter of the service or its answer.      *)
(***************************************************************************)
EXTENDS ForwardRegistryProofs

(* What a client is in the middle of is what its request asks for.         *)
Meets(f, r) ==
  f.guest = r.guest /\ f.req = r.port /\ f.ip = HostIP(r) /\ f.req \in {0, f.port}

Purpose ==
  \A c \in Clients :
    /\ pc[c] = "idle" => req[c] = None
    /\ pc[c] = "adding" =>
         req[c].op = "add" /\ Acceptable(req[c]) /\ Meets(held, req[c])
    /\ pc[c] \in {"removing", "unlisting"} => req[c].op = "remove"

RInv == IInv /\ Purpose

(* A listen for an add gives what the add asks for.                        *)
LEMMA BoundForAdd ==
  ASSUME NEW r \in Requests, Acceptable(r),
         NEW f \in NewForwarder(r.name, HostIP(r), r.port, r.guest)
  PROVE  f \in Forwarder /\ f.name = r.name /\ Meets(f, r)
<1>1. /\ r.name \in Names /\ HostIP(r) \in LoopbackIPs
      /\ r.port \in 0..MaxPort /\ r.guest \in 1..MaxPort
  BY AcceptableType
<1>2. f \in Forwarder /\ f.name = r.name
  BY <1>1, NewForwarderType
<1>3. PICK p \in BindChoices(HostIP(r), r.port) :
        f = [name |-> r.name, ip |-> HostIP(r), req |-> r.port, port |-> p,
             guest |-> r.guest]
  BY DEF NewForwarder
<1>4. r.port \in {0, p}
  BY <1>3 DEF BindChoices
<1>. QED
  BY <1>2, <1>3, <1>4 DEF Meets

LEMMA PurposeStep ==
  ASSUME TypeOK, Control, Purpose, [Next]_vars
  PROVE  Purpose'
<1>0. /\ DOMAIN req = Clients /\ DOMAIN pc = Clients \cup {Main, Sig}
      /\ Main \notin Clients /\ Sig \notin Clients /\ None \notin Clients
  BY RegistryAssumptionHolds DEF TypeOK, RegistryAssumption
<1>1. ASSUME UNCHANGED <<req, held>>, \A c \in Clients : pc'[c] = pc[c]
      PROVE  Purpose'
  BY <1>1 DEF Purpose, Acceptable, HostIP, Meets
<1>2. CASE MainStep \/ SigTerm \/ Crash \/ UNCHANGED vars
  <2>1. UNCHANGED <<req, held>> /\ \A c \in Clients : pc'[c] = pc[c]
    BY <1>0, <1>2 DEF MainStep, BindSpec, BindSpecFails, RegisterSpec, SSHReady,
       SSHTimeout, LockToPublish, WriteArtifacts, WriteArtifactsFails, SetReady,
       VMStopped, SigTerm, Crash, Goto, clientVars, vars
  <2>. QED
    BY <1>1, <2>1
<1>3. ASSUME NEW t \in {Main, Sig}, CloseStep(t) PROVE Purpose'
  <2>1. UNCHANGED <<req, held>> /\ \A c \in Clients : pc'[c] = pc[c]
    BY <1>0, <1>3 DEF CloseStep, BeginClose, CloseOne, EndClose, Exit, Goto, clientVars
  <2>. QED
    BY <1>1, <2>1
<1>4. ASSUME NEW c \in Clients, ClientStep(c) PROVE Purpose'
  <2>1. \A e \in Clients \ {c} : req'[e] = req[e] /\ pc'[e] = pc[e]
    BY <1>0, <1>4 DEF ClientStep, AnswerOnly, AddBind, AddBindFails, AddSave,
       AddSaveFails, RemoveDelete, RemoveSave, RemoveSaveFails, RemoveClose, Goto,
       Answer, clientVars
  <2>2. mutex = None \/ pc[c] \in Working
    BY <1>4 DEF ClientStep, AnswerOnly, AddBind, AddBindFails, AddSave, AddSaveFails,
       RemoveDelete, RemoveSave, RemoveSaveFails, RemoveClose, Goto, Working
  <2>3. \A e \in Clients \ {c} : pc[e] \notin Working
    BY <1>0, <2>2 DEF Control, Threads, Inside
  <2>4. ASSUME NEW e \in Clients \ {c}
        PROVE  pc'[e] \notin Working /\ (pc'[e] = "idle" => req'[e] = None)
    BY <2>1, <2>3, <2>4 DEF Purpose
  <2>5. pc'[c] = "idle" => req'[c] = None
    BY <1>0, <1>4 DEF ClientStep, AnswerOnly, AddBind, AddBindFails, AddSave,
       AddSaveFails, RemoveDelete, RemoveSave, RemoveSaveFails, RemoveClose, Goto,
       Answer, clientVars
  <2>6. ASSUME pc'[c] = "adding"
        PROVE  req'[c].op = "add" /\ Acceptable(req[c]) /\ Meets(held', req[c]) /\ req' = req
    <3>1. AddBind(c)
      BY <1>0, <1>4, <2>6 DEF ClientStep, AnswerOnly, AddBindFails, AddSave,
         AddSaveFails, RemoveDelete, RemoveSave, RemoveSaveFails, RemoveClose, Goto
    <3>2. req[c] \in Requests
      BY <3>1 DEF AddBind, Goto, Control
    <3>3. PICK f \in NewForwarder(req[c].name, HostIP(req[c]), req[c].port, req[c].guest) :
            held' = f
      BY <3>1 DEF AddBind
    <3>4. Acceptable(req[c]) /\ req[c].op = "add" /\ req' = req
      BY <3>1 DEF AddBind, Effective
    <3>. QED
      BY <3>2, <3>3, <3>4, BoundForAdd
  <2>7. pc'[c] \in {"removing", "unlisting"} => req'[c].op = "remove"
    BY <1>0, <1>4 DEF Purpose, clientVars, ClientStep, AnswerOnly, AddBind, AddBindFails, AddSave,
       AddSaveFails, RemoveDelete, RemoveSave, RemoveSaveFails, RemoveClose, Goto
  <2>8. pc'[c] = "adding" => Acceptable(req'[c]) /\ Meets(held', req'[c])
    BY <2>6
  <2>. QED
    BY <2>4, <2>5, <2>6, <2>7, <2>8 DEF Purpose, Working, Acceptable, Meets, HostIP
<1>5. ASSUME NEW c \in Clients, NEW r \in Requests, Receive(c, r) PROVE Purpose'
  <2>1. /\ pc' = [pc EXCEPT ![c] = "waiting"] /\ req' = [req EXCEPT ![c] = r]
        /\ held' = held
    BY <1>5 DEF Receive, Goto
  <2>2. pc'[c] = "waiting" /\ \A e \in Clients \ {c} : pc'[e] = pc[e] /\ req'[e] = req[e]
    BY <1>0, <2>1
  <2>. QED
    BY <2>1, <2>2 DEF Purpose, Acceptable, HostIP, Meets
<1>. QED
  BY <1>2, <1>3, <1>4, <1>5 DEF Next, Gone

THEOREM RefinementInvariance == Spec => []RInv
<1>1. Init => Purpose
  <2>1. ASSUME Init PROVE \A c \in Clients : pc[c] = "idle" /\ req[c] = None
    BY <2>1, RegistryAssumptionHolds DEF RegistryAssumption, Init
  <2>. QED
    BY <2>1 DEF Purpose
<1>2. IInv /\ Purpose /\ [Next]_vars => Purpose'
  BY PurposeStep DEF IInv
<1>. QED
  BY <1>1, <1>2, Invariance, PTL DEF Spec, RInv

(* The file tells forwards with different names apart.                     *)
LEMMA Selects ==
  ASSUME NEW R, NEW S, S \subseteq R, \A f, g \in R : f.name = g.name => f = g
  PROVE  {f \in R : StateOf(f) \in States(S)} = S
<1>1. ASSUME NEW f \in R, NEW g \in S, StateOf(f) = StateOf(g) PROVE f = g
  <2>1. StateOf(f).name = f.name /\ StateOf(g).name = g.name
    BY DEF StateOf
  <2>. QED
    BY <1>1, <2>1
<1>. QED
  BY <1>1 DEF States

(* The table of the service, at each point of a change.                    *)
LEMMA TableAt ==
  ASSUME IInv, alive, ready
  PROVE  /\ \A c \in Clients : pc[c] = "adding" => Table = registry \ {held}
         /\ \A c \in Clients : pc[c] = "removing" => Table = registry \cup {held}
         /\ \A c \in Clients : pc[c] = "unlisting" => Table = registry
         /\ mutex \notin Clients => Table = registry
<1>0. None \notin Forwarder /\ \A f, g \in registry : f.name = g.name => f = g
  BY RegistryAssumptionHolds DEF RegistryAssumption, IInv, Sockets
<1>1. ASSUME NEW c \in Clients, pc[c] \in Working
      PROVE  /\ Table = {f \in registry \cup {held} : StateOf(f) \in vmState}
  <2>1. held \in Forwarder
    BY <1>1 DEF IInv, Control
  <2>2. {held} \ {None} = {held}
    BY <1>0, <2>1
  <2>. QED
    BY <2>2 DEF Table
<1>2. ASSUME NEW c \in Clients, pc[c] = "adding" PROVE Table = registry \ {held}
  <2>1. held \in registry /\ vmState = States(registry \ {held})
    BY <1>2 DEF IInv, Sockets, Publication
  <2>2. registry \cup {held} = registry
    BY <2>1
  <2>. QED
    BY <1>0, <1>1, <1>2, <2>1, <2>2, Selects DEF Working
<1>3. ASSUME NEW c \in Clients, pc[c] \in {"removing", "unlisting"}
      PROVE  \A f, g \in registry \cup {held} : f.name = g.name => f = g
  <2>1. \A f \in registry : f.name # held.name
    BY <1>3 DEF IInv, Sockets
  <2>. QED
    BY <1>0, <2>1
<1>4. ASSUME NEW c \in Clients, pc[c] = "removing" PROVE Table = registry \cup {held}
  <2>1. vmState = States(registry \cup {held})
    BY <1>4 DEF IInv, Publication
  <2>. QED
    BY <1>1, <1>3, <1>4, <2>1, Selects DEF Working
<1>5. ASSUME NEW c \in Clients, pc[c] = "unlisting" PROVE Table = registry
  <2>1. vmState = States(registry)
    BY <1>5 DEF IInv, Publication
  <2>. QED
    BY <1>1, <1>3, <1>5, <2>1, Selects DEF Working
<1>6. ASSUME mutex \notin Clients PROVE Table = registry
  <2>1. vmState = States(registry)
    BY <1>6 DEF IInv, Publication
  <2>2. held = None
    BY <1>6 DEF IInv, Control, Threads, Inside
  <2>3. registry \cup ({held} \ {None}) = registry
    BY <2>2
  <2>. QED
    BY <1>0, <2>1, <2>3, Selects DEF Table
<1>. QED
  BY <1>2, <1>4, <1>5, <1>6

-----------------------------------------------------------------------------
(* Steps the service does not see.                                         *)

LEMMA PendingSame ==
  ASSUME req' = req, \A c \in Clients : pc'[c] = "unlisting" <=> pc[c] = "unlisting"
  PROVE  Pending' = Pending
BY DEF Pending

LEMMA OutOfSight ==
  ASSUME ~(alive /\ ready), ~(alive' /\ ready'), Phase' = Phase, UNCHANGED <<req, reply>>,
         \A c \in Clients : pc'[c] = "unlisting" <=> pc[c] = "unlisting"
  PROVE  UNCHANGED Service!vars
BY PendingSame DEF Table, Service!vars

LEMMA NothingMoved ==
  ASSUME UNCHANGED <<alive, ready, stopping, registry, held, vmState, req, reply>>,
         \A c \in Clients : pc'[c] = "unlisting" <=> pc[c] = "unlisting"
  PROVE  UNCHANGED Service!vars
BY PendingSame DEF Phase, Table, Service!vars

-----------------------------------------------------------------------------
(* Main, the signal handler and the end of the daemon.                     *)

LEMMA MainRefines ==
  ASSUME RInv, MainStep
  PROVE  Service!Next \/ UNCHANGED Service!vars
<1>0. /\ \A c \in Clients : c # Main
      /\ pc \in [Clients \cup {Main, Sig} ->
           {"bind", "register", "publish", "publishing", "published", "run",
            "armed", "close", "closing", "exit", "exited",
            "idle", "waiting", "adding", "removing", "unlisting"}]
  BY RegistryAssumptionHolds DEF RegistryAssumption, RInv, IInv, TypeOK
<1>1. ASSUME pc[Main] \in StartingUp, UNCHANGED <<alive, ready, stopping, req, reply>>,
             \A c \in Clients : pc'[c] = pc[c]
      PROVE  UNCHANGED Service!vars
  <2>1. ~ready
    BY <1>1 DEF RInv, IInv, Control
  <2>. QED
    BY <1>1, <2>1, OutOfSight DEF Phase
<1>2. CASE BindSpec
  BY <1>0, <1>1, <1>2 DEF BindSpec, Goto, StartingUp, clientVars
<1>3. CASE BindSpecFails
  BY <1>0, <1>1, <1>3 DEF BindSpecFails, Goto, StartingUp, clientVars
<1>4. CASE RegisterSpec
  BY <1>0, <1>1, <1>4 DEF RegisterSpec, Goto, StartingUp, clientVars
<1>5. CASE SSHReady
  BY <1>0, <1>1, <1>5 DEF SSHReady, Goto, StartingUp, clientVars
<1>6. CASE SSHTimeout
  BY <1>0, <1>1, <1>6 DEF SSHTimeout, Goto, StartingUp, clientVars
<1>7. CASE LockToPublish
  BY <1>0, <1>1, <1>7 DEF LockToPublish, Goto, StartingUp, clientVars
<1>8. CASE WriteArtifacts
  BY <1>0, <1>1, <1>8 DEF WriteArtifacts, Goto, StartingUp, clientVars
<1>9. CASE WriteArtifactsFails
  BY <1>0, <1>1, <1>9 DEF WriteArtifactsFails, Goto, StartingUp, clientVars
<1>10. CASE SetReady
  <2>0. /\ alive /\ pc[Main] = "published" /\ ready' = ~stopping
        /\ UNCHANGED <<alive, stopping, registry, vmState, req, held, reply>>
        /\ \A c \in Clients : pc'[c] = pc[c]
    BY <1>0, <1>10 DEF SetReady, Goto, clientVars
  <2>1. ~ready /\ pc[Main] \in StartingUp
    BY <2>0 DEF StartingUp, RInv, IInv, Control
  <2>2. Pending' = Pending
    BY <2>0, PendingSame
  <2>3. CASE stopping
    <3>1. ready' = ready
      BY <2>0, <2>1, <2>3 DEF RInv, IInv, TypeOK
    <3>. QED
      BY <1>1, <2>0, <2>1, <3>1
  <2>4. CASE ~stopping
    <3>1. Phase = "starting" /\ Phase' = "ready" /\ reply' = reply
      BY <2>0, <2>1, <2>4 DEF Phase
    <3>2. vmState = States(registry)
      BY <2>0, <2>1, <2>4 DEF RInv, IInv, Publication
    <3>3. held = None
      BY <2>1 DEF RInv, IInv, Control
    <3>4. \A f, g \in registry : f.name = g.name => f = g
      BY DEF RInv, IInv, Sockets
    <3>5. {f \in registry : StateOf(f) \in vmState} = registry
      BY <3>2, <3>4, Selects
    <3>6. registry \cup ({held} \ {None}) = registry
      BY <3>3
    <3>7. Table' = registry
      BY <2>0, <2>4, <3>5, <3>6 DEF Table
    <3>8. Table' \subseteq Service!Mapping
      BY <3>7 DEF RInv, IInv, TypeOK, Forwarder, Service!Mapping
    <3>9. Service!Start
      BY <2>2, <3>1, <3>4, <3>7, <3>8 DEF Service!Start
    <3>. QED
      BY <3>9 DEF Service!Next
  <2>. QED
    BY <2>3, <2>4
<1>11. CASE VMStopped
  BY <1>0, <1>11, NothingMoved DEF VMStopped, Goto, clientVars
<1>. QED
  BY <1>2, <1>3, <1>4, <1>5, <1>6, <1>7, <1>8, <1>9, <1>10, <1>11 DEF MainStep

(* The service stops when the daemon begins to stop, or dies first.        *)
LEMMA StopRefines ==
  ASSUME ~stopping, alive, ~ready' \/ ~alive', Phase' = "stopped",
         UNCHANGED <<req, reply>>,
         \A c \in Clients : pc'[c] = "unlisting" <=> pc[c] = "unlisting"
  PROVE  Service!Stop
<1>1. Phase # "stopped" /\ Table' = {} /\ Pending' = Pending
  BY PendingSame DEF Phase, Table
<1>. QED
  BY <1>1 DEF Service!Stop

LEMMA EndRefines ==
  ASSUME RInv, SigTerm \/ Crash \/ \E t \in {Main, Sig} : CloseStep(t)
  PROVE  Service!Next \/ UNCHANGED Service!vars
<1>0. /\ \A c \in Clients : c # Main /\ c # Sig
      /\ pc \in [Clients \cup {Main, Sig} ->
           {"bind", "register", "publish", "publishing", "published", "run",
            "armed", "close", "closing", "exit", "exited",
            "idle", "waiting", "adding", "removing", "unlisting"}]
  BY RegistryAssumptionHolds DEF RegistryAssumption, RInv, IInv, TypeOK
<1>1. stopping => ~ready
  BY DEF RInv, IInv, Control
<1>2. CASE SigTerm
  BY <1>0, <1>2, NothingMoved DEF SigTerm, Goto, clientVars
<1>3. CASE Crash
  <2>1. alive /\ ~alive' /\ UNCHANGED <<stopping, req, reply, pc>>
    BY <1>3 DEF Crash, clientVars
  <2>2. CASE stopping
    BY <1>1, <2>1, <2>2, OutOfSight DEF Phase
  <2>3. CASE ~stopping
    <3>0. Phase' = "stopped"
      BY <2>1 DEF Phase
    <3>1. Service!Stop
      BY <2>1, <2>3, <3>0, StopRefines
    <3>. QED
      BY <3>1 DEF Service!Next
  <2>. QED
    BY <2>2, <2>3
<1>4. ASSUME NEW t \in {Main, Sig}, BeginClose(t)
      PROVE  Service!Next \/ UNCHANGED Service!vars
  <2>1. /\ alive /\ stopping' /\ ~ready' /\ UNCHANGED <<alive, req, reply>>
        /\ \A c \in Clients : pc'[c] = pc[c]
    BY <1>0, <1>4 DEF BeginClose, Goto, clientVars
  <2>2. CASE stopping
    BY <1>1, <2>1, <2>2, OutOfSight DEF Phase
  <2>3. CASE ~stopping
    <3>0. Phase' = "stopped"
      BY <2>1 DEF Phase
    <3>1. Service!Stop
      BY <2>1, <2>3, <3>0, StopRefines
    <3>. QED
      BY <3>1 DEF Service!Next
  <2>. QED
    BY <2>2, <2>3
<1>5. ASSUME NEW t \in {Main, Sig}, CloseOne(t) \/ EndClose(t) \/ Exit(t)
      PROVE  UNCHANGED Service!vars
  <2>1. pc[t] \in Leaving /\ UNCHANGED <<ready, stopping, req, reply>>
    BY <1>5 DEF CloseOne, EndClose, Exit, Goto, clientVars, Leaving
  <2>2. \A c \in Clients : pc'[c] = pc[c]
    BY <1>0, <1>5 DEF CloseOne, EndClose, Exit, Goto
  <2>3. stopping
    BY <2>1 DEF RInv, IInv, Control
  <2>. QED
    BY <1>1, <2>1, <2>2, <2>3, OutOfSight DEF Phase
<1>. QED
  BY <1>2, <1>3, <1>4, <1>5 DEF CloseStep

-----------------------------------------------------------------------------
(* Requests.                                                               *)

(* Whoever takes the mutex for a request finds the whole table.            *)
LEMMA TakingMutex ==
  ASSUME RInv, NEW c \in Clients, pc[c] = "waiting", alive, mutex = None
  PROVE  /\ req[c] \in Requests /\ Pending[c] = req[c]
         /\ IF ready THEN Phase = "ready" ELSE Phase # "ready"
         /\ ready => Table = registry
         /\ \A n : Service!Named(n) = IF ready THEN Existing(n) ELSE {}
<1>1. req[c] \in Requests /\ (ready => ~stopping)
  BY DEF RInv, IInv, Control
<1>2. mutex \notin Clients
  BY RegistryAssumptionHolds DEF RegistryAssumption
<1>3. ready => Table = registry
  BY <1>2, TableAt DEF RInv
<1>4. ~ready => Table = {}
  BY DEF Table
<1>5. Pending[c] = req[c] /\ IF ready THEN Phase = "ready" ELSE Phase # "ready"
  BY <1>1 DEF Pending, Phase
<1>. QED
  BY <1>1, <1>3, <1>4, <1>5 DEF Service!Named, Existing

(* An answer here is an answer of the service.                             *)
LEMMA Answers ==
  ASSUME RInv, NEW c \in Clients, pc[c] # "idle",
         pc' = [pc EXCEPT ![c] = "idle"], req' = [req EXCEPT ![c] = None],
         alive' = alive, ready' = ready, stopping' = stopping
  PROVE  Pending' = [Pending EXCEPT ![c] = None] /\ Phase' = Phase
<1>1. c \in Clients \cup {Main, Sig} /\ pc \in [Clients \cup {Main, Sig} ->
           {"bind", "register", "publish", "publishing", "published", "run",
            "armed", "close", "closing", "exit", "exited",
            "idle", "waiting", "adding", "removing", "unlisting"}]
      /\ req \in [Clients -> Requests \cup {None}]
  BY DEF RInv, IInv, TypeOK
<1>2. Pending' = [Pending EXCEPT ![c] = None]
  BY <1>1 DEF Pending
<1>. QED
  BY <1>2 DEF Phase

(* A request that is answered on the spot.                                 *)
LEMMA AnswerOnlyRefines ==
  ASSUME RInv, NEW c \in Clients, AnswerOnly(c)
  PROVE  Service!Next
<1>0. /\ alive /\ pc[c] = "waiting" /\ mutex = None /\ ~Effective(req[c])
      /\ pc' = [pc EXCEPT ![c] = "idle"] /\ Answer(c, Verdict(req[c]))
      /\ UNCHANGED <<alive, registry, vmState, ready, stopping, held>>
  BY DEF AnswerOnly, Goto
<1> DEFINE r == req[c]
<1>1. /\ r \in Requests /\ Pending[c] = r
      /\ IF ready THEN Phase = "ready" ELSE Phase # "ready"
      /\ Service!Named(r.name) = IF ready THEN Existing(r.name) ELSE {}
  BY <1>0, TakingMutex
<1>2. Table' = Table
  BY <1>0 DEF Table
<1> DEFINE how == Verdict(r)
<1>3. PICK v : v = how /\ Service!Answer(c, v)
  <2>1. PICK v : v = how
    OBVIOUS
  <2>2. Answer(c, v)
    BY <1>0, <2>1 DEF Answer
  <2>3. Service!Answer(c, v)
    BY <1>0, <2>2, Answers DEF Answer, Service!Answer
  <2>. QED
    BY <2>1, <2>3
<1>4. r.op \in {"add", "remove", "list"}
  BY <1>1, RegistryAssumptionHolds DEF RegistryAssumption, Request
<1>5. CASE ~ready
  <2>1. v = "notReady"
    BY <1>3, <1>5 DEF Verdict
  <2>. QED
    BY <1>1, <1>2, <1>3, <1>5, <2>1 DEF Service!NotReady, Service!Next
<1>6. CASE ready /\ r.op = "list"
  <2>1. v = "ok"
    BY <1>3, <1>6 DEF Verdict
  <2>. QED
    BY <1>1, <1>2, <1>3, <1>6, <2>1 DEF Service!AlreadySo, Service!Asks, Service!Next
<1>7. CASE ready /\ r.op = "remove"
  <2>1. v = "ok"
    BY <1>3, <1>7 DEF Verdict
  <2>2. Existing(r.name) = {}
    BY <1>0, <1>7 DEF Effective
  <2>. QED
    BY <1>1, <1>2, <1>3, <1>7, <2>1, <2>2 DEF Service!AlreadySo, Service!Asks, Service!Next
<1>8. CASE ready /\ r.op = "add"
  <2>1. ~Acceptable(r) \/ Existing(r.name) # {}
    BY <1>0, <1>8 DEF Effective
  <2>2. Service!WellFormed(r) <=> Acceptable(r)
    BY DEF Service!WellFormed, Acceptable, Service!HostIP, HostIP
  <2>3. \A s : Service!SameSettings(s, r) <=> SameSettings(s, r)
    BY DEF Service!SameSettings, SameSettings, Service!HostIP, HostIP
  <2>4. CASE \E f \in Existing(r.name) : Acceptable(r) /\ SameSettings(f, r)
    <3>1. v = "ok"
      BY <1>3, <1>8, <2>4 DEF Verdict
    <3>2. Service!AlreadySo(c)
      BY <1>1, <1>2, <1>3, <1>8, <2>2, <2>3, <2>4, <3>1
         DEF Service!AlreadySo, Service!Asks
    <3>. QED
      BY <3>2 DEF Service!Next
  <2>5. CASE ~\E f \in Existing(r.name) : Acceptable(r) /\ SameSettings(f, r)
    <3>1. v = "rejected"
      BY <1>3, <1>8, <2>5 DEF Verdict
    <3>2. Service!Reject(c)
      BY <1>1, <1>2, <1>3, <1>8, <2>1, <2>2, <2>3, <2>5, <3>1
         DEF Service!Reject, Service!Asks
    <3>. QED
      BY <3>2 DEF Service!Next
  <2>. QED
    BY <2>4, <2>5
<1>. QED
  BY <1>4, <1>5, <1>6, <1>7, <1>8

(* Steps of a client that holds the mutex with a change half made.         *)
LEMMA Halfway ==
  ASSUME RInv, NEW c \in Clients, alive, pc[c] \in Working
  PROVE  /\ ready /\ Phase = "ready" /\ mutex = c
         /\ held \in Forwarder /\ held.name = req[c].name
         /\ req[c] \in Requests
         /\ \A d \in Clients : pc[d] \in Working => d = c
         /\ pc[c] = "adding" => Table = registry \ {held} /\ held \in registry
         /\ pc[c] = "removing" => Table = registry \cup {held}
         /\ pc[c] = "unlisting" => Table = registry
         /\ \A f, g \in registry : f.name = g.name => f = g
         /\ pc[c] # "adding" => \A f \in registry : f.name # held.name
<1>1. ready /\ ~stopping /\ held \in Forwarder /\ held.name = req[c].name
  BY DEF RInv, IInv, Control
<1>2. mutex = c /\ \A d \in Clients : pc[d] \in Working => d = c
  BY DEF RInv, IInv, Control, Threads, Inside
<1>3. req[c] \in Requests
  BY DEF RInv, IInv, Control, Working
<1>4. Phase = "ready"
  BY <1>1 DEF Phase
<1>5. /\ pc[c] = "adding" => Table = registry \ {held}
      /\ pc[c] = "removing" => Table = registry \cup {held}
      /\ pc[c] = "unlisting" => Table = registry
  BY <1>1, TableAt DEF RInv
<1>6. /\ pc[c] = "adding" => held \in registry
      /\ \A f, g \in registry : f.name = g.name => f = g
      /\ pc[c] # "adding" => \A f \in registry : f.name # held.name
  BY DEF RInv, IInv, Sockets, Working
<1>. QED
  BY <1>1, <1>2, <1>3, <1>4, <1>5, <1>6

(* The table after a change is finished.                                   *)
LEMMA TableAfter ==
  ASSUME alive', ready', held' = None, vmState' = States(registry'),
         \A f, g \in registry' : f.name = g.name => f = g
  PROVE  Table' = registry'
<1>1. {f \in registry' : StateOf(f) \in vmState'} = registry'
  BY Selects
<1>2. registry' \cup ({held'} \ {None}) = registry'
  OBVIOUS
<1>. QED
  BY <1>1, <1>2 DEF Table

LEMMA AddBindRefines ==
  ASSUME RInv, NEW c \in Clients, AddBind(c)
  PROVE  UNCHANGED Service!vars
<1>0. /\ alive /\ pc[c] = "waiting" /\ mutex = None /\ ready
      /\ pc' = [pc EXCEPT ![c] = "adding"]
      /\ Acceptable(req[c]) /\ Existing(req[c].name) = {}
      /\ UNCHANGED <<alive, vmState, ready, stopping, req, reply>>
  BY DEF AddBind, Goto, Effective
<1>1. Table = registry /\ req[c] \in Requests
  BY <1>0, TakingMutex
<1>2. PICK f \in NewForwarder(req[c].name, HostIP(req[c]), req[c].port, req[c].guest) :
        held' = f /\ registry' = Put(registry, f)
  BY DEF AddBind
<1>3. f \in Forwarder /\ f.name = req[c].name
  BY <1>0, <1>1, <1>2, BoundForAdd
<1>4. registry' = registry \cup {f} /\ \A g \in registry : g.name # f.name
  BY <1>0, <1>2, <1>3 DEF Put, Existing
<1>5. \A g, h \in registry' : g.name = h.name => g = h
  BY <1>4 DEF RInv, IInv, Sockets
<1>6. {g \in registry' : StateOf(g) \in States(registry)} = registry
  BY <1>4, <1>5, Selects
<1>7. vmState' = States(registry)
  BY <1>0, RegistryAssumptionHolds DEF RegistryAssumption, RInv, IInv, Publication
<1>8. registry' \cup ({held'} \ {None}) = registry'
  BY <1>2, <1>4
<1>9. Table' = registry
  BY <1>0, <1>6, <1>7, <1>8 DEF Table
<1>10. Pending' = Pending
  BY <1>0, PendingSame, RegistryAssumptionHolds DEF RegistryAssumption, RInv, IInv, TypeOK
<1>11. Phase' = Phase
  BY <1>0 DEF Phase
<1>. QED
  BY <1>0, <1>1, <1>9, <1>10, <1>11 DEF Service!vars

LEMMA RemoveDeleteRefines ==
  ASSUME RInv, NEW c \in Clients, RemoveDelete(c)
  PROVE  UNCHANGED Service!vars
<1>0. /\ alive /\ pc[c] = "waiting" /\ mutex = None /\ ready
      /\ pc' = [pc EXCEPT ![c] = "removing"]
      /\ registry' = Drop(registry, req[c].name)
      /\ UNCHANGED <<alive, vmState, ready, stopping, req, reply>>
  BY DEF RemoveDelete, Goto, Effective
<1>1. Table = registry
  BY <1>0, TakingMutex
<1>2. held' \in registry /\ held'.name = req[c].name
  BY DEF RemoveDelete, Existing
<1>3. \A g, h \in registry : g.name = h.name => g = h
  BY DEF RInv, IInv, Sockets
<1>4. registry' \cup {held'} = registry
  BY <1>0, <1>2, <1>3 DEF Drop
<1>5. {g \in registry : StateOf(g) \in States(registry)} = registry
  BY <1>3, Selects
<1>6. vmState' = States(registry) /\ held' # None
  BY <1>0, <1>2, RegistryAssumptionHolds
     DEF RegistryAssumption, RInv, IInv, Publication, TypeOK
<1>7. registry' \cup ({held'} \ {None}) = registry
  BY <1>4, <1>6
<1>8. Table' = registry
  BY <1>0, <1>5, <1>6, <1>7 DEF Table
<1>9. Pending' = Pending
  BY <1>0, PendingSame, RegistryAssumptionHolds DEF RegistryAssumption, RInv, IInv, TypeOK
<1>10. Phase' = Phase
  BY <1>0 DEF Phase
<1>. QED
  BY <1>0, <1>1, <1>8, <1>9, <1>10 DEF Service!vars

LEMMA AddBindFailsRefines ==
  ASSUME RInv, NEW c \in Clients, AddBindFails(c)
  PROVE  Service!Failed(c)
<1>0. /\ alive /\ pc[c] = "waiting" /\ mutex = None /\ ready
      /\ pc' = [pc EXCEPT ![c] = "idle"] /\ Answer(c, "bindFailed")
      /\ req[c].op = "add" /\ Acceptable(req[c]) /\ Existing(req[c].name) = {}
      /\ UNCHANGED <<alive, registry, vmState, ready, stopping, held>>
  BY DEF AddBindFails, Goto, Effective
<1>1. /\ req[c] \in Requests /\ Pending[c] = req[c] /\ Phase = "ready"
      /\ Service!Named(req[c].name) = {}
  BY <1>0, TakingMutex
<1>2. Table' = Table
  BY <1>0 DEF Table
<1>3. Service!Answer(c, "bindFailed")
  BY <1>0, Answers DEF Answer, Service!Answer
<1>4. Service!AsksNew(c)
  BY <1>0, <1>1 DEF Service!AsksNew, Service!Asks, Service!WellFormed, Acceptable,
     Service!HostIP, HostIP
<1>. QED
  BY <1>2, <1>3, <1>4 DEF Service!Failed

-----------------------------------------------------------------------------
(* Steps that finish a change.                                             *)

LEMMA AddSaveRefines ==
  ASSUME RInv, NEW c \in Clients, AddSave(c)
  PROVE  Service!Add(c)
<1>0. /\ alive /\ pc[c] = "adding"
      /\ pc' = [pc EXCEPT ![c] = "idle"] /\ Answer(c, "ok")
      /\ vmState' = States(registry) /\ held' = None
      /\ UNCHANGED <<alive, registry, ready, stopping>>
  BY DEF AddSave, Goto
<1>1. /\ ready /\ Phase = "ready" /\ held \in Forwarder /\ held.name = req[c].name
      /\ req[c] \in Requests /\ Table = registry \ {held} /\ held \in registry
      /\ \A f, g \in registry : f.name = g.name => f = g
  BY <1>0, Halfway DEF Working
<1>2. Table' = registry
  BY <1>0, <1>1, TableAfter
<1>3. Service!Answer(c, "ok")
  BY <1>0, Answers DEF Answer, Service!Answer
<1>4. req[c].op = "add" /\ Acceptable(req[c]) /\ Meets(held, req[c])
  BY <1>0 DEF RInv, Purpose
<1>5. Pending[c] = req[c]
  BY <1>0 DEF Pending
<1>6. Service!Named(req[c].name) = {}
  BY <1>1 DEF Service!Named
<1>7. Service!AsksNew(c)
  BY <1>1, <1>4, <1>5, <1>6 DEF Service!AsksNew, Service!Asks, Service!WellFormed,
     Acceptable, Service!HostIP, HostIP
<1>8. Service!SameSettings(held, req[c]) /\ held.req \in {0, held.port}
  BY <1>4 DEF Meets, Service!SameSettings, Service!HostIP, HostIP
<1>9. held \in Service!Mapping /\ Table' = Table \cup {held}
  BY <1>1, <1>2 DEF Service!Mapping, Forwarder
<1>. QED
  BY <1>1, <1>3, <1>5, <1>7, <1>8, <1>9 DEF Service!Add

LEMMA AddSaveFailsRefines ==
  ASSUME RInv, NEW c \in Clients, AddSaveFails(c)
  PROVE  Service!Failed(c)
<1>0. /\ alive /\ pc[c] = "adding"
      /\ pc' = [pc EXCEPT ![c] = "idle"] /\ Answer(c, "saveFailed")
      /\ registry' = Drop(registry, req[c].name) /\ held' = None
      /\ UNCHANGED <<alive, vmState, ready, stopping>>
  BY DEF AddSaveFails, Goto
<1>1. /\ ready /\ Phase = "ready" /\ held.name = req[c].name
      /\ req[c] \in Requests /\ Table = registry \ {held} /\ held \in registry
      /\ \A f, g \in registry : f.name = g.name => f = g
  BY <1>0, Halfway DEF Working
<1>2. registry' = registry \ {held}
  BY <1>0, <1>1 DEF Drop
<1>3. vmState' = States(registry')
  BY <1>0, <1>1, <1>2 DEF RInv, IInv, Publication
<1>4. Table' = Table
  BY <1>0, <1>1, <1>2, <1>3, TableAfter
<1>5. Service!Answer(c, "saveFailed")
  BY <1>0, Answers DEF Answer, Service!Answer
<1>6. req[c].op = "add" /\ Acceptable(req[c]) /\ Pending[c] = req[c]
  BY <1>0 DEF RInv, Purpose, Pending
<1>7. Service!Named(req[c].name) = {}
  BY <1>1 DEF Service!Named
<1>8. Service!AsksNew(c)
  BY <1>1, <1>6, <1>7 DEF Service!AsksNew, Service!Asks, Service!WellFormed,
     Acceptable, Service!HostIP, HostIP
<1>. QED
  BY <1>4, <1>5, <1>8 DEF Service!Failed

(* What a client that removes asks for is there, and is what it holds.     *)
LEMMA Removing ==
  ASSUME RInv, NEW c \in Clients, alive, pc[c] = "removing"
  PROVE  /\ Service!AsksAway(c)
         /\ Table = registry \cup {held}
         /\ Service!Named(Pending[c].name) = {held}
<1>1. /\ Phase = "ready" /\ held.name = req[c].name
      /\ req[c] \in Requests /\ Table = registry \cup {held}
      /\ \A f \in registry : f.name # held.name
  BY Halfway DEF Working
<1>2. req[c].op = "remove" /\ Pending[c] = req[c]
  BY DEF RInv, Purpose, Pending
<1>3. Service!Named(Pending[c].name) = {held}
  BY <1>1, <1>2 DEF Service!Named
<1>. QED
  BY <1>1, <1>2, <1>3 DEF Service!AsksAway, Service!Asks

LEMMA RemoveSaveRefines ==
  ASSUME RInv, NEW c \in Clients, RemoveSave(c)
  PROVE  Service!Unlist(c)
<1>0. /\ alive /\ pc[c] = "removing" /\ vmState' = States(registry)
      /\ pc' = [pc EXCEPT ![c] = "unlisting"]
      /\ UNCHANGED <<alive, registry, ready, stopping, req, held, reply>>
  BY DEF RemoveSave, Goto, clientVars
<1>1. /\ ready /\ held \in Forwarder
      /\ \A f, g \in registry : f.name = g.name => f = g
      /\ \A f \in registry : f.name # held.name
  BY <1>0, Halfway DEF Working
<1>2. /\ Service!AsksAway(c) /\ Table = registry \cup {held}
      /\ Service!Named(Pending[c].name) = {held}
  BY <1>0, Removing
<1>3. \A f, g \in registry \cup {held} : f.name = g.name => f = g
  BY <1>1
<1>4. {f \in registry \cup {held} : StateOf(f) \in States(registry)} = registry
  BY <1>3, Selects
<1>5. registry \cup ({held} \ {None}) = registry \cup {held}
  BY <1>1, RegistryAssumptionHolds DEF RegistryAssumption
<1>6. Table' = registry
  BY <1>0, <1>1, <1>4, <1>5 DEF Table
<1>7. registry = (registry \cup {held}) \ {held}
  BY <1>1
<1>8. Pending' = [Pending EXCEPT ![c] = Unlisted]
  BY <1>0, RegistryAssumptionHolds DEF RegistryAssumption, Pending, RInv, IInv, TypeOK
<1>9. Phase' = Phase
  BY <1>0 DEF Phase
<1>. QED
  BY <1>0, <1>2, <1>6, <1>7, <1>8, <1>9 DEF Service!Unlist

LEMMA RemoveSaveFailsRefines ==
  ASSUME RInv, NEW c \in Clients, RemoveSaveFails(c)
  PROVE  Service!Failed(c)
<1>0. /\ alive /\ pc[c] = "removing"
      /\ pc' = [pc EXCEPT ![c] = "idle"] /\ Answer(c, "saveFailed")
      /\ registry' = Put(registry, held) /\ held' = None
      /\ UNCHANGED <<alive, vmState, ready, stopping>>
  BY DEF RemoveSaveFails, Goto
<1>1. /\ ready
      /\ \A f, g \in registry : f.name = g.name => f = g
      /\ \A f \in registry : f.name # held.name
  BY <1>0, Halfway DEF Working
<1>2. Service!AsksAway(c) /\ Table = registry \cup {held}
  BY <1>0, Removing
<1>3. registry' = registry \cup {held}
  BY <1>0, <1>1 DEF Put
<1>4. vmState' = States(registry')
  BY <1>0, <1>1, <1>3 DEF RInv, IInv, Publication
<1>5. \A f, g \in registry' : f.name = g.name => f = g
  BY <1>1, <1>3
<1>6. Table' = Table
  BY <1>0, <1>1, <1>2, <1>3, <1>4, <1>5, TableAfter
<1>7. Service!Answer(c, "saveFailed")
  BY <1>0, Answers DEF Answer, Service!Answer
<1>. QED
  BY <1>2, <1>6, <1>7 DEF Service!Failed

LEMMA RemoveCloseRefines ==
  ASSUME RInv, NEW c \in Clients, RemoveClose(c)
  PROVE  Service!Removed(c)
<1>0. /\ alive /\ pc[c] = "unlisting" /\ pc' = [pc EXCEPT ![c] = "idle"]
      /\ held' = None
      /\ UNCHANGED <<alive, registry, vmState, ready, stopping>>
  BY DEF RemoveClose, Goto
<1>1. /\ ready /\ Table = registry
      /\ \A f, g \in registry : f.name = g.name => f = g
  BY <1>0, Halfway DEF Working
<1>2. vmState' = States(registry')
  BY <1>0, <1>1 DEF RInv, IInv, Publication
<1>3. Table' = Table
  BY <1>0, <1>1, <1>2, TableAfter
<1>4. PICK how \in {"ok", "closeFailed"} : Answer(c, how)
  BY DEF RemoveClose
<1>5. Service!Answer(c, how)
  BY <1>0, <1>4, Answers DEF Answer, Service!Answer
<1>6. Pending[c] = Unlisted
  BY <1>0 DEF Pending
<1>. QED
  BY <1>3, <1>4, <1>5, <1>6 DEF Service!Removed

-----------------------------------------------------------------------------
LEMMA ReceiveRefines ==
  ASSUME RInv, NEW c \in Clients, NEW r \in Requests, Receive(c, r)
  PROVE  Service!Submit(c, r)
<1>0. /\ pc[c] = "idle" /\ pc' = [pc EXCEPT ![c] = "waiting"]
      /\ req' = [req EXCEPT ![c] = r] /\ reply' = [reply EXCEPT ![c] = "none"]
      /\ UNCHANGED <<alive, registry, vmState, ready, stopping, held>>
  BY DEF Receive, Goto
<1>1. Pending[c] = None
  BY <1>0 DEF RInv, Purpose, Pending
<1>2. Pending' = [Pending EXCEPT ![c] = r]
  BY <1>0 DEF Pending, RInv, IInv, TypeOK
<1>3. Phase' = Phase /\ Table' = Table
  BY <1>0 DEF Phase, Table
<1>. QED
  BY <1>0, <1>1, <1>2, <1>3 DEF Service!Submit

LEMMA ClientRefines ==
  ASSUME RInv, NEW c \in Clients, ClientStep(c)
  PROVE  Service!Next \/ UNCHANGED Service!vars
<1>1. CASE AnswerOnly(c)
  BY <1>1, AnswerOnlyRefines
<1>2. CASE AddBind(c)
  BY <1>2, AddBindRefines
<1>3. CASE AddBindFails(c)
  BY <1>3, AddBindFailsRefines DEF Service!Next
<1>4. CASE AddSave(c)
  BY <1>4, AddSaveRefines DEF Service!Next
<1>5. CASE AddSaveFails(c)
  BY <1>5, AddSaveFailsRefines DEF Service!Next
<1>6. CASE RemoveDelete(c)
  BY <1>6, RemoveDeleteRefines
<1>7. CASE RemoveSave(c)
  BY <1>7, RemoveSaveRefines DEF Service!Next
<1>8. CASE RemoveSaveFails(c)
  BY <1>8, RemoveSaveFailsRefines DEF Service!Next
<1>9. CASE RemoveClose(c)
  BY <1>9, RemoveCloseRefines DEF Service!Next
<1>. QED
  BY <1>1, <1>2, <1>3, <1>4, <1>5, <1>6, <1>7, <1>8, <1>9 DEF ClientStep

(* Every behaviour of the registry is one of the service: whatever clients,*)
(* start-up, SIGTERM and a crash do to each other, every request takes     *)
(* effect, or is refused for a reason that holds, at one instant between   *)
(* its arrival and its answer.                                             *)
THEOREM Implements == Spec => ServiceSpec
<1>1. Init => Service!Init
  <2>1. ASSUME Init
        PROVE  /\ alive /\ ~ready /\ ~stopping
               /\ req = [c \in Clients |-> None] /\ reply = [c \in Clients |-> "none"]
               /\ \A c \in Clients : pc[c] = "idle"
    BY <2>1, RegistryAssumptionHolds DEF RegistryAssumption, Init
  <2>2. ASSUME Init PROVE Phase = "starting" /\ Table = {}
    BY <2>1, <2>2 DEF Phase, Table
  <2>3. ASSUME Init PROVE Pending = [c \in Clients |-> None]
    BY <2>1, <2>3 DEF Pending
  <2>. QED
    BY <2>1, <2>2, <2>3 DEF Service!Init
<1>2. ASSUME RInv, [Next]_vars PROVE Service!Next \/ UNCHANGED Service!vars
  <2>1. CASE MainStep
    BY <1>2, <2>1, MainRefines
  <2>2. CASE SigTerm \/ Crash \/ \E t \in {Main, Sig} : CloseStep(t)
    BY <1>2, <2>2, EndRefines
  <2>3. ASSUME NEW c \in Clients, ClientStep(c)
        PROVE  Service!Next \/ UNCHANGED Service!vars
    BY <1>2, <2>3, ClientRefines
  <2>4. ASSUME NEW c \in Clients, NEW r \in Requests, Receive(c, r)
        PROVE  Service!Next
    <3>1. Service!Submit(c, r)
      BY <1>2, <2>4, ReceiveRefines
    <3>. QED
      BY <3>1 DEF Service!Next
  <2>5. CASE UNCHANGED vars
    BY <2>5, NothingMoved DEF vars
  <2>. QED
    BY <1>2, <2>1, <2>2, <2>3, <2>4, <2>5 DEF Next, Gone
<1>3. RInv /\ [Next]_vars => [Service!Next]_(Service!vars)
  BY <1>2
<1>. QED
  BY <1>1, <1>3, RefinementInvariance, PTL DEF ServiceSpec, Service!Spec, Spec

-----------------------------------------------------------------------------
(* A forwarder that was asked for a port has it.                           *)
Forwarders == registry \cup ({fresh, held} \ {None})
PortKept == \A f \in Forwarders : f.req \in {0, f.port}

LEMMA PortKeptStep ==
  ASSUME TypeOK, Control, PortKept, [Next]_vars
  PROVE  PortKept'
<1>0. /\ fresh # None => fresh \in Forwarders
      /\ held # None => held \in Forwarders
      /\ registry \subseteq Forwarders
  BY DEF Forwarders
<1>1. ASSUME \A f \in Forwarders' : f \in Forwarders \/ f.req \in {0, f.port}
      PROVE  PortKept'
  BY <1>1 DEF PortKept
<1>2. CASE BindSpec
  <2>1. PICK f \in NewForwarder(StartSpecs[next].name, DefaultIP,
                               StartSpecs[next].req, StartSpecs[next].guest) :
          fresh' = f
    BY <1>2 DEF BindSpec
  <2>2. f.req \in {0, f.port}
    BY DEF NewForwarder, BindChoices
  <2>3. registry' = registry /\ held' = held
    BY <1>2 DEF BindSpec, clientVars
  <2>. QED
    BY <1>1, <2>1, <2>2, <2>3 DEF Forwarders
<1>3. CASE RegisterSpec
  <2>1. fresh # None
    BY <1>3 DEF RegisterSpec, Goto, Control
  <2>2. fresh' = None /\ held' = held /\ registry' \subseteq registry \cup {fresh}
    BY <1>3 DEF RegisterSpec, Put, clientVars
  <2>. QED
    BY <1>1, <2>1, <2>2 DEF Forwarders
<1>4. ASSUME NEW c \in Clients, AddBind(c) PROVE PortKept'
  <2>1. PICK f \in NewForwarder(req[c].name, HostIP(req[c]), req[c].port, req[c].guest) :
          held' = f /\ registry' = Put(registry, f)
    BY <1>4 DEF AddBind
  <2>2. f.req \in {0, f.port}
    BY DEF NewForwarder, BindChoices
  <2>3. registry' \subseteq registry \cup {f} /\ fresh' = fresh
    BY <1>4, <2>1 DEF AddBind, Put, mainVars
  <2>. QED
    BY <1>1, <2>1, <2>2, <2>3 DEF Forwarders
<1>5. ASSUME NEW c \in Clients, RemoveDelete(c) PROVE PortKept'
  <2>1. held' \in registry /\ registry' \subseteq registry /\ fresh' = fresh
    BY <1>5 DEF RemoveDelete, Existing, Drop, mainVars
  <2>. QED
    BY <1>1, <2>1 DEF Forwarders
<1>6. ASSUME NEW c \in Clients, RemoveSaveFails(c) PROVE PortKept'
  <2>1. held # None
    BY <1>6, RegistryAssumptionHolds
       DEF RegistryAssumption, RemoveSaveFails, Goto, Control, Working
  <2>2. held' = None /\ registry' \subseteq registry \cup {held} /\ fresh' = fresh
    BY <1>6 DEF RemoveSaveFails, Put, mainVars
  <2>. QED
    BY <1>1, <2>1, <2>2 DEF Forwarders
<1>7. ASSUME fresh' = fresh, held' \in {held, None}, registry' \subseteq registry
      PROVE  PortKept'
  BY <1>1, <1>7 DEF Forwarders
<1>8. CASE \/ BindSpecFails \/ SSHReady \/ SSHTimeout \/ LockToPublish
           \/ WriteArtifacts \/ WriteArtifactsFails \/ SetReady \/ VMStopped
           \/ SigTerm \/ Crash \/ UNCHANGED vars
  BY <1>7, <1>8 DEF BindSpecFails, SSHReady, SSHTimeout, LockToPublish, WriteArtifacts,
     WriteArtifactsFails, SetReady, VMStopped, SigTerm, Crash, mainVars, clientVars, vars
<1>9. ASSUME NEW t \in {Main, Sig}, CloseStep(t) PROVE PortKept'
  BY <1>7, <1>9 DEF CloseStep, BeginClose, CloseOne, EndClose, Exit, mainVars, clientVars
<1>10. ASSUME NEW c \in Clients,
              \/ AnswerOnly(c) \/ AddBindFails(c) \/ AddSave(c) \/ AddSaveFails(c)
              \/ RemoveSave(c) \/ RemoveClose(c)
       PROVE  PortKept'
  BY <1>7, <1>10 DEF AnswerOnly, AddBindFails, AddSave, AddSaveFails, RemoveSave,
     RemoveClose, Drop, mainVars, clientVars
<1>11. ASSUME NEW c \in Clients, NEW r \in Requests, Receive(c, r) PROVE PortKept'
  BY <1>7, <1>11 DEF Receive, mainVars
<1>. QED
  BY <1>2, <1>3, <1>4, <1>5, <1>6, <1>8, <1>9, <1>10, <1>11
     DEF Next, MainStep, ClientStep, Gone

(* The steps that answer a client.                                         *)
LEMMA WhoAnswers ==
  ASSUME TypeOK, Next, NEW c \in Clients, pc[c] # "idle", pc'[c] = "idle"
  PROVE  \/ AnswerOnly(c) \/ AddBindFails(c) \/ AddSave(c) \/ AddSaveFails(c)
         \/ RemoveSaveFails(c) \/ RemoveClose(c)
<1>0. c # Main /\ c # Sig /\ DOMAIN pc = Clients \cup {Main, Sig}
  BY RegistryAssumptionHolds DEF RegistryAssumption, TypeOK
<1>1. ASSUME MainStep \/ SigTerm \/ Crash \/ Gone PROVE FALSE
  BY <1>0, <1>1 DEF MainStep, BindSpec, BindSpecFails, RegisterSpec, SSHReady,
     SSHTimeout, LockToPublish, WriteArtifacts, WriteArtifactsFails, SetReady,
     VMStopped, SigTerm, Crash, Gone, Goto, vars
<1>2. ASSUME NEW t \in {Main, Sig}, CloseStep(t) PROVE FALSE
  BY <1>0, <1>2 DEF CloseStep, BeginClose, CloseOne, EndClose, Exit, Goto
<1>3. ASSUME NEW d \in Clients, NEW r \in Requests, Receive(d, r) PROVE FALSE
  BY <1>0, <1>3 DEF Receive, Goto
<1>4. ASSUME NEW d \in Clients \ {c}, ClientStep(d) PROVE FALSE
  BY <1>0, <1>4 DEF ClientStep, AnswerOnly, AddBind, AddBindFails, AddSave,
     AddSaveFails, RemoveDelete, RemoveSave, RemoveSaveFails, RemoveClose, Goto
<1>5. ~AddBind(c) /\ ~RemoveDelete(c) /\ ~RemoveSave(c)
  BY <1>0 DEF AddBind, RemoveDelete, RemoveSave, Goto
<1>. QED
  BY <1>1, <1>2, <1>3, <1>4, <1>5 DEF Next, ClientStep

(* A forwarder with the settings that were asked for is listed and listens.*)
LEMMA Granted ==
  ASSUME NEW c \in Clients, NEW f \in registry', f.name = req[c].name,
         \A g, h \in registry' : g.name = h.name => g = h,
         vmState' = States(registry'), listening' = registry',
         f.guest = req[c].guest, f.ip = HostIP(req[c]), f.req = req[c].port,
         f.req \in {0, f.port}, req[c].op = "add", reply'[c] = "ok"
  PROVE  Truthful(c)
<1> DEFINE shown == {s \in vmState' : s.name = req[c].name}
           open == {g \in listening' : g.name = req[c].name}
<1>1. open = {f}
  OBVIOUS
<1>2. States(open) = {StateOf(f)} /\ States(open) = shown
  <2>1. States({f}) = {StateOf(f)}
    BY DEF States
  <2>2. States({g \in registry' : g.name = req[c].name})
        = {s \in States(registry') : s.name = req[c].name}
    BY DEF States, StateOf
  <2>. QED
    BY <1>1, <2>1, <2>2
<1>3. /\ StateOf(f) \in shown
      /\ StateOf(f).guest = req[c].guest /\ StateOf(f).ip = HostIP(req[c])
      /\ req[c].port \in {0, StateOf(f).port}
  BY <1>2 DEF StateOf
<1>4. \E s \in shown :
        /\ s.guest = req[c].guest /\ s.ip = HostIP(req[c])
        /\ req[c].port \in {0, s.port}
        /\ States(open) = {s}
  BY <1>2, <1>3
<1>. QED
  BY <1>4 DEF Truthful

(* Nothing of the name is left.                                            *)
LEMMA Withdrawn ==
  ASSUME NEW c \in Clients, \A f \in registry' : f.name # req[c].name,
         vmState' = States(registry'), listening' = registry',
         req[c].op = "remove", reply'[c] # "saveFailed"
  PROVE  Truthful(c)
<1>1. {f \in registry' : f.name = req[c].name} = {}
  OBVIOUS
<1>2. {s \in States(registry') : s.name = req[c].name} = {}
  BY <1>1 DEF States, StateOf
<1>. QED
  BY <1>1, <1>2 DEF Truthful

(* What a client is told is so at that moment.                             *)
THEOREM AnswersHonest == Spec => AnswersTrue
<1>1. Init => PortKept
  BY DEF Init, PortKept, Forwarders
<1>2. IInv /\ PortKept /\ [Next]_vars => PortKept'
  BY PortKeptStep DEF IInv
<1> DEFINE Honest == \A c \in Clients : pc[c] # "idle" /\ pc'[c] = "idle" => Truthful(c)
<1>3. RInv /\ PortKept /\ IInv' /\ Quiescent' /\ [Next]_vars => [Honest]_vars
  <2> SUFFICES ASSUME RInv, PortKept, IInv', Quiescent', Next,
                      NEW c \in Clients, pc[c] # "idle", pc'[c] = "idle"
               PROVE  Truthful(c)
    OBVIOUS
  <2>1. \/ AnswerOnly(c) \/ AddBindFails(c) \/ AddSave(c) \/ AddSaveFails(c)
        \/ RemoveSaveFails(c) \/ RemoveClose(c)
    BY WhoAnswers DEF RInv, IInv
  <2>2. alive' /\ ready' = ready /\ mutex' = None
    BY <2>1 DEF AnswerOnly, AddBindFails, AddSave, AddSaveFails, RemoveSaveFails,
       RemoveClose, Goto
  <2>3. ready => vmState' = States(registry') /\ listening' = registry'
    BY <2>2 DEF Quiescent
  <2>4. \A f, g \in registry' : f.name = g.name => f = g
    BY DEF IInv, Sockets
  <2>5. \A e \in Clients : pc[e] \in Working => ready
    BY DEF RInv, IInv, Control
  <2>6. reply \in [Clients -> {"none", "ok", "notReady", "rejected", "bindFailed",
                              "saveFailed", "closeFailed"}]
    BY DEF RInv, IInv, TypeOK
  <2>7. CASE AnswerOnly(c)
    <3>1. /\ reply'[c] = Verdict(req[c]) /\ registry' = registry /\ ~Effective(req[c])
          /\ pc[c] = "waiting"
      BY <2>6, <2>7 DEF AnswerOnly, Answer, Goto
    <3>2. req[c] \in Requests /\ req[c].op \in {"add", "remove", "list"}
      BY <3>1, RegistryAssumptionHolds DEF RegistryAssumption, Request, RInv, IInv, Control
    <3>3. CASE ~ready
      <4>1. reply'[c] = "notReady"
        BY <3>1, <3>2, <3>3 DEF Verdict
      <4>. QED
        BY <4>1 DEF Truthful
    <3>4. CASE ready /\ req[c].op = "list"
      <4>1. reply'[c] = "ok"
        BY <3>1, <3>4 DEF Verdict
      <4>. QED
        BY <3>4, <4>1 DEF Truthful
    <3>5. CASE ready /\ req[c].op = "remove"
      <4>1. reply'[c] = "ok" /\ Existing(req[c].name) = {}
        BY <3>1, <3>5 DEF Verdict, Effective
      <4>2. \A f \in registry' : f.name # req[c].name
        BY <3>1, <4>1 DEF Existing
      <4>. QED
        BY <2>3, <3>5, <4>1, <4>2, Withdrawn
    <3>6. CASE /\ ready /\ req[c].op = "add"
               /\ \E f \in Existing(req[c].name) :
                    Acceptable(req[c]) /\ SameSettings(f, req[c])
      <4>1. PICK f \in Existing(req[c].name) :
              Acceptable(req[c]) /\ SameSettings(f, req[c])
        BY <3>6
      <4>2. reply'[c] = "ok"
        BY <3>1, <3>6 DEF Verdict
      <4>3. f \in registry' /\ f.name = req[c].name /\ f.req \in {0, f.port}
        BY <3>1 DEF Existing, PortKept, Forwarders
      <4>. QED
        BY <2>3, <2>4, <3>6, <4>1, <4>2, <4>3, Granted DEF SameSettings
    <3>7. CASE /\ ready /\ req[c].op = "add"
               /\ ~\E f \in Existing(req[c].name) :
                     Acceptable(req[c]) /\ SameSettings(f, req[c])
      <4>1. reply'[c] = "rejected"
        BY <3>1, <3>7 DEF Verdict
      <4>. QED
        BY <4>1 DEF Truthful
    <3>. QED
      BY <3>2, <3>3, <3>4, <3>5, <3>6, <3>7
  <2>8. CASE AddBindFails(c)
    <3>1. reply'[c] = "bindFailed"
      BY <2>6, <2>8 DEF AddBindFails, Answer
    <3>. QED
      BY <3>1 DEF Truthful
  <2>9. CASE AddSave(c)
    <3>1. reply'[c] = "ok" /\ registry' = registry /\ pc[c] = "adding"
      BY <2>6, <2>9 DEF AddSave, Answer, Goto
    <3>2. /\ held \in registry /\ held.name = req[c].name /\ ready
          /\ req[c].op = "add" /\ Meets(held, req[c])
      BY <2>5, <3>1 DEF RInv, IInv, Control, Sockets, Purpose, Working
    <3>. QED
      BY <2>3, <2>4, <3>1, <3>2, Granted DEF Meets
  <2>10. CASE AddSaveFails(c) \/ RemoveSaveFails(c)
    <3>1. reply'[c] = "saveFailed" /\ ready
      BY <2>5, <2>6, <2>10 DEF AddSaveFails, RemoveSaveFails, Answer, Goto, Working
    <3>2. States({f \in listening' : f.name = req[c].name})
          = {s \in vmState' : s.name = req[c].name}
      <4>1. States({f \in registry' : f.name = req[c].name})
            = {s \in States(registry') : s.name = req[c].name}
        BY DEF States, StateOf
      <4>. QED
        BY <2>3, <3>1, <4>1
    <3>. QED
      BY <3>1, <3>2 DEF Truthful
  <2>11. CASE RemoveClose(c)
    <3>1. /\ reply'[c] \in {"ok", "closeFailed"} /\ registry' = registry
          /\ pc[c] = "unlisting"
      BY <2>6, <2>11 DEF RemoveClose, Answer, Goto
    <3>2. /\ held.name = req[c].name /\ ready /\ req[c].op = "remove"
          /\ \A f \in registry : f.name # held.name
      BY <2>5, <3>1 DEF RInv, IInv, Control, Sockets, Purpose, Working
    <3>. QED
      BY <2>3, <3>1, <3>2, Withdrawn
  <2>. QED
    BY <2>1, <2>7, <2>8, <2>9, <2>10, <2>11
<1>. QED
  BY <1>1, <1>2, <1>3, RefinementInvariance, Invariance, Agreement, PTL
     DEF Spec, RInv, AnswersTrue
=============================================================================
