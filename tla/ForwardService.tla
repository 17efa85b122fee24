---------------------------- MODULE ForwardService ----------------------------
(***************************************************************************)
(* What `launcher forward` promises, without mutex, sockets or files: a    *)
(* table of forwards that exists between the end of the start and the stop.*)
(* Each request takes effect at one instant between its submission and its *)
(* answer, on its own name only, or is refused for a reason that holds at  *)
(* that instant.  Asking again for what is so succeeds; asking for other   *)
(* settings of a name in use is refused.                                   *)
(***************************************************************************)
EXTENDS Naturals

CONSTANTS
  Names, MaxPort, LoopbackIPs, DefaultIP, Clients, Requests,
  Unlisted,  \* a remove that has taken effect and is not answered yet
  None

VARIABLES
  phase,    \* "starting", "ready" or "stopped"
  table,    \* the forwards in effect
  pending,  \* the request of each client
  reply     \* the answer to its last request

vars == <<phase, table, pending, reply>>

(* req is the port asked for, 0 to let the system choose port.             *)
Mapping ==
  [name: Names, ip: LoopbackIPs, req: 0..MaxPort, port: 1..MaxPort,
   guest: 1..MaxPort]

HostIP(r) == IF r.ip = None THEN DefaultIP ELSE r.ip
Named(n) == {s \in table : s.name = n}

WellFormed(r) ==
  r.guest \in 1..MaxPort /\ r.port \in 0..MaxPort /\ HostIP(r) \in LoopbackIPs

SameSettings(s, r) ==
  s.guest = r.guest /\ s.req = r.port /\ s.ip = HostIP(r)

Init ==
  /\ phase = "starting"
  /\ table = {}
  /\ pending = [c \in Clients |-> None]
  /\ reply = [c \in Clients |-> "none"]

(* The start succeeded, with these mappings.                               *)
Start ==
  /\ phase = "starting"
  /\ phase' = "ready"
  /\ table' \in SUBSET Mapping
  /\ \A s, t \in table' : s.name = t.name => s = t
  /\ UNCHANGED <<pending, reply>>

Stop ==
  /\ phase # "stopped"
  /\ phase' = "stopped"
  /\ table' = {}
  /\ UNCHANGED <<pending, reply>>

Submit(c, r) ==
  /\ pending[c] = None
  /\ pending' = [pending EXCEPT ![c] = r]
  /\ reply' = [reply EXCEPT ![c] = "none"]
  /\ UNCHANGED <<phase, table>>

Answer(c, how) ==
  /\ pending' = [pending EXCEPT ![c] = None]
  /\ reply' = [reply EXCEPT ![c] = how]
  /\ UNCHANGED phase

Asks(c, op) ==
  /\ phase = "ready"
  /\ pending[c] \in Requests
  /\ pending[c].op = op

(* An add that has something to add.                                       *)
AsksNew(c) ==
  /\ Asks(c, "add")
  /\ WellFormed(pending[c])
  /\ Named(pending[c].name) = {}

(* A remove that has something to remove.                                  *)
AsksAway(c) == Asks(c, "remove") /\ Named(pending[c].name) # {}

Add(c) ==
  /\ AsksNew(c)
  /\ \E s \in Mapping :
       /\ s.name = pending[c].name /\ SameSettings(s, pending[c])
       /\ s.req \in {0, s.port}
       /\ table' = table \cup {s}
  /\ Answer(c, "ok")

Unlist(c) ==
  /\ AsksAway(c)
  /\ table' = table \ Named(pending[c].name)
  /\ pending' = [pending EXCEPT ![c] = Unlisted]
  /\ UNCHANGED <<phase, reply>>

Removed(c) ==
  /\ pending[c] = Unlisted
  /\ \E how \in {"ok", "closeFailed"} : Answer(c, how)
  /\ UNCHANGED table

(* A request whose wish is already the case succeeds.                      *)
AlreadySo(c) ==
  /\ \/ Asks(c, "list")
     \/ Asks(c, "remove") /\ Named(pending[c].name) = {}
     \/ /\ Asks(c, "add") /\ WellFormed(pending[c])
        /\ \E s \in Named(pending[c].name) : SameSettings(s, pending[c])
  /\ Answer(c, "ok")
  /\ UNCHANGED table

(* An add of other settings for a name in use, or of settings that make no *)
(* sense.                                                                  *)
Reject(c) ==
  /\ Asks(c, "add")
  /\ \/ ~WellFormed(pending[c])
     \/ \E s \in Named(pending[c].name) : ~SameSettings(s, pending[c])
  /\ Answer(c, "rejected")
  /\ UNCHANGED table

(* The host does not cooperate; only a request that would change something *)
(* can find that out.                                                      *)
Failed(c) ==
  /\ \/ AsksNew(c) /\ \E how \in {"bindFailed", "saveFailed"} : Answer(c, how)
     \/ AsksAway(c) /\ Answer(c, "saveFailed")
  /\ UNCHANGED table

NotReady(c) ==
  /\ phase # "ready"
  /\ pending[c] \in Requests
  /\ Answer(c, "notReady")
  /\ UNCHANGED table

Next ==
  \/ Start \/ Stop
  \/ \E c \in Clients :
       \/ Add(c) \/ Unlist(c) \/ Removed(c) \/ AlreadySo(c)
       \/ Reject(c) \/ Failed(c) \/ NotReady(c)
  \/ \E c \in Clients, r \in Requests : Submit(c, r)

Spec == Init /\ [][Next]_vars
=============================================================================
