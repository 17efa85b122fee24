------------------------------ MODULE PortForward ------------------------------
(***************************************************************************)
(* What a LoopbackForwarder promises to the registry that holds it, without*)
(* goroutines, hooks, sockets or the wait group.  Its host port is open    *)
(* until somebody closes it, and for good closed from then on; each        *)
(* connection is served once, from when it is accepted; and no Close       *)
(* returns, to whichever caller, while the port is open or a connection is *)
(* still served.                                                           *)
(***************************************************************************)
CONSTANTS Conns, Closers

VARIABLES
  open,    \* the host port accepts connections
  served,  \* the connections that the forwarder works for
  past,    \* those that it is done with
  caller   \* where each caller of Close is

vars == <<open, served, past, caller>>

Init ==
  /\ open = TRUE
  /\ served = {} /\ past = {}
  /\ caller = [k \in Closers |-> "idle"]

Serve(c) ==
  /\ open
  /\ c \notin served \cup past
  /\ served' = served \cup {c}
  /\ UNCHANGED <<open, past, caller>>

Finish(c) ==
  /\ c \in served
  /\ served' = served \ {c}
  /\ past' = past \cup {c}
  /\ UNCHANGED <<open, caller>>

Call(k) ==
  /\ caller[k] = "idle"
  /\ caller' = [caller EXCEPT ![k] = "called"]
  /\ UNCHANGED <<open, served, past>>

(* The port closes once for all callers.                                   *)
Shut ==
  /\ open
  /\ \E k \in Closers : caller[k] = "called"
  /\ open' = FALSE
  /\ UNCHANGED <<served, past, caller>>

Return(k) ==
  /\ caller[k] = "called"
  /\ ~open /\ served = {}
  /\ caller' = [caller EXCEPT ![k] = "returned"]
  /\ UNCHANGED <<open, served, past>>

Next ==
  \/ \E c \in Conns : Serve(c) \/ Finish(c)
  \/ \E k \in Closers : Call(k) \/ Return(k)
  \/ Shut

Spec == Init /\ [][Next]_vars
=============================================================================
