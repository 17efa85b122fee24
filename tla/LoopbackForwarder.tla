--------------------------- MODULE LoopbackForwarder ---------------------------
(***************************************************************************)
(* One LoopbackForwarder: its accept loop, the proxyConnection goroutines  *)
(* with their two copy loops, the context.AfterFunc hooks that close a     *)
(* connection's sockets on cancel, and Close.                              *)
(*                                                                         *)
(* The peers are the environment.  A peer may send, stop sending (half),   *)
(* disappear (gone), or stop reading, so that a Write to it blocks.  Bytes *)
(* are not modelled: a copy loop is in a Read or in a Write.               *)
(***************************************************************************)
EXTENDS Naturals, FiniteSets

CONSTANTS
  Conns,    \* the connections that clients ever make to the host port
  Closers   \* the callers of Close

ASSUME ConnsFinite == IsFiniteSet(Conns)

VARIABLES
  closer,     \* where each caller of Close is
  once,       \* closeOnce: "new", "running" or "done"
  cancelled,  \* the forwarder's context is cancelled
  listening,  \* the listener is open
  acceptor,   \* acceptLoop: "accepting", "holding" a connection, "returned"
  wg,         \* the counter of the wait group
  pc,         \* where each connection is
  client,     \* clientConn: "none", "open" or "closed"
  guest,      \* guestConn, the same
  hooks,      \* which of the connection's AfterFunc are armed
  up, down,   \* io.Copy to the guest and to the client
  clientPeer, guestPeer  \* what the other ends do

vars == <<closer, once, cancelled, listening, acceptor, wg, pc, client, guest,
          hooks, up, down, clientPeer, guestPeer>>
closeVars == <<closer, once, cancelled, listening>>
copyVars == <<up, down>>
peerVars == <<clientPeer, guestPeer>>

-----------------------------------------------------------------------------

(* startForwarder has bound the socket and started the accept loop.        *)
Init ==
  /\ closer = [k \in Closers |-> "idle"]
  /\ once = "new"
  /\ cancelled = FALSE
  /\ listening = TRUE
  /\ acceptor = "accepting"
  /\ wg = 1
  /\ pc = [c \in Conns |-> "away"]
  /\ client = [c \in Conns |-> "none"]
  /\ guest = [c \in Conns |-> "none"]
  /\ hooks = [c \in Conns |-> {}]
  /\ up = [c \in Conns |-> "off"]
  /\ down = [c \in Conns |-> "off"]
  /\ clientPeer = [c \in Conns |-> "open"]
  /\ guestPeer = [c \in Conns |-> "open"]

Move(c, from, to) ==
  /\ pc[c] = from
  /\ pc' = [pc EXCEPT ![c] = to]

-----------------------------------------------------------------------------
(* Slips: each could have been written for the action in its comment, and  *)
(* breaks a property below.  No specification uses them.                   *)

\* Spawn without wg.Add
SlipUncounted(c) ==
  /\ Move(c, "accepted", "starting")
  /\ acceptor' = "accepting"
  /\ UNCHANGED <<closeVars, wg, client, guest, hooks, copyVars, peerVars>>

\* DialRefused that calls wg.Done itself, besides the deferred call
SlipDoneTwice(c) ==
  /\ Move(c, "dialing", "leaving")
  /\ wg' = wg - 1
  /\ UNCHANGED <<closeVars, acceptor, client, guest, hooks, copyVars, peerVars>>

\* HookGuest without the AfterFunc
SlipNoGuestHook(c) ==
  /\ Move(c, "dialed", "copying")
  /\ up' = [up EXCEPT ![c] = "reading"]
  /\ down' = [down EXCEPT ![c] = "reading"]
  /\ UNCHANGED <<closeVars, acceptor, wg, client, guest, hooks, peerVars>>

\* RunGuestHook on a context of the dial, which may end at any time
SlipDialContext(c) ==
  /\ "guest" \in hooks[c]
  /\ hooks' = [hooks EXCEPT ![c] = @ \ {"guest"}]
  /\ guest' = [guest EXCEPT ![c] = "closed"]
  /\ UNCHANGED <<closeVars, acceptor, wg, pc, client, copyVars, peerVars>>

\* DownEnds that leaves the client's socket to the deferred Close
SlipNoClientClose(c) ==
  /\ \/ down[c] = "reading" /\ (guest[c] = "closed" \/ guestPeer[c] # "open")
     \/ down[c] = "writing" /\ (client[c] = "closed" \/ clientPeer[c] = "gone")
  /\ down' = [down EXCEPT ![c] = "ended"]
  /\ UNCHANGED <<closeVars, acceptor, wg, pc, client, guest, hooks, up, peerVars>>

-----------------------------------------------------------------------------
(* The peers.                                                              *)

Connect(c) ==
  /\ listening
  /\ Move(c, "away", "queued")
  /\ UNCHANGED <<closeVars, acceptor, wg, client, guest, hooks, copyVars, peerVars>>

Fading == {<<"open", "half">>, <<"open", "gone">>, <<"half", "gone">>}

ClientFades(c) ==
  /\ client[c] # "none"
  /\ \E to \in {"half", "gone"} :
       /\ <<clientPeer[c], to>> \in Fading
       /\ clientPeer' = [clientPeer EXCEPT ![c] = to]
  /\ UNCHANGED <<closeVars, acceptor, wg, pc, client, guest, hooks, copyVars,
                guestPeer>>

GuestFades(c) ==
  /\ guest[c] # "none"
  /\ \E to \in {"half", "gone"} :
       /\ <<guestPeer[c], to>> \in Fading
       /\ guestPeer' = [guestPeer EXCEPT ![c] = to]
  /\ UNCHANGED <<closeVars, acceptor, wg, pc, client, guest, hooks, copyVars,
                clientPeer>>

-----------------------------------------------------------------------------
(* acceptLoop.  An Accept that fails for another reason than ErrClosed is  *)
(* tried again and changes nothing.                                        *)

Accept(c) ==
  /\ acceptor = "accepting"
  /\ listening
  /\ Move(c, "queued", "accepted")
  /\ acceptor' = "holding"
  /\ client' = [client EXCEPT ![c] = "open"]
  /\ UNCHANGED <<closeVars, wg, guest, hooks, copyVars, peerVars>>

Spawn(c) ==
  /\ Move(c, "accepted", "starting")
  /\ acceptor' = "accepting"
  /\ wg' = wg + 1
  /\ UNCHANGED <<closeVars, client, guest, hooks, copyVars, peerVars>>

AcceptorReturns ==
  /\ acceptor = "accepting"
  /\ ~listening
  /\ acceptor' = "returned"
  /\ wg' = wg - 1
  /\ UNCHANGED <<closeVars, pc, client, guest, hooks, copyVars, peerVars>>

-----------------------------------------------------------------------------
(* proxyConnection.                                                        *)

HookClient(c) ==
  /\ Move(c, "starting", "dialing")
  /\ hooks' = [hooks EXCEPT ![c] = {"client"}]
  /\ UNCHANGED <<closeVars, acceptor, wg, client, guest, copyVars, peerVars>>

(* The guest answers, even to a dial whose context was just cancelled.     *)
DialSucceeds(c) ==
  /\ Move(c, "dialing", "dialed")
  /\ guest' = [guest EXCEPT ![c] = "open"]
  /\ UNCHANGED <<closeVars, acceptor, wg, client, hooks, copyVars, peerVars>>

DialRefused(c) ==
  /\ Move(c, "dialing", "leaving")
  /\ UNCHANGED <<closeVars, acceptor, wg, client, guest, hooks, copyVars, peerVars>>

DialCancelled(c) ==
  /\ cancelled
  /\ Move(c, "dialing", "leaving")
  /\ UNCHANGED <<closeVars, acceptor, wg, client, guest, hooks, copyVars, peerVars>>

HookGuest(c) ==
  /\ Move(c, "dialed", "copying")
  /\ hooks' = [hooks EXCEPT ![c] = @ \cup {"guest"}]
  /\ up' = [up EXCEPT ![c] = "reading"]
  /\ down' = [down EXCEPT ![c] = "reading"]
  /\ UNCHANGED <<closeVars, acceptor, wg, client, guest, peerVars>>

(* The hooks run in goroutines of their own once the context is cancelled. *)
RunClientHook(c) ==
  /\ cancelled /\ "client" \in hooks[c]
  /\ hooks' = [hooks EXCEPT ![c] = @ \ {"client"}]
  /\ client' = [client EXCEPT ![c] = "closed"]
  /\ UNCHANGED <<closeVars, acceptor, wg, pc, guest, copyVars, peerVars>>

RunGuestHook(c) ==
  /\ cancelled /\ "guest" \in hooks[c]
  /\ hooks' = [hooks EXCEPT ![c] = @ \ {"guest"}]
  /\ guest' = [guest EXCEPT ![c] = "closed"]
  /\ UNCHANGED <<closeVars, acceptor, wg, pc, client, copyVars, peerVars>>

(* A Read ends when its socket is closed here or its peer sends no more, a *)
(* Write when its socket is closed here or its peer is gone.  Neither      *)
(* notices what happens to the other socket of the copy.                   *)
ReadEnds(sock, peer) == sock = "closed" \/ peer # "open"
WriteEnds(sock, peer) == sock = "closed" \/ peer = "gone"

UpReads(c) ==
  /\ up[c] = "reading" /\ client[c] = "open" /\ clientPeer[c] = "open"
  /\ up' = [up EXCEPT ![c] = "writing"]
  /\ UNCHANGED <<closeVars, acceptor, wg, pc, client, guest, hooks, down, peerVars>>

UpWrites(c) ==
  /\ up[c] = "writing" /\ guest[c] = "open" /\ guestPeer[c] # "gone"
  /\ up' = [up EXCEPT ![c] = "reading"]
  /\ UNCHANGED <<closeVars, acceptor, wg, pc, client, guest, hooks, down, peerVars>>

UpEnds(c) ==
  /\ \/ up[c] = "reading" /\ ReadEnds(client[c], clientPeer[c])
     \/ up[c] = "writing" /\ WriteEnds(guest[c], guestPeer[c])
  /\ up' = [up EXCEPT ![c] = "ended"]
  /\ guest' = [guest EXCEPT ![c] = "closed"]
  /\ UNCHANGED <<closeVars, acceptor, wg, pc, client, hooks, down, peerVars>>

DownReads(c) ==
  /\ down[c] = "reading" /\ guest[c] = "open" /\ guestPeer[c] = "open"
  /\ down' = [down EXCEPT ![c] = "writing"]
  /\ UNCHANGED <<closeVars, acceptor, wg, pc, client, guest, hooks, up, peerVars>>

DownWrites(c) ==
  /\ down[c] = "writing" /\ client[c] = "open" /\ clientPeer[c] # "gone"
  /\ down' = [down EXCEPT ![c] = "reading"]
  /\ UNCHANGED <<closeVars, acceptor, wg, pc, client, guest, hooks, up, peerVars>>

DownEnds(c) ==
  /\ \/ down[c] = "reading" /\ ReadEnds(guest[c], guestPeer[c])
     \/ down[c] = "writing" /\ WriteEnds(client[c], clientPeer[c])
  /\ down' = [down EXCEPT ![c] = "ended"]
  /\ client' = [client EXCEPT ![c] = "closed"]
  /\ UNCHANGED <<closeVars, acceptor, wg, pc, guest, hooks, up, peerVars>>

BothEnded(c) ==
  /\ up[c] = "ended" /\ down[c] = "ended"
  /\ Move(c, "copying", "leaving")
  /\ UNCHANGED <<closeVars, acceptor, wg, client, guest, hooks, copyVars, peerVars>>

(* The deferred calls: stop the hooks, close both sockets, wg.Done last.   *)
Shut(sock) == IF sock = "none" THEN "none" ELSE "closed"

Leave(c) ==
  /\ Move(c, "leaving", "left")
  /\ hooks' = [hooks EXCEPT ![c] = {}]
  /\ client' = [client EXCEPT ![c] = Shut(@)]
  /\ guest' = [guest EXCEPT ![c] = Shut(@)]
  /\ wg' = wg - 1
  /\ UNCHANGED <<closeVars, acceptor, copyVars, peerVars>>

-----------------------------------------------------------------------------
(* Close: the first caller runs the function of closeOnce, the others wait *)
(* until it has returned.                                                  *)

CallClose(k) ==
  /\ closer[k] = "idle"
  /\ closer' = [closer EXCEPT ![k] = "called"]
  /\ UNCHANGED <<once, cancelled, listening, acceptor, wg, pc, client, guest,
                 hooks, copyVars, peerVars>>

Cancel(k) ==
  /\ closer[k] = "called" /\ once = "new"
  /\ closer' = [closer EXCEPT ![k] = "cancelled"]
  /\ once' = "running"
  /\ cancelled' = TRUE
  /\ UNCHANGED <<listening, acceptor, wg, pc, client, guest, hooks, copyVars,
                 peerVars>>

(* Connections that were not accepted yet are reset.                       *)
CloseListener(k) ==
  /\ closer[k] = "cancelled"
  /\ closer' = [closer EXCEPT ![k] = "waiting"]
  /\ listening' = FALSE
  /\ pc' = [c \in Conns |-> IF pc[c] = "queued" THEN "reset" ELSE pc[c]]
  /\ UNCHANGED <<once, cancelled, acceptor, wg, client, guest, hooks, copyVars,
                 peerVars>>

WaitEnds(k) ==
  /\ closer[k] = "waiting" /\ wg = 0
  /\ closer' = [closer EXCEPT ![k] = "returned"]
  /\ once' = "done"
  /\ UNCHANGED <<cancelled, listening, acceptor, wg, pc, client, guest, hooks,
                 copyVars, peerVars>>

AlreadyClosed(k) ==
  /\ closer[k] = "called" /\ once = "done"
  /\ closer' = [closer EXCEPT ![k] = "returned"]
  /\ UNCHANGED <<once, cancelled, listening, acceptor, wg, pc, client, guest,
                 hooks, copyVars, peerVars>>

-----------------------------------------------------------------------------
PeerStep(c) == Connect(c) \/ ClientFades(c) \/ GuestFades(c)

HookStep(c) == RunClientHook(c) \/ RunGuestHook(c)

ProxyStep(c) ==
  \/ HookClient(c) \/ DialSucceeds(c) \/ DialRefused(c) \/ DialCancelled(c)
  \/ HookGuest(c) \/ BothEnded(c) \/ Leave(c)

CopyStep(c) ==
  \/ UpReads(c) \/ UpWrites(c) \/ UpEnds(c)
  \/ DownReads(c) \/ DownWrites(c) \/ DownEnds(c)

CloseStep(k) ==
  CallClose(k) \/ Cancel(k) \/ CloseListener(k) \/ WaitEnds(k) \/ AlreadyClosed(k)

(* Every Close returned: the forwarder is no longer used.                  *)
Finished == (\A k \in Closers : closer[k] = "returned") /\ UNCHANGED vars

Next ==
  \/ \E c \in Conns : PeerStep(c) \/ Accept(c) \/ Spawn(c) \/ HookStep(c)
                      \/ ProxyStep(c) \/ CopyStep(c)
  \/ AcceptorReturns
  \/ \E k \in Closers : CloseStep(k)
  \/ Finished

Spec == Init /\ [][Next]_vars

(* Goroutines run, and a dial ends when its context is cancelled.  Nothing *)
(* is assumed of the peers: a dial may stay unanswered and a Write may     *)
(* block for ever.                                                         *)
FairSpec ==
  /\ Spec
  /\ WF_vars(AcceptorReturns)
  /\ \A c \in Conns :
       /\ WF_vars(Spawn(c))
       /\ WF_vars(RunClientHook(c))
       /\ WF_vars(RunGuestHook(c))
       /\ WF_vars(HookClient(c) \/ DialCancelled(c) \/ HookGuest(c)
                  \/ BothEnded(c) \/ Leave(c))
       /\ WF_vars(UpEnds(c))
       /\ WF_vars(DownEnds(c))
  /\ \A k \in Closers :
       WF_vars(Cancel(k) \/ CloseListener(k) \/ WaitEnds(k) \/ AlreadyClosed(k))

(* Peers that are not gone keep reading what they are sent.                *)
ReadingPeers ==
  \A c \in Conns : WF_vars(UpWrites(c)) /\ WF_vars(DownWrites(c))

-----------------------------------------------------------------------------
(* Every variable holds a value of its type.                               *)
TypeOK ==
  /\ closer \in [Closers -> {"idle", "called", "cancelled", "waiting", "returned"}]
  /\ once \in {"new", "running", "done"}
  /\ cancelled \in BOOLEAN
  /\ listening \in BOOLEAN
  /\ acceptor \in {"accepting", "holding", "returned"}
  /\ wg \in Nat
  /\ pc \in [Conns -> {"away", "queued", "reset", "accepted", "starting", "dialing",
                       "dialed", "copying", "leaving", "left"}]
  /\ client \in [Conns -> {"none", "open", "closed"}]
  /\ guest \in [Conns -> {"none", "open", "closed"}]
  /\ hooks \in [Conns -> SUBSET {"client", "guest"}]
  /\ up \in [Conns -> {"off", "reading", "writing", "ended"}]
  /\ down \in [Conns -> {"off", "reading", "writing", "ended"}]
  /\ clientPeer \in [Conns -> {"open", "half", "gone"}]
  /\ guestPeer \in [Conns -> {"open", "half", "gone"}]

(* Until the forwarder is closed, what happens to one connection's peers   *)
(* is the only thing that ends it: a connection whose peers are both there *)
(* keeps both its sockets.                                                 *)
HealthyStays ==
  [][\A c \in Conns :
       /\ pc[c] = "copying" /\ ~cancelled
       /\ clientPeer[c] = "open" /\ guestPeer[c] = "open"
       =>
         client'[c] = "open" /\ guest'[c] = "open" /\ pc'[c] = "copying"]_vars

(* Close returns, also when the guest never answers a dial and when peers  *)
(* stop reading: cancelling closes both sockets of every connection.       *)
CloseReturns ==
  \A k \in Closers : closer[k] = "called" ~> closer[k] = "returned"

(* When one end of a connection stops sending or disappears and peers read *)
(* what they are sent, the connection is taken down on both sides: no      *)
(* goroutine and no socket outlives it until the forwarder is closed.      *)
EndsOnBothSides ==
  ReadingPeers =>
    \A c \in Conns :
      pc[c] = "copying" /\ (clientPeer[c] # "open" \/ guestPeer[c] # "open")
        ~> pc[c] = "left"

-----------------------------------------------------------------------------
(* The promise of PortForward.  A connection is served from its Accept     *)
(* until its goroutine has ended and both its sockets are closed; one that *)
(* waits in the listener's queue is not yet.                               *)
Promise == INSTANCE PortForward WITH
  open <- listening,
  served <- {c \in Conns :
              \/ pc[c] \in {"accepted", "starting", "dialing", "dialed", "copying",
                           "leaving"}
              \/ client[c] = "open" \/ guest[c] = "open"},
  past <- {c \in Conns : pc[c] = "left"},
  caller <- [k \in Closers |->
              IF closer[k] \in {"cancelled", "waiting"} THEN "called" ELSE closer[k]]

(* The forwarder keeps it, whatever is being accepted, dialed or copied    *)
(* when Close is called: the port stays open until then, no connection is  *)
(* served after it, and no Close returns before the last one has ended.    *)
KeepsPromise == Promise!Spec
=============================================================================
