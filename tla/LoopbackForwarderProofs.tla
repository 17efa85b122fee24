------------------------ MODULE LoopbackForwarderProofs ------------------------
(***************************************************************************)
(* For any finite number of connections and any number of callers, a Close *)
(* that has returned leaves nothing of the forwarder behind.  The heart of *)
(* it is that the wait group counts the goroutines exactly, at every step. *)
(***************************************************************************)
EXTENDS LoopbackForwarder, FiniteSetTheorems, TLAPS

Running == {"starting", "dialing", "dialed", "copying", "leaving"}
Proxies == {c \in Conns : pc[c] \in Running}

(* The wait group counts the accept loop and the proxy goroutines.         *)
Counted ==
  wg = (IF acceptor = "returned" THEN 0 ELSE 1) + Cardinality(Proxies)

(* A connection between Accept and its goroutine is in the accept loop's   *)
(* hands, one at a time, so that the loop's own count covers it.           *)
Handover ==
  /\ \A c \in Conns : pc[c] = "accepted" => acceptor = "holding"
  /\ \A c, d \in Conns : pc[c] = "accepted" /\ pc[d] = "accepted" => c = d
  /\ acceptor = "returned" => ~listening

(* What the progress of Close implies.                                     *)
Closing ==
  /\ ~listening => \A c \in Conns : pc[c] # "queued"
  /\ \A k \in Closers : closer[k] = "waiting" => ~listening
  /\ \A k \in Closers : closer[k] = "returned" => once = "done"
  /\ once = "done" => ~listening /\ wg = 0

(* Only a connection with a goroutine, or in the accept loop's hands, has  *)
(* open sockets.                                                           *)
OpenSockets ==
  \A c \in Conns :
    pc[c] \in {"away", "queued", "reset", "left"} =>
      client[c] # "open" /\ guest[c] # "open"

IInv == TypeOK /\ Counted /\ Handover /\ Closing /\ OpenSockets

(* How a step can change the goroutines and the counter together.          *)
Same ==
  /\ Proxies' = Proxies /\ wg' = wg
  /\ acceptor' = "returned" <=> acceptor = "returned"
Grows ==
  \E c \in Conns \ Proxies :
    /\ Proxies' = Proxies \cup {c} /\ wg' = wg + 1
    /\ acceptor # "returned" /\ acceptor' # "returned"
Shrinks ==
  \E c \in Proxies :
    Proxies' = Proxies \ {c} /\ wg' = wg - 1 /\ acceptor' = acceptor
LoopEnds ==
  /\ Proxies' = Proxies /\ wg' = wg - 1
  /\ acceptor # "returned" /\ acceptor' = "returned"

(* A step starts a goroutine and adds one, ends one and subtracts one, or  *)
(* does neither.                                                           *)
LEMMA StepShape ==
  ASSUME TypeOK, Handover, [Next]_vars
  PROVE  Same \/ Grows \/ Shrinks \/ LoopEnds
<1> USE DEF TypeOK, Handover, Proxies, Running
<1>1. ASSUME NEW c \in Conns, Connect(c) PROVE Same \/ Grows \/ Shrinks \/ LoopEnds
  BY <1>1 DEF Same, Connect, Move, closeVars, copyVars, peerVars
<1>2. ASSUME NEW c \in Conns, ClientFades(c) PROVE Same \/ Grows \/ Shrinks \/ LoopEnds
  BY <1>2 DEF Same, ClientFades, closeVars, copyVars
<1>3. ASSUME NEW c \in Conns, GuestFades(c) PROVE Same \/ Grows \/ Shrinks \/ LoopEnds
  BY <1>3 DEF Same, GuestFades, closeVars, copyVars
<1>4. ASSUME NEW c \in Conns, Accept(c) PROVE Same \/ Grows \/ Shrinks \/ LoopEnds
  BY <1>4 DEF Same, Accept, Move, closeVars, copyVars, peerVars
<1>5. ASSUME NEW c \in Conns, Spawn(c) PROVE Same \/ Grows \/ Shrinks \/ LoopEnds
  BY <1>5 DEF Grows, Spawn, Move, closeVars, copyVars, peerVars
<1>6. ASSUME NEW c \in Conns, RunClientHook(c)
      PROVE Same \/ Grows \/ Shrinks \/ LoopEnds
  BY <1>6 DEF Same, RunClientHook, closeVars, copyVars, peerVars
<1>7. ASSUME NEW c \in Conns, RunGuestHook(c) PROVE Same \/ Grows \/ Shrinks \/ LoopEnds
  BY <1>7 DEF Same, RunGuestHook, closeVars, copyVars, peerVars
<1>8. ASSUME NEW c \in Conns, HookClient(c) PROVE Same \/ Grows \/ Shrinks \/ LoopEnds
  BY <1>8 DEF Same, HookClient, Move, closeVars, copyVars, peerVars
<1>9. ASSUME NEW c \in Conns, DialSucceeds(c) PROVE Same \/ Grows \/ Shrinks \/ LoopEnds
  BY <1>9 DEF Same, DialSucceeds, Move, closeVars, copyVars, peerVars
<1>10. ASSUME NEW c \in Conns, DialRefused(c) PROVE Same \/ Grows \/ Shrinks \/ LoopEnds
  BY <1>10 DEF Same, DialRefused, Move, closeVars, copyVars, peerVars
<1>11. ASSUME NEW c \in Conns, DialCancelled(c)
      PROVE Same \/ Grows \/ Shrinks \/ LoopEnds
  BY <1>11 DEF Same, DialCancelled, Move, closeVars, copyVars, peerVars
<1>12. ASSUME NEW c \in Conns, HookGuest(c) PROVE Same \/ Grows \/ Shrinks \/ LoopEnds
  BY <1>12 DEF Same, HookGuest, Move, closeVars, peerVars
<1>13. ASSUME NEW c \in Conns, BothEnded(c) PROVE Same \/ Grows \/ Shrinks \/ LoopEnds
  BY <1>13 DEF Same, BothEnded, Move, closeVars, copyVars, peerVars
<1>14. ASSUME NEW c \in Conns, Leave(c) PROVE Same \/ Grows \/ Shrinks \/ LoopEnds
  BY <1>14 DEF Shrinks, Leave, Move, closeVars, copyVars, peerVars
<1>15. ASSUME NEW c \in Conns, UpReads(c) PROVE Same \/ Grows \/ Shrinks \/ LoopEnds
  BY <1>15 DEF Same, UpReads, closeVars, peerVars
<1>16. ASSUME NEW c \in Conns, UpWrites(c) PROVE Same \/ Grows \/ Shrinks \/ LoopEnds
  BY <1>16 DEF Same, UpWrites, closeVars, peerVars
<1>17. ASSUME NEW c \in Conns, UpEnds(c) PROVE Same \/ Grows \/ Shrinks \/ LoopEnds
  BY <1>17 DEF Same, UpEnds, closeVars, peerVars
<1>18. ASSUME NEW c \in Conns, DownReads(c) PROVE Same \/ Grows \/ Shrinks \/ LoopEnds
  BY <1>18 DEF Same, DownReads, closeVars, peerVars
<1>19. ASSUME NEW c \in Conns, DownWrites(c) PROVE Same \/ Grows \/ Shrinks \/ LoopEnds
  BY <1>19 DEF Same, DownWrites, closeVars, peerVars
<1>20. ASSUME NEW c \in Conns, DownEnds(c) PROVE Same \/ Grows \/ Shrinks \/ LoopEnds
  BY <1>20 DEF Same, DownEnds, closeVars, peerVars
<1>21. CASE AcceptorReturns
  BY <1>21 DEF LoopEnds, AcceptorReturns, closeVars, copyVars, peerVars
<1>22. ASSUME NEW k \in Closers, CallClose(k) PROVE Same \/ Grows \/ Shrinks \/ LoopEnds
  BY <1>22 DEF Same, CallClose, copyVars, peerVars
<1>23. ASSUME NEW k \in Closers, Cancel(k) PROVE Same \/ Grows \/ Shrinks \/ LoopEnds
  BY <1>23 DEF Same, Cancel, copyVars, peerVars
<1>24. ASSUME NEW k \in Closers, CloseListener(k)
      PROVE Same \/ Grows \/ Shrinks \/ LoopEnds
  BY <1>24 DEF Same, CloseListener, copyVars, peerVars
<1>25. ASSUME NEW k \in Closers, WaitEnds(k) PROVE Same \/ Grows \/ Shrinks \/ LoopEnds
  BY <1>25 DEF Same, WaitEnds, copyVars, peerVars
<1>26. ASSUME NEW k \in Closers, AlreadyClosed(k)
      PROVE Same \/ Grows \/ Shrinks \/ LoopEnds
  BY <1>26 DEF Same, AlreadyClosed, copyVars, peerVars
<1>27. CASE UNCHANGED vars
  BY <1>27 DEF Same, vars
<1>. QED
  BY <1>1, <1>2, <1>3, <1>4, <1>5, <1>6, <1>7, <1>8, <1>9, <1>10, <1>11,
     <1>12, <1>13, <1>14, <1>15, <1>16, <1>17, <1>18, <1>19, <1>20, <1>21,
     <1>22, <1>23, <1>24, <1>25, <1>26, <1>27 DEF Next, PeerStep, HookStep,
     ProxyStep, CopyStep, CloseStep, Finished

(* The counter keeps counting the goroutines.                              *)
LEMMA CountStep ==
  ASSUME TypeOK, Handover, Counted, [Next]_vars
  PROVE  Counted' /\ wg' \in Nat
<1>1. IsFiniteSet(Proxies) /\ IsFiniteSet(Proxies')
  BY ConnsFinite, FS_Subset DEF Proxies
<1>2. Cardinality(Proxies) \in Nat /\ Cardinality(Proxies') \in Nat
  BY <1>1, FS_CardinalityType
<1>3. CASE Same
  BY <1>2, <1>3 DEF Same, Counted
<1>4. CASE Grows
  <2>1. PICK c \in Conns \ Proxies : Proxies' = Proxies \cup {c}
    BY <1>4 DEF Grows
  <2>2. Cardinality(Proxies') = Cardinality(Proxies) + 1
    BY <1>1, <2>1, FS_AddElement
  <2>. QED
    BY <1>2, <1>4, <2>2 DEF Grows, Counted
<1>5. CASE Shrinks
  <2>1. PICK c \in Proxies : Proxies' = Proxies \ {c}
    BY <1>5 DEF Shrinks
  <2>2. Cardinality(Proxies') = Cardinality(Proxies) - 1
    BY <1>1, <2>1, FS_RemoveElement
  <2>. QED
    BY <1>2, <1>5, <2>2 DEF Shrinks, Counted
<1>6. CASE LoopEnds
  BY <1>2, <1>6 DEF LoopEnds, Counted
<1>. QED
  BY <1>3, <1>4, <1>5, <1>6, StepShape

(* Every step keeps the types of the variables.                            *)
LEMMA TypeStep ==
  ASSUME TypeOK, wg' \in Nat, [Next]_vars
  PROVE  TypeOK'
<1> USE DEF TypeOK
<1>1. ASSUME NEW c \in Conns, Connect(c) PROVE TypeOK'
  BY <1>1 DEF Connect, Move, closeVars, copyVars, peerVars
<1>2. ASSUME NEW c \in Conns, ClientFades(c) PROVE TypeOK'
  BY <1>2 DEF ClientFades, closeVars, copyVars
<1>3. ASSUME NEW c \in Conns, GuestFades(c) PROVE TypeOK'
  BY <1>3 DEF GuestFades, closeVars, copyVars
<1>4. ASSUME NEW c \in Conns, Accept(c) PROVE TypeOK'
  BY <1>4 DEF Accept, Move, closeVars, copyVars, peerVars
<1>5. ASSUME NEW c \in Conns, Spawn(c) PROVE TypeOK'
  BY <1>5 DEF Spawn, Move, closeVars, copyVars, peerVars
<1>6. ASSUME NEW c \in Conns, RunClientHook(c) PROVE TypeOK'
  BY <1>6 DEF RunClientHook, closeVars, copyVars, peerVars
<1>7. ASSUME NEW c \in Conns, RunGuestHook(c) PROVE TypeOK'
  BY <1>7 DEF RunGuestHook, closeVars, copyVars, peerVars
<1>8. ASSUME NEW c \in Conns, HookClient(c) PROVE TypeOK'
  BY <1>8 DEF HookClient, Move, closeVars, copyVars, peerVars
<1>9. ASSUME NEW c \in Conns, DialSucceeds(c) PROVE TypeOK'
  BY <1>9 DEF DialSucceeds, Move, closeVars, copyVars, peerVars
<1>10. ASSUME NEW c \in Conns, DialRefused(c) PROVE TypeOK'
  BY <1>10 DEF DialRefused, Move, closeVars, copyVars, peerVars
<1>11. ASSUME NEW c \in Conns, DialCancelled(c) PROVE TypeOK'
  BY <1>11 DEF DialCancelled, Move, closeVars, copyVars, peerVars
<1>12. ASSUME NEW c \in Conns, HookGuest(c) PROVE TypeOK'
  BY <1>12 DEF HookGuest, Move, closeVars, peerVars
<1>13. ASSUME NEW c \in Conns, BothEnded(c) PROVE TypeOK'
  BY <1>13 DEF BothEnded, Move, closeVars, copyVars, peerVars
<1>14. ASSUME NEW c \in Conns, Leave(c) PROVE TypeOK'
  BY <1>14 DEF Leave, Move, closeVars, copyVars, peerVars, Shut
<1>15. ASSUME NEW c \in Conns, UpReads(c) PROVE TypeOK'
  BY <1>15 DEF UpReads, closeVars, peerVars
<1>16. ASSUME NEW c \in Conns, UpWrites(c) PROVE TypeOK'
  BY <1>16 DEF UpWrites, closeVars, peerVars
<1>17. ASSUME NEW c \in Conns, UpEnds(c) PROVE TypeOK'
  BY <1>17 DEF UpEnds, closeVars, peerVars
<1>18. ASSUME NEW c \in Conns, DownReads(c) PROVE TypeOK'
  BY <1>18 DEF DownReads, closeVars, peerVars
<1>19. ASSUME NEW c \in Conns, DownWrites(c) PROVE TypeOK'
  BY <1>19 DEF DownWrites, closeVars, peerVars
<1>20. ASSUME NEW c \in Conns, DownEnds(c) PROVE TypeOK'
  BY <1>20 DEF DownEnds, closeVars, peerVars
<1>21. CASE AcceptorReturns
  BY <1>21 DEF AcceptorReturns, closeVars, copyVars, peerVars
<1>22. ASSUME NEW k \in Closers, CallClose(k) PROVE TypeOK'
  BY <1>22 DEF CallClose, copyVars, peerVars
<1>23. ASSUME NEW k \in Closers, Cancel(k) PROVE TypeOK'
  BY <1>23 DEF Cancel, copyVars, peerVars
<1>24. ASSUME NEW k \in Closers, CloseListener(k) PROVE TypeOK'
  BY <1>24 DEF CloseListener, copyVars, peerVars
<1>25. ASSUME NEW k \in Closers, WaitEnds(k) PROVE TypeOK'
  BY <1>25 DEF WaitEnds, copyVars, peerVars
<1>26. ASSUME NEW k \in Closers, AlreadyClosed(k) PROVE TypeOK'
  BY <1>26 DEF AlreadyClosed, copyVars, peerVars
<1>27. CASE UNCHANGED vars
  BY <1>27 DEF vars
<1>. QED
  BY <1>1, <1>2, <1>3, <1>4, <1>5, <1>6, <1>7, <1>8, <1>9, <1>10, <1>11,
     <1>12, <1>13, <1>14, <1>15, <1>16, <1>17, <1>18, <1>19, <1>20, <1>21,
     <1>22, <1>23, <1>24, <1>25, <1>26, <1>27 DEF Next, PeerStep, HookStep,
     ProxyStep, CopyStep, CloseStep, Finished

(* Every step keeps an accepted connection in the accept loop's hands.     *)
LEMMA HandoverStep ==
  ASSUME TypeOK, Handover, [Next]_vars
  PROVE  Handover'
<1> USE DEF TypeOK, Handover
<1>1. ASSUME NEW c \in Conns, Connect(c) PROVE Handover'
  BY <1>1 DEF Connect, Move, closeVars, copyVars, peerVars
<1>2. ASSUME NEW c \in Conns, ClientFades(c) PROVE Handover'
  BY <1>2 DEF ClientFades, closeVars, copyVars
<1>3. ASSUME NEW c \in Conns, GuestFades(c) PROVE Handover'
  BY <1>3 DEF GuestFades, closeVars, copyVars
<1>4. ASSUME NEW c \in Conns, Accept(c) PROVE Handover'
  BY <1>4 DEF Accept, Move, closeVars, copyVars, peerVars
<1>5. ASSUME NEW c \in Conns, Spawn(c) PROVE Handover'
  BY <1>5 DEF Spawn, Move, closeVars, copyVars, peerVars
<1>6. ASSUME NEW c \in Conns, RunClientHook(c) PROVE Handover'
  BY <1>6 DEF RunClientHook, closeVars, copyVars, peerVars
<1>7. ASSUME NEW c \in Conns, RunGuestHook(c) PROVE Handover'
  BY <1>7 DEF RunGuestHook, closeVars, copyVars, peerVars
<1>8. ASSUME NEW c \in Conns, HookClient(c) PROVE Handover'
  BY <1>8 DEF HookClient, Move, closeVars, copyVars, peerVars
<1>9. ASSUME NEW c \in Conns, DialSucceeds(c) PROVE Handover'
  BY <1>9 DEF DialSucceeds, Move, closeVars, copyVars, peerVars
<1>10. ASSUME NEW c \in Conns, DialRefused(c) PROVE Handover'
  BY <1>10 DEF DialRefused, Move, closeVars, copyVars, peerVars
<1>11. ASSUME NEW c \in Conns, DialCancelled(c) PROVE Handover'
  BY <1>11 DEF DialCancelled, Move, closeVars, copyVars, peerVars
<1>12. ASSUME NEW c \in Conns, HookGuest(c) PROVE Handover'
  BY <1>12 DEF HookGuest, Move, closeVars, peerVars
<1>13. ASSUME NEW c \in Conns, BothEnded(c) PROVE Handover'
  BY <1>13 DEF BothEnded, Move, closeVars, copyVars, peerVars
<1>14. ASSUME NEW c \in Conns, Leave(c) PROVE Handover'
  BY <1>14 DEF Leave, Move, closeVars, copyVars, peerVars
<1>15. ASSUME NEW c \in Conns, UpReads(c) PROVE Handover'
  BY <1>15 DEF UpReads, closeVars, peerVars
<1>16. ASSUME NEW c \in Conns, UpWrites(c) PROVE Handover'
  BY <1>16 DEF UpWrites, closeVars, peerVars
<1>17. ASSUME NEW c \in Conns, UpEnds(c) PROVE Handover'
  BY <1>17 DEF UpEnds, closeVars, peerVars
<1>18. ASSUME NEW c \in Conns, DownReads(c) PROVE Handover'
  BY <1>18 DEF DownReads, closeVars, peerVars
<1>19. ASSUME NEW c \in Conns, DownWrites(c) PROVE Handover'
  BY <1>19 DEF DownWrites, closeVars, peerVars
<1>20. ASSUME NEW c \in Conns, DownEnds(c) PROVE Handover'
  BY <1>20 DEF DownEnds, closeVars, peerVars
<1>21. CASE AcceptorReturns
  BY <1>21 DEF AcceptorReturns, closeVars, copyVars, peerVars
<1>22. ASSUME NEW k \in Closers, CallClose(k) PROVE Handover'
  BY <1>22 DEF CallClose, copyVars, peerVars
<1>23. ASSUME NEW k \in Closers, Cancel(k) PROVE Handover'
  BY <1>23 DEF Cancel, copyVars, peerVars
<1>24. ASSUME NEW k \in Closers, CloseListener(k) PROVE Handover'
  BY <1>24 DEF CloseListener, copyVars, peerVars
<1>25. ASSUME NEW k \in Closers, WaitEnds(k) PROVE Handover'
  BY <1>25 DEF WaitEnds, copyVars, peerVars
<1>26. ASSUME NEW k \in Closers, AlreadyClosed(k) PROVE Handover'
  BY <1>26 DEF AlreadyClosed, copyVars, peerVars
<1>27. CASE UNCHANGED vars
  BY <1>27 DEF vars
<1>. QED
  BY <1>1, <1>2, <1>3, <1>4, <1>5, <1>6, <1>7, <1>8, <1>9, <1>10, <1>11,
     <1>12, <1>13, <1>14, <1>15, <1>16, <1>17, <1>18, <1>19, <1>20, <1>21,
     <1>22, <1>23, <1>24, <1>25, <1>26, <1>27 DEF Next, PeerStep, HookStep,
     ProxyStep, CopyStep, CloseStep, Finished

(* The count of zero means that no goroutine runs.                         *)
LEMMA ZeroCount ==
  ASSUME TypeOK, Counted, wg = 0
  PROVE  acceptor = "returned" /\ Proxies = {}
<1>1. IsFiniteSet(Proxies)
  BY ConnsFinite, FS_Subset DEF Proxies
<1>2. Cardinality(Proxies) \in Nat
  BY <1>1, FS_CardinalityType
<1>3. acceptor = "returned" /\ Cardinality(Proxies) = 0
  BY <1>2 DEF Counted
<1>. QED
  BY <1>1, <1>3, FS_EmptySet

(* Every step keeps what Close has reached.                                *)
LEMMA ClosingStep ==
  ASSUME TypeOK, Counted, Handover, Closing, [Next]_vars
  PROVE  Closing'
<1> USE DEF TypeOK, Handover, Closing
<1>1. ASSUME NEW c \in Conns, Connect(c) PROVE Closing'
  BY <1>1 DEF Connect, Move, closeVars, copyVars, peerVars
<1>2. ASSUME NEW c \in Conns, ClientFades(c) PROVE Closing'
  BY <1>2 DEF ClientFades, closeVars, copyVars
<1>3. ASSUME NEW c \in Conns, GuestFades(c) PROVE Closing'
  BY <1>3 DEF GuestFades, closeVars, copyVars
<1>4. ASSUME NEW c \in Conns, Accept(c) PROVE Closing'
  BY <1>4 DEF Accept, Move, closeVars, copyVars, peerVars
<1>5. ASSUME NEW c \in Conns, Spawn(c) PROVE Closing'
  BY <1>5, ZeroCount DEF Spawn, Move, closeVars, copyVars, peerVars,
     Proxies, Running
<1>6. ASSUME NEW c \in Conns, RunClientHook(c) PROVE Closing'
  BY <1>6 DEF RunClientHook, closeVars, copyVars, peerVars
<1>7. ASSUME NEW c \in Conns, RunGuestHook(c) PROVE Closing'
  BY <1>7 DEF RunGuestHook, closeVars, copyVars, peerVars
<1>8. ASSUME NEW c \in Conns, HookClient(c) PROVE Closing'
  BY <1>8 DEF HookClient, Move, closeVars, copyVars, peerVars
<1>9. ASSUME NEW c \in Conns, DialSucceeds(c) PROVE Closing'
  BY <1>9 DEF DialSucceeds, Move, closeVars, copyVars, peerVars
<1>10. ASSUME NEW c \in Conns, DialRefused(c) PROVE Closing'
  BY <1>10 DEF DialRefused, Move, closeVars, copyVars, peerVars
<1>11. ASSUME NEW c \in Conns, DialCancelled(c) PROVE Closing'
  BY <1>11 DEF DialCancelled, Move, closeVars, copyVars, peerVars
<1>12. ASSUME NEW c \in Conns, HookGuest(c) PROVE Closing'
  BY <1>12 DEF HookGuest, Move, closeVars, peerVars
<1>13. ASSUME NEW c \in Conns, BothEnded(c) PROVE Closing'
  BY <1>13 DEF BothEnded, Move, closeVars, copyVars, peerVars
<1>14. ASSUME NEW c \in Conns, Leave(c) PROVE Closing'
  BY <1>14, ZeroCount DEF Leave, Move, closeVars, copyVars, peerVars,
     Proxies, Running
<1>15. ASSUME NEW c \in Conns, UpReads(c) PROVE Closing'
  BY <1>15 DEF UpReads, closeVars, peerVars
<1>16. ASSUME NEW c \in Conns, UpWrites(c) PROVE Closing'
  BY <1>16 DEF UpWrites, closeVars, peerVars
<1>17. ASSUME NEW c \in Conns, UpEnds(c) PROVE Closing'
  BY <1>17 DEF UpEnds, closeVars, peerVars
<1>18. ASSUME NEW c \in Conns, DownReads(c) PROVE Closing'
  BY <1>18 DEF DownReads, closeVars, peerVars
<1>19. ASSUME NEW c \in Conns, DownWrites(c) PROVE Closing'
  BY <1>19 DEF DownWrites, closeVars, peerVars
<1>20. ASSUME NEW c \in Conns, DownEnds(c) PROVE Closing'
  BY <1>20 DEF DownEnds, closeVars, peerVars
<1>21. CASE AcceptorReturns
  BY <1>21, ZeroCount DEF AcceptorReturns, closeVars, copyVars, peerVars,
     Proxies, Running
<1>22. ASSUME NEW k \in Closers, CallClose(k) PROVE Closing'
  BY <1>22 DEF CallClose, copyVars, peerVars
<1>23. ASSUME NEW k \in Closers, Cancel(k) PROVE Closing'
  BY <1>23 DEF Cancel, copyVars, peerVars
<1>24. ASSUME NEW k \in Closers, CloseListener(k) PROVE Closing'
  BY <1>24 DEF CloseListener, copyVars, peerVars
<1>25. ASSUME NEW k \in Closers, WaitEnds(k) PROVE Closing'
  BY <1>25 DEF WaitEnds, copyVars, peerVars
<1>26. ASSUME NEW k \in Closers, AlreadyClosed(k) PROVE Closing'
  BY <1>26 DEF AlreadyClosed, copyVars, peerVars
<1>27. CASE UNCHANGED vars
  BY <1>27 DEF vars
<1>. QED
  BY <1>1, <1>2, <1>3, <1>4, <1>5, <1>6, <1>7, <1>8, <1>9, <1>10, <1>11,
     <1>12, <1>13, <1>14, <1>15, <1>16, <1>17, <1>18, <1>19, <1>20, <1>21,
     <1>22, <1>23, <1>24, <1>25, <1>26, <1>27 DEF Next, PeerStep, HookStep,
     ProxyStep, CopyStep, CloseStep, Finished

(* Every step leaves open sockets to those who will close them.            *)
LEMMA OpenSocketsStep ==
  ASSUME TypeOK, OpenSockets, [Next]_vars
  PROVE  OpenSockets'
<1> USE DEF TypeOK, OpenSockets
<1>1. ASSUME NEW c \in Conns, Connect(c) PROVE OpenSockets'
  BY <1>1 DEF Connect, Move, closeVars, copyVars, peerVars
<1>2. ASSUME NEW c \in Conns, ClientFades(c) PROVE OpenSockets'
  BY <1>2 DEF ClientFades, closeVars, copyVars
<1>3. ASSUME NEW c \in Conns, GuestFades(c) PROVE OpenSockets'
  BY <1>3 DEF GuestFades, closeVars, copyVars
<1>4. ASSUME NEW c \in Conns, Accept(c) PROVE OpenSockets'
  BY <1>4 DEF Accept, Move, closeVars, copyVars, peerVars
<1>5. ASSUME NEW c \in Conns, Spawn(c) PROVE OpenSockets'
  BY <1>5 DEF Spawn, Move, closeVars, copyVars, peerVars
<1>6. ASSUME NEW c \in Conns, RunClientHook(c) PROVE OpenSockets'
  BY <1>6 DEF RunClientHook, closeVars, copyVars, peerVars
<1>7. ASSUME NEW c \in Conns, RunGuestHook(c) PROVE OpenSockets'
  BY <1>7 DEF RunGuestHook, closeVars, copyVars, peerVars
<1>8. ASSUME NEW c \in Conns, HookClient(c) PROVE OpenSockets'
  BY <1>8 DEF HookClient, Move, closeVars, copyVars, peerVars
<1>9. ASSUME NEW c \in Conns, DialSucceeds(c) PROVE OpenSockets'
  BY <1>9 DEF DialSucceeds, Move, closeVars, copyVars, peerVars
<1>10. ASSUME NEW c \in Conns, DialRefused(c) PROVE OpenSockets'
  BY <1>10 DEF DialRefused, Move, closeVars, copyVars, peerVars
<1>11. ASSUME NEW c \in Conns, DialCancelled(c) PROVE OpenSockets'
  BY <1>11 DEF DialCancelled, Move, closeVars, copyVars, peerVars
<1>12. ASSUME NEW c \in Conns, HookGuest(c) PROVE OpenSockets'
  BY <1>12 DEF HookGuest, Move, closeVars, peerVars
<1>13. ASSUME NEW c \in Conns, BothEnded(c) PROVE OpenSockets'
  BY <1>13 DEF BothEnded, Move, closeVars, copyVars, peerVars
<1>14. ASSUME NEW c \in Conns, Leave(c) PROVE OpenSockets'
  BY <1>14 DEF Leave, Move, closeVars, copyVars, peerVars, Shut
<1>15. ASSUME NEW c \in Conns, UpReads(c) PROVE OpenSockets'
  BY <1>15 DEF UpReads, closeVars, peerVars
<1>16. ASSUME NEW c \in Conns, UpWrites(c) PROVE OpenSockets'
  BY <1>16 DEF UpWrites, closeVars, peerVars
<1>17. ASSUME NEW c \in Conns, UpEnds(c) PROVE OpenSockets'
  BY <1>17 DEF UpEnds, closeVars, peerVars
<1>18. ASSUME NEW c \in Conns, DownReads(c) PROVE OpenSockets'
  BY <1>18 DEF DownReads, closeVars, peerVars
<1>19. ASSUME NEW c \in Conns, DownWrites(c) PROVE OpenSockets'
  BY <1>19 DEF DownWrites, closeVars, peerVars
<1>20. ASSUME NEW c \in Conns, DownEnds(c) PROVE OpenSockets'
  BY <1>20 DEF DownEnds, closeVars, peerVars
<1>21. CASE AcceptorReturns
  BY <1>21 DEF AcceptorReturns, closeVars, copyVars, peerVars
<1>22. ASSUME NEW k \in Closers, CallClose(k) PROVE OpenSockets'
  BY <1>22 DEF CallClose, copyVars, peerVars
<1>23. ASSUME NEW k \in Closers, Cancel(k) PROVE OpenSockets'
  BY <1>23 DEF Cancel, copyVars, peerVars
<1>24. ASSUME NEW k \in Closers, CloseListener(k) PROVE OpenSockets'
  BY <1>24 DEF CloseListener, copyVars, peerVars
<1>25. ASSUME NEW k \in Closers, WaitEnds(k) PROVE OpenSockets'
  BY <1>25 DEF WaitEnds, copyVars, peerVars
<1>26. ASSUME NEW k \in Closers, AlreadyClosed(k) PROVE OpenSockets'
  BY <1>26 DEF AlreadyClosed, copyVars, peerVars
<1>27. CASE UNCHANGED vars
  BY <1>27 DEF vars
<1>. QED
  BY <1>1, <1>2, <1>3, <1>4, <1>5, <1>6, <1>7, <1>8, <1>9, <1>10, <1>11,
     <1>12, <1>13, <1>14, <1>15, <1>16, <1>17, <1>18, <1>19, <1>20, <1>21,
     <1>22, <1>23, <1>24, <1>25, <1>26, <1>27 DEF Next, PeerStep, HookStep,
     ProxyStep, CopyStep, CloseStep, Finished

(* The invariant holds in every reachable state.                           *)
THEOREM Invariance == Spec => []IInv
<1>1. Init => IInv
  <2> SUFFICES ASSUME Init PROVE IInv
    OBVIOUS
  <2>1. Proxies = {}
    BY DEF Init, Proxies, Running
  <2>2. Counted
    BY <2>1, FS_EmptySet DEF Init, Counted
  <2>3. TypeOK /\ Handover /\ Closing /\ OpenSockets
    BY DEF Init, TypeOK, Handover, Closing, OpenSockets
  <2>. QED
    BY <2>2, <2>3 DEF IInv
<1>2. IInv /\ [Next]_vars => IInv'
  BY CountStep, TypeStep, HandoverStep, ClosingStep, OpenSocketsStep DEF IInv
<1>. QED
  BY <1>1, <1>2, PTL DEF Spec

(* Every variable keeps its type; the counter is never negative.           *)
THEOREM TypeCorrect == Spec => []TypeOK
BY Invariance, PTL DEF IInv

(* When a Close has returned, to whichever caller, the forwarder is gone:  *)
(* no listener, no goroutine, no socket of any connection, whatever was    *)
(* being accepted, dialed or copied when it was called.                    *)
CloseComplete ==
  (\E k \in Closers : closer[k] = "returned") =>
    /\ ~listening
    /\ acceptor = "returned"
    /\ \A c \in Conns :
         /\ pc[c] \in {"away", "reset", "left"}
         /\ client[c] # "open" /\ guest[c] # "open"

(* A Close that has returned leaves no listener, goroutine or socket.      *)
THEOREM CloseLeavesNothing == Spec => []CloseComplete
<1>1. IInv => CloseComplete
  <2> SUFFICES ASSUME IInv, NEW k \in Closers, closer[k] = "returned"
               PROVE  /\ ~listening
                      /\ acceptor = "returned"
                      /\ \A c \in Conns :
                           /\ pc[c] \in {"away", "reset", "left"}
                           /\ client[c] # "open" /\ guest[c] # "open"
    BY DEF CloseComplete
  <2>1. ~listening /\ wg = 0
    BY DEF IInv, Closing
  <2>2. acceptor = "returned" /\ Proxies = {}
    BY <2>1, ZeroCount DEF IInv
  <2>3. ASSUME NEW c \in Conns
        PROVE  pc[c] \in {"away", "reset", "left"}
    <3>1. pc[c] \notin Running
      BY <2>2 DEF Proxies
    <3>2. pc[c] # "queued" /\ pc[c] # "accepted"
      BY <2>1, <2>2 DEF IInv, Closing, Handover
    <3>. QED
      BY <3>1, <3>2 DEF IInv, TypeOK, Running
  <2>. QED
    BY <2>1, <2>2, <2>3 DEF IInv, OpenSockets
<1>. QED
  BY <1>1, Invariance, PTL

-----------------------------------------------------------------------------
(* What keeps a Close from waiting for a peer: a goroutine that dials or   *)
(* copies has the hook armed for each socket of its that is still open, so *)
(* that cancelling will close it under a Read or a Write that blocks.      *)
Breakable ==
  \A c \in Conns :
    /\ pc[c] \in {"dialing", "dialed", "copying"} /\ client[c] = "open" =>
         "client" \in hooks[c]
    /\ pc[c] = "copying" /\ guest[c] = "open" => "guest" \in hooks[c]

(* Every step leaves the hook armed that will close an open socket.        *)
LEMMA BreakableStep ==
  ASSUME TypeOK, Breakable, [Next]_vars
  PROVE  Breakable'
<1> USE DEF TypeOK, Breakable
<1>1. ASSUME NEW c \in Conns, Connect(c) PROVE Breakable'
  BY <1>1 DEF Connect, Move, closeVars, copyVars, peerVars
<1>2. ASSUME NEW c \in Conns, ClientFades(c) PROVE Breakable'
  BY <1>2 DEF ClientFades, closeVars, copyVars
<1>3. ASSUME NEW c \in Conns, GuestFades(c) PROVE Breakable'
  BY <1>3 DEF GuestFades, closeVars, copyVars
<1>4. ASSUME NEW c \in Conns, Accept(c) PROVE Breakable'
  BY <1>4 DEF Accept, Move, closeVars, copyVars, peerVars
<1>5. ASSUME NEW c \in Conns, Spawn(c) PROVE Breakable'
  BY <1>5 DEF Spawn, Move, closeVars, copyVars, peerVars
<1>6. ASSUME NEW c \in Conns, RunClientHook(c) PROVE Breakable'
  BY <1>6 DEF RunClientHook, closeVars, copyVars, peerVars
<1>7. ASSUME NEW c \in Conns, RunGuestHook(c) PROVE Breakable'
  BY <1>7 DEF RunGuestHook, closeVars, copyVars, peerVars
<1>8. ASSUME NEW c \in Conns, HookClient(c) PROVE Breakable'
  BY <1>8 DEF HookClient, Move, closeVars, copyVars, peerVars
<1>9. ASSUME NEW c \in Conns, DialSucceeds(c) PROVE Breakable'
  BY <1>9 DEF DialSucceeds, Move, closeVars, copyVars, peerVars
<1>10. ASSUME NEW c \in Conns, DialRefused(c) PROVE Breakable'
  BY <1>10 DEF DialRefused, Move, closeVars, copyVars, peerVars
<1>11. ASSUME NEW c \in Conns, DialCancelled(c) PROVE Breakable'
  BY <1>11 DEF DialCancelled, Move, closeVars, copyVars, peerVars
<1>12. ASSUME NEW c \in Conns, HookGuest(c) PROVE Breakable'
  BY <1>12 DEF HookGuest, Move, closeVars, peerVars
<1>13. ASSUME NEW c \in Conns, BothEnded(c) PROVE Breakable'
  BY <1>13 DEF BothEnded, Move, closeVars, copyVars, peerVars
<1>14. ASSUME NEW c \in Conns, Leave(c) PROVE Breakable'
  BY <1>14 DEF Leave, Move, closeVars, copyVars, peerVars, Shut
<1>15. ASSUME NEW c \in Conns, UpReads(c) PROVE Breakable'
  BY <1>15 DEF UpReads, closeVars, peerVars
<1>16. ASSUME NEW c \in Conns, UpWrites(c) PROVE Breakable'
  BY <1>16 DEF UpWrites, closeVars, peerVars
<1>17. ASSUME NEW c \in Conns, UpEnds(c) PROVE Breakable'
  BY <1>17 DEF UpEnds, closeVars, peerVars
<1>18. ASSUME NEW c \in Conns, DownReads(c) PROVE Breakable'
  BY <1>18 DEF DownReads, closeVars, peerVars
<1>19. ASSUME NEW c \in Conns, DownWrites(c) PROVE Breakable'
  BY <1>19 DEF DownWrites, closeVars, peerVars
<1>20. ASSUME NEW c \in Conns, DownEnds(c) PROVE Breakable'
  BY <1>20 DEF DownEnds, closeVars, peerVars
<1>21. CASE AcceptorReturns
  BY <1>21 DEF AcceptorReturns, closeVars, copyVars, peerVars
<1>22. ASSUME NEW k \in Closers, CallClose(k) PROVE Breakable'
  BY <1>22 DEF CallClose, copyVars, peerVars
<1>23. ASSUME NEW k \in Closers, Cancel(k) PROVE Breakable'
  BY <1>23 DEF Cancel, copyVars, peerVars
<1>24. ASSUME NEW k \in Closers, CloseListener(k) PROVE Breakable'
  BY <1>24 DEF CloseListener, copyVars, peerVars
<1>25. ASSUME NEW k \in Closers, WaitEnds(k) PROVE Breakable'
  BY <1>25 DEF WaitEnds, copyVars, peerVars
<1>26. ASSUME NEW k \in Closers, AlreadyClosed(k) PROVE Breakable'
  BY <1>26 DEF AlreadyClosed, copyVars, peerVars
<1>27. CASE UNCHANGED vars
  BY <1>27 DEF vars
<1>. QED
  BY <1>1, <1>2, <1>3, <1>4, <1>5, <1>6, <1>7, <1>8, <1>9, <1>10, <1>11,
     <1>12, <1>13, <1>14, <1>15, <1>16, <1>17, <1>18, <1>19, <1>20, <1>21,
     <1>22, <1>23, <1>24, <1>25, <1>26, <1>27 DEF Next, PeerStep, HookStep,
     ProxyStep, CopyStep, CloseStep, Finished

(* Whatever a goroutine of the forwarder waits for on a socket, cancelling *)
(* ends it.                                                                *)
THEOREM NothingBlocksClose == Spec => []Breakable
<1>1. Init => Breakable
  BY DEF Init, Breakable
<1>2. IInv /\ Breakable /\ [Next]_vars => Breakable'
  BY BreakableStep DEF IInv
<1>. QED
  BY <1>1, <1>2, Invariance, PTL DEF Spec

(* The rule of sync.WaitGroup: a Wait may have begun when a connection is  *)
(* still being accepted, so an Add must never find the counter at zero.    *)
(* It does not: the accept loop's own count covers that connection.        *)
THEOREM WaitGroupRule == Spec => [][wg' > wg => wg > 0]_vars
<1>1. ASSUME IInv, [Next]_vars PROVE wg' > wg => wg > 0
  <2>1. Same \/ Grows \/ Shrinks \/ LoopEnds
    BY <1>1, StepShape DEF IInv
  <2>2. wg \in Nat
    BY <1>1 DEF IInv, TypeOK
  <2>3. CASE Grows
    <3>1. IsFiniteSet(Proxies)
      BY ConnsFinite, FS_Subset DEF Proxies
    <3>2. Cardinality(Proxies) \in Nat
      BY <3>1, FS_CardinalityType
    <3>. QED
      BY <1>1, <2>3, <3>2 DEF IInv, Counted, Grows
  <2>4. CASE Same \/ Shrinks \/ LoopEnds
    BY <2>2, <2>4 DEF Same, Shrinks, LoopEnds
  <2>. QED
    BY <2>1, <2>3, <2>4
<1>2. IInv /\ [Next]_vars => [wg' > wg => wg > 0]_vars
  BY <1>1
<1>. QED
  BY <1>2, Invariance, PTL DEF Spec

-----------------------------------------------------------------------------
(* A copy that has not begun has not ended either, and one whose peers are *)
(* both there goes on until the forwarder is closed.                       *)
Early == {"away", "queued", "reset", "accepted", "starting", "dialing", "dialed"}
Undisturbed ==
  \A c \in Conns :
    /\ pc[c] \in Early => up[c] = "off" /\ down[c] = "off"
    /\ pc[c] \in {"accepted", "starting", "dialing", "dialed"} /\ ~cancelled =>
         client[c] = "open"
    /\ pc[c] = "dialed" /\ ~cancelled => guest[c] = "open"
    /\ /\ pc[c] = "copying" /\ ~cancelled
       /\ clientPeer[c] = "open" /\ guestPeer[c] = "open"
       => /\ client[c] = "open" /\ guest[c] = "open"
          /\ up[c] \in {"reading", "writing"} /\ down[c] \in {"reading", "writing"}

(* No step but the loss of a peer, or a Close, ends a connection in use.   *)
LEMMA UndisturbedStep ==
  ASSUME TypeOK, Undisturbed, [Next]_vars
  PROVE  Undisturbed'
<1> USE DEF TypeOK, Undisturbed, Early
<1>1. ASSUME NEW c \in Conns, Connect(c) PROVE Undisturbed'
  BY <1>1 DEF Connect, Move, closeVars, copyVars, peerVars
<1>2. ASSUME NEW c \in Conns, ClientFades(c) PROVE Undisturbed'
  BY <1>2 DEF ClientFades, closeVars, copyVars
<1>3. ASSUME NEW c \in Conns, GuestFades(c) PROVE Undisturbed'
  BY <1>3 DEF GuestFades, closeVars, copyVars
<1>4. ASSUME NEW c \in Conns, Accept(c) PROVE Undisturbed'
  BY <1>4 DEF Accept, Move, closeVars, copyVars, peerVars
<1>5. ASSUME NEW c \in Conns, Spawn(c) PROVE Undisturbed'
  BY <1>5 DEF Spawn, Move, closeVars, copyVars, peerVars
<1>6. ASSUME NEW c \in Conns, RunClientHook(c) PROVE Undisturbed'
  BY <1>6 DEF RunClientHook, closeVars, copyVars, peerVars
<1>7. ASSUME NEW c \in Conns, RunGuestHook(c) PROVE Undisturbed'
  BY <1>7 DEF RunGuestHook, closeVars, copyVars, peerVars
<1>8. ASSUME NEW c \in Conns, HookClient(c) PROVE Undisturbed'
  BY <1>8 DEF HookClient, Move, closeVars, copyVars, peerVars
<1>9. ASSUME NEW c \in Conns, DialSucceeds(c) PROVE Undisturbed'
  BY <1>9 DEF DialSucceeds, Move, closeVars, copyVars, peerVars
<1>10. ASSUME NEW c \in Conns, DialRefused(c) PROVE Undisturbed'
  BY <1>10 DEF DialRefused, Move, closeVars, copyVars, peerVars
<1>11. ASSUME NEW c \in Conns, DialCancelled(c) PROVE Undisturbed'
  BY <1>11 DEF DialCancelled, Move, closeVars, copyVars, peerVars
<1>12. ASSUME NEW c \in Conns, HookGuest(c) PROVE Undisturbed'
  BY <1>12 DEF HookGuest, Move, closeVars, peerVars
<1>13. ASSUME NEW c \in Conns, UpReads(c) PROVE Undisturbed'
  BY <1>13 DEF UpReads, closeVars, peerVars
<1>14. ASSUME NEW c \in Conns, UpWrites(c) PROVE Undisturbed'
  BY <1>14 DEF UpWrites, closeVars, peerVars
<1>15. ASSUME NEW c \in Conns, UpEnds(c) PROVE Undisturbed'
  BY <1>15 DEF UpEnds, ReadEnds, WriteEnds, closeVars, peerVars
<1>16. ASSUME NEW c \in Conns, DownReads(c) PROVE Undisturbed'
  BY <1>16 DEF DownReads, closeVars, peerVars
<1>17. ASSUME NEW c \in Conns, DownWrites(c) PROVE Undisturbed'
  BY <1>17 DEF DownWrites, closeVars, peerVars
<1>18. ASSUME NEW c \in Conns, DownEnds(c) PROVE Undisturbed'
  BY <1>18 DEF DownEnds, ReadEnds, WriteEnds, closeVars, peerVars
<1>19. ASSUME NEW c \in Conns, BothEnded(c) PROVE Undisturbed'
  BY <1>19 DEF BothEnded, Move, closeVars, copyVars, peerVars
<1>20. ASSUME NEW c \in Conns, Leave(c) PROVE Undisturbed'
  BY <1>20 DEF Leave, Move, Shut, closeVars, copyVars, peerVars
<1>21. ASSUME NEW k \in Closers, CallClose(k) PROVE Undisturbed'
  BY <1>21 DEF CallClose, copyVars, peerVars
<1>22. ASSUME NEW k \in Closers, Cancel(k) PROVE Undisturbed'
  BY <1>22 DEF Cancel, copyVars, peerVars
<1>23. ASSUME NEW k \in Closers, CloseListener(k) PROVE Undisturbed'
  BY <1>23 DEF CloseListener, copyVars, peerVars
<1>24. ASSUME NEW k \in Closers, WaitEnds(k) PROVE Undisturbed'
  BY <1>24 DEF WaitEnds, copyVars, peerVars
<1>25. ASSUME NEW k \in Closers, AlreadyClosed(k) PROVE Undisturbed'
  BY <1>25 DEF AlreadyClosed, copyVars, peerVars
<1>26. CASE AcceptorReturns
  BY <1>26 DEF AcceptorReturns, closeVars, copyVars, peerVars
<1>27. CASE UNCHANGED vars
  BY <1>27 DEF vars
<1> HIDE DEF TypeOK, Undisturbed
<1>. QED
  BY <1>1, <1>2, <1>3, <1>4, <1>5, <1>6, <1>7, <1>8, <1>9, <1>10, <1>11,
     <1>12, <1>13, <1>14, <1>15, <1>16, <1>17, <1>18, <1>19, <1>20, <1>21,
     <1>22, <1>23, <1>24, <1>25, <1>26, <1>27 DEF Next, PeerStep, HookStep,
     ProxyStep, CopyStep, CloseStep, Finished

(* A connection whose peers are both there keeps both its sockets until the*)
(* forwarder is closed, whatever happens to other connections.             *)
THEOREM HealthyKept == Spec => HealthyStays
<1> DEFINE Kept ==
      \A c \in Conns :
        /\ pc[c] = "copying" /\ ~cancelled
        /\ clientPeer[c] = "open" /\ guestPeer[c] = "open"
        => client'[c] = "open" /\ guest'[c] = "open" /\ pc'[c] = "copying"
<1>1. Init => Undisturbed
  BY DEF Init, Undisturbed
<1>2. IInv /\ Undisturbed /\ [Next]_vars => Undisturbed'
  BY UndisturbedStep DEF IInv
<1>3. IInv /\ Undisturbed /\ [Next]_vars => [Kept]_vars
  <2> SUFFICES ASSUME TypeOK, Undisturbed, Next PROVE Kept
    BY DEF IInv
  <2> USE DEF TypeOK, Undisturbed
  <2>1. ASSUME NEW c \in Conns, Connect(c) PROVE Kept
    BY <2>1 DEF Connect, Move, closeVars, copyVars, peerVars
  <2>2. ASSUME NEW c \in Conns, ClientFades(c) PROVE Kept
    BY <2>2 DEF ClientFades, closeVars, copyVars
  <2>3. ASSUME NEW c \in Conns, GuestFades(c) PROVE Kept
    BY <2>3 DEF GuestFades, closeVars, copyVars
  <2>4. ASSUME NEW c \in Conns, Accept(c) PROVE Kept
    BY <2>4 DEF Accept, Move, closeVars, copyVars, peerVars
  <2>5. ASSUME NEW c \in Conns, Spawn(c) PROVE Kept
    BY <2>5 DEF Spawn, Move, closeVars, copyVars, peerVars
  <2>6. ASSUME NEW c \in Conns, RunClientHook(c) PROVE Kept
    BY <2>6 DEF RunClientHook, closeVars, copyVars, peerVars
  <2>7. ASSUME NEW c \in Conns, RunGuestHook(c) PROVE Kept
    BY <2>7 DEF RunGuestHook, closeVars, copyVars, peerVars
  <2>8. ASSUME NEW c \in Conns, HookClient(c) PROVE Kept
    BY <2>8 DEF HookClient, Move, closeVars, copyVars, peerVars
  <2>9. ASSUME NEW c \in Conns, DialSucceeds(c) PROVE Kept
    BY <2>9 DEF DialSucceeds, Move, closeVars, copyVars, peerVars
  <2>10. ASSUME NEW c \in Conns, DialRefused(c) PROVE Kept
    BY <2>10 DEF DialRefused, Move, closeVars, copyVars, peerVars
  <2>11. ASSUME NEW c \in Conns, DialCancelled(c) PROVE Kept
    BY <2>11 DEF DialCancelled, Move, closeVars, copyVars, peerVars
  <2>12. ASSUME NEW c \in Conns, HookGuest(c) PROVE Kept
    BY <2>12 DEF HookGuest, Move, closeVars, peerVars
  <2>13. ASSUME NEW c \in Conns, UpReads(c) PROVE Kept
    BY <2>13 DEF UpReads, closeVars, peerVars
  <2>14. ASSUME NEW c \in Conns, UpWrites(c) PROVE Kept
    BY <2>14 DEF UpWrites, closeVars, peerVars
  <2>15. ASSUME NEW c \in Conns, UpEnds(c) PROVE Kept
    BY <2>15 DEF UpEnds, ReadEnds, WriteEnds, closeVars, peerVars
  <2>16. ASSUME NEW c \in Conns, DownReads(c) PROVE Kept
    BY <2>16 DEF DownReads, closeVars, peerVars
  <2>17. ASSUME NEW c \in Conns, DownWrites(c) PROVE Kept
    BY <2>17 DEF DownWrites, closeVars, peerVars
  <2>18. ASSUME NEW c \in Conns, DownEnds(c) PROVE Kept
    BY <2>18 DEF DownEnds, ReadEnds, WriteEnds, closeVars, peerVars
  <2>19. ASSUME NEW c \in Conns, BothEnded(c) PROVE Kept
    BY <2>19 DEF BothEnded, Move, closeVars, copyVars, peerVars
  <2>20. ASSUME NEW c \in Conns, Leave(c) PROVE Kept
    BY <2>20 DEF Leave, Move, Shut, closeVars, copyVars, peerVars
  <2>21. ASSUME NEW k \in Closers, CallClose(k) PROVE Kept
    BY <2>21 DEF CallClose, copyVars, peerVars
  <2>22. ASSUME NEW k \in Closers, Cancel(k) PROVE Kept
    BY <2>22 DEF Cancel, copyVars, peerVars
  <2>23. ASSUME NEW k \in Closers, CloseListener(k) PROVE Kept
    BY <2>23 DEF CloseListener, copyVars, peerVars
  <2>24. ASSUME NEW k \in Closers, WaitEnds(k) PROVE Kept
    BY <2>24 DEF WaitEnds, copyVars, peerVars
  <2>25. ASSUME NEW k \in Closers, AlreadyClosed(k) PROVE Kept
    BY <2>25 DEF AlreadyClosed, copyVars, peerVars
  <2>26. CASE AcceptorReturns
    BY <2>26 DEF AcceptorReturns, closeVars, copyVars, peerVars
  <2>27. CASE UNCHANGED vars
    BY <2>27 DEF vars
  <2> HIDE DEF TypeOK, Undisturbed, Kept
  <2>. QED
    BY <2>1, <2>2, <2>3, <2>4, <2>5, <2>6, <2>7, <2>8, <2>9, <2>10, <2>11,
       <2>12, <2>13, <2>14, <2>15, <2>16, <2>17, <2>18, <2>19, <2>20, <2>21,
       <2>22, <2>23, <2>24, <2>25, <2>26, <2>27 DEF Next, PeerStep,
       HookStep, ProxyStep, CopyStep, CloseStep, Finished
<1>. QED
  BY <1>1, <1>2, <1>3, Invariance, PTL DEF Spec, HealthyStays

-----------------------------------------------------------------------------
(* The promise of PortForward: what it sees of the forwarder.              *)
Working ==
  {c \in Conns : pc[c] \in {"accepted", "starting", "dialing", "dialed", "copying",
                            "leaving"}}
Served ==
  {c \in Conns :
    \/ pc[c] \in {"accepted", "starting", "dialing", "dialed", "copying", "leaving"}
    \/ client[c] = "open" \/ guest[c] = "open"}
Past == {c \in Conns : pc[c] = "left"}
Caller ==
  [k \in Closers |->
    IF closer[k] \in {"cancelled", "waiting"} THEN "called" ELSE closer[k]]

(* Only a connection with a goroutine has open sockets.                    *)
LEMMA ServedIs ==
  ASSUME IInv, IInv'
  PROVE  Served = Working /\ Served' = Working'
BY DEF Served, Working, IInv, TypeOK, OpenSockets

LEMMA Unseen ==
  ASSUME IInv, IInv', UNCHANGED <<listening, Working, Past, Caller>>
  PROVE  UNCHANGED Promise!vars
BY ServedIs DEF Promise!vars, Served, Past, Caller

(* Between its Accept and its end nothing is seen of a connection.         *)
LEMMA StillServed ==
  ASSUME UNCHANGED <<closer, listening>>, IInv, IInv',
         NEW c \in Conns,
         \/ pc' = pc
         \/ \E to \in {"starting", "dialing", "dialed", "copying", "leaving"} :
              c \in Working /\ pc' = [pc EXCEPT ![c] = to]
  PROVE  UNCHANGED Promise!vars
<1>1. Working' = Working /\ Past' = Past
  BY DEF Working, Past, IInv, TypeOK
<1>2. Caller' = Caller
  BY DEF Caller
<1>. QED
  BY <1>1, <1>2, Unseen

(* A step of the forwarder is one that its promise allows, or is not seen. *)
LEMMA PromiseStep ==
  ASSUME IInv, IInv', [Next]_vars
  PROVE  [Promise!Next]_(Promise!vars)
<1> DEFINE Kept == [Promise!Next]_(Promise!vars)
<1> SUFFICES Kept
  OBVIOUS
<1>a. pc \in [Conns -> {"away", "queued", "reset", "accepted", "starting", "dialing",
                       "dialed", "copying", "leaving", "left"}]
  BY DEF IInv, TypeOK
<1>b. Served = Working /\ Served' = Working'
  BY ServedIs
<1>c. closer \in [Closers -> {"idle", "called", "cancelled", "waiting", "returned"}]
  BY DEF IInv, TypeOK
<1> HIDE DEF Kept
<1>1. ASSUME NEW c \in Conns, Connect(c) PROVE Kept
  <2>1. Working' = Working /\ Past' = Past
    BY <1>1, <1>a DEF Connect, Move, Working, Past
  <2>2. Caller' = Caller /\ listening' = listening
    BY <1>1 DEF Connect, closeVars, Caller
  <2>. QED
    BY <2>1, <2>2, Unseen DEF Kept
<1>2. ASSUME NEW c \in Conns, ClientFades(c) PROVE Kept
  BY <1>2, StillServed DEF ClientFades, closeVars, Kept
<1>3. ASSUME NEW c \in Conns, GuestFades(c) PROVE Kept
  BY <1>3, StillServed DEF GuestFades, closeVars, Kept
<1>4. ASSUME NEW c \in Conns, RunClientHook(c) PROVE Kept
  BY <1>4, StillServed DEF RunClientHook, closeVars, Kept
<1>5. ASSUME NEW c \in Conns, RunGuestHook(c) PROVE Kept
  BY <1>5, StillServed DEF RunGuestHook, closeVars, Kept
<1>6. ASSUME NEW c \in Conns, UpReads(c) PROVE Kept
  BY <1>6, StillServed DEF UpReads, closeVars, Kept
<1>7. ASSUME NEW c \in Conns, UpWrites(c) PROVE Kept
  BY <1>7, StillServed DEF UpWrites, closeVars, Kept
<1>8. ASSUME NEW c \in Conns, UpEnds(c) PROVE Kept
  BY <1>8, StillServed DEF UpEnds, closeVars, Kept
<1>9. ASSUME NEW c \in Conns, DownReads(c) PROVE Kept
  BY <1>9, StillServed DEF DownReads, closeVars, Kept
<1>10. ASSUME NEW c \in Conns, DownWrites(c) PROVE Kept
  BY <1>10, StillServed DEF DownWrites, closeVars, Kept
<1>11. ASSUME NEW c \in Conns, DownEnds(c) PROVE Kept
  BY <1>11, StillServed DEF DownEnds, closeVars, Kept
<1>12. ASSUME NEW c \in Conns, Spawn(c) PROVE Kept
  BY <1>12, StillServed DEF Spawn, Move, closeVars, Working, Kept
<1>13. ASSUME NEW c \in Conns, HookClient(c) PROVE Kept
  BY <1>13, StillServed DEF HookClient, Move, closeVars, Working, Kept
<1>14. ASSUME NEW c \in Conns, DialSucceeds(c) PROVE Kept
  BY <1>14, StillServed DEF DialSucceeds, Move, closeVars, Working, Kept
<1>15. ASSUME NEW c \in Conns, DialRefused(c) PROVE Kept
  BY <1>15, StillServed DEF DialRefused, Move, closeVars, Working, Kept
<1>16. ASSUME NEW c \in Conns, DialCancelled(c) PROVE Kept
  BY <1>16, StillServed DEF DialCancelled, Move, closeVars, Working, Kept
<1>17. ASSUME NEW c \in Conns, HookGuest(c) PROVE Kept
  BY <1>17, StillServed DEF HookGuest, Move, closeVars, Working, Kept
<1>18. ASSUME NEW c \in Conns, BothEnded(c) PROVE Kept
  BY <1>18, StillServed DEF BothEnded, Move, closeVars, Working, Kept
<1>19. ASSUME NEW c \in Conns, Accept(c) PROVE Kept
  <2>1. /\ listening /\ c \notin Working \cup Past
        /\ Working' = Working \cup {c} /\ Past' = Past
    BY <1>19, <1>a DEF Accept, Move, Working, Past
  <2>2. Caller' = Caller /\ listening' = listening
    BY <1>19 DEF Accept, closeVars, Caller
  <2>3. Promise!Serve(c)
    BY <2>1, <2>2, <1>b DEF Promise!Serve, Served, Past, Caller
  <2>. QED
    BY <2>3 DEF Promise!Next, Kept
<1>20. ASSUME NEW c \in Conns, Leave(c) PROVE Kept
  <2>1. /\ c \in Working
        /\ Working' = Working \ {c} /\ Past' = Past \cup {c}
    BY <1>20, <1>a DEF Leave, Move, Working, Past
  <2>2. Caller' = Caller /\ listening' = listening
    BY <1>20 DEF Leave, closeVars, Caller
  <2>3. Promise!Finish(c)
    BY <2>1, <2>2, <1>b DEF Promise!Finish, Served, Past, Caller
  <2>. QED
    BY <2>3 DEF Promise!Next, Kept
<1>21. CASE AcceptorReturns
  <2>1. Working' = Working /\ Past' = Past
    BY <1>21 DEF AcceptorReturns, Working, Past
  <2>2. Caller' = Caller /\ listening' = listening
    BY <1>21 DEF AcceptorReturns, closeVars, Caller
  <2>. QED
    BY <2>1, <2>2, Unseen DEF Kept
<1>22. ASSUME NEW k \in Closers, CallClose(k) PROVE Kept
  <2>1. Working' = Working /\ Past' = Past /\ listening' = listening
    BY <1>22 DEF CallClose, Working, Past
  <2>2. Caller[k] = "idle" /\ Caller' = [Caller EXCEPT ![k] = "called"]
    BY <1>22, <1>c DEF CallClose, Caller
  <2>3. Promise!Call(k)
    BY <2>1, <2>2, <1>b DEF Promise!Call, Served, Past, Caller
  <2>. QED
    BY <2>3 DEF Promise!Next, Kept
<1>23. ASSUME NEW k \in Closers, Cancel(k) PROVE Kept
  <2>1. Working' = Working /\ Past' = Past /\ listening' = listening
    BY <1>23 DEF Cancel, Working, Past
  <2>2. Caller' = Caller
    BY <1>23, <1>c DEF Cancel, Caller
  <2>. QED
    BY <2>1, <2>2, Unseen DEF Kept
<1>24. ASSUME NEW k \in Closers, CloseListener(k) PROVE Kept
  <2>1. Working' = Working /\ Past' = Past /\ listening' = FALSE
    BY <1>24, <1>a DEF CloseListener, Working, Past
  <2>2. Caller' = Caller /\ Caller[k] = "called"
    BY <1>24, <1>c DEF CloseListener, Caller
  <2>3. CASE listening
    <3>1. Promise!Shut
      BY <2>1, <2>2, <2>3, <1>b DEF Promise!Shut, Served, Past, Caller
    <3>. QED
      BY <3>1 DEF Promise!Next, Kept
  <2>4. CASE ~listening
    <3>1. listening' = listening
      BY <2>1, <2>4 DEF IInv, TypeOK
    <3>. QED
      BY <3>1, <2>1, <2>2, Unseen DEF Kept
  <2>. QED
    BY <2>3, <2>4
<1>25. ASSUME NEW k \in Closers, WaitEnds(k) PROVE Kept
  <2>1. ~listening /\ wg = 0
    BY <1>25 DEF WaitEnds, IInv, Closing
  <2>2. Working = {}
    <3>1. acceptor = "returned" /\ Proxies = {}
      BY <2>1, ZeroCount DEF IInv
    <3>. QED
      BY <3>1 DEF IInv, Handover, Working, Proxies, Running
  <2>3. Working' = Working /\ Past' = Past /\ listening' = listening
    BY <1>25 DEF WaitEnds, Working, Past
  <2>4. Caller[k] = "called" /\ Caller' = [Caller EXCEPT ![k] = "returned"]
    BY <1>25, <1>c DEF WaitEnds, Caller
  <2>5. Promise!Return(k)
    BY <2>1, <2>2, <2>3, <2>4, <1>b DEF Promise!Return, Served, Past, Caller
  <2>. QED
    BY <2>5 DEF Promise!Next, Kept
<1>26. ASSUME NEW k \in Closers, AlreadyClosed(k) PROVE Kept
  <2>1. ~listening /\ wg = 0
    BY <1>26 DEF AlreadyClosed, IInv, Closing
  <2>2. Working = {}
    <3>1. acceptor = "returned" /\ Proxies = {}
      BY <2>1, ZeroCount DEF IInv
    <3>. QED
      BY <3>1 DEF IInv, Handover, Working, Proxies, Running
  <2>3. Working' = Working /\ Past' = Past /\ listening' = listening
    BY <1>26 DEF AlreadyClosed, Working, Past
  <2>4. Caller[k] = "called" /\ Caller' = [Caller EXCEPT ![k] = "returned"]
    BY <1>26, <1>c DEF AlreadyClosed, Caller
  <2>5. Promise!Return(k)
    BY <2>1, <2>2, <2>3, <2>4, <1>b DEF Promise!Return, Served, Past, Caller
  <2>. QED
    BY <2>5 DEF Promise!Next, Kept
<1>27. CASE UNCHANGED vars
  <2>1. Working' = Working /\ Past' = Past /\ Caller' = Caller /\ listening' = listening
    BY <1>27 DEF vars, Working, Past, Caller
  <2>. QED
    BY <2>1, Unseen DEF Kept
<1>. QED
  BY <1>1, <1>2, <1>3, <1>4, <1>5, <1>6, <1>7, <1>8, <1>9, <1>10, <1>11,
     <1>12, <1>13, <1>14, <1>15, <1>16, <1>17, <1>18, <1>19, <1>20, <1>21,
     <1>22, <1>23, <1>24, <1>25, <1>26, <1>27 DEF Next, PeerStep, HookStep,
     ProxyStep, CopyStep, CloseStep, Finished

(* The forwarder, with its goroutines, hooks and wait group, keeps the     *)
(* promise that the registry relies on, for any finite number of           *)
(* connections and any callers of Close.                                   *)
THEOREM PromiseKept == Spec => KeepsPromise
<1>1. Init => Promise!Init
  <2> SUFFICES ASSUME Init PROVE Promise!Init
    OBVIOUS
  <2>1. Served = {} /\ Past = {} /\ Caller = [k \in Closers |-> "idle"] /\ listening = TRUE
    BY DEF Init, Served, Past, Caller
  <2>. QED
    BY <2>1 DEF Promise!Init, Served, Past, Caller
<1>2. IInv /\ IInv' /\ [Next]_vars => [Promise!Next]_(Promise!vars)
  BY PromiseStep
<1>. QED
  BY <1>1, <1>2, Invariance, PTL DEF Spec, KeepsPromise, Promise!Spec
===============================================================================
