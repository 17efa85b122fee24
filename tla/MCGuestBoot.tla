----------------------------- MODULE MCGuestBoot -----------------------------
(* What earlier starts left comes from one of them: its files have the     *)
(* address `old`, or none; its log is whole, stops before the end marker,  *)
(* or is empty.  The network may hand out `old` again.                     *)
EXTENDS GuestBoot

CONSTANT old

MCInit ==
  /\ Init
  /\ json \in {old, None, "null", "unknown"}
  /\ log \in {Output(old), Output("unknown"), <<Start, Json(old)>>, <<>>}

MCSpec == MCInit /\ [][Next]_vars /\ WF_vars(DaemonStep)
=============================================================================
