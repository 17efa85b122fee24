---------------------------- MODULE MCVMLifecycle ----------------------------
(* Launcher processes are alike, and so are daemons.                       *)
EXTENDS VMLifecycle, TLC

Symmetry == Permutations(CLIs) \cup Permutations(Daemons)

Busy == {c \in CLIs : cpc[c] # "idle"}
Living == {d \in Daemons : Alive(d)}

(* All that guards and properties other than NoLateResult ask for: nothing *)
(* about the handler, the pid file, the listener of a daemon that is dead, *)
(* and nothing about the last words or the process of an idle command.     *)
Future ==
  <<cpc, [c \in Busy |-> <<proc[c], said[c]>>], blind \cap Busy,
    dpc, on, {d \in Living : term[d]}, nameless \cap Living, deaf \cap Living,
    missed \cap (Living \cup {proc[c] : c \in Busy}), fileVars>>

(* Two daemons live side by side, but the last one only alone: that one is *)
(* there to meet what dead daemons have left behind.                       *)
Bound == (\A d \in Daemons : dpc[d] # "unused") => \A d, e \in Living : d = e
=============================================================================
