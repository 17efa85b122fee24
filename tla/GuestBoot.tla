------------------------------ MODULE GuestBoot ------------------------------
(***************************************************************************)
(* The boot of the guest as the daemon watches it: the OpenRC services of  *)
(* the image, one at a time in the order of their dependencies, the init   *)
(* scripts that the launcher puts on the shared directory, the console log *)
(* that carries their result, and the two waits of runVMDaemon that decide *)
(* between a healthy, a degraded and a failed start.                       *)
(*                                                                         *)
(* A failed service does not stop the boot, and a failed init script does  *)
(* not stop init.sh: what may fail below does so on its own, and trouble   *)
(* remembers what did.                                                     *)
(***************************************************************************)
EXTENDS Naturals, Sequences

CONSTANTS
  Address,   \* addresses that the network hands out
  MaxNoise,  \* how often the kernel writes to the console
  None

ASSUME BootAssumption ==
  /\ MaxNoise \in Nat
  /\ Address \cap {None, "unknown", "null"} = {}
  /\ None \notin {"unknown", "null"}

VARIABLES
  svc,      \* the state of each service
  label,    \* the data disk has an ext4 file system labelled exasol-data
  var,      \* the data disk is mounted at /var
  skeleton, \* where setup-var-structure made its directories, if it did
  shared,   \* the host's directory is mounted at /mnt/host
  addr,     \* the guest's address
  keys,     \* root's authorized_keys are those of the launcher
  json,     \* the address in init-output.json, on the shared directory;
            \* None when there is no such file
  log,      \* init.log, on the shared directory
  console,  \* vm-console.log
  toPrint,  \* what cat has yet to write to the console
  noise,    \* how often the kernel has written
  daemon,   \* where runVMDaemon is
  vmIP,     \* the address it has accepted
  trouble   \* what has failed in this start

guestVars ==
  <<svc, label, var, skeleton, shared, addr, keys, json, log, toPrint>>
outVars == <<json, log, console, toPrint, noise, daemon, vmIP>>
vars == <<guestVars, console, noise, daemon, vmIP, trouble>>

-----------------------------------------------------------------------------
(* What the console shows, line by line.                                   *)

Start == [kind |-> "start", ip |-> None]
End == [kind |-> "end", ip |-> None]
Json(ip) == [kind |-> "json", ip |-> ip]
Other == [kind |-> "other", ip |-> None]  \* no marker, no JSON

Output(ip) == <<Start, Json(ip), End>>

(* What reaches a file of it when any of its writes may fail, and jq too.  *)
Cut(ip) ==
  {head \o body \o tail : head \in {<<>>, <<Start>>},
                          body \in {<<>>, <<Other>>, <<Json(ip)>>},
                          tail \in {<<>>, <<End>>}}

Note(what) == trouble' = trouble \cup {what}

-----------------------------------------------------------------------------
(* Slips, as in ForwardRegistry.                                           *)

\* Needs, without the `need localmount` of two services
SlipNoNeed(s) == {}

\* Launch that appends to the log of the last start
SlipKeepLog ==
  /\ daemon = "off"
  /\ daemon' = "reading"
  /\ UNCHANGED <<guestVars, console, noise, vmIP, trouble>>

\* Marked that takes whatever is there for the end
SlipAnyEnd(i, j) ==
  /\ i \in DOMAIN console /\ console[i] = Start
  /\ j \in DOMAIN console
  /\ i < j
  /\ \A k \in 1..(i - 1) : console[k] # Start

\* Valid that does not look at the address
SlipAnyAddress(i, j) == j = i + 2 /\ console[i + 1].kind = "json"

\* ReadTimeout that only looks for the start marker
SlipStartSeen ==
  /\ daemon = "reading"
  /\ \A i \in DOMAIN console : console[i] # Start
  /\ daemon' = "failed"
  /\ Note("timeout")
  /\ UNCHANGED <<guestVars, console, noise, vmIP>>

-----------------------------------------------------------------------------
(* The services in the runlevels boot and default, with the directives of  *)
(* their depend().  localmount, networking and sshd are Alpine's.          *)

Services ==
  {"format-data-disk", "grow-var-fs", "localmount", "networking",
   "setup-var-structure", "run-host-init", "sshd"}

Needs(s) ==
  CASE s \in {"setup-var-structure", "run-host-init"} -> {"localmount"}
    [] OTHER -> {}

(* after, the before of the others, and for sshd the whole runlevel boot.  *)
After(s) ==
  CASE s = "grow-var-fs" -> {"format-data-disk"}
    [] s = "localmount" -> {"format-data-disk", "grow-var-fs"}
    [] s = "run-host-init" -> {"networking", "setup-var-structure"}
    [] s = "sshd" -> Services \ {"sshd"}
    [] OTHER -> {}

Over(s) == svc[s] \in {"started", "failed"}

(* It is the turn of s, which ends so.                                     *)
Runs(s, end) ==
  /\ daemon # "off"
  /\ svc[s] = "waiting"
  /\ \A t \in Services : svc[t] # "running"
  /\ \A t \in Needs(s) \cup After(s) : Over(t)
  /\ \A t \in Needs(s) : svc[t] = "started"
  /\ svc' = [svc EXCEPT ![s] = end]

-----------------------------------------------------------------------------
(* format-data-disk, abstracted to its result (DataDisk has its steps).    *)
Format ==
  /\ Runs("format-data-disk", "started")
  /\ label' = TRUE
  /\ UNCHANGED <<var, skeleton, shared, addr, keys, outVars, trouble>>

FormatFails ==
  /\ Runs("format-data-disk", "failed")
  /\ Note("format")
  /\ UNCHANGED <<label, var, skeleton, shared, addr, keys, outVars>>

(* Whether the file system could be grown changes nothing here.            *)
GrowVar ==
  /\ \E end \in {"started", "failed"} : Runs("grow-var-fs", end)
  /\ UNCHANGED <<label, var, skeleton, shared, addr, keys, outVars, trouble>>

(* fstab mounts the data disk by its label.  localmount succeeds whatever  *)
(* could not be mounted, as no mount is declared critical (external).      *)
Mount ==
  /\ Runs("localmount", "started")
  /\ var' \in {FALSE, label}
  /\ shared' \in BOOLEAN
  /\ IF (label => var') /\ shared' THEN UNCHANGED trouble ELSE Note("mount")
  /\ UNCHANGED <<label, skeleton, addr, keys, outVars>>

(* DHCP, or not (external).                                                *)
Network ==
  /\ \E end \in {"started", "failed"} : Runs("networking", end)
  /\ addr' \in Address \cup {None}
  /\ IF addr' = None THEN Note("network") ELSE UNCHANGED trouble
  /\ UNCHANGED <<label, var, skeleton, shared, keys, outVars>>

(* It reports success even when a directory could not be made.             *)
SetupVar ==
  /\ Runs("setup-var-structure", "started")
  /\ \/ skeleton' = (IF var THEN "disk" ELSE "root") /\ UNCHANGED trouble
     \/ skeleton' = "part" /\ Note("skeleton")
  /\ UNCHANGED <<label, var, shared, addr, keys, outVars>>

Sshd ==
  /\ \E end \in {"started", "failed"} : Runs("sshd", end)
  /\ UNCHANGED <<label, var, skeleton, shared, addr, keys, outVars, trouble>>

-----------------------------------------------------------------------------
(* run-host-init, init.sh, init-ssh.sh and init-ip.sh.                     *)

(* Without the shared directory nothing runs and nothing is printed: there *)
(* is no mount point, which fails, or no script on it, which does not.     *)
NoInit ==
  /\ ~shared
  /\ \E end \in {"started", "failed"} : Runs("run-host-init", end)
  /\ UNCHANGED <<label, var, skeleton, shared, addr, keys, outVars, trouble>>

(* The shell cannot open init.log for writing: it does not run init.sh, and*)
(* cat prints what an earlier boot has left.                               *)
InitLogFails ==
  /\ shared
  /\ Runs("run-host-init", "running")
  /\ toPrint' = log
  /\ Note("log")
  /\ UNCHANGED <<label, var, skeleton, shared, addr, keys, json, log, console,
                 noise, daemon, vmIP>>

(* The template is copied, the keys are imported, the address is written   *)
(* into the copy, and the copy is printed between its markers.  Each may   *)
(* fail and leaves the rest to go on with what there is.                   *)
RunInit ==
  /\ shared
  /\ Runs("run-host-init", "running")
  /\ \E copied, imported, written \in BOOLEAN :
       LET copy == IF copied THEN "null" ELSE json
           found == IF addr = None THEN "unknown" ELSE addr
       IN /\ written => copy # None
          /\ keys' = imported
          /\ json' = IF written THEN found ELSE copy
          /\ log' \in IF json' = None THEN {<<>>} ELSE Cut(json')
          /\ trouble' = trouble
               \cup (IF copied THEN {} ELSE {"copy"})
               \cup (IF imported THEN {} ELSE {"keys"})
               \cup (IF written THEN {} ELSE {"address"})
               \cup (IF log' = Output(json') THEN {} ELSE {"output"})
  /\ toPrint' = log'
  /\ UNCHANGED <<label, var, skeleton, shared, addr, console, noise, daemon,
                 vmIP>>

(* cat writes the log to the console, line by line.                        *)
Cat ==
  /\ daemon # "off"
  /\ toPrint # <<>>
  /\ console' = Append(console, Head(toPrint))
  /\ toPrint' = Tail(toPrint)
  /\ UNCHANGED <<svc, label, var, skeleton, shared, addr, keys, json, log,
                 noise, daemon, vmIP, trouble>>

InitDone ==
  /\ svc["run-host-init"] = "running"
  /\ toPrint = <<>>
  /\ \E end \in {"started", "failed"} :
       svc' = [svc EXCEPT !["run-host-init"] = end]
  /\ UNCHANGED <<label, var, skeleton, shared, addr, keys, outVars, trouble>>

(* The kernel writes to the same console whenever it likes, between two    *)
(* lines of cat or into one of them.                                       *)
KernelMessage ==
  /\ daemon # "off" /\ noise < MaxNoise
  /\ noise' = noise + 1
  /\ \/ console' = Append(console, Other) /\ UNCHANGED toPrint
     \/ /\ toPrint # <<>>
        /\ console' = Append(console, Other)
        /\ toPrint' = Tail(toPrint)
  /\ Note("noise")
  /\ UNCHANGED <<svc, label, var, skeleton, shared, addr, keys, json, log,
                 daemon, vmIP>>

-----------------------------------------------------------------------------
(* The daemon.                                                             *)

(* The log is emptied before the VM can write to it.                       *)
Launch ==
  /\ daemon = "off"
  /\ daemon' = "reading"
  /\ console' = <<>>
  /\ UNCHANGED <<guestVars, noise, vmIP, trouble>>

(* i is the first start marker in the log, j the first end marker after it.*)
Marked(i, j) ==
  /\ i \in DOMAIN console /\ console[i] = Start
  /\ j \in DOMAIN console /\ console[j] = End
  /\ i < j
  /\ \A k \in 1..(i - 1) : console[k] # Start
  /\ \A k \in (i + 1)..(j - 1) : console[k] # End

(* Between them is JSON with an address that is one, and nothing else.     *)
Valid(i, j) ==
  j = i + 2 /\ console[i + 1].kind = "json" /\ console[i + 1].ip \in Address

ReadAddress ==
  /\ daemon = "reading"
  /\ \E i, j \in DOMAIN console :
       Marked(i, j) /\ Valid(i, j) /\ vmIP' = console[i + 1].ip
  /\ daemon' = "dialing"
  /\ UNCHANGED <<guestVars, console, noise, trouble>>

ReadGarbage ==
  /\ daemon = "reading"
  /\ \E i, j \in DOMAIN console : Marked(i, j) /\ ~Valid(i, j)
  /\ daemon' = "failed"
  /\ UNCHANGED <<guestVars, console, noise, vmIP, trouble>>

(* 5 minutes without a complete output.                                    *)
ReadTimeout ==
  /\ daemon = "reading"
  /\ \A i, j \in DOMAIN console : ~Marked(i, j)
  /\ daemon' = "failed"
  /\ Note("timeout")
  /\ UNCHANGED <<guestVars, console, noise, vmIP>>

(* A port on the host cannot be bound for a forward.                       *)
BindFails ==
  /\ daemon = "dialing"
  /\ daemon' = "failed"
  /\ Note("bind")
  /\ UNCHANGED <<guestVars, console, noise, vmIP>>

(* The guest answers with an SSH banner, or another host that has the      *)
(* address now.                                                            *)
Banner ==
  /\ daemon = "dialing"
  /\ svc["sshd"] = "started" \/ vmIP # addr
  /\ daemon' = "syncing"
  /\ UNCHANGED <<guestVars, console, noise, vmIP, trouble>>

(* 2 minutes without one.                                                  *)
DialTimeout ==
  /\ daemon = "dialing"
  /\ daemon' = "degraded"
  /\ UNCHANGED <<guestVars, console, noise, vmIP, trouble>>

(* The first clock synchronization, an ssh without a timeout: the daemon   *)
(* goes on when it returns, whether or not it has set the clock.           *)
Synchronized ==
  /\ daemon = "syncing"
  /\ daemon' = "publishing"
  /\ UNCHANGED <<guestVars, console, noise, vmIP, trouble>>

Publish ==
  /\ daemon = "publishing"
  /\ daemon' = "healthy"
  /\ UNCHANGED <<guestVars, console, noise, vmIP, trouble>>

PublishFails ==
  /\ daemon = "publishing"
  /\ daemon' = "failed"
  /\ Note("publish")
  /\ UNCHANGED <<guestVars, console, noise, vmIP>>

-----------------------------------------------------------------------------
(* An earlier start may have left its results on the host.                 *)
Init ==
  /\ svc = [s \in Services |-> "waiting"]
  /\ label \in BOOLEAN /\ var = FALSE /\ skeleton = "none"
  /\ shared = FALSE /\ addr = None /\ keys = FALSE
  /\ json \in Address \cup {None, "null", "unknown"}
  /\ \E ip \in Address \cup {"null", "unknown"} : log \in {<<>>} \cup Cut(ip)
  /\ console \in {<<>>, log}
  /\ toPrint = <<>> /\ noise = 0
  /\ daemon = "off" /\ vmIP = None
  /\ trouble = {}

GuestStep ==
  \/ Format \/ FormatFails \/ GrowVar \/ Mount \/ Network \/ SetupVar \/ Sshd
  \/ NoInit \/ InitLogFails \/ RunInit \/ Cat \/ InitDone

DaemonStep ==
  \/ ReadAddress \/ ReadGarbage \/ ReadTimeout
  \/ BindFails \/ Banner \/ DialTimeout
  \/ Publish \/ PublishFails

Next == Launch \/ GuestStep \/ KernelMessage \/ DaemonStep \/ Synchronized

(* The daemon looks again and again, and both its waits have an end; the   *)
(* guest may keep the ssh of the synchronization for ever.                 *)
Spec == Init /\ [][Next]_vars /\ WF_vars(DaemonStep)

-----------------------------------------------------------------------------
Word == Address \cup {None, "unknown", "null"}
Line == [kind: {"start", "end", "json", "other"}, ip: Word]

Flags ==
  /\ svc \in [Services -> {"waiting", "running", "started", "failed"}]
  /\ label \in BOOLEAN /\ var \in BOOLEAN /\ shared \in BOOLEAN /\ keys \in BOOLEAN
  /\ skeleton \in {"none", "root", "disk", "part"}
  /\ addr \in Address \cup {None}
  /\ json \in Address \cup {None, "null", "unknown"}
  /\ noise \in 0..MaxNoise
  /\ daemon \in {"off", "reading", "dialing", "syncing", "publishing", "healthy",
                 "degraded", "failed"}
  /\ vmIP \in Address \cup {None}

Texts ==
  /\ log \in Seq(Line) /\ console \in Seq(Line) /\ toPrint \in Seq(Line)
  /\ trouble \subseteq {"format", "mount", "network", "skeleton", "log", "copy",
                        "keys", "address", "output", "noise", "timeout", "bind",
                        "publish"}

(* Every variable holds a value of its type; above all, vmIP is an address *)
(* or None, never what the guest writes when it has none.                  *)
TypeOK == Flags /\ Texts

(* The address that the daemon accepts, forwards to and publishes is the   *)
(* one the guest has in this boot, whatever earlier starts left in the     *)
(* console log, in init.log and in init-output.json, and whatever fails or *)
(* writes in between; except that a boot which cannot rewrite init.log, or *)
(* neither copy the template nor write the address, hands over an old one. *)
AcceptedIsCurrent ==
  \/ vmIP \in {None, addr}
  \/ "log" \in trouble \/ {"copy", "address"} \subseteq trouble

(* The failures that leave no trace in the output.                         *)
Silent == {"format", "mount", "skeleton", "keys", "log", "copy"}

(* A healthy start is whole if none of these failures befell it: /var is   *)
(* the data disk, with its directories on it, and the launcher's keys are  *)
(* accepted.                                                               *)
HealthyIsWhole ==
  daemon = "healthy" /\ trouble \cap Silent = {} =>
    var /\ skeleton = "disk" /\ keys /\ vmIP = addr

(* A start fails for a reason: the guest had no address to tell or could   *)
(* not tell it, the kernel wrote into the output, it took too long, or the *)
(* daemon could not bind or publish.  It does not fail because the daemon  *)
(* looked too early.                                                       *)
Causes ==
  {"network", "address", "log", "output", "noise", "timeout", "bind", "publish"}
FailureHasCause == daemon = "failed" => trouble \cap Causes # {}

(* The start ends whatever the guest does, unless the guest holds the ssh  *)
(* of the first clock synchronization for ever.                            *)
StartEnds ==
  []<>(daemon # "syncing") =>
    (daemon = "reading" ~> daemon \in {"healthy", "degraded", "failed"})
=============================================================================
