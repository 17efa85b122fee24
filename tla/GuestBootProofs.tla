--------------------------- MODULE GuestBootProofs ---------------------------
(***************************************************************************)
(* The boot for any set of addresses and any number of kernel messages:    *)
(* what the daemon accepts is the guest's address in this boot, a healthy  *)
(* start is whole, and a failed one has a reason.                          *)
(***************************************************************************)
EXTENDS GuestBoot, TLAPS

(* An old address may be handed over.                                      *)
Excused == "log" \in trouble \/ {"copy", "address"} \subseteq trouble

(* Every address in these lines is this one.                               *)
Current(lines, ip) ==
  \A i \in DOMAIN lines :
    lines[i].kind = "json" /\ lines[i].ip \in Address => lines[i].ip = ip

Blank(lines) == \A i \in DOMAIN lines : lines[i].kind # "json"

(* The services have come in their order.                                  *)
Order ==
  /\ daemon = "off" => svc = [s \in Services |-> "waiting"]
  /\ svc["setup-var-structure"] # "failed"
  /\ \A s \in Services : svc[s] # "waiting" =>
       /\ \A t \in Needs(s) \cup After(s) : Over(t)
       /\ \A t \in Needs(s) : svc[t] = "started"

(* Nothing of this boot is on the console before run-host-init, and what is*)
(* printed there is of this boot.                                          *)
Printed ==
  /\ daemon \in {"off", "reading"} => vmIP = None
  /\ daemon \in {"dialing", "syncing", "publishing", "healthy", "degraded"}
     => vmIP # None
  /\ vmIP # None => svc["run-host-init"] # "waiting" /\ shared
  /\ svc["run-host-init"] = "waiting" \/ ~shared =>
       toPrint = <<>> /\ (daemon = "off" \/ Blank(console))
  /\ daemon = "off" \/ Excused \/ (Current(toPrint, addr) /\ Current(console, addr))
  /\ Excused \/ vmIP \in {None, addr}

(* What each service leaves behind, unless it failed.                      *)
Effects ==
  /\ Over("format-data-disk") => label \/ "format" \in trouble
  /\ svc["localmount"] = "started" =>
       (var /\ shared) \/ trouble \cap {"format", "mount"} # {}
  /\ svc["setup-var-structure"] = "started" =>
       (var => skeleton = "disk" \/ "skeleton" \in trouble)
  /\ svc["run-host-init"] # "waiting" /\ shared =>
       keys \/ trouble \cap {"log", "keys"} # {}

IInv == Flags /\ Texts /\ Order /\ Printed /\ Effects

-----------------------------------------------------------------------------
(* The lines that init.sh prints.                                          *)
LEMMA OutputLines ==
  ASSUME NEW ip \in Word
  PROVE  /\ Output(ip) \in Seq(Line)
         /\ DOMAIN Output(ip) = 1..3
         /\ Output(ip)[1] = Start /\ Output(ip)[2] = Json(ip) /\ Output(ip)[3] = End
<1>1. Start \in Line /\ End \in Line /\ Json(ip) \in Line
  BY DEF Start, End, Json, Line, Word
<1>. QED
  BY <1>1 DEF Output

(* What may be left of them: each line is one of theirs or of no meaning.  *)
LEMMA CutLines ==
  ASSUME NEW ip \in Word, NEW t \in Cut(ip)
  PROVE  /\ t \in Seq(Line)
         /\ \A i \in DOMAIN t : t[i].kind = "json" => t[i].ip = ip
<1> DEFINE S == {x \in Line : x.kind = "json" => x.ip = ip}
<1>1. Start \in S /\ End \in S /\ Other \in S /\ Json(ip) \in S
  BY DEF Start, End, Other, Json, Line, Word
<1>2. PICK head \in {<<>>, <<Start>>}, body \in {<<>>, <<Other>>, <<Json(ip)>>},
           tail \in {<<>>, <<End>>} :
        t = head \o body \o tail
  BY DEF Cut
<1> HIDE DEF S
<1>3. head \in Seq(S) /\ body \in Seq(S) /\ tail \in Seq(S)
  <2>1. <<>> \in Seq(S)
    OBVIOUS
  <2>2. \A x \in S : <<x>> \in Seq(S)
    OBVIOUS
  <2>. QED
    BY <1>1, <1>2, <2>1, <2>2
<1>4. t \in Seq(S)
  <2>1. head \o body \in Seq(S)
    BY <1>3
  <2>. QED
    BY <1>2, <1>3, <2>1
<1>5. \A i \in DOMAIN t : t[i] \in S
  BY <1>4
<1>6. \A x \in S : x \in Line /\ (x.kind = "json" => x.ip = ip)
  BY DEF S
<1>7. t \in Seq(Line)
  BY <1>4, <1>5, <1>6
<1>. QED
  BY <1>5, <1>6, <1>7

(* The lines after one more is written.                                    *)
LEMMA Appended ==
  ASSUME NEW lines \in Seq(Line), NEW x \in Line, NEW ip
  PROVE  /\ Append(lines, x) \in Seq(Line)
         /\ Current(lines, ip) /\ (x.kind = "json" /\ x.ip \in Address => x.ip = ip)
            => Current(Append(lines, x), ip)
         /\ Blank(lines) /\ x.kind # "json" => Blank(Append(lines, x))
BY DEF Current, Blank

(* The lines after the first is gone.                                      *)
LEMMA Behead ==
  ASSUME NEW lines \in Seq(Line), lines # <<>>, NEW ip
  PROVE  /\ Head(lines) \in Line
         /\ Head(lines) = lines[1] /\ 1 \in DOMAIN lines
         /\ Tail(lines) \in Seq(Line)
         /\ Current(lines, ip) => Current(Tail(lines), ip)
BY DEF Current

(* When it is the turn of a service, the order is kept.                    *)
LEMMA RunsOrder ==
  ASSUME Flags, Order,
         NEW s \in Services, NEW end \in {"started", "failed", "running"},
         Runs(s, end), s # "setup-var-structure" \/ end = "started",
         daemon' = daemon
  PROVE  Order'
<1>1. /\ svc \in [Services -> {"waiting", "running", "started", "failed"}]
      /\ svc' = [svc EXCEPT ![s] = end]
      /\ \A t \in Needs(s) \cup After(s) : Over(t)
      /\ \A t \in Needs(s) : svc[t] = "started"
      /\ svc[s] = "waiting" /\ daemon # "off"
  BY DEF Runs, Flags
<1>2. \A t \in Services : t # s => svc'[t] = svc[t]
  BY <1>1
<1>3. \A u \in Services : Needs(u) \subseteq Services /\ After(u) \subseteq Services
  BY DEF Needs, After, Services
<1>4. \A t \in Services : Over(t) => t # s /\ Over(t)'
  BY <1>1, <1>2 DEF Over
<1>5. \A u \in Services : svc'[u] # "waiting" =>
        /\ \A t \in Needs(u) \cup After(u) : Over(t)'
        /\ \A t \in Needs(u) : svc'[t] = "started"
  <2> SUFFICES ASSUME NEW u \in Services, svc'[u] # "waiting"
               PROVE  /\ \A t \in Needs(u) \cup After(u) : Over(t)'
                      /\ \A t \in Needs(u) : svc'[t] = "started"
    OBVIOUS
  <2>1. /\ \A t \in Needs(u) \cup After(u) : Over(t)
        /\ \A t \in Needs(u) : svc[t] = "started"
    BY <1>1, <1>2 DEF Order
  <2>2. \A t \in Needs(u) \cup After(u) : Over(t)'
    BY <2>1, <1>3, <1>4
  <2>3. \A t \in Needs(u) : t # s /\ t \in Services
    BY <2>1, <1>1, <1>3
  <2>. QED
    BY <2>1, <2>2, <2>3, <1>2
<1>6. svc'["setup-var-structure"] # "failed"
  BY <1>1, <1>2 DEF Order, Services
<1>. QED
  BY <1>1, <1>5, <1>6 DEF Order

(* What has run when a service is over.                                    *)
LEMMA Stages ==
  ASSUME Flags, Order
  PROVE  /\ svc["localmount"] # "waiting" => Over("format-data-disk")
         /\ svc["setup-var-structure"] # "waiting" => svc["localmount"] = "started"
         /\ svc["run-host-init"] # "waiting" =>
              /\ svc["localmount"] = "started" /\ Over("networking")
              /\ Over("setup-var-structure")
         /\ Over("setup-var-structure") => svc["setup-var-structure"] = "started"
BY DEF Order, Over, Needs, After, Services

(* The services other than run-host-init leave the output alone.           *)
Service ==
  Format \/ FormatFails \/ GrowVar \/ Mount \/ Network \/ SetupVar \/ Sshd

LEMMA NextCases ==
  ASSUME [Next]_vars
  PROVE  \/ Service \/ NoInit \/ InitLogFails \/ RunInit \/ Cat \/ InitDone
         \/ KernelMessage \/ Launch \/ DaemonStep \/ Synchronized \/ UNCHANGED vars
BY DEF Next, GuestStep, Service

(* Every step keeps the types of the variables.                            *)
LEMMA TypeStep ==
  ASSUME Flags, Texts, [Next]_vars
  PROVE  Flags'
<1> USE BootAssumption DEF Flags, Services, outVars, guestVars
<1>1. CASE Service
  <2>1. CASE Format
    BY <2>1 DEF Format, Runs
  <2>6. CASE FormatFails
    BY <2>6 DEF FormatFails, Runs
  <2>2. CASE GrowVar \/ Sshd
    BY <2>2 DEF GrowVar, Sshd, Runs
  <2>3. CASE Mount
    <3>1. svc' = [svc EXCEPT !["localmount"] = "started"]
      BY <2>3 DEF Mount, Runs
    <3>2. var' \in BOOLEAN /\ shared' \in BOOLEAN
      BY <2>3 DEF Mount
    <3>3. UNCHANGED <<label, skeleton, addr, keys, json, noise, daemon, vmIP>>
      BY <2>3 DEF Mount
    <3>4. svc' \in [Services -> {"waiting", "running", "started", "failed"}]
      BY <3>1
    <3>. QED
      BY <3>2, <3>3, <3>4
  <2>4. CASE Network
    BY <2>4 DEF Network, Runs
  <2>5. CASE SetupVar
    BY <2>5 DEF SetupVar, Runs
  <2>. QED
    BY <1>1, <2>1, <2>2, <2>3, <2>4, <2>5, <2>6 DEF Service
<1>2. CASE NoInit \/ InitLogFails
  BY <1>2 DEF NoInit, InitLogFails, Runs
<1>3. CASE RunInit
  BY <1>3 DEF RunInit, Runs
<1>4. CASE Cat \/ InitDone
  BY <1>4 DEF Cat, InitDone
<1>5. CASE KernelMessage \/ Launch
  BY <1>5 DEF KernelMessage, Launch
<1>6. CASE DaemonStep
  BY <1>6 DEF DaemonStep, ReadAddress, ReadGarbage, ReadTimeout, BindFails, Banner,
              DialTimeout, Publish, PublishFails, Valid
<1>8. CASE Synchronized
  BY <1>8 DEF Synchronized
<1>7. CASE UNCHANGED vars
  BY <1>7 DEF vars
<1>. QED
  BY <1>1, <1>2, <1>3, <1>4, <1>5, <1>6, <1>7, <1>8, NextCases

(* Every step writes lines to the logs, and remembers what failed.         *)
LEMMA TextStep ==
  ASSUME Flags, Texts, [Next]_vars
  PROVE  Texts' /\ trouble \subseteq trouble'
<1> USE BootAssumption DEF Flags, Texts, outVars, guestVars, Note
<1>1. CASE Service
  BY <1>1 DEF Service, Format, FormatFails, GrowVar, Mount, Network, SetupVar, Sshd
<1>2. CASE NoInit \/ InitLogFails
  BY <1>2 DEF NoInit, InitLogFails
<1>3. CASE RunInit
  <2>1. json' \in Word
    BY <1>3 DEF RunInit, Word
  <2>2. log' \in Seq(Line)
    <3>1. log' = <<>> \/ log' \in Cut(json')
      BY <1>3 DEF RunInit
    <3>2. <<>> \in Seq(Line)
      OBVIOUS
    <3>. QED
      BY <2>1, <3>1, <3>2, CutLines
  <2>3. \E more \in SUBSET {"copy", "keys", "address", "output"} :
          trouble' = trouble \cup more
    <3>1. PICK copied \in BOOLEAN, imported \in BOOLEAN, written \in BOOLEAN :
            trouble' = trouble
               \cup (IF copied THEN {} ELSE {"copy"})
               \cup (IF imported THEN {} ELSE {"keys"})
               \cup (IF written THEN {} ELSE {"address"})
               \cup (IF log' = Output(json') THEN {} ELSE {"output"})
      BY <1>3 DEF RunInit
    <3> DEFINE more == (IF copied THEN {} ELSE {"copy"})
               \cup (IF imported THEN {} ELSE {"keys"})
               \cup (IF written THEN {} ELSE {"address"})
               \cup (IF log' = Output(json') THEN {} ELSE {"output"})
    <3>2. more \in SUBSET {"copy", "keys", "address", "output"}
      OBVIOUS
    <3>3. trouble' = trouble \cup more
      BY <3>1
    <3>. QED
      BY <3>2, <3>3
  <2>4. /\ {"copy", "keys", "address", "output"} \subseteq
             {"format", "mount", "network", "skeleton", "log", "copy", "keys",
              "address", "output", "noise", "timeout", "bind", "publish"}
        /\ console' = console /\ toPrint' = log'
    BY <1>3 DEF RunInit
  <2>. QED
    BY <2>2, <2>3, <2>4
<1>4. CASE Cat
  BY <1>4, Behead, Appended DEF Cat
<1>5. CASE InitDone
  BY <1>5 DEF InitDone
<1>6. CASE KernelMessage
  <2>1. Other \in Line
    BY DEF Other, Line, Word
  <2>2. Append(console, Other) \in Seq(Line)
    BY <2>1, Appended
  <2>3. toPrint # <<>> => Tail(toPrint) \in Seq(Line)
    BY Behead
  <2>4. console' = Append(console, Other) /\ log' = log
    BY <1>6 DEF KernelMessage
  <2>5. toPrint' = toPrint \/ (toPrint # <<>> /\ toPrint' = Tail(toPrint))
    BY <1>6 DEF KernelMessage
  <2>6. trouble' = trouble \cup {"noise"}
    BY <1>6 DEF KernelMessage
  <2>. QED
    BY <2>2, <2>3, <2>4, <2>5, <2>6
<1>7. CASE Launch
  BY <1>7 DEF Launch
<1>9. CASE DaemonStep
  BY <1>9 DEF DaemonStep, ReadAddress, ReadGarbage, ReadTimeout, BindFails, Banner,
              DialTimeout, Publish, PublishFails
<1>10. CASE Synchronized
  BY <1>10 DEF Synchronized
<1>8. CASE UNCHANGED vars
  BY <1>8 DEF vars
<1>. QED
  BY <1>1, <1>2, <1>3, <1>4, <1>5, <1>6, <1>7, <1>8, <1>9, <1>10, NextCases

(* Every step keeps the services in their order.                           *)
LEMMA OrderStep ==
  ASSUME Flags, Order, [Next]_vars
  PROVE  Order'
<1> USE DEF outVars, guestVars
<1>1. CASE Service
  <2>1. \E s \in Services \ {"run-host-init"}, end \in {"started", "failed"} :
          Runs(s, end) /\ (s # "setup-var-structure" \/ end = "started")
    <3>1. CASE Format \/ FormatFails
      BY <3>1 DEF Format, FormatFails, Services
    <3>2. CASE GrowVar \/ Sshd
      BY <3>2 DEF GrowVar, Sshd, Services
    <3>3. CASE Mount
      BY <3>3 DEF Mount, Services
    <3>5. CASE Network
      BY <3>5 DEF Network, Services
    <3>4. CASE SetupVar
      BY <3>4 DEF SetupVar, Services
    <3>. QED
      BY <1>1, <3>1, <3>2, <3>3, <3>4, <3>5 DEF Service
  <2>2. daemon' = daemon
    BY <1>1 DEF Service, Format, FormatFails, GrowVar, Mount, Network, SetupVar, Sshd
  <2>. QED
    BY <2>1, <2>2, RunsOrder
<1>2. CASE NoInit \/ InitLogFails \/ RunInit
  <2>1. \E end \in {"started", "failed", "running"} : Runs("run-host-init", end)
    BY <1>2 DEF NoInit, InitLogFails, RunInit
  <2>2. daemon' = daemon
    BY <1>2 DEF NoInit, InitLogFails, RunInit
  <2>. QED
    BY <2>1, <2>2, RunsOrder DEF Services
<1>3. CASE InitDone
  <2>1. /\ svc["run-host-init"] = "running" /\ daemon' = daemon
        /\ svc'["run-host-init"] \in {"started", "failed"}
        /\ \A s \in Services : s # "run-host-init" => svc'[s] = svc[s]
    BY <1>3 DEF InitDone, Services, Flags
  <2>2. daemon # "off" /\ daemon' # "off"
    BY <2>1 DEF Order, Services
  <2>3. \A s, t \in Services :
          /\ Over(t) => Over(t)'
          /\ t \in Needs(s) => t # "run-host-init"
          /\ svc'[s] # "waiting" => svc[s] # "waiting"
    BY <2>1 DEF Over, Needs, Services
  <2>4. \A u \in Services : Needs(u) \subseteq Services /\ After(u) \subseteq Services
    BY DEF Needs, After, Services
  <2>. QED
    BY <2>1, <2>2, <2>3, <2>4 DEF Order, Services
<1>4. CASE Cat \/ KernelMessage \/ Launch \/ DaemonStep \/ Synchronized
           \/ UNCHANGED vars
  <2>1. svc' = svc /\ (daemon' = "off" => daemon = "off")
    BY <1>4 DEF Cat, KernelMessage, Launch, DaemonStep, ReadAddress, ReadGarbage,
                ReadTimeout, BindFails, Banner, DialTimeout, Publish, PublishFails,
                Synchronized, vars
  <2>. QED
    BY <2>1 DEF Order, Over
<1>. QED
  BY <1>1, <1>2, <1>3, <1>4, NextCases

(* No step before run-host-init prints, and none after it learns of        *)
(* another address.                                                        *)
LEMMA PrintedStep ==
  ASSUME Flags, Texts, Order, Printed, [Next]_vars
  PROVE  Printed'
<1>0. Excused => Excused'
  BY TextStep DEF Excused
<1>1. CASE Service /\ ~Network
  <2>1. svc'["run-host-init"] = svc["run-host-init"]
    BY <1>1 DEF Service, Format, FormatFails, GrowVar, Mount, SetupVar, Sshd, Runs,
                Flags, Services
  <2>2. UNCHANGED <<addr, outVars>>
    BY <1>1 DEF Service, Format, FormatFails, GrowVar, Mount, SetupVar, Sshd
  <2>3. shared' = shared \/ svc["run-host-init"] = "waiting"
    <3>1. CASE Mount
      BY <3>1, Stages DEF Mount, Runs
    <3>. QED
      BY <1>1, <3>1 DEF Service, Format, FormatFails, GrowVar, SetupVar, Sshd
  <2>. QED
    BY <1>0, <2>1, <2>2, <2>3 DEF Printed, outVars, Current, Blank
<1>2. CASE Network
  <2>1. svc["run-host-init"] = "waiting" /\ daemon # "off"
    BY <1>2, Stages DEF Network, Runs, Over
  <2>2. svc'["run-host-init"] = "waiting" /\ UNCHANGED <<shared, outVars>>
    BY <1>2, <2>1 DEF Network, Runs, Flags, Services
  <2>3. toPrint = <<>> /\ Blank(console) /\ vmIP = None
    BY <2>1 DEF Printed
  <2>4. Current(toPrint', addr') /\ Current(console', addr')
    BY <2>2, <2>3 DEF Current, Blank, outVars
  <2>. QED
    BY <2>1, <2>2, <2>3, <2>4 DEF Printed, outVars, Blank
<1>3. CASE NoInit
  <2>1. toPrint = <<>> /\ Blank(console) /\ daemon # "off" /\ ~shared
    BY <1>3 DEF NoInit, Printed, Runs
  <2>2. UNCHANGED <<shared, addr, outVars>>
    BY <1>3 DEF NoInit
  <2>. QED
    BY <1>0, <2>1, <2>2 DEF Printed, outVars, Current, Blank
<1>4. CASE InitLogFails
  <2>1. Excused'
    BY <1>4 DEF InitLogFails, Note, Excused
  <2>2. svc'["run-host-init"] = "running" /\ shared /\ daemon # "off"
    BY <1>4 DEF InitLogFails, Runs, Flags, Services
  <2>. QED
    BY <1>4, <2>1, <2>2 DEF Printed, InitLogFails
<1>5. CASE RunInit
  <2>1. svc'["run-host-init"] = "running" /\ shared /\ daemon # "off"
    BY <1>5 DEF RunInit, Runs, Flags, Services
  <2>2. vmIP = None /\ Blank(console)
    BY <1>5 DEF RunInit, Runs, Printed
  <2>3. json' \in Word /\ (json' \in Address => json' = addr \/ Excused')
    BY <1>5, BootAssumption DEF RunInit, Excused, Flags, Word
  <2>4. Excused' \/ Current(toPrint', addr')
    <3>1. toPrint' = <<>> \/ toPrint' \in Cut(json')
      BY <1>5 DEF RunInit
    <3>2. addr' = addr
      BY <1>5 DEF RunInit
    <3>3. CASE toPrint' = <<>>
      BY <3>3 DEF Current
    <3>4. CASE toPrint' \in Cut(json')
      <4>1. \A i \in DOMAIN toPrint' :
              toPrint'[i].kind = "json" => toPrint'[i].ip = json'
        BY <2>3, <3>4, CutLines
      <4>. QED
        BY <2>3, <3>2, <4>1 DEF Current
    <3>. QED
      BY <3>1, <3>3, <3>4
  <2>5. UNCHANGED <<shared, addr, daemon, console, vmIP>>
    BY <1>5 DEF RunInit
  <2>6. Current(console', addr')
    BY <2>2, <2>5 DEF Blank, Current
  <2>. QED
    BY <2>1, <2>2, <2>4, <2>5, <2>6 DEF Printed
<1>6. CASE Cat
  <2>1. UNCHANGED <<svc, shared, addr, daemon, vmIP, trouble>>
    BY <1>6 DEF Cat
  <2>2. toPrint # <<>> /\ console' = Append(console, Head(toPrint))
        /\ toPrint' = Tail(toPrint)
    BY <1>6 DEF Cat
  <2>3. svc["run-host-init"] # "waiting" /\ shared
    BY <2>2 DEF Printed
  <2>4. /\ Head(toPrint) \in Line /\ Head(toPrint) = toPrint[1]
        /\ 1 \in DOMAIN toPrint
        /\ Current(toPrint, addr) => Current(Tail(toPrint), addr)
    BY <2>2, Behead DEF Texts
  <2>5. Current(toPrint, addr) /\ Current(console, addr)
        => Current(Append(console, Head(toPrint)), addr)
    <3>1. console \in Seq(Line)
      BY DEF Texts
    <3>2. Current(toPrint, addr) =>
            (Head(toPrint).kind = "json" /\ Head(toPrint).ip \in Address
             => Head(toPrint).ip = addr)
      BY <2>4 DEF Current
    <3>. QED
      BY <2>4, <3>1, <3>2, Appended
  <2>6. Current(toPrint, addr) /\ Current(console, addr)
        => Current(toPrint', addr') /\ Current(console', addr')
    BY <2>1, <2>2, <2>4, <2>5
  <2>. QED
    BY <2>1, <2>3, <2>6 DEF Printed, Excused
<1>7. CASE KernelMessage
  <2>1. UNCHANGED <<svc, shared, addr, daemon, vmIP>>
    BY <1>7 DEF KernelMessage
  <2>2. /\ console' = Append(console, Other)
        /\ toPrint' = toPrint \/ (toPrint # <<>> /\ toPrint' = Tail(toPrint))
    BY <1>7 DEF KernelMessage
  <2>3. Other \in Line /\ Other.kind # "json"
    BY DEF Other, Line, Word
  <2>4. /\ Current(console, addr) => Current(Append(console, Other), addr)
        /\ Blank(console) => Blank(Append(console, Other))
    BY <2>3, Appended DEF Texts
  <2>5. /\ Current(console, addr) => Current(console', addr')
        /\ Blank(console) => Blank(console')
    BY <2>1, <2>2, <2>4
  <2>6. Current(toPrint, addr) => Current(toPrint', addr')
    <3>1. toPrint # <<>> => (Current(toPrint, addr) => Current(Tail(toPrint), addr))
      BY Behead DEF Texts
    <3>. QED
      BY <2>1, <2>2, <3>1
  <2>. QED
    BY <1>0, <2>1, <2>2, <2>5, <2>6 DEF Printed
<1>8. CASE Launch
  <2>1. svc["run-host-init"] = "waiting"
    BY <1>8 DEF Launch, Order, Services
  <2>2. /\ daemon' = "reading" /\ console' = <<>> /\ daemon = "off"
        /\ UNCHANGED <<svc, shared, addr, toPrint, vmIP>>
    BY <1>8 DEF Launch, guestVars
  <2>. QED
    BY <2>1, <2>2 DEF Printed, Current, Blank
<1>9. CASE ReadAddress
  <2>1. PICK i \in DOMAIN console, j \in DOMAIN console :
          /\ console[j] = End /\ j = i + 2
          /\ console[i + 1].kind = "json" /\ console[i + 1].ip \in Address
          /\ vmIP' = console[i + 1].ip
    BY <1>9 DEF ReadAddress, Marked, Valid
  <2>2. i + 1 \in DOMAIN console
    BY <2>1 DEF Texts
  <2>3. svc["run-host-init"] # "waiting" /\ shared
    BY <1>9, <2>1, <2>2 DEF Printed, Blank, ReadAddress
  <2>4. vmIP' # None /\ (Excused \/ vmIP' = addr)
    BY <1>9, <2>1, <2>2, BootAssumption DEF Printed, Current, ReadAddress
  <2>5. daemon' = "dialing" /\ daemon = "reading"
        /\ UNCHANGED <<svc, shared, addr, console, toPrint, trouble>>
    BY <1>9 DEF ReadAddress, guestVars
  <2>. QED
    BY <2>3, <2>4, <2>5 DEF Printed, Current, Blank, Excused
<1>10. CASE \/ InitDone \/ ReadGarbage \/ ReadTimeout \/ BindFails \/ Banner
            \/ DialTimeout \/ Publish \/ PublishFails \/ Synchronized
  <2>1. /\ UNCHANGED <<shared, addr, console, toPrint, vmIP>>
        /\ svc'["run-host-init"] = "waiting" <=> svc["run-host-init"] = "waiting"
        /\ daemon' = "off" <=> daemon = "off"
        /\ daemon' = "reading" => daemon = "reading"
        /\ daemon' \in {"dialing", "syncing", "publishing", "healthy", "degraded"}
           => daemon \in {"dialing", "syncing", "publishing", "healthy", "degraded"}
    BY <1>10 DEF InitDone, ReadGarbage, ReadTimeout, BindFails, Banner, DialTimeout,
                 Publish, PublishFails, Synchronized, guestVars, outVars, Flags,
                 Services
  <2>. QED
    BY <1>0, <2>1 DEF Printed, Current, Blank
<1>11. CASE UNCHANGED vars
  BY <1>11 DEF vars, guestVars, outVars, Printed, Current, Blank, Excused
<1>. QED
  BY <1>1, <1>2, <1>3, <1>4, <1>5, <1>6, <1>7, <1>8, <1>9, <1>10, <1>11, NextCases
     DEF DaemonStep

(* Every step keeps what the services before it have left behind.          *)
LEMMA EffectsStep ==
  ASSUME Flags, Texts, Order, Effects, [Next]_vars
  PROVE  Effects'
<1>0. trouble \subseteq trouble'
  BY TextStep
<1> USE DEF Flags, Services, Over
<1>1. CASE Format
  BY <1>0, <1>1, Stages DEF Effects, Format, Runs, outVars
<1>2. CASE FormatFails
  BY <1>0, <1>2, Stages DEF Effects, FormatFails, Runs, Note, outVars
<1>3. CASE GrowVar \/ Sshd
  BY <1>0, <1>3 DEF Effects, GrowVar, Sshd, Runs, outVars
<1>4. CASE Mount
  <2>1. /\ svc["localmount"] = "waiting" /\ Over("format-data-disk")
        /\ svc["setup-var-structure"] = "waiting"
        /\ svc["run-host-init"] = "waiting"
    BY <1>4, Stages DEF Mount, Runs, After
  <2>2. svc' = [svc EXCEPT !["localmount"] = "started"] /\ label' = label
    BY <1>4 DEF Mount, Runs
  <2>3. (label => var' /\ shared') \/ "mount" \in trouble'
    BY <1>4 DEF Mount, Note
  <2>. QED
    BY <1>0, <2>1, <2>2, <2>3 DEF Effects
<1>5. CASE Network
  BY <1>0, <1>5 DEF Effects, Network, Runs, outVars
<1>6. CASE SetupVar
  BY <1>0, <1>6 DEF Effects, SetupVar, Runs, Note, outVars
<1>7. CASE NoInit
  BY <1>0, <1>7 DEF Effects, NoInit, Runs, outVars
<1>8. CASE InitLogFails
  BY <1>0, <1>8 DEF Effects, InitLogFails, Runs, Note
<1>9. CASE RunInit
  <2>1. keys' \/ "keys" \in trouble'
    BY <1>9 DEF RunInit
  <2>2. UNCHANGED <<label, var, skeleton, shared>>
    BY <1>9 DEF RunInit
  <2>3. \E end \in {"running"} : svc' = [svc EXCEPT !["run-host-init"] = end]
    BY <1>9 DEF RunInit, Runs
  <2>. QED
    BY <1>0, <2>1, <2>2, <2>3 DEF Effects
<1>10. CASE InitDone
  BY <1>0, <1>10 DEF Effects, InitDone, outVars
<1>11. CASE Cat \/ KernelMessage \/ Launch \/ DaemonStep \/ Synchronized
            \/ UNCHANGED vars
  <2>1. UNCHANGED <<svc, label, var, skeleton, shared, keys>>
    BY <1>11 DEF Cat, KernelMessage, Launch, DaemonStep, ReadAddress, ReadGarbage,
                 ReadTimeout, BindFails, Banner, DialTimeout, Publish, PublishFails,
                 Synchronized, vars, guestVars
  <2>. QED
    BY <1>0, <2>1 DEF Effects
<1>. QED
  BY <1>1, <1>2, <1>3, <1>4, <1>5, <1>6, <1>7, <1>8, <1>9, <1>10, <1>11, NextCases
     DEF Service

-----------------------------------------------------------------------------
(* The invariant holds in every state of every boot.                       *)
THEOREM Invariance == Spec => []IInv
<1>1. Init => IInv
  <2> SUFFICES ASSUME Init PROVE IInv
    OBVIOUS
  <2>1. Flags
    <3>1. noise \in 0..MaxNoise
      BY BootAssumption DEF Init
    <3>2. svc \in [Services -> {"waiting", "running", "started", "failed"}]
      BY DEF Init
    <3>. QED
      BY <3>1, <3>2 DEF Init, Flags
  <2>2. Texts
    <3>1. \A ip \in Address \cup {"null", "unknown"} : \A t \in Cut(ip) : t \in Seq(Line)
      BY CutLines DEF Word
    <3>2. log = <<>> \/ log \in Seq(Line)
      BY <3>1 DEF Init
    <3>3. <<>> \in Seq(Line)
      OBVIOUS
    <3>4. log \in Seq(Line) /\ console \in Seq(Line) /\ toPrint \in Seq(Line)
      BY <3>2, <3>3 DEF Init
    <3>. QED
      BY <3>4 DEF Init, Texts
  <2>3. Order /\ Printed /\ Effects
    BY DEF Init, Order, Printed, Effects, Services, Over
  <2>. QED
    BY <2>1, <2>2, <2>3 DEF IInv
<1>2. IInv /\ [Next]_vars => IInv'
  BY TypeStep, TextStep, OrderStep, PrintedStep, EffectsStep DEF IInv
<1>. QED
  BY <1>1, <1>2, PTL DEF Spec

(* Every variable keeps its type, the logs and what has failed included;   *)
(* above all, vmIP is an address or None.                                  *)
THEOREM TypeCorrect == Spec => []TypeOK
<1>1. IInv => TypeOK
  BY DEF IInv, TypeOK
<1>. QED
  BY <1>1, Invariance, PTL

(* What the daemon accepts is the guest's address in this boot, unless one *)
(* of the two failures lets an old output through.                         *)
THEOREM CurrentAddress == Spec => []AcceptedIsCurrent
<1>1. IInv => AcceptedIsCurrent
  BY DEF IInv, Printed, Excused, AcceptedIsCurrent
<1>. QED
  BY <1>1, Invariance, PTL

(* A start is only healthy once every service that matters has run and     *)
(* either done its work or failed.                                         *)
THEOREM Wholeness == Spec => []HealthyIsWhole
<1>1. IInv => HealthyIsWhole
  <2> SUFFICES ASSUME IInv, daemon = "healthy", trouble \cap Silent = {}
               PROVE  var /\ skeleton = "disk" /\ keys /\ vmIP = addr
    BY DEF HealthyIsWhole
  <2>1. /\ "format" \notin trouble /\ "mount" \notin trouble /\ "keys" \notin trouble
        /\ "skeleton" \notin trouble /\ "log" \notin trouble /\ "copy" \notin trouble
    BY DEF Silent
  <2>2. vmIP # None /\ vmIP = addr /\ svc["run-host-init"] # "waiting" /\ shared
    BY <2>1 DEF IInv, Printed, Excused
  <2>3. svc["setup-var-structure"] = "started" /\ svc["localmount"] = "started"
    BY <2>2, Stages DEF IInv
  <2>. QED
    BY <2>1, <2>2, <2>3 DEF IInv, Effects
<1>. QED
  BY <1>1, Invariance, PTL

-----------------------------------------------------------------------------
(* Without one of these, cat writes the guest's address and nothing else.  *)
(* cat has written n of the three lines.                                   *)
Halfway(n) ==
  /\ Len(console) = n /\ Len(toPrint) = 3 - n
  /\ \A i \in 1..n : console[i] = Output(addr)[i]
  /\ \A i \in 1..(3 - n) : toPrint[i] = Output(addr)[n + i]

Clean ==
  /\ daemon # "failed"
  /\ Over("networking") => addr # None
  /\ daemon # "off" =>
       \/ toPrint = <<>> /\ console = <<>>
       \/ /\ addr # None /\ svc["run-host-init"] # "waiting"
          /\ \E n \in 0..3 : Halfway(n)

Reasoned == trouble \cap Causes # {} \/ Clean

(* The output of a clean boot is never garbage.                            *)
LEMMA CleanRead ==
  ASSUME Flags, Texts, Clean, ReadGarbage
  PROVE  FALSE
<1>1. PICK i \in DOMAIN console, j \in DOMAIN console : Marked(i, j) /\ ~Valid(i, j)
  BY DEF ReadGarbage
<1>2. daemon # "off" /\ console # <<>>
  BY <1>1 DEF ReadGarbage
<1>3. PICK n \in 0..3 : Halfway(n) /\ addr # None
  BY <1>2 DEF Clean
<1>4. addr \in Word /\ addr \in Address
  BY <1>3 DEF Flags, Word
<1>5. i \in 1..3 /\ j \in 1..3 /\ i <= n /\ j <= n /\ i < j
  BY <1>1, <1>3 DEF Halfway, Marked, Texts
<1>6. console[i] = Output(addr)[i] /\ console[j] = Output(addr)[j]
  BY <1>3, <1>5 DEF Halfway
<1>7. Start # End /\ Json(addr) # Start /\ Json(addr) # End
  BY DEF Start, End, Json
<1>8. i = 1 /\ j = 3
  BY <1>1, <1>4, <1>5, <1>6, <1>7, OutputLines DEF Marked
<1>9. console[2] = Json(addr)
  BY <1>3, <1>4, <1>5, <1>8, OutputLines DEF Halfway
<1>. QED
  BY <1>1, <1>4, <1>8, <1>9 DEF Valid, Json

(* A boot stays clean until one of the causes befalls it.                  *)
LEMMA CleanStep ==
  ASSUME Flags, Texts, Order, Printed, Clean, [Next]_vars, trouble' \cap Causes = {}
  PROVE  Clean'
<1> USE DEF Flags, Services
<1>1. CASE Service /\ ~Network
  <2>1. svc'["run-host-init"] = svc["run-host-init"]
        /\ (svc'["networking"] = svc["networking"])
    BY <1>1 DEF Service, Format, FormatFails, GrowVar, Mount, SetupVar, Sshd, Runs
  <2>2. UNCHANGED <<addr, outVars>>
    BY <1>1 DEF Service, Format, FormatFails, GrowVar, Mount, SetupVar, Sshd
  <2>. QED
    BY <2>1, <2>2 DEF Clean, outVars, Halfway, Over
<1>2. CASE Network
  <2>1. svc["run-host-init"] = "waiting" /\ daemon # "off"
    BY <1>2, Stages DEF Network, Runs, Over
  <2>2. toPrint = <<>> /\ console = <<>>
    BY <2>1 DEF Clean
  <2>3. addr' # None
    BY <1>2 DEF Network, Note, Causes
  <2>4. UNCHANGED outVars
    BY <1>2 DEF Network
  <2>. QED
    BY <2>2, <2>3, <2>4 DEF Clean, outVars
<1>3. CASE NoInit
  <2>1. svc["run-host-init"] = "waiting" /\ daemon # "off"
        /\ \E end \in {"started", "failed"} :
             svc' = [svc EXCEPT !["run-host-init"] = end]
    BY <1>3 DEF NoInit, Runs
  <2>2. UNCHANGED <<addr, outVars>>
    BY <1>3 DEF NoInit
  <2>. QED
    BY <2>1, <2>2 DEF Clean, outVars, Over
<1>4. CASE InitLogFails
  BY <1>4 DEF InitLogFails, Note, Causes
<1>5. CASE RunInit
  <2>1. /\ svc["run-host-init"] = "waiting" /\ daemon # "off"
        /\ svc' = [svc EXCEPT !["run-host-init"] = "running"]
    BY <1>5 DEF RunInit, Runs
  <2>2. UNCHANGED <<addr, daemon, console>> /\ console = <<>>
    BY <1>5, <2>1 DEF RunInit, Clean
  <2>3. addr # None
    <3>1. Over("networking")
      BY <1>5 DEF RunInit, Runs, After
    <3>. QED
      BY <3>1 DEF Clean
  <2>4. json' = addr
    BY <1>5, <2>3 DEF RunInit, Causes
  <2>5. toPrint' = Output(addr)
    BY <1>5, <2>4 DEF RunInit, Causes
  <2>6. Halfway(0)'
    <3>1. Len(console') = 0
      BY <2>2
    <3>2. Len(toPrint') = 3
      BY <2>5 DEF Output
    <3>. QED
      BY <2>2, <2>5, <3>1, <3>2 DEF Halfway
  <2>7. svc'["run-host-init"] = "running" /\ daemon' # "failed"
    BY <2>1, <2>2 DEF Clean
  <2>. QED
    BY <2>2, <2>3, <2>6, <2>7 DEF Clean
<1>6. CASE Cat
  <2>1. UNCHANGED <<svc, addr, daemon>> /\ daemon # "off"
    BY <1>6 DEF Cat
  <2>2. /\ toPrint # <<>> /\ console' = Append(console, Head(toPrint))
        /\ toPrint' = Tail(toPrint)
    BY <1>6 DEF Cat
  <2>3. PICK n \in 0..3 : Halfway(n)
    BY <2>1, <2>2 DEF Clean
  <2>4. addr # None /\ svc["run-host-init"] # "waiting"
    BY <2>1, <2>2 DEF Clean
  <2>5. n + 1 \in 0..3 /\ Halfway(n + 1)'
    <3>1. n \in 0..2 /\ Len(toPrint) = 3 - n /\ Len(console) = n
      BY <2>2, <2>3 DEF Halfway, Texts
    <3>2. Head(toPrint) = Output(addr)[n + 1]
      BY <2>2, <2>3, <3>1 DEF Halfway, Texts
    <3>3. Len(console') = n + 1 /\ Len(toPrint') = 3 - (n + 1)
      BY <2>2, <3>1 DEF Texts
    <3>4. \A i \in 1..(n + 1) : console'[i] = Output(addr)[i]
      BY <2>2, <2>3, <3>1, <3>2 DEF Halfway, Texts
    <3>5. \A i \in 1..(3 - (n + 1)) : toPrint'[i] = Output(addr)[n + 1 + i]
      <4> SUFFICES ASSUME NEW i \in 1..(3 - (n + 1))
                   PROVE  toPrint'[i] = Output(addr)[n + 1 + i]
        OBVIOUS
      <4>1. toPrint'[i] = toPrint[i + 1]
        BY <2>2, <3>1 DEF Texts
      <4>2. i + 1 \in 1..(3 - n) /\ n + (i + 1) = n + 1 + i
        BY <3>1
      <4>. QED
        BY <2>3, <4>1, <4>2 DEF Halfway
    <3>. QED
      BY <2>1, <3>1, <3>3, <3>4, <3>5 DEF Halfway
  <2>. QED
    BY <2>1, <2>4, <2>5 DEF Clean, Over
<1>7. CASE KernelMessage
  BY <1>7 DEF KernelMessage, Note, Causes
<1>8. CASE Launch
  <2>1. svc["run-host-init"] = "waiting" /\ svc' = svc /\ addr' = addr
    BY <1>8 DEF Launch, Order, guestVars
  <2>2. daemon' = "reading" /\ console' = <<>> /\ toPrint' = toPrint
    BY <1>8 DEF Launch, guestVars
  <2>3. Over("networking") => addr # None
    BY DEF Clean
  <2>4. toPrint = <<>>
    BY <2>1 DEF Printed
  <2>. QED
    BY <2>1, <2>2, <2>3, <2>4 DEF Clean, Over
<1>9. CASE ReadGarbage
  BY <1>9, CleanRead
<1>10. CASE ReadTimeout
  BY <1>10 DEF ReadTimeout, Note, Causes
<1>12. CASE BindFails \/ PublishFails
  BY <1>12 DEF BindFails, PublishFails, Note, Causes
<1>11. CASE \/ InitDone \/ ReadAddress \/ Banner \/ DialTimeout \/ Publish
            \/ Synchronized \/ UNCHANGED vars
  <2>1. /\ UNCHANGED <<addr, console, toPrint>>
        /\ svc["run-host-init"] # "waiting" => svc'["run-host-init"] # "waiting"
        /\ svc'["networking"] = svc["networking"]
        /\ daemon' = "off" <=> daemon = "off"
        /\ daemon' = "failed" => daemon = "failed"
    BY <1>11 DEF InitDone, ReadAddress, Banner, DialTimeout, Publish, Synchronized,
                 guestVars, outVars, vars
  <2>. QED
    BY <2>1 DEF Clean, Halfway, Over
<1>. QED
  BY <1>1, <1>2, <1>3, <1>4, <1>5, <1>6, <1>7, <1>8, <1>9, <1>10, <1>11, <1>12, NextCases
     DEF DaemonStep

(* A start fails for a reason: never because the daemon read the console   *)
(* while init.sh's output was only half there.                             *)
THEOREM Reasons == Spec => []FailureHasCause
<1>1. Init => Reasoned
  BY DEF Init, Reasoned, Clean, Services, Over
<1>2. IInv /\ Reasoned /\ [Next]_vars => Reasoned'
  <2> SUFFICES ASSUME IInv, Reasoned, [Next]_vars, trouble' \cap Causes = {}
               PROVE  Clean'
    BY DEF Reasoned
  <2>1. trouble \cap Causes = {}
    BY TextStep DEF IInv
  <2>. QED
    BY <2>1, CleanStep DEF IInv, Reasoned
<1>3. Reasoned => FailureHasCause
  BY DEF Reasoned, Clean, Causes, FailureHasCause
<1>. QED
  BY <1>1, <1>2, <1>3, Invariance, PTL DEF Spec
=============================================================================
