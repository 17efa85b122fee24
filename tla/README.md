# A TLA+ development of exasol-local-vm

This directory holds TLA+ models of the macOS launcher and of the guest services
it relies on, the TLC runs that check them on small instances, and TLAPS proofs
of the most important invariants for every instance. Source positions are
written relative to `src/`.

    tlc -workers 2 -config MCForwardRegistry.cfg MCForwardRegistry
    tlapm ForwardRegistryProofs.tla

`PROJECT.json` lists the runs, for every definition the lines of source it stands
for, the hazards that the properties answer, and for every property a mutation
of the model that violates it.

## 1. The system

`launcher` (`launcher/mac`, Go) boots a Linux VM with Apple's virtualization
framework: Alpine with Podman and SSH, in which consumers run their containers
(the launcher itself never loads or starts Exasol). `launcher start` prepares the data
disk, spawns a **daemon** (`launcher __daemon__`, `runVMDaemon`) and watches files
until the daemon has succeeded or failed. The daemon owns the VM and the port
forwards and lives until the VM stops or it gets SIGTERM. Everything else
(`stop`, `status`, `run`, `shell`, `forward`, `health-check`) finds the daemon
through files of the working directory:

| file | written by | read by |
|---|---|---|
| `vm.sock` (status socket) | daemon: removed and rebound on start | `start`, `status`, `forward`, `resize-data`, `health-check` |
| `vm.pid` | daemon; removed by its deferred calls and by `stop` | `stop` |
| `vm-runtime.json` (guest address) | daemon, when SSH answers; removed by its deferred calls and by `start` | `run`, `shell`, `health-check` |
| `vm-state.json` (result of the start, effective forwards) | daemon at the end of the start and on every `forward add/remove`; removed by `start` | `start`, consumers |
| `vm-state-degraded.json` | daemon, when SSH does not answer; removed by `start` | `start` |
| `vm/data.img` | `start`, `resize-data`; the guest | the guest |
| `vm-console.log` | guest (init's markers and JSON); emptied by the daemon | daemon |

### Components

| component | state | operations | correct when |
|---|---|---|---|
| Forward registry, control socket (`main.go` 1241–1520, `forward_commands.go`, `forwarding.go` 230–330) | `forwarderRegistry` under `forwarderRegistryMu`, `forwardsReady`, `forwardsStopping`, the open sockets, the forwards in `vm-state.json` | bind at start, publish, add, remove, list, closeForwarders | registry, sockets and file agree; what is announced works; every request is answered truthfully |
| LoopbackForwarder (`forwarding.go` 100–228) | listener, wait group, context, `closeOnce`, two sockets, two copies and two `AfterFunc` hooks per connection | accept, dial, copy, Close | Close returns and leaves nothing; a connection ends on both sides and only for its own reasons |
| Data disk (`main.go` 315–345, 755–810, 1752–1800, `container/format-data-disk.initd.sh`, `container/grow-var-fs.initd.sh`) | size of `data.img`, its file system and label, the guest's files | create, grow, resize-data, format, relabel, grow the file system | only grows; data are never formatted over or cut off |
| VM lifecycle (`main.go` 859–1015, 1220–1520, 1575–1620, 1705–1750) | the five files, the phase of each daemon, its signal handler | start with its four watchers, stop, every exit of the daemon | one VM on the disks; it stays in reach; start and stop report the truth |
| Daemon shutdown (`main.go` 459–530, 805–860, 1320–1520) | Main, the signal handler, the helper of `shutdownVM`, the clock synchronization, the VM with what its guest has not flushed | vm.Start and its failures, SIGTERM, power-off over SSH, RequestStop, Stop, the waits of 5, 30 and 60 s, the deferred calls | the daemon ends; it does not silently cut off a guest that has data to flush |
| Init handshake (`main.go` 344–456, `launcher/assets/init`, `container/run-host-init.initd.sh`) | console log, `init.log` and `init-output.json` on the shared directory | copy the template, import keys, write the address, print; poll, time out | the daemon takes the address this boot reported, and fails only for a reason |
| Guest boot (`container/`) | OpenRC services and their order | start of each service | a healthy VM has its data disk at `/var`, its directories on it and its keys |
| Forward specifications (`forwarding.go` 20–100) | none | parse, encode for the daemon | the daemon binds what the user wrote |
| Clock synchronization (`main.go` 459–530) | ticker, context, join | ssh `date -s` at the start and on each tick | it never outlives its cancel, and never keeps the daemon |
| `init`, `run`, `shell`, `status`, `health-check`, build, packaging, CI | – | – | – |

### What is hard here

* Goroutines of the daemon (Main, the signal handler, one per control connection)
  meet in the registry; Main goes on binding and publishing while the handler
  closes.
* Main and the handler also meet in the VM: each may end the process, and with it
  a VM that the other one is still waiting for. RequestStop and Stop may never
  return; an ssh may hang.
* The guest goes on booting after any of its services has failed, and tells the
  host about it on a console that the kernel writes to as well, from files that
  survive on the shared directory.
* An `add` and a `remove` change three things (map, socket, file), each of which
  may fail after the previous one has succeeded.
* `Close` of a forwarder waits for goroutines that wait for peers that owe
  nothing to anyone, and it is called with the registry's mutex held.
* Commands are separate processes with no lock between them. `start` gives up
  after 4 minutes, its daemon only after 5 + 2; the daemon's handler gives up
  after 60 s, `stop` 5 s later.
* The handler leaves by `os.Exit`, so that no deferred removal runs: the files
  of a dead daemon stay behind.
* The disk is compared in one unit and truncated in another, after a stat that may
  be stale, and the guest decides on every boot whether to format it.

Each of these is an entry of `hazards` in `PROJECT.json`, with its line and with
the properties that would catch it, or with the reason why none does.

## 2. The modules

    ForwardService          what `launcher forward` promises (abstract)
      ^ implemented by      (ForwardServiceProofs)
    ForwardRegistry         the daemon's table of forwards     <- MCForwardRegistry, ForwardRegistryProofs
    PortForward             what one forwarder promises (abstract)
      ^ implemented by      (LoopbackForwarderProofs)
    LoopbackForwarder       one entry of that table            <- MCLoopbackForwarder, LoopbackForwarderProofs
    VMLifecycle             start, stop, daemons, files        <- MCVMLifecycle, VMLifecycleProofs
      ^ steps implemented by (ShutdownProofs)
    Shutdown                how one of its daemons ends        <- ShutdownProofs (finite: checked as it is)
    GuestBoot               the guest's boot, and the daemon
                            that watches it                    <- MCGuestBoot, GuestBootProofs
    DataDisk                data.img from host and guest       <- MCDataDisk, DataDiskProofs

The modules meet in few places, and each takes from the other only what the
other has shown. ForwardRegistry treats the Close of a forwarder as one step:
LoopbackForwarder implements PortForward (`KeepsPromise`), whose port stays open
until that step and never opens again, and shows that Close returns
(`CloseReturns`). Shutdown treats `closeForwarders` as one step: that it ends
whatever requests hold the mutex is `TermCloses` of ForwardRegistry. VMLifecycle treats forwards and
disk as internal to the daemon's phases, and the end of a daemon as a few steps
that may happen at any time: Shutdown shows when they do, and that there are no
others (`EndsAsInLifecycle`). GuestBoot takes
the result of `format-data-disk` from DataDisk, which treats the daemon as
`off/launched/boot/…`.

### ForwardRegistry

| model | code |
|---|---|
| `mutex` | `forwarderRegistryMu`: its holder |
| `registry` | `forwarderRegistry`, as the set of its forwarders |
| `listening` | sockets that are open (bound by `startForwarder`, closed by `Close`) |
| `vmState` | the forwards in `vm-state.json`; `Absent = {None}` when there is no file |
| `ready`, `stopping` | `forwardsReady`, `forwardsStopping` |
| `pc`, `next`, `fresh`, `startStates` | Main's position, the loop over `--forward`, the forwarder between bind and register, `forwardStates` |
| `req`, `held`, `reply` | the request a connection serves, the forwarder its handler works on, how it ended |

`BindSpec … VMStopped` are `runVMDaemon` from the guest's address on; `SigTerm`,
`BeginClose`, `CloseOne`, `EndClose`, `Exit` are the handler and
`closeForwarders`, which Main also runs when it returns; `Receive … RemoveClose`
are `handleForwardRequest` and `updateForward` with each of their error paths.
Steps that nobody else can see apart are merged. The windows that can be seen
are kept: bound but not yet published, unpublished but not yet closed, closed
one after the other. `Crash` ends the process anywhere.

A listen may return any free port for port 0, and may fail for any port, since
other programs' sockets are not modelled.

### ForwardService

Every request takes effect at one instant between its submission and its
answer, on its own name only, or is refused and has no effect. The mapping to it
is at the end of `ForwardRegistry`: the table is `vm-state.json` once the daemon
is ready, and a client whose remove has been saved but whose socket is still open
is `Unlisted`, in effect but unanswered. The detailed module implements it:
`ServiceSpec` is checked as a PROPERTY on the small instance, and proved for every
instance in ForwardServiceProofs.

### LoopbackForwarder

One forwarder with its accept loop, `proxyConnection` for each connection, the
two `io.Copy` goroutines, the two `context.AfterFunc` hooks, and several callers
of `Close`. `wg` is the wait group, so that a missing or a doubled `Done` shows
as a number. The peers are the environment: either end may stop sending (`half`),
disappear (`gone`), or simply never read again, in which case the copy stays in
its Write. Data are not modelled: a copy loop is in a Read or in a Write. A Read
does not notice what happens to the other socket of its copy, which is what
makes the closing in `proxyConnection` necessary.

### PortForward

The forwarder as the registry knows it: a port that is open until the first Close,
the connections that are served, those that are done with, and the callers of Close. The
mapping is at the end of LoopbackForwarder: a connection is served from its
Accept until its goroutine has left and both its sockets are closed; the queue of the listener, the dial, the copies,
the hooks and the wait group are not seen. A caller is `called` until its
Close returns, whether it runs the function of `closeOnce` or waits for it.

### DataDisk

Sizes are in GB; `Bytes` is `int64(gb) * 2^30` (in GB: a signed number modulo
2^34, with `Half` for 2^33). `Start … StartSpawn` are `startCmd`,
`ensureDataDisk` and `createSparseDataDisk` with every step between a look at the
file and a change to it; `Resize … ResizeFails` are `resizeDataDiskCmd`. `Attach`
is the VM taking the image, `FormatKeeps/Makes/Fails` is `format-data-disk`, and
`Grow` is `grow-var-fs`, which OpenRC starts *after* `format-data-disk` but also
when that has failed. `Off` and `Interrupt` end a VM and a command between any
two of their steps. Initially the disk is absent, or one that an earlier
installation left behind, with our label, another label or another file system.

Whether the probe of a command has seen the VM is left open, so that commands also
meet a disk in use. A start may then put a second VM on the disk: `shared` remembers it,
`vm` follows whichever of the two one likes, and from then on `Clobber` may lose files or the superblock at any
time. `DataSurvives` and `FsFits` except such a disk; `GrowOnly` and `SpawnsAtRequest` do not. `start` and `resize-data`
are given sizes from sets of their own (`Sizes`, `NewSizes`), since they treat a size whose bytes overflow differently.

### VMLifecycle

Every file is modelled by the daemon that wrote it last, since all the questions
about a file are whose it is. `Start…` is `startCmd`: probe, three removals, spawn,
and the select over four watchers (state file, degraded marker, exit of the
child, 4 minutes). `Stop…` is `stopCmd`, and the daemon's actions are `runVMDaemon` with
every early return, the signal handler and the crash. Main and the handler of
one daemon run side by side, so that Main may be between its deferred removals
when the handler calls `os.Exit` (`HandlerExit`). `Return` is Main leaving its loop
or failing, `Unrecord` its removal of `vm.pid`, which comes after the join of the
clock synchronization, `Exit` that of `vm-runtime.json` and the end of the process.

The status listener is a goroutine of its own. It leaves at the first `Accept` that fails and
removes `vm.sock` by its name, while daemon and VM live on (`ListenerEnds`, `deaf`). The
probe of `start` takes any error, and 2 s without an answer, for a VM that does not run: `StartProbe` may go
on whatever the state of the daemons. `blind` and `missed` are history: the starts whose probe has
overlooked a live daemon, and the daemons they overlooked or spawned beside one.

The constant `Serial` names what the code relies on and does not enforce: users
run one launcher command at a time, and a start that has spawned its daemon is not
interrupted before that daemon listens. Nothing is assumed about the framework
refusing a disk image that another VM holds. The launcher keeps a second VM away
only while its probe is answered; the properties say so by their exceptions for `missed`
and `deaf`, and hold again for the next daemon once the overlooked ones are gone. Without `Serial`
even an answered probe is not enough: two starts that both probe before
either daemon listens spawn two, and the socket goes to the later one. No document
of the repository speaks of concurrent commands, or of a second start that is refused, so that these are hazards and
not findings.

### Shutdown

| model | code |
|---|---|
| `main` | `runVMDaemon` from `vm.Start` on: boot, bind, wait for SSH, first synchronization, publication, polling, the deferred calls, and the end of `main` |
| `handler` | the signal handler: `closeForwarders` and cancel, one look at `sshTarget`, ssh `poweroff`, RequestStop or Stop, the wait of 60 s, `os.Exit` |
| `helper` | the goroutine in which `shutdownVM` calls RequestStop or Stop |
| `clock`, `cancelled` | the goroutine of `startGuestClockSynchronization` and its context |
| `target` | `sshTarget` is set |
| `vm`, `data` | the framework's VM, and whether its guest has something in memory that is not on disk; both end with the process |
| `hung` | calls that never return: RequestStop or Stop of the handler or of the helper, the handler's ssh |
| `excuses` | history: what has gone wrong, so that a loss of data can be told from a silent one |
| `files` | which of `vm.sock`, `vm.pid`, `vm-runtime.json`, `vm-state.json` and the degraded marker are there; the status listener lives as long as its socket |

There are no timers: a timeout may expire whenever what it waits for has not
happened. `Die` takes the VM with the process, since the framework runs it in
there. The guest may power off, or ignore every request.

`Lifecycle`, at the end of the module, is VMLifecycle with this daemon as its only one
and with one `stop` that is about to signal it. Several positions of Main are one
phase there (`Phase`), the handler's positions are one bit (`term`), and the helper,
the clock and the data are not seen. The daemon begins in the middle of a life of
VMLifecycle, with a socket, a vm.pid and no VM, so that `EndsAsInLifecycle` is about the steps. A `vm.pid`
that could not be written (`nameless`) and daemons that were overlooked are left to VMLifecycle.

### GuestBoot

| model | code |
|---|---|
| `svc`, `Needs`, `After` | OpenRC's state of the seven services that matter here, and their `need`, `after` and `before` |
| `label`, `var`, `skeleton` | the result of `format-data-disk`, of the mount of `/var`, of `setup-var-structure` |
| `shared`, `json`, `log` | `/mnt/host`, and the two files on it that survive from one start to the next |
| `keys` | root's `authorized_keys` are the launcher's |
| `console`, `toPrint` | `vm-console.log`, line by line, and what `cat init.log` has yet to write to it |
| `daemon`, `vmIP` | `waitForInitOutput`, the binding of the forwards, `waitForSSHService`, the first clock synchronization, the publication; and the address accepted |
| `trouble` | history: which step has failed in this start |

The services of the image may fail, except that `localmount` and `setup-var-structure` report success
whatever they could not do: the one leaves a mount out (`Mount`), the other a directory (`SetupVar`, `skeleton = "part"`). Each
step of `init.sh` may fail, too: the copy, the keys, the address, `jq`, or the writing of any line of its output
(`Cut`). The boot goes on with what there is, as OpenRC and a shell without `set -e` do. The console has
four kinds of lines: the two markers, JSON with an address, anything else. A kernel message comes between two lines of
`cat` or spoils one. Initially the three files hold whatever an earlier start may have left, cut or whole.
Alpine's own services (`localmount`, `networking`, `sshd`) are external.

After the SSH banner the daemon runs `ssh` once to set the clock, without a timeout (`Synchronized`, to which no
fairness is given), and only then publishes, which may fail (`PublishFails`).

### Slips

Each module has a section of operators whose names start with `Slip`. Each is a
definition as it could plausibly have been written by mistake (an unlock too
early, a roll-back forgotten, a comparison left out). No specification
uses them. They document what each property protects against: with the slip in
place of the definition it names, TLC finds that property violated
(`mutants` in `PROJECT.json`).

## 3. The runs

| run | instance | distinct states | shows |
|---|---|---|---|
| `registry` | 2 clients, 9 requests, 2 names, 2 ports, 2 loopback addresses, 2 start forwards | 179 000 | registry, sockets and file agree (`Quiescent`, `PublishedListening`, `NoSocketLeak`), an announced start takes requests (`StartedIsReady`), a stopping daemon refuses (`StoppingRefuses`), nobody loses a forward to someone else's request (`OthersPreserved`), answers are true (`AnswersTrue`), and the service is implemented (`ServiceSpec`) |
| `registry_live` | 2 clients, 3 requests, 1 start forward | 22 700 | every request is answered (`Answered`), a SIGTERM closes the forwards and lets its handler go on (`TermCloses`) |
| `registry_stop` | as `registry_live` | – | **violated**: see finding 1 |
| `forwarder` | 2 connections, 2 callers of Close, symmetric | 499 000 | PortForward is implemented: when a Close has returned the port is closed and no goroutine or socket of a connection is left (`KeepsPromise`); a connection in use is not cut (`HealthyStays`) |
| `forwarder_live` | 1 connection, 2 callers | 5 300 | Close returns, whatever the peers do (`CloseReturns`); a connection that one side has left ends on both sides, if peers read (`EndsOnBothSides`) |
| `disk` | 2 commands, one at a time; largest file 3 GB, `Half = 8`; start is asked for 1–4, 9, 17, 18, resize-data for 1–4 | 291 000 | the disk only grows, also where the bytes of start's size overflow (`GrowOnly`); start boots on the size asked for, if that does not overflow (`SpawnsAtRequest`); unless two VMs share the disk, the guest's files survive (`DataSurvives`) and the file system fits (`FsFits`) |
| `disk_overflow` | 1 command, resize-data may be asked for 9, 17, 18 too | – | **violated**: finding 2 |
| `lifecycle` | 2 commands, one at a time, 3 daemons | 1 800 000 | as long as no start has overlooked a daemon: one VM (`OneVM`), in reach (`Reachable`), no stale address (`RuntimeMatches`), start and stop report the truth (`StartHonest`, `StopHonest`) |
| `lifecycle_late` | 2 commands, 2 daemons | – | **violated**: finding 3 |
| `shutdown` | all of it: there are no constants | 5 800 | no unwritten data are lost without a warning or a failed start (`FlushedOrWarned`); the daemon ends after SIGTERM, after a failed bind and after a return (`TermEnds`, `BindFailureEnds`, `ReturnEnds`); a cancelled synchronization stops (`ClockStops`); each step is one of a daemon in VMLifecycle (`EndsAsInLifecycle`) |
| `shutdown_stuck` | the same | – | **violated**: finding 4 |
| `guest_boot` | 2 addresses, 1 kernel message | 1 950 000 | no stale address (`AcceptedIsCurrent`), no half-built VM announced as healthy (`HealthyIsWhole`), no failure without a cause (`FailureHasCause`), an end to every start that does not stay in its clock synchronization (`StartEnds`) |

### Why the bounds are enough

*Registry.* Conflicts are between at most two requests, or one request and one
start or stop. Two names compete for one port number, one request lets the system
choose, one uses the second loopback address, and two must be refused (guest port
0, an address that is not loopback). One request differs from the mapping it
meets only in its host port, so that idempotence and conflict are told apart.
*Forwarder.* Connections only meet in the accept loop, the wait group and
`Close`: with two of them one can be accepted while the other ends. Liveness of a
connection is its own affair, so one is enough there, with two callers of Close, of
which one may find it done. *Disk.* Sizes are only
compared: 1 to 3 give smaller, equal and larger, 4 is too large for the host, and with `Half = 8` the bytes of 9 are
negative and those of 17 and 18 are the ones of 1 and 2. *Lifecycle.* Two daemons live side by side, of which one was
overlooked, and a third meets what dead ones have left behind: `Bound` lets it be spawned beside living
ones, but not go on there. `Future` is the view of a state without what no guard and no property asks for any more (the
handler, name and listener of a dead daemon, the last words of an idle command); it may only be used with
properties of states and steps, as is the case here, and so may the symmetry of `lifecycle` and `forwarder`.
*Guest boot.* Two addresses: an old one and another, either of which may be the guest's. One kernel message is enough
to spoil any one line, or to come between any two; more of them only spoil more. `MCSpec` bounds what earlier
starts may have left behind to the files of one of them, with a log that is whole, without its end, or empty (it is only printed in a boot that could not
open `init.log`); the theorems are about `Spec`, which has them all.
`CHECK_DEADLOCK FALSE`: a boot ends. *Shutdown.* The state space is the whole system.
`CHECK_DEADLOCK FALSE` in the lifecycle because each process id is used once: when all
three daemons are dead and no command can be started the model stops, the system
does not.

For the theorems of section 4 the bounds do not matter at all.

### Fairness

*Registry.* Goroutines that can run do run (WF), and a goroutine that waits for
the mutex gets it in the end (SF): a Go mutex goes into starvation mode after a
waiter has waited 1 ms, and then hands itself to the waiters in turn. No fairness
for `Receive`, `SigTerm`, `VMStopped`, `Crash`: nobody has to send requests or
stop anything; none for `SSHReady` and `SSHTimeout`, as the first clock synchronization may hang in
its ssh; and none for `Exit`, as RequestStop or Stop may hang in the handler (finding 4). `TermCloses` ends where the handler
has closed the forwards; what becomes of the daemon then is in Shutdown. It assumes that the
Close of each forwarder ends (checked in `forwarder_live`).
*Forwarder.* `FairSpec` assumes of Go that goroutines run, that hooks run after
the cancel and that a dial returns when its context is cancelled, and of the
peers nothing; a dial may stay unanswered and a Write may block forever. Only
`EndsOnBothSides` needs more, and says so: it is conditional on `ReadingPeers`, as without a
peer that reads, a copy that is in a Write cannot notice that the other side has gone.
*Shutdown.* Goroutines run, and timeouts expire when nothing else happens. An ssh
that runs `date` has no timeout of its own once it is connected: it is only assumed to end
when its context is cancelled. A call in `hung` stays there, and the guest
promises nothing: neither to power off nor to write.
*Guest boot.* Only the daemon is fair: it polls, and its two waits of 5 and 2 minutes
have an end. The guest may stop anywhere. The ssh of the clock synchronization has no bound and gets no fairness; `StartEnds` is
about the behaviours in which the daemon does not stay in it for ever.

### Findings

1. **A stop during the start** (`registry_stop`, `main.go:1495`). SIGTERM closes the
   forwarders while Main is still waiting for SSH. Main then takes the mutex and
   publishes its own copy of the mappings in `vm-state.json`; only `forwardsReady`
   looks at `forwardsStopping`. A reader is shown forwards that are closed.
2. **resize-data can shrink** (`disk_overflow`, `main.go:1774`). The comparison is
   in GB, the truncation in bytes that have wrapped around.
3. **A result after the failure** (`lifecycle_late`, `main.go:1494`). `start`
   reports a failure after 4 minutes; its daemon goes on and may write the
   result of a successful start later.
4. **SIGTERM during the boot** (`shutdown_stuck`, `main.go:1375`). As long as there is
   no SSH address, the handler calls RequestStop itself, before its 60 s begin. The
   comment on `shutdownVM` says that this very call has been seen to block for ever on
   a guest that is partly booted, and bounds it for that reason. If it blocks in the handler,
   SIGTERM does not end the daemon: it keeps the VM and the disk.

Some weaknesses are not contradicted by any statement of the repository. They are the exceptions
of the properties, where a reader finds them:

* `AcceptedIsCurrent` excepts a boot in which `init.log` cannot be opened for writing: then
  `init.sh` does not run, and `cat` prints the log of an earlier boot with its address. It
  also excepts one in which neither the template is copied nor the address written:
  `init-output.json` of the last boot is printed. Nothing on the host removes either file.
* `HealthyIsWhole` excepts `Silent`: a disk that was not formatted or mounted, or keys that were
  not imported, or a directory that `setup-var-structure` could not make leave no trace in the output, and a start
  without them is reported healthy (with `/var` on the root file system, with a part of its directories, or without
  anyone being able to log in).
* `SpawnsAtRequest` excepts sizes whose bytes overflow: asked for 2^34 + 1 GB, `start` makes or takes a disk of 1 GB.
* `StartEnds` excepts a guest that takes the connection of the first clock synchronization and keeps it: that ssh has no
  timeout (`main.go:1483`), and nothing is published before it returns.
* `OneVM`, `Reachable`, `RuntimeMatches`, `StartHonest` and `StopHonest` except daemons that a start has
  overlooked (`missed`) and, for the socket, those whose listener has ended (`deaf`). One failed `Accept` is enough to end
  the listener for good (`main.go:1594`), one probe without an answer in time lets a second daemon
  go ahead (`main.go:870`), and it takes over the files of the first. Then two VMs write to one disk: that is the exception
  `shared` of `DataSurvives` and `FsFits`.
* `FlushedOrWarned` excepts a failed start: an error after `vm.Start` returns without
  `shutdownVM` (only the failed bind calls it), also while the handler is waiting for
  the guest to power off. It excepts a SIGTERM before `vm.Start` too: the handler takes the
  state of a VM that has not been started for a clean stop, and exits under a VM that
  Main starts meanwhile.

## 4. What is proved

TLAPS checks every proof below to its last leaf, for every value of the constants
that satisfies the ASSUME of the module.

**ForwardRegistryProofs** – `TypeOK`, `NoSocketLeak`, `PublishedListening`,
`Quiescent`, `StartedIsReady`, `StoppingRefuses` and
`OthersPreserved`, for any number of clients, names, ports, addresses, requests
and start forwards. None of these is inductive: each speaks of what is visible,
while a step depends on who is in the middle of what. The invariant `IInv` adds
(a) that the mutex is held exactly by the one goroutine whose position is inside
a critical section, (b) for each such position how registry, sockets and file
differ at that moment and by which forwarder (`held` or `fresh`), (c) that the registry has one
forwarder per name, so that names find them, and (d) that what Main will publish is what
it has registered, unless somebody has begun to close.

**ForwardServiceProofs** – `Implements`: `Spec => ServiceSpec`, the refinement, for all
of the above. Every step of the registry is either one step of the service (the saves of
`vm-state.json`, the refusals, the answers, the publication, the stop) or a stutter. Beyond `IInv`
the argument needs `Purpose`: what a client holds in the middle of a request is what the
request asked for, so that the save adds or removes the mapping that the service does.
`AnswersHonest` (`AnswersTrue`) adds what an answer says about open sockets; it needs that a forwarder
for which a port was asked has that port (`PortKept`).

**LoopbackForwarderProofs** – `TypeOK`, `HealthyStays` and `KeepsPromise` for every finite set of
connections (`ConnsFinite`) and any number of callers. `IInv` says that `wg` is the number of
goroutines that have not ended: `(acceptor has not returned) +
Cardinality(connections between Spawn and Leave)`. That is what makes "the
counter is zero" mean "nothing is left", and what makes it safe that `Add` and
`Wait` run concurrently: `WaitGroupRule` is the rule that the
documentation of `sync.WaitGroup` sets for that (no Add from zero), and it holds because a connection
in the accept loop's hands is covered by the loop's own count. `CloseLeavesNothing` says in
the terms of the code what is left when a Close has returned: no listener, no accept loop, no
goroutine, no socket. `NothingBlocksClose` (`Breakable`: whoever dials or copies has the hook armed for each of its
open sockets) is the part of `CloseReturns` that does not depend on fairness, for any number
of connections; it is inductive as it stands. For `HealthyStays` the invariant `Undisturbed` says that both copies of such
a connection are under way. `PromiseKept` is the refinement of PortForward: `Accept`, `Leave`,
`CallClose`, `CloseListener` and the two ends of Close are its steps, and all others stutter. That
Close returns only when nobody is served is where `IInv` is needed, and its `OpenSockets` for the sockets.

**DataDiskProofs** – `TypeOK`, `DataSurvives`, `SpawnsAtRequest`, `FsFits`, `GrowOnly` under `Serial`
and `InRange` (the sizes that users ask `resize-data` for do not overflow; those of `start` may). Both matter: without
`InRange` there is finding 2, and with `Serial = FALSE` in `MCDataDisk.cfg` TLC finds
the stat and the truncate of two commands interleaved so that the smaller
truncate comes last. `IInv` says that a command past its stat still sees the
disk it looked at, because no other command is under way and the guest never changes the size of the file:
`start` has compared the bytes that it truncates to, or has just made an empty file, and
`resize-data` has compared its argument (`Commands`). It also says that the file covers the file system and the
attached disk, that there is nothing on an empty one, and that what a disk
holds goes with its file system, unless two VMs have shared it (`Coverage`).

**VMLifecycleProofs** – `TypeOK`, `OneVM`, `Reachable`, `RuntimeMatches`, `StartHonest`,
`StopHonest` under `Serial`, for any number of commands and daemons. The heart of `IInv` is that a daemon
that was not overlooked lives alone (`OneDaemon`), that the socket leads to it as long as it listens (`Found`), and that
a start past its probe has met none, or else is blind and has put every daemon alive in `missed`
(`NoneAlive`). The last is why the exceptions are no wider than they have to be: a lost answer, or a listener that has ended,
is recorded at the probe that overlooks its daemon, and not before. The rest relates each file to the phase of
the daemon that has it to itself.

**GuestBootProofs** – `TypeOK`, `AcceptedIsCurrent`, `HealthyIsWhole` and `FailureHasCause` for
any set of addresses and any number of kernel messages. `TypeOK` has two parts: `Flags`, which each step changes by a
choice from a small set, and `Texts`, for which the lines of `Cut`, of what `cat` has yet to print
and of the console must be shown to be lines. `IInv` says in which order the services
have come (`Order`), that before `run-host-init` nothing of an init output is on the console, and after
it every address there, or on its way there, is this boot's (`Printed`), and what each
service has left behind unless `trouble` says otherwise (`Effects`). For `FailureHasCause` a
further invariant says what the console looks like when nothing has spoiled it: a
prefix of one output, the rest of which is in `toPrint`.

**ShutdownProofs** – `TypeOK`, `FlushedOrWarned` and `EndsAsInLifecycle`. `FlushedOrWarned` is not
inductive: Main and the handler each decide to end the process some steps before they do, and in
between the guest and the other goroutine go on. `IInv` says that only Main starts the VM (`OnceStarted`),
that a guest has something to flush only while its VM runs (`DirtyRuns`), that whoever is on its way out has an
excuse or has seen a VM that will never run again (`Excused`), and that the process is gone when one of the two has left
(`Left`). `FitsLifecycle` shows each of the 38 actions to be one of VMLifecycle's or a stutter. The ones that could
fail to be are the starts that fail under a handler that has pulled the plug, the listener that ends before its daemon, and the
return of Main, which VMLifecycle allows from `serving` only when the VM has stopped. What the invariant of VMLifecycleProofs
says of a daemon is proved there, for any number of them, and is not repeated for the single one here.

Only model-checked:

* liveness under fairness (`Answered`, `TermCloses`, `TermEnds`, `CloseReturns`,
  `EndsOnBothSides`, `BindFailureEnds`, `ReturnEnds`, `ClockStops`, `StartEnds`): out of reach of the
  prover, as is ENABLED. What they rest on is proved where it is a safety property (`Breakable`,
  `TypeOK` of the wait group, the mutex's holder in `IInv` of the registry);
* `StopBounded`, `WrittenIsEffective`, `NoLateResult` and the `GrowOnly` of `disk_overflow` do not hold:
  they are the findings.

No module uses a RECURSIVE operator. Nothing here is an induction over data.

## 5. What is not modelled, and why

* **Encoding of forward specifications** (`parseForwardSpecs`, `forwardSpecList`): a sequential conversion of
  text to a record and back, in which no two actors meet. What is checked of a request afterwards is `Acceptable` of
  ForwardRegistry.
* **health-check, status**: read-only. The snapshot that `health-check` takes of the registry changes
  nothing; the address it uses is `RuntimeMatches`.
* **init, run, shell**: sequential file I/O and ssh.
* **report-ip, exasol-network, acpid** and the device nodes of the image: nothing that start
  waits for depends on them. That a guest without acpid ignores RequestStop is in Shutdown.
* **The Error state of the framework's VM**: the code only asks for `Stopped`; when the framework
  reports an error is not known to it. A model would repeat the poll.
* **Bytes on a connection**, the TCP stack, the framework and the guest's kernel:
  represented by what the code can observe of them.
* **Reuse of process ids**: `stop` signals whatever process `vm.pid` names; how
  the host numbers processes is not this code's decision.
* **Two commands at the same time**: the launcher has no lock between processes, and its
  documents promise nothing for them. The modules have the interleavings (`Serial = FALSE`); the properties
  are stated for users who run one command at a time.
* **Build, packaging, QEMU scripts, CI**: linear scripts.

## 6. How the project was built, and how to go on

In the order of importance: ForwardRegistry with ForwardService, LoopbackForwarder, DataDisk,
VMLifecycle; then Shutdown and GuestBoot, which open the two ends of a daemon that VMLifecycle treats as
a few steps; then the refinement and the invariant of the boot; then the proofs about the end of a daemon,
the fit of its steps into VMLifecycle, and the promise of a forwarder; then the status listener that ends before its daemon, the probe
without an answer, and what follows from them for the disk.

A change of the code that touches a line named in `map` is followed by the same change of the
definition, its run, and the proof step of that name. Worth adding when the code comes to it: a
lock between launcher processes (then `Serial` becomes a theorem instead of an assumption), a removal of
`init.log` and `init-output.json` at every start (then the two exceptions of
`AcceptedIsCurrent` go), a bound on RequestStop in the handler (then `StopBounded` moves to a passing run), and a listener that goes on
after a failed `Accept` (then `deaf` goes, and with a lock on `data.img` `missed` as well).
