# stereosd in TLA+

`stereosd` is the control plane daemon of a StereOS guest. A host talks to it
over vsock (or TCP), administrators over a Unix socket; it injects secrets and
SSH keys, mounts shared directories, reports a lifecycle state, watches the
agents that `agentd` runs, and shuts the machine down. This directory holds
TLA+ modules of the daemon, the TLC configurations that check them, and proofs
that TLAPS checks. File and line numbers refer to the repository.

    tlc -workers 2 -config LifecycleFull.cfg MCLifecycle.tla
    tlapm LifecycleProofs.tla

## 1. Inventory

Goroutines: `Daemon.Run`; the agentd poller; the control server's accept loop,
the goroutine that closes its listener, and one per connection
(`server.go:65`); the IPC server's `Serve`, the goroutine that shuts it down
with the context, and one per HTTP request (`ipc.go`); one per accepted
shutdown request (`stereosd.go:360`, `ipc.go:205`). They share the components
below. Only `LifecycleManager` has a lock.

| Component | State | Operations | What is hard | What makes it correct |
|---|---|---|---|---|
| `LifecycleManager` (`lifecycle.go`) | state, agent list, sender | `Transition`, `State`, `ReplaceAgentStatuses`, `Health` | any caller may set any state; the push comes after the unlock | states follow an order; shutdown lasts; the host learns of each state |
| agentd client and poller (`agentd.go`) | none of its own | `Run`, `poll`, `Agents` | replaces the list, reads the state and writes it in three critical sections; polls fail | healthy is backed by a running agent; the cache catches up |
| `MountManager` (`mounts.go`) | slice of mounts; the kernel's mount table | `Mount`, `UnmountAll`, `ActiveMounts` | no lock; commands fail; the list dies with the process and the mounts do not | nothing mounted is forgotten; nested mounts come off first |
| `ShutdownCoordinator` (`shutdown.go`) | none | `Execute` | runs beside everything, possibly twice | the machine powers off, and cleanly |
| `Daemon` (`stereosd.go`) | `shutdownRequested`, context | `Run`, `HandleMessage`, `createListener`, `requestShutdown` | stop requests at any moment; server errors race with them | a stop request ends `Run`, and without an error; an acknowledged shutdown is seen through |
| `SecretManager` (`secrets.go`) | a tmpfs directory | `Inject`, `List`, `Remove` | concurrent writers, failed writes, restarts | atomic replacement; no mixing of secrets; the mode asked for |
| `SSHKeyManager` (`sshkeys.go`) | each user's `authorized_keys` | `InjectAuthorizedKey` | the same, and a chown by path | atomic replacement; the user owns the file |
| control server (`server.go`) | listener, connections, wait group; the configuration file, through `set_config` | `Serve`, `handleConnection` | failing accepts, idle or broken connections, long lines, writing in place | one response per message, in order; `Serve` ends with the context, after its connections |
| IPC server (`ipc.go`) | socket, listener, HTTP server | `Serve`, `Close`, handlers | `Close` against a `Serve` that is still starting | no socket is left behind, `Serve` ends |
| listeners (`vsock`, `tcp`, `createListener`) | a listening descriptor | choose, listen, close | the probe of the transport; closing does not wake `accept4` | the daemon listens where its host can reach it |
| runtime directories (`dirs.go`) | three directories | `EnsureRuntimeDirs` | an earlier start that was cut short | the modes documented |
| protocol, command line | none | decode, dispatch, flags, signals | straight-line code | the responses of the message table |

`Run` makes the directories, creates the listener, starts both servers and the
poller, and calls `Transition` at boot, when ready and at the end. The poller
writes the agent list and may promote the daemon to healthy. A shutdown
request, from either server, runs `Execute`, which sets the shutdown state,
calls `UnmountAll`, syncs, powers off, and then closes `shutdownRequested`, on
which `Run` closes the IPC server and returns, and `main` exits. An error of
either server ends `Run` too. The service is restarted whenever it exits
(`flake.nix:70`), with the lifecycle and the mount list empty and the files,
the socket and the mounts as they were.

`PROJECT.json` lists the hazards this gives rise to, each at its line.

## 2. Modules

| Module | Models | Notes |
|---|---|---|
| `Lifecycle` | `LifecycleManager` and every goroutine that moves it: `Run`, poller, shutdown requests, signals, death and restart | one action per critical section or step between them |
| `LifecycleContract` | what a host that polls `Health` may rely on | abstract; `Lifecycle` implements it |
| `Mounts` | `Mount` and `UnmountAll`, the kernel's mount table, `umount(8)` | `append` is a load and a store |
| `Daemon` | `Lifecycle` and `Mounts` composed with `Execute`, init and the machine | instances of both, on shared variables |
| `ControlServer` | `Server` with its connections, `HandleMessage`, and `set_config` on its file | over `FileSystem` |
| `Dialogue` | the wire protocol: for each message one response, in order | abstract; `ControlServer` implements it |
| `IPCServer` | `Serve`, its shutdown goroutine and `Close`, over `net/http` and the socket file | operators for `Servers` |
| `Servers` | `Lifecycle`, `ControlServer` and `IPCServer` composed with the directories, the choice of a listener, server errors, stops, deaths and restarts | instances of all three |
| `FileSystem` | open, write, chown, rename and unlink on one directory of inodes | external to the repository |
| `Secrets` | `Inject`, `Remove` | over `FileSystem` |
| `SSHKeys` | `InjectAuthorizedKey` | over `FileSystem` |
| `KeyedStore` | "atomic writes": a call stores its whole value in one step, or nothing | abstract; `Secrets` and `SSHKeys` implement it |
| `LifecycleProofs`, `MountsProofs`, `DaemonProofs`, `ControlServerProofs`, `ServersProofs`, `FileSystemProofs`, `SecretsProofs`, `SSHKeysProofs` | theorems and proofs | checked by TLAPS |
| `MC...` | values of the constants | one per model |

A definition whose comment begins with "Mutant" is a plausible mistake in the
code beside it, which a property of the runs must notice; no specification
uses it.

### How the state corresponds to the code

*Lifecycle.* `state` and `agents` are the manager's fields, the agent list
reduced to the set of agents that run (all the code looks at). `runPc` is
where `Daemon.Run` is: `init` (before line 183), `listen` (186-190), `serving`
(the servers and the poller run, ready is not yet reported), `select`,
`cleanup`, `closing`, `dead`. `pollPc` follows `poll`: `asked` between the
request and its answer, `replace` holding the answer in `polled`, `check`
before line 173 reads the state, `promote` between that read and line 174.
`shutPc[s]` is where the goroutine of a shutdown request is. `pushing[t]` is
the envelope goroutine `t` has yet to hand to the callback; `heard` is the
state in the last one the host got. `Transition` takes effect at once, reads
whether a callback is set (`sender`) under the same lock, and its caller goes
no further before its push is out. `SetsSender` says whether anybody calls
`SetVsockSender`, at a moment of its own choosing: tests do and the daemon does
not, so `Daemon` and `Servers` have it `FALSE`.

*Mounts.* `mounts` is the slice; `snap[r]` is the slice that call `r`'s
`append` loaded; `table` is the kernel's mount table, oldest first, with the
rule of `umount(8)`: it detaches the newest mount on the path, and only if
nothing is mounted below it and the path is not hidden by a later mount above
it. Two slices never share a backing array below four elements, which bounds
the model: runs have at most three requests. `tried`, `orphans`, `overlap` and
`race` are history: mounts that umount was run for, mounts an earlier process
left, whether two calls of this process have overlapped, and whether two
goroutines have used the list at once, between the load and the store of an
`append` or from the head of the loop to `mounts = nil`. Nothing in the model
or in the code keeps either from happening. A data race is modelled as Go
defines it for a multi-word value: a read that overlaps a write may pair the
parts of two slices and fault (`TornRead`); every other outcome is one of the
orders of the load and the store.

*Daemon.* Adds how far each `Execute` is past `UnmountAll` and the machine's
power. A command of an `Execute` in `Hanging`, and any `mount(8)`, may never
return: `ExecCommander.Run` (`mounts.go:42-47`) has no timeout. Init, once told
to power off, signals the daemon or kills it, does not restart it, and turns
the machine off when it is gone.

*ControlServer.* `serve` is where `Serve` is: `loop` (about to call `Accept`),
`accept` (in it), `waiting` (in `wg.Wait`), `returned`, `failed`. `link[c]` is
a connection as the kernel has it, `at[c]` where its goroutine is, `sent[c]`
the lines its client has sent and `next[c]` how many of them the scanner has
returned. A line is a message type and whether its payload decodes; `blank`,
`garbled` and `long` (over 1 MB) are lines that are no message. Closing the
listener resets the connections not yet accepted, except where a goroutine is
inside `accept4(2)` on vsock, which keeps the socket alive until it returns. A
client in `Deaf` may stop reading, and then the answer to it is never written
(`Unread`; `Encode` has no deadline), unless the client goes; a mount request
may be handled for ever (`Mounting`). `set_config` truncates the file and
writes it in place, in two steps. `alone` is history: who set the configuration
with nobody else under way. `Asked(c)`, what a client of `Dialogue` has asked,
is the messages among the lines it sent; the k-th is named by counting the ones
before it, which says the same as `SelectSeq` without its recursion.

*IPCServer.* `ipc` is the line of `Serve` that runs next, `lis` and `srv` are
`s.listener` and `s.server`, `drain` is the goroutine that waits for the
context, `closer` is the line of `Close`. As in Go, closing a Unix listener
unlinks its path once, and a server that is shut down or closed takes no
listener any more. `http.Serve` may also end with an error of `Accept`, which
closes and unlinks the listener. `broke` is history: a system call of this
process failed by itself.

*Servers.* `made` counts the directories `EnsureRuntimeDirs` has done, `perm`
is what is there of each, `cid` what `/dev/vsock` answers, `result` what `Run`
returned. `Exit` has no fairness: the process may outlive `Run`, as it does
in a test, and what is asked of the servers' goroutines is asked of them then
too. The context of the process and the pollers' are one variable, `cancelled`.

*Secrets and SSHKeys.* `dir` maps names to inodes, `file` holds each inode's
data and its mode or owner, `fd[c]` is what call `c` has open. `os.WriteFile`
is an open that creates or truncates and a write at offset 0 that may stop
half-way; the temporary file of a failed write is left behind, as the code
leaves it. Under `Faults` opening, writing, chown and rename may fail by
themselves; a rename in `Secrets` also fails when another call has taken the
file. `List` (`secrets.go:70`) only reads and is not modelled. A call made again
by the host is another call. Users do not share a home directory
(`CallAssumption` of `SSHKeys`).

## 3. Runs

`Serial` and `Careful` are assumptions about the host, named in the modules:
in `Daemon`, `Serial` says that mount and shutdown requests do not overlap, nor
mounts follow a shutdown; in `Secrets` and `SSHKeys`, `Careful` is the set of
secrets or users for which two calls never overlap. The code enforces none of
this. What holds under them is what the code guarantees a careful host; the
other runs show what it does without. `Mounts` assumes nothing of the kind:
its calls overlap freely, and its properties say from the history what has to
have happened before they may fail.

| Run | Checks | Bounds |
|---|---|---|
| `LifecycleFull` | types; shutdown is final once no stale write is pending; healthy is backed; implements `LifecycleContract`; the cache converges; running agents lead to healthy; a stop request ends the process | 2 agents, 2 shutdowns; a callback may be set at any moment; deaths and restarts unbounded |
| `Mounts` | types; the list holds only real mounts, once; nothing forgotten and sweeps in bounds until two goroutines use the list at once; nested first until two calls overlap | 3 mounts on nested and equal paths, 2 sweeps, all overlapping; failures, restarts |
| `DaemonGraceful` | clean power-off, an accepted shutdown powers the machine off | 2 mounts, 1 shutdown |
| `DaemonFaults` | `Run` ends for a signal or a whole `Execute` only, and the machine goes down under it only after a sweep; an accepted shutdown whose commands return ends the process | 1 mount, 2 overlapping shutdowns, one of which may hang, every fault |
| `SecretsStore` | types, no part of a secret reaches another, implements `KeyedStore` | 3 calls for a careful host's secret, 2 overlapping ones for another, 1 refused; failed opens, writes and renames, restarts |
| `SSHKeysStore` | types, the user owns the file, implements `KeyedStore` | 3 calls for a careful host's user, 2 overlapping ones for another; failed steps, restarts |
| `ControlServer` | types (the wait group among them), `Serve` waits for its connections and ends unless a client idles, does not read or has a mount hang, or `accept4` does; every message of a client that reads is answered whatever other connections do, and before the connection waits again; an acknowledged configuration is whole; implements `Dialogue` | TCP and vsock; 2 connections: one sends two lines, each a `set_config` or too long, one, which may stop reading, sends a `set_config`, a blank line or a mount that may hang; failing accepts, opens and writes; a configuration left by an earlier process |
| `Servers` | types, directories as documented, no socket left, nobody serves IPC with no one to end it, a stop is no error, the IPC server comes up and ends, an acknowledged shutdown is backed by its goroutine and honoured | 1 connection; mode `auto` in a guest and on a host; every fault; any directories and socket left by earlier processes |

These bounds reach the cases that matter. Two shutdowns are what it takes for
one to see another's work, two agents for a list to change without emptying,
a third mount for a path to be used twice, before and after another
inside it, three calls for one name for a temporary file to be left by one,
taken over by another and made anew by a third. Two connections are what it
takes for one to keep another waiting or to write the configuration under it,
and two lines on one of them for a second configuration to follow a shorter
one, and for a request to be behind a line that is too long. In `Servers` one
connection brings one shutdown, and what another connection could add is in
`ControlServer`; mode `auto` chooses each listener the other modes name, and
every answer of `/dev/vsock` but a guest CID is treated as that of a host, so
two answers stand for all six (the theorems of `ServersProofs` are about all
of them). What a garbled line and a shutdown bring is in the table of
`HandleMessage` and in the theorems of `ControlServerProofs`, which are about
any lines; the run spends its states on the lines that can hold a connection.
Lines per connection are
bounded by `MaxLines`, and calls are made once each (one made again is another
call), so no other counter needs a cap.

Deadlock is checked except in `Daemon...`, where the system stops for good
after a power-off, and in `ControlServer`, which ends.

### Where the code departs from what is said of it

Each of these runs ends in a counterexample to the one property named.

| Run | Said | What the code does |
|---|---|---|
| `LifecycleOrder` (`DocumentedOrder`) | `lifecycle.go:3-6` | ready or healthy can follow shutdown |
| `LifecycleTold` (`HostIsTold`) | `lifecycle.go:42`, `README.md:102-103` | nothing calls `SetVsockSender`, and the host is told of no state |
| `DaemonDouble` (`ShutdownPowersOff`) | `README.md:58` | overlapping sweeps index past the slice's end; the process dies before the power-off |
| `SecretsMode` (`ModeHonoured`) | `README.md:68` | the temporary file of a failed write is left, and its mode is kept |

The same models show more of the kind, for which no configuration is kept:

- `HostIsTold` fails with `SetsSender = TRUE` as well: a callback that is set
  late misses the states before it, and since the push comes after the unlock,
  `ready` can be pushed after `healthy` and stand as the last thing heard.
- `Accounted` and `LoopInList`, which are `NoForgottenMount` and `SweepInBounds`
  without their premise, fail in run `Mounts`: an unlocked append or `mounts = nil`
  drops a mount, against `mounts.go:25`. `NestedFirst` fails once two mount
  requests overlap (the list is in the order of the appends), against
  `README.md:95`.
- Nothing orders the ack of a shutdown before the power-off, against
  `README.md:58`: the goroutine runs from the step that prepares the ack.
- A lone `Execute` whose umount, sync or `systemctl` never returns leaves the
  daemon serving in state shutdown; `ShutdownEndsProcess` is about those that
  return.
- `EmptyModeFails` fails in `DaemonGraceful` with `Mode = ""`: the comment at
  `shutdown.go:84-85` and `poweroffFor` disagree.
- `ModeHonoured` loses only the mode while calls do not overlap: the value is
  whole (theorem `WholeValue`), and the mode is lost only to a failed write or
  a death (theorem `ModeKept`).
- `ModeHonoured` fails without faults as soon as two calls for one secret
  overlap: they share one temporary file, and one call renames what the other
  has truncated (`README.md:67`).
- `List` does not show a secret whose own name ends in `.tmp` (`secrets.go:70`),
  and an injection of `s` overwrites and removes a secret called `s.tmp`: the
  runs and `Plain` leave such names out.
- `Owned` fails for a user with three overlapping calls: the second renames
  the file the third has just made and not yet chowned (`sshkeys.go:63`).
- `ServeEnds` needs its last disjunct on vsock: closing the descriptor does
  not wake `accept4`, so `Serve` does not return on cancellation
  (`server.go:45`) until one more host connects.
- Ready is reported while the IPC server may not listen yet
  (`stereosd.go:211-213`); `IPCComesUp` says what is left of it.
- `Close` that comes before `Listen` has nothing to close, and `Serve` goes on
  to make the socket, which stays until the context is done (`ipc.go:99`);
  `SocketRemoved` asks for both to have ended. `Run`'s `Close` also cuts the
  requests that the five seconds of `Shutdown` were to drain.
- A client that does not read, or a `mount(8)` that does not end, keeps its
  connection and with it a cancelled `Serve` (`server.go:40-41`); in the daemon
  `Run` does not wait for `Serve`, so `AckIsHonoured` does not depend on it.
- Two overlapping `set_config` leave a mix of both although each was
  acknowledged; `ConfigAsAcked` is about one that nothing overlaps.

### Fairness

The Go scheduler runs each goroutine that can run: weak fairness per goroutine
(`Run`, the poller's own steps, each `Execute` outside `Hanging`, each push;
the accept loop, the goroutine that closes the listener, each connection but
while it writes to a client that does not read or waits for a `mount(8)`; the
IPC server's `Serve`, its shutdown goroutine, `Close`). For agentd, strong
fairness of a good answer: of infinitely many requests it answers infinitely
many. No command is assumed to return but those of an `Execute` outside
`Hanging`, which in `Servers` is each of them. Nothing is assumed of signals,
faults, hosts or of agents starting and stopping: a client may connect and say
nothing, or stay for ever. In `Daemon`, init goes on with a power-off it was
asked for (it signals the daemon, and turns the machine off once the daemon is
gone), and restarts a dead daemon (in `Servers` too); an index out of range
panics, and a torn read need not fault.

## 4. Proofs

For all values of the constants, under the assumptions the modules name
(`...Assumption`), and `Serial`, `Plain` or `~Faults` where a
theorem says so:

- `LifecycleProofs`: `TypeCorrect`, `ShutdownStays` (`ShutdownIsFinal`),
  `HealthyBacked` (`HealthyIsBacked`), `Implementation` (`ImplementsContract`).
  `ShutdownSettled` is inductive by itself while the process lives. The other
  two need `IInv`: nothing of the process runs before its servers start or
  after its death, `state` stays out of ready and healthy until `Run` has
  reported ready, and a poller at `check` or `promote` holds a list with a
  running agent that is also the stored one. Without the last part
  `PollPromote` could be reached with an empty list; without the second, a
  promotion could come before ready, which the contract forbids.
- `MountsProofs`: `TypeCorrect`; `RealMounts` (`OnlyRealMounts`), whatever
  overlaps, from an invariant that says of each loaded slice what the property
  says of the list, and that a call under way is not an orphan; and, whatever
  overlaps, `NothingForgotten`, `InBounds` and `LastInFirstOut`, whose
  properties name in their premise the history that makes them fail.
  `OneUseInvariant`: until `race` is noted, at most one goroutine is in the
  middle of a use of the list. That gives `ListInv`, although any number of
  mount commands are under way: a loaded slice is current, what a sweep holds
  is listed, its index bounds what it has yet to try, and who is past
  `mount(8)` is accounted for. `AloneInvariant`: until `overlap` is noted, at
  most one call is under way, and so no race. `OrderInv` then relates the two
  orders: the mounts of this process are listed in the order the kernel has
  them, orphans come before them, and a mount that is not yet listed is the
  newest. The lemmas at the top say what `Append` and `RemoveAt` do to the
  elements, the range and the order of a sequence.
- `DaemonProofs`: `Components`, that every step of the daemon is one of its
  lifecycle and one of its mount manager, or leaves them; the theorems of both
  modules are then cited of their instances. `CleanShutdown` (`CleanPowerOff`),
  assuming `Serial` and with every fault allowed: a machine that goes down
  while the daemon lives has an `Execute` past its sweep (`GoingDown`), no
  mount was under way when that sweep began or after (`MountsOver`), so the
  list it emptied (`SweptClear`) held all there was (`NothingForgotten`); if
  the daemon died first, what is left is an orphan, and no process follows on a
  machine that goes down (`DeadIsQuiet`). `Inherited` has the theorems of the
  parts, said of the whole. `PoweroffBeforeExit` (`OrderlyEnd`) needs no
  careful host: `ExecuteOrder` says how the stages of an `Execute`, its sweep
  and its goroutine go together, and from it, that `Run` leaves its select only
  for a signal or for an `Execute` that went through all of them, and that the
  machine goes down, while the daemon lives, only behind a finished sweep.
- `ControlServerProofs`: `TypeCorrect`, `WaitsForConnections` (`ServeWaits`),
  `ConfigIsWhole` (`ConfigAsAcked`), `DialogueIsKept` (`ImplementsDialogue`)
  and `NothingOwed` (`IdleHasAnswered`). `IInv` says that the wait group is the
  number of the connections whose goroutine has yet to end, which needs that a
  connection that was not accepted has none, and that nobody is added after
  `Serve` has seen zero. For the file, `AloneInv`: who set it alone found it
  empty, nobody else writes it, and it holds what was written. For the
  dialogue, `TalkInv` counts: a connection has answered as many messages as
  there are among the lines it has scanned, less the one it is handling or
  writing the answer of, and that answer is one the table has for that message;
  a connection that is cut or lost has no goroutine left that would write. The
  lemmas before it are about counting the members of a set of naturals up to a
  bound, and give what a sent line, and nothing else, adds to `Asked`. Each
  step is then the dialogue's `Ask`, `Answer` or `HangUp`, or none of it, for
  one connection, while the others stand aside.
- `ServersProofs`: `TypeCorrect`; `Directories` (`DirsAsDocumented`) from
  `BootInv`, the directories made so far; `NoSocketLeft` (`SocketRemoved`) from
  `SocketInv`, by which the socket is there only while the listener is open;
  `StopsCleanly` (`StopIsNoError`) from `StopInv`: a listener that is closed
  was closed by the context or by `Close`, which begins when `Run` no longer
  selects; `AcksAreBacked` (`AckIsBacked`) and its converse `StopWasAsked` from
  `AckInv`: a response is prepared in the step that starts the goroutine of
  `Execute`, only that goroutine asks `Run` to stop, and a process that died
  keeps neither; `IPCHasWaker` (`HasWaker`): an IPC server in `http.Serve`
  always has somebody left to end it, or was ended, which is what `IPCEnds` has
  of safety. `EachProcessTalks`: beside all else, each process keeps to
  `Dialogue` until it dies, and the next begins with a blank one;
  `ShutdownIsAcked` follows: a connection that waits has its shutdown
  acknowledged. `Components`: each process's part of a step is one of
  `Lifecycle`, and the invariant of `ControlServerProofs` lasts through deaths
  and restarts.
- `SecretsProofs`: `TypeCorrect`; assuming `Plain` (no secret's own name ends
  in `.tmp`), `NothingForeign` (`NoForeignPart`) and `Implementation`
  (`ImplementsStore`). `OwnNames` and `OwnFiles`: a secret's name, its
  temporary name and the descriptors of its calls lead to inodes that calls for
  this secret made, and hold parts of its values only. `DirInv`: no two names
  share an inode and none leads to a call that has yet to start. `CarefulInv`:
  the one call under way for a careful secret holds the temporary file, empty
  and then whole, so that the rename is the abstract store's step and every
  other step changes nothing it shows. `WholeValue` follows from the store's
  steps (`Accounted`): what a careful host's secret holds is the whole value of
  a call that returned no error. `ModeKept`, assuming `~Faults` as well: its
  mode is that call's too. An inode keeps the mode of the call that made it
  (`AttrInv`), and a temporary file that is there is that of the call under way
  (`TmpInUse`), so that each call makes its own.
- `SSHKeysProofs`: `TypeCorrect`, `KeysAreOwned` (`OwnedByUser`),
  `Implementation` (`ImplementsStore`) and `WholeKeys`, along the same lines,
  with the owner of the temporary file beside its data. `FileSystemProofs` has
  the lemmas of both: what each system call leaves of names, inodes and
  descriptors.

Only model-checked: liveness, which is out of the prover's reach under
fairness (`CacheConverges`, `HealthyWhenRunning`, `StopIsHonoured`,
`ShutdownPowersOff`, `ShutdownEndsProcess`, `ServeEnds`,
`EveryMessageAnswered`, `IPCComesUp`, `IPCEnds`, `AckIsHonoured`). Where a
safety half could be told apart it is proved: `NothingOwed`,
`AcksAreBacked`, `IPCHasWaker`, `PoweroffBeforeExit`. Every invariant and every
other action property or refinement of a passing run is a theorem.

## 5. Not modelled

Encoding and decoding of messages, beyond whether a payload is there and
decodes; the text of errors and logs; health and list replies,
`SecretManager.List` and `ActiveMounts`, which only read; HTTP's own
connections and what a handler answers; reads, writes, deadlines and addresses
of a vsock connection; the change of group of directories and socket, whose
failure is only logged; umask; a descriptor number used again after `Close`;
the data race of `Close` on the pointers `s.server` and `s.listener`, of which
the model has the two values a word can have; `UpdateAgentStatus`, which only
tests call. `ShutdownCoordinator`'s steps are in `Daemon`, the ends of it alone
in `Servers`. Time: a poll may come at any moment, so the interval does not
appear, and a timeout is a failed poll. Vendored packages, CI and packaging are
left out, but for the restart of the service.

## 6. Plan

1. Payload validation (mount paths, secret names, key prefixes) as operators,
   checked against reference definitions; it is one rejection per component now.
2. `Daemon` and `Servers` in one: mounts and sweeps under the servers'
   connections, so that the ack of a shutdown and the power-off meet a
   connection that is cut.
3. Proofs: for `SSHKeys` and `Secrets`, that a restart with no call repeated
   leaves what was installed; for the composition of item 2, the theorems of
   its parts as in `DaemonProofs` and `ServersProofs`.
