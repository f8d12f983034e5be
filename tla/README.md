# compostbin, specified

compostbin runs a project's Claude Code session inside a virtual machine on macOS. The process that
starts the VM owns it: it serves the session's control socket to later commands, runs host commands
for the guest, relays ports and keeps credentials in step. This directory holds TLA+ models of that
program, the TLC configurations that check them, and TLAPS proofs of what matters most.

Paths below are relative to `src/crates/`: `core` is `compostbin-core/src`, `engine` is
`compostbin-engine/src/containerization`, `cli` is `compostbin-cli/src`.

## Inventory

| Component | State | Operations | Talks to | What is hard |
|---|---|---|---|---|
| Host-command spool (`core/host/spool.rs`, `agent.rs`, `core/fs.rs`, `core/image/compostbin-host`) | files in `requests/`, `running/`, `responses/`; `in_flight`; per call a worker, its child, two readers, a pump | submit, claim, refuse, spawn, publish chunk, write status, drain, empty, sweep | guest and host share one directory; polling on both sides | two agents for one request; status against last chunks; cleanup under running workers; crashes; the limit |
| Standard input (`compostbin-host` 49-54, `agent.rs` 167-193) | `<id>.in`, `<id>.in.eof`, an offset | append, mark the end, poll, write | forwarder, pump, command | the end marker against the last bytes; a pipe that blocks; who still holds the writing end |
| Session ownership (`core/session/lifecycle.rs`, `state.rs`, `engine/mod.rs`, `control.rs`, `sweep.rs`) | container directory, `.owner` lock, control socket, owner process, attached clients | probe, join, boot, claim, bind, leave, clean, sweep | processes that know each other only by paths, a lock and a socket | stale sockets and directories, two boots, sweeps of what is alive |
| Launch: what runs around a session's command (`lifecycle.rs`) | the `stop` flag, the scope's threads, the exit code | prepare, join or launch, set up, exec, stop, join the threads | credentials, relay, agent, guest | threads that do not end; errors that leave past the cleanup |
| Credentials (`core/session/credentials.rs`) | credentials file, staged copy, Keychain, last time seen | sync, watch | guest, host, other sessions, Keychain | read-compare-write races, a watcher that stops, saves that are not retried |
| Port relay (`core/host/ports.rs`, `core/image/compostbin-ports`) | listener, connections, two threads each, `refused`, stop | accept, connect, splice, half-close, drain, finish | guest, service | partial writes, stalls, half-closes, ending with connections open |
| Attaching, terminals (`engine/mod.rs`, `control.rs`, `terminal.rs`) | the process in the guest, the size of its terminal, RESIZED, nudges on the socket | exec, attend, attach, resize, answer | owner, client, guest | a size that is read and set in two steps; an owner that leaves a client waiting |
| Control socket's format (`control.rs`, `spec.rs`, `stdio.rs`) | a message, its descriptors | encode, decode, probe, configure | client and owner | fields joined without escaping; labels against descriptors |
| Image store (`engine/build.rs`, `snapshots.rs`, `unpacked.rs`, `sweep.rs`, `store.rs`, `cache.rs`, `provision.rs`, `oci.rs`) | blobs, tags, snapshots, records, unpacked images, kernels and init images, `reclaim.lock` | provision, retire, build, snapshot, restore, tag, evict, unpack, reclaim | builds, boots and cleans of several projects and releases | reclaim against what is not tagged yet, evict against restore, crashes between steps, stale records, versions |
| Manifest (`core/manifest.rs`) | two TOML files | load, overlay, validate, render, record a path | `add`, `init`, `doctor --fix`, every command | lost updates, files read while saved, what rendering keeps |
| Workspace, spec, record (`core/workspace`, `core/session/spec.rs`, `record.rs`, `mod.rs`) | the mount record | resolve, guest names, mounts, environment, drift | session, doctor | collisions of names; a record older than its container |
| Doctor (`core/doctor`) | none; `--fix` rewrites two files | check, fix | everything it looks at | a fix that is killed; a diagnosis that does not agree with `run` |
| Skills and profiles (`cli/skills`, `core/profile.rs`) | installed files | plan, apply | user | a plan that is carried out half |
| Host request and allowlist (`core/host/request.rs`, `mod.rs`) | none | parse, resolve, deny | manifest | quoting and matching |
| Clipboard script (`core/image/compostbin-clipboard`) | none | read the options of four tools | `compostbin-host` | options with values, what is left as a file |
| Settings of the Claude home (`core/session/settings.rs`) | copied files | share | host's `~/.claude` | two sessions of one home |
| Guest networking, VM (`nat.rs`, `mod.rs`) | none | configure, address | virtualization library | room for the guest, addresses that collide |
| Command line, progress, messages | none | parse, report | user | little |

What makes the parts with state correct:

* **Spool.** A request runs at most one command; a caller that gets a status got all the output, in
  order; a status is the command's own; never more commands at once than the manifest allows; every
  call is answered or ends with its VM; an owner told to stop leaves.
* **Standard input.** Nothing lost, doubled or swapped; end-of-file only after all of it, and it
  does come; the thread returns.
* **Session.** One VM per project; a living VM keeps its directory and its socket; what a crash
  leaves never stops the next boot; no client outlives its session.
* **Launch.** A login refreshed in a session is not lost with it; what a relayed peer sees end is
  complete; a terminal keeps its size; a session whose command has ended ends. The code keeps the last
  with one exception, a guest that goes on writing into a connection the relay refused.
* **Image store.** What a tag names is there; a build that goes on keeps its base; a cached rootfs or
  record gives what building would (both with an exception that the code has, see below); nothing unreferenced stays for good; releases that share the
  store leave each other what they need.
* **Project files.** A path is recorded where it was asked for and mounts nothing else; guest names
  are distinct; a setting survives its migration; a diagnosis agrees with the container and with the
  next start.

`PROJECT.json` lists the hazards at their lines and the properties that would catch each.

## Modules

| Module | What it is |
|---|---|
| `HostSpool` | client script, agent loop, workers, command, owner's life, `clean`: one action per step of the code |
| `HostCall` | the abstract promise to a caller: ask, take, finish, answer with the whole result, or be lost |
| `HostSpoolRefinement` | the mapping of `HostSpool` onto `HostCall` |
| `HostSpoolProofs` | proofs about `HostSpool`: types, one execution, real answers, the limit |
| `HostCallProofs` | proofs of what a caller gets: output in order, all of it, and the refinement of `HostCall` |
| `HostStdin` | forwarder, input file and marker, pump, pipe or terminal |
| `HostStdinProofs` | proofs of all of `HostStdin`'s safety |
| `Session` | processes, control socket, container directory, owner lock, sweeps |
| `SessionProofs` | proofs of all of `Session`'s safety |
| `Processes` | what the parts of a running session share: process, project, home, `stop` |
| `Credentials` | sync and watch between Keychain, credentials file and those who refresh a login |
| `PortRelay` | one forward: acceptor, connections, two splices each |
| `Attach` | a command in the guest, of the owner or of a client, and its terminal's size |
| `Launch` | prepare to end, composing the four above |
| `LaunchProofs` | proofs about `Launch`: threads, relay, terminal, logins |
| `ControlWire`, `Wire` | the request's format and the process it becomes; one request on its way |
| `ImageStore` | builds, boots and cleans over tags, blobs, snapshots, records and unpacked images |
| `Library` | `ImageStore` with kernels and init images, and the releases that provision them |
| `StoreProofs`, `LibraryProofs` | proofs about `ImageStore`, and about both; the second uses the first's parts |
| `BuildKeys` | what goes into a build step's key |
| `Workspace` | paths, danger, guest names, the list of mounts |
| `Manifest` | two tables of keys: defaults, overlay, validation, rendering, `record_path` |
| `Forwards` | ports and sockets from the manifest to who listens for them, and the guest's relay |
| `HostRequest` | a request's lines, the commands served, the verdict |
| `RunSpec` | container, exec, process and VM specs, the mount record and drift |
| `Doctor` | the checks, as operators of a session and of what they look at |
| `Project` | the files of a project and the commands that read and rewrite them, step by step |
| `ProjectProofs` | proofs of all of `Project`'s safety, and the lemmas about its operators |
| `Clipboard` | the clipboard tools of the guest |
| `MCHostSpool`, `MCStore`, `MCProject`, `MCLaunch`, `MCWire` | instances for TLC, and assumptions that check operators over small inputs |

    Workspace <- Manifest <- Forwards, HostRequest <- RunSpec <- Doctor <- Project <- MCProject -> Clipboard
    Processes <- Credentials, PortRelay, Attach <- Launch <- MCLaunch -> ControlWire <- Wire <- MCWire
    ImageStore <- Library <- MCStore -> BuildKeys
    HostSpool <- HostSpoolRefinement -> HostCall
    HostSpool <- HostSpoolProofs;  HostSpoolProofs, HostSpoolRefinement <- HostCallProofs
    HostStdin <- HostStdinProofs;  Session <- SessionProofs;  Launch <- LaunchProofs
    Library <- StoreProofs <- LibraryProofs;  Project <- ProjectProofs

### HostSpool

A call is one run of the guest script; calls are numbered in the order of their ids. Each of its
files is a set member or a function value: `requests`, `drafts` (`.partial`), `running`,
`chunks[c][s]`, `status[c]`. `client[c]` is the script's place in its loop, `glob[c]` the rest of the
list the shell expanded before it entered `drain`'s loop, `early[c]` whether it had seen the status
before it drained. `worker[c]`, `child[c]`, `readers[c]`, `pump[c]` and `sequence[c]` are the worker
thread, the command it spawned and the threads of its scope. `host[h]` is a process's place in
`Session::launch`: creating (sweep), booting, up, polling and claiming (agent), draining (`serve`'s
scope joins), cleaning one response file at a time, gone. `next_request_id` and the rename of
`claim_next` are two actions, so another agent can come between. A crash takes host, agent, workers,
VM and the VM's clients; commands on the host live on, orphaned, as they do in reality.

`Clean` is `compostbin clean` from a process of its own. `Faults` lets each write to the spool fail.

### HostStdin

Input units are numbered from 1. The forwarder appends, then marks; the pump looks for the marker,
reads, writes, goes round: three actions, because the order of the first two is the point. The pipe
has a capacity, which is the kernel's. The client removes both files behind the status, and the status
waits for the pump: `TypeOK` says so of the pump's offset, which would be read from a hole in a file that is
new. The command may read or not and may leave an heir that holds its input. Not modelled:
the script killed in the middle, and `clean` removing the input file.

### Session

A path is not an identity: a directory has an inode number, a socket file the process that bound it.
`run`, `exec` and `shell` are one command here: probe the socket, then join or boot. Boot is cut where
another process can come between: remove the directory, make it, open `.owner`, lock it, clone the
root file system, start; then look at the socket, unlink it if nobody answers, bind. A crash is
possible at each point and removes nothing but the lock and the VM. `clean` and `build` look at the
lock and remove by the path later. `clean --all` also takes the control socket.

`order` is a history variable that the program does not have. It is "calm" while no command is
started with another under way (serving and attached ones do not count) and none was `clean --all`;
"thorough" after a `clean --all`; "hasty" once two overlapped. The code has no lock against
overlapping boots, and TLC finds each of the four safety properties violated without that
condition (two `run`s that both find no socket are enough), so the properties say when they hold
and the hazards say what is open.

### Launch, with Credentials, PortRelay and Attach

`pc[p]` is the main thread's place in `run`; the watcher, the resizer, the acceptor and the splices
are threads of their own that poll `stop`. `Launches` stands for create, await_sockets, listen_all and
the spawning of the scope's threads: whom a boot meets is `Session`'s question, so a process of a project only
starts beside one that serves.

* A login is the number its `expiresAt` ranks it by, 0 a store without one. `sync` is cut at its two
  reads, the opening, the writing and the renaming of the staged file, and the Keychain's write; the
  guest truncates its file before it fills it, the host refreshes the Keychain whenever it likes.
  `watch` reads `stop`, then the modification time, then copies. A round that sees nothing new is
  left out. `raced` and `unsaved` are history: a copy that replaced something other than what it had
  compared with, a save that failed.
* A direction of a connection counts its chunks: sent, read, held, got. A write takes any part; a
  peer may stall for ever, shut its end, or close its socket. A refused connection is drained
  (`close_cleanly`): what the guest goes on writing is thrown away (`Discard`), and a read that finds the end,
  nothing for one interval, or an error ends it (`Drained`), whatever `stop` is. Discarded chunks are not
  counted, so the guest may go on for ever. The reports, and the flag that a refusal was reported once,
  are left out.
* `SyncFails` takes an error at any read or write of a copy. A setup line that fails gives its code, an
  `exec` of one that fails an error, which leaves past the cleanup. A client whose command could not be
  started gets `FAILED`, an answer like another; the owner's own is an error.
* The size of a window is the number of changes it went through. SIGWINCH sets a flag that a thread
  polls, a client's becomes a byte on the socket, and the owner reads the terminal it was passed. The thread that
  reads the bytes is there before the process is: a byte it reads then is spent for nothing. A
  command without a terminal skips the steps of the start that nobody can see.

Init picks one of four situations: two sessions with logins in one Claude home; two sessions of one
project one after the other, with an error or a kill; a session with a forwarded port; an owner and
its client, each with a terminal. The components are independent of each other but for `stop` and
the owner's end, which the situations keep.

Left out: other entries of the two credential stores, raw mode, all shared names but one (the copy
of a tree is one step), and `share`'s second half, which no other process can disturb.

### ControlWire, Wire

A text is a sequence of tokens: the two marks of the format, and words. Descriptors are the files
they refer to. `Wire` sends one request and decodes it as the owner does. One `recvmsg` may find a
long request only in part, from `Buffer` tokens on; the run has buffers that take every request.

### ImageStore, Library, BuildKeys

A rootfs is the sequence of what was done to it, a digest its content, a key the tuple of what it is
made of, so "the cache gives what a build would" can be said. A file written aside and renamed appears in
one step. Plans are two: the shared image on the pulled base, and the project's on that. Builders
share `reclaim.lock`, a reclaimer has it alone; the pull, each step, snapshot, record, tag and
eviction are actions, and a process may die between any two. It starts empty, or with the tag of a
newer image, the record of an older one and half of its blobs.

The guest scripts of the build context are one directory for all builds. `plans` rewrites them in place on
every build before any lock: each is truncated (`Truncate`), then filled (`Fill`); the digest of the key (`Keys`)
and the step that installs them (`CopyScript`) read one after another. A script is the release it is of, or
0 while cut short. `disturbed` is history: the builds that had begun and not yet copied the scripts
when another wrote one. `CacheHonest` excepts what those made, and what others restore of it stays excepted.

In `Library` each process is of a release that pins a kernel and an init image. It looks for them,
fetches, tags, unpacks, retires what is older one file at a time, and boots what it provisioned. The
state space of both at once is out of reach and they meet only in blobs and tags, so Init picks one
of two situations: builds, a boot and a clean; or three releases that provision, and a clean. In
the first, `Situations` says which of the processes take part and how many faults they meet.
The init image's pull stores its blobs in one step (`GetInitImage`) and tags them in another
(`TagInitImage`), as a base's does, but without the lock. `caught` is history: the images of which a
reclaim took blobs in between, until they are pulled again; `ImagesComplete` excepts those.

Left out: the scratch files of killed processes, and snapshots that age (`KEEP_FOR`; `KEEP` is
there).

### Project and its operators

A TOML table is the function from key paths to values; a file holds a table, nothing, or text that
does not parse. `Manifest` has all the keys, defaults, overlays, refusals and the rendering;
`Workspace`, `Forwards`, `HostRequest`, `RunSpec` and `Doctor` are operators from a loaded session to
what the code computes. `Project` has the variables: the files, the record, the container, the host,
and for each terminal a command with its locals. Every load reads two files in two steps, every save
is a truncation and a write, as `fs::write` is; the record is saved after the boot; `install` plans and then
applies change by change, a skill's file truncated first and then filled; the retired keys of the two files
are looked for in one after the other; `fix` rewrites the user's configuration first and then the manifests.

Simplifications: names are model texts of which `Spelling` knows the characters; canonical paths have
no `..`; no profile is given in the run (the operators have it, and `SpecsAreWhole` looks at one);
the user configuration is read with the local
file; memory units and the limit are scaled down. `Schedules` says which commands are run beside
which, over which files, so that the run covers each race without all products of them.

## Runs

| Run | Instance | Properties |
|---|---|---|
| `spool_calls` | 2 calls, the first with a chunk on each stream, 1 owner, limit 1 | `TypeOK`, `OutputComplete`, `WithinLimit`, `NoChunkAfterStatus`, `ImplementsHostCall` |
| `spool_disturbed` | 1 call with 2 chunks and 1 on a terminal, 2 owners at once, one `clean`, faults | `AtMostOnce`, `OutputInOrder`, `AnswersAreReal` |
| `spool_live` | 2 calls, one perhaps unreadable, 1 owner, fair | `CallsSettle`, `OwnersLeave` |
| `spool_stale` | violation | a request left by a crashed owner survives the sweep and runs for nobody |
| `spool_unreadable` | violation | a request that is not UTF-8 is never answered |
| `stdin` | 4 units, pipe of 2, heirs, fair | `TypeOK`, `InputOnTheWay`, `EndMeansAll`, `EndArrives`, `PumpReturns` |
| `session` | 3 processes, all commands, any overlap, fair | `TypeOK`, `OneVmWhenCalm`, `KeptWhileLive`, `OwnerReachable`, `LaunchesSucceed`, `CommandsSettle` |
| `session_cleaned` | violation | after `clean --all` beside a session the next command boots a second VM |
| `launch` | 2 processes in four situations, 2 logins, 2 chunks, 2 sizes, one fault, fair | `TypeOK`, `LoginSaved`, `EofMeansAll`, `WindowSettles`, `LaunchesEnd` |
| `wire` | violation; requests of up to two arguments, with and without newlines | an argument or a variable with a newline makes a client's request malformed |
| `store` | 2 builds and 1 process that boots or cleans, or two of the three and one fault; or 3 releases and a clean | `LibraryTypeOK`, `ImagesComplete`, `BasesHeld`, `CacheHonest`, `NothingLeftBehind`, `ReadyUntilNewer` |
| `project` | 2 terminals over a table of files and schedules, one edit, one fault | `TypeOK`, `NamesAreDistinct`, `RecordedWhereAsked`, `KeychainKept`, `AddsOnlyAMount`, `DriftHonest`, `HealthyStarts`, `InstallConverges` |

Every property has a mutant in the module it is about, next to the definition it stands in for: the
bug it would be, such as draining before the status is looked for.

Operators are checked as named assumptions, which TLC evaluates at the start of the run whose module
has them:

| Assumption | In | What it compares |
|---|---|---|
| `RenderKeeps`, `Refuses` | `MCProject` | what a rendered manifest reads back as; which tables no manifest accepts |
| `ForwardsAreDistinct`, `PortsMayRepeat` | `MCProject` | vsock ports, the guest's argument read back, listening twice |
| `DenyRefuses`, `Altered`, `ClipboardServed` | `MCProject` | `resolve` over all short texts against what the docs say `deny` refuses; the text that changes on its way; which clipboard is served |
| `NumbersTell` | `MCProject` | the guest names that numbers make of a base |
| `OnlyCopies`, `TakesAFile` | `MCProject` | the clipboard script over all short command lines, against what complete options ask for |
| `SpecsAreWhole` | `MCProject` | environments, users, VM sizes and addresses of the specs |
| `RoundTrip`, `NoStreamIsGuessed`, `ProcessIsWhole` | `MCLaunch` | a request decoded, whole and cut short; labels against descriptors; the process configured |
| `KeysTell`, `GrownIsUnreadable` | `MCStore` | two plans have one key exactly when the same makes their rootfs; a file that grows while it is read |

Bounds, and why they are enough.

* Spool: two calls are needed for the limit and for one call's traffic beside another's, and nothing
  relates three. Two host processes are the smallest race for a claim. Two chunks on a stream are
  the least that can come out of order; one on each stream the least in which one stream can be late.
  The runs split what the state space cannot hold together: output completeness is stated
  for one owner at a time and without faults, since a second owner or a failing disk does lose
  output. `OutputInOrder` and `AnswersAreReal` hold all the same, and are checked with both.
* Standard input: capacity two and four units make the pipe full, empty and both again.
* Session: three processes are an owner, a client or successor, and a sweep; `LaunchesSucceed` then
  covers a boot after two crashes.
* Launch: two logins are an earlier and a later one, a race of two writers needs no third. Two chunks
  are the least of which one can be held while the other is written; one connection has both
  directions. Two sizes let a change overtake the start.
* Store: two builds are one that holds the lock while another ends, one plan apart; the third process
  gives them a clean or a boot. One fault leaves each kind of half-done state once; it is met by two of the
  three processes, all three meet none (`Situations`). One script is cut short or whole, and two builds write
  it over each other; mixtures of several scripts are in the theorem, for any `ScriptCount`. Three releases
  are an older one and two spellings of a newer one. Both builds are of one release: what a newer one
  (`NewVersion`) writes over the scripts is excepted as what the same one does, and the theorem has both.
* Project: two commands are the smallest overlap, and each schedule allows a third after them.

The user's interrupts are bounded by `Interruptible`, containers by `MaxLaunches`, cleans by
`MaxCleans`, errors and kills by `MaxFaults` or a situation's `faults`, edits by `MaxEdits`.
`CHECK_DEADLOCK` is off because every run comes to an end.

Fairness. Weak fairness on what a thread, a script or a process does by itself: it keeps being
scheduled, and the polling loops of both sides never give up. `Launch` has one condition for each
process, over its main thread, watcher, resizer and relay together, which is less than its threads
have. For commands `HostSpool` assumes that they and their descendants end; `HostStdin` assumes in
`PatientSpec` that they read what comes while they live; `Launch` assumes nothing of them, nor of the
relay's peers. No fairness for users: calls, interrupts, exits, cleans, crashes need never happen. The
violation run of a liveness property uses the same fairness.

Assumptions of the models. A rename is atomic, a directory listing is one step, request ids are
unique (timestamp, pid and two random bytes), the shell's glob is expanded once per drain, removing a
directory tree is one step, a process's locks, listeners and VM go with it; a digest tells contents
apart.

## What is proved

TLC shows a property on an instance; the theorems state it for every value of the constants: any
number of processes, calls, chunks, logins, faults and crashes, within the named assumptions of the
modules. Each rests on an invariant that a step keeps, checked with TLC on the runs' instances first,
and each proof has a step for every action. 38 theorems are listed in `PROJECT.json`.

All 28 invariants that the passing runs check are proved, and so are the action properties
`NoChunkAfterStatus`, `AddsOnlyAMount`, `DriftHonest`, `HealthyStarts` and `InstallConverges`, and the
refinement `ImplementsHostCall`.

**`HostSpoolProofs`.**

* `TypeCorrect`: `Spec => []TypeOK`. `TypeOK` is split into the spool's, the clients', the hosts',
  the children's and the workers' part. It says among other things that chunk numbers are positive.
* `RunsAtMostOnce` and `AnswersHold`: from one inductive invariant, `Claims /\ Threads /\ Verdicts`.
  `AtMostOnce` alone is not inductive, since nothing in it says that a request a worker has taken is no longer
  there to be renamed: `Claims` ties request file, worker and execution count. `AnswersAreReal` needs to know what a
  worker may be about to report (`Verdicts`, `Outcome`), and that a status outlives only workers
  past their answer (`Threads`).
* `StatusEndsOutput`: `Spec => NoChunkAfterStatus`, an action property, from the same invariant: only
  a refusal and a reader publish, and `Threads` has ended both.
* `LimitHolds`: `Spec => []WithinLimit`, from `SlotKept`: an agent that is about to claim still has the
  slot it saw, because only it adds to its own calls. `CalmerStep` says every other action leaves
  each agent's calls in flight as they are or fewer.

**`HostCallProofs`.**

* `OrderHolds`: `Spec => []OutputInOrder`. Its invariant `Ordered` relates what was printed, what is in
  the directory and what the glob has left: printed before present, listed before what came after
  the listing. It assumes `Numbered`, fewer chunks on a stream than numbers of `SEQUENCE_WIDTH` digits.
  The code has no such bound (a million chunks), and past it the names no longer sort as their
  numbers, so the theorem says where order ends. No other assumption: it holds through two owners,
  cleans, sweeps and faults.
* `AllIsPrinted`: `Spec => []OutputComplete`. `Whole` adds, step by step, that a reader ends with its
  stream and a worker with its readers (`ThroughOK`); that from the status it saw on a client finds all there is
  (`FinishedOK`), which is why looking for the status before the drain is right; that nobody else
  removes files while the session lasts (`AloneOK`); and that then the printed chunks are 1 to n
  and all the others are there (`ExactOK`). It assumes `Numbered`, `OneOwner` and `~Faults`: with
  a second owner or a disk that fails, the code does lose output.
* `SpoolImplementsCall`: `Spec => ImplementsHostCall`, under the same assumptions. `ViewStep` says that
  a step is to each call nothing, its loss or an advance, `AdvanceStep` which of Ask, Take, Finish and
  Answer the advance is, and `CallStep` puts the calls together, all those a dying VM takes along in
  one `Lose`. `AllReplies` lets the abstract results be any code with any output; TLC's instance
  has the finite set of those that its calls can come to.

**`HostStdinProofs`.** `TypeCorrect`, `InputKept`, `EndIsTheEnd`: all three invariants, for input and pipes
of any size. `TypeOK` holds because the client leaves behind the status alone, which waits for the pump. `FileOK`: the file is the input so far and the marker says it is all. `PumpOK`: a pump that saw the
marker has read to the end before it writes for the last time. `WayOK`: what the command has, the pipe and the
pump hold are, in this order, the units before the offset. None is inductive without those before it.

**`SessionProofs`.** `TypeCorrect`, `SingleVm`, `DirectoryKept`, `SocketKept`, `BootsSucceed`. `Counted` bounds
the inodes by the processes that made a directory. `Orderly`, while commands do not overlap: one process at most
is anywhere but idle, attached or serving, and each step of its boot finds what the step before it
left. `Calm`, when besides nobody ran `clean --all`: who boots or removes does so while nobody else lives in
the directory, and who lives there holds its lock, its root file system and, serving, the socket.

**`LaunchProofs`.** `TypeCorrect`, `EndBehindAll` (from `Sound`: what a splice read it wrote or
holds, and it ends behind the last chunk or leaves the direction broken; a refused connection that is being
drained has no splices, and what is thrown away was never read), `TerminalSettles` (from
`SizesOK`: a size that was read is the window's unless a change is flagged), `LoginNotLost`. The last has an
invariant for every cut of `sync` and `watch`: until two copies have raced, a login on its way to
the file is no later than the Keychain's, the login a watcher copies is the file's or another round follows
(`CarriedOK`), and the file's login is saved, or failed to be, or is still ahead of the watcher (`SavedOK`).

**`StoreProofs`, `LibraryProofs`.** `TagsKeepBlobs` for builds, boots and cleans; then, with provisioning at work,
`TypeCorrect`, `InitImagesKeepBlobs`, `BaseKeepsBlobs`, `NamesHonest`, `BlobsReclaimed`, `ReadyStays`. A build
is in `building` exactly from before its pull to its end and who deletes is alone (`LocksOK`); so blobs of bases
in use and of images about to be tagged are there (`BlobsOK`). `NothingLeftBehind` needs who still
owes a reclaim (`ReclaimOK`): a build that skips it leaves it to one that still has the lock.
`CacheHonest` needs what every build has in hand (`JobOK`), `ReadyUntilNewer` that who retires is of a newer release
and that `Newer` is transitive and irreflexive, for numbers of any length. No hypothesis but the
modules' assumptions: releases mix, and a clean may come between an init image's pull and its tag. What the code
loses then is in the properties themselves, as histories: `InitImagesKeepBlobs` says that a tag without blobs
is one whose image was caught untagged (`ImagesOK`), `NamesHonest` that what is not what its key says was made
by a build whose scripts another wrote (`KeyedOK`: a build nobody disturbed finds the scripts
it wrote when it digests them, and again when it copies them). TLC finds both properties violated without their exception.

**`ProjectProofs`.** For any tables, schedules and number of terminals. `Control` says where each command
is and what it has in hand; `TypesHold` adds the files, the record and the container (`VmOK`: one is up
exactly while the process that made it is there).

* `KeychainStays`: `Fixes` says that a fix nobody ran into has the setting in the user's file, or on its
  way there with the retired keys still in place, before it rewrites a manifest; what it found in
the local file, read first, is still there when it reads the shared one. So a kill between two
  files loses nothing, and the order of the writes is why.
* `PathsStay`: what a file lists is what the user wrote there and what `add` was asked to record there
  (`FilesAsked`), and so is every text on its way to it (`TableSaves`), sorted and rendered or not.
* `NamesDiffer`: one of any n + 1 names is not taken by n entries (`UniqueIsFree`, pigeonhole), and
  `push` keeps the workspace apart claim by claim (`WorkUpTo`, the list of workspaces after each of the
  claims, in place of an induction over the manifest). Its hypothesis `SuffixesDiffer` says that two
  numbers make two names of a base: `ToString` is TLC's, and the prover knows nothing of digits.
* `AddsAMount`: `Fresh` follows an add from what it loaded to what loading the text it writes gives. The lemmas
  under it say what sorting, rendering, parsing and overlaying do to a table with one entry more
  (`OneMore`, `SharedReloads`, `LocalReloads`), for either file.
* `DriftTold`: the container's record is that of the session it was made from (`Runs`); the lemmas say
  that where no mount, port or socket of the record differs the lists agree (`NoDrift`).
* `DoctorSuffices`: what doctor trusted is healthy until the next edit (`TrustedOK`), and of the reasons
  why creating a container fails that leaves the two the property names.
* `InstallationsConverge`: an installation nobody ran into has in hand what is left to do (`InstallAt`), a
  file it has just emptied included; a killed one's empty file is a change the next one finds.

Their hypotheses are the named assumptions of `Project` and `Manifest`, which TLC evaluates: the bounds
are numbers, raw paths and keys are sequences of names, what the user writes has the types that
`deny_unknown_fields` and serde let through, one terminal at a time runs (which of two has the
container is `Session`'s question), the project's directory stays, and the default memory is a size.

The least-number principle comes from `WFMin` and `NatLessThanWellFounded` of the library, which take no
operator as a parameter; that is what the first name of a glob, the oldest request and the first part in which
two release numbers differ need. A few leaves name their prover and a time limit, where the default one is tight.

Only model-checked:

* Liveness (`CallsSettle`, `OwnersLeave`, `EndArrives`, `PumpReturns`, `CommandsSettle`,
  `LaunchesEnd`) and fairness: out of the prover's reach.
* The operators in the table of assumptions: what they compute on all inputs is induction over data.

The proofs changed the models where they found them wrong or out of reach. `NamesAreDistinct` had said that no
root is named before the project: roots `a/lib` and `b/lib` of a project `lib-2` refute it, the second being
`lib-2` before the project asks for its name, so it now says that only a root can take it. Tables are put
together with `Over` and `With`, whose definitions the prover can expand where it has no `@@`, and `Pushed`
is a recursive function.

## Disagreements found

1. A request whose owner crashed before claiming it is kept by the sweep and run by the next agent,
   though `spool.rs:48` and `lifecycle.rs:87` reason that leftovers' clients are dead (`spool_stale`).
2. A request that is not UTF-8 is claimed and never answered: its client polls for ever
   (`spool_unreadable`).
3. `clean --all` removes the control socket of a running session, and the next command becomes a
   second owner (`session_cleaned`).
4. A newline in an argument or a variable of `[container.environment]` makes the request of a client
   malformed, while the same works in the session's owner (`wire`).

## What else the models show the code does

Each is in a run's model, where a property excepts it by name, or in a hazard's note; none contradicts
what the repository says strongly enough to be a finding.

* Spool: `SEQUENCE_WIDTH` pads but does not limit, so the glob's order breaks at the millionth
  chunk. Dropping the pty master does not end a terminal's input while the reader holds a copy. A
  request argument loses a carriage return at its end.
* Session: two commands that both find no socket boot two VMs.
* Credentials: of two sessions of one home, a rename can publish the other's truncated staging file,
  and a copy can replace a login refreshed since it compared (`credentials.rs` 96 and 225 say
  otherwise of a session and of the comparison). A failed save waits for the next change of the file.
* Settings: `share` of two sessions of one home at once ends one with EEXIST; what the host deletes
  as a whole entry stays in the home.
* Terminal: the size read at the start can overtake a later one.
* Relay: `close_cleanly` reads a refused connection for as long as the guest goes on writing, and looks at `stop`
  nowhere, so a writer left in the background holds the session open (`ports.rs` 238-239 has the timeouts
  let every wait re-check `stop`; a timeout does end this one, but a writer gives it none).
* Store: the init image is pulled without the lock that keeps a reclaim away, so a clean can take its blobs
  before they are tagged, and every later provision finds a tag it cannot unpack (`TagsComplete` is violated;
  `CHANGELOG.md` 5-8 has unreferenced blobs skipped while a build runs, which to this user is what pulls it). The
  context's scripts are rewritten in place by every build, so one that builds beside another, of the same
  release or not, can digest or copy a script that is cut short or the other's, and the snapshot is kept
  under the good key (`image/mod.rs` 14 has steps cache-keyed on the contents).
* Manifest: of two overlapping adds one is lost; a file caught in the middle of a save is a valid
  manifest of defaults, and a kill then leaves it; a killed `fix` can leave the Keychain to be turned on by the next;
  an added path can take the guest name of another. A `[host]` with only `concurrency` is not rendered.
  A port named twice is accepted and refused only when it is listened on.
* Doctor: of two mounts declared at one guest path, removing the second shows no drift; an own image
  that is not built, and sockets inside mounts, pass every check and cannot start.
* Clipboard: an `xclip` option that lacks its value takes a file argument for it.

## Not modelled

Argument parsing (`cli.rs`), messages, progress bars, `error.rs`, the briefing's text, the two ioctl
calls that open a pseudo-terminal, raw mode, and the fakes and fixtures of the tests: text, or calls
with no state between them. The virtualization library, the file system and the kernel's locks appear
only as what their callers rely on. Of components marked "partly" in `PROJECT.json` the note says
what is left.

## Plan

Modelled: everything of the inventory with state. Proved: every safety and action property that a run checks.
What is left:

1. Liveness, which TLC keeps checking: no prover that is installed has ENABLED.
2. Snapshots that age (`KEEP_FOR`), and scratch files of killed builds.
3. The parts marked "partly": profiles and the credentials of other tools first.
