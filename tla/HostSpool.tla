------------------------------ MODULE HostSpool ------------------------------
(***************************************************************************)
(* The host-command channel: a spool directory shared by the guest client  *)
(* (image/compostbin-host), the agent thread of the process that owns the  *)
(* container (host/agent.rs) and the worker thread it starts per request.  *)
(*                                                                         *)
(* A call is one invocation of the client, named by its request id.  Ids   *)
(* start with a timestamp, so their order is name order: calls are         *)
(* numbers.  A host process (a `compostbin run` or `shell` that creates    *)
(* the container) is a member of Hosts.  The bytes of a chunk do not       *)
(* matter: chunk n of a stream is the n-th read of the reader thread.      *)
(* What the command reads from its input is HostStdin's subject; here the  *)
(* pump is only a thread the worker joins.                                 *)
(***************************************************************************)
EXTENDS Integers, FiniteSets, Sequences

CONSTANTS
  Calls,          \* request ids that clients may create, in name order
  Hosts,          \* host processes that may create the container
  NoHost,         \* no host process
  Kinds,          \* what a request may turn out to be, a subset of AllKinds
  Exits,          \* how a command may end: [signalled, number]
  MaxWrites,      \* bound: reads each stream of a call's command can yield
  Concurrency,    \* [host] concurrency of the manifest
  Radix,          \* 10: chunk names are decimal ...
  SequenceLimit,  \* ... and padded below this, 10^SEQUENCE_WIDTH
  OneOwner,       \* TRUE: the container has one creator at a time
  Interruptible,  \* bound: calls whose client the user may interrupt
  MaxLaunches,    \* bound: containers created
  MaxCleans,      \* bound: `compostbin clean` runs while the spool is in use
  Faults          \* TRUE: the host may fail to write a file of the spool

AllKinds == {"pipes", "terminal", "refused", "unspawnable", "unreadable"}
Streams == {"out", "err"}

ASSUME CallsAssumption == IsFiniteSet(Calls) /\ Calls \subseteq Nat \ {0}
ASSUME HostsAssumption == NoHost \notin Hosts
ASSUME KindsAssumption == Kinds \subseteq AllKinds
ASSUME ExitsAssumption == Exits \subseteq [signalled : BOOLEAN, number : Nat]
ASSUME MaxWritesAssumption == MaxWrites \in [Calls -> [Streams -> Nat]]
ASSUME ConcurrencyAssumption == Concurrency \in Nat
ASSUME NamesAssumption ==
  /\ Radix \in Nat \ {0} /\ SequenceLimit \in Nat \ {0}
  /\ \A c \in Calls, s \in Streams : MaxWrites[c][s] < Radix * SequenceLimit
ASSUME BoundsAssumption ==
  /\ Interruptible \subseteq Calls
  /\ OneOwner \in BOOLEAN /\ Faults \in BOOLEAN
  /\ MaxLaunches \in Nat /\ MaxCleans \in Nat

NoCall == 0
NoCode == -1
NoKind == "none"
REJECTED_EXIT_CODE == 126
SIGNAL_EXIT_BASE == 128

VARIABLES
  requests,    \* calls with a `<id>.request` file
  drafts,      \* calls with a `<id>.partial` file in requests/
  running,     \* calls with a claim in running/
  chunks,      \* published chunks per call and stream, still in responses/
  status,      \* `<id>.status`, or NoCode
  doomed,      \* response files a cleanup has listed and not removed yet
  client,      \* the guest client's place in its script
  home,        \* the host process whose VM the client runs in
  kind,        \* what the agent will make of the call's request
  finished,    \* the client saw the status before this drain
  stream,      \* the stream the client is draining
  glob,        \* the chunk names its glob has left
  seen,        \* the chunks it printed, in order
  exit,        \* what it exited with
  host,        \* the owner's place: creating, serving, leaving
  stop,        \* the owner's stop flag
  target,      \* the request id the agent read and has not claimed yet
  worker,      \* the worker thread of a call
  owner,       \* the host process it belongs to
  child,       \* the host command
  held,        \* streams a process of the command still has open
  written,     \* reads' worth of output the command wrote
  sequence,    \* chunk numbers its reader used
  readers,     \* streams whose reader thread lives
  pump,        \* the stdin thread lives
  code,        \* the exit code the worker will report
  executions,  \* history: commands spawned for the call
  launches,    \* bounded counters
  cleans

spoolVars == <<requests, drafts, running, chunks, status, doomed>>
clientVars == <<client, home, kind, finished, stream, glob, seen, exit>>
drainVars == <<home, kind, exit>>
hostVars == <<host, stop, target, launches, cleans>>
childVars == <<child, held, written, sequence, readers, pump, executions>>
workerVars == <<worker, owner, code>>
vars == <<spoolVars, clientVars, hostVars, childVars, workerVars>>

-----------------------------------------------------------------------------
(* Who is alive, and what a command's end is reported as.                    *)

Booted == {"up", "polling", "claiming", "joining", "broken", "cleaning", "ended"}
HasVm(h) == host[h] \in Booted

\* The `clean` command is no host process.
Cleaners == Hosts \cup {NoHost}

ActiveClient == {"drafted", "checking", "listing", "draining", "leaving"}
Active(c) == client[c] \in ActiveClient

\* Mutant: the slot of an ended worker is never given back.
BusyForever == {"claimed", "running", "replying", "removing", "done"}

BusyWorker == {"claimed", "running", "replying", "removing"}
InFlight(h) == {c \in Calls : owner[c] = h /\ worker[c] \in BusyWorker}

\* limit.max(1)
Slots == IF Concurrency = 0 THEN 1 ELSE Concurrency

\* status.code().unwrap_or_else(128 + signal)
ExitCode(e) == IF e.signalled THEN SIGNAL_EXIT_BASE + e.number ELSE e.number

ExitCodes == {REJECTED_EXIT_CODE} \cup {ExitCode(e) : e \in Exits}

\* A pty has one descriptor to read, pipes have two.
Sources(k) == IF k = "terminal" THEN {"out"} ELSE Streams

(* The names of two chunks compare as strings: numbers are zero-padded below *)
(* SequenceLimit and have one digit more from there on.                      *)
NameKey(n) == IF n < SequenceLimit THEN Radix * n ELSE n
NameBefore(m, n) ==
  \/ NameKey(m) < NameKey(n)
  \/ NameKey(m) = NameKey(n) /\ m < n
FirstName(S) == CHOOSE n \in S : \A m \in S \ {n} : NameBefore(n, m)

Oldest(S) == CHOOSE c \in S : \A d \in S : c <= d

-----------------------------------------------------------------------------
Init ==
  /\ requests = {} /\ drafts = {} /\ running = {}
  /\ chunks = [c \in Calls |-> [s \in Streams |-> {}]]
  /\ status = [c \in Calls |-> NoCode]
  /\ doomed = [h \in Cleaners |-> {}]
  /\ client = [c \in Calls |-> "idle"]
  /\ home = [c \in Calls |-> NoHost]
  /\ kind = [c \in Calls |-> NoKind]
  /\ finished = [c \in Calls |-> FALSE]
  /\ stream = [c \in Calls |-> "out"]
  /\ glob = [c \in Calls |-> {}]
  /\ seen = [c \in Calls |-> [s \in Streams |-> <<>>]]
  /\ exit = [c \in Calls |-> NoCode]
  /\ host = [h \in Hosts |-> "off"]
  /\ stop = [h \in Hosts |-> FALSE]
  /\ target = [h \in Hosts |-> NoCall]
  /\ worker = [c \in Calls |-> "none"]
  /\ owner = [c \in Calls |-> NoHost]
  /\ child = [c \in Calls |-> "none"]
  /\ held = [c \in Calls |-> {}]
  /\ written = [c \in Calls |-> [s \in Streams |-> 0]]
  /\ sequence = [c \in Calls |-> [s \in Streams |-> 0]]
  /\ readers = [c \in Calls |-> {}]
  /\ pump = [c \in Calls |-> FALSE]
  /\ code = [c \in Calls |-> NoCode]
  /\ executions = [c \in Calls |-> 0]
  /\ launches = 0 /\ cleans = 0

-----------------------------------------------------------------------------
(* The guest client, a shell script in some VM of the container.             *)

\* A client that ends takes the script's variables with it.
Forget(ended) ==
  /\ finished' = [c \in Calls |-> finished[c] /\ c \notin ended]
  /\ stream' = [c \in Calls |-> IF c \in ended THEN "out" ELSE stream[c]]
  /\ glob' = [c \in Calls |-> IF c \in ended THEN {} ELSE glob[c]]

\* It writes the request beside its final name.
Begin(c) ==
  /\ client[c] = "idle"
  /\ \E h \in Hosts, k \in Kinds :
       /\ HasVm(h)
       /\ home' = [home EXCEPT ![c] = h]
       /\ kind' = [kind EXCEPT ![c] = k]
  /\ client' = [client EXCEPT ![c] = "drafted"]
  /\ drafts' = drafts \cup {c}
  /\ UNCHANGED <<requests, running, chunks, status, doomed>>
  /\ UNCHANGED <<finished, stream, glob, seen, exit>>
  /\ UNCHANGED <<hostVars, childVars, workerVars>>

\* `mv` is the submission; `set -e` ends the client if the draft is gone.
Submit(c) ==
  /\ client[c] = "drafted"
  /\ IF c \in drafts
     THEN /\ requests' = requests \cup {c}
          /\ drafts' = drafts \ {c}
          /\ client' = [client EXCEPT ![c] = "checking"]
     ELSE /\ client' = [client EXCEPT ![c] = "failed"]
          /\ UNCHANGED <<requests, drafts>>
  /\ UNCHANGED <<running, chunks, status, doomed, finished, stream, glob, seen, drainVars>>
  /\ UNCHANGED <<hostVars, childVars, workerVars>>

\* One turn of the polling loop: look for the status, then drain out and err.
CheckStatus(c) ==
  /\ client[c] = "checking"
  /\ finished' = [finished EXCEPT ![c] = (status[c] # NoCode)]
  /\ client' = [client EXCEPT ![c] = "listing"]
  /\ stream' = [stream EXCEPT ![c] = "out"]
  /\ UNCHANGED <<spoolVars, glob, seen, drainVars, hostVars, childVars, workerVars>>

\* rm -f of a printed chunk.  Mutant: it is forgotten.
PrintAndKeep(n) == {}
Printed(n) == {n}

\* The script ends on the status it saw BEFORE the drain.  Mutant: on one it
\* looks for afterwards.
StatusByNow(c) == status[c] # NoCode
StatusBefore(c) == finished[c]

\* cat fails under `set -e` without the file.  Mutant: that passes for success.
EndsReturned(c) == "returned"
Ending(c) == IF status[c] = NoCode THEN "failed" ELSE "returned"

\* The shell expands the glob once, before the loop over it.
ListChunks(c) ==
  /\ client[c] = "listing"
  /\ glob' = [glob EXCEPT ![c] = chunks[c][stream[c]]]
  /\ client' = [client EXCEPT ![c] = "draining"]
  /\ UNCHANGED <<spoolVars, finished, stream, seen, drainVars>>
  /\ UNCHANGED <<hostVars, childVars, workerVars>>

\* [ -e chunk ], cat and rm of the next name the glob yielded.
DrainChunk(c) ==
  LET s == stream[c]
      n == FirstName(glob[c])
  IN /\ client[c] = "draining" /\ glob[c] # {}
     /\ glob' = [glob EXCEPT ![c] = @ \ {n}]
     /\ IF n \in chunks[c][s]
        THEN /\ seen' = [seen EXCEPT ![c][s] = Append(@, n)]
             /\ chunks' = [chunks EXCEPT ![c][s] = @ \ Printed(n)]
        ELSE UNCHANGED <<seen, chunks>>
     /\ UNCHANGED <<requests, drafts, running, status, doomed, client, finished, stream>>
     /\ UNCHANGED <<drainVars, hostVars, childVars, workerVars>>

DrainDone(c) ==
  /\ client[c] = "draining" /\ glob[c] = {}
  /\ \/ /\ stream[c] = "out"
        /\ stream' = [stream EXCEPT ![c] = "err"]
        /\ client' = [client EXCEPT ![c] = "listing"]
     \/ /\ stream[c] = "err"
        /\ client' = [client EXCEPT ![c] = IF StatusBefore(c) THEN "leaving" ELSE "checking"]
        /\ UNCHANGED stream
  /\ UNCHANGED <<spoolVars, finished, glob, seen, drainVars>>
  /\ UNCHANGED <<hostVars, childVars, workerVars>>

\* `code=$(cat status)` fails the script if the status is gone.
Leave(c) ==
  /\ client[c] = "leaving"
  /\ exit' = [exit EXCEPT ![c] = status[c]]
  /\ client' = [client EXCEPT ![c] = Ending(c)]
  /\ status' = [status EXCEPT ![c] = NoCode]
  /\ Forget({c})
  /\ UNCHANGED <<requests, drafts, running, chunks, doomed, home, kind, seen>>
  /\ UNCHANGED <<hostVars, childVars, workerVars>>

\* The caller is interrupted; nothing it left in the spool is removed.
Interrupt(c) ==
  /\ c \in Interruptible /\ Active(c)
  /\ client' = [client EXCEPT ![c] = "gone"]
  /\ Forget({c})
  /\ UNCHANGED <<spoolVars, seen, drainVars>>
  /\ UNCHANGED <<hostVars, childVars, workerVars>>

Client(c) ==
  \/ Submit(c) \/ CheckStatus(c) \/ ListChunks(c)
  \/ DrainChunk(c) \/ DrainDone(c) \/ Leave(c)

-----------------------------------------------------------------------------
(* The agent thread of the container's owner.                                *)

\* Mutant: an off-by-one in the limit.
OneSlotMore(h) == Cardinality(InFlight(h)) <= Slots
HasSlot(h) == Cardinality(InFlight(h)) < Slots

\* rename fails if the request is gone.  Mutant: a copy of it does.
AlreadyRead(c) == TRUE
Renames(c) == c \in requests

\* Mutant: stop is heeded only with nothing left to claim.
StopsIdle(h) == stop[h] /\ requests = {}
Stops(h) == stop[h]

\* The oldest request's id is read from one listing ...
Poll(h) ==
  /\ host[h] = "polling" /\ ~stop[h]
  /\ HasSlot(h)
  /\ requests # {}
  /\ target' = [target EXCEPT ![h] = Oldest(requests)]
  /\ host' = [host EXCEPT ![h] = "claiming"]
  /\ UNCHANGED <<stop, launches, cleans, spoolVars, clientVars, childVars, workerVars>>

\* ... and the rename that follows is the claim: it fails if the file is gone.
Claim(h) ==
  LET c == target[h]
  IN /\ host[h] = "claiming"
     /\ IF Renames(c)
        THEN /\ requests' = requests \ {c}
             /\ running' = running \cup {c}
             /\ worker' = [worker EXCEPT ![c] = "claimed"]
             /\ owner' = [owner EXCEPT ![c] = h]
        ELSE UNCHANGED <<requests, running, worker, owner>>
     /\ host' = [host EXCEPT ![h] = "polling"]
     /\ target' = [target EXCEPT ![h] = NoCall]
     /\ UNCHANGED <<drafts, chunks, status, doomed, code, stop, launches, cleans>>
     /\ UNCHANGED <<clientVars, childVars>>

\* A listing that fails ends serve: the session runs on without an agent.
AgentFails(h) ==
  /\ Faults /\ host[h] = "polling" /\ ~stop[h]
  /\ host' = [host EXCEPT ![h] = "broken"]
  /\ UNCHANGED <<stop, target, launches, cleans, spoolVars, clientVars, childVars, workerVars>>

\* serve sees stop only at the head of its loop; its scope then joins the workers.
SeeStop(h) ==
  /\ host[h] = "polling" /\ Stops(h)
  /\ host' = [host EXCEPT ![h] = "joining"]
  /\ UNCHANGED <<stop, target, launches, cleans, spoolVars, clientVars, childVars, workerVars>>

-----------------------------------------------------------------------------
(* The worker thread of a claimed request, and the command it runs.          *)

\* The message is chunk 1 of err.  Mutant: a refusal says nothing.
Silence(c) == chunks[c]["err"]
Message(c) == chunks[c]["err"] \cup {1}

\* Chunks count from 1.  Mutant: the number is taken before it is advanced.
NumberBefore(c, s) == sequence[c][s]
NextNumber(c, s) == sequence[c][s] + 1

\* The scope joins readers and pump.  Mutant: the readers are not waited for.
OnlyPumpEnded(c) == ~pump[c]
ThreadsEnded(c) == readers[c] = {} /\ ~pump[c]

\* Not on the allowlist, or the program cannot be started: 126 and a message.
Refuse(c) ==
  /\ worker[c] = "claimed" /\ c \in running
  /\ kind[c] \in {"refused", "unspawnable"}
  /\ chunks' = [chunks EXCEPT ![c]["err"] = Message(c)]
  /\ code' = [code EXCEPT ![c] = REJECTED_EXIT_CODE]
  /\ worker' = [worker EXCEPT ![c] = "replying"]
  /\ UNCHANGED <<requests, drafts, running, status, doomed, owner>>
  /\ UNCHANGED <<clientVars, hostVars, childVars>>

Spawn(c) ==
  /\ worker[c] = "claimed" /\ c \in running
  /\ kind[c] \in {"pipes", "terminal"}
  /\ worker' = [worker EXCEPT ![c] = "running"]
  /\ child' = [child EXCEPT ![c] = "running"]
  /\ held' = [held EXCEPT ![c] = Sources(kind[c])]
  /\ readers' = [readers EXCEPT ![c] = Sources(kind[c])]
  /\ pump' = [pump EXCEPT ![c] = TRUE]
  /\ executions' = [executions EXCEPT ![c] = @ + 1]
  /\ UNCHANGED <<written, sequence, owner, code, spoolVars, clientVars, hostVars>>

\* An error of run_claimed or write_status is logged and ends the worker: the
\* claim is gone or not UTF-8, or the refusal or the status cannot be written.
Fail(c) ==
  /\ \/ worker[c] = "claimed" /\ (c \notin running \/ kind[c] = "unreadable")
     \/ Faults /\ worker[c] = "claimed" /\ kind[c] \in {"refused", "unspawnable"}
     \/ Faults /\ worker[c] = "replying"
  /\ worker' = [worker EXCEPT ![c] = "done"]
  /\ UNCHANGED <<owner, code, spoolVars, clientVars, hostVars, childVars>>

\* The command, or what it left behind holding its output, writes.
Write(c, s) ==
  /\ worker[c] = "running" /\ s \in held[c]
  /\ written[c][s] < MaxWrites[c][s]
  /\ written' = [written EXCEPT ![c][s] = @ + 1]
  /\ UNCHANGED <<child, held, sequence, readers, pump, executions>>
  /\ UNCHANGED <<spoolVars, clientVars, hostVars, workerVars>>

\* The command ends; processes it started may still hold its output.
ChildExits(c) ==
  /\ worker[c] = "running" /\ child[c] = "running"
  /\ child' = [child EXCEPT ![c] = "exited"]
  /\ \E e \in Exits : code' = [code EXCEPT ![c] = ExitCode(e)]
  /\ \E left \in SUBSET held[c] : held' = [held EXCEPT ![c] = left]
  /\ UNCHANGED <<written, sequence, readers, pump, executions, worker, owner>>
  /\ UNCHANGED <<spoolVars, clientVars, hostVars>>

Release(c, s) ==
  /\ worker[c] = "running" /\ child[c] = "exited" /\ s \in held[c]
  /\ held' = [held EXCEPT ![c] = @ \ {s}]
  /\ UNCHANGED <<child, written, sequence, readers, pump, executions>>
  /\ UNCHANGED <<spoolVars, clientVars, hostVars, workerVars>>

\* A failed publication is ignored, and its number is spent all the same.
Publish(c, s) ==
  /\ s \in readers[c] /\ sequence[c][s] < written[c][s]
  /\ sequence' = [sequence EXCEPT ![c][s] = @ + 1]
  /\ \/ chunks' = [chunks EXCEPT ![c][s] = @ \cup {NextNumber(c, s)}]
     \/ Faults /\ UNCHANGED chunks
  /\ UNCHANGED <<requests, drafts, running, status, doomed>>
  /\ UNCHANGED <<child, held, written, readers, pump, executions>>
  /\ UNCHANGED <<clientVars, hostVars, workerVars>>

\* End of file: everything was read and nobody can write any more.
ReaderEnds(c, s) ==
  /\ s \in readers[c] \ held[c] /\ sequence[c][s] = written[c][s]
  /\ readers' = [readers EXCEPT ![c] = @ \ {s}]
  /\ UNCHANGED <<child, held, written, sequence, pump, executions>>
  /\ UNCHANGED <<spoolVars, clientVars, hostVars, workerVars>>

\* The stdin thread ends with its input, at a write error, or after the command;
\* only the join below can tell, so it ends here once the command has.
PumpEnds(c) ==
  /\ pump[c] /\ child[c] = "exited"
  /\ pump' = [pump EXCEPT ![c] = FALSE]
  /\ UNCHANGED <<child, held, written, sequence, readers, executions>>
  /\ UNCHANGED <<spoolVars, clientVars, hostVars, workerVars>>

\* The scope joins every thread before the status is written.
Join(c) ==
  /\ worker[c] = "running" /\ child[c] = "exited" /\ ThreadsEnded(c)
  /\ worker' = [worker EXCEPT ![c] = "replying"]
  /\ UNCHANGED <<owner, code, spoolVars, clientVars, hostVars, childVars>>

Reply(c) ==
  /\ worker[c] = "replying"
  /\ status' = [status EXCEPT ![c] = code[c]]
  /\ worker' = [worker EXCEPT ![c] = "removing"]
  /\ UNCHANGED <<requests, drafts, running, chunks, doomed, owner, code>>
  /\ UNCHANGED <<clientVars, hostVars, childVars>>

\* The claim is removed, or was already; either way the slot is free.
RemoveClaim(c) ==
  /\ worker[c] = "removing"
  /\ running' = running \ {c}
  /\ worker' = [worker EXCEPT ![c] = "done"]
  /\ UNCHANGED <<requests, drafts, chunks, status, doomed, owner, code>>
  /\ UNCHANGED <<clientVars, hostVars, childVars>>

Worker(c) ==
  \/ Refuse(c) \/ Spawn(c) \/ Fail(c) \/ Join(c) \/ Reply(c) \/ RemoveClaim(c)
  \/ \E s \in Streams : Publish(c, s) \/ ReaderEnds(c, s)

Command(c) ==
  \/ ChildExits(c) \/ PumpEnds(c)
  \/ \E s \in Streams : Write(c, s) \/ Release(c, s)

-----------------------------------------------------------------------------
(* The owner: creation, the stop flag, cleanup, exit and crash; and `clean`. *)

File(c, name, n) == [call |-> c, name |-> name, number |-> n]

ChunkFiles(c, s) == {File(c, s, n) : n \in chunks[c][s]}
StatusFiles == {File(c, "status", 0) : c \in {d \in Calls : status[d] # NoCode}}
ResponseFiles == StatusFiles \cup UNION {ChunkFiles(c, s) : c \in Calls, s \in Streams}

\* requests/ and running/ are emptied, then the files listed in responses/ go
\* one by one while clients and workers carry on.
EmptySpool(h) ==
  /\ requests' = {} /\ drafts' = {} /\ running' = {}
  /\ doomed' = [doomed EXCEPT ![h] = ResponseFiles]
  /\ UNCHANGED <<chunks, status>>

RemoveResponse(h) ==
  \E f \in doomed[h] :
    /\ doomed' = [doomed EXCEPT ![h] = @ \ {f}]
    /\ IF f.name = "status"
       THEN /\ status' = [status EXCEPT ![f.call] = NoCode]
            /\ UNCHANGED chunks
       ELSE /\ chunks' = [chunks EXCEPT ![f.call][f.name] = @ \ {f.number}]
            /\ UNCHANGED status
    /\ UNCHANGED <<requests, drafts, running, clientVars, hostVars, childVars, workerVars>>

\* A file the client removed between the look at it and its removal ends the
\* cleanup with an error, as does any failure; the rest stays.
AbandonCleanup(h) ==
  /\ h # NoHost => host[h] = "cleaning"
  /\ \E f \in doomed[h] : Faults \/ f \notin ResponseFiles
  /\ doomed' = [doomed EXCEPT ![h] = {}]
  /\ UNCHANGED <<requests, drafts, running, chunks, status>>
  /\ UNCHANGED <<clientVars, hostVars, childVars, workerVars>>

\* Claims and responses only: requests are left alone.
Sweep(h) ==
  /\ running' = {}
  /\ doomed' = [doomed EXCEPT ![h] = ResponseFiles]
  /\ UNCHANGED <<requests, drafts, chunks, status>>

Create(h) ==
  /\ host[h] = "off" /\ launches < MaxLaunches
  /\ OneOwner => \A g \in Hosts : host[g] = "off"
  /\ Sweep(h)
  /\ host' = [host EXCEPT ![h] = "creating"]
  /\ stop' = [stop EXCEPT ![h] = FALSE]
  /\ launches' = launches + 1
  /\ UNCHANGED <<target, cleans, clientVars, childVars, workerVars>>

\* The VM is up, and may be joined; the agent starts after the sockets are ready.
Boot(h) ==
  /\ host[h] = "creating" /\ doomed[h] = {}
  /\ host' = [host EXCEPT ![h] = "up"]
  /\ UNCHANGED <<stop, target, launches, cleans, spoolVars, clientVars, childVars, workerVars>>

Serve(h) ==
  /\ host[h] = "up"
  /\ host' = [host EXCEPT ![h] = "polling"]
  /\ UNCHANGED <<stop, target, launches, cleans, spoolVars, clientVars, childVars, workerVars>>

\* Setup failed or the attached process ended.
Stop(h) ==
  /\ host[h] \in {"polling", "claiming", "broken"} /\ ~stop[h]
  /\ stop' = [stop EXCEPT ![h] = TRUE]
  /\ UNCHANGED <<host, target, launches, cleans, spoolVars, clientVars, childVars, workerVars>>

Joined(h, next) ==
  /\ host[h] \in {"joining", "broken"} /\ stop[h]
  /\ InFlight(h) = {}
  /\ host' = [host EXCEPT ![h] = next]
  /\ UNCHANGED <<stop, target, launches, cleans, clientVars, childVars, workerVars>>

\* After a process that could be attached, whatever its exit code.
CleanAfterExit(h) == Joined(h, "cleaning") /\ EmptySpool(h)

Cleaned(h) ==
  /\ host[h] = "cleaning" /\ doomed[h] = {}
  /\ host' = [host EXCEPT ![h] = "ended"]
  /\ UNCHANGED <<stop, target, launches, cleans, spoolVars, clientVars, childVars, workerVars>>

\* After an engine error, which returns past the cleanup.
SkipCleanup(h) == Joined(h, "ended") /\ UNCHANGED spoolVars

\* With the process go its VM, the clients in it and its threads.
Die(h) ==
  /\ host' = [host EXCEPT ![h] = "off"]
  /\ target' = [target EXCEPT ![h] = NoCall]
  /\ client' = [c \in Calls |-> IF home[c] = h /\ Active(c) THEN "gone" ELSE client[c]]
  /\ worker' = [c \in Calls |-> IF c \in InFlight(h) THEN "done" ELSE worker[c]]
  /\ readers' = [c \in Calls |-> IF c \in InFlight(h) THEN {} ELSE readers[c]]
  /\ pump' = [c \in Calls |-> IF c \in InFlight(h) THEN FALSE ELSE pump[c]]
  /\ Forget({c \in Calls : home[c] = h /\ Active(c)})
  /\ UNCHANGED <<seen, drainVars, owner, code>>
  /\ doomed' = [doomed EXCEPT ![h] = {}]
  /\ UNCHANGED <<child, held, written, sequence, executions>>
  /\ UNCHANGED <<requests, drafts, running, chunks, status, stop, launches, cleans>>

ExitProcess(h) == host[h] = "ended" /\ Die(h)

Crash(h) == host[h] \notin {"off", "ended"} /\ Die(h)

Clean ==
  /\ cleans < MaxCleans
  /\ doomed[NoHost] = {}
  /\ cleans' = cleans + 1
  /\ EmptySpool(NoHost)
  /\ UNCHANGED <<host, stop, target, launches, clientVars, childVars, workerVars>>

Leaving(h) ==
  CleanAfterExit(h) \/ Cleaned(h) \/ SkipCleanup(h) \/ ExitProcess(h)

Agent(h) == Poll(h) \/ Claim(h) \/ SeeStop(h)

-----------------------------------------------------------------------------
Next ==
  \/ \E c \in Calls : Begin(c) \/ Client(c) \/ Interrupt(c) \/ Worker(c) \/ Command(c)
  \/ \E h \in Hosts :
       Create(h) \/ Boot(h) \/ Serve(h) \/ Agent(h) \/ AgentFails(h) \/ Stop(h) \/ Leaving(h) \/ Crash(h)
  \/ Clean
  \/ \E h \in Cleaners : RemoveResponse(h) \/ AbandonCleanup(h)

Spec == Init /\ [][Next]_vars

\* What the scheduler, the guest and the commands are assumed to do: every
\* thread and script keeps running, and commands (with what they leave behind)
\* end.  Nobody has to start a call, interrupt it, end the session or crash.
Fairness ==
  /\ \A c \in Calls :
       /\ WF_vars(Client(c))
       /\ WF_vars(Refuse(c) \/ Spawn(c) \/ Fail(c) \/ Join(c) \/ Reply(c) \/ RemoveClaim(c))
       /\ WF_vars(ChildExits(c)) /\ WF_vars(PumpEnds(c))
       /\ \A s \in Streams :
            WF_vars(Publish(c, s) \/ ReaderEnds(c, s)) /\ WF_vars(Release(c, s))
  /\ \A h \in Hosts : WF_vars(Boot(h) \/ Serve(h)) /\ WF_vars(Agent(h)) /\ WF_vars(Leaving(h))
  /\ \A h \in Cleaners : WF_vars(RemoveResponse(h))

FairSpec == Spec /\ Fairness

-----------------------------------------------------------------------------
HostStates == {"off", "creating"} \cup Booted
ClientStates == {"idle", "returned", "failed", "gone"} \cup ActiveClient
WorkerStates == {"none", "done"} \cup BusyWorker
Codes == ExitCodes \cup {NoCode}

SpoolTypes ==
  /\ requests \subseteq Calls /\ drafts \subseteq Calls /\ running \subseteq Calls
  /\ chunks \in [Calls -> [Streams -> SUBSET (Nat \ {0})]]
  /\ status \in [Calls -> Codes]
  /\ doomed \in [Cleaners -> SUBSET [call : Calls, name : Streams \cup {"status"}, number : Nat]]

ClientTypes ==
  /\ client \in [Calls -> ClientStates]
  /\ home \in [Calls -> Cleaners]
  /\ kind \in [Calls -> Kinds \cup {NoKind}]
  /\ finished \in [Calls -> BOOLEAN]
  /\ stream \in [Calls -> Streams]
  /\ glob \in [Calls -> SUBSET (Nat \ {0})]
  /\ seen \in [Calls -> [Streams -> Seq(Nat \ {0})]]
  /\ exit \in [Calls -> Codes]

HostTypes ==
  /\ host \in [Hosts -> HostStates]
  /\ stop \in [Hosts -> BOOLEAN]
  /\ target \in [Hosts -> Calls \cup {NoCall}]
  /\ launches \in 0..MaxLaunches /\ cleans \in 0..MaxCleans

ChildTypes ==
  /\ child \in [Calls -> {"none", "running", "exited"}]
  /\ held \in [Calls -> SUBSET Streams]
  /\ written \in [Calls -> [Streams -> Nat]]
  /\ sequence \in [Calls -> [Streams -> Nat]]
  /\ readers \in [Calls -> SUBSET Streams]
  /\ pump \in [Calls -> BOOLEAN]
  /\ executions \in [Calls -> Nat]

WorkerTypes ==
  /\ worker \in [Calls -> WorkerStates]
  /\ owner \in [Calls -> Cleaners]
  /\ code \in [Calls -> Codes]

\* The state is well formed: in particular chunks are numbered from 1, so that
\* a refusal's chunk is what a command's first one would be.
TypeOK == SpoolTypes /\ ClientTypes /\ HostTypes /\ ChildTypes /\ WorkerTypes

\* A request runs at most one command on the host, however agents race for it
\* and wherever they die (spool.rs claim_next: the rename is the claim).
AtMostOnce == \A c \in Calls : executions[c] <= 1

\* No more commands run at once than the manifest allows, per agent.
WithinLimit == \A h \in Hosts : Cardinality(InFlight(h)) <= Slots

\* Once the status of a call is published nothing is added to its output.
NoChunkAfterStatus ==
  [][\A c \in Calls, s \in Streams :
       status[c] # NoCode => chunks'[c][s] \subseteq chunks[c][s]]_vars

\* The chunks a client prints come in the order they were read, none twice,
\* whatever is cleaned, lost or swept under it.
OutputInOrder ==
  \A c \in Calls, s \in Streams :
    \A i, j \in DOMAIN seen[c][s] : i < j => seen[c][s][i] < seen[c][s][j]

\* Nobody but the client has removed responses of its session so far.
Undisturbed(c) ==
  cleans = 0 /\ (home[c] \in Hosts => host[home[c]] \notin {"cleaning", "ended"})

\* All the output of a call: what its command wrote, or the refusal.
Output(c) ==
  [s \in Streams |->
    IF kind[c] \in {"refused", "unspawnable"}
    THEN IF s = "err" THEN <<1>> ELSE <<>>
    ELSE [i \in 1..written[c][s] |-> i]]

\* A client about to exit with the command's status has printed every chunk
\* of both streams, in order (agent.rs: a guest that sees the status has
\* complete output; the client checks the status before it drains).
OutputComplete ==
  \A c \in Calls : client[c] = "leaving" /\ Undisturbed(c) => seen[c] = Output(c)

\* A client that returns a code returns the one its own command ended with, or
\* 126 for a request that ran nothing, even if the spool is emptied, swept by
\* another creator, or half written.
AnswersAreReal ==
  \A c \in Calls : client[c] = "returned" =>
    /\ exit[c] = code[c]
    /\ IF kind[c] \in {"pipes", "terminal"}
       THEN executions[c] = 1 /\ child[c] = "exited"
       ELSE executions[c] = 0 /\ exit[c] = REJECTED_EXIT_CODE

\* When a container is created, the requests still in the spool have a live
\* caller (spool.rs sweep: one submitted before the container starts is still
\* live).
RequestsAreLive ==
  \A h \in Hosts : host[h] = "creating" => \A c \in requests : Active(c)

Settled(c) == client[c] \in {"returned", "failed", "gone"}

\* Every call whose request the agent can read is answered, or ends with its VM.
CallsSettle == \A c \in Calls : (Active(c) /\ kind[c] # "unreadable") ~> Settled(c)

\* The same of every call: its exit status is returned (docs/manifest/host.md).
EveryCallSettles == \A c \in Calls : Active(c) ~> Settled(c)

\* An owner told to stop gets past its agent, its workers and its cleanup.
OwnersLeave == \A h \in Hosts : stop[h] ~> host[h] = "off"
=============================================================================
