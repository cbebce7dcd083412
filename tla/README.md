# vcontainer: a verification project in TLA+

vcontainer runs the containers of a Cloud Foundry diego cell as container groups of
Azure Container Instances (ACI). It is a gRPC server whose clients speak garden
(create, run, stream in, stream out, ...). It has no agent of its own inside a container
and no connection to it: all it shares with one is an Azure file share, the *swap root*.
It writes shell scripts into that share; a bash daemon, which is the entry point of the
container, executes them and leaves pid and exit files for vcontainer to find.

Most of what can go wrong in this program goes wrong in that protocol of files: no
locks, no messages, two sides that poll, handlers that return before their work is
done, and a process that may stop between any two file operations. It is the core of this
project: modelled one file operation at a time, model-checked, and proved correct in
general for the properties the handlers rely on. Around it stand two more state machines:
the container group and its tags, which concurrent RPCs read and write through the ACI
API, and the server process with the shares and mounts of its handlers.

Source paths below are relative to the repository root (`src/`).

## 1. Inventory

| Component | Source | State it keeps | Operations |
|---|---|---|---|
| garden service | `handlers/vgardenhandler.go` | none; the container groups live in ACI | Create, Destroy, Containers, Lookup, Ping, Capacity (BulkInfo, BulkMetrics: not implemented) |
| container service | `handlers/vcontainerhandler.go` | none; properties are tags of the container group | Run, StreamIn, StreamOut, Properties, Property, SetProperty, RemoveProperty, Info, CurrentMemoryLimit, CurrentCPULimit (Stop, Metrics, NetIn, ...: not implemented) |
| process service | `handlers/vprocesshandler.go` | none; a process is a task id | Wait, Signal (SetTTY: empty) |
| interop, host side | `interop/interop*.go` | the share: `one_off_tasks/{stream_in,run,stream_out}`, `in`, `out/tasks`, `out/streamout` | Prepare, Open, Close, DispatchFolderTask, PrepareExtractFile, DispatchExtractFileTask, DispatchRunTask, DispatchStreamOutTask, OpenStreamOutFile, TaskExited, WaitForTaskExit, GetProcessIdFromTaskId, CleanTask (empty) |
| interop, container side | `interop/interop-daemon.go`, the script text in `interop/interop.go:122-141` | `$current_file`; one shell per execution | list, execute, wait or background, rename; su, start, write pid, wait, write exit status |
| shares and mounts | `interop/interop.go:58-88,240-277`, `vstore/`, `helpers/mount/` | shares in Azure storage, mounts and directories under `/tmp` | createFileShare, mount, umount |
| fsync | `helpers/fsync/fsync.go` | none | CopyFolder (MkdirAll + rsync), WriteToFile (no caller) |
| server process | `grpcserver/server.go`, `cmd/vcontainer/main.go` | listener, pending RPCs | start, stop on a signal |
| configuration | `config/`, `aci_builder.go`, `common/` | read once at start | - |

How they interact:

* A handler is a goroutine of the gRPC server. It mounts the share of its container
  (`Open`), schedules tasks, and unmounts (`Close`, deferred). Handlers share no memory.
  Two handlers of one container meet only on the share.
* `scheduleTask` writes an env file, a script under a temporary name, and renames it
  to `*.sh`. The rename is the only signal the daemon gets, and the order of the
  renames the only ordering information.
* The daemon lists `stream_in`, `run`, `stream_out` in that order, takes the oldest
  script of the first folder that has one, executes it, renames it to `*.sh.executed`
  and starts over. Scripts of `run` go to the background.
* The script starts its command through `su`, writes the pid to `out/tasks/<id>.pid`,
  waits, and writes the exit status to `out/tasks/<id>.exit`. StreamOut and Wait poll
  for that file, Signal reads the pid file.
* Container groups and their tags are read and written through the ACI API.

What is hard in it, and what correctness means there:

| Component | Hard behaviours | What must hold |
|---|---|---|
| task dispatch and daemon | two processes interleaved at the granularity of file operations; handlers that break off between two of them; tasks of one RPC scheduled without waiting; renames that fail; shells that start late | only complete scripts are executed; tasks of one RPC take effect in order; no two stream tasks overlap; a folder is a queue; at most one execution; files are in place before a process starts; a published task is taken up unless tasks with precedence keep coming |
| replies | answers before the work is done; a wait that expires; files read while being written; errors that are dropped | ok means dispatched, all or nothing; an exit is reported only of a process that is over; an incomplete archive is sent only when the wait has expired; a handler waits for nothing without end but its own client, and a Wait for its process |
| properties | read-modify-write of all tags by concurrent RPCs; requests that fail but take effect later; a nil map | an acknowledged change that no other has overlapped stays until a later call writes the same property; no reader sees an older value |
| garden | a Create that fails half-way; updates that race with Destroy | what was acknowledged to exist, or to be gone, is so; searches agree |
| shares and mounts | a share made in two API calls and deleted when the second fails; mounts and directories left behind; order of defers | acknowledged work is not deleted; a mount outlives its RPC only if a command has failed |
| server process | graceful stop with Waits that never end; an unbuffered error channel; the registration that leads clients to it | a stop cuts no RPC off and ends; clients are sent only to a server that serves |

`PROJECT.json` lists each hazard at the line where it bites, with the properties that
cover it or the reason why none does.

## 2. Modules

Three groups, each with its own modules, runs and proofs. They share no variables: the
files of a container, its group in ACI, and the mounts through which a handler reaches
the files are separate pieces of state in the program too.

| Module | Models | Extends |
|---|---|---|
| `SwapRoot` | the share, the tasks of the RPCs being served, the container group | - |
| `Dispatcher` | the handlers up to their last task, one file operation per action | `SwapRoot` |
| `Daemon` | the daemon's loop and the shells that execute scripts | `SwapRoot` |
| `TaskSpool` | both, interleaved, with the container coming and going; the safety properties of the protocol | `Dispatcher`, `Daemon` |
| `TaskPipeline` | what the protocol promises its callers: an abstract specification with neither files nor a daemon | - |
| `DaemonRounds` | the daemon as a server of three queues in which tasks arrive for ever | - |
| `TaskSpoolProofs` | the inductive invariant and the theorems about `TaskSpool` | `TaskSpool` |
| `ContainerRpc` | the handlers' returns: polling, expiry, archives, Wait; what clients are told | `TaskSpool` |
| `ContainerRpcProofs` | the invariant and the theorems about `ContainerRpc` | `ContainerRpc`, `TaskSpoolProofs` |
| `ContainerContract` | what the clients of a container may rely on: an abstract specification of items, answers, archives and waits | - |
| `ContainerContractProofs` | that `ContainerRpc` implements `ContainerContract` | `ContainerRpcProofs` |
| `ContainerGroup` | the container group of a handle, its tags, and the RPCs that read, change, search, create and delete it | - |
| `ContainerGroupProofs` | the invariant and the theorems about `ContainerGroup` | `ContainerGroup` |
| `ShareMounts` | Open and Close around the work of an RPC: share, directory, mount, open file | - |
| `GrpcServer` | the server process around the handlers of `ShareMounts`: start, registration, stop, crash, restart | `ShareMounts` |
| `GrpcServerProofs` | the invariant and the theorems about `GrpcServer` | `GrpcServer` |
| `MCTaskSpool`, `MCDaemonRounds`, `MCContainerRpc`, `MCContainerGroup`, `MCGrpcServer` | the RPCs of the model-checked instances | the above |

The order in which they came is the order of their weight: the protocol of files first
(`SwapRoot` to `TaskSpoolProofs`), then the answers of the handlers, the properties and
the life of container groups, and the process with its mounts. What could follow:

1. A Create over a share that an earlier container of the same handle has left, for which
   `TaskSpool` would have to start from any share that such a container may leave.
2. Exit codes of helper tasks: what a failed mkdir or chmod means for the tasks after it.
3. A signal that arrives before the server is ready.

## 3. The model and the code

### State

A task is the pair `<<s, i>>`: the i-th task of RPC `s`. In the code its id is a fresh
uuid; `Size(s)` is the number of `scheduleTask` calls of the handler. For each task

* `script[t]` is the name its script has (none, `*.sh.temp`, `*.sh`, `*.sh.executed`);
  `body` holds the tasks whose script text is complete, `env` those whose env file is
  certain to be, and `staged[s]` says up to which task of `s` the payload (copied folder,
  file to extract) is certain to be whole in `in`;
* `ctime[t]` is the change time of the script, set by the rename (`ls -tc` sorts by it);
  `now` is the file server's clock;
* `pidFile[t]`, `exitFile[t]` are absent, empty (opened by `>`, not yet written) or written;
* `proc[t][k]` is the shell of the k-th execution, `tries[t]` counts the executions.

`pc[s]` is the step the handler of `s` takes next and `sent[s]` how many tasks it has
published; `dpc` and `cur` are the daemon's program counter and `$current_file`;
`scanned` is a history variable, the clock at the daemon's last listing of `stream_in`,
which only properties read. `dirs` holds what else a handler or the container may find
missing: the task folders, the whole entry script of the daemon, and the `in` folder. `in` is made by CopyFolder only, so a StreamIn into a container that was
created without a bind mount fails in PrepareExtractFile, or skips the dispatch and
answers ok when the client sends no content (`SkipExtract`).

### Actions

| Action | Code |
|---|---|
| `Prepare`, `WriteEntryScript`, `CreateContainerGroup` | `Prepare` and `create` called by Create; the folders and the daemon's script are made before the container, but errors of writing the script are not looked at |
| `MakeInFolder`, `Stage` | `CopyFolder`; the messages of a StreamIn up to the end of its stream |
| `SkipExtract` | a StreamIn without path, user or file, at the end of its stream |
| `ReadPid` | `GetProcessIdFromTaskId` |
| `WriteEnv`, `CreateTemp`, `WriteScript`, `Publish` | `scheduleTask`, `interop/interop.go:90-157` |
| `Fail` | every error return of these |
| `ListStreamIn`, `ListRun`, `ListStreamOut`, `Exec`, `Reap`, `Mv`, `MvFails` | the loop of `interop_daemon` |
| `OpenScript` ... `WriteExitFile` | the script, command by command |
| `Answer` | the return of Create, StreamIn, Run and Signal |
| `PollAgain`, `PollFails`, `SendArchive` | WaitForTaskExit and the rest of StreamOut |
| `StartWait`, `PollExit`, `ClientLeaves`, `BreakOff` | Wait |

Handlers that break off are modelled with `Fail`: the error returns and the end of the
server process leave the same traces on the share, since handlers never clean up and a
restarted server continues no RPC.

Not every file is checked when it is closed. Of the script itself `scheduleTask` looks at
the errors of Write and Close; of the env file it drops that of the deferred Close, of
the entry script those of both, and a StreamIn closes its file only after the dispatch,
by a defer whose error is dropped. The model does not follow such bytes: under the fault
`write_back` these files are just not certain to be whole.

### The daemon's rounds (`DaemonRounds`)

`TaskSpool` has finitely many tasks. What the order of the folders means for tasks that keep
arriving is in `DaemonRounds`: `folder[i]` is where task `i` waits, `ahead[i]` how many of
that folder are older, `at` the folder that the daemon lists next and `hand` the task it
executes. `Arrive` is a handler's rename, `PassOver` and `Take` a listing, `Finish` and
`FinishInVain` the daemon's `mv`. That this is the daemon of `Daemon` is checked:
`TaskSpool` implements it (`ImplementsRounds`).

### Container groups (`ContainerGroup`)

`here` and `tags` are what ACI keeps; each call has a program counter `pc[c]`, its request
`req[c]` and the tags it has read, `copy[c]`. A handler is two or three steps: `Begin`, the
read (`ReadTags`, `SearchGroups`, `GetForUpdate`) and the write (`UpdateTags`, `PutGroup`,
`DeleteGroup`), with every other call between them.

| Action | Code |
|---|---|
| `GetForUpdate`, `UpdateTags` | `GetContainerGroup`, the change of the map and `UpdateContainerGroup` of SetProperty and RemoveProperty |
| `ReadTags` | Property, Properties, Info |
| `SearchGroups` | Lookup and Containers, which go through the list of all groups; `Matches` is the filter of Containers, where a tag that is not there equals the empty string |
| `PutGroup`, `CreateReturns` | Create up to `CreateContainerGroup`, and its bind mounts, whose failure leaves the group |
| `DeleteGroup` | Destroy; deleting what is gone is no error |
| `Refuse`, `WriteFails` | the error returns, before anything was sent and after |
| `Panic` | SetProperty on a nil map: the process ends with all its handlers |
| `TakesLate` | a request that was answered with an error, or whose sender is gone, arrives |

ACI is external. How it treats its requests is taken from how the code uses it: an update
replaces all tags, a read returns them all, a creation of a group that exists replaces it.
Whether ACI leaves the tags field out of an answer about a group without tags is not in
the source; the fault `nil_map` covers both.

`flying` holds calls whose write may still arrive. `prior[c]` is a history variable: the
calls whose effect, or lack of one, was certain before `c` began. Calls with neither in the
other's `prior` overlap. The properties of this module are those of a regular
register. A change is *undisputed* (`Undisputed`) when it was acknowledged and no other
writer has overlapped it; from then on the property has what the change has made of it or
what a writer that began after it has (`SaidSince`), however these later writers overlap
each other, fail or take effect late. For the group itself only Create and Destroy
dispute each other (`UndisputedGroup`, `KindsSince`). A reader is held to the same
with the writers that began before it ended (`NotAfter`). They do not say that no update is
lost, because updates are: see the finding `set_property_lost`.

### Mounts and the process (`ShareMounts`, `GrpcServer`)

| Action | Code |
|---|---|
| `CreateShare`, `SetQuota`, `DeleteShare` | `createFileShare` over `vstore/azure_file.go`: made, given a quota, deleted when that fails; `CreateShareFails`: the error, which is the usual answer when the share exists, is logged only |
| `TempDir`, `Mount`, `MountFails` | `mount`; a failed mount leaves its directory, and StreamOut goes on without it |
| `ReceivePathAndUser`, `ReceiveNothing`, `ReceiveFails` | what a StreamIn waits for before it opens anything; a stream that ends without path and user is answered with ok |
| `Work`, `WorkFails`, `NothingToExtract` | the RPC itself on its mount, in one step |
| `CloseFile`, `Umount`, `UmountFails`, `RemoveDir` | the deferred calls, last one first: the file, then `Close` |
| `DeletedLate` | a deletion that was answered with an error takes effect |
| `Listen`, `ListenFails`, `StopOnSignal`, `ServeFails`, `StopOnError`, `Stopped` | `Run` of `grpcserver/server.go` |
| `Register`, `Deregister`, `Signal`, `Exit` | `cmd/vcontainer/main.go`: the ordered group of the server and its registration |
| `Crash`, `Restart`, `Expire` | the end of the process between any two steps, its supervisor, and the TTL of a registration |

`share` names the call that has created the present share, so that a share that was
deleted and made again is another one: `on[c]` says which one `c` has mounted, and work on
a deleted share fails. `stored` holds the calls whose work is on the share; a deletion empties it, and a StreamIn
enters it only when its file is closed. `failed[c]` records what went wrong outside the
handler of `c` (or that its client has sent nothing), and `unsettled` which calls mounted a share while another handler could
still delete it: the two history variables say under which circumstances a mount may
leak and acknowledged work may be lost. The properties claim that there are no others.

Azure Files, the kernel, grpc, ifrit, locket and consul are external, modelled from how
the code uses them: shares are created and deleted by name; a mount with an open file
cannot be unmounted; GracefulStop refuses new RPCs and waits for the ones at work; an
ordered group starts a member when the one before is ready, stops them last one first, and
stops the others when one ends.

### Faults

In the modules about tasks, `Faults` chooses which failures a run allows: `dispatch` (an I/O error or the end of the
server process, between any two operations of a handler), `su` (the user does not exist in
the container), `slow_fork` (a background shell does not open its script within the
daemon's `sleep 1`, so that it finds it renamed and the task is lost), `mv` (the daemon's
rename fails; its status is ignored and the script is executed again), `container`
(the container group ends; RestartPolicy is Never) and `write_back` (the mount holds writes
back, and an error of a write or a close that the code does not look at loses them).

### Abstractions

* Clock: every rename gets a change time of its own, in the order of the renames. Two
  renames in one tick of the file server would be sorted by name; what a tick is, is not
  in the source. The hazard is listed.
* A listing is atomic. `head -1` of a listing that races with a rename yields one of the
  two results that an atomic listing before or after the rename yields.
* In the modules about tasks a share is mounted for as long as a handler runs, and both
  sides see the same contents. Mounts and their failures are in `ShareMounts`, where in
  turn the work of an RPC is one step.
* Pids, exit codes, names, arguments and contents are left out; that the pid in a file is
  that of the process is not, nor whether a file is complete.
* One container, created at most once in the modules about tasks; in `ContainerGroup` it
  comes and goes as clients ask. Handlers of different containers share nothing.
* Signal may be sent from the moment Run has published its script, a little earlier
  than the client can know the task id: more behaviours, none lost.
* What the model makes of an archive while its tar runs is nondeterministic: absent,
  partial, or complete though its exit file is not there yet.

### Fairness

`Fairness` is weak fairness of each handler's steps, of the daemon, and of each shell:
goroutines and processes are scheduled and their system calls return. The commands of
helper tasks (mkdir, chmod, rsync, tar, kill) end; the process of a Run need not.
`FairRpcSpec` adds weak fairness of the handlers' returns: their sleeps end. No fairness is
assumed of clients, of faults or of the container's end: a StreamIn that waits for the end
of its stream (`Receiving`) and a StreamOut with something to send (`Sending`) may stay where
they are, as in `Held` of `GrpcServer`. The few bytes that Wait sends at each poll are taken
to fit the window of the connection. Fairness says nothing about a Signal that waits for
its Run, nor about a daemon whose container is gone. `FairSpec` of `DaemonRounds` is weak
fairness of the daemon; the arrivals have none, and no end either.

`Fairness` of `GrpcServer` is weak fairness of the steps of the process once it has
something to do (`Deregister`, `StopOnSignal`, `StopOnError`, `Stopped`, `Exit`) and of each
handler, except at its work when it is a StreamIn, a StreamOut or a Wait, and before a
StreamIn has received path and user (`Held`): these receive from their client, send to it,
or poll for a process, and nothing in the code bounds that. Nobody has to call, to signal or to restart the process.

## 4. The runs

| Run | RPCs | Faults | Checks |
|---|---|---|---|
| `dispatch_breaks_off` | Create (2 bind mounts), StreamIn | dispatch, write_back | `TypeOK`, `WholeWhenExecuted`, `Fifo`, `StaysPublished` |
| `mv_fails` | StreamIn, StreamOut | mv, slow_fork, container | `InOrder`, `StreamsExclusive`, `WholeWhenExecuted`, `StreamInFirst`, `ArchiveSeesStreamIns`, `StreamTaskLeavesExit`, `IInv`, `ImplementsPipeline`, `ImplementsRounds` |
| `daemon_rounds` | 3 tasks at a time, without end | mv | `RoundsTypeOK`, `ServedUnlessOvertaken` |
| `run_wait_signal` | Run + Wait, Signal | su, slow_fork, dispatch, container | `AtMostOnce`, `ExitFileFinal`, `WaitTellsTruth`, `KillAimed`, `WaitEnds`, `ImplementsContract` |
| `stream_replies` | StreamIn, StreamOut | dispatch | `RpcTypeOK`, `TruncatedOnlyWhenExpired`, `OkMeansDispatched`, `HandlersDescend`, `ImplementsContract` |
| `answers_and_effects` | Create (1 bind mount), StreamOut | container | `AckedTakesEffect`, `EveryRpcAnswered` |
| `container_group` | any 3 calls, 2 keys, 1 value | api, nil_map | `TypeOK`, `AckedWriteSticks`, `AckedGroupSticks`, `ReadsAreCurrent`, `SearchesAreCurrent` |
| `server_and_mounts` | StreamIn, StreamOut | all, and of the process listen, serve, crash | `TypeOK`, `LeaksAreFailures`, `AckedWorkStays`, `StopCutsNothing`, `RegisteredIsServed`, `SignalEnds` |

What they show:

* Whatever the interleaving and wherever a handler breaks off, the daemon executes only
  scripts with their whole text, and unpacks only folders that a Create has copied to the
  end (`WholeWhenExecuted`); a published script is never withdrawn (`StaysPublished`). Env
  files and the files of a StreamIn are whole only on a mount that does not hold writes
  back: the code does not look at the errors of closing them.
* Two RPCs that write to one folder are served in the order of their renames (`Fifo`).
* The tasks of an RPC take effect one after the other although no handler waits between
  them (`InOrder`), even when scripts are executed twice. It is the daemon's waiting and
  its order by change time that give this; with two stream scripts at once or newest
  first it is lost.
* At most one stream script runs at any time (`StreamsExclusive`); the files streamed in
  before the daemon's last look are in place before it starts a process (`StreamInFirst`).
* An archive holds all that was streamed in before it was asked for
  (`ArchiveSeesStreamIns`), although the daemon's listings of `stream_in` and `stream_out` are
  not taken at once: the first task of a StreamOut may overtake a StreamIn that was
  published between the two, its tar may not, because a new round of the daemon comes
  before it. A Run has one task only and can overtake such a StreamIn.
* Without failing renames each task is executed once and a readable exit status is that
  of an execution that is over (`AtMostOnce`, `ExitFileFinal`), hence Wait tells the truth.
  With failing renames these three do not hold, and no document promises them.
* Stream tasks always leave an exit file; run tasks may be lost to a slow shell.
* The protocol implements `TaskPipeline`, under the mapping `StageOf`: todo until the
  rename, posted while it is `*.sh`, begun while the daemon has it in hand, done when
  renamed; a failed rename posts it again.
* No step of a handler leads back: each one brings it nearer to its answer, also when it
  fails, and an answer is final (`HandlersDescend`).
* Handlers, clients, daemon and shells together implement `ContainerContract`
  (`ImplementsContract`), in which there is no share: items of work behind the caller's back,
  an answer, an archive, a wait. An ok means that all items are posted, an archive is cut
  short only after the wait for it has expired, an exit is told of a process that is
  over, nothing is posted for a caller that was answered. It holds as long as no
  `mv` fails: an item that is executed again is over twice.
* A handler that waits for a task comes to an end of its wait, through its expiry when
  nothing else ends it; what can hold it then is its own client (`EveryRpcAnswered`). What
  a Create, StreamIn or StreamOut was told ok for takes effect while the container lives
  (`AckedTakesEffect`; the run has the first and the last), among finitely many tasks.
* The daemon does not serve everybody. It starts over with `stream_in` after every task, so
  that StreamIns that keep coming keep every `run` and `stream_out` task waiting, and
  processes and signals do the same to archives; "picked up by the daemon" (`README.md:162`
  of the repository) is meant under that reservation. Nothing else makes a task wait for
  ever, but for a rename that fails again and again: no number of tasks in its own folder,
  which are served in order, nor in the folders below (`ServedUnlessOvertaken`).
* However late a stale copy of the tags is written back, it never restores what was there
  before an acknowledged change that it does not overlap, and no reader sees that again
  (`AckedWriteSticks`, `ReadsAreCurrent`). The same holds for the group itself
  (`AckedGroupSticks`) and for what Lookup and Containers find (`SearchesAreCurrent`).
* A mount or a directory that outlives its RPC is due to a failed mount, umount or rmdir or
  to the end of the process, and to nothing else (`LeaksAreFailures`): the deferred calls
  come in the right order, so that no handler's umount finds its own file open. A failed
  mount leaves its directory, because nothing is deferred before Open has succeeded.
* What was acknowledged is on the share and stays there, unless the share was mounted
  while its creation could still be undone, a failed write-back or a missing file to
  extract went unreported, or a StreamIn was ended before it had named path and user
  (`AckedWorkStays`).
* A stop lets every accepted RPC return (`StopCutsNothing`). Unless Serve fails or the
  process crashes, consul leads to a serving process only (`RegisteredIsServed`): its
  registration starts after the server is ready and is stopped before it. A signal ends
  the process unless a client or a process holds an RPC (`SignalEnds`): a Wait for a
  process that runs on does hold it, and so does a client that opens a StreamIn and sends
  nothing, which is why the formula has that exception.

Four runs show that the code does not do what a comment or document says of it. StreamIn
does not "wait for the exit" before it answers; WaitForTaskExit returns without an error
when its minute is over and StreamOut then sends the part of the archive that is there; Wait fails when it reads
an exit file between its creation and its writing; two SetProperty calls of different
properties that overlap lose one of the two values, though both are answered without an
error. Each is a finding in `PROJECT.json` with the line it contradicts.

### Bounds

* `MaxTries` (2 where the daemon can execute again): executions of a task, one more than
  the renames that may fail. The second execution meets everything the first left: the
  exit file, the later tasks of its RPC and of others. A third would meet the same.
* `MaxPolls` = 2 or 3 stands for the 31 polls of WaitForTaskExit. Between two polls anything
  may happen or nothing, so two cover: found at once, found after waiting, expired at any
  progress of the tar.
* `stream_replies` has no failing `container`: that the container stops is one behaviour of a
  daemon and of shells that take no step, which a safety check covers without the fault.
* `BindMounts` = 2 where Create breaks off, so that there is a task before, within and
  after the copy of the second folder, and a StreamIn can publish its three tasks before,
  between and after those of the two folders.
* `daemon_rounds` has three names of tasks, which come back for new tasks when they are free:
  the task in question, one before or behind it, and one that keeps coming elsewhere.
* Which RPCs run together: each run has the kinds that its properties relate. One RPC of
  a kind is enough: two of one kind meet in one folder as the StreamIn and the Create of
  `dispatch_breaks_off`, or the Run and the Signal of `run_wait_signal`, do. The theorems have
  no such bound.
* `container_group` has three calls, each with any of the requests of `MCContainerGroup`: one
  that made the change, one that may disturb it, one that looks. Two keys, because an
  update disturbs the other key; one value besides the empty one, because values are only
  compared. Keys and calls are symmetric; the run checks safety only.
* `server_and_mounts` has two calls and every fault: two creations of one share can
  overlap, one of them can be undone under the other, and a restart may come between
  them. They are the two kinds that keep a file open, so that all the deferred calls
  occur; for a StreamOut nothing is lost by a missing write-back, and it alone goes on
  after a failed Open. A Create, Run, Signal or Wait takes a subset of these steps, and the
  theorems cover all kinds. No symmetry, since the run checks liveness. Restarts need no
  bound: the state is finite.

## 5. What is proved

`TaskSpoolProofs` proves for every set of RPCs of any kinds, every number of bind mounts,
every bound on executions and every choice of faults (`SwapRootAssumption`: the constants
have their types, a Signal has a Run as its target, one Create at most):

* `Invariance`: `IInv` is an invariant of `Spec`.
* From it: `TypeCorrect`, `ScriptsAreWhole`, `TasksInOrder`, `FoldersAreFifo`,
  `StreamsExcludeEachOther`, `FilesBeforeProcesses`, `ExecutedAtMostOnce`.
* With a second invariant about exit files, relative to the first: `ExitFilesAreFinal`,
  `StreamTasksLeaveExits`.
* `ArchivesAreComplete`, with the invariant `SeenInv`: what the daemon has executed, once it
  is past the listing of `stream_in`, was published before that listing. The tar of a
  StreamOut begins after its mkdir was executed, so that listing shows all that was
  streamed in before the mkdir was published, and it was empty.
* The action property `PublicationIsForGood`, and `SpoolImplementsPipeline`: every
  behaviour of `Spec` is one of `TaskPipeline` under the refinement mapping.

The argument. None of the properties is inductive. That tasks take effect in order
(`InOrder`) holds because an earlier task has a smaller change time (`ClockInv`, which
needs that a handler publishes exactly the next task of its list, `PlanInv`), because the
script in the daemon's hand stays the oldest of its folder until it is renamed
(`HandInv`: whatever is published meanwhile is younger), and because a stream script that
is alive is the one the daemon waits for (`ExecInv`). `Fifo` is inductive only together
with these. `StreamInFirst` needs `BarrierInv`: once `stream_in` has been listed empty,
what was published until then is executed, and what is published later has a change time
beyond `scanned`. `WholeInv` follows a handler through `scheduleTask`;
what it says of env file and payload it says where the code makes sure of them
(`EnvCertain`, `PayloadCertain`). `TypeOK` is part of
the induction, and not a formality: that the daemon never exceeds the bound on executions
is `ExecInv`.

`mv_fails` also checks `IInv` as an invariant.

`ContainerRpcProofs` carries `IInv` and the invariants about exit files over to `RpcSpec`,
whose other actions leave the variables of `TaskSpool` alone, and proves from
`RpcInvariance`: `AnswersAreTyped`, `AcknowledgedIsDispatched`, `WaitReportsRealExits`,
`KillsAreAimed`, `TruncationMeansExpiry`, and the action property `HandlersTerminate`: the
variant `Distance` counts the steps and polls that are left to a handler. `RpcImplementsSpool`
says that `RpcSpec` implements `Spec`, so that what is proved of the spool holds of the
handlers with their returns, the refinement of `TaskPipeline` included. What the answers say rests on how far a handler
has come (`DoneInv`) and on pid files that are written only after a command has started
(`PidInv`).

`ContainerContractProofs` proves `KeepsContract`: every behaviour of `RpcSpec` is one of
`ContainerContract`, for any RPCs, bounds and faults other than `mv`. The mapping reads the
standing of an item off the files and the shells (`Standing`), and takes a StreamOut with no
polls left for one that waits no longer. The proof has a lemma for each group of actions
(handlers, `Exec`, scripts, rounds, answers, polls, archives, waits) that says which
abstract step it is; the guards of the abstract steps come from `InOrder` in the next
state, from `ExitFileFinal` and from `DoneInv`. The assumption `"mv" \notin Faults` is what the
code needs too: after a failed `mv` a task that is over begins again.

`ContainerGroupProofs` proves for every set of calls, keys, values and requests that `Inv`
is an invariant (`GroupInvariance`), hence `GroupTypes`, `ChangesStick`, `GroupsStick`,
`ReadersAreCurrent` and `SearchersAreCurrent`. `HistInv` relates the step of a handler to its
request and its answer, and says that a call in `prior` has ended with nothing in flight.
`WordInv` is
`AckedWriteSticks` together with what makes it inductive: the copy in the hand of an update
that is at work, or in flight, holds of each property what the undisputed change or a later
writer has made of it, because an update that begins after the change has read it.
`GroupInv` is `AckedGroupSticks` for the calls that can act, and `MountsInv` what a Create
that has made its group, but not answered yet, may rely on. `OldWord` and `OldRead` show that
no step makes an old change undisputed and that what was said since only grows;
`CameLater` that whoever takes effect on an undisputed change came after it; `EffectOnKey`
that it leaves a key what it has written, what it has read, or what was there.

`GrpcServerProofs` proves for every set of calls of any kinds and every choice of faults that
its `Inv` is one (`ServerInvariance`), hence `ServerTypes`, `LeaksNeedFailures`,
`AcknowledgedWorkStays`, `StopsAreGraceful` and `RegistrationIsServed`. `MountInv` says what a
handler holds at each step, `SettledInv` that a handler which mounted a settled share keeps
it (no deletion can come any more, since nobody creates a share that exists), `StoredInv`
that its work is then on it, and `ProcessInv` relates the acceptor, the status and the
handlers at work.

Only model-checked: that the spool goes the rounds of `DaemonRounds` (`ImplementsRounds`), and
liveness (`ServedUnlessOvertaken`, `AckedTakesEffect`, `EveryRpcAnswered`, `WaitEnds`,
`SignalEnds`), which is beyond the prover: under fairness `HandlersTerminate`
is the variant that liveness of the handlers rests on, but that they take their steps is
a matter of fairness and of ENABLED.

## 6. What is not modelled

* The share that Destroy leaves behind, and a second Create over it: `TaskSpool` starts from
  an empty share. Which scripts a new daemon finds there depends on when the old one
  ended, and bash reads the entry script that the second Prepare rewrites in place.
* The messages of a StreamIn and the chunks of a StreamOut one by one, and exit codes
  other than that a tar has failed.
* Two renames within one tick of the file server's clock: its resolution is not in the
  source.
* I/O errors inside the container, other than a failed `mv`: a shell that cannot read its
  script or its env file, or cannot write its pid or exit file.
* Whether a `tar` that runs before a StreamIn has closed its file reads all of it, and which
  bytes a failed write-back loses: that depends on the cache mode of the mount.
* Pids that the container's kernel uses again before a Signal arrives.
* The quoting of arguments and environment variables (`getProcessedArgs`,
  `getProcessedEnvs`): a property of strings, without states.
* A signal before the server is ready, and errors of `NewACIClient`, which fails only on a
  bad configuration.
* Left out for good: the configuration (read once), `helpers/sets.go`, `fsync.WriteToFile`,
  `scheduleAndWait` and `mounterwindows.go` (no callers or stubs), RPCs that only return an
  error or a constant, and the scripts for trying the daemon by hand.

## 7. Running it

    tlc -workers 2 -config TaskSpoolMvFails.cfg MCTaskSpool
    tlc -workers 2 -config DaemonRounds.cfg MCDaemonRounds
    tlc -workers 2 -config RpcLive.cfg MCContainerRpc
    tlc -workers 2 -config GroupCalls.cfg MCContainerGroup
    tlc -workers 2 -config Server.cfg MCGrpcServer
    tlapm TaskSpoolProofs.tla
    tlapm ContainerContractProofs.tla

`PROJECT.json` names the module and configuration of every run, the code each definition
stands for, and for every property a faulty variant of a definition (they stand in the
modules just before what they replace, marked "Faulty") under which it is violated. In
configurations with the fault `container` or `write_back`, and in those of `ContainerGroup`,
deadlock is not checked: there the system does come to rest. Elsewhere the daemon polls for ever, or the
process is started again.
