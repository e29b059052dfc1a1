# Pyash: a verification of its GPU and work lanes

Pyash is an interpreter and compiler for a human language, with agents built around it.
The part of it that is concurrent, and where mistakes are costly and hard to test,
is the part that shares machines: *lanes* of duties and tasks that several processes claim through
directories and renames, *leases* that say who may use a device, a *Housekeeper* service
that admits jobs to GPUs, and a *supervisor* that carries a task through turns of agents it
cannot repeat.  This directory holds TLA+ models of those parts, the TLC
configurations that check them, and proofs that TLAPS checks.

    tlc -workers 2 -config MCGpuLane_rivals.cfg MCGpuLane      one run
    tlapm GpuLaneProof.tla                                     one module of proofs

`PROJECT.json` lists the runs, what each definition stands for (source file and lines), the
hazards the properties are for, a mutant of the code that breaks each checked property, and
the theorems.  Mutated definitions stand in the modules beside the definition they change, under
a comment that begins with "Mutant"; no specification uses them.

## The system

| Component | State | Operations | What makes it hard | What makes it correct |
|---|---|---|---|---|
| GPU lease (`program/runtime/gpu/lease.mjs`) | one file per GPU or handle: owner, handle, time of last heartbeat | acquire (two attempts), heartbeat, release | no lock: exclusive create, write, read and unlink are separate calls; crashes; stale leases are taken over | one holder; a lease does not outlive its holder for ever |
| GPU duty lane (`program/runtime/gpu/{queue,worker,handle_status,readiness}.mjs`, `program/verbs/gpu.mjs`, `command/gpu_worker.mjs`) | an envelope per duty in `input/`, `runtime/`, `produce/success` or `produce/fail`; a status file per handle; a dispatch lease per handle | start, await; claim, recheck, requeue, run, poll, acknowledge; collect stale claims | several worker processes whose slots may bear the same tag; status files rewritten in place; collector against worker; lost answers; crashes | a duty is dispatched at most once, after its dependencies; success is never made up; every envelope is settled, once; an await is answered |
| Holding spool (`program/library/spool.mjs`) | files in directories | claim and settle by rename | check-then-rename of a free name | no item lost or in two places |
| Device gate (`container/gpu-housekeeper/service/server.py`, `DeviceExecutionGate`) | exclusive flag, number of sharers, VRAM they declared | acquire (waits), try_acquire_exclusive, release | a condition variable with a predicate over outside telemetry; one-shot requests between jobs | an exclusive user is alone; sharers fit; nobody sleeps for ever |
| Capacity and runtimes (same file, `command/strata_prepare_gpu.py`) | profiles recorded as loaded, activity of the runtimes, VRAM telemetry | plan, discharge, recheck, wait, prepare; Ollama's residency guard and watchdog | the plan is about VRAM that other processes allocate and free; records of what is loaded lag behind; a preparation is used after the gate is given back | no job starts on VRAM that is not there; no running job loses its model; every job gets an answer |
| Federation (same file) | job registry, proxy records of forwarded jobs, submission lock | submit, forward, refresh | lost answers, restarts, two hosts that call one another under a lock | a job runs on one host, once; a record shows success only of a job that succeeded, and ends |
| Work lane (`program/runtime/work/`) | a status file and an envelope per task, the checkpoint in both, a checkout | claim, run turns, capture, review, settle; reconcile, recover; the operator's block, resume, fail | two files renamed one after the other; crashes with a turn begun; stored results used by later wakes; a checkout others commit to; counters that make up a turn's identity | a turn is paid for once and its result used once; a task is in one place and can be claimed; accepted means reviewed; a wake ends |
| Android lane (`program/agent/android*`) | the same spool and lease over one phone | claim, run with lease, recover | as the GPU lease, with a device that acts in the world | one actor at a time on the phone |
| Channel lane (`program/agent/channel_core`, `channels`) | events in, drafts and replies out | receive, claim, resume, reply | retries against mail and chat servers | an event is answered once |
| Language core (`program/{understand,bridge,remember}`) | memory scopes, module registry | parse, interpret, refine, sandpit | one sequential program | scopes do not leak; a sandpit changes nothing outside |
| Compilers, translators, reporter, other verbs, containers, web, vendored code | none shared | text in, text out | – | – |

How they interact: a client of the lane (`vyah gpu start`) puts an envelope in the queue and
awaits a handle status.  A worker process runs several slots; each slot claims an envelope by
renaming it, takes the dispatch lease of the handle (which is what keeps the collector, and other
workers, away), submits a job to the Housekeeper over HTTP and polls it.  The Housekeeper starts a
thread per job, which goes through the gate of its device and then asks for capacity.  The collector
runs in each worker process before it claims.  The status files are the only thing clients and
dependents read.  The work lane is a system of its own: a scheduler wakes the supervisor, which claims a task, opens
threads with agents and writes every step of the task to disk before it takes the next; between wakes a reconciler, a
recovery scan and the operator's commands rewrite the task.

## Modules

| Module | Models | Kind |
|---|---|---|
| `GpuLease` | the lease file, one system call per action | component |
| `ExclusiveLock` | a lock: free, taken, given back | abstract specification of `GpuLease` |
| `GpuLane` | clients, slots, collectors, status and lease files of the duty lane | component; composes the lease, in fewer steps, and the spool |
| `DutyLife` | a duty queued, claimed, sent at most once, settled and answered for | abstract specification of `GpuLane` |
| `DeviceGate` | the gate, the job threads and the one-shot requests | component |
| `DeviceSharing` | shared or exclusive admission | abstract specification of `DeviceGate` and of `DeviceCapacity` |
| `Federation` | submissions, forwarding, proxy records and their refresh, restarts, on hosts that are one another's peers | component |
| `AtMostOnce` | a call that takes effect at most once | abstract specification of `Federation` |
| `DeviceCapacity` | jobs and preparations that plan, discharge, wait and load on one GPU | component; composes the gate, in fewer steps, with the runtimes |
| `WorkSupervisor` | a task on disk, the wakes that carry it, reconciliation, recovery, commands, crashes | component |
| `TurnLedger` | agent turns: one open, its result used once, never begun again | abstract specification of `WorkSupervisor` |
| `MCGpuLease`, `MCGpuLane`, `MCDeviceGate`, `MCFederation`, `MCDeviceCapacity`, `MCWorkSupervisor` | model values, owner names, dependencies, VRAM, models, peers | instances for TLC |
| `GpuLeaseProof`, `GpuLaneProof`, `DeviceGateProof`, `FederationProof`, `DeviceCapacityProof`, `WorkSupervisorProof`, `WorkPlacesProof` | theorems | proofs |
| `SetSums` | lemmas about sums over finite sets | proofs |

### GpuLease

`file` is `Absent`, `Empty` or a lease (owner, handle, whether it has outlived its TTL).  An action is
one file system call with the code up to the next: `Create` and `CreateFails` are `open(path, "wx")`,
`WriteLease` the write through that descriptor, `Examine` the read of the lease in the way and the
decision about it, `RemoveStale` the `rm`; `HeartbeatRead`, `HeartbeatTruncate`, `HeartbeatWrite` and
`ReleaseRead`, `ReleaseRemove` are the calls of the other two operations.  `writers` are the processes
whose open descriptor is the file now in place: a write through a descriptor of an unlinked file
reaches nobody.  `Expire` is the passing of the TTL, and `Prompt` says that a process which is using the
lease heartbeats before that (the worker's default heartbeat is 250 ms between polls, the TTL 300 s).  `Swift` says that a
take-over is not overtaken: between a contender's finding that a lease is stale (`Examine`) and its removal of the file (`RemoveStale`)
nobody makes a new lease.  The code has nothing that makes sure of either; they are assumptions about timing, and the exclusion of holders needs both.
`Request` lets no two processes ask on behalf of one handle, since the envelope's claim is exclusive; owner
names may well be shared, since the first slot of every worker process is called `gpu-worker-slot-0`.

Abstracted: the lease text is written whole by one call (it is shorter than a block); a heartbeat that finds
no lease of its own is a stutter, since the worker ignores what it returns; the clock.

### GpuLane

`place[d]` is the directory of an envelope, or the tag in the name of its claim: `runtime/<id>--<tag>.json`
is the path that requeue, acknowledge and collector rename, so a process with the same tag moves the same
path.  `status[d]` is what the handle status file says, `torn` between truncation and write; `lease[d]` the
dispatch lease.  `pc`, `duty`, `scan`, `job` are the local state of a slot, `gc`, `todo`, `cand` that of a
collector, `client` that of the client.  `submits` and `succeeded` are the truth about the remote side that
the properties are stated against.

An action goes from one access of a shared file to the next, and the order of the accesses is the code's: a
claim previews dependencies, renames, reads and rechecks (`Preview`, `Claim`, `Recheck`, `PutBack`); a run
writes `queued`, takes the lease, writes `running`, submits, polls with heartbeats, writes the terminal
status, acknowledges, and releases in the `finally`; what throws goes to `Catch`, and what throws there ends the
run.  A status write without an agent name (the worker's terminal ones) fails its assertion when it reads a torn file;
others do not.  The collector lists old claims, skips the ones with a fresh lease, reads the status, and
moves or fails them.

Abstracted on the side of more behaviours: `acquireGpuLease` may retry without its bound of two
attempts; the await's timeout is a repeated await; the collector is a process of its own, because it races the slots of other processes
only.  Abstracted on the side of fewer: the lane's lease is compared and, if stale, removed in one step (`GpuLease` has the steps, and what
comes of them); a status write reads and truncates in one step; a directory listing is atomic, though a claim that vanishes under it
aborts the collection as in `Quit`.  What happens only between those calls the lane's runs and theorems do not show.
`retryMax` of a duty's envelope is zero: no caller of the GPU lane passes another.  One envelope per handle is an assumption: the verb
makes a handle name up only where the user gives none (`verbs/gpu.mjs:62-64`), so a user who starts two duties under one name is outside the
model.  Not modelled: produce-phase envelopes, forced stop, migration of
old status files, and the verb's commands that only read.

### DeviceGate

The gate is a Python monitor: what happens under its lock is one action.  `Acquire` and `Sleep` are the two
outcomes of evaluating the wait condition, `Release` gives back and wakes all (`notify_all`).  The telemetry
the predicate reads is arbitrary at every evaluation, including "not available", which admits no further
sharer.  A job's thread is `Start`, `Acquire`/`Sleep`, `MarkRunning`, `Finish`, `Unlist`, `Release`: the code's
critical sections in their order.  `TryAcquire` is the capacity preparation or the Strata restart: busy is an
answer.  `Inside(u)` is the reference for what it means to have the device.

Abstracted: one device (there is a gate per device); the work done inside, but for the published status;
each job and each request happens once, so that exclusive jobs are not starved by endless sharers – the
condition variable promises no order, and the model does not claim one; a restart of the service.

### Federation

A submission is served by a thread of the HTTP server; `<<r, "entry">>` is the one that serves the client of
request `r`, `<<r, "hop">>` the one that serves the host that forwards.  There is no third: `select_route` asks no
peers for a request that has been forwarded (`forwardDepth`), so `Forward` is for the entry side only.  `pc` says where
a thread is: it waits for `_SUBMISSION_LOCK`, chooses a route, waits for the peer, has registered the job, or has
answered.  The lock is held exactly while a thread is `routing` or `forwarding`, so `Locked` derives it.

`shown[h][r]` is the status of the job in the registry `_JOBS` of `h` ("none" if there is no record), `proxied` and
`failures` are `forwarded` and `peerFailureCount` of the record at the entry.  `work[h][r]` is the thread that executes the
job, the truth the properties are stated against; `killed` is a thread that went with its host.

`Reject` is what comes before the lock: validation, and `GPU_HOUSEKEEPER_ACCEPT_FORWARDED`.  `ForwardAccepted` and `ForwardFails`
are the two ends of `forward_job_to_peer`; the second is always possible while the call is open, which covers the timeout, a
lost answer and a refusal (an HTTP error), and it leaves the hop thread as it is.  `Drop` loses the request itself.  `Ask`,
`Hear`, `Mirror` or `CountFailure` are the parts of `refresh_forwarded_job`, which takes `_LOCK` twice and asks the peer in
between.  `PeerSays` is `GET /job/<id>` at the peer when it answers: an unknown job is a 404, which `peer_request_json`
raises as an error.  `Restart` ends every thread of a host and empties its registry; a crash and the return are one step, and
the time between is covered by calls that fail.

Abstracted: the choice among the candidates – availability, scores, snapshots that may be old – is any of the outcomes of
`select_route`; the calls to peers it makes to probe them change nothing and end by their timeout; the device gate decides
when a job begins (`DeviceGate`); each poller asks about one job.

### DeviceCapacity

`free` is what telemetry would measure, `resident[r]` the model a runtime really holds; `loaded` is what `_PROFILES` says, which
is another matter: it is written when a job enters (not Ollama's), when Ollama is looked at, and when a runtime is discharged.
`quiet` has the runtimes whose idle grace has passed, `outside` the ones that serve a client who did not come through the
Housekeeper.  `Public` are the runtimes that have such clients, the ones `observe_runtime_activity` probes for: Ollama by its access log,
ComfyUI by its queue, Strata by its requests in flight.  A user (a job or a preparation) is at `pc`; `offer` are the candidates it may still unload, `basis` why it was
admitted (it declared nothing, its profile was warm, the VRAM was measured; or it was measured and has been overtaken since), and `short` is set, to that reason, when its model
finds no room.

`Enter` and `TryEnter` are the two ways through the gate.  The disjuncts of `Plan` are the decisions of `capacity_plan_for_job`
together with what `ensure_capacity_for_job` and the loop of `execute_job` make of them: `PlanAdmits`, `PlanReclaims`, `PlanDenies`
(a wait, if the refusal is one that `capacity_waitable_error` names and the deadline has not passed), `PlanFails` (no telemetry, a
device that is too small, no leave to unload).  `Discharge` is one candidate's unloading with its probe, `Recheck` the second plan,
which may not unload, `Exhausted` the end of the candidates.  `Load` and `LoadShort` are what the runtime does with the model, and
the guard's restart of Ollama.  A preparation ends with `Grant`, which gives the gate back; `StrataLoads` and `StrataStays` are the
helper's `execvp` and what comes of it.  `Expire` is Ollama's `keep_alive`, `Snapshot` a reader that synchronises the records.
`OutsideBegins`, `OutsideLoads` and `OutsideEnds` are a direct client, who at any time uses the model that is there or has another one loaded,
in the place of one that serves nobody, without gate or declaration.  A Strata reload after a change of its context is such a load: the restart
leaves the model out until the next request (`server.py:3262`).  `Overtaken` records of a job that is about to load that less is free than it
measured, because of such a client or of a prepared Strata server.

Abstracted: one device, and a gate that is its holder, since no runtime of the default registry is `concurrencySafe` (`DeviceGate` has
the ones that are); one model per runtime; a declaration covers the model it is for; telemetry and probes may fail at any plan;
the idle grace passes at any time after the use ends; a direct client's request waits while a job runs on its runtime, and one client
stands for all of a runtime's; candidates are tried in any order; a `keep_alive` of zero is `Finish` and then
`Expire`; a job that fails under the guard is `JobFails` and then `Expire`.  `Discharge` probes and unloads in one step, which hides a
direct client whose request begins between the two (`server.py:2911`): what happens to that client is not in the model.  Hugging Face has no activity probe, so it is never a
candidate.  KataGo keeps nothing in VRAM between jobs.  The retries of the Strata helper are further preparations.

### WorkSupervisor

`disk` is the task in its status file, with the part of the checkpoint that decides anything: plan, counters, the last review, the
active turn with its stored result, and the history of turns.  `env[p]` is the task that the envelope in directory `p` carries, which may be
older than the one on `disk`.  `mem` is the wake's copy.  Both files are replaced by rename, and the model has the three orders of the code:
queueing writes the status file (`Init`) and then the envelope (`EnqueueEnvelope`; `enqueue` says how far it came); a wake writes the status
file and, in its next step (`WriteEnvelope`, owed while `due`), the envelope; a command writes the envelope and then the status file (`pend`,
`Rewritten`), and a task that is failed by its operator is moved to `fail/` after that, by a search of its own (`Withdraw`).  A crash may come
between any two of them (`EnqueueCrash`, `Crash`, `CommandCrash`), and anywhere else.

A wake is `Claim`, `Load`, `Prepare`, then the loop.  `Wants` is the condition of each of its turns.  `BeginTurn` saves the turn as
started before the agent is asked; `Answer` and `TurnFails` are its outcomes; `Capture…` consumes the result.  `ReuseResult` takes a
completed result of the same identity, and `RefuseTurn` blocks a task whose turn is in doubt.  `Identity` is `requestIdentity`: phase,
`revisionCount`, `resumeCount` and pass.  `CaptureFails` is an error between the stored result and its capture: the result does not parse, or
no evidence can be collected.  The decisions are `ToReview`, `Accept`, `Block`, `Replan`, `Revise`, `Continue` and so on; `AckSuccess` moves the envelope,
and `AckFail` rewrites both files from what the *envelope* says, then moves it.  Between wakes `ReconcileCompleted`, `ReconcileStale` and `ReconcileKeeps` are the cases of turn
reconciliation, `Recover` that of operational recovery, and `Resume`, `HumanBlock`, `HumanFail` the operator's commands.  `tree` is the version of
the shared checkout: a turn of implementation may change it, whether it is answered, fails or dies with its wake (`Worked`), and somebody else
may (`Edit`) – a reviewer who writes where it should only look is somebody else.  `seen` is the truth about a review, the
version the reviewer looked at; `evidence` is what the record says.

Abstracted: one task; the integration branch is off; REPLAN without a work order is BLOCK, and REVISE carries a
correction, as the parsers demand; every change of the checkout is a commit, and a pass is material when there was one; the bound of
twelve passes to convergence is out of range; the follow-up of SPLIT is another task; the rewrite of `AckFail` and its move are one step.
`retryMax` is zero; the curator and the repair of blockers queue tasks with 1 (`curator.mjs:298`, `blocker_repair.mjs:230`), whose one
retry, back to `input/` as ready, is not modelled.

**No command overlaps a wake**: `Overlap` is FALSE in every run and a hypothesis of every theorem of this module.  The code does *not*
guarantee it: `mutateTask` (`operator.mjs:33-42`) takes neither a lock nor the lease of the workspace, and writes the two files a wake
writes.  With `Overlap` TRUE the properties do not hold, as TLC finds (below); what is shown here is about an operator who lets a wake end
before he commands.

`RunnableIsClaimable` has two exceptions, because the code does make such tasks: one whose queueing was killed between its two writes
(`queue.mjs:254` and `:263`) is ready, has no envelope, and is given none by reconciliation or recovery; and one that an operator has rewritten may, if his
command dies between its renames, look runnable with an envelope that cannot be claimed.  The ledger and `ResultKept` end when a task fails: a foreground
wake that finds the status file failed has `ackWorkTaskFail` write the task of the envelope over it, an older one if a crash came between the
two files.

Not modelled: the choice of task, approvals, revalidation of policy, repair of blockers, curation, the lease of the workspace (whose take-over from
a dead owner, `workspace.mjs:95`, has the steps of the GPU lease); of the operator's commands, archiving, resumption on external evidence,
reconciliation of split parents, delegation events, and whatever else calls `mutateWorkTask`.

## Runs

| Run | Instance | Shows |
|---|---|---|
| `lease_exclusion` | 3 processes, 2 of them with one owner name, 3 handles, 2 crashes, expiry and take-overs, prompt and swift | types, one holder, implements `ExclusiveLock` |
| `lease_recovery` | 2 processes, 1 crash, neither prompt nor swift, fairness | a written lease comes free, unless a crash tears it |
| `lane_rivals` | 1 duty, 2 slots with one tag, 1 collector, 2 crashes, slow heartbeats, fairness | types, submitted once, success honest, settled for good, settled in the end |
| `lane_slots` | 2 duties, one after the other, 2 slots, 1 collector | dependencies come first, implements `DutyLife` |
| `lane_await` | 1 duty, 1 slot, no crash, no collector, fairness | *violated*: an await that is never answered |
| `gate` | 3 sharers of which not all fit, 2 exclusive jobs, 1 one-shot request, fairness | types, exclusion, books, VRAM fits, published jobs are inside, a sleeper has somebody to wake it, implements `DeviceSharing`, every job ends |
| `federation_cross` | 2 hosts, each the other's peer, a client at each, 2 status requests for one job at a time, failure limit 2, 2 restarts, fairness | types, one host, success honest, implements `AtMostOnce`, submissions are answered, proxy records end |
| `work` | 1 task, 3 background wakes, 2 troubles (crash, failing turn or capture, command, edit), no command during a wake; reviews accept, ask for a revision or escalate, escalations replan or block, convergence reviews continue or block; fairness | types, what is runnable can be claimed, settled places agree, implements `TurnLedger`, results are kept, without an edit accepted is on what was seen, wakes end |
| `work_accept` | 1 task, 2 wakes, 1 trouble, reviews that accept | *violated*: a task accepted on a checkout no reviewer saw |
| `work_replan` | 1 task, 1 foreground wake, no trouble, fairness | *violated*: a replacement work order that is never implemented |
| `capacity` | 3 jobs of two runtimes, 1 preparation, direct clients of Strata, 4 units of VRAM, fairness | types, a running job keeps its model, measured VRAM is there unless overtaken without the gate, implements `DeviceSharing`, every job ends |
| `capacity_warm` | 3 jobs, no preparation, no direct client | *violated*: a job admitted to VRAM that is not there |

Why these bounds.  The lease protocol is symmetric, and each hazard in it is one process overtaking another
between two calls; a third process shows that two that disagree do not let in another.  In the lane the
actors that can meet over one envelope are its client, the slot that has it, another slot with the same
tag and a collector; two crashes let a claim be abandoned, taken by the collector, and abandoned again.
The second duty is there for dependencies, and for steps of one duty's life between those of another.  In the gate three sharers are the least for which the VRAM
reserved by two matters to the third.  In the federation two hosts that forward to one another are the circle, a
job never goes further than one hop, two status requests are what it takes for one to overtake the other, and with two restarts
both hosts of a job may lose it, or one of them twice.  On the device of `capacity` one model takes all the VRAM, so that the others have
to go first, one by one; one job declares nothing, one may not unload others, and preparation and direct clients load Strata's model beside them.  The
same properties pass with direct clients of all three runtimes for two jobs and a preparation (230 024 states), with those of Strata and Ollama
(225 808) or Strata and ComfyUI (118 774) for two jobs of one runtime, and with four jobs of three runtimes and Strata's
(599 580).  In `work` three
wakes are what it takes to leave a turn behind, to use its result and to want another turn after that; two troubles let a wake and the
recovery from it both go wrong; one revision, recovery and convergence review each let every counter pass its bound (the run has about
1 327 000 states).  The properties hold, too, with both kinds of wake and every verdict in 2 wakes and 2 troubles (418 524 states), and with both kinds and
reviews that accept in 3 wakes and 2 troubles (110 657).  Beyond these the theorems take over.

Deadlock is checked for the lease, whose processes can always go on.  It is off for the others, which rest when every duty
or task is settled, every job has ended and every record that is asked for is terminal; there
`EnvelopesSettle`, `JobsEnd`, `SubmissionsAnswered`, `RecordsSettle` and `WakeEnds` say that nothing else makes them rest.

## Fairness

Lease: a call that has begun goes on to its end (weak fairness of the acquisition and of the open halves of
heartbeat and release); the work under a lease ends, since polls are bounded (strong fairness of
`ReleaseRead`, which heartbeats interrupt again and again); a crashed process is restarted by its service
manager; time passes.  `BusySpec` adds that workers keep asking, which is needed because only a
contender removes a stale lease.

Lane: the worker command loops over batches, each with its collection and its claims
(`command/gpu_worker.mjs`); polls are bounded, so `PollEnds` is strongly fair.  Nothing obliges a client to start a
duty, a remote job to succeed, or a process to crash.  `EnvelopesSettle` is about duties whose dependencies stay
satisfied: a duty whose dependency failed waits for ever, by design.

Gate: threads run, and work inside ends because every request to a runtime and every wait for capacity has
a timeout.  `Visit` requests are not obliged to come.

Federation: threads run; a call to a peer ends, by its timeout if not before (`ForwardEnds`, `Hear`); a job ends; and a job that
has not ended is asked after again (`Ask`), as the worker of the lane does until it has a terminal status.  A thread that waits for
the submission lock gets it because submissions are finitely many.  Nothing obliges a client to submit, a peer to answer, a
request to be rejected, or a host to restart.

Capacity: threads run, for every request to a runtime has a timeout; and the deadline of a wait comes (1800 s by default).  That runtimes
become idle, that telemetry works, or that other clients go away is not assumed.  `JobsEnd` needs the deadline: a job that waits
for Ollama to become idle holds the gate that Ollama's queued jobs wait for, and `Active` counts those.

Work: a wake that is not killed takes its next step, and a turn ends, by its timeout at the latest (`WF` of `Wake`).  Nothing obliges
the scheduler to wake, or anybody to reconcile, recover or resume.  `WakeEnds` leaves out what comes after REPLAN, of which
`work_replan` shows that it does not end.

## What the violation runs show

- **Await without answer** (`lane_await`; `gpu.mjs:359`).  `start` enqueues before it records `queued`; a worker
  that is quick finishes in between, and its terminal status is overwritten.
- **Accepted unseen** (`work_accept`; `supervisor.mjs:990`).  The checkout changes while a reviewer looks.  The review is refused, but its
  result stays stored; reconciliation sends the task back to reviewing, and the next wake, which collects its evidence afresh, uses the
  stored verdict with it.
- **REPLAN that changes nothing** (`work_replan`; `supervisor.mjs:1675`).  The pass counter goes back to zero and with it the identity of the
  implementation turn, which has been captured.  No turn is run with the new work order; the captured reviews say REPLAN again; the wake
  goes round.
- **Warm by declaration** (`capacity_warm`; `server.py:5060`).  A job that is not Ollama's is recorded as loaded when it enters, and its plan
  takes that for a warm model.  Here Ollama's big model fills the device; the ComfyUI job is admitted, and its load fails, where
  discharging an idle Ollama would have made room.

Other instances of the modules show more, which the theorems take into account by their assumptions or their wording:

- a stale lease is taken over twice (`lease.mjs:161`): two contenders read it, one removes it and creates its own, the other
  removes that one – without `Swift` a crash is enough to violate `MutualExclusion`; without `Prompt` a holder whose heartbeat is late goes on
  beside the one that took over, and may overwrite or remove its lease (`lease.mjs:186`, `:204`);
- a process that dies between create and write leaves an empty lease file that is never stale (`lease.mjs:133`);
  `LeaseComesFree` excludes it;
- a collector takes a claim that has just been made, since the age is that of the envelope's file (`worker.mjs:136`), and writes `fail` over
  a success recorded since it read the status (`worker.mjs:162`);
- of two overlapping status requests for a forwarded job the older answer may be written last, and a record that showed a
  terminal status shows `running` until it is asked again (`server.py:1996`);
- past the bound on revisions the identity of the review does not change, so a later wake implements the correction and decides on the
  verdict of before (`supervisor.mjs:1681`);
- a granted preparation holds nothing (`server.py:3092`), and a direct client asks for nothing: with either, a job admitted on a measurement may
  find at its load that the VRAM has been taken in between, which is the exception in `MeasuredFits` ("overtaken");
- a command during a wake (`queue.mjs:444`, with `Overlap` TRUE): the operator fails the task, moves its envelope to `fail/`, and the wake writes a second
  one in `runtime/` – `SettledAgrees`, in 8 states; a reconciliation that read the task during its turn writes it back over the status the wake has
  given it since, and what looks runnable cannot be claimed – `RunnableIsClaimable`, in 14; and a command that read a task before it was accepted
  takes the acceptance back, the check of `operator.mjs:358` notwithstanding.

They do not contradict the theorems: even so a duty is never dispatched twice, and no success is made up, in the lane or in the federation;
no running job loses its model, and, where no command overlaps a wake, no turn is run twice.

## Proofs

All theorems hold for any sets of processes, duties, jobs, any tags, dependencies, models and VRAM, any verdicts and limits, under
the assumptions named in the modules.

**GpuLeaseProof.**  `LeaseTypes`: the types.  `LeaseExclusion` and `LeaseImplementsLock` assume `Prompt` and `Swift`, and nothing about crashes:
with any number of them, restarts, expired leases and take-overs, one process believes it holds the lease, and every step of the file protocol is
one of an exclusive lock.  `LeaseExclusionUntilCrash` needs `Prompt` only, and says so much until the first crash.  What happens without the
assumptions stands under the violation runs.  Mutual exclusion is not inductive: the invariant adds that no two processes at work have the same handle
(`HandlesApart`), that at most one process is *engaged* – between its create and its release – (`OneEngaged`), and that the file's state follows from
where the engaged process is (`FileFollows`).  A lease in use is never stale, so nobody is engaged where a stale one lies (`NobodyEngaged`); and
`RemovesStale`, the heart of the take-over, says that what a contender is about to remove is a stale lease still, or nothing.  Until the first crash
it follows from `LeaseBacked`: a written lease has a live owner, hence is never stale, and nobody reaches `RemoveStale`.

**GpuLaneProof.**  `LaneTypes`; `DispatchedOnce`, whose invariant `Once` follows the claim: no two slots are engaged on one
duty, the envelope of an engaged slot is under its tag or has been settled under its hands (`ClaimHeld`), a slot
that may still submit is about a duty nobody has submitted (`NotYet`), and a submitted duty is never in the queue
again (`Spent`) – through shared tags, collectors, crashes and late heartbeats.  `SuccessIsHonest` and
`DependenciesComeFirst` come from `Honest`: knowledge of a success only spreads, from the job to its worker, to the
status file, and from there to collectors, clients and dependents.  `SettledForGood` follows from `Once`: whoever moves
an envelope moves it from the queue or from under a tag.  `LaneActsAsLife` is the refinement of `DutyLife`: every step of a client,
slot, collector or crash is a step in the life of one duty, or none.  Which one is a matter of the actions (`LifeStep`, split
over clients, workers and the rest in `LifeClient`, `LifeWorker`, `LifeElsewhere`); that the life allows it there is
a matter of `LifeInv`, which adds `Backed` to `Once` and `Honest`: a job that is polled or has succeeded was submitted once, and a duty
whose client has started it has an envelope.  `DutyLife` says what is *not* promised, too: a claim may be settled as failed before its job is
sent, and a client may be told something else than the directory says.

**DeviceGateProof.**  `GateTypes`, `DeviceAlone`, `ReservationsFit`, `BooksAreBalanced`, `SharersFitDevice`,
`GateImplementsSharing`, `RunningIsInside`, `SleepersHaveAWaker`.  The
invariant `Books` ties the gate's three variables to the set of threads inside: exclusive means exactly one
thread inside, which does not share; otherwise all inside are sharers; `shared` is their number and `reserved` the sum of what they
declared; and more than one of them means that what is reserved is at most the device's VRAM.  That is why the floors at zero of
`release`, which would hide a mismatch, are never reached.  Every step is first shown to be one of three
things – a user enters through an admission, a user leaves, nobody does either (`StepCases`) – and the invariant
and the refinement are proved for those.  `SleepersHaveAWaker` needs nothing more: a job is refused only where the books say that somebody
is inside (`RefusedByHolder`), and whoever leaves wakes all.

**SetSums** has what the books need: the sum of a function over a finite set is a natural number, and an element adds to it, or takes
from it, its own value (`SumAddElement`, `SumRemoveElement`).  The community modules define the sum by a recursive function that takes
out one chosen element after the other, and the library's induction theorems cannot be applied, for they take an operator.  The way
round is the least counterexample: inclusion is well founded on the subsets of a finite set, so a set of subsets for which the claim
fails, an ordinary set, has a smallest member (`SmallestSubset`), and there the claim holds after all.

**FederationProof.**  `FederationTypes`; `FederationRunsOnce`, `FederationHonest`, `FederationActsAsCall`, for any hosts, peers, requests,
pollers, limit and number of restarts.  That a job runs on one host is not inductive: `Placement` adds that a submission goes one way
(`OneWay`: a request with a peer is past the point where its entry could register it), that only the entry and that peer may have a
thread for the job (`WorkPlaced`), and that a host has one only once its side of the submission has accepted, and the peer always
then (`WorkAccepted`).
`Honest` adds to `SuccessHonest` that an answer on its way to a record is honest too (`PollsHonest`).  The refinement to `AtMostOnce` maps
`Start` to placing the job, the peer's `Start` to placing without an answer, `ForwardAccepted` to the acceptance, and a restart to the
loss of all jobs of the host.  `AtMostOnce` says what is *not* promised: a submission that was refused may have run, when the
refusal is a call given up.

**DeviceCapacityProof.**  `CapacityTypes`, with `free` never below zero; `CapacityUndisturbed`, `CapacityMeasured`.  That a running job keeps
its model follows from `Gated` – whoever plans, discharges or loads has the gate, so a running job is alone – and from the actions of those
who have no gate: `Expire` and `Discharge` look at activity, `StrataLoads` at what is there, and a direct client's load waits for a runtime that runs a
job.  `CapacityMeasured` is not inductive: `Kept` says that a job between its admission and its load that still counts as "measured" still has that VRAM,
because nobody else has the gate, and of those who need none, direct clients and prepared Strata servers, each that leaves less than was measured is recorded
(`Overtakes`).  So what the Housekeeper itself does between measurement and load – discharges, rechecks, waits, other jobs, preparations up to their
grant – takes nothing from an admitted job; `Declared` says that measurements are for declarations only.  `CapacityActsAsSharing`: from
the plan to the end of the run, through every discharge, wait and retry, the device has one user, as `DeviceSharing` says of users that
do not share.  `DeviceGate` implements the same specification: the gate that `DeviceCapacity` has in fewer steps admits no more
than the one that was proved about.

**WorkSupervisorProof**, like the next module, assumes that no command overlaps a wake, which the code does not guarantee.  `WorkTypes`; `WorkLedger`, that the turns implement
`TurnLedger`; `WorkResultKept`.  The invariant says that a wake's copy is what is on disk (`Holds`), that the turn is in the state its step
takes it for (`TurnAtStep`), and what the history knows (`Known`): a captured planning turn left a plan behind, captured convergence turns are
numbered below the review count, and a stored result is one its phase may give.  That is why the loop never wants a turn it has captured, which
no local condition says.  `Filed` says the same of the tasks in the envelopes, which `AckFail` takes up again.  `Rewriting` is what a command may do to the turns.

**WorkPlacesProof** has what relates the two files.  `WorkSettledAgrees` and `WorkRunnableIsClaimable` rest on
`Place`: from the end of the queueing there is one envelope; a wake works on a task that is neither settled nor blocked and holds its envelope in `runtime/`
all the while; and an envelope that looks unclaimable is written after the status file that says so, never before.
`WorkAcceptedAsSeen` is the other half of what `work_accept` finds: the verdict on record is about the checkout on record as long as only
implementation turns commit to it.  Its invariant `Sighted` says that a stored result of a review was given on the checkout as it is now, which
implementation turns cannot spoil, since none is begun beside an unresolved turn, and that a review turn that runs was given that checkout; it
says nothing of a failed task, over which `AckFail` may have written an older one, and needs `Place` to know that such a task stays failed.

Only model-checked: the liveness properties (`LeaseComesFree`, `EnvelopesSettle`, `JobsEnd` of both modules, `SubmissionsAnswered`, `RecordsSettle`,
`WakeEnds`), which need fairness and `ENABLED`, and the runs that find violations.  Every other property that a run checks is
the statement of a theorem.

## Plan

Done, in this order: the lease, the lane, the gate, the federation, the work lane's supervisor, capacity, each with its abstract
specification or its proofs.  Next:

1. `WorkSupervisor` where commands overlap a wake, once the code says who may write a task; approvals and integration.
2. `HoldingSpool`: colliding names.  `AndroidLane`: the lease protocol over a phone; `ChannelLane`: resumption of claims.
3. The probe and the unload of `Discharge` in two steps, the operator's discharge, the watchdog and a restart of the Housekeeper in `DeviceCapacity`.
4. Language core: memory scopes and sandpit.
5. Proofs for the work lane where commands overlap a wake, once 1. is done.

Abstract specifications still worth stating: one approval
per proposal; at-most-once delivery for the channel lane, which `AtMostOnce` may serve as well.

## Not modelled, and why

The parser, compilers, translators and the reporter are functions from text to text: small instances show
little, and their correctness is over strings.  HTTP clients, telemetry parsing and reports of the GPU lane are
present only as their outcomes.  Containers, web client and vendored libraries have no state the program depends on.
The lane's behaviour when the file system fails in other ways than a missing file (full disk, permissions) is not
modelled: the code lets such errors end the run.
Of the work lane, reports, digests and roadmaps are derived from its files and change nothing in them.  Of capacity, the operator's
`POST /discharge`, the watchdog, KataGo's lifecycle, ComfyUI's retry after a CUDA failure and the Kubernetes runtime are left out; they
change what is resident without asking for capacity.
