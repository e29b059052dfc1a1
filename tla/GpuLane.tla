------------------------------- MODULE GpuLane -------------------------------
(***************************************************************************)
(* The GPU duty lane: clients that enqueue duties and await their handles, *)
(* worker slots that claim, dispatch and acknowledge them, and the runtime *)
(* collector that settles claims nobody works on (program/verbs/gpu.mjs,   *)
(* program/runtime/gpu/{queue,handle_status,readiness,worker}.mjs over     *)
(* program/library/spool.mjs).                                             *)
(*                                                                         *)
(* Everything shared is a file: an envelope is in one directory at a time  *)
(* and moves by rename; a status or a lease is rewritten in place, empty   *)
(* between its truncation and its write.  A step of a model process is     *)
(* what the code does from one access of such a file to the next.          *)
(***************************************************************************)
EXTENDS Naturals, FiniteSets

CONSTANTS
  Duties,       \* handles, numbered in the order of their file names
  Deps,         \* Deps[d]: the handles that duty d depends on
  Workers,      \* worker slots, of one or several processes
  Tag,          \* Tag[w]: the tag in the names of w's claims, and its lease owner
  Collectors,   \* processes that collect stale runtime claims
  Prompt,       \* TRUE: a live worker heartbeats well within the lease TTL
  MaxCrashes    \* bound: how many crashes a behaviour may contain

Tags == {Tag[w] : w \in Workers}

\* An envelope is in one of these directories, or in runtime/ under a tag.
Dirs == {"none", "input", "success", "fail"}

ASSUME DutyAssumption == Duties \subseteq Nat /\ Duties # {}
ASSUME DepsAssumption == Deps \in [Duties -> SUBSET Duties]
ASSUME TagAssumption == DOMAIN Tag = Workers /\ Tags \cap Dirs = {}
ASSUME PromptAssumption == Prompt \in BOOLEAN
ASSUME CrashAssumption == MaxCrashes \in Nat

VARIABLES
  place,      \* place[d]: the directory of d's envelope, or the tag of its claim
  old,        \* duties whose envelope file is older than the stale age
  status,     \* status[d]: what d's handle status file says
  lease,      \* lease[d]: the dispatch lease file of d
  client,     \* client[d]: what the client of d does, or the answer it got
  pc,         \* the step each worker takes next
  duty,       \* the duty each worker is about
  scan,       \* the rest of the listing each worker goes through
  job,        \* the remote job each worker polls
  submits,    \* submits[d]: remote jobs created for d
  succeeded,  \* duties a remote job of which has succeeded
  gc,         \* the step each collector takes next
  todo,       \* the claims each collector has still to look at, by path
  cand,       \* the claim each collector looks at
  crashes     \* crashes so far

files == <<place, status, lease>>
worker == <<pc, duty, scan, job>>
remote == <<submits, succeeded>>
collector == <<gc, todo, cand>>
vars == <<files, old, client, worker, remote, collector, crashes>>

Statuses == {"none", "torn", "queued", "running", "success", "fail"}
Terminal == {"success", "fail"}
Leases == [state : {"absent", "torn", "fresh", "stale"}, owner : Tags \cup {"nobody"}]

-----------------------------------------------------------------------------
(* Files.                                                                   *)

Input == {d \in Duties : place[d] = "input"}

\* Mutant: a dependency is met as soon as its handle is terminal.
ReadyWhenDone(d) == \A e \in Deps[d] : status[e] \in Terminal

\* Dependencies are met by terminal success only; a torn status reads queued.
Ready(d) == \A e \in Deps[d] : status[e] = "success"

Put(d, dir) == place' = [place EXCEPT ![d] = dir]

\* A status write reads and merges the current file, truncates it, writes it.
Truncate(d) == status' = [status EXCEPT ![d] = "torn"]
Record(d, value) == status' = [status EXCEPT ![d] = value]

SetLease(d, state, owner) ==
  lease' = [lease EXCEPT ![d] = [state |-> state, owner |-> owner]]

LeaseFresh(d) == lease[d].state = "fresh"
LeaseWritten(d) == lease[d].state \in {"fresh", "stale"}

-----------------------------------------------------------------------------
(* Workers.  The dispatch lease of d is named after d, its owner is the slot *)
(* name, which is also the tag of the slot's claims.                         *)

Goto(w, step) == pc' = [pc EXCEPT ![w] = step]

At(w, step) == pc[w] = step

\* The claim is the file that w's rename made, or another of the same name.
HasClaim(w) == place[duty[w]] = Tag[w]

OwnsLease(w) == LeaseWritten(duty[w]) /\ lease[duty[w]].owner = Tag[w]

PreSubmit == {"recheck", "putback", "queue", "queueing", "lease", "leasing",
              "busy", "run", "running", "submit"}
PostSubmit == {"poll", "beating", "win", "winning", "ackwin", "lose", "losing",
               "acklose", "catch", "catching", "ackcatch"}
WorkerSteps == PreSubmit \cup PostSubmit \cup {"idle", "scan", "claim", "release", "down"}

\* A run holds the lease it acquired from here until its release.
Leased(w) == pc[w] \in {"run", "running", "submit", "release"} \cup PostSubmit

CollectorSteps == {"off", "check", "status", "movesuccess", "movefail", "write",
                   "writing", "movestale", "drop"}
NoClaim == <<0, "none">>

-----------------------------------------------------------------------------
Init ==
  /\ place = [d \in Duties |-> "none"]
  /\ old = {}
  /\ status = [d \in Duties |-> "none"]
  /\ lease = [d \in Duties |-> [state |-> "absent", owner |-> "nobody"]]
  /\ client = [d \in Duties |-> "new"]
  /\ pc = [w \in Workers |-> "idle"]
  /\ duty = [w \in Workers |-> CHOOSE d \in Duties : TRUE]
  /\ scan = [w \in Workers |-> {}]
  /\ job = [w \in Workers |-> "none"]
  /\ submits = [d \in Duties |-> 0]
  /\ succeeded = {}
  /\ gc = [c \in Collectors |-> "off"]
  /\ todo = [c \in Collectors |-> {}]
  /\ cand = [c \in Collectors |-> NoClaim]
  /\ crashes = 0

-----------------------------------------------------------------------------
(* A client starts a duty, records it as queued, and awaits its handle.     *)

\* The envelope is in the queue before the handle has a status.
Enqueue(d) ==
  /\ client[d] = "new"
  /\ Put(d, "input")
  /\ client' = [client EXCEPT ![d] = "enqueued"]
  /\ UNCHANGED <<old, status, lease, worker, remote, collector, crashes>>

StartQueued(d) ==
  /\ client[d] = "enqueued"
  /\ Truncate(d)
  /\ client' = [client EXCEPT ![d] = "recording"]
  /\ UNCHANGED <<place, old, lease, worker, remote, collector, crashes>>

WriteQueued(d) ==
  /\ client[d] = "recording"
  /\ Record(d, "queued")
  /\ client' = [client EXCEPT ![d] = "awaiting"]
  /\ UNCHANGED <<place, old, lease, worker, remote, collector, crashes>>

\* An await that times out is asked again, as if it had gone on polling.
Await(d) ==
  /\ client[d] = "awaiting"
  /\ status[d] \in Terminal
  /\ client' = [client EXCEPT ![d] = status[d]]
  /\ UNCHANGED <<files, old, worker, remote, collector, crashes>>

-----------------------------------------------------------------------------
(* A slot claims a duty: it lists the queue, goes through the listing oldest *)
(* first, and takes the first ready envelope that is still there.            *)

List(w) ==
  /\ At(w, "idle")
  /\ Input # {}
  /\ scan' = [scan EXCEPT ![w] = Input]
  /\ Goto(w, "scan")
  /\ UNCHANGED <<files, old, client, duty, job, remote, collector, crashes>>

\* One envelope of the listing.  Its preview fails if it has left the queue,
\* and then the slot tries to claim it all the same.
Preview(w) ==
  /\ At(w, "scan")
  /\ \E d \in scan[w] :
       /\ \A e \in scan[w] : d <= e
       /\ scan' = [scan EXCEPT ![w] = @ \ {d}]
       /\ IF place[d] = "input" /\ ~Ready(d)
          THEN UNCHANGED <<pc, duty>>
          ELSE duty' = [duty EXCEPT ![w] = d] /\ Goto(w, "claim")
  /\ UNCHANGED <<files, old, client, job, remote, collector, crashes>>

NothingToClaim(w) ==
  /\ At(w, "scan")
  /\ scan[w] = {}
  /\ Goto(w, "idle")
  /\ UNCHANGED <<files, old, client, duty, scan, job, remote, collector, crashes>>

\* rename input/d runtime/d--tag; ENOENT goes on with the listing.
Claim(w) ==
  /\ At(w, "claim")
  /\ IF place[duty[w]] = "input"
     THEN Put(duty[w], Tag[w]) /\ Goto(w, "recheck")
     ELSE UNCHANGED place /\ Goto(w, "scan")
  /\ UNCHANGED <<old, status, lease, client, duty, scan, job, remote, collector, crashes>>

\* The claim is read, which throws if a collector has moved it, and the
\* dependencies are checked again.
Recheck(w) ==
  /\ At(w, "recheck")
  /\ IF HasClaim(w) /\ ~Ready(duty[w])
     THEN Goto(w, "putback") /\ UNCHANGED scan
     ELSE /\ Goto(w, IF HasClaim(w) THEN "queue" ELSE "idle")
          /\ scan' = [scan EXCEPT ![w] = {}]
  /\ UNCHANGED <<files, old, client, duty, job, remote, collector, crashes>>

\* The claim goes back to the queue: before its time, or its lease is busy.
\* A claim that has been moved meanwhile ends the run.
Requeue(w, step, next) ==
  /\ At(w, step)
  /\ IF HasClaim(w)
     THEN Put(duty[w], "input") /\ Goto(w, next)
     ELSE UNCHANGED place /\ Goto(w, "idle")
  /\ UNCHANGED <<old, status, lease, client, duty, scan, job, remote, collector, crashes>>

PutBack(w) == Requeue(w, "putback", "scan")
Busy(w) == Requeue(w, "busy", "idle")

-----------------------------------------------------------------------------
(* A slot runs the duty it claimed.                                          *)

\* The two halves of a status write that carries the agent name.
StartWrite(w, step, next) ==
  /\ At(w, step)
  /\ Truncate(duty[w])
  /\ Goto(w, next)
  /\ UNCHANGED <<place, old, lease, client, duty, scan, job, remote, collector, crashes>>

FinishWrite(w, step, value, next) ==
  /\ At(w, step)
  /\ Record(duty[w], value)
  /\ Goto(w, next)
  /\ UNCHANGED <<place, old, lease, client, duty, scan, job, remote, collector, crashes>>

MarkQueued(w) ==
  StartWrite(w, "queue", "queueing") \/ FinishWrite(w, "queueing", "queued", "lease")

MarkRunning(w) ==
  StartWrite(w, "run", "running") \/ FinishWrite(w, "running", "running", "submit")

\* acquireGpuLease, without the bound on its attempts.
AcquireLease(w) ==
  /\ At(w, "lease")
  /\ LET d == duty[w] IN
       \/ /\ lease[d].state = "absent"
          /\ SetLease(d, "torn", "nobody")
          /\ Goto(w, "leasing")
       \/ /\ lease[d].state = "stale"
          /\ SetLease(d, "absent", "nobody")
          /\ UNCHANGED pc
       \/ /\ lease[d].state \in {"torn", "fresh"}
          /\ Goto(w, IF OwnsLease(w) THEN "run" ELSE "busy")
          /\ UNCHANGED lease
  /\ UNCHANGED <<place, old, status, client, duty, scan, job, remote, collector, crashes>>

WriteLease(w) ==
  /\ At(w, "leasing")
  /\ SetLease(duty[w], "fresh", Tag[w])
  /\ Goto(w, "run")
  /\ UNCHANGED <<place, old, status, client, duty, scan, job, remote, collector, crashes>>

\* Mutant: a submission whose answer is lost is tried again.
SubmitJobAgain(w) ==
  /\ At(w, "submit")
  /\ submits' = [submits EXCEPT ![duty[w]] = @ + 1]
  /\ \/ job' = [job EXCEPT ![w] = "live"] /\ Goto(w, "poll")
     \/ UNCHANGED <<job, pc>>
  /\ UNCHANGED <<files, old, client, duty, scan, succeeded, collector, crashes>>

\* The Housekeeper accepts the job, refuses it, or accepts it and its answer
\* is lost or carries no job id.
SubmitJob(w) ==
  /\ At(w, "submit")
  /\ \/ /\ submits' = [submits EXCEPT ![duty[w]] = @ + 1]
        /\ job' = [job EXCEPT ![w] = "live"]
        /\ Goto(w, "poll")
     \/ Goto(w, "catch") /\ UNCHANGED <<submits, job>>
     \/ /\ submits' = [submits EXCEPT ![duty[w]] = @ + 1]
        /\ Goto(w, "catch")
        /\ UNCHANGED job
  /\ UNCHANGED <<files, old, client, duty, scan, succeeded, collector, crashes>>

\* Polls end with the job's outcome, or without it: too many of them, or the
\* Housekeeper cannot be asked.
PollEnds(w) ==
  /\ At(w, "poll")
  /\ \/ job[w] = "success" /\ Goto(w, "win")
     \/ job[w] = "fail" /\ Goto(w, "lose")
     \/ Goto(w, "catch")
  /\ UNCHANGED <<files, old, client, duty, scan, job, remote, collector, crashes>>

\* Between two polls the lease is renewed, if it is still w's.
StartHeartbeat(w) ==
  /\ At(w, "poll")
  /\ OwnsLease(w)
  /\ SetLease(duty[w], "torn", "nobody")
  /\ Goto(w, "beating")
  /\ UNCHANGED <<place, old, status, client, duty, scan, job, remote, collector, crashes>>

WriteHeartbeat(w) ==
  /\ At(w, "beating")
  /\ SetLease(duty[w], "fresh", Tag[w])
  /\ Goto(w, "poll")
  /\ UNCHANGED <<place, old, status, client, duty, scan, job, remote, collector, crashes>>

\* A terminal status carries no agent name: a torn file fails its assertion.
StartTerminal(w, step, next, thrown) ==
  /\ At(w, step)
  /\ IF status[duty[w]] = "torn"
     THEN UNCHANGED status /\ Goto(w, thrown)
     ELSE Truncate(duty[w]) /\ Goto(w, next)
  /\ UNCHANGED <<place, old, lease, client, duty, scan, job, remote, collector, crashes>>

\* Mutant: the envelope is looked up by its handle, not by the claim's path.
AcknowledgeByHandle(w, step, dir, thrown) ==
  /\ At(w, step)
  /\ Put(duty[w], dir)
  /\ Goto(w, "release")
  /\ UNCHANGED <<old, status, lease, client, duty, scan, job, remote, collector, crashes>>

\* An acknowledgement renames the claim, and throws if it has gone.
Acknowledge(w, step, dir, thrown) ==
  /\ At(w, step)
  /\ IF HasClaim(w)
     THEN Put(duty[w], dir) /\ Goto(w, "release")
     ELSE UNCHANGED place /\ Goto(w, thrown)
  /\ UNCHANGED <<old, status, lease, client, duty, scan, job, remote, collector, crashes>>

Succeed(w) ==
  \/ StartTerminal(w, "win", "winning", "catch")
  \/ FinishWrite(w, "winning", "success", "ackwin")
  \/ Acknowledge(w, "ackwin", "success", "catch")

Fail(w) ==
  \/ StartTerminal(w, "lose", "losing", "catch")
  \/ FinishWrite(w, "losing", "fail", "acklose")
  \/ Acknowledge(w, "acklose", "fail", "catch")

\* The catch clause does the same again; what it throws only ends the run.
Catch(w) ==
  \/ StartTerminal(w, "catch", "catching", "release")
  \/ FinishWrite(w, "catching", "fail", "ackcatch")
  \/ Acknowledge(w, "ackcatch", "fail", "release")

Release(w) ==
  /\ At(w, "release")
  /\ IF OwnsLease(w) THEN SetLease(duty[w], "absent", "nobody") ELSE UNCHANGED lease
  /\ job' = [job EXCEPT ![w] = "none"]
  /\ Goto(w, "idle")
  /\ UNCHANGED <<place, old, status, client, duty, scan, remote, collector, crashes>>

-----------------------------------------------------------------------------
(* The runtime collector.  Candidates are the claims of old envelopes, by   *)
(* path: the duty and the tag.                                              *)

Step(c, step) == gc' = [gc EXCEPT ![c] = step]

\* Mutant: a collection that fails forgets its candidates and goes on.
QuitHalfway(c) ==
  /\ todo' = [todo EXCEPT ![c] = {}]
  /\ cand' = [cand EXCEPT ![c] = NoClaim]
  /\ UNCHANGED gc

Quit(c) ==
  /\ Step(c, "off")
  /\ todo' = [todo EXCEPT ![c] = {}]
  /\ cand' = [cand EXCEPT ![c] = NoClaim]

Collect(c) ==
  /\ gc[c] = "off"
  /\ LET stale == {d \in old : place[d] \in Tags} IN
       /\ stale # {}
       /\ todo' = [todo EXCEPT ![c] = {<<d, place[d]>> : d \in stale}]
  /\ Step(c, "check")
  /\ UNCHANGED <<files, old, client, worker, remote, cand, crashes>>

\* Mutant: any readable lease protects its claim, however old.
CheckLeaseAnyAge(c) ==
  /\ gc[c] = "check"
  /\ \E k \in todo[c] :
       /\ \A m \in todo[c] : k[1] <= m[1]
       /\ cand' = [cand EXCEPT ![c] = k]
       /\ todo' = [todo EXCEPT ![c] = @ \ {k}]
       /\ Step(c, IF LeaseWritten(k[1]) THEN "check" ELSE "status")
  /\ UNCHANGED <<files, old, client, worker, remote, crashes>>

\* The next candidate, oldest first; one with a fresh lease is protected.
CheckLease(c) ==
  /\ gc[c] = "check"
  /\ \E k \in todo[c] :
       /\ \A m \in todo[c] : k[1] <= m[1]
       /\ cand' = [cand EXCEPT ![c] = k]
       /\ todo' = [todo EXCEPT ![c] = @ \ {k}]
       /\ Step(c, IF LeaseFresh(k[1]) THEN "check" ELSE "status")
  /\ UNCHANGED <<files, old, client, worker, remote, crashes>>

CollectorDone(c) ==
  /\ gc[c] = "check"
  /\ todo[c] = {}
  /\ Quit(c)
  /\ UNCHANGED <<files, old, client, worker, remote, crashes>>

\* Mutant: every terminal status counts as a finished duty.
CheckStatusTerminal(c) ==
  /\ gc[c] = "status"
  /\ Step(c, IF status[cand[c][1]] \in Terminal THEN "movesuccess" ELSE "write")
  /\ UNCHANGED <<files, old, client, worker, remote, todo, cand, crashes>>

CheckStatus(c) ==
  /\ gc[c] = "status"
  /\ LET s == status[cand[c][1]] IN
       Step(c, CASE s = "success" -> "movesuccess"
                 [] s = "fail" -> "movefail"
                 [] OTHER -> "write")
  /\ UNCHANGED <<files, old, client, worker, remote, todo, cand, crashes>>

StartFail(c) ==
  /\ gc[c] = "write"
  /\ Truncate(cand[c][1])
  /\ Step(c, "writing")
  /\ UNCHANGED <<place, old, lease, client, worker, remote, todo, cand, crashes>>

WriteFail(c) ==
  /\ gc[c] = "writing"
  /\ Record(cand[c][1], "fail")
  /\ Step(c, "movestale")
  /\ UNCHANGED <<place, old, lease, client, worker, remote, todo, cand, crashes>>

\* Mutant: an abandoned claim goes back to the queue.
MoveRequeues(c) ==
  /\ gc[c] \in {"movesuccess", "movefail", "movestale"}
  /\ IF place[cand[c][1]] = cand[c][2]
     THEN /\ Put(cand[c][1], IF gc[c] = "movesuccess" THEN "success" ELSE "input")
          /\ Step(c, IF gc[c] = "movestale" THEN "drop" ELSE "check")
          /\ UNCHANGED <<todo, cand>>
     ELSE Quit(c) /\ UNCHANGED place
  /\ UNCHANGED <<old, status, lease, client, worker, remote, crashes>>

\* A claim that its worker has moved meanwhile aborts the whole collection.
Move(c) ==
  /\ gc[c] \in {"movesuccess", "movefail", "movestale"}
  /\ IF place[cand[c][1]] = cand[c][2]
     THEN /\ Put(cand[c][1], IF gc[c] = "movesuccess" THEN "success" ELSE "fail")
          /\ Step(c, IF gc[c] = "movestale" THEN "drop" ELSE "check")
          /\ UNCHANGED <<todo, cand>>
     ELSE Quit(c) /\ UNCHANGED place
  /\ UNCHANGED <<old, status, lease, client, worker, remote, crashes>>

\* The lease of a failed claim is removed if it is stale; a torn one stays.
DropLease(c) ==
  /\ gc[c] = "drop"
  /\ IF lease[cand[c][1]].state = "stale"
     THEN SetLease(cand[c][1], "absent", "nobody")
     ELSE UNCHANGED lease
  /\ Step(c, "check")
  /\ UNCHANGED <<place, status, old, client, worker, remote, todo, cand, crashes>>

-----------------------------------------------------------------------------
(* The environment.                                                         *)

\* The remote job of w ends; that of a crashed worker ends unobserved.
RemoteEnds(w) ==
  /\ job[w] = "live"
  /\ \/ /\ job' = [job EXCEPT ![w] = "success"]
        /\ succeeded' = succeeded \cup {duty[w]}
     \/ job' = [job EXCEPT ![w] = "fail"] /\ UNCHANGED succeeded
  /\ UNCHANGED <<files, old, client, pc, duty, scan, submits, collector, crashes>>

\* The stale age passes since d was enqueued: a claim keeps the file's time.
Age(d) ==
  /\ place[d] \in {"input"} \cup Tags
  /\ d \notin old
  /\ old' = old \cup {d}
  /\ UNCHANGED <<files, client, worker, remote, collector, crashes>>

\* The TTL of d's lease passes without a heartbeat.
Expire(d) ==
  /\ LeaseFresh(d)
  /\ Prompt => \A w \in Workers : Leased(w) /\ duty[w] = d => ~OwnsLease(w)
  /\ SetLease(d, "stale", lease[d].owner)
  /\ UNCHANGED <<place, status, old, client, worker, remote, collector, crashes>>

CrashWorker(w) ==
  /\ ~At(w, "down")
  /\ crashes < MaxCrashes
  /\ crashes' = crashes + 1
  /\ Goto(w, "down")
  /\ job' = [job EXCEPT ![w] = "none"]
  /\ scan' = [scan EXCEPT ![w] = {}]
  /\ UNCHANGED <<files, old, client, duty, remote, collector>>

RestartWorker(w) ==
  /\ At(w, "down")
  /\ Goto(w, "idle")
  /\ UNCHANGED <<files, old, client, duty, scan, job, remote, collector, crashes>>

CrashCollector(c) ==
  /\ gc[c] # "off"
  /\ crashes < MaxCrashes
  /\ crashes' = crashes + 1
  /\ Quit(c)
  /\ UNCHANGED <<files, old, client, worker, remote>>

-----------------------------------------------------------------------------
Client(d) == Enqueue(d) \/ StartQueued(d) \/ WriteQueued(d) \/ Await(d)

Claiming(w) ==
  List(w) \/ Preview(w) \/ NothingToClaim(w) \/ Claim(w) \/ Recheck(w) \/ PutBack(w)

Running(w) ==
  \/ MarkQueued(w) \/ AcquireLease(w) \/ WriteLease(w) \/ Busy(w)
  \/ MarkRunning(w) \/ SubmitJob(w) \/ WriteHeartbeat(w)
  \/ Succeed(w) \/ Fail(w) \/ Catch(w) \/ Release(w)

Polling(w) == PollEnds(w) \/ StartHeartbeat(w)

Collecting(c) ==
  \/ Collect(c) \/ CheckLease(c) \/ CollectorDone(c) \/ CheckStatus(c)
  \/ StartFail(c) \/ WriteFail(c) \/ Move(c) \/ DropLease(c)

Next ==
  \/ \E d \in Duties : Client(d) \/ Age(d) \/ Expire(d)
  \/ \E w \in Workers :
       \/ Claiming(w) \/ Running(w) \/ Polling(w) \/ RemoteEnds(w)
       \/ CrashWorker(w) \/ RestartWorker(w)
  \/ \E c \in Collectors : Collecting(c) \/ CrashCollector(c)

Spec == Init /\ [][Next]_vars

\* The worker command runs batch after batch, each with its collection when it
\* is due; a run's polls are bounded; a worker that crashed is started again;
\* time passes.  Nothing makes a client start a duty or a process crash.
Fairness ==
  /\ \A w \in Workers :
       /\ WF_vars(Claiming(w) \/ Running(w))
       /\ SF_vars(PollEnds(w))
       /\ WF_vars(RestartWorker(w))
  /\ \A c \in Collectors : WF_vars(Collecting(c))
  /\ \A d \in Duties :
       WF_vars(StartQueued(d)) /\ WF_vars(WriteQueued(d)) /\ WF_vars(Await(d))
       /\ WF_vars(Age(d)) /\ WF_vars(Expire(d))

FairSpec == Spec /\ Fairness

-----------------------------------------------------------------------------
(* Properties.                                                              *)

TypeOK ==
  /\ place \in [Duties -> Dirs \cup Tags]
  /\ old \subseteq Duties
  /\ status \in [Duties -> Statuses]
  /\ lease \in [Duties -> Leases]
  /\ client \in [Duties -> {"new", "enqueued", "recording", "awaiting"} \cup Terminal]
  /\ pc \in [Workers -> WorkerSteps]
  /\ duty \in [Workers -> Duties]
  /\ scan \in [Workers -> SUBSET Duties]
  /\ job \in [Workers -> {"none", "live", "success", "fail"}]
  /\ submits \in [Duties -> Nat]
  /\ succeeded \subseteq Duties
  /\ gc \in [Collectors -> CollectorSteps]
  /\ todo \in [Collectors -> SUBSET (Duties \X Tags)]
  /\ cand \in [Collectors -> (Duties \X Tags) \cup {NoClaim}]
  /\ \A c \in Collectors : gc[c] \notin {"off", "check"} => cand[c] # NoClaim
  /\ crashes \in Nat

\* No duty is ever dispatched twice: not by two workers that see the same
\* envelope, not after a crash, a busy lease, a lost answer or a collection.
\* The recovery never replays a remote job whose outcome is ambiguous.
AtMostOneSubmit == \A d \in Duties : submits[d] <= 1

\* A duty reaches the GPU only after jobs of all its dependencies have really
\* succeeded, though statuses are rewritten and torn while they are checked.
DependenciesFirst ==
  \A d \in Duties : submits[d] > 0 => Deps[d] \subseteq succeeded

\* Whatever says success, an answer to a client, a handle status or a place in
\* produce/success, a remote job of that duty has succeeded.
SuccessHonest ==
  \A d \in Duties :
    \/ client[d] = "success" \/ status[d] = "success" \/ place[d] = "success"
    => d \in succeeded

\* An envelope is settled once: no late worker, retrying collector or worker
\* with the same tag moves it out of produce/success or produce/fail.
SettledStays ==
  [][\A d \in Duties : place[d] \in Terminal => place'[d] = place[d]]_vars

\* Seen from its clients, the lane takes each duty through the life DutyLife
\* promises: every step of a client, slot, collector or crash is a step of it.
Life == INSTANCE DutyLife WITH
  stage <- [d \in Duties |-> IF place[d] \in Tags THEN "claimed" ELSE place[d]],
  sends <- submits,
  done <- succeeded,
  answer <- [d \in Duties |-> IF client[d] \in Terminal THEN client[d] ELSE "none"]

ActsAsLife == Life!Spec

\* A duty whose dependencies stay satisfied does not stay in the queue or in a
\* dead claim: it is settled, though workers and collectors crash on the way.
EnvelopesSettle ==
  \A d \in Duties :
    <>[]Ready(d) => (place[d] = "input" ~> place[d] \in Terminal)

\* An await ends with a terminal answer when it is asked long enough.
AwaitAnswered ==
  \A d \in Duties : Deps[d] = {} =>
    (client[d] = "awaiting" ~> client[d] \in Terminal)
=============================================================================
