--------------------------- MODULE DeviceCapacity ---------------------------
(***************************************************************************)
(* Capacity admission on one GPU in the Housekeeper service                *)
(* (container/gpu-housekeeper/service/server.py): a job that has the       *)
(* device plans for the VRAM it declared, unloads idle runtimes, waits, or *)
(* is refused; a preparation does the same for a Strata server that loads  *)
(* its model by itself, afterwards.                                        *)
(*                                                                         *)
(* No runtime of the default registry shares the device (DeviceGate has    *)
(* the ones that do), so the gate is its holder.  A runtime holds one model*)
(* at a time, and a declaration covers the model it is made for.  Other    *)
(* clients reach a runtime directly, past the gate, and have it load what  *)
(* they ask for at any time.                                               *)
(***************************************************************************)
EXTENDS Naturals, FiniteSets, FiniteSetsExt

CONSTANTS
  Jobs,        \* jobs submitted for the device
  Preps,       \* requests to prepare the device for Strata
  Models,      \* profiles
  RuntimeOf,   \* RuntimeOf[m]: the runtime that serves model m
  Size,        \* Size[m]: the VRAM it takes, in units
  Model,       \* Model[u]: the model that user u needs
  Need,        \* Need[u]: the VRAM it declared, in units; 0 for none
  Gentle,      \* users whose dischargeAllowed is false
  Public,      \* runtimes that clients use who do not come this way
  Total,       \* the VRAM of the device, in units
  Nothing,     \* no model
  Nobody       \* no user

Users == Jobs \union Preps
Runtimes == {"ollama", "comfyui", "huggingface", "strata"}

ASSUME UsersAssumption == 
  Jobs \intersect Preps = {} /\ Gentle \subseteq Users /\ Nobody \notin Users
ASSUME ModelsAssumption ==
  /\ Nothing \notin Models /\ Public \subseteq Runtimes
  /\ RuntimeOf \in [Models -> Runtimes] /\ Size \in [Models -> Nat \ {0}]
  /\ Model \in [Users -> Models] /\ \A p \in Preps : RuntimeOf[Model[p]] = "strata"
ASSUME NeedAssumption ==
  /\ Need \in [Users -> Nat] /\ Total \in Nat
  /\ \A u \in Users : Need[u] # 0 => Need[u] >= Size[Model[u]]
  /\ \A p \in Preps : Need[p] # 0

VARIABLES
  free,      \* the VRAM that is free, which telemetry measures
  resident,  \* resident[r]: the model runtime r holds in VRAM, or Nothing
  loaded,    \* the models recorded as loaded (_PROFILES)
  quiet,     \* the runtimes whose idle grace has passed since they were used
  outside,   \* the public runtimes that serve such a client
  holder,    \* who has the gate, or Nobody
  pc,        \* where each user is
  offer,     \* offer[u]: the runtimes u may still unload (candidates)
  basis,     \* basis[u]: why u was admitted
  short,     \* short[u]: on what basis it was when its model found no room
  late       \* the jobs whose deadline for capacity has passed

gpu == <<free, resident, loaded, quiet, outside>>
vars == <<gpu, holder, pc, offer, basis, short, late>>

Admission == {"plan", "reclaim", "recheck", "wait"}
Inside == Admission \union {"load", "run"}
Places == Inside \union {"new", "queued", "granted", "loaded", "ended"}

\* "overtaken": it was measured, and since then somebody without the gate took it.
Bases == {"none", "unasked", "warm", "measured", "overtaken"}

Runtime(u) == RuntimeOf[Model[u]]
Goto(u, place) == pc' = [pc EXCEPT ![u] = place]
Held(r) == IF resident[r] = Nothing THEN 0 ELSE Size[resident[r]]
ModelsOf(r) == {m \in Models : RuntimeOf[m] = r}

-----------------------------------------------------------------------------
(* What the service can tell about a runtime.                               *)

Running(r) == \E j \in Jobs : Runtime(j) = r /\ pc[j] = "run"

\* The runtime has work: Ollama by the jobs that are listed for it, ComfyUI
\* by its queue, Strata, while it has a model, by its requests in flight.
Active(r) ==
  CASE r = "ollama" -> \E j \in Jobs : Runtime(j) = r /\ pc[j] \notin {"new", "ended"}
    [] r = "comfyui" -> r \in outside \/ Running(r)
    [] r = "strata" -> resident[r] # Nothing /\ (r \in outside \/ Running(r))
    [] r = "huggingface" -> FALSE

\* Its activity can be observed at all (observe_runtime_activity).
Observable(r) == r # "huggingface" /\ (r = "strata" => resident[r] # Nothing)

Idle(r) == Observable(r) /\ ~Active(r) /\ r \in quiet
Occupied(r) == Observable(r) /\ ~Idle(r)

\* Idle runtimes that hold VRAM; what processes in containers hold is not
\* always known.
Candidates(u, mapped) ==
  {r \in Runtimes \ {Runtime(u)} :
     Idle(r) /\ resident[r] # Nothing /\ (mapped \/ r = "strata")}

\* Strata is credited with what is missing.
Enough(u, candidates) ==
  \/ "strata" \in candidates
  \/ free + MapThenSumSet(Held, candidates) >= Need[u]

\* target_loaded
Warm(u) ==
  \/ u \in Jobs /\ Model[u] \in loaded
  \/ Runtime(u) = "strata" /\ resident["strata"] # Nothing

Fits(u) == free >= Need[u]

-----------------------------------------------------------------------------
(* The gate.                                                                *)

\* A job registers itself, and its thread waits for the gate.
Submit(j) ==
  /\ pc[j] = "new"
  /\ Goto(j, "queued")
  /\ UNCHANGED <<gpu, holder, offer, basis, short, late>>

\* Mutant: only jobs of other runtimes are waited for.
EnterBeside(j) ==
  /\ pc[j] = "queued"
  /\ holder = Nobody \/ (holder \in Jobs /\ Runtime(holder) = Runtime(j))
  /\ holder' = j /\ Goto(j, "plan")
  /\ loaded' = IF Runtime(j) = "ollama" THEN loaded ELSE loaded \union {Model[j]}
  /\ UNCHANGED <<free, resident, quiet, outside, offer, basis, short, late>>

\* A job has the device.  Its profile is recorded as loaded, unless it is
\* Ollama's.
Enter(j) ==
  /\ pc[j] = "queued" /\ holder = Nobody
  /\ holder' = j /\ Goto(j, "plan")
  /\ loaded' = IF Runtime(j) = "ollama" THEN loaded ELSE loaded \union {Model[j]}
  /\ UNCHANGED <<free, resident, quiet, outside, offer, basis, short, late>>

\* A preparation gets the gate at once or is told that it is busy.
TryEnter(p) ==
  /\ pc[p] = "new"
  /\ IF holder = Nobody
     THEN holder' = p /\ Goto(p, "plan")
     ELSE Goto(p, "ended") /\ UNCHANGED holder
  /\ UNCHANGED <<gpu, offer, basis, short, late>>

\* The user's part is over, with the gate given back.
End(u) ==
  /\ Goto(u, "ended") /\ holder' = Nobody
  /\ offer' = [offer EXCEPT ![u] = {}] /\ basis' = [basis EXCEPT ![u] = "none"]
  /\ late' = late \ {u}

-----------------------------------------------------------------------------
(* The plan.                                                                *)

Admit(u, reason) ==
  /\ Goto(u, "load") /\ basis' = [basis EXCEPT ![u] = reason]
  /\ UNCHANGED <<gpu, holder, offer, short, late>>

\* Mutant: the deadline is not looked at.
DenyForever(u, waitable) ==
  IF waitable /\ u \in Jobs
  THEN Goto(u, "wait") /\ UNCHANGED <<gpu, holder, offer, basis, short, late>>
  ELSE End(u) /\ UNCHANGED <<gpu, short>>

\* Mutant: a job that waits for capacity lets go of the gate.
DenyLettingGo(u, waitable) ==
  IF waitable /\ u \in Jobs \ late
  THEN /\ Goto(u, "wait") /\ holder' = Nobody
       /\ UNCHANGED <<gpu, offer, basis, short, late>>
  ELSE End(u) /\ UNCHANGED <<gpu, short>>

\* The plan failed: a job tries again before its deadline, if trying may help.
Deny(u, waitable) ==
  IF waitable /\ u \in Jobs \ late
  THEN Goto(u, "wait") /\ UNCHANGED <<gpu, holder, offer, basis, short, late>>
  ELSE End(u) /\ UNCHANGED <<gpu, short>>

PlanAdmits(u) ==
  /\ pc[u] = "plan"
  /\ \/ Need[u] = 0 /\ Admit(u, "unasked")
     \/ Need[u] \in 1 .. Total /\ Warm(u) /\ Admit(u, "warm")
     \/ Need[u] \in 1 .. Total /\ ~Warm(u) /\ Fits(u) /\ Admit(u, "measured")

\* Neither warm nor room, though the device would be large enough.
Short(u) == pc[u] = "plan" /\ Need[u] \in 1 .. Total /\ ~Warm(u) /\ ~Fits(u)

PlanReclaims(u) ==
  /\ Short(u) /\ u \notin Gentle
  /\ \E mapped \in BOOLEAN :
       /\ Enough(u, Candidates(u, mapped))
       /\ offer' = [offer EXCEPT ![u] = Candidates(u, mapped)]
  /\ Goto(u, "reclaim")
  /\ UNCHANGED <<gpu, holder, basis, short, late>>

\* Too little to reclaim: worth waiting for, if some runtime is in use or was
\* until lately.
PlanDenies(u) ==
  /\ Short(u) /\ u \notin Gentle
  /\ \E mapped \in BOOLEAN :
       /\ ~Enough(u, Candidates(u, mapped))
       /\ Deny(u, \E r \in Runtimes \ {Runtime(u)} :
                    Occupied(r) /\ (mapped \/ r = "strata"))

\* No telemetry, with the outcome of having no leave to unload; or it is seen
\* that the device is too small.
PlanFails(u) ==
  /\ pc[u] = "plan" /\ Need[u] # 0
  /\ \E seen \in BOOLEAN : (seen => Need[u] > Total) /\ Deny(u, ~seen)

-----------------------------------------------------------------------------
(* Discharging, and waiting.                                                *)

Withdraw(u, r) == offer' = [offer EXCEPT ![u] = @ \ {r}]

\* The runtime of a candidate unloads its model, unless it has become active.
\* Whatever it had is recorded as gone, but for Strata's.
Discharge(u, r) ==
  /\ pc[u] = "reclaim" /\ r \in offer[u] /\ r \notin outside
  /\ Observable(r) /\ ~Active(r) /\ (r # "comfyui" => r \in quiet)
  /\ free' = free + Held(r) /\ resident' = [resident EXCEPT ![r] = Nothing]
  /\ loaded' = IF r = "strata" THEN loaded ELSE loaded \ ModelsOf(r)
  /\ quiet' = quiet \ {r}
  /\ Withdraw(u, r) /\ Goto(u, "recheck")
  /\ UNCHANGED <<outside, holder, basis, short, late>>

\* It refuses, cannot be reached, or is in use again.
DischargeFails(u, r) ==
  /\ pc[u] = "reclaim" /\ r \in offer[u]
  /\ Withdraw(u, r)
  /\ UNCHANGED <<gpu, holder, pc, basis, short, late>>

\* Mutant: a successful discharge is enough.
TrustDischarge(u) ==
  /\ pc[u] = "recheck" /\ Admit(u, "measured")

\* The plan once more, in which nothing else may be discharged.
Recheck(u) ==
  /\ pc[u] = "recheck"
  /\ \/ Warm(u) /\ Admit(u, "warm")
     \/ ~Warm(u) /\ Fits(u) /\ Admit(u, "measured")

\* Still short, or no telemetry: the next candidate.
RecheckShort(u) ==
  /\ pc[u] = "recheck"
  /\ Goto(u, "reclaim")
  /\ UNCHANGED <<gpu, holder, offer, basis, short, late>>

Exhausted(u) == pc[u] = "reclaim" /\ offer[u] = {} /\ Deny(u, TRUE)

Poll(j) ==
  /\ pc[j] = "wait"
  /\ Goto(j, "plan")
  /\ UNCHANGED <<gpu, holder, offer, basis, short, late>>

\* The wait for capacity has lasted capacity_wait_seconds.
Deadline(j) ==
  /\ pc[j] \in Admission
  /\ j \notin late /\ late' = late \union {j}
  /\ UNCHANGED <<gpu, holder, pc, offer, basis, short>>

-----------------------------------------------------------------------------
(* What a job does with the device.                                         *)

Used(j) == quiet' = quiet \ {Runtime(j)}

\* What the records say of Ollama is brought up to date.
Synced(held) ==
  (loaded \ ModelsOf("ollama")) \union (held \intersect ModelsOf("ollama"))

\* Mutant: the size of the device is looked at, not what is free.
RoomOnDevice(u) == Total >= Size[Model[u]]

\* What the runtime has now makes room for the model.
Room(u) == free + Held(Runtime(u)) >= Size[Model[u]]

\* The model is there, or takes the place of the one the runtime has, which
\* serves nobody any more.
Load(j) ==
  /\ pc[j] = "load"
  /\ \/ resident[Runtime(j)] = Model[j] /\ UNCHANGED <<free, resident, outside>>
     \/ /\ resident[Runtime(j)] # Model[j] /\ Room(j)
        /\ free' = free + Held(Runtime(j)) - Size[Model[j]]
        /\ resident' = [resident EXCEPT ![Runtime(j)] = Model[j]]
        /\ outside' = outside \ {Runtime(j)}
  /\ loaded' = IF Runtime(j) = "ollama" THEN Synced({Model[j]}) ELSE loaded
  /\ Used(j) /\ Goto(j, "run")
  /\ UNCHANGED <<holder, offer, basis, short, late>>

\* The model does not fit: the guard restarts Ollama, other runtimes fail.
LoadShort(j) ==
  /\ pc[j] = "load" /\ resident[Runtime(j)] # Model[j] /\ ~Room(j)
  /\ IF Runtime(j) = "ollama"
     THEN /\ free' = free + Held("ollama") /\ loaded' = Synced({})
          /\ resident' = [resident EXCEPT !["ollama"] = Nothing]
          /\ outside' = outside \ {"ollama"}
     ELSE UNCHANGED <<free, resident, loaded, outside>>
  /\ short' = [short EXCEPT ![j] = basis[j]]
  /\ Used(j) /\ End(j)

\* The runtime is down or refuses, before or after it has the model.
JobFails(j) ==
  /\ pc[j] \in {"load", "run"}
  /\ Used(j) /\ End(j)
  /\ UNCHANGED <<free, resident, loaded, outside, short>>

Finish(j) ==
  /\ pc[j] = "run"
  /\ loaded' = loaded \union {Model[j]}
  /\ Used(j) /\ End(j)
  /\ UNCHANGED <<free, resident, outside, short>>

\* A preparation ends when it has capacity; the Strata server it was for loads
\* its model then, if it has none.
Grant(p) ==
  /\ pc[p] = "load" /\ Goto(p, "granted") /\ holder' = Nobody
  /\ UNCHANGED <<gpu, offer, basis, short, late>>

\* What was measured for who is about to load has been taken.
Overtaken ==
  basis' = [u \in Users |-> IF pc[u] = "load" /\ basis[u] = "measured" /\ free' < Need[u]
                             THEN "overtaken" ELSE basis[u]]

StrataLoads(p) ==
  /\ pc[p] = "granted" /\ resident["strata"] = Nothing /\ Room(p)
  /\ free' = free - Size[Model[p]]
  /\ resident' = [resident EXCEPT !["strata"] = Model[p]]
  /\ quiet' = quiet \ {"strata"} /\ Goto(p, "loaded")
  /\ Overtaken
  /\ UNCHANGED <<loaded, outside, holder, offer, short, late>>

\* It has one, does not start, or finds no room.
StrataStays(p) ==
  /\ pc[p] = "granted" /\ Goto(p, "ended")
  /\ short' = IF resident["strata"] = Nothing /\ ~Room(p)
              THEN [short EXCEPT ![p] = basis[p]] ELSE short
  /\ UNCHANGED <<gpu, holder, offer, basis, late>>

-----------------------------------------------------------------------------
(* The world.                                                               *)

\* The idle grace of a runtime passes.
GracePasses(r) ==
  /\ r \notin quiet /\ Observable(r) /\ ~Active(r) /\ quiet' = quiet \union {r}
  /\ UNCHANGED <<free, resident, loaded, outside, holder, pc, offer, basis, short, late>>

\* Ollama's keep_alive passes: it unloads its model and nothing is recorded.
Expire ==
  /\ resident["ollama"] # Nothing /\ ~Running("ollama") /\ "ollama" \notin outside
  /\ free' = free + Held("ollama")
  /\ resident' = [resident EXCEPT !["ollama"] = Nothing]
  /\ UNCHANGED <<loaded, quiet, outside, holder, pc, offer, basis, short, late>>

\* Somebody asks for a snapshot, which looks at Ollama.
Snapshot ==
  /\ loaded' = Synced({resident["ollama"]})
  /\ UNCHANGED <<free, resident, quiet, outside, holder, pc, offer, basis, short, late>>

\* A client that is not the Housekeeper's uses the model that is there.
OutsideBegins(r) ==
  /\ r \notin outside /\ resident[r] # Nothing /\ outside' = outside \union {r}
  /\ UNCHANGED <<free, resident, loaded, quiet, holder, pc, offer, basis, short, late>>

\* It has the runtime load model m, in the place of one that serves nobody:
\* neither the gate nor a declaration is asked for.
OutsideLoads(r, m) ==
  /\ r \notin outside /\ ~Running(r) /\ m \in ModelsOf(r) \ {resident[r]}
  /\ free + Held(r) >= Size[m] /\ free' = free + Held(r) - Size[m]
  /\ resident' = [resident EXCEPT ![r] = m] /\ outside' = outside \union {r}
  /\ Overtaken
  /\ UNCHANGED <<loaded, quiet, holder, pc, offer, short, late>>

OutsideEnds(r) ==
  /\ r \in outside /\ outside' = outside \ {r} /\ quiet' = quiet \ {r}
  /\ UNCHANGED <<free, resident, loaded, holder, pc, offer, basis, short, late>>

-----------------------------------------------------------------------------
Init ==
  /\ free = Total /\ resident = [r \in Runtimes |-> Nothing]
  /\ loaded = {} /\ quiet = {} /\ outside = {} /\ holder = Nobody
  /\ pc = [u \in Users |-> "new"] /\ offer = [u \in Users |-> {}]
  /\ basis = [u \in Users |-> "none"] /\ short = [u \in Users |-> "none"]
  /\ late = {}

Plan(u) == PlanAdmits(u) \/ PlanReclaims(u) \/ PlanDenies(u) \/ PlanFails(u)

Reclaim(u) ==
  \/ \E r \in Runtimes : Discharge(u, r) \/ DischargeFails(u, r)
  \/ Recheck(u) \/ RecheckShort(u) \/ Exhausted(u)

JobStep(j) ==
  \/ Enter(j) \/ Plan(j) \/ Reclaim(j) \/ Poll(j)
  \/ Load(j) \/ LoadShort(j) \/ JobFails(j) \/ Finish(j)

PrepStep(p) == Plan(p) \/ Reclaim(p) \/ Grant(p)

World ==
  \/ \E r \in Runtimes : GracePasses(r)
  \/ \E r \in Public :
       OutsideBegins(r) \/ (\E m \in Models : OutsideLoads(r, m)) \/ OutsideEnds(r)
  \/ Expire \/ Snapshot

Next ==
  \/ \E j \in Jobs : Submit(j) \/ JobStep(j) \/ Deadline(j)
  \/ \E p \in Preps : TryEnter(p) \/ PrepStep(p) \/ StrataLoads(p) \/ StrataStays(p)
  \/ World

Spec == Init /\ [][Next]_vars

\* Threads run, and the deadline comes: every request to a runtime has a timeout.
FairSpec ==
  /\ Spec
  /\ \A j \in Jobs : WF_vars(JobStep(j)) /\ WF_vars(Deadline(j))
  /\ \A p \in Preps : WF_vars(PrepStep(p))

-----------------------------------------------------------------------------
(* Properties.                                                              *)

\* Every variable has its type.
TypeOK ==
  /\ free \in Nat /\ resident \in [Runtimes -> Models \union {Nothing}]
  /\ loaded \subseteq Models /\ quiet \subseteq Runtimes /\ outside \subseteq Public
  /\ holder \in Users \union {Nobody} /\ pc \in [Users -> Places]
  /\ offer \in [Users -> SUBSET Runtimes]
  /\ basis \in [Users -> Bases] /\ short \in [Users -> Bases]
  /\ late \subseteq Jobs

\* A job's model stays in VRAM for as long as the job runs: no admission of
\* another job or of a preparation, and no change of Ollama's model, takes it
\* away (the gate in execute_registered_job and prepare_capacity, held through
\* admission and run; the activity probes of discharge_runtime).
Undisturbed == \A j \in Jobs : pc[j] = "run" => resident[Runtime(j)] = Model[j]

\* A job admitted because the VRAM was free when measured finds it free when it
\* loads, whatever was discharged, expired or refused on the way, unless somebody
\* without the gate has left less than was measured in between: a client that
\* reaches a runtime directly, or a prepared Strata server.  What comes through
\* the Housekeeper takes it from nobody (ensure_capacity_for_job and its recheck;
\* the gate).
MeasuredFits == \A j \in Jobs : short[j] # "measured"

\* Admission rests on what the gate promises, of users that do not share: the
\* device has one user from the plan to the end of the run, through every
\* discharge, wait and retry, and a step that ends one admits no other
\* (execute_registered_job, prepare_capacity; DeviceGate has the gate itself).
Sharing == INSTANCE DeviceSharing WITH
  using <- {u \in Users : pc[u] \in Inside}, Sharers <- {}
ActsAsSharing == Sharing!Spec

\* Every job that is queued for the device ends, though telemetry may fail for
\* ever and other clients keep runtimes busy for ever (the deadline in
\* execute_job).
JobsEnd == \A j \in Jobs : pc[j] = "queued" ~> pc[j] = "ended"

\* What is admitted has the VRAM it declared: no model is loaded, for a job or
\* after a preparation, into VRAM that is not there (ensure_capacity_for_job).
AdmittedFits == \A u \in Users : Need[u] # 0 => short[u] = "none"
=============================================================================
