------------------------- MODULE DeviceCapacityProof -------------------------
(***************************************************************************)
(* Capacity admission, for any jobs, preparations, models, declarations    *)
(* and device, and whatever other clients do to the runtimes: a running    *)
(* job keeps its model; what was measured free for a job is free when it   *)
(* is used, unless somebody without the gate took it; and the device has   *)
(* one user at a time, as the gate promises.                               *)
(***************************************************************************)
EXTENDS DeviceCapacity, TLAPS

\* Who is inside has the gate.
Gated == \A u \in Users : pc[u] \in Inside => holder = u

\* Measurements are taken for declarations only.
Declared ==
  \A u \in Users : pc[u] \in {"reclaim", "recheck"} \/ basis[u] = "measured" => Need[u] # 0

\* The VRAM a job was admitted to is still free when it comes to load.
Kept == \A j \in Jobs : pc[j] = "load" /\ basis[j] = "measured" => free >= Need[j]

IInv == TypeOK /\ Gated /\ Declared /\ Undisturbed /\ Kept /\ MeasuredFits

-----------------------------------------------------------------------------
\* What the constants are for a user.
LEMMA UserFacts ==
  ASSUME NEW u \in Users
  PROVE  /\ Model[u] \in Models /\ Runtime(u) \in Runtimes
         /\ Size[Model[u]] \in Nat \ {0} /\ Need[u] \in Nat
         /\ Need[u] # 0 => Need[u] >= Size[Model[u]]
BY ModelsAssumption, NeedAssumption DEF Runtime

LEMMA HeldType == TypeOK => \A r \in Runtimes : Held(r) \in Nat
<1> SUFFICES ASSUME TypeOK, NEW r \in Runtimes PROVE Held(r) \in Nat
    OBVIOUS
<1>1. CASE resident[r] = Nothing
  BY <1>1 DEF Held
<1>2. CASE resident[r] \in Models
  BY <1>2, ModelsAssumption DEF Held
<1> QED BY <1>1, <1>2 DEF TypeOK

LEMMA BaseCase == Init => IInv
<1> SUFFICES ASSUME Init PROVE IInv
    OBVIOUS
<1>1. TypeOK
  BY NeedAssumption DEF Init, TypeOK, Places, Inside, Admission, Bases
<1>2. Gated /\ Declared /\ Undisturbed /\ Kept /\ MeasuredFits
  BY DEF Init, Gated, Declared, Undisturbed, Kept, MeasuredFits, Users, Inside, Admission
<1> QED BY <1>1, <1>2 DEF IInv
-----------------------------------------------------------------------------
\* Types are preserved by every step.
LEMMA TypeStep == TypeOK /\ [Next]_vars => TypeOK'
<1> SUFFICES ASSUME TypeOK, [Next]_vars PROVE TypeOK'
    OBVIOUS
<1> USE DEF TypeOK
<1>g. ASSUME NEW u \in Users, NEW place \in Places, Goto(u, place) PROVE pc' \in [Users -> Places]
  BY <1>g DEF Goto
<1>p. {"new", "queued", "plan", "reclaim", "recheck", "wait", "load", "run", "granted", "loaded",
       "ended"} = Places
  BY DEF Places, Inside, Admission
<1>e. ASSUME NEW u \in Users, End(u) PROVE
        /\ pc' \in [Users -> Places] /\ holder' \in Users \union {Nobody}
        /\ offer' \in [Users -> SUBSET Runtimes] /\ basis' \in [Users -> Bases] /\ late' \subseteq Jobs
  BY <1>e, <1>g, <1>p DEF End, Bases
<1>d. ASSUME NEW u \in Users, NEW waitable \in BOOLEAN, Deny(u, waitable) PROVE TypeOK'
  BY <1>d, <1>e, <1>g, <1>p DEF Deny, gpu
<1>a. ASSUME NEW u \in Users, NEW reason \in Bases, Admit(u, reason) PROVE TypeOK'
  BY <1>a, <1>g, <1>p DEF Admit, gpu
<1>h. \A r \in Runtimes : Held(r) \in Nat
  BY HeldType
<1>s. ASSUME NEW held PROVE Synced(held) \subseteq Models
  BY DEF Synced, ModelsOf
<1>o. Overtaken => basis' \in [Users -> Bases]
  BY DEF Overtaken, Bases
<1>1. ASSUME NEW u \in Users, Plan(u) PROVE TypeOK'
  <2>1. CASE PlanAdmits(u)
    BY <2>1, <1>a DEF PlanAdmits, Bases
  <2>2. CASE PlanReclaims(u)
    BY <2>2, <1>g, <1>p DEF PlanReclaims, Candidates, gpu
  <2>3. CASE PlanDenies(u)
    BY <2>3, <1>d DEF PlanDenies
  <2>4. CASE PlanFails(u)
    BY <2>4, <1>d DEF PlanFails
  <2> QED BY <1>1, <2>1, <2>2, <2>3, <2>4 DEF Plan
<1>2. ASSUME NEW u \in Users, Reclaim(u) PROVE TypeOK'
  <2>1. ASSUME NEW r \in Runtimes, Discharge(u, r) PROVE TypeOK'
    BY <2>1, <1>g, <1>h, <1>p DEF Discharge, Withdraw
  <2>2. ASSUME NEW r \in Runtimes, DischargeFails(u, r) PROVE TypeOK'
    BY <2>2 DEF DischargeFails, Withdraw, gpu
  <2>3. CASE Recheck(u)
    BY <2>3, <1>a DEF Recheck, Bases
  <2>4. CASE RecheckShort(u)
    BY <2>4, <1>g, <1>p DEF RecheckShort, gpu
  <2>5. CASE Exhausted(u)
    BY <2>5, <1>d DEF Exhausted
  <2> QED BY <1>2, <2>1, <2>2, <2>3, <2>4, <2>5 DEF Reclaim
<1>3. ASSUME NEW j \in Jobs, Submit(j) \/ JobStep(j) \/ Deadline(j) PROVE TypeOK'
  <2>u. j \in Users /\ Runtime(j) \in Runtimes /\ Model[j] \in Models /\ Size[Model[j]] \in Nat
    BY UserFacts DEF Users
  <2>1. CASE Submit(j)
    BY <2>1, <2>u, <1>g, <1>p DEF Submit, gpu
  <2>2. CASE Enter(j)
    BY <2>2, <2>u, <1>g, <1>p DEF Enter
  <2>3. CASE Poll(j)
    BY <2>3, <2>u, <1>g, <1>p DEF Poll, gpu
  <2>4. CASE Load(j)
    <3>1. free' \in Nat
      <4>1. CASE UNCHANGED free
        BY <4>1
      <4>2. CASE Room(j) /\ free' = free + Held(Runtime(j)) - Size[Model[j]]
        BY <4>2, <2>u, <1>h DEF Room
      <4> QED BY <2>4, <4>1, <4>2 DEF Load
    <3>2. resident' \in [Runtimes -> Models \union {Nothing}]
      BY <2>4, <2>u DEF Load
    <3> QED BY <2>4, <2>u, <1>g, <1>p, <1>s, <3>1, <3>2 DEF Load, Used
  <2>5. CASE LoadShort(j)
    <3>1. short' \in [Users -> Bases] /\ quiet' \subseteq Runtimes /\ outside' \subseteq Public
      BY <2>5, <2>u DEF LoadShort, Used
    <3>2. free' \in Nat /\ loaded' \subseteq Models /\ resident' \in [Runtimes -> Models \union {Nothing}]
      BY <2>5, <1>h, <1>s DEF LoadShort, Runtimes
    <3> QED BY <2>5, <2>u, <1>e, <3>1, <3>2 DEF LoadShort
  <2>6. CASE JobFails(j)
    BY <2>6, <2>u, <1>e DEF JobFails, Used
  <2>7. CASE Finish(j)
    BY <2>7, <2>u, <1>e DEF Finish, Used
  <2>8. CASE Deadline(j)
    BY <2>8 DEF Deadline, gpu
  <2> QED BY <1>1, <1>2, <1>3, <2>u, <2>1, <2>2, <2>3, <2>4, <2>5, <2>6, <2>7, <2>8 DEF JobStep
<1>4. ASSUME NEW p \in Preps, TryEnter(p) \/ PrepStep(p) \/ StrataLoads(p) \/ StrataStays(p)
      PROVE  TypeOK'
  <2>u. p \in Users /\ Model[p] \in Models /\ Size[Model[p]] \in Nat /\ Runtime(p) = "strata"
    BY UserFacts, ModelsAssumption DEF Users, Runtime
  <2>1. CASE TryEnter(p)
    BY <2>1, <2>u, <1>g, <1>p DEF TryEnter, gpu
  <2>2. CASE Grant(p)
    BY <2>2, <2>u, <1>g, <1>p DEF Grant, gpu
  <2>3. CASE StrataLoads(p)
    <3>1. free' \in Nat
      <4>1. Held("strata") = 0
        BY <2>3 DEF StrataLoads, Held
      <4> QED BY <2>3, <2>u, <4>1 DEF StrataLoads, Room
    <3>2. resident' \in [Runtimes -> Models \union {Nothing}] /\ quiet' \subseteq Runtimes
      BY <2>3, <2>u DEF StrataLoads, Runtimes
    <3> QED BY <2>3, <2>u, <1>g, <1>o, <1>p, <3>1, <3>2 DEF StrataLoads
  <2>4. CASE StrataStays(p)
    BY <2>4, <2>u, <1>g, <1>p DEF StrataStays, gpu
  <2> QED BY <1>1, <1>2, <1>4, <2>u, <2>1, <2>2, <2>3, <2>4 DEF PrepStep
<1>5. CASE World
  <2>1. ASSUME NEW r \in Runtimes, GracePasses(r) PROVE TypeOK'
    BY <2>1 DEF GracePasses
  <2>2. ASSUME NEW r \in Public, OutsideBegins(r) \/ OutsideEnds(r) PROVE TypeOK'
    BY <2>2 DEF OutsideBegins, OutsideEnds
  <2>5. ASSUME NEW r \in Public, NEW m \in Models, OutsideLoads(r, m) PROVE TypeOK'
    <3>1. r \in Runtimes /\ Size[m] \in Nat /\ Held(r) \in Nat
      BY <1>h, ModelsAssumption
    <3>2. free' \in Nat /\ resident' \in [Runtimes -> Models \union {Nothing}]
      BY <2>5, <3>1 DEF OutsideLoads
    <3> QED BY <2>5, <3>2, <1>o DEF OutsideLoads
  <2>3. CASE Expire
    BY <2>3, <1>h DEF Expire, Runtimes
  <2>4. CASE Snapshot
    BY <2>4, <1>s DEF Snapshot
  <2> QED BY <1>5, <2>1, <2>2, <2>3, <2>4, <2>5 DEF World
<1>6. CASE UNCHANGED vars
  BY <1>6 DEF vars, gpu
<1> QED BY <1>3, <1>4, <1>5, <1>6 DEF Next

\* Every variable of capacity admission keeps its type.
THEOREM CapacityTypes == Spec => []TypeOK
<1>1. Init => TypeOK
  BY BaseCase DEF IInv
<1> QED BY <1>1, TypeStep, PTL DEF Spec

-----------------------------------------------------------------------------
\* A user who moves keeps the invariant, if the device is as before, its basis
\* says what it is, and it stays on its side of the gate.
LEMMA Moves ==
  ASSUME IInv, TypeOK', NEW u \in Users, NEW place \in Places, Goto(u, place),
         place \in Inside <=> pc[u] \in Inside,
         place # "run", pc[u] # "loaded", UNCHANGED <<free, resident, holder, short>>,
         place \in {"reclaim", "recheck"} => Need[u] # 0,
         \/ basis' = basis /\ place # "load"
         \/ \E reason \in Bases :
              /\ basis' = [basis EXCEPT ![u] = reason]
              /\ reason = "measured" => Need[u] # 0 /\ Fits(u)
  PROVE  IInv'
<1> USE DEF IInv, TypeOK, Goto
<1>0. \A v \in Users : pc'[v] = IF v = u THEN place ELSE pc[v]
  OBVIOUS
<1>b. \A v \in Users : basis'[v] = basis[v] \/ (v = u /\ (basis'[u] = "measured" => Need[u] # 0 /\ Fits(u)))
  OBVIOUS
<1>1. Gated'
  BY <1>0 DEF Gated
<1>2. Declared'
  BY <1>0, <1>b DEF Declared
<1>3. Undisturbed'
  BY <1>0 DEF Undisturbed, Users
<1>4. Kept'
  BY <1>0, <1>b DEF Kept, Fits, Users
<1>5. MeasuredFits'
  BY DEF MeasuredFits
<1> QED BY <1>1, <1>2, <1>3, <1>4, <1>5

\* So does a user who ends, having run short only of what was not measured.
LEMMA Ends ==
  ASSUME IInv, TypeOK', NEW u \in Users, pc[u] \in Inside, End(u),
         \A r \in Runtimes : resident'[r] = resident[r] \/ r = Runtime(u),
         \A v \in Users : \/ short'[v] = short[v]
                          \/ v = u /\ short'[u] # "measured"
  PROVE  IInv'
<1> USE DEF IInv, TypeOK, End, Goto
<1>0. \A v \in Users : pc'[v] = IF v = u THEN "ended" ELSE pc[v]
  OBVIOUS
<1>b. \A v \in Users : basis'[v] = IF v = u THEN "none" ELSE basis[v]
  OBVIOUS
<1>i. \A v \in Users : pc[v] \in Inside => v = u
  BY DEF Gated
<1>1. Gated'
  BY <1>0, <1>i DEF Gated, Inside, Admission
<1>2. Declared'
  BY <1>0, <1>b DEF Declared
<1>3. Undisturbed'
  BY <1>0, <1>i DEF Undisturbed, Users, Inside
<1>4. Kept'
  BY <1>0, <1>i DEF Kept, Users, Inside
<1>5. MeasuredFits'
  BY DEF MeasuredFits, Users
<1> QED BY <1>1, <1>2, <1>3, <1>4, <1>5

LEMMA Denies ==
  ASSUME IInv, TypeOK', NEW u \in Users, NEW waitable \in BOOLEAN,
         pc[u] \in Inside, Deny(u, waitable)
  PROVE  IInv'
<1>1. CASE Goto(u, "wait") /\ UNCHANGED <<gpu, holder, offer, basis, short, late>>
  BY <1>1, Moves DEF gpu, Places, Inside, Admission
<1>2. CASE End(u) /\ UNCHANGED <<gpu, short>>
  BY <1>2, Ends DEF gpu
<1> QED BY <1>1, <1>2 DEF Deny

LEMMA Admits ==
  ASSUME IInv, TypeOK', NEW u \in Users, NEW reason \in Bases,
         pc[u] \in Inside, Admit(u, reason), reason = "measured" => Need[u] # 0 /\ Fits(u)
  PROVE  IInv'
BY Moves DEF Admit, gpu, Places, Inside, Admission

\* A step that moves nobody and takes no VRAM, nor a running job's model.
LEMMA Stays ==
  ASSUME IInv, TypeOK', UNCHANGED <<pc, holder, basis, short>>, free' >= free,
         \A j \in Jobs : pc[j] = "run" => resident'[Runtime(j)] = resident[Runtime(j)]
  PROVE  IInv'
<1> USE DEF IInv
<1>1. Gated' /\ Declared' /\ Undisturbed' /\ MeasuredFits'
  BY DEF Gated, Declared, Undisturbed, MeasuredFits
<1>2. Kept'
  BY NeedAssumption DEF Kept, TypeOK, Users
<1> QED BY <1>1, <1>2

-----------------------------------------------------------------------------
LEMMA PlanStep == ASSUME IInv, TypeOK', NEW u \in Users, Plan(u) PROVE IInv'
<1>0. pc[u] = "plan" /\ "plan" \in Inside
  BY DEF Plan, PlanAdmits, PlanReclaims, PlanDenies, PlanFails, Short, Inside, Admission
<1>1. CASE PlanAdmits(u)
  BY <1>0, <1>1, Admits DEF PlanAdmits, Bases
<1>2. CASE PlanReclaims(u)
  BY <1>0, <1>2, Moves DEF PlanReclaims, Short, gpu, Places, Inside, Admission
<1>3. CASE PlanDenies(u)
  BY <1>0, <1>3, Denies DEF PlanDenies
<1>4. CASE PlanFails(u)
  BY <1>0, <1>4, Denies DEF PlanFails
<1> QED BY <1>1, <1>2, <1>3, <1>4 DEF Plan

\* A discharge takes the model of a runtime that has no job running, since only
\* who has the gate discharges.
LEMMA ReclaimStep == ASSUME IInv, TypeOK', NEW u \in Users, Reclaim(u) PROVE IInv'
<1>0. pc[u] \in {"reclaim", "recheck"} /\ pc[u] \in Inside /\ Need[u] # 0
  BY DEF Reclaim, Discharge, DischargeFails, Recheck, RecheckShort, Exhausted, Inside, Admission,
         IInv, Declared
<1>1. ASSUME NEW r \in Runtimes, Discharge(u, r) PROVE IInv'
  <2> USE DEF IInv, TypeOK
  <2>0. \A v \in Users : pc'[v] = IF v = u THEN "recheck" ELSE pc[v]
    BY <1>1 DEF Discharge, Goto
  <2>i. \A v \in Users : pc[v] \in Inside => v = u
    BY <1>0 DEF Gated
  <2>1. Gated' /\ Declared'
    BY <1>0, <1>1, <2>0 DEF Gated, Declared, Discharge
  <2>2. Undisturbed' /\ Kept'
    BY <2>0, <2>i DEF Undisturbed, Kept, Users, Inside
  <2>3. MeasuredFits'
    BY <1>1 DEF MeasuredFits, Discharge
  <2> QED BY <2>1, <2>2, <2>3
<1>2. ASSUME NEW r \in Runtimes, DischargeFails(u, r) PROVE IInv'
  BY <1>2, Stays DEF DischargeFails, gpu, IInv, TypeOK
<1>3. CASE Recheck(u)
  BY <1>0, <1>3, Admits DEF Recheck, Bases
<1>4. CASE RecheckShort(u)
  BY <1>0, <1>4, Moves DEF RecheckShort, gpu, Places, Inside, Admission
<1>5. CASE Exhausted(u)
  BY <1>0, <1>5, Denies DEF Exhausted
<1> QED BY <1>1, <1>2, <1>3, <1>4, <1>5 DEF Reclaim

\* A job that loads is alone inside; what was measured for it is enough.
LEMMA JobStepInv ==
  ASSUME IInv, TypeOK', NEW j \in Jobs, Submit(j) \/ JobStep(j) \/ Deadline(j)
  PROVE  IInv'
<1> USE DEF IInv, TypeOK
<1>u. j \in Users /\ Runtime(j) \in Runtimes /\ Model[j] \in Models
      /\ Size[Model[j]] \in Nat /\ Need[j] \in Nat /\ (Need[j] # 0 => Need[j] >= Size[Model[j]])
  BY UserFacts DEF Users
<1>1. CASE Submit(j)
  BY <1>1, <1>u, Moves DEF Submit, gpu, Places, Inside, Admission
<1>2. CASE Enter(j)
  <2>0. \A v \in Users : pc'[v] = IF v = j THEN "plan" ELSE pc[v]
    BY <1>2, <1>u DEF Enter, Goto
  <2>i. \A v \in Users : pc[v] \notin Inside
    BY <1>2, UsersAssumption DEF Enter, Gated
  <2>1. Gated' /\ Declared'
    BY <1>2, <2>0, <2>i DEF Gated, Declared, Enter
  <2>2. Undisturbed' /\ Kept'
    BY <2>0, <2>i DEF Undisturbed, Kept, Users, Inside
  <2>3. MeasuredFits'
    BY <1>2 DEF MeasuredFits, Enter
  <2> QED BY <2>1, <2>2, <2>3
<1>3. CASE Poll(j)
  BY <1>3, <1>u, Moves DEF Poll, gpu, Places, Inside, Admission
<1>4. CASE Deadline(j)
  BY <1>4, Stays DEF Deadline, gpu
<1>5. CASE Load(j)
  <2>0. \A v \in Users : pc'[v] = IF v = j THEN "run" ELSE pc[v]
    BY <1>5, <1>u DEF Load, Goto
  <2>i. \A v \in Users : pc[v] \in Inside => v = j
    BY <1>5, <1>u DEF Gated, Load, Inside
  <2>1. Gated' /\ Declared'
    BY <1>5, <1>u, <2>0 DEF Gated, Declared, Load, Inside
  <2>2. resident'[Runtime(j)] = Model[j]
    BY <1>5, <1>u DEF Load
  <2>3. Undisturbed' /\ Kept'
    BY <2>0, <2>2, <2>i DEF Undisturbed, Kept, Users, Inside
  <2>4. MeasuredFits'
    BY <1>5 DEF MeasuredFits, Load
  <2> QED BY <2>1, <2>3, <2>4
<1>6. CASE LoadShort(j)
  <2>1. pc[j] \in Inside
    BY <1>6 DEF LoadShort, Inside
  <2>2. basis[j] # "measured"
    <3> SUFFICES ASSUME basis[j] = "measured" PROVE FALSE
        OBVIOUS
    <3>1. free >= Need[j] /\ Need[j] # 0
      BY <1>6, <1>u DEF Kept, Declared, LoadShort
    <3>2. Held(Runtime(j)) \in Nat
      BY <1>u, HeldType
    <3> QED BY <1>6, <1>u, <3>1, <3>2 DEF LoadShort, Room
  <2>3. \A r \in Runtimes : resident'[r] = resident[r] \/ r = Runtime(j)
    BY <1>6 DEF LoadShort
  <2> QED BY <1>6, <1>u, <2>1, <2>2, <2>3, Ends DEF LoadShort
<1>7. CASE JobFails(j)
  BY <1>7, <1>u, Ends DEF JobFails, Inside
<1>8. CASE Finish(j)
  BY <1>8, <1>u, Ends DEF Finish, Inside
<1> QED BY <1>1, <1>2, <1>3, <1>4, <1>5, <1>6, <1>7, <1>8, <1>u, PlanStep, ReclaimStep DEF JobStep

\* Somebody without the gate takes VRAM: what had been measured is overtaken, or
\* is still there.
LEMMA Overtakes ==
  ASSUME IInv, TypeOK', Overtaken
  PROVE  \A u \in Users : \/ basis'[u] = basis[u]
                          \/ basis'[u] = "overtaken" /\ pc[u] = "load"
  BY DEF Overtaken

LEMMA OvertakesKept ==
  ASSUME IInv, TypeOK', Overtaken, \A j \in Jobs : pc'[j] = "load" => pc[j] = "load"
  PROVE  Declared' => Kept'
  BY NeedAssumption DEF Overtaken, Kept, Users, Declared, IInv, TypeOK

\* A Strata server that loads is one of them.
LEMMA PrepStepInv ==
  ASSUME IInv, TypeOK', NEW p \in Preps,
         TryEnter(p) \/ PrepStep(p) \/ StrataLoads(p) \/ StrataStays(p)
  PROVE  IInv'
<1> USE DEF IInv, TypeOK
<1>u. p \in Users /\ p \notin Jobs /\ Runtime(p) = "strata"
  BY UsersAssumption, ModelsAssumption DEF Users, Runtime
<1>1. CASE TryEnter(p) /\ holder = Nobody
  <2>0. \A v \in Users : pc'[v] = IF v = p THEN "plan" ELSE pc[v]
    BY <1>1, <1>u DEF TryEnter, Goto
  <2>i. \A v \in Users : pc[v] \notin Inside
    BY <1>1, UsersAssumption DEF Gated
  <2>1. Gated' /\ Declared'
    BY <1>1, <2>0, <2>i DEF Gated, Declared, TryEnter
  <2>2. Undisturbed' /\ Kept'
    BY <2>0, <2>i DEF Undisturbed, Kept, Users, Inside
  <2>3. MeasuredFits'
    BY <1>1 DEF MeasuredFits, TryEnter
  <2> QED BY <2>1, <2>2, <2>3
<1>2. CASE TryEnter(p) /\ holder # Nobody
  BY <1>2, <1>u, Moves DEF TryEnter, gpu, Places, Inside, Admission
<1>3. CASE Grant(p)
  <2>0. \A v \in Users : pc'[v] = IF v = p THEN "granted" ELSE pc[v]
    BY <1>3, <1>u DEF Grant, Goto
  <2>i. \A v \in Users : pc[v] \in Inside => v = p
    BY <1>3, <1>u DEF Gated, Grant, Inside
  <2>1. Gated' /\ Declared'
    BY <1>3, <2>0, <2>i DEF Gated, Declared, Grant, Inside, Admission
  <2>2. Undisturbed' /\ Kept'
    BY <1>u, <2>0, <2>i DEF Undisturbed, Kept, Users, Inside
  <2>3. MeasuredFits'
    BY <1>3 DEF MeasuredFits, Grant
  <2> QED BY <2>1, <2>2, <2>3
<1>4. CASE StrataLoads(p)
  <2>0. \A v \in Users : pc'[v] = IF v = p THEN "loaded" ELSE pc[v]
    BY <1>4, <1>u DEF StrataLoads, Goto
  <2>1. Gated' /\ MeasuredFits'
    BY <1>4, <2>0 DEF Gated, MeasuredFits, StrataLoads, Inside, Admission
  <2>2. Declared'
    BY <1>4, <2>0, Overtakes DEF Declared, StrataLoads
  <2>3. Kept'
    BY <1>4, <1>u, <2>0, <2>2, OvertakesKept DEF StrataLoads, Users
  <2>4. Undisturbed'
    <3> SUFFICES ASSUME NEW j \in Jobs, pc'[j] = "run" PROVE resident'[Runtime(j)] = Model[j]
        BY DEF Undisturbed
    <3>1. j \in Users /\ Runtime(j) \in Runtimes /\ Model[j] \in Models
      BY UserFacts DEF Users
    <3>2. resident[Runtime(j)] = Model[j]
      BY <2>0, <3>1 DEF Undisturbed
    <3>3. Runtime(j) # "strata"
      BY <1>4, <3>1, <3>2, ModelsAssumption DEF StrataLoads
    <3> QED BY <1>4, <3>1, <3>2, <3>3 DEF StrataLoads
  <2> QED BY <2>1, <2>2, <2>3, <2>4
<1>5. CASE StrataStays(p)
  <2>0. \A v \in Users : pc'[v] = IF v = p THEN "ended" ELSE pc[v]
    BY <1>5, <1>u DEF StrataStays, Goto
  <2>1. Gated' /\ Declared'
    BY <1>5, <2>0 DEF Gated, Declared, StrataStays, Inside, Admission
  <2>2. Undisturbed' /\ Kept'
    BY <1>5, <1>u, <2>0 DEF Undisturbed, Kept, Users, StrataStays, gpu
  <2>3. MeasuredFits'
    BY <1>5, <1>u DEF MeasuredFits, StrataStays
  <2> QED BY <2>1, <2>2, <2>3
<1> QED BY <1>1, <1>2, <1>3, <1>4, <1>5, <1>u, PlanStep, ReclaimStep DEF PrepStep

LEMMA WorldStep == ASSUME IInv, TypeOK', World PROVE IInv'
<1> USE DEF IInv, TypeOK
<1>1. ASSUME NEW r \in Runtimes, GracePasses(r) PROVE IInv'
  BY <1>1, Stays DEF GracePasses
<1>2. ASSUME NEW r \in Public, OutsideBegins(r) \/ OutsideEnds(r) PROVE IInv'
  BY <1>2, Stays DEF OutsideBegins, OutsideEnds
<1>5. ASSUME NEW r \in Public, NEW m \in Models, OutsideLoads(r, m) PROVE IInv'
  <2>0. r \in Runtimes /\ UNCHANGED <<pc, holder, short>> /\ Overtaken
    BY <1>5, ModelsAssumption DEF OutsideLoads
  <2>1. Gated' /\ MeasuredFits'
    BY <2>0 DEF Gated, MeasuredFits
  <2>2. Declared'
    BY <2>0, Overtakes DEF Declared
  <2>3. Kept'
    BY <2>0, <2>2, OvertakesKept
  <2>4. Undisturbed'
    <3> SUFFICES ASSUME NEW j \in Jobs, pc[j] = "run" PROVE resident'[Runtime(j)] = Model[j]
        BY <2>0 DEF Undisturbed
    <3>1. Runtime(j) # r
      BY <1>5 DEF OutsideLoads, Running
    <3> QED BY <1>5, <2>0, <3>1, UserFacts DEF OutsideLoads, Undisturbed, Users
  <2> QED BY <2>1, <2>2, <2>3, <2>4
<1>3. CASE Expire
  <2>1. Held("ollama") \in Nat
    BY HeldType DEF Runtimes
  <2>2. \A j \in Jobs : pc[j] = "run" => Runtime(j) # "ollama"
    BY <1>3 DEF Expire, Running
  <2>3. \A j \in Jobs : Runtime(j) \in Runtimes
    BY UserFacts DEF Users
  <2> QED BY <1>3, <2>1, <2>2, <2>3, Stays DEF Expire
<1>4. CASE Snapshot
  BY <1>4, Stays DEF Snapshot
<1> QED BY <1>1, <1>2, <1>3, <1>4, <1>5 DEF World

LEMMA InvariantHolds == Spec => []IInv
<1>1. IInv /\ [Next]_vars => IInv'
  <2> SUFFICES ASSUME IInv, [Next]_vars PROVE IInv'
      OBVIOUS
  <2>t. TypeOK'
    BY TypeStep DEF IInv
  <2>1. CASE \E j \in Jobs : Submit(j) \/ JobStep(j) \/ Deadline(j)
    BY <2>t, <2>1, JobStepInv
  <2>2. CASE \E p \in Preps : TryEnter(p) \/ PrepStep(p) \/ StrataLoads(p) \/ StrataStays(p)
    BY <2>t, <2>2, PrepStepInv
  <2>3. CASE World
    BY <2>t, <2>3, WorldStep
  <2>4. CASE UNCHANGED vars
    BY <2>4, <2>t, Stays DEF vars, gpu, IInv, TypeOK
  <2> QED BY <2>1, <2>2, <2>3, <2>4 DEF Next
<1> QED BY <1>1, BaseCase, PTL DEF Spec

\* A job's model stays in VRAM while the job runs.
THEOREM CapacityUndisturbed == Spec => []Undisturbed
<1>1. IInv => Undisturbed
  BY DEF IInv
<1> QED BY <1>1, InvariantHolds, PTL

\* A job admitted on a measurement finds what was measured, unless somebody without
\* the gate, a client of a runtime or a prepared Strata server, has taken it.
THEOREM CapacityMeasured == Spec => []MeasuredFits
<1>1. IInv => MeasuredFits
  BY DEF IInv
<1> QED BY <1>1, InvariantHolds, PTL

\* A step of a user has it enter, leave or stay; others neither come nor go.
LEMMA OneMoves ==
  ASSUME TypeOK, NEW u \in Users, NEW place \in Places, Goto(u, place)
  PROVE  {v \in Users : pc'[v] \in Inside}
           = IF place \in Inside THEN {v \in Users : pc[v] \in Inside} \union {u}
             ELSE {v \in Users : pc[v] \in Inside} \ {u}
BY DEF TypeOK, Goto

\* The device is used as DeviceSharing says, by users none of which shares:
\* what DeviceGate implements is what capacity admission relies on.
THEOREM CapacityActsAsSharing == Spec => ActsAsSharing
<1> DEFINE using == {u \in Users : pc[u] \in Inside}
<1>1. Init => Sharing!Init
  BY DEF Init, Sharing!Init, Inside, Admission
<1>2. IInv /\ [Next]_vars => [Sharing!Next]_using
  <2> SUFFICES ASSUME IInv, [Next]_vars PROVE [Sharing!Next]_using
      OBVIOUS
  <2> USE DEF IInv
  <2>p. Places = {"new", "queued", "granted", "loaded", "ended"} \union Inside
        /\ Inside = {"plan", "reclaim", "recheck", "wait", "load", "run"}
    BY DEF Places, Inside, Admission
  <2>m. ASSUME NEW u \in Users, NEW place \in Places, Goto(u, place),
               pc[u] \in Inside \/ place \notin Inside \/ holder = Nobody
        PROVE  [Sharing!Next]_using
    <3>1. using' = IF place \in Inside THEN using \union {u} ELSE using \ {u}
      BY <2>m, OneMoves
    <3>2. CASE pc[u] \in Inside /\ place \in Inside
      BY <3>1, <3>2
    <3>3. CASE place \notin Inside
      BY <3>1, <3>3 DEF Sharing!Next, Sharing!Leave
    <3>4. CASE pc[u] \notin Inside /\ place \in Inside /\ holder = Nobody
      <4>1. using = {}
        BY <3>4, UsersAssumption DEF Gated
      <4> QED BY <3>1, <3>4, <4>1 DEF Sharing!Next, Sharing!Enter
    <3> QED BY <2>m, <3>2, <3>3, <3>4
  <2>s. ASSUME UNCHANGED pc PROVE [Sharing!Next]_using
    BY <2>s
  <2> HIDE DEF using
  <2>d. ASSUME NEW u \in Users, NEW waitable, pc[u] \in Inside, Deny(u, waitable)
        PROVE  [Sharing!Next]_using
    BY <2>d, <2>m, <2>p DEF Deny, End
  <2>1. ASSUME NEW u \in Users, Plan(u) \/ Reclaim(u) PROVE [Sharing!Next]_using
    <3>1. CASE PlanAdmits(u) \/ PlanReclaims(u) \/ Recheck(u) \/ RecheckShort(u)
      BY <2>m, <2>p, <3>1
      DEF PlanAdmits, PlanReclaims, Short, Recheck, RecheckShort, Admit
    <3>2. CASE PlanDenies(u) \/ PlanFails(u) \/ Exhausted(u)
      BY <2>d, <2>p, <3>2 DEF PlanDenies, PlanFails, Exhausted, Short
    <3>3. CASE \E r \in Runtimes : Discharge(u, r) \/ DischargeFails(u, r)
      BY <2>m, <2>p, <2>s, <3>3 DEF Discharge, DischargeFails
    <3> QED BY <2>1, <3>1, <3>2, <3>3 DEF Plan, Reclaim
  <2>2. ASSUME NEW j \in Jobs, Submit(j) \/ JobStep(j) \/ Deadline(j)
        PROVE  [Sharing!Next]_using
    <3>u. j \in Users
      BY DEF Users
    <3>1. CASE Submit(j) \/ Enter(j) \/ Poll(j) \/ Load(j)
      BY <2>m, <2>p, <3>u, <3>1 DEF Submit, Enter, Poll, Load
    <3>2. CASE LoadShort(j) \/ JobFails(j) \/ Finish(j)
      BY <2>m, <2>p, <3>u, <3>2 DEF LoadShort, JobFails, Finish, End
    <3>3. CASE Deadline(j)
      BY <2>s, <3>3 DEF Deadline
    <3> QED BY <2>1, <2>2, <3>u, <3>1, <3>2, <3>3 DEF JobStep
  <2>3. ASSUME NEW p \in Preps, TryEnter(p) \/ PrepStep(p) \/ StrataLoads(p) \/ StrataStays(p)
        PROVE  [Sharing!Next]_using
    <3>u. p \in Users
      BY DEF Users
    <3>1. CASE TryEnter(p) \/ Grant(p) \/ StrataLoads(p) \/ StrataStays(p)
      BY <2>m, <2>p, <3>u, <3>1 DEF TryEnter, Grant, StrataLoads, StrataStays
    <3> QED BY <2>1, <2>3, <3>u, <3>1 DEF PrepStep
  <2>4. CASE World
    BY <2>s, <2>4
    DEF World, GracePasses, OutsideBegins, OutsideLoads, OutsideEnds, Expire, Snapshot
  <2>5. CASE UNCHANGED vars
    BY <2>s, <2>5 DEF vars
  <2> QED BY <2>2, <2>3, <2>4, <2>5 DEF Next
<1> QED BY <1>1, <1>2, InvariantHolds, PTL DEF ActsAsSharing, Sharing!Spec, Spec
=============================================================================
