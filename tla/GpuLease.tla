------------------------------ MODULE GpuLease ------------------------------
(***************************************************************************)
(* The lease file of one GPU, or of one dispatched handle                  *)
(* (program/runtime/gpu/lease.mjs).  Every process that wants the lease    *)
(* works on the same file with separate, individually atomic system calls: *)
(* an exclusive create that leaves the file empty, a write, a read, a      *)
(* truncating rewrite, an unlink.  What can happen between two of them is  *)
(* what the module is about.                                               *)
(*                                                                         *)
(* Time is abstracted to whether the lease on disk has outlived its TTL.   *)
(***************************************************************************)
EXTENDS Naturals, FiniteSets

CONSTANTS
  Procs,        \* processes that contend for the lease
  Handles,      \* GPU duties they want it for
  OwnerOf,      \* OwnerOf[p]: the owner name process p writes in the lease
  Prompt,       \* TRUE: a live holder heartbeats well within the TTL
  Swift,        \* TRUE: nobody makes a new lease while a contender that has found
                \* the old one stale is yet to remove it
  MaxCrashes,   \* bound: how many crashes a behaviour may contain
  Absent,       \* there is no lease file
  Empty         \* the file is created or truncated, nothing written yet

ASSUME PromptAssumption == Prompt \in BOOLEAN /\ Swift \in BOOLEAN
ASSUME CrashAssumption == MaxCrashes \in Nat
ASSUME OwnerAssumption == DOMAIN OwnerOf = Procs

VARIABLES
  file,      \* the lease file: Absent, Empty or a lease
  writers,   \* processes whose open descriptor is the file now in place
  pc,        \* the step each process takes next
  req,       \* the handle each process asks, or asked, the lease for
  tries,     \* attempts of the acquisition loop already spent
  crashes    \* crashes so far

vars == <<file, writers, pc, req, tries, crashes>>

Owners == {OwnerOf[p] : p \in Procs}

Lease == [owner : Owners, handle : Handles, stale : BOOLEAN]

ASSUME FileAssumption == Absent # Empty /\ Absent \notin Lease /\ Empty \notin Lease

Attempts == 2

Steps == {"idle", "open", "read", "remove", "write", "hold", "beat",
          "beatwrite", "unlink", "down"}

-----------------------------------------------------------------------------
(* What a process writes, and whether the file carries it.  A file that     *)
(* does not parse reads as no lease at all.                                  *)

\* Mutant: owner and handle change places in the text.
MineSwapped(p) == [owner |-> req[p], handle |-> OwnerOf[p], stale |-> FALSE]

Mine(p) == [owner |-> OwnerOf[p], handle |-> req[p], stale |-> FALSE]

Written == file \in Lease

OwnedBy(p) == Written /\ file.owner = OwnerOf[p] /\ file.handle = req[p]

Goto(p, step) == pc' = [pc EXCEPT ![p] = step]

\* The acquisition loop gives up as busy after its second attempt.
NextAttempt(p) ==
  /\ tries' = [tries EXCEPT ![p] = @ + 1]
  /\ Goto(p, IF tries[p] + 1 < Attempts THEN "open" ELSE "idle")

\* What reaches the file when p writes through a descriptor opened before:
\* nothing, if the file has been unlinked since.
WriteThrough(p) ==
  /\ file' = IF p \in writers THEN Mine(p) ELSE file
  /\ writers' = writers \ {p}

-----------------------------------------------------------------------------
Init ==
  /\ file = Absent
  /\ writers = {}
  /\ pc = [p \in Procs |-> "idle"]
  /\ req \in [Procs -> Handles]
  /\ tries = [p \in Procs |-> 0]
  /\ crashes = 0

\* A worker that has claimed envelope h asks for the lease.  The claim is
\* exclusive, so no two live processes ask on behalf of the same handle; that of
\* a crashed one may be taken up by another.
Request(p, h) ==
  /\ pc[p] = "idle"
  /\ \A q \in Procs \ {p} : pc[q] \notin {"idle", "down"} => req[q] # h
  /\ req' = [req EXCEPT ![p] = h]
  /\ tries' = [tries EXCEPT ![p] = 0]
  /\ Goto(p, "open")
  /\ UNCHANGED <<file, writers, crashes>>

\* open(target, "wx") succeeds: the file exists from now on, still empty.
Create(p) ==
  /\ pc[p] = "open"
  /\ file = Absent
  /\ Swift => \A q \in Procs : pc[q] # "remove"
  /\ file' = Empty
  /\ writers' = {p}
  /\ Goto(p, "write")
  /\ UNCHANGED <<req, tries, crashes>>

\* open(target, "wx") fails with EEXIST.
CreateFails(p) ==
  /\ pc[p] = "open"
  /\ file # Absent
  /\ Goto(p, "read")
  /\ UNCHANGED <<file, writers, req, tries, crashes>>

\* The lease text is written through the descriptor the create returned.
WriteLease(p) ==
  /\ pc[p] = "write"
  /\ WriteThrough(p)
  /\ Goto(p, "hold")
  /\ UNCHANGED <<req, tries, crashes>>

\* Mutant: only the owner name is compared, not the handle.
ExamineOwnerOnly(p) ==
  /\ pc[p] = "read"
  /\ \/ ~Written /\ NextAttempt(p)
     \/ /\ Written /\ ~file.stale
        /\ Goto(p, IF file.owner = OwnerOf[p] THEN "hold" ELSE "idle")
        /\ UNCHANGED tries
     \/ Written /\ file.stale /\ Goto(p, "remove") /\ UNCHANGED tries
  /\ UNCHANGED <<file, writers, req, crashes>>

\* Mutant: a file that does not parse is taken for stale, and removed.
ExamineUnreadStale(p) ==
  /\ pc[p] = "read"
  /\ \/ ~Written /\ Goto(p, "remove") /\ UNCHANGED tries
     \/ /\ Written /\ ~file.stale
        /\ Goto(p, IF OwnedBy(p) THEN "hold" ELSE "idle")
        /\ UNCHANGED tries
     \/ Written /\ file.stale /\ Goto(p, "remove") /\ UNCHANGED tries
  /\ UNCHANGED <<file, writers, req, crashes>>

\* Mutant: a stale lease is as busy as a fresh one.
ExamineNeverStale(p) ==
  /\ pc[p] = "read"
  /\ \/ ~Written /\ NextAttempt(p)
     \/ Written /\ Goto(p, IF OwnedBy(p) THEN "hold" ELSE "idle") /\ UNCHANGED tries
  /\ UNCHANGED <<file, writers, req, crashes>>

\* The loop reads the lease that is in its way: nothing readable, another
\* attempt; its own, acquired; fresh and another's, busy; stale, remove it.
Examine(p) ==
  /\ pc[p] = "read"
  /\ \/ ~Written /\ NextAttempt(p)
     \/ /\ Written /\ ~file.stale
        /\ Goto(p, IF OwnedBy(p) THEN "hold" ELSE "idle")
        /\ UNCHANGED tries
     \/ Written /\ file.stale /\ Goto(p, "remove") /\ UNCHANGED tries
  /\ UNCHANGED <<file, writers, req, crashes>>

\* rm(target, force) of whatever file is in place by now.
RemoveStale(p) ==
  /\ pc[p] = "remove"
  /\ file' = Absent
  /\ writers' = {}
  /\ NextAttempt(p)
  /\ UNCHANGED <<req, crashes>>

\* A heartbeat reads the lease first.  When it is not p's the heartbeat
\* returns null, which the worker ignores: it goes on holding.
HeartbeatRead(p) ==
  /\ pc[p] = "hold"
  /\ OwnedBy(p)
  /\ Goto(p, "beat")
  /\ UNCHANGED <<file, writers, req, tries, crashes>>

\* writeFile truncates the file in place, or creates it anew.
HeartbeatTruncate(p) ==
  /\ pc[p] = "beat"
  /\ file' = Empty
  /\ writers' = writers \cup {p}
  /\ Goto(p, "beatwrite")
  /\ UNCHANGED <<req, tries, crashes>>

HeartbeatWrite(p) ==
  /\ pc[p] = "beatwrite"
  /\ WriteThrough(p)
  /\ Goto(p, "hold")
  /\ UNCHANGED <<req, tries, crashes>>

\* A release reads the lease, and leaves alone one that is not p's.
ReleaseRead(p) ==
  /\ pc[p] = "hold"
  /\ Goto(p, IF OwnedBy(p) THEN "unlink" ELSE "idle")
  /\ UNCHANGED <<file, writers, req, tries, crashes>>

ReleaseRemove(p) ==
  /\ pc[p] = "unlink"
  /\ file' = Absent
  /\ writers' = {}
  /\ Goto(p, "idle")
  /\ UNCHANGED <<req, tries, crashes>>

-----------------------------------------------------------------------------
(* The environment: process crashes and the passing of time.                *)

Crash(p) ==
  /\ pc[p] # "down"
  /\ crashes < MaxCrashes
  /\ crashes' = crashes + 1
  /\ writers' = writers \ {p}
  /\ Goto(p, "down")
  /\ UNCHANGED <<file, req, tries>>

Restart(p) ==
  /\ pc[p] = "down"
  /\ Goto(p, "idle")
  /\ UNCHANGED <<file, writers, req, tries, crashes>>

\* A process that still works under the lease, or is releasing it.
Using(p) == pc[p] \in {"hold", "beat", "beatwrite", "unlink"}

\* The TTL passes without a heartbeat.
Expire ==
  /\ Written
  /\ ~file.stale
  /\ Prompt => \A p \in Procs : Using(p) => ~OwnedBy(p)
  /\ file' = [file EXCEPT !.stale = TRUE]
  /\ UNCHANGED <<writers, pc, req, tries, crashes>>

-----------------------------------------------------------------------------
Acquiring(p) ==
  Create(p) \/ CreateFails(p) \/ WriteLease(p) \/ Examine(p) \/ RemoveStale(p)

Holding(p) ==
  \/ HeartbeatRead(p) \/ HeartbeatTruncate(p) \/ HeartbeatWrite(p)
  \/ ReleaseRead(p) \/ ReleaseRemove(p)

Next ==
  \/ \E p \in Procs :
       \/ \E h \in Handles : Request(p, h)
       \/ Acquiring(p) \/ Holding(p) \/ Crash(p) \/ Restart(p)
  \/ Expire

Spec == Init /\ [][Next]_vars

\* Every call a live process has begun goes on to its end; the work under the
\* lease ends too (a worker's polls are bounded); the TTL runs out when nobody
\* renews the lease.  Asking for the lease and crashing are nobody's duty.
Fairness ==
  /\ \A p \in Procs :
       /\ WF_vars(Acquiring(p))
       /\ WF_vars(HeartbeatTruncate(p) \/ HeartbeatWrite(p) \/ ReleaseRemove(p))
       /\ SF_vars(ReleaseRead(p))
       /\ WF_vars(Restart(p))
  /\ WF_vars(Expire)

\* Workers come back for the lease as long as there is work.
Demand == \A p \in Procs : WF_vars(\E h \in Handles : Request(p, h))

FairSpec == Spec /\ Fairness
BusySpec == FairSpec /\ Demand

-----------------------------------------------------------------------------
(* Properties.                                                              *)

TypeOK ==
  /\ file \in Lease \cup {Absent, Empty}
  /\ writers \subseteq Procs
  /\ pc \in [Procs -> Steps]
  /\ req \in [Procs -> Handles]
  /\ tries \in [Procs -> Nat]
  /\ crashes \in Nat

\* Two processes never believe at once that they hold the lease, through crashes,
\* restarts, expiry and take-overs: what acquireGpuLease promises to the workers
\* of one GPU, where no heartbeat is late and no take-over is overtaken.
Believes(p) == pc[p] \in {"hold", "beat", "beatwrite"}

MutualExclusion ==
  \A p, q \in Procs : Believes(p) /\ Believes(q) => p = q

\* The lease is an exclusive lock held by whoever believes to hold it.
Lock == INSTANCE ExclusiveLock WITH holders <- {p \in Procs : Believes(p)}

\* Seen from its holders, every step of the file protocol takes a free lock,
\* gives it back, as a crash of the holder does, or changes nothing: a contender
\* that finds a lease stale takes over nothing that is in use, and a process
\* that finds the lease its own (that of its own crashed past, or of a namesake)
\* takes what nobody holds.
ActsAsLock == Lock!Spec

\* An empty lease file that nobody is about to write.
Torn == file = Empty /\ writers = {}

\* Once it is written, a lease is given up in the end, by its holder or by a
\* contender that finds it stale, unless a crash leaves the file torn.
LeaseComesFree == Written ~> (file = Absent \/ Torn)
=============================================================================
