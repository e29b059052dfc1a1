----------------------------- MODULE Federation -----------------------------
(***************************************************************************)
(* Housekeeper services that forward jobs to one another                   *)
(* (container/gpu-housekeeper/service/server.py, submit_job and            *)
(* refresh_forwarded_job).  A host that is asked to run a job may pass it  *)
(* on to a peer, once; it then keeps a proxy record, and asks the peer for *)
(* the status whenever somebody asks it.                                   *)
(*                                                                         *)
(* A submission is served by a thread that holds the host's submission lock*)
(* while it chooses a route and while it waits for a peer.  A thread is    *)
(* <<request, side>>: the entry side serves the client, the hop side serves*)
(* the host that forwards.  The choice of the route, from capacity and     *)
(* snapshots that may be out of date, is left open.                        *)
(***************************************************************************)
EXTENDS Integers, FiniteSets

CONSTANTS
  Hosts,
  NoHost,
  Requests,     \* submissions by clients, each with a job of its own
  Entry,        \* Entry[r]: the host the client asks
  Peers,        \* Peers[h]: the peers host h is configured with
  Pollers,      \* threads that serve requests for the status of a job
  Asked,        \* Asked[k]: the submission whose job poller k is asked about
  Limit,        \* GPU_HOUSEKEEPER_PEER_FAILURE_LIMIT
  MaxRestarts   \* bound on restarts, of all hosts together

ASSUME HostsAssumption == NoHost \notin Hosts
ASSUME EntryAssumption == Entry \in [Requests -> Hosts]
ASSUME PeersAssumption == Peers \in [Hosts -> SUBSET Hosts]
ASSUME AskedAssumption == Asked \in [Pollers -> Requests]
ASSUME LimitAssumption == Limit \in Nat \ {0}
ASSUME RestartsAssumption == MaxRestarts \in Nat

VARIABLES
  pc,         \* where the threads of each submission are
  peer,       \* the host each request was forwarded to
  shown,      \* shown[h][r]: the status of r's job in the registry of h (_JOBS)
  proxied,    \* the requests whose record at the entry is a proxy's (forwarded)
  failures,   \* failed refreshes in a row of each proxy record (peerFailureCount)
  work,       \* work[h][r]: the thread of h that executes r's job
  polls,      \* the refresh each poller is at, or the answer it has got
  restarts

threads == <<pc, peer>>
registry == <<shown, proxied, failures>>
vars == <<threads, registry, work, polls, restarts>>

Sides == {"entry", "hop"}
Threads == Requests \X Sides
Places == {"none", "waiting", "routing", "forwarding", "registered",
           "accepted", "refused", "lost"}

EntryOf(r) == <<r, "entry">>
HopOf(r) == <<r, "hop">>

HostOf(t) == IF t[2] = "entry" THEN Entry[t[1]] ELSE peer[t[1]]

\* The submission lock of h is held from before the route is chosen until the
\* job is registered or refused, here or by the peer.
Locked(h) == \E t \in Threads : HostOf(t) = h /\ pc[t] \in {"routing", "forwarding"}

Goto(t, place) == pc' = [pc EXCEPT ![t] = place]

Terminal == {"success", "fail"}
Statuses == {"queued", "running"} \cup Terminal

Show(h, r, status) == shown' = [shown EXCEPT ![h][r] = status]

-----------------------------------------------------------------------------
Init ==
  /\ pc = [t \in Threads |-> "none"]
  /\ peer = [r \in Requests |-> NoHost]
  /\ shown = [h \in Hosts |-> [r \in Requests |-> "none"]]
  /\ proxied = {}
  /\ failures = [r \in Requests |-> 0]
  /\ work = [h \in Hosts |-> [r \in Requests |-> "none"]]
  /\ polls = [k \in Pollers |-> "idle"]
  /\ restarts = 0

(* The submission, at the entry and, once forwarded, at the peer.           *)

Submit(r) ==
  /\ pc[EntryOf(r)] = "none"
  /\ Goto(EntryOf(r), "waiting")
  /\ UNCHANGED <<peer, registry, work, polls, restarts>>

\* A malformed request is turned away at once, and so is a forwarded one by a
\* host that does not accept such (GPU_HOUSEKEEPER_ACCEPT_FORWARDED).
Reject(t) ==
  /\ pc[t] = "waiting"
  /\ Goto(t, "refused")
  /\ UNCHANGED <<peer, registry, work, polls, restarts>>

Lock(t) ==
  /\ pc[t] = "waiting"
  /\ ~Locked(HostOf(t))
  /\ Goto(t, "routing")
  /\ UNCHANGED <<peer, registry, work, polls, restarts>>

\* The host itself is to run the job.
Register(t) ==
  /\ pc[t] = "routing"
  /\ Show(HostOf(t), t[1], "queued")
  /\ Goto(t, "registered")
  /\ UNCHANGED <<peer, proxied, failures, work, polls, restarts>>

\* Neither the host nor, at the entry, a peer can.
Refuse(t) ==
  /\ pc[t] = "routing"
  /\ Goto(t, "refused")
  /\ UNCHANGED <<peer, registry, work, polls, restarts>>

\* Only what came from a client is passed on.
Forward(r) ==
  /\ pc[EntryOf(r)] = "routing"
  /\ \E p \in Peers[Entry[r]] \ {Entry[r]} : peer' = [peer EXCEPT ![r] = p]
  /\ pc' = [pc EXCEPT ![EntryOf(r)] = "forwarding", ![HopOf(r)] = "waiting"]
  /\ UNCHANGED <<registry, work, polls, restarts>>

Route(t) == Register(t) \/ Refuse(t) \/ (t[2] = "entry" /\ Forward(t[1]))

\* Once the lock is released, the job's thread is started and the answer sent.
Start(t) ==
  /\ pc[t] = "registered"
  /\ work' = [work EXCEPT ![HostOf(t)][t[1]] = "ready"]
  /\ Goto(t, "accepted")
  /\ UNCHANGED <<peer, registry, polls, restarts>>

\* The forwarded request does not reach the peer.
Drop(r) ==
  /\ pc[HopOf(r)] = "waiting"
  /\ Goto(HopOf(r), "lost")
  /\ UNCHANGED <<peer, registry, work, polls, restarts>>
-----------------------------------------------------------------------------
(* The answer of the peer.                                                  *)

\* Mutant: the entry accepts as soon as the request is on its way.
ForwardAcceptedUnheard(r) ==
  /\ pc[EntryOf(r)] = "forwarding"
  /\ Show(Entry[r], r, "running")
  /\ proxied' = proxied \cup {r}
  /\ Goto(EntryOf(r), "accepted")
  /\ UNCHANGED <<peer, failures, work, polls, restarts>>

\* The peer runs the job: the entry keeps a proxy record of it, and has no
\* thread of its own for it.
ForwardAccepted(r) ==
  /\ pc[EntryOf(r)] = "forwarding"
  /\ pc[HopOf(r)] = "accepted"
  /\ Show(Entry[r], r, "running")
  /\ proxied' = proxied \cup {r}
  /\ Goto(EntryOf(r), "accepted")
  /\ UNCHANGED <<peer, failures, work, polls, restarts>>

\* Mutant: the call has no timeout.
ForwardFailsIfTold(r) ==
  /\ pc[EntryOf(r)] = "forwarding"
  /\ pc[HopOf(r)] \in {"refused", "lost"}
  /\ Goto(EntryOf(r), "refused")
  /\ UNCHANGED <<peer, registry, work, polls, restarts>>

\* Mutant: the entry runs the job itself if the peer does not answer.
ForwardFailsOver(r) ==
  /\ pc[EntryOf(r)] = "forwarding"
  /\ Show(Entry[r], r, "queued")
  /\ Goto(EntryOf(r), "registered")
  /\ UNCHANGED <<peer, proxied, failures, work, polls, restarts>>

\* A refusal, an error, a lost answer or the timeout, which may come at any
\* time, even as the peer accepts.
ForwardFails(r) ==
  /\ pc[EntryOf(r)] = "forwarding"
  /\ Goto(EntryOf(r), "refused")
  /\ UNCHANGED <<peer, registry, work, polls, restarts>>

-----------------------------------------------------------------------------
(* The job.  The device gate decides when it begins.                        *)

Begin(h, r) ==
  /\ work[h][r] = "ready"
  /\ work' = [work EXCEPT ![h][r] = "running"]
  /\ Show(h, r, "running")
  /\ UNCHANGED <<threads, proxied, failures, polls, restarts>>

End(h, r) ==
  /\ work[h][r] = "running"
  /\ \E outcome \in Terminal :
       /\ work' = [work EXCEPT ![h][r] = outcome]
       /\ Show(h, r, outcome)
  /\ UNCHANGED <<threads, proxied, failures, polls, restarts>>
-----------------------------------------------------------------------------
(* A request for the status at the entry refreshes the proxy record.        *)

Poll(k, word) == polls' = [polls EXCEPT ![k] = word]

\* The record is looked at under the registry lock, the peer asked without.
Ask(k) == LET r == Asked[k] IN
  /\ polls[k] = "idle"
  /\ r \in proxied
  /\ shown[Entry[r]][r] \notin Terminal
  /\ Poll(k, "asked")
  /\ UNCHANGED <<threads, registry, work, restarts>>

\* Mutant: an unknown job is an answer like any other.
PeerSaysAnything(r) == shown[peer[r]][r]

\* Mutant: a job the peer no longer knows is taken for a job that is done.
PeerSaysDone(r) ==
  IF shown[peer[r]][r] = "none" THEN "success" ELSE shown[peer[r]][r]

\* A peer that has restarted does not know the job, which is an HTTP error.
PeerSays(r) == IF shown[peer[r]][r] = "none" THEN "error" ELSE shown[peer[r]][r]

\* The peer answers, or the call fails or times out.
Hear(k) == LET r == Asked[k] IN
  /\ polls[k] = "asked"
  /\ \E word \in {PeerSays(r), "error"} : Poll(k, word)
  /\ UNCHANGED <<threads, registry, work, restarts>>

\* The answer is written to the record, whatever that has become meanwhile.
Mirror(k) == LET r == Asked[k] IN
  /\ polls[k] \in Statuses
  /\ Show(Entry[r], r, polls[k])
  /\ failures' = [failures EXCEPT ![r] = 0]
  /\ Poll(k, "idle")
  /\ UNCHANGED <<threads, proxied, work, restarts>>

\* Mutant: the failures before this one are not counted.
CountFailureAfresh(k) == LET r == Asked[k] IN
  /\ polls[k] = "error"
  /\ failures' = [failures EXCEPT ![r] = 1]
  /\ IF failures'[r] >= Limit THEN Show(Entry[r], r, "fail") ELSE UNCHANGED shown
  /\ Poll(k, "idle")
  /\ UNCHANGED <<threads, proxied, work, restarts>>

CountFailure(k) == LET r == Asked[k] IN
  /\ polls[k] = "error"
  /\ failures' = [failures EXCEPT ![r] = @ + 1]
  /\ IF failures'[r] >= Limit THEN Show(Entry[r], r, "fail") ELSE UNCHANGED shown
  /\ Poll(k, "idle")
  /\ UNCHANGED <<threads, proxied, work, restarts>>
-----------------------------------------------------------------------------
(* A host dies and comes back: the registry and every thread are gone.      *)

Serving == {"waiting", "routing", "forwarding", "registered"}

Restart(h) ==
  /\ restarts < MaxRestarts
  /\ restarts' = restarts + 1
  /\ pc' = [t \in Threads |->
              IF HostOf(t) = h /\ pc[t] \in Serving THEN "lost" ELSE pc[t]]
  /\ shown' = [shown EXCEPT ![h] = [r \in Requests |-> "none"]]
  /\ proxied' = {r \in proxied : Entry[r] # h}
  /\ failures' = [r \in Requests |-> IF Entry[r] = h THEN 0 ELSE failures[r]]
  /\ work' = [work EXCEPT ![h] =
       [r \in Requests |->
          IF work[h][r] \in {"ready", "running"} THEN "killed" ELSE work[h][r]]]
  /\ polls' = [k \in Pollers |-> IF Entry[Asked[k]] = h THEN "idle" ELSE polls[k]]
  /\ UNCHANGED peer

-----------------------------------------------------------------------------
Serve(t) == Lock(t) \/ Route(t) \/ Start(t)
ForwardEnds(r) == ForwardAccepted(r) \/ ForwardFails(r)
Execute(h, r) == Begin(h, r) \/ End(h, r)
Refresh(k) == Hear(k) \/ Mirror(k) \/ CountFailure(k)

Next ==
  \/ \E r \in Requests : Submit(r) \/ Drop(r) \/ ForwardEnds(r)
  \/ \E t \in Threads : Reject(t) \/ Serve(t)
  \/ \E h \in Hosts, r \in Requests : Execute(h, r)
  \/ \E k \in Pollers : Ask(k) \/ Refresh(k)
  \/ \E h \in Hosts : Restart(h)

Spec == Init /\ [][Next]_vars

\* Threads run, a call to a peer ends by its timeout if not before, a job ends,
\* and a job that has not ended is asked after again.
Fairness ==
  /\ \A t \in Threads : WF_vars(Serve(t))
  /\ \A r \in Requests : WF_vars(ForwardEnds(r))
  /\ \A h \in Hosts, r \in Requests : WF_vars(Execute(h, r))
  /\ \A k \in Pollers : WF_vars(Ask(k)) /\ WF_vars(Refresh(k))

FairSpec == Spec /\ Fairness

-----------------------------------------------------------------------------
(* Properties.                                                              *)

TypeOK ==
  /\ pc \in [Threads -> Places]
  /\ peer \in [Requests -> Hosts \cup {NoHost}]
  /\ shown \in [Hosts -> [Requests -> Statuses \cup {"none"}]]
  /\ proxied \subseteq Requests
  /\ failures \in [Requests -> Nat]
  /\ work \in [Hosts -> [Requests -> {"none", "ready", "running", "killed"} \cup Terminal]]
  /\ polls \in [Pollers -> {"idle", "asked", "error"} \cup Statuses]
  /\ restarts \in 0 .. MaxRestarts

\* A job is executed by one host at most, though calls between hosts are given
\* up while the peer goes on, and hosts restart between any two steps.
AtMostOneHost ==
  \A r \in Requests : \A g, h \in Hosts :
    work[g][r] # "none" /\ work[h][r] # "none" => g = h

\* No registry shows success but of a job that some host executed successfully:
\* not of one whose host has restarted, nor by an answer that came late.
SuccessHonest ==
  \A h \in Hosts, r \in Requests :
    shown[h][r] = "success" => \E g \in Hosts : work[g][r] = "success"

\* Seen by its client, a submission to the federation is a call that takes
\* effect at most once, and for certain taken on if it is accepted.
Answer(r) == IF pc[EntryOf(r)] \in {"accepted", "refused"} THEN pc[EntryOf(r)] ELSE "none"

Effect(r) ==
  IF peer[r] = NoHost THEN work[Entry[r]][r] ELSE work[peer[r]][r]

Call == INSTANCE AtMostOnce WITH
  answer <- [r \in Requests |-> Answer(r)],
  effect <- [r \in Requests |-> Effect(r)]

ActsAsCall == Call!Spec

\* Every submission is answered, unless its host restarts: two hosts that
\* forward to one another, each with its lock held, come free of it.
SubmissionsAnswered ==
  \A r \in Requests :
    pc[EntryOf(r)] = "waiting" ~> pc[EntryOf(r)] \in {"accepted", "refused", "lost"}

\* A proxy record that is asked for comes to an end, or goes with its host: a
\* peer that has lost the job, or its registry, is found out.
RecordsSettle ==
  \A k \in Pollers : LET r == Asked[k] IN
    r \in proxied ~> (r \notin proxied \/ shown[Entry[r]][r] \in Terminal)
=============================================================================
