--------------------------- MODULE FederationProof ---------------------------
(***************************************************************************)
(* For any hosts, peers, requests and restarts, a job submitted to the     *)
(* federation is executed by one host at most, a registry shows success    *)
(* only of a job that some host executed successfully, and the federation  *)
(* implements AtMostOnce.                                                  *)
(***************************************************************************)
EXTENDS Federation, TLAPS

\* Only what was forwarded is served by a peer, reflected or asked for.
ProxiesForwarded ==
  /\ \A r \in Requests : pc[HopOf(r)] # "none" => peer[r] # NoHost
  /\ \A r \in proxied : peer[r] # NoHost
  /\ \A k \in Pollers : polls[k] # "idle" => peer[Asked[k]] # NoHost

TypeInv == TypeOK /\ ProxiesForwarded

-----------------------------------------------------------------------------
\* The threads of a submission are told apart by their side.
LEMMA ThreadFacts ==
  /\ \A r \in Requests : EntryOf(r) \in Threads /\ HopOf(r) \in Threads
  /\ \A r \in Requests : EntryOf(r)[1] = r /\ HopOf(r)[1] = r
  /\ \A r \in Requests : EntryOf(r)[2] = "entry" /\ HopOf(r)[2] = "hop"
  /\ \A q, r \in Requests : EntryOf(q) # HopOf(r)
  /\ \A q, r \in Requests : (EntryOf(q) = EntryOf(r) \/ HopOf(q) = HopOf(r)) => q = r
  /\ \A t \in Threads : t[1] \in Requests /\ (t = EntryOf(t[1]) \/ t = HopOf(t[1]))
BY DEF Threads, Sides, EntryOf, HopOf

\* The steps, one disjunct for each action.
LEMMA StepCases ==
  ASSUME [Next]_vars
  PROVE  \/ \E r \in Requests : Submit(r)
         \/ \E r \in Requests : Drop(r)
         \/ \E r \in Requests : ForwardAccepted(r)
         \/ \E r \in Requests : ForwardFails(r)
         \/ \E r \in Requests : Forward(r)
         \/ \E t \in Threads : Reject(t)
         \/ \E t \in Threads : Lock(t)
         \/ \E t \in Threads : Register(t)
         \/ \E t \in Threads : Refuse(t)
         \/ \E t \in Threads : Start(t)
         \/ \E h \in Hosts, r \in Requests : Begin(h, r)
         \/ \E h \in Hosts, r \in Requests : End(h, r)
         \/ \E k \in Pollers : Ask(k)
         \/ \E k \in Pollers : Hear(k)
         \/ \E k \in Pollers : Mirror(k)
         \/ \E k \in Pollers : CountFailure(k)
         \/ \E h \in Hosts : Restart(h)
         \/ UNCHANGED vars
<1>1. \A t \in Threads : t[2] = "entry" => t[1] \in Requests
  BY ThreadFacts
<1> QED BY <1>1 DEF Next, ForwardEnds, Serve, Route, Execute, Refresh

-----------------------------------------------------------------------------
LEMMA TypeInit == Init => TypeInv
<1> SUFFICES ASSUME Init PROVE TypeInv
  OBVIOUS
<1>1. TypeOK
  BY RestartsAssumption DEF Init, TypeOK, Places, Statuses, Terminal
<1>2. ProxiesForwarded
  BY ThreadFacts DEF Init, ProxiesForwarded
<1> QED BY <1>1, <1>2 DEF TypeInv

LEMMA TypeStep == TypeInv /\ [Next]_vars => TypeInv'
<1> SUFFICES ASSUME TypeInv, [Next]_vars PROVE TypeInv'
  OBVIOUS
<1> USE DEF TypeInv, TypeOK, ProxiesForwarded, threads, registry
<1>f. NoHost \notin Hosts /\ Entry \in [Requests -> Hosts]
  BY HostsAssumption, EntryAssumption
<1>k. Asked \in [Pollers -> Requests]
  BY AskedAssumption
<1>g. ASSUME NEW t \in Threads, NEW p \in Places, Goto(t, p)
      PROVE  pc' \in [Threads -> Places]
  BY <1>g DEF Goto
<1>h. ASSUME NEW t \in Threads, NEW p \in Places, Goto(t, p), pc[t] # "none"
      PROVE  \A r \in Requests : pc'[HopOf(r)] # "none" => pc[HopOf(r)] # "none"
  BY <1>h, ThreadFacts DEF Goto
<1>s. ASSUME NEW h, NEW r \in Requests, NEW s \in Statuses, Show(h, r, s)
      PROVE  shown' \in [Hosts -> [Requests -> Statuses \cup {"none"}]]
  BY <1>s DEF Show
<1>w. {"queued", "running", "success", "fail"} = Statuses
  BY DEF Statuses, Terminal
<1>p. {"none", "waiting", "routing", "forwarding", "registered", "accepted",
       "refused", "lost"} = Places
  BY DEF Places
<1>1. ASSUME NEW r \in Requests, Submit(r) PROVE TypeInv'
  <2>1. pc' \in [Threads -> Places]
    BY <1>1, <1>g, <1>p, ThreadFacts DEF Submit
  <2>2. \A q \in Requests : pc'[HopOf(q)] = pc[HopOf(q)]
    BY <1>1, ThreadFacts DEF Submit, Goto
  <2> QED BY <1>1, <2>1, <2>2 DEF Submit
<1>2. ASSUME NEW r \in Requests, Drop(r) PROVE TypeInv'
  BY <1>2, <1>g, <1>h, <1>p, ThreadFacts DEF Drop
<1>3. ASSUME NEW r \in Requests, ForwardAccepted(r) PROVE TypeInv'
  <2>1. pc' \in [Threads -> Places]
    BY <1>3, <1>g, <1>p, ThreadFacts DEF ForwardAccepted
  <2>2. shown' \in [Hosts -> [Requests -> Statuses \cup {"none"}]]
    BY <1>3, <1>s, <1>w DEF ForwardAccepted
  <2>3. \A q \in Requests : pc'[HopOf(q)] # "none" => pc[HopOf(q)] # "none"
    BY <1>3, <1>h, <1>p, ThreadFacts DEF ForwardAccepted
  <2> QED BY <1>3, <2>1, <2>2, <2>3 DEF ForwardAccepted
<1>4. ASSUME NEW r \in Requests, ForwardFails(r) PROVE TypeInv'
  BY <1>4, <1>g, <1>h, <1>p, ThreadFacts DEF ForwardFails
<1>5. ASSUME NEW r \in Requests, Forward(r) PROVE TypeInv'
  <2>1. pc' \in [Threads -> Places]
    BY <1>5, <1>p, ThreadFacts DEF Forward
  <2>2. PICK p \in Hosts : peer' = [peer EXCEPT ![r] = p]
    BY <1>5, <1>f, PeersAssumption DEF Forward
  <2>3. peer' \in [Requests -> Hosts \cup {NoHost}]
    BY <2>2
  <2>4. \A q \in Requests : peer[q] # NoHost => peer'[q] # NoHost
    BY <2>2, <1>f
  <2>5. \A q \in Requests : pc'[HopOf(q)] # "none" => peer'[q] # NoHost
    BY <1>5, <1>f, <2>2, <2>4, ThreadFacts DEF Forward
  <2> QED BY <1>5, <1>k, <2>1, <2>3, <2>4, <2>5 DEF Forward
<1>0. ASSUME NEW t \in Threads, Reject(t) PROVE TypeInv'
  BY <1>0, <1>g, <1>h, <1>p DEF Reject
<1>6. ASSUME NEW t \in Threads, Lock(t) PROVE TypeInv'
  BY <1>6, <1>g, <1>h, <1>p DEF Lock
<1>7. ASSUME NEW t \in Threads, Register(t) PROVE TypeInv'
  <2>1. pc' \in [Threads -> Places]
    BY <1>7, <1>g, <1>p DEF Register
  <2>2. shown' \in [Hosts -> [Requests -> Statuses \cup {"none"}]]
    BY <1>7, <1>s, <1>w, ThreadFacts DEF Register
  <2>3. \A q \in Requests : pc'[HopOf(q)] # "none" => pc[HopOf(q)] # "none"
    BY <1>7, <1>h, <1>p, ThreadFacts DEF Register
  <2> QED BY <1>7, <2>1, <2>2, <2>3 DEF Register
<1>8. ASSUME NEW t \in Threads, Refuse(t) PROVE TypeInv'
  BY <1>8, <1>g, <1>h, <1>p DEF Refuse
<1>9. ASSUME NEW t \in Threads, Start(t) PROVE TypeInv'
  <2>1. pc' \in [Threads -> Places]
    BY <1>9, <1>g, <1>p DEF Start
  <2>2. work' \in [Hosts -> [Requests -> {"none", "ready", "running", "killed"} \cup Terminal]]
    BY <1>9 DEF Start
  <2>3. \A q \in Requests : pc'[HopOf(q)] # "none" => pc[HopOf(q)] # "none"
    BY <1>9, <1>h, <1>p, ThreadFacts DEF Start
  <2> QED BY <1>9, <2>1, <2>2, <2>3 DEF Start
<1>10. ASSUME NEW h \in Hosts, NEW r \in Requests, Begin(h, r) PROVE TypeInv'
  <2>1. shown' \in [Hosts -> [Requests -> Statuses \cup {"none"}]]
    BY <1>10, <1>s, <1>w DEF Begin
  <2> QED BY <1>10, <2>1 DEF Begin
<1>11. ASSUME NEW h \in Hosts, NEW r \in Requests, End(h, r) PROVE TypeInv'
  <2>1. PICK o \in Terminal : work' = [work EXCEPT ![h][r] = o] /\ Show(h, r, o)
    BY <1>11 DEF End
  <2>2. shown' \in [Hosts -> [Requests -> Statuses \cup {"none"}]]
    BY <2>1, <1>s DEF Statuses
  <2>3. work' \in [Hosts -> [Requests -> {"none", "ready", "running", "killed"} \cup Terminal]]
    BY <2>1
  <2> QED BY <1>11, <2>2, <2>3 DEF End
<1>12. ASSUME NEW k \in Pollers, Ask(k) PROVE TypeInv'
  BY <1>12, <1>k DEF Ask, Poll
<1>13. ASSUME NEW k \in Pollers, Hear(k) PROVE TypeInv'
  <2>1. PICK word \in {PeerSays(Asked[k]), "error"} : Poll(k, word)
    BY <1>13 DEF Hear
  <2>2. peer[Asked[k]] \in Hosts
    BY <1>13, <1>k DEF Hear
  <2>3. word \in {"error"} \cup Statuses
    BY <2>1, <2>2, <1>k DEF PeerSays
  <2>4. polls' \in [Pollers -> {"idle", "asked", "error"} \cup Statuses]
    BY <2>1, <2>3 DEF Poll
  <2>5. \A j \in Pollers : polls'[j] # "idle" => polls[j] # "idle"
    BY <1>13, <2>1 DEF Hear, Poll
  <2> QED BY <1>13, <2>4, <2>5 DEF Hear
<1>14. ASSUME NEW k \in Pollers, Mirror(k) PROVE TypeInv'
  <2>1. shown' \in [Hosts -> [Requests -> Statuses \cup {"none"}]]
    BY <1>14, <1>s, <1>k DEF Mirror
  <2>2. failures' \in [Requests -> Nat]
    BY <1>14 DEF Mirror
  <2>3. /\ polls' \in [Pollers -> {"idle", "asked", "error"} \cup Statuses]
        /\ \A j \in Pollers : polls'[j] # "idle" => polls[j] # "idle"
    BY <1>14 DEF Mirror, Poll
  <2> QED BY <1>14, <2>1, <2>2, <2>3 DEF Mirror
<1>15. ASSUME NEW k \in Pollers, CountFailure(k) PROVE TypeInv'
  <2>1. shown' \in [Hosts -> [Requests -> Statuses \cup {"none"}]]
    BY <1>15, <1>s, <1>w, <1>k DEF CountFailure
  <2>2. failures' \in [Requests -> Nat]
    BY <1>15, <1>k DEF CountFailure
  <2>3. /\ polls' \in [Pollers -> {"idle", "asked", "error"} \cup Statuses]
        /\ \A j \in Pollers : polls'[j] # "idle" => polls[j] # "idle"
    BY <1>15 DEF CountFailure, Poll
  <2> QED BY <1>15, <2>1, <2>2, <2>3 DEF CountFailure
<1>16. ASSUME NEW h \in Hosts, Restart(h) PROVE TypeInv'
  <2>1. pc' \in [Threads -> Places]
    BY <1>16, <1>p DEF Restart
  <2>2. shown' \in [Hosts -> [Requests -> Statuses \cup {"none"}]]
    BY <1>16 DEF Restart
  <2>3. work' \in [Hosts -> [Requests -> {"none", "ready", "running", "killed"} \cup Terminal]]
    BY <1>16 DEF Restart
  <2>4. /\ polls' \in [Pollers -> {"idle", "asked", "error"} \cup Statuses]
        /\ \A j \in Pollers : polls'[j] # "idle" => polls[j] # "idle"
    BY <1>16 DEF Restart
  <2>5. /\ proxied' \subseteq proxied
        /\ failures' \in [Requests -> Nat]
        /\ restarts' \in 0 .. MaxRestarts
    BY <1>16, RestartsAssumption DEF Restart
  <2>6. \A q \in Requests : pc'[HopOf(q)] # "none" => pc[HopOf(q)] # "none"
    BY <1>16, ThreadFacts DEF Restart, Serving
  <2> QED BY <1>16, <2>1, <2>2, <2>3, <2>4, <2>5, <2>6 DEF Restart
<1>17. CASE UNCHANGED vars
  BY <1>17 DEF vars
<1> QED BY StepCases, <1>0, <1>1, <1>2, <1>3, <1>4, <1>5, <1>6, <1>7, <1>8, <1>9,
           <1>10, <1>11, <1>12, <1>13, <1>14, <1>15, <1>16, <1>17

\* Every variable of the federation keeps its type; in particular a poll gets a
\* status or an error, since a proxy's peer is a host.
THEOREM FederationTypes == Spec => []TypeOK
<1>1. TypeInv => TypeOK
  BY DEF TypeInv
<1> QED BY <1>1, TypeInit, TypeStep, PTL DEF Spec

-----------------------------------------------------------------------------
(* One host.  A forwarded submission is never the entry's own again: that is*)
(* what makes the exclusion inductive, whatever the calls between hosts do. *)

OneWay ==
  \A r \in Requests : peer[r] # NoHost =>
    /\ peer[r] # Entry[r]
    /\ pc[EntryOf(r)] \in {"forwarding", "accepted", "refused", "lost"}
    /\ work[Entry[r]][r] = "none"

WorkPlaced ==
  \A h \in Hosts, r \in Requests : work[h][r] # "none" => h \in {Entry[r], peer[r]}

\* A job has a thread once its host has accepted it, and by a peer only then.
WorkAccepted ==
  \A r \in Requests :
    /\ work[Entry[r]][r] # "none" => pc[EntryOf(r)] = "accepted"
    /\ peer[r] # NoHost => (work[peer[r]][r] # "none" <=> pc[HopOf(r)] = "accepted")

Placement == OneWay /\ WorkPlaced /\ WorkAccepted

LEMMA PlacementInit == Init => Placement
BY EntryAssumption, ThreadFacts DEF Init, Placement, OneWay, WorkPlaced, WorkAccepted

\* A job's thread is started at the entry of a submission that is not forwarded
\* or at the peer of one that is, and it has not been there before.
LEMMA StartFacts ==
  ASSUME TypeInv, Placement, NEW t \in Threads, Start(t)
  PROVE  /\ \/ /\ t = EntryOf(t[1]) /\ HostOf(t) = Entry[t[1]]
               /\ peer[t[1]] = NoHost
            \/ /\ t = HopOf(t[1]) /\ HostOf(t) = peer[t[1]]
               /\ peer[t[1]] # NoHost
         /\ HostOf(t) \in Hosts
         /\ work[HostOf(t)][t[1]] = "none"
         /\ work'[HostOf(t)][t[1]] = "ready"
         /\ \A h \in Hosts, q \in Requests :
              h # HostOf(t) \/ q # t[1] => work'[h][q] = work[h][q]
<1> USE EntryAssumption, HostsAssumption
        DEF TypeInv, TypeOK, ProxiesForwarded, Placement, OneWay, WorkAccepted
<1> DEFINE r == t[1]
<1>1. r \in Requests /\ (t = EntryOf(r) \/ t = HopOf(r))
  BY ThreadFacts
<1>2. pc[t] = "registered"
  BY DEF Start
<1>3. \/ t = EntryOf(r) /\ HostOf(t) = Entry[r] /\ peer[r] = NoHost
      \/ t = HopOf(r) /\ HostOf(t) = peer[r] /\ peer[r] # NoHost
  <2>1. CASE t = EntryOf(r)
    <3>1. t[2] = "entry" /\ pc[EntryOf(r)] = "registered"
      BY <1>1, <1>2, <2>1, ThreadFacts
    <3> QED BY <1>1, <2>1, <3>1 DEF HostOf
  <2>2. CASE t = HopOf(r)
    <3>1. t[2] = "hop" /\ pc[HopOf(r)] = "registered"
      BY <1>1, <1>2, <2>2, ThreadFacts
    <3> QED BY <1>1, <2>2, <3>1 DEF HostOf
  <2> QED BY <1>1, <2>1, <2>2
<1>4. HostOf(t) \in Hosts
  BY <1>1, <1>3
<1>5. work[HostOf(t)][r] = "none"
  BY <1>1, <1>2, <1>3
<1>6. /\ work'[HostOf(t)][r] = "ready"
      /\ \A h \in Hosts, q \in Requests :
           h # HostOf(t) \/ q # r => work'[h][q] = work[h][q]
  BY <1>1, <1>4 DEF Start
<1> QED BY <1>3, <1>4, <1>5, <1>6

LEMMA PlacementStep == TypeInv /\ Placement /\ [Next]_vars => Placement'
<1> SUFFICES ASSUME TypeInv, Placement, [Next]_vars PROVE Placement'
  OBVIOUS
<1> USE EntryAssumption, HostsAssumption
        DEF TypeInv, TypeOK, ProxiesForwarded, Placement, OneWay, WorkPlaced,
            WorkAccepted, threads, registry
<1>a. ASSUME NEW t \in Threads, NEW p \in Places, Goto(t, p), UNCHANGED <<peer, work>>,
             pc[t] # "accepted",
             p = "accepted" => t[2] = "entry",
             pc[t] = "forwarding" \/ t[2] = "hop" \/ peer[t[1]] = NoHost,
             pc[t] = "forwarding" => p \in {"accepted", "refused"}
      PROVE  Placement'
  <2>1. \A q \in Requests : peer[q] # NoHost =>
            pc'[EntryOf(q)] \in {"forwarding", "accepted", "refused", "lost"}
    BY <1>a, ThreadFacts DEF Goto
  <2>2. \A q \in Requests : pc[EntryOf(q)] = "accepted" => pc'[EntryOf(q)] = "accepted"
    BY <1>a, ThreadFacts DEF Goto
  <2>3. \A q \in Requests : pc'[HopOf(q)] = "accepted" <=> pc[HopOf(q)] = "accepted"
    BY <1>a, ThreadFacts DEF Goto
  <2> QED BY <1>a, <2>1, <2>2, <2>3
<1>p. {"none", "waiting", "routing", "forwarding", "registered", "accepted",
       "refused", "lost"} = Places
  BY DEF Places
<1>e. \A t \in Threads : t[2] = "hop" \/ t = EntryOf(t[1])
  BY ThreadFacts
<1>1. ASSUME NEW r \in Requests, Submit(r) PROVE Placement'
  <2>1. peer[r] = NoHost /\ pc[EntryOf(r)] = "none"
    BY <1>1 DEF Submit
  <2>2. EntryOf(r) \in Threads /\ EntryOf(r)[1] = r /\ "waiting" \in Places
    BY <1>p, ThreadFacts
  <2>3. Goto(EntryOf(r), "waiting") /\ UNCHANGED <<peer, work>>
    BY <1>1 DEF Submit
  <2> QED BY ONLY <1>a, <2>1, <2>2, <2>3
<1>2. ASSUME NEW r \in Requests, Drop(r) PROVE Placement'
  <2>1. pc[HopOf(r)] = "waiting"
    BY <1>2 DEF Drop
  <2>2. HopOf(r) \in Threads /\ HopOf(r)[2] = "hop" /\ "lost" \in Places
    BY <1>p, ThreadFacts
  <2>3. Goto(HopOf(r), "lost") /\ UNCHANGED <<peer, work>>
    BY <1>2 DEF Drop
  <2> QED BY ONLY <1>a, <2>1, <2>2, <2>3
<1>3. ASSUME NEW r \in Requests, ForwardAccepted(r) PROVE Placement'
  BY <1>3, <1>a, <1>p, ThreadFacts DEF ForwardAccepted
<1>4. ASSUME NEW r \in Requests, ForwardFails(r) PROVE Placement'
  BY <1>4, <1>a, <1>p, ThreadFacts DEF ForwardFails
<1>5. ASSUME NEW r \in Requests, Forward(r) PROVE Placement'
  <2>1. PICK p \in Hosts : p # Entry[r] /\ peer' = [peer EXCEPT ![r] = p]
    BY <1>5, PeersAssumption DEF Forward
  <2>2. /\ pc'[EntryOf(r)] = "forwarding" /\ pc'[HopOf(r)] = "waiting"
        /\ \A q \in Requests \ {r} : /\ pc'[EntryOf(q)] = pc[EntryOf(q)]
                                    /\ pc'[HopOf(q)] = pc[HopOf(q)]
    BY <1>5, ThreadFacts DEF Forward
  <2>3. peer[r] = NoHost /\ work[Entry[r]][r] = "none"
    BY <1>5 DEF Forward
  <2>4. ASSUME NEW h \in Hosts PROVE work[h][r] = "none"
    <3>1. h # Entry[r] => h \notin {Entry[r], peer[r]}
      BY <2>3
    <3>2. h # Entry[r] => work[h][r] = "none"
      BY <3>1
    <3> QED BY <2>3, <3>2
  <2>5. UNCHANGED work
    BY <1>5 DEF Forward
  <2>6. peer'[r] = p /\ \A q \in Requests \ {r} : peer'[q] = peer[q]
    BY <2>1
  <2>7. OneWay'
    BY <2>1, <2>2, <2>3, <2>5, <2>6
  <2>8. WorkPlaced'
    <3>1. \A h \in Hosts, q \in Requests : work[h][q] # "none" => peer'[q] = peer[q]
      BY <2>4, <2>6
    <3> QED BY <2>5, <3>1
  <2>9. WorkAccepted'
    <3>1. work[p][r] = "none" /\ pc'[HopOf(r)] # "accepted"
      BY <2>1, <2>2, <2>4
    <3>2. ASSUME NEW q \in Requests, q # r
          PROVE  /\ work[Entry[q]][q] # "none" => pc'[EntryOf(q)] = "accepted"
                 /\ peer'[q] # NoHost =>
                      (work[peer'[q]][q] # "none" <=> pc'[HopOf(q)] = "accepted")
      BY <3>2, <2>2, <2>6
    <3> QED BY <2>3, <2>5, <2>6, <3>1, <3>2
  <2> QED BY <2>7, <2>8, <2>9
<1>0. ASSUME NEW t \in Threads, Reject(t) PROVE Placement'
  <2>1. pc[t] = "waiting" /\ Goto(t, "refused") /\ UNCHANGED <<peer, work>>
    BY <1>0 DEF Reject
  <2>2. t[1] \in Requests /\ (t[2] = "hop" \/ t = EntryOf(t[1])) /\ "refused" \in Places
    BY <1>e, <1>p, ThreadFacts
  <2>3. t[2] = "hop" \/ peer[t[1]] = NoHost
    BY <2>1, <2>2
  <2> QED BY ONLY <1>a, <2>1, <2>2, <2>3
<1>6. ASSUME NEW t \in Threads, Lock(t) PROVE Placement'
  <2>1. pc[t] = "waiting" /\ Goto(t, "routing") /\ UNCHANGED <<peer, work>>
    BY <1>6 DEF Lock
  <2>2. t[1] \in Requests /\ (t[2] = "hop" \/ t = EntryOf(t[1])) /\ "routing" \in Places
    BY <1>e, <1>p, ThreadFacts
  <2>3. t[2] = "hop" \/ peer[t[1]] = NoHost
    BY <2>1, <2>2
  <2> QED BY ONLY <1>a, <2>1, <2>2, <2>3
<1>7. ASSUME NEW t \in Threads, Register(t) PROVE Placement'
  <2>1. pc[t] = "routing" /\ Goto(t, "registered") /\ UNCHANGED <<peer, work>>
    BY <1>7 DEF Register
  <2>2. t[1] \in Requests /\ (t[2] = "hop" \/ t = EntryOf(t[1])) /\ "registered" \in Places
    BY <1>e, <1>p, ThreadFacts
  <2>3. t[2] = "hop" \/ peer[t[1]] = NoHost
    BY <2>1, <2>2
  <2> QED BY ONLY <1>a, <2>1, <2>2, <2>3
<1>8. ASSUME NEW t \in Threads, Refuse(t) PROVE Placement'
  <2>1. pc[t] = "routing" /\ Goto(t, "refused") /\ UNCHANGED <<peer, work>>
    BY <1>8 DEF Refuse
  <2>2. t[1] \in Requests /\ (t[2] = "hop" \/ t = EntryOf(t[1])) /\ "refused" \in Places
    BY <1>e, <1>p, ThreadFacts
  <2>3. t[2] = "hop" \/ peer[t[1]] = NoHost
    BY <2>1, <2>2
  <2> QED BY ONLY <1>a, <2>1, <2>2, <2>3
<1>9. ASSUME NEW t \in Threads, Start(t) PROVE Placement'
  <2> DEFINE r == t[1]
  <2>1. r \in Requests /\ (t = EntryOf(r) \/ t = HopOf(r))
    BY ThreadFacts
  <2>2. UNCHANGED peer
    BY <1>9 DEF Start
  <2>3. \/ t = EntryOf(r) /\ HostOf(t) = Entry[r] /\ peer[r] = NoHost
        \/ t = HopOf(r) /\ HostOf(t) = peer[r] /\ peer[r] # NoHost
    BY <1>9, StartFacts
  <2>4. HostOf(t) \in Hosts
    BY <1>9, StartFacts
  <2>5. /\ work'[HostOf(t)][r] = "ready"
        /\ \A h \in Hosts, q \in Requests :
             h # HostOf(t) \/ q # r => work'[h][q] = work[h][q]
    BY <1>9, StartFacts
  <2>6. \A u \in Threads : pc'[u] = IF u = t THEN "accepted" ELSE pc[u]
    BY <1>9 DEF Start, Goto
  <2> HIDE DEF r
  <2>7. ASSUME NEW h \in Hosts, NEW q \in Requests, work'[h][q] # "none"
        PROVE  h \in {Entry[q], peer[q]}
    <3>1. CASE h = HostOf(t) /\ q = r
      BY <2>3, <3>1
    <3>2. CASE h # HostOf(t) \/ q # r
      BY <2>5, <2>7, <3>2
    <3> QED BY <3>1, <3>2
  <2>8. ASSUME NEW q \in Requests, peer[q] # NoHost
        PROVE  /\ peer[q] # Entry[q]
               /\ pc'[EntryOf(q)] \in {"forwarding", "accepted", "refused", "lost"}
               /\ work'[Entry[q]][q] = "none"
    <3>1. Entry[q] \in Hosts /\ (Entry[q] # HostOf(t) \/ q # r)
      BY <2>3, <2>8
    <3>2. work'[Entry[q]][q] = work[Entry[q]][q]
      BY <2>5, <3>1
    <3>3. pc'[EntryOf(q)] \in {pc[EntryOf(q)], "accepted"}
      BY <2>6, ThreadFacts
    <3> QED BY <2>8, <3>2, <3>3
  <2>9. ASSUME NEW q \in Requests
        PROVE  /\ work'[Entry[q]][q] # "none" => pc'[EntryOf(q)] = "accepted"
               /\ peer[q] # NoHost =>
                    (work'[peer[q]][q] # "none" <=> pc'[HopOf(q)] = "accepted")
    <3>1. CASE q # r
      <4>1. t # EntryOf(q) /\ t # HopOf(q)
        BY <2>1, <3>1, ThreadFacts
      <4>2. pc'[EntryOf(q)] = pc[EntryOf(q)] /\ pc'[HopOf(q)] = pc[HopOf(q)]
        BY <2>6, <4>1, ThreadFacts
      <4>3. \A h \in Hosts : work'[h][q] = work[h][q]
        BY <2>5, <3>1
      <4> QED BY <4>2, <4>3
    <3>2. CASE q = r /\ t = EntryOf(r)
      BY <2>3, <2>6, <3>2, ThreadFacts
    <3>3. CASE q = r /\ t = HopOf(r)
      <4>1. peer[q] # NoHost /\ HostOf(t) = peer[q] /\ pc'[HopOf(q)] = "accepted"
        BY <2>3, <2>6, <3>3, ThreadFacts
      <4>2. work'[Entry[q]][q] = "none" /\ work'[peer[q]][q] = "ready"
        BY <2>5, <2>8, <3>3, <4>1
      <4> QED BY <4>1, <4>2
    <3> QED BY <2>1, <3>1, <3>2, <3>3
  <2> QED BY <2>2, <2>7, <2>8, <2>9
<1>b. ASSUME UNCHANGED <<pc, peer>>,
             \A h \in Hosts, q \in Requests : work'[h][q] = "none" <=> work[h][q] = "none"
      PROVE  Placement'
  BY <1>b
<1>10. ASSUME NEW h \in Hosts, NEW r \in Requests, Begin(h, r) PROVE Placement'
  BY <1>10, <1>b DEF Begin
<1>11. ASSUME NEW h \in Hosts, NEW r \in Requests, End(h, r) PROVE Placement'
  BY <1>11, <1>b DEF End, Terminal
<1>12. ASSUME NEW k \in Pollers, Ask(k) PROVE Placement'
  BY <1>12, <1>b DEF Ask
<1>13. ASSUME NEW k \in Pollers, Hear(k) PROVE Placement'
  BY <1>13, <1>b DEF Hear
<1>14. ASSUME NEW k \in Pollers, Mirror(k) PROVE Placement'
  BY <1>14, <1>b DEF Mirror
<1>15. ASSUME NEW k \in Pollers, CountFailure(k) PROVE Placement'
  BY <1>15, <1>b DEF CountFailure
<1>16. ASSUME NEW h \in Hosts, Restart(h) PROVE Placement'
  <2>1. \A g \in Hosts, q \in Requests : work'[g][q] = "none" <=> work[g][q] = "none"
    BY <1>16 DEF Restart
  <2>2. \A t \in Threads :
          /\ pc'[t] = "accepted" <=> pc[t] = "accepted"
          /\ pc[t] \in {"forwarding", "accepted", "refused", "lost"} =>
               pc'[t] \in {"forwarding", "accepted", "refused", "lost"}
    BY <1>16 DEF Restart, Serving
  <2> QED BY <1>16, <2>1, <2>2, ThreadFacts DEF Restart
<1>17. CASE UNCHANGED vars
  BY <1>17, <1>b DEF vars
<1> QED BY StepCases, <1>0, <1>1, <1>2, <1>3, <1>4, <1>5, <1>6, <1>7, <1>8, <1>9,
           <1>10, <1>11, <1>12, <1>13, <1>14, <1>15, <1>16, <1>17

LEMMA PlacementInvariant == Spec => [](TypeInv /\ Placement)
<1>1. Init => TypeInv /\ Placement
  BY TypeInit, PlacementInit
<1>2. TypeInv /\ Placement /\ [Next]_vars => (TypeInv /\ Placement)'
  BY TypeStep, PlacementStep
<1> QED BY <1>1, <1>2, PTL DEF Spec

\* A job is executed by one host at most.
THEOREM FederationRunsOnce == Spec => []AtMostOneHost
<1>1. TypeInv /\ Placement => AtMostOneHost
  <2> SUFFICES ASSUME TypeInv, Placement, NEW r \in Requests, NEW g \in Hosts, NEW h \in Hosts,
                      work[g][r] # "none", work[h][r] # "none"
               PROVE  g = h
    BY DEF AtMostOneHost
  <2>1. g \in {Entry[r], peer[r]} /\ h \in {Entry[r], peer[r]}
    BY DEF Placement, WorkPlaced
  <2>2. CASE peer[r] = NoHost
    BY <2>1, <2>2, HostsAssumption
  <2>3. CASE peer[r] # NoHost
    BY <2>1, <2>3 DEF Placement, OneWay
  <2> QED BY <2>2, <2>3
<1> QED BY <1>1, PlacementInvariant, PTL

-----------------------------------------------------------------------------
(* Success.                                                                 *)

Achieved(r) == \E g \in Hosts : work[g][r] = "success"

PollsHonest == \A k \in Pollers : polls[k] = "success" => Achieved(Asked[k])

Honest == SuccessHonest /\ PollsHonest

\* No restart takes an achieved success back, and no thread starts over.
LEMMA AchievedStays ==
  ASSUME TypeInv, Placement, [Next]_vars, NEW r \in Requests, Achieved(r)
  PROVE  Achieved(r)'
<1> USE DEF TypeInv, TypeOK
<1>1. PICK g \in Hosts : work[g][r] = "success"
  BY DEF Achieved
<1>2. SUFFICES work'[g][r] = "success"
  BY DEF Achieved
<1>3. ASSUME NEW t \in Threads, Start(t) PROVE work'[g][r] = "success"
  BY <1>1, <1>3, StartFacts
<1>4. ASSUME NEW h \in Hosts, NEW q \in Requests, Begin(h, q) PROVE work'[g][r] = "success"
  BY <1>1, <1>4 DEF Begin
<1>5. ASSUME NEW h \in Hosts, NEW q \in Requests, End(h, q) PROVE work'[g][r] = "success"
  BY <1>1, <1>5 DEF End
<1>6. ASSUME NEW h \in Hosts, Restart(h) PROVE work'[g][r] = "success"
  BY <1>1, <1>6 DEF Restart
<1>7. CASE UNCHANGED work
  BY <1>1, <1>7
<1> QED BY StepCases, <1>3, <1>4, <1>5, <1>6, <1>7
        DEF Submit, Drop, ForwardAccepted, ForwardFails, Forward, Reject, Lock,
            Register, Refuse, Ask, Hear, Mirror, CountFailure, vars

LEMMA HonestInit == Init => Honest
BY DEF Init, Honest, SuccessHonest, PollsHonest

LEMMA HonestStep == TypeInv /\ Placement /\ Honest /\ [Next]_vars => Honest'
<1> SUFFICES ASSUME TypeInv, Placement, Honest, [Next]_vars PROVE Honest'
  OBVIOUS
<1> USE AskedAssumption, EntryAssumption DEF TypeInv, TypeOK
<1>0. \A r \in Requests : Achieved(r) => Achieved(r)'
  BY AchievedStays
<1>h. /\ \A h \in Hosts, r \in Requests : shown[h][r] = "success" => Achieved(r)
      /\ \A k \in Pollers : polls[k] = "success" => Achieved(Asked[k])
  BY DEF Honest, SuccessHonest, PollsHonest, Achieved
<1> DEFINE Shows == \A h \in Hosts, r \in Requests :
                      shown'[h][r] = "success" => Achieved(r) \/ Achieved(r)'
           Says == \A k \in Pollers : polls'[k] = "success" => Achieved(Asked[k])
<1>s. SUFFICES Shows /\ Says
  <2>1. \A r \in Requests : Achieved(r) \/ Achieved(r)' => Achieved(r)'
    BY <1>0
  <2>2. \A h \in Hosts, r \in Requests : shown'[h][r] = "success" => Achieved(r)'
    BY <1>s, <2>1
  <2>3. \A k \in Pollers : polls'[k] = "success" => Achieved(Asked[k])'
    BY <1>s, <1>0
  <2>4. SuccessHonest'
    BY <2>2 DEF SuccessHonest, Achieved
  <2> QED BY <2>3, <2>4 DEF Honest, PollsHonest
<1>a. ASSUME NEW g, NEW q, NEW s, Show(g, q, s), s = "success" => Achieved(q)
      PROVE  Shows
  BY <1>a, <1>h DEF Show
<1>b. UNCHANGED shown => Shows
  BY <1>h
<1>c. UNCHANGED polls => Says
  BY <1>h
<1> HIDE DEF Shows
<1>1. ASSUME NEW r \in Requests, ForwardAccepted(r) PROVE Shows /\ Says
  BY <1>1, <1>a, <1>c DEF ForwardAccepted
<1>2. ASSUME NEW t \in Threads, Register(t) PROVE Shows /\ Says
  BY <1>2, <1>a, <1>c DEF Register
<1>3. ASSUME NEW h \in Hosts, NEW r \in Requests, Begin(h, r) PROVE Shows /\ Says
  BY <1>3, <1>a, <1>c DEF Begin
<1>4. ASSUME NEW h \in Hosts, NEW r \in Requests, End(h, r) PROVE Shows /\ Says
  <2>1. PICK o \in Terminal : work' = [work EXCEPT ![h][r] = o] /\ Show(h, r, o)
    BY <1>4 DEF End
  <2>2. o = "success" => Achieved(r)'
    BY <2>1 DEF Achieved
  <2>3. Shows
    BY <1>h, <2>1, <2>2 DEF Show, Shows
  <2> QED BY <1>4, <1>c, <2>3 DEF End
<1>5. ASSUME NEW k \in Pollers, Ask(k) PROVE Shows /\ Says
  BY <1>5, <1>b, <1>h DEF Ask, Poll, registry
<1>6. ASSUME NEW k \in Pollers, Hear(k) PROVE Shows /\ Says
  <2>1. PICK word \in {PeerSays(Asked[k]), "error"} : Poll(k, word)
    BY <1>6 DEF Hear
  <2>2. peer[Asked[k]] \in Hosts /\ Asked[k] \in Requests
    BY <1>6 DEF Hear, ProxiesForwarded
  <2>3. word = "success" => Achieved(Asked[k])
    BY <1>h, <2>1, <2>2 DEF PeerSays
  <2> QED BY <1>6, <1>b, <1>h, <2>1, <2>3 DEF Hear, Poll, registry
<1>7. ASSUME NEW k \in Pollers, Mirror(k) PROVE Shows /\ Says
  <2>1. Shows
    BY <1>7, <1>a, <1>h DEF Mirror
  <2> QED BY <1>7, <1>h, <2>1 DEF Mirror, Poll
<1>8. ASSUME NEW k \in Pollers, CountFailure(k) PROVE Shows /\ Says
  <2>1. Shows
    BY <1>8, <1>a, <1>b DEF CountFailure
  <2> QED BY <1>8, <1>h, <2>1 DEF CountFailure, Poll
<1>9. ASSUME NEW h \in Hosts, Restart(h) PROVE Shows /\ Says
  BY <1>9, <1>h DEF Restart, Shows
<1>10. CASE UNCHANGED <<shown, polls>>
  BY <1>10, <1>b, <1>c
<1> QED BY StepCases, <1>1, <1>2, <1>3, <1>4, <1>5, <1>6, <1>7, <1>8, <1>9, <1>10
        DEF Submit, Drop, ForwardFails, Forward, Reject, Lock, Refuse, Start, vars, registry

\* A registry shows success only of a job that some host executed successfully.
THEOREM FederationHonest == Spec => []SuccessHonest
<1>1. Init => Honest
  BY HonestInit
<1>2. TypeInv /\ Placement /\ Honest /\ [Next]_vars => Honest'
  BY HonestStep
<1>3. Honest => SuccessHonest
  BY DEF Honest
<1> QED BY <1>1, <1>2, <1>3, PlacementInvariant, PTL DEF Spec

-----------------------------------------------------------------------------
(* The federation implements AtMostOnce.                                    *)

LEMMA CallInit == Init => Call!Init
<1> SUFFICES ASSUME Init PROVE Call!Init
  OBVIOUS
<1>1. \A r \in Requests : Answer(r) = "none"
  BY ThreadFacts DEF Init, Answer
<1>2. \A r \in Requests : Effect(r) = "none"
  BY EntryAssumption DEF Init, Effect
<1> QED BY <1>1, <1>2 DEF Call!Init

\* The host where the job of a submission is executed, if it is.
At(r) == IF peer[r] = NoHost THEN Entry[r] ELSE peer[r]

LEMMA CallStep == TypeInv /\ Placement /\ [Next]_vars => [Call!Next]_Call!vars
<1> SUFFICES ASSUME TypeInv, Placement, [Next]_vars PROVE [Call!Next]_Call!vars
  OBVIOUS
<1> USE EntryAssumption, HostsAssumption DEF TypeInv, TypeOK
<1> DEFINE SameAnswer(r) == Answer(r)' = Answer(r)
           SameEffect(r) == Effect(r)' = Effect(r)
           Said == {"accepted", "refused"}
<1>n. ASSUME \A r \in Requests : SameAnswer(r) /\ SameEffect(r)
      PROVE  [Call!Next]_Call!vars
  BY <1>n DEF Call!vars
<1>h. ASSUME NEW r \in Requests
      PROVE  /\ At(r) \in Hosts /\ Effect(r) = work[At(r)][r] /\ Effect(r)' = work'[At(r)'][r]
             /\ \A h \in Hosts : work[h][r] # "none" => h = At(r)
  <2>1. At(r) \in Hosts /\ Effect(r) = work[At(r)][r] /\ Effect(r)' = work'[At(r)'][r]
    BY DEF At, Effect
  <2>2. ASSUME NEW h \in Hosts, work[h][r] # "none" PROVE h = At(r)
    BY <2>2 DEF At, Placement, OneWay, WorkPlaced
  <2> QED BY <2>1, <2>2
<1>e. UNCHANGED <<peer, work>> => \A r \in Requests : SameEffect(r)
  BY DEF Effect
<1>a. ASSUME NEW t \in Threads, NEW p, Goto(t, p), pc[t] \notin Said,
             t[2] = "hop" \/ p \notin Said
      PROVE  \A r \in Requests : SameAnswer(r)
  <2> SUFFICES ASSUME NEW r \in Requests PROVE SameAnswer(r)
    OBVIOUS
  <2>1. CASE t = EntryOf(r)
    <3>1. pc'[EntryOf(r)] = p /\ t[2] = "entry"
      BY <1>a, <2>1, ThreadFacts DEF Goto
    <3> QED BY <1>a, <2>1, <3>1 DEF Answer
  <2>2. CASE t # EntryOf(r)
    BY <1>a, <2>2, ThreadFacts DEF Answer, Goto
  <2> QED BY <2>1, <2>2
<1>w. ASSUME NEW r \in Requests, NEW p \in Said, pc[EntryOf(r)] \notin Said, Goto(EntryOf(r), p)
      PROVE  Call!Answered(r, p)
  <2>1. \A q \in Requests : pc'[EntryOf(q)] = IF q = r THEN p ELSE pc[EntryOf(q)]
    BY <1>w, ThreadFacts DEF Goto
  <2>2. Answer(r) = "none" /\ Answer(r)' = p
    BY <1>w, <2>1 DEF Answer
  <2>3. \A q \in Requests \ {r} : Answer(q)' = Answer(q)
    BY <2>1 DEF Answer
  <2> QED BY <2>2, <2>3 DEF Call!Answered
<1>1. ASSUME NEW r \in Requests, Submit(r) PROVE [Call!Next]_Call!vars
  BY <1>1, <1>a, <1>e, <1>n, ThreadFacts DEF Submit
<1>2. ASSUME NEW r \in Requests, Drop(r) PROVE [Call!Next]_Call!vars
  BY <1>2, <1>a, <1>e, <1>n, ThreadFacts DEF Drop
<1>3. ASSUME NEW r \in Requests, ForwardAccepted(r) PROVE [Call!Next]_Call!vars
  <2>1. Call!Answered(r, "accepted")
    BY <1>3, <1>w DEF ForwardAccepted
  <2>2. peer[r] # NoHost /\ work[peer[r]][r] # "none"
    BY <1>3 DEF ForwardAccepted, ProxiesForwarded, Placement, WorkAccepted
  <2>3. Effect(r) # "none"
    BY <2>2 DEF Effect
  <2>4. Call!Accept(r)
    BY <1>3, <1>e, <2>1, <2>3 DEF Call!Accept, ForwardAccepted
  <2> QED BY <2>4 DEF Call!Next
<1>4. ASSUME NEW r \in Requests, Goto(EntryOf(r), "refused"), pc[EntryOf(r)] \notin Said,
             UNCHANGED <<peer, work>>
      PROVE  [Call!Next]_Call!vars
  <2>1. Call!Refuse(r)
    BY <1>4, <1>e, <1>w DEF Call!Refuse
  <2> QED BY <2>1 DEF Call!Next
<1>5. ASSUME NEW r \in Requests, ForwardFails(r) PROVE [Call!Next]_Call!vars
  BY <1>4, <1>5 DEF ForwardFails
<1>6. ASSUME NEW t \in Threads, Refuse(t) \/ Reject(t) PROVE [Call!Next]_Call!vars
  <2>1. CASE t[2] = "hop"
    BY <1>6, <1>a, <1>e, <1>n, <2>1 DEF Refuse, Reject
  <2>2. CASE t = EntryOf(t[1])
    <3>1. /\ t[1] \in Requests /\ Goto(EntryOf(t[1]), "refused")
          /\ pc[EntryOf(t[1])] \notin Said /\ UNCHANGED <<peer, work>>
      BY <1>6, <2>2, ThreadFacts DEF Refuse, Reject
    <3> QED BY <1>4, <3>1
  <2> QED BY <2>1, <2>2, ThreadFacts
<1>7. ASSUME NEW t \in Threads, Lock(t) PROVE [Call!Next]_Call!vars
  BY <1>7, <1>a, <1>e, <1>n DEF Lock
<1>8. ASSUME NEW t \in Threads, Register(t) PROVE [Call!Next]_Call!vars
  BY <1>8, <1>a, <1>e, <1>n DEF Register
<1>9. ASSUME NEW r \in Requests, Forward(r) PROVE [Call!Next]_Call!vars
  <2>1. PICK p \in Hosts : p # Entry[r] /\ peer' = [peer EXCEPT ![r] = p]
    BY <1>9, PeersAssumption DEF Forward
  <2>2. peer[r] = NoHost /\ work[Entry[r]][r] = "none" /\ work[p][r] = "none"
    <3>1. peer[r] = NoHost /\ work[Entry[r]][r] = "none"
      BY <1>9 DEF Forward, Placement, OneWay, WorkAccepted
    <3>2. p # At(r)
      BY <2>1, <3>1 DEF At
    <3> QED BY <1>h, <3>1, <3>2
  <2>3. UNCHANGED work
    BY <1>9 DEF Forward
  <2>4. \A q \in Requests : SameEffect(q)
    BY <2>1, <2>2, <2>3 DEF Effect
  <2>5. \A q \in Requests : SameAnswer(q)
    BY <1>9, ThreadFacts DEF Forward, Answer
  <2> QED BY <2>4, <2>5, <1>n
<1>10. ASSUME NEW t \in Threads, Start(t) PROVE [Call!Next]_Call!vars
  <2> DEFINE r == t[1]
  <2>1. r \in Requests
    BY ThreadFacts
  <2>2. UNCHANGED peer /\ pc[t] \notin Said /\ Goto(t, "accepted")
    BY <1>10 DEF Start
  <2>3. HostOf(t) = At(r)
    BY <1>10, StartFacts DEF At
  <2>4. Effect(r) = "none" /\ Effect(r)' = "ready"
    BY <1>10, <2>1, <2>2, <2>3, <1>h, StartFacts DEF At
  <2>5. ASSUME NEW q \in Requests \ {r} PROVE SameEffect(q)
    <3>1. At(q)' = At(q) /\ At(q) \in Hosts
      BY <2>2, <1>h DEF At
    <3>2. work'[At(q)][q] = work[At(q)][q]
      BY <1>10, <3>1, StartFacts
    <3> QED BY <1>h, <3>1, <3>2
  <2>6. \/ Call!Answered(r, "accepted")
        \/ \A q \in Requests : SameAnswer(q)
    <3>1. CASE t = EntryOf(r)
      BY <2>1, <2>2, <3>1, <1>w
    <3>2. CASE t = HopOf(r)
      BY <2>1, <2>2, <3>2, <1>a, ThreadFacts
    <3> QED BY <3>1, <3>2, ThreadFacts
  <2>7. Call!Place(r)
    BY <2>1, <2>4, <2>5, <2>6 DEF Call!Place
  <2> QED BY <2>1, <2>7 DEF Call!Next
<1>11. ASSUME NEW h \in Hosts, NEW r \in Requests, Begin(h, r) PROVE [Call!Next]_Call!vars
  <2>1. h = At(r) /\ work' = [work EXCEPT ![h][r] = "running"] /\ UNCHANGED <<pc, peer>>
    BY <1>11, <1>h DEF Begin, threads
  <2>2. Effect(r) = "ready" /\ Effect(r)' = "running"
    BY <1>11, <2>1, <1>h DEF Begin, At
  <2>3. ASSUME NEW q \in Requests \ {r} PROVE SameEffect(q)
    <3>1. At(q)' = At(q) /\ At(q) \in Hosts
      BY <2>1, <1>h DEF At
    <3>2. work'[At(q)][q] = work[At(q)][q]
      BY <2>1, <3>1
    <3> QED BY <1>h, <3>1, <3>2
  <2>4. \A q \in Requests : SameAnswer(q)
    BY <2>1 DEF Answer
  <2>5. Call!Begin(r)
    BY <2>2, <2>3, <2>4 DEF Call!Begin
  <2> QED BY <2>5 DEF Call!Next
<1>12. ASSUME NEW h \in Hosts, NEW r \in Requests, End(h, r) PROVE [Call!Next]_Call!vars
  <2>1. PICK o \in {"success", "fail"} : work' = [work EXCEPT ![h][r] = o]
    BY <1>12 DEF End, Terminal
  <2>2. h = At(r) /\ UNCHANGED <<pc, peer>>
    BY <1>12, <1>h DEF End, threads
  <2>3. Effect(r) = "running" /\ Effect(r)' = o
    BY <1>12, <2>1, <2>2, <1>h DEF End, At
  <2>4. ASSUME NEW q \in Requests \ {r} PROVE SameEffect(q)
    <3>1. At(q)' = At(q) /\ At(q) \in Hosts
      BY <2>1, <2>2, <1>h DEF At
    <3>2. work'[At(q)][q] = work[At(q)][q]
      BY <2>1, <2>2, <3>1
    <3> QED BY <1>h, <3>1, <3>2
  <2>5. \A q \in Requests : SameAnswer(q)
    BY <2>2 DEF Answer
  <2>6. Call!End(r)
    BY <2>3, <2>4, <2>5 DEF Call!End
  <2> QED BY <2>6 DEF Call!Next
<1>13. ASSUME NEW h \in Hosts, Restart(h) PROVE [Call!Next]_Call!vars
  <2> DEFINE S == {r \in Requests : At(r) = h /\ Effect(r) \in {"ready", "running"}}
  <2>1. \A r \in Requests : Effect(r)' = IF r \in S THEN "killed" ELSE Effect(r)
    BY <1>13, <1>h DEF Restart, At
  <2>2. \A r \in Requests : SameAnswer(r)
    BY <1>13, ThreadFacts DEF Restart, Serving, Answer
  <2>3. Call!Lose(S)
    BY <2>1, <2>2 DEF Call!Lose
  <2> QED BY <2>3 DEF Call!Next
<1>14. CASE UNCHANGED <<pc, peer, work>>
  BY <1>14, <1>e, <1>n DEF Answer
<1> QED BY StepCases, <1>1, <1>2, <1>3, <1>5, <1>6, <1>7, <1>8, <1>9, <1>10, <1>11, <1>12,
           <1>13, <1>14
        DEF Ask, Hear, Mirror, CountFailure, vars, threads

\* Seen by its clients, the federation is AtMostOnce: whatever calls are given
\* up and whatever hosts restart.
THEOREM FederationActsAsCall == Spec => ActsAsCall
<1> QED BY CallInit, CallStep, PlacementInvariant, PTL DEF Spec, ActsAsCall, Call!Spec
=============================================================================
