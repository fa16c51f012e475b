---------------------------- MODULE ProcessProofs ----------------------------
(***************************************************************************)
(* Proofs about the process around the servers.                            *)
(*                                                                         *)
(* Startup, for any number of processes, launches, deaths and edits: a     *)
(* launch never has two workers, and a worker runs with the options of the *)
(* last file that could be read and the last password that was set.        *)
(*                                                                         *)
(* Logger, for any number of threads, descriptors and files: _fd is open   *)
(* on the log while nobody rotates it, and no file outgrows the limit by   *)
(* more than a message of each thread.                                     *)
(***************************************************************************)
EXTENDS MCProcess, FiniteSetTheorems, WellFoundedInduction, TLAPS
-----------------------------------------------------------------------------
(* Startup.                                                                *)

\* A process on its way to a worker, and one that is a worker or was one.
Begun == {"main", "daemonize", "detach", "run", "guard"}
Working == {"worker", "serving"}
Finished == {"killed", "exited"}

Places == Begun \cup Working \cup Finished \cup {"none", "waiting"}

PTypeOK ==
  /\ pc \in [Pids -> Places]
  /\ parent \in [Pids -> Pids \cup {NoPid}]
  /\ launch \in [Pids -> Nat]
  /\ launches \in Nat
  /\ \A p \in Pids : launch[p] <= launches

\* A launch has one process that is on its way to a worker or guards one.
OneBegun ==
  \A p, q \in Pids : /\ pc[p] \in Begun \cup {"waiting"} /\ pc[q] \in Begun \cup {"waiting"}
                     /\ launch[p] = launch[q]
                     => p = q

\* A launch has one worker, counting one that the guard has not waited for.
OneWorker ==
  \A p, q \in Pids : /\ pc[p] \in Working \cup Finished /\ pc[q] \in Working \cup Finished
                     /\ launch[p] = launch[q]
                     => p = q

\* A launch that has a worker has nobody who would become or fork another.
NotBoth ==
  \A p, q \in Pids : pc[p] \in Begun /\ pc[q] \in Working \cup Finished
                     => launch[p] # launch[q]

\* Only workers have a guard; it is of their launch, and it waits for them.
GuardedAt(p) ==
  /\ pc[p] \in Begun \cup {"waiting"} => parent[p] = NoPid
  /\ pc[p] \in Working \cup Finished /\ parent[p] # NoPid =>
       pc[parent[p]] = "waiting" /\ launch[parent[p]] = launch[p]

Guarded == \A p \in Pids : GuardedAt(p)

LaunchInv == PTypeOK /\ OneBegun /\ OneWorker /\ NotBoth /\ Guarded

\* A set of loads that has a last one, if any.
HasLast(I) == I = {} \/ \E i \in I : \A j \in I : j <= i

\* Every process has the configuration that its loads are to result in.
ConfigInv ==
  /\ file \in Files /\ DOMAIN conf = Pids /\ loads \in [Pids -> Seq(Files)]
  /\ \A p \in Pids : /\ conf[p] = Expected(loads[p])
                     /\ HasLast(ReadLoads(loads[p])) /\ HasLast(PasswordLoads(loads[p]))
-----------------------------------------------------------------------------
\* The places of a process are told apart.
LEMMA PlacesApart ==
  /\ \A x \in Begun : x # "none" /\ x # "waiting" /\ x \notin Working /\ x \notin Finished
  /\ \A x \in Working \cup Finished : x # "none" /\ x # "waiting" /\ x \notin Begun
  /\ "worker" \in Working /\ "killed" \in Finished /\ "guard" \in Begun
BY DEF Begun, Working, Finished

\* There are no processes.
LEMMA InitLaunchInv ==
  ASSUME Init
  PROVE  LaunchInv
BY DEF Init, LaunchInv, PTypeOK, OneBegun, OneWorker, NotBoth, Guarded, GuardedAt,
       Places, Begun, Working, Finished

\* Steps in which the processes of each launch keep their roles or lose them.
LEMMA RolesShrink ==
  ASSUME LaunchInv,
         \A r \in Pids : pc'[r] \in Begun => pc[r] \in Begun /\ launch'[r] = launch[r],
         \A r \in Pids : pc'[r] = "waiting" => pc[r] = "waiting" /\ launch'[r] = launch[r],
         \A r \in Pids : pc'[r] \in Working \cup Finished =>
                           pc[r] \in Working \cup Finished /\ launch'[r] = launch[r]
  PROVE  OneBegun' /\ OneWorker' /\ NotBoth'
<1>1. OneBegun'
  BY DEF LaunchInv, OneBegun
<1>2. OneWorker'
  BY DEF LaunchInv, OneWorker
<1>3. NotBoth'
  BY DEF LaunchInv, NotBoth
<1> QED
  BY <1>1, <1>2, <1>3

\* A process that does not move stays guarded while the guards wait on.
LEMMA GuardKept ==
  ASSUME LaunchInv, NEW r \in Pids,
         pc'[r] = pc[r], parent'[r] = parent[r], launch'[r] = launch[r],
         \A g \in Pids : pc[g] = "waiting" => pc'[g] = "waiting" /\ launch'[g] = launch[g]
  PROVE  GuardedAt(r)'
<1>1. GuardedAt(r) /\ parent[r] \in Pids \cup {NoPid}
  BY DEF LaunchInv, PTypeOK, Guarded
<1> QED
  BY <1>1 DEF GuardedAt

\* A process that moves on in the same role.
LEMMA SameRole ==
  ASSUME LaunchInv, NEW p \in Pids, NEW l,
         (pc[p] \in Begun /\ l \in Begun) \/ (pc[p] \in Working /\ l \in Working),
         pc' = [pc EXCEPT ![p] = l], parent' = parent, launch' = launch, launches' = launches
  PROVE  LaunchInv'
<1>1. PTypeOK'
  BY DEF LaunchInv, PTypeOK, Places
<1>2. pc'[p] = l /\ \A r \in Pids \ {p} : pc'[r] = pc[r]
  BY DEF LaunchInv, PTypeOK
<1>3. \A r \in Pids : /\ pc'[r] \in Begun <=> pc[r] \in Begun
                      /\ pc'[r] = "waiting" <=> pc[r] = "waiting"
                      /\ pc'[r] \in Working \cup Finished <=> pc[r] \in Working \cup Finished
  BY <1>2, PlacesApart
<1>4. OneBegun' /\ OneWorker' /\ NotBoth'
  BY <1>3, RolesShrink
<1>5. Guarded'
  BY <1>3 DEF LaunchInv, PTypeOK, Guarded, GuardedAt
<1> QED
  BY <1>1, <1>4, <1>5 DEF LaunchInv

(***************************************************************************)
(* fork of daemonize: the parent goes, and a process of the same launch    *)
(* takes its role.                                                         *)
(***************************************************************************)
LEMMA ForkBegun ==
  ASSUME LaunchInv, NEW p \in Pids, NEW q \in Pids \ {p},
         pc[p] \in Begun, NEW c \in Begun, Fork(p, q, c, "none", FALSE)
  PROVE  LaunchInv'
<1>1. pc[q] = "none" /\ pc' = [pc EXCEPT ![q] = c, ![p] = "none"]
  BY DEF Fork, IsNew
<1>2. /\ launch' = [launch EXCEPT ![q] = launch[p]]
      /\ parent' = [parent EXCEPT ![q] = NoPid] /\ launches' = launches
  BY DEF Fork
<1>3. PTypeOK'
  BY <1>1, <1>2 DEF LaunchInv, PTypeOK, Places
<1>4. /\ pc'[q] = c /\ pc'[p] = "none" /\ \A r \in Pids \ {p, q} : pc'[r] = pc[r]
      /\ launch'[q] = launch[p] /\ \A r \in Pids \ {q} : launch'[r] = launch[r]
      /\ parent'[q] = NoPid /\ \A r \in Pids \ {q} : parent'[r] = parent[r]
  BY <1>1, <1>2 DEF LaunchInv, PTypeOK
<1> DEFINE was(r) == IF r = q THEN p ELSE r
<1>5. \A r \in Pids : /\ pc'[r] # "none" => was(r) \in Pids /\ launch'[r] = launch[was(r)]
                      /\ pc'[r] \in Begun => pc[was(r)] \in Begun
                      /\ pc'[r] = "waiting" => pc[was(r)] = "waiting"
                      /\ pc'[r] \in Working \cup Finished => r # q /\ pc[r] \in Working \cup Finished
  BY <1>1, <1>4, PlacesApart
<1>6. \A r, u \in Pids : pc'[r] # "none" /\ pc'[u] # "none" /\ was(r) = was(u) => r = u
  BY <1>4
<1> HIDE DEF was
<1>7. OneBegun'
  BY <1>5, <1>6, PlacesApart DEF LaunchInv, OneBegun
<1>8. OneWorker'
  BY <1>4, <1>5, PlacesApart DEF LaunchInv, OneWorker
<1>9. NotBoth'
  <2> SUFFICES ASSUME NEW r \in Pids, NEW u \in Pids, launch'[r] = launch'[u],
                      pc'[r] \in Begun, pc'[u] \in Working \cup Finished
               PROVE  FALSE
    BY DEF NotBoth
  <2>1. pc[u] \in Working \cup Finished /\ launch'[u] = launch[u]
    BY <1>4, <1>5
  <2> QED
    BY <2>1, <1>5, PlacesApart DEF LaunchInv, NotBoth
<1>10. Guarded'
  <2> SUFFICES ASSUME NEW r \in Pids PROVE GuardedAt(r)'
    BY DEF Guarded
  <2>1. CASE r = q \/ r = p
    BY <2>1, <1>4, PlacesApart DEF GuardedAt
  <2>2. CASE r # q /\ r # p
    <3>1. \A g \in Pids : pc[g] = "waiting" => pc'[g] = "waiting" /\ launch'[g] = launch[g]
      BY <1>1, <1>4, PlacesApart
    <3> QED
      BY <2>2, <3>1, <1>4, GuardKept
  <2> QED
    BY <2>1, <2>2
<1> QED
  BY <1>3, <1>7, <1>8, <1>9, <1>10 DEF LaunchInv

\* main without a guard: the process itself becomes the worker.
LEMMA RunWorker ==
  ASSUME LaunchInv, NEW p \in Pids, pc[p] \in Begun, pc' = [pc EXCEPT ![p] = "worker"],
         parent' = parent, launch' = launch, launches' = launches
  PROVE  LaunchInv'
<1>1. PTypeOK'
  BY PlacesApart DEF LaunchInv, PTypeOK, Places
<1>2. pc'[p] = "worker" /\ \A r \in Pids \ {p} : pc'[r] = pc[r]
  BY DEF LaunchInv, PTypeOK
<1>3. \A r \in Pids \ {p} : launch[r] = launch[p] => pc[r] \notin Begun \cup Working \cup Finished
  BY DEF LaunchInv, OneBegun, NotBoth
<1>4. OneBegun'
  BY <1>2, PlacesApart DEF LaunchInv, OneBegun
<1>5. OneWorker'
  BY <1>2, <1>3, PlacesApart DEF LaunchInv, OneWorker
<1>6. NotBoth'
  BY <1>2, <1>3, PlacesApart DEF LaunchInv, NotBoth
<1>7. Guarded'
  <2> SUFFICES ASSUME NEW r \in Pids PROVE GuardedAt(r)'
    BY DEF Guarded
  <2>1. CASE r = p
    BY <2>1, <1>2, PlacesApart DEF LaunchInv, Guarded, GuardedAt
  <2>2. CASE r # p
    <3>1. \A g \in Pids : pc[g] = "waiting" => pc'[g] = "waiting" /\ launch'[g] = launch[g]
      BY <1>2, PlacesApart
    <3> QED
      BY <2>2, <3>1, <1>2, GuardKept
  <2> QED
    BY <2>1, <2>2
<1> QED
  BY <1>1, <1>4, <1>5, <1>6, <1>7 DEF LaunchInv

\* guard forks a worker, and waits for it.
LEMMA GuardForkResult ==
  ASSUME LaunchInv, NEW p \in Pids, NEW q \in Pids \ {p}, GuardFork(p, q)
  PROVE  LaunchInv'
<1>1. pc[p] \in Begun /\ pc[q] = "none" /\ pc' = [pc EXCEPT ![q] = "worker", ![p] = "waiting"]
  BY PlacesApart DEF GuardFork, Fork, IsNew
<1>2. /\ launch' = [launch EXCEPT ![q] = launch[p]]
      /\ parent' = [parent EXCEPT ![q] = p] /\ launches' = launches
  BY DEF GuardFork, Fork
<1>3. PTypeOK'
  BY <1>1, <1>2, PlacesApart DEF LaunchInv, PTypeOK, Places
<1>4. /\ pc'[q] = "worker" /\ pc'[p] = "waiting" /\ \A r \in Pids \ {p, q} : pc'[r] = pc[r]
      /\ launch'[q] = launch[p] /\ \A r \in Pids \ {q} : launch'[r] = launch[r]
      /\ parent'[q] = p /\ \A r \in Pids \ {q} : parent'[r] = parent[r]
  BY <1>1, <1>2 DEF LaunchInv, PTypeOK
<1>5. \A r \in Pids \ {p} : launch[r] = launch[p] =>
        pc[r] \notin Begun \cup {"waiting"} \cup Working \cup Finished
  BY <1>1 DEF LaunchInv, OneBegun, NotBoth
<1>6. OneBegun'
  BY <1>1, <1>4, <1>5, PlacesApart DEF LaunchInv, OneBegun
<1>7. OneWorker'
  BY <1>1, <1>4, <1>5, PlacesApart DEF LaunchInv, OneWorker
<1>8. NotBoth'
  BY <1>1, <1>4, <1>5, PlacesApart DEF LaunchInv, NotBoth
<1>9. Guarded'
  <2> SUFFICES ASSUME NEW r \in Pids PROVE GuardedAt(r)'
    BY DEF Guarded
  <2>1. CASE r = q
    BY <2>1, <1>4, PlacesApart DEF GuardedAt
  <2>2. CASE r = p
    BY <2>2, <1>1, <1>4, PlacesApart DEF LaunchInv, Guarded, GuardedAt
  <2>3. CASE r # q /\ r # p
    <3>1. \A g \in Pids : pc[g] = "waiting" => pc'[g] = "waiting" /\ launch'[g] = launch[g]
      BY <1>1, <1>4, PlacesApart
    <3> QED
      BY <2>3, <3>1, <1>4, GuardKept
  <2> QED
    BY <2>1, <2>2, <2>3
<1> QED
  BY <1>3, <1>6, <1>7, <1>8, <1>9 DEF LaunchInv

\* A guard that cannot fork goes; no worker had it as its guard.
LEMMA GuardForkFailsResult ==
  ASSUME LaunchInv, NEW p \in Pids, GuardForkFails(p)
  PROVE  LaunchInv'
<1>1. /\ pc[p] \in Begun /\ pc' = [pc EXCEPT ![p] = "none"]
      /\ parent' = parent /\ launch' = launch /\ launches' = launches
  BY PlacesApart DEF GuardForkFails, Goto
<1>2. PTypeOK'
  BY <1>1 DEF LaunchInv, PTypeOK, Places
<1>3. pc'[p] = "none" /\ \A r \in Pids \ {p} : pc'[r] = pc[r]
  BY <1>1 DEF LaunchInv, PTypeOK
<1>4. OneBegun' /\ OneWorker' /\ NotBoth'
  <2>1. \A r \in Pids : pc'[r] \in Begun => pc[r] \in Begun /\ launch'[r] = launch[r]
    BY <1>1, <1>3, PlacesApart
  <2>2. \A r \in Pids : pc'[r] = "waiting" => pc[r] = "waiting" /\ launch'[r] = launch[r]
    BY <1>1, <1>3, PlacesApart
  <2>3. \A r \in Pids : pc'[r] \in Working \cup Finished =>
                           pc[r] \in Working \cup Finished /\ launch'[r] = launch[r]
    BY <1>1, <1>3, PlacesApart
  <2> QED
    BY <2>1, <2>2, <2>3, RolesShrink
<1>5. Guarded'
  <2> SUFFICES ASSUME NEW r \in Pids PROVE GuardedAt(r)'
    BY DEF Guarded
  <2>1. CASE r = p
    BY <2>1, <1>3, PlacesApart DEF GuardedAt
  <2>2. CASE r # p
    <3>1. \A g \in Pids : pc[g] = "waiting" => pc'[g] = "waiting" /\ launch'[g] = launch[g]
      BY <1>1, <1>3, PlacesApart
    <3> QED
      BY <2>2, <3>1, <1>1, <1>3, GuardKept
  <2> QED
    BY <2>1, <2>2
<1> QED
  BY <1>2, <1>4, <1>5 DEF LaunchInv

(***************************************************************************)
(* waitpid returns: the launch has no other worker, so that the guard may  *)
(* fork again.                                                             *)
(***************************************************************************)
LEMMA GuardWaitResult ==
  ASSUME StartupAssumption, LaunchInv, NEW p \in Pids, NEW q \in Pids \ {p}, GuardWait(p, q)
  PROVE  LaunchInv'
<1> DEFINE d == IF pc[q] = "exited" THEN "none" ELSE "guard"
<1>1. /\ pc[p] = "waiting" /\ parent[q] = p /\ pc[q] \in Finished
      /\ pc' = [pc EXCEPT ![q] = "none", ![p] = d]
      /\ parent' = parent /\ launch' = launch /\ launches' = launches
  BY DEF GuardWait, Finished
<1>2. d = "none" \/ d \in Begun
  BY PlacesApart
<1> HIDE DEF d
<1>3. PTypeOK'
  BY <1>1, <1>2 DEF LaunchInv, PTypeOK, Places
<1>4. pc'[q] = "none" /\ pc'[p] = d /\ \A r \in Pids \ {p, q} : pc'[r] = pc[r]
  BY <1>1 DEF LaunchInv, PTypeOK
<1>5. launch[q] = launch[p]
  BY <1>1, StartupAssumption DEF LaunchInv, Guarded, GuardedAt
<1>6. \A r \in Pids \ {p, q} : launch[r] = launch[p] =>
        pc[r] \notin Begun \cup {"waiting"} \cup Working \cup Finished
  BY <1>1, <1>5 DEF LaunchInv, OneBegun, OneWorker
<1>7. OneBegun'
  BY <1>1, <1>2, <1>4, <1>6, PlacesApart DEF LaunchInv, OneBegun
<1>8. OneWorker'
  BY <1>1, <1>2, <1>4, PlacesApart DEF LaunchInv, OneWorker
<1>9. NotBoth'
  BY <1>1, <1>2, <1>4, <1>6, PlacesApart DEF LaunchInv, NotBoth
<1>10. Guarded'
  <2> SUFFICES ASSUME NEW r \in Pids PROVE GuardedAt(r)'
    BY DEF Guarded
  <2>1. CASE r = q
    BY <2>1, <1>4, PlacesApart DEF GuardedAt
  <2>2. CASE r = p
    BY <2>2, <1>1, <1>2, <1>4, PlacesApart DEF LaunchInv, Guarded, GuardedAt
  <2>3. CASE r # q /\ r # p
    <3>1. GuardedAt(r) /\ parent[r] \in Pids \cup {NoPid}
      BY DEF LaunchInv, PTypeOK, Guarded
    <3>2. pc'[r] = pc[r] /\ parent'[r] = parent[r] /\ launch'[r] = launch[r]
      BY <2>3, <1>1, <1>4
    <3>3. CASE pc[r] \in Working \cup Finished /\ parent[r] # NoPid
      <4>1. parent[r] \in Pids /\ pc[parent[r]] = "waiting" /\ launch[parent[r]] = launch[r]
        BY <3>1, <3>3 DEF GuardedAt
      <4>2. parent[r] # p /\ parent[r] # q
        BY <2>3, <3>3, <4>1, <1>1, <1>6, PlacesApart
      <4> QED
        BY <3>2, <3>3, <4>1, <4>2, <1>1, <1>4, PlacesApart DEF GuardedAt
    <3>4. CASE ~(pc[r] \in Working \cup Finished /\ parent[r] # NoPid)
      BY <3>1, <3>2, <3>4 DEF GuardedAt
    <3> QED
      BY <3>3, <3>4
  <2> QED
    BY <2>1, <2>2, <2>3
<1> QED
  BY <1>3, <1>7, <1>8, <1>9, <1>10 DEF LaunchInv

\* A process ends: the children of a guard have none, a guarded worker is
\* waited for.
LEMMA EndsResult ==
  ASSUME LaunchInv, NEW p \in Pids, NEW d, Ends(p, d), launches' = launches,
         d = "none" \/ (d = "killed" /\ pc[p] \in Working)
  PROVE  LaunchInv'
<1>1. /\ parent' = [r \in Pids |-> IF parent[r] = p THEN NoPid ELSE parent[r]]
      /\ launch' = launch
  BY DEF Ends
<1>2. PTypeOK'
  <2>1. \A r \in Pids : pc'[r] \in Places
    BY PlacesApart DEF Ends, LaunchInv, PTypeOK, Places
  <2> QED
    BY <1>1, <2>1 DEF Ends, LaunchInv, PTypeOK
<1>3. /\ pc'[p] = d
      /\ \A r \in Pids \ {p} : \/ pc'[r] = pc[r]
                               \/ pc[r] \in Finished /\ pc'[r] = "none"
  BY DEF Ends, Finished
<1>4. \A r \in Pids : /\ pc'[r] \in Begun => pc[r] \in Begun
                      /\ pc'[r] = "waiting" => pc[r] = "waiting"
                      /\ pc'[r] \in Working \cup Finished => pc[r] \in Working \cup Finished
  BY <1>3, PlacesApart
<1>5. OneBegun' /\ OneWorker' /\ NotBoth'
  BY <1>1, <1>4, RolesShrink
<1>6. Guarded'
  <2> SUFFICES ASSUME NEW r \in Pids PROVE GuardedAt(r)'
    BY DEF Guarded
  <2>1. GuardedAt(r) /\ parent[r] \in Pids \cup {NoPid}
    BY DEF LaunchInv, PTypeOK, Guarded
  <2>2. parent'[r] = IF parent[r] = p THEN NoPid ELSE parent[r]
    BY <1>1
  <2>4. pc'[r] \in Begun \cup {"waiting"} => parent'[r] = NoPid
    BY <2>1, <2>2, <1>4 DEF GuardedAt
  <2>5. ASSUME pc'[r] \in Working \cup Finished, parent'[r] # NoPid
        PROVE  pc'[parent'[r]] = "waiting" /\ launch'[parent'[r]] = launch'[r]
    <3>1. parent[r] # p /\ parent'[r] = parent[r] /\ parent[r] \in Pids
      BY <2>1, <2>2, <2>5
    <3>2. pc[parent[r]] = "waiting" /\ launch[parent[r]] = launch[r]
      BY <2>1, <1>4, <2>5, <3>1 DEF GuardedAt
    <3> QED
      BY <3>1, <3>2, <1>1, <1>3, PlacesApart
  <2> QED
    BY <2>4, <2>5 DEF GuardedAt
<1> QED
  BY <1>2, <1>5, <1>6 DEF LaunchInv

\* A death, and a guard that cannot wait.
LEMMA DieResult ==
  ASSUME LaunchInv, NEW p \in Pids, Die(p) \/ GuardWaitFails(p)
  PROVE  LaunchInv'
<1>1. CASE GuardWaitFails(p)
  BY <1>1, EndsResult DEF GuardWaitFails, Ends
<1>2. CASE Die(p)
  <2> DEFINE d == IF parent[p] # NoPid /\ pc[parent[p]] = "waiting" THEN "killed" ELSE "none"
  <2>1. pc[p] \in {"serving", "guard", "waiting"} /\ Ends(p, d) /\ launches' = launches
    BY <1>2 DEF Die, Ends
  <2>2. d = "none" \/ (d = "killed" /\ pc[p] \in Working)
    <3>1. pc[p] # "serving" => parent[p] = NoPid
      BY <2>1 DEF LaunchInv, Guarded, GuardedAt, Begun
    <3> QED
      BY <2>1, <3>1 DEF Working
  <2> HIDE DEF d
  <2> QED
    BY <2>1, <2>2, EndsResult
<1> QED
  BY <1>1, <1>2

\* A launch: its number is new.
LEMMA LaunchResult ==
  ASSUME LaunchInv, NEW p \in Pids, Launch(p)
  PROVE  LaunchInv'
<1>1. /\ pc[p] = "none" /\ pc' = [pc EXCEPT ![p] = "main"]
      /\ parent' = [parent EXCEPT ![p] = NoPid]
      /\ launch' = [launch EXCEPT ![p] = launches + 1] /\ launches' = launches + 1
  BY DEF Launch, IsNew
<1>2. "main" \in Begun
  BY DEF Begun
<1>3. PTypeOK'
  BY <1>1, <1>2 DEF LaunchInv, PTypeOK, Places
<1>4. /\ pc'[p] \in Begun /\ \A r \in Pids \ {p} : pc'[r] = pc[r]
      /\ parent'[p] = NoPid /\ \A r \in Pids \ {p} : parent'[r] = parent[r]
      /\ \A r \in Pids \ {p} : launch'[r] = launch[r] /\ launch'[r] # launch'[p]
  BY <1>1, <1>2 DEF LaunchInv, PTypeOK
<1>5. OneBegun'
  BY <1>4, PlacesApart DEF LaunchInv, OneBegun
<1>6. OneWorker'
  BY <1>4, PlacesApart DEF LaunchInv, OneWorker
<1>7. NotBoth'
  BY <1>4, PlacesApart DEF LaunchInv, NotBoth
<1>8. Guarded'
  <2> SUFFICES ASSUME NEW r \in Pids PROVE GuardedAt(r)'
    BY DEF Guarded
  <2>1. CASE r = p
    BY <2>1, <1>4, PlacesApart DEF GuardedAt
  <2>2. CASE r # p
    <3>1. \A g \in Pids : pc[g] = "waiting" => pc'[g] = "waiting" /\ launch'[g] = launch[g]
      BY <1>1, <1>4
    <3> QED
      BY <2>2, <3>1, <1>4, GuardKept
  <2> QED
    BY <2>1, <2>2
<1> QED
  BY <1>3, <1>5, <1>6, <1>7, <1>8 DEF LaunchInv

\* Every step keeps the roles of the processes of a launch apart.
LEMMA NextLaunchInv ==
  ASSUME StartupAssumption, LaunchInv, [Next]_vars
  PROVE  LaunchInv'
<1>1. CASE UNCHANGED <<pc, parent, launch, launches>>
  <2>1. PTypeOK' /\ OneBegun' /\ OneWorker' /\ NotBoth'
    BY <1>1 DEF LaunchInv, PTypeOK, OneBegun, OneWorker, NotBoth
  <2>2. Guarded'
    BY <1>1 DEF LaunchInv, Guarded, GuardedAt
  <2> QED
    BY <2>1, <2>2 DEF LaunchInv
<1>2. CASE UNCHANGED vars \/ Edit
  BY <1>1, <1>2 DEF vars, proc, Edit
<1>3. ASSUME NEW p \in Pids, Launch(p) \/ Die(p) PROVE LaunchInv'
  BY <1>3, LaunchResult, DieResult
<1>4. ASSUME NEW p \in Pids, Main(p) \/ DaemonizeError(p) PROVE LaunchInv'
  <2>1. PICK l \in Begun : /\ pc[p] \in Begun /\ pc' = [pc EXCEPT ![p] = l]
                           /\ parent' = parent /\ launch' = launch /\ launches' = launches
    BY <1>4 DEF Main, DaemonizeError, Goto, Begun
  <2> QED
    BY <2>1, SameRole
<1>5. ASSUME NEW p \in Pids, Run(p) PROVE LaunchInv'
  <2>1. /\ pc[p] \in Begun /\ parent' = parent /\ launch' = launch /\ launches' = launches
        /\ pc' = [pc EXCEPT ![p] = "guard"] \/ pc' = [pc EXCEPT ![p] = "worker"]
    BY <1>5 DEF Run, Goto, Begun
  <2>2. CASE pc' = [pc EXCEPT ![p] = "guard"]
    BY <2>1, <2>2, PlacesApart, SameRole
  <2>3. CASE pc' = [pc EXCEPT ![p] = "worker"]
    BY <2>1, <2>3, RunWorker
  <2> QED
    BY <2>1, <2>2, <2>3
<1>6. ASSUME NEW p \in Pids, Serve(p) PROVE LaunchInv'
  <2>1. /\ pc[p] \in Working /\ pc' = [pc EXCEPT ![p] = "serving"] /\ "serving" \in Working
        /\ parent' = parent /\ launch' = launch /\ launches' = launches
    BY <1>6 DEF Serve, Working
  <2> QED
    BY <2>1, SameRole
<1>7. ASSUME NEW p \in Pids, GuardForkFails(p) \/ GuardWaitFails(p) PROVE LaunchInv'
  BY <1>7, GuardForkFailsResult, DieResult
<1>8. ASSUME NEW p \in Pids, NEW q \in Pids \ {p}, DaemonizeFork(p, q) \/ DetachFork(p, q)
      PROVE  LaunchInv'
  <2>1. PICK c \in Begun : pc[p] \in Begun /\ Fork(p, q, c, "none", FALSE)
    BY <1>8 DEF DaemonizeFork, DetachFork, Begun
  <2> QED
    BY <2>1, ForkBegun
<1>9. ASSUME NEW p \in Pids, NEW q \in Pids \ {p}, GuardFork(p, q) \/ GuardWait(p, q)
      PROVE  LaunchInv'
  BY <1>9, GuardForkResult, GuardWaitResult
<1> QED
  BY <1>2, <1>3, <1>4, <1>5, <1>6, <1>7, <1>8, <1>9 DEF Next, Program

\* The inductive invariant, with the processes of a launch counted.
LEMMA LaunchInvOne ==
  ASSUME LaunchInv
  PROVE  OneWorkerPerLaunch
<1>1. \A S : (\A x, y \in S : x = y) => Cardinality(S) <= 1
  <2> SUFFICES ASSUME NEW S, \A x, y \in S : x = y PROVE Cardinality(S) <= 1
    OBVIOUS
  <2>1. CASE S = {}
    BY <2>1, FS_EmptySet
  <2>2. ASSUME NEW x \in S PROVE Cardinality(S) <= 1
    <3>1. S = {x}
      OBVIOUS
    <3> QED
      BY <3>1, FS_Singleton
  <2> QED
    BY <2>1, <2>2
<1> SUFFICES ASSUME NEW l \in 1 .. MaxLaunches
             PROVE  /\ Cardinality(At(l, {"worker", "serving"})) <= 1
                    /\ Cardinality(At(l, {"main", "daemonize", "detach", "run",
                                          "guard", "waiting"})) <= 1
                    /\ At(l, {"main", "daemonize", "detach", "run", "guard"}) = {}
                          \/ At(l, {"worker", "serving"}) = {}
  BY DEF OneWorkerPerLaunch
<1>2. \A x, y \in At(l, {"worker", "serving"}) : x = y
  BY DEF LaunchInv, OneWorker, At, Working
<1>3. \A x, y \in At(l, {"main", "daemonize", "detach", "run", "guard", "waiting"}) : x = y
  BY DEF LaunchInv, OneBegun, At, Begun
<1>4. At(l, {"main", "daemonize", "detach", "run", "guard"}) = {}
        \/ At(l, {"worker", "serving"}) = {}
  BY DEF LaunchInv, NotBoth, At, Begun, Working
<1> QED
  BY <1>1, <1>2, <1>3, <1>4

(***************************************************************************)
(* main, daemonize, guard and xhttpcache(), for any number of processes,   *)
(* launches and deaths: a launch has at most one worker and at most one    *)
(* process that guards it or is on its way to it, whoever dies when.       *)
(***************************************************************************)
THEOREM StartupOneWorker == Spec => []OneWorkerPerLaunch
<1>1. Init => LaunchInv
  BY InitLaunchInv
<1>2. LaunchInv /\ [Next]_vars => LaunchInv'
  BY NextLaunchInv, StartupAssumption
<1>3. LaunchInv => OneWorkerPerLaunch
  BY LaunchInvOne
<1> QED
  BY <1>1, <1>2, <1>3, PTL DEF Spec
-----------------------------------------------------------------------------
(* The configuration of the processes.                                     *)

\* LoadApp sets every option but the password, whatever was there before.
LEMMA LoadAppOver ==
  ASSUME NEW c, NEW x
  PROVE  LoadApp(c, x) = [LoadApp(ZeroConf, x) EXCEPT
                            !.encode_pass = IF Credentials(x) # <<>> THEN Credentials(x)
                                                                     ELSE c.encode_pass]
<1> DEFINE z == LoadApp(ZeroConf, x)
           pass == IF Credentials(x) # <<>> THEN Credentials(x) ELSE c.encode_pass
           r == [guard |-> z.guard, daemonize |-> z.daemonize,
                 etag_cache_count |-> z.etag_cache_count, etag_cache_size |-> z.etag_cache_size,
                 max_upload_file_size |-> z.max_upload_file_size,
                 frontend |-> z.frontend, backend |-> z.backend, encode_pass |-> pass]
<1>1. LoadApp(c, x) = r
  BY DEF LoadApp
<1>2. DOMAIN z = DOMAIN r
  BY DEF LoadApp
<1>3. [z EXCEPT !.encode_pass = pass] = r
  <2> HIDE DEF z, pass
  <2> QED
    BY <1>2
<1> QED
  BY <1>1, <1>3

\* The last of some loads, when another file is loaded.
LEMMA LatestAppend ==
  ASSUME NEW s \in Seq(Files), NEW f \in Files, NEW I \in SUBSET (1 .. Len(s)), HasLast(I)
  PROVE  /\ Latest(Append(s, f), I) = Latest(s, I)
         /\ Latest(Append(s, f), I \cup {Len(s) + 1}) = LoadApp(ZeroConf, ReadFile[f].ini)
         /\ HasLast(I \cup {Len(s) + 1})
<1>1. ASSUME I # {} PROVE Latest(Append(s, f), I) = Latest(s, I)
  <2> DEFINE last == CHOOSE i \in I : \A j \in I : j <= i
  <2>1. last \in I
    BY <1>1 DEF HasLast
  <2>2. Append(s, f)[last] = s[last]
    BY <2>1
  <2> QED
    BY <1>1, <2>2 DEF Latest
<1> DEFINE J == I \cup {Len(s) + 1}
           last == CHOOSE i \in J : \A j \in J : j <= i
<1>2. Len(s) + 1 \in J /\ \A j \in J : j <= Len(s) + 1 /\ j \in Nat
  OBVIOUS
<1> HIDE DEF J
<1>3. last \in J /\ \A j \in J : j <= last
  BY <1>2
<1>4. last = Len(s) + 1
  <2> HIDE DEF last
  <2> QED
    BY <1>2, <1>3
<1>5. Append(s, f)[last] = f
  <2> HIDE DEF last
  <2> QED
    BY <1>4
<1>6. Latest(Append(s, f), J) = LoadApp(ZeroConf, ReadFile[f].ini)
  BY <1>2, <1>5 DEF Latest
<1> QED
  BY <1>1, <1>2, <1>6 DEF HasLast, Latest, J

\* The loads that count, when another file is loaded.
LEMMA LoadsAppend ==
  ASSUME NEW s \in Seq(Files), NEW f \in Files
  PROVE  /\ ReadLoads(s) \subseteq 1 .. Len(s) /\ PasswordLoads(s) \subseteq 1 .. Len(s)
         /\ ReadLoads(Append(s, f)) =
               ReadLoads(s) \cup (IF Readable(f) THEN {Len(s) + 1} ELSE {})
         /\ PasswordLoads(Append(s, f)) =
               PasswordLoads(s) \cup (IF Readable(f) /\ Credentials(ReadFile[f].ini) # <<>>
                                      THEN {Len(s) + 1} ELSE {})
<1> DEFINE t == Append(s, f)
<1>1. DOMAIN s = 1 .. Len(s) /\ DOMAIN t = DOMAIN s \cup {Len(s) + 1} /\ Len(s) + 1 \notin DOMAIN s
  OBVIOUS
<1>2. t[Len(s) + 1] = f /\ \A i \in DOMAIN s : t[i] = s[i]
  BY <1>1
<1> HIDE DEF t
<1>3. ReadLoads(t) = ReadLoads(s) \cup (IF Readable(f) THEN {Len(s) + 1} ELSE {})
  BY <1>1, <1>2 DEF ReadLoads
<1>4. ReadLoads(s) \subseteq DOMAIN s /\ PasswordLoads(s) \subseteq DOMAIN s
  BY DEF ReadLoads, PasswordLoads
<1>5. PasswordLoads(t) = PasswordLoads(s)
                           \cup (IF Readable(f) /\ Credentials(ReadFile[f].ini) # <<>>
                                 THEN {Len(s) + 1} ELSE {})
  BY <1>1, <1>2, <1>3, <1>4 DEF PasswordLoads
<1> QED
  BY <1>1, <1>3, <1>4, <1>5 DEF t

\* Load makes of what is expected of some loads what is expected of one more.
LEMMA LoadExpected ==
  ASSUME NEW s \in Seq(Files), NEW f \in Files,
         HasLast(ReadLoads(s)), HasLast(PasswordLoads(s))
  PROVE  /\ Load(Expected(s), f) = Expected(Append(s, f))
         /\ HasLast(ReadLoads(Append(s, f))) /\ HasLast(PasswordLoads(Append(s, f)))
<1> DEFINE t == Append(s, f)
           x == ReadFile[f].ini
           R == ReadLoads(s)
           P == PasswordLoads(s)
           n == Len(s) + 1
<1>1. R \in SUBSET (1 .. Len(s)) /\ P \in SUBSET (1 .. Len(s))
  BY LoadsAppend
<1>2. /\ Latest(t, R) = Latest(s, R) /\ Latest(t, P) = Latest(s, P)
      /\ Latest(t, R \cup {n}) = LoadApp(ZeroConf, x)
      /\ Latest(t, P \cup {n}) = LoadApp(ZeroConf, x)
      /\ HasLast(R \cup {n}) /\ HasLast(P \cup {n})
  BY <1>1, LatestAppend
<1>3. /\ ReadLoads(t) = R \cup (IF Readable(f) THEN {n} ELSE {})
      /\ PasswordLoads(t) = P \cup (IF Readable(f) /\ Credentials(x) # <<>> THEN {n} ELSE {})
  BY LoadsAppend
<1> HIDE DEF t, x, R, P, n
<1>4. CASE ~Readable(f)
  BY <1>2, <1>3, <1>4 DEF Load, Expected, R, P, t
<1>5. CASE Readable(f)
  <2>1. Load(Expected(s), f) = LoadApp(Expected(s), x)
    BY <1>5 DEF Load, x
  <2>2. Expected(s).encode_pass = Latest(s, P).encode_pass
    <3>1. DOMAIN Latest(s, R) = DOMAIN ZeroConf /\ "encode_pass" \in DOMAIN ZeroConf
      BY DEF Latest, LoadApp, ZeroConf
    <3> QED
      BY <3>1 DEF Expected, R, P
  <2>3. Credentials(x) # <<>> => LoadApp(ZeroConf, x).encode_pass = Credentials(x)
    BY DEF LoadApp
  <2>4. Expected(t) = [LoadApp(ZeroConf, x) EXCEPT
                         !.encode_pass = Latest(t, PasswordLoads(t)).encode_pass]
    BY <1>2, <1>3, <1>5 DEF Expected
  <2>5. Latest(t, PasswordLoads(t)).encode_pass =
          IF Credentials(x) # <<>> THEN Credentials(x) ELSE Expected(s).encode_pass
    BY <1>2, <1>3, <1>5, <2>2, <2>3
  <2>6. Load(Expected(s), f) = Expected(t)
    BY <2>1, <2>4, <2>5, LoadAppOver
  <2> QED
    BY <1>2, <1>3, <2>6 DEF R, P, t
<1> QED
  BY <1>4, <1>5

\* A load of the file by a process.
LEMMA LoadedResult ==
  ASSUME ConfigInv, NEW p \in Pids, Loaded(p, Load(conf[p], file)), file' = file
  PROVE  ConfigInv'
<1>1. /\ conf' = [conf EXCEPT ![p] = Load(conf[p], file)]
      /\ loads' = [loads EXCEPT ![p] = Append(loads[p], file)]
  BY DEF Loaded
<1>2. loads[p] \in Seq(Files) /\ file \in Files /\ conf[p] = Expected(loads[p])
  BY DEF ConfigInv
<1>3. /\ Load(conf[p], file) = Expected(Append(loads[p], file))
      /\ HasLast(ReadLoads(Append(loads[p], file)))
      /\ HasLast(PasswordLoads(Append(loads[p], file)))
  BY <1>2, LoadExpected DEF ConfigInv
<1>4. /\ DOMAIN conf' = Pids /\ loads' \in [Pids -> Seq(Files)]
      /\ loads'[p] = Append(loads[p], file) /\ \A r \in Pids \ {p} : loads'[r] = loads[r]
      /\ conf'[p] = Load(conf[p], file) /\ \A r \in Pids \ {p} : conf'[r] = conf[r]
  BY <1>1, <1>2 DEF ConfigInv
<1> QED
  BY <1>3, <1>4 DEF ConfigInv

\* Before any load.
LEMMA NoLoads ==
  /\ <<>> \in Seq(Files) /\ Expected(<<>>) = ZeroConf
  /\ HasLast(ReadLoads(<<>>)) /\ HasLast(PasswordLoads(<<>>))
<1>1. ReadLoads(<<>>) = {} /\ PasswordLoads(<<>>) = {}
  BY DEF ReadLoads, PasswordLoads
<1>2. [ZeroConf EXCEPT !.encode_pass = ZeroConf.encode_pass] = ZeroConf
  BY DEF ZeroConf
<1> QED
  BY <1>1, <1>2 DEF Expected, Latest, HasLast

\* Every step leaves each process with what is expected of its loads.
LEMMA NextConfigInv ==
  ASSUME ConfigInv, [Next]_vars
  PROVE  ConfigInv'
<1>1. CASE UNCHANGED <<conf, loads>> /\ file' \in Files
  BY <1>1 DEF ConfigInv
<1>2. ASSUME NEW p \in Pids, Launch(p) PROVE ConfigInv'
  BY <1>2, NoLoads DEF Launch, ConfigInv
<1>3. ASSUME NEW p \in Pids, Main(p) \/ Serve(p) PROVE ConfigInv'
  BY <1>3, LoadedResult DEF Main, Serve
<1>4. ASSUME NEW p \in Pids, NEW q \in Pids \ {p},
             DaemonizeFork(p, q) \/ DetachFork(p, q) \/ GuardFork(p, q)
      PROVE  ConfigInv'
  <2>1. /\ conf' = [conf EXCEPT ![q] = conf[p]]
        /\ loads' = [loads EXCEPT ![q] = loads[p]] /\ file' = file
    BY <1>4 DEF DaemonizeFork, DetachFork, GuardFork, Fork
  <2> QED
    BY <2>1 DEF ConfigInv
<1>5. CASE UNCHANGED vars \/ Edit
  BY <1>1, <1>5 DEF vars, proc, Edit, ConfigInv
<1>6. ASSUME NEW p \in Pids,
             Die(p) \/ DaemonizeError(p) \/ Run(p) \/ GuardForkFails(p) \/ GuardWaitFails(p)
               \/ \E q \in Pids : GuardWait(p, q)
      PROVE  ConfigInv'
  BY <1>1, <1>6 DEF Die, DaemonizeError, Run, GuardForkFails, GuardWait, GuardWaitFails, Ends,
                    Goto, ConfigInv
<1> QED
  BY <1>2, <1>3, <1>4, <1>5, <1>6 DEF Next, Program

(***************************************************************************)
(* Load in main and in the worker, over what fork has copied, for any      *)
(* files and any edits of them: a worker has the password of the last file *)
(* read that sets one, and every other option of the last file that could  *)
(* be read to its end.                                                     *)
(***************************************************************************)
THEOREM StartupConfigWhole == Spec => []ConfigWhole
<1>1. Init => ConfigInv
  BY NoLoads DEF Init, ConfigInv
<1>2. ConfigInv /\ [Next]_vars => ConfigInv'
  BY NextConfigInv
<1>3. ConfigInv => ConfigWhole
  BY DEF ConfigInv, ConfigWhole
<1> QED
  BY <1>1, <1>2, <1>3, PTL DEF Spec
-----------------------------------------------------------------------------
(* Logger.                                                                 *)

NoFd == Log!NoFd
NoFile == Log!NoFile
Opened == Log!Opened

\* The places of a thread that has the mutex.
Holding == {"lseek", "rename", "open", "close", "assign", "unlock"}

\* The mutex is with the one thread that is between Lock and Unlock.
Exclusive == \A t \in Threads : at[t] \in Holding <=> mutex = t

\* Log files have numbers from 1 on, and a descriptor is open on one of them.
Numbered ==
  /\ \E k \in 1 .. MaxFiles : Opened = 1 .. k
  /\ \A n \in Fds : table[n] \in Opened \cup {Log!Socket, Log!Closed}

\* _fd is open on the log, unless there was no descriptor for it.
Healthy == _fd = NoFd \/ (name # NoFile /\ table[_fd] = name)

\* Where rotateLog is, and what it has done by then.
RotationAt(t) ==
  /\ at[t] \in {"lseek", "unlock"} => Healthy
  /\ at[t] = "rename" => /\ _fd # NoFd /\ name # NoFile /\ table[_fd] = name
                         /\ size[name] >= _maxFileSize
  /\ at[t] = "open" => _fd # NoFd /\ name = NoFile /\ table[_fd] \in Opened
  /\ at[t] = "close" => _fd # NoFd
  /\ at[t] = "close" /\ fd[t] # NoFd =>
       fd[t] # _fd /\ name # NoFile /\ table[fd[t]] = name /\ table[_fd] # name
  /\ at[t] = "assign" => fd[t] = NoFd \/ (name # NoFile /\ table[fd[t]] = name)

Rotation ==
  /\ mutex = Log!Nobody => Healthy
  /\ \A t \in Threads : RotationAt(t)

\* The descriptors that are open on log files.
OnlyLog ==
  \A n \in Fds : table[n] \in Opened =>
    /\ \A t \in Threads : at[t] = "assign" => n = fd[t]
    /\ \A t \in Threads : at[t] = "close" => n = _fd \/ n = fd[t]
    /\ n # _fd => \E t \in Threads : at[t] \in {"close", "assign"}

\* The threads that look at the size of a full file before they write again.
Behind(f) ==
  {t \in Threads :
     \/ at[t] = "lock"
     \/ /\ at[t] \in {"lseek", "rename", "open", "close"}
        /\ _fd # NoFd /\ table[_fd] = f}

\* The limit with a message of each thread of S.
Limit(S) == _maxFileSize + Cardinality(S) * Log!Max(Sizes)

Room ==
  /\ \A n \in Fds : table[n] \in Opened => size[table[n]] < Limit(Behind(table[n]))
  /\ \A f \in Opened : size[f] < Limit(Threads)

\* Files were full when they were renamed.
RotatedFull ==
  \A s \in 0 .. MaxSeconds : rotated[s] # NoFile => size[rotated[s]] >= _maxFileSize

LogInv == Log!TypeOK /\ Exclusive /\ Numbered /\ Rotation /\ OnlyLog /\ Room /\ RotatedFull
-----------------------------------------------------------------------------

\* Logger means the same by a finite set and its cardinality.
LEMMA SameSets ==
  ASSUME NEW S
  PROVE  /\ Log!IsFiniteSet(S) <=> IsFiniteSet(S)
         /\ Log!Cardinality(S) = Cardinality(S)
<1>1. Log!IsFiniteSet(S) <=> IsFiniteSet(S)
  BY DEF Log!IsFiniteSet, IsFiniteSet
<1>2. Log!Cardinality(S) = Cardinality(S)
  BY DEF Log!Cardinality, Cardinality
<1> QED
  BY <1>1, <1>2

\* A set of numbers has a least one.
LEMMA NatMin ==
  ASSUME NEW T \in SUBSET Nat, T # {}
  PROVE  \E n \in T : \A m \in T : n <= m
<1>1. IsWellFoundedOn(OpToRel(<, Nat), Nat)
  BY NatLessThanWellFounded
<1>2. PICK n \in T : \A m \in T : <<m, n>> \notin OpToRel(<, Nat)
  BY <1>1, WFMin
<1>3. \A m \in T : ~(m < n)
  BY <1>2 DEF OpToRel
<1> QED
  BY <1>3

\* So open gives a free descriptor.
LEMMA MinResult ==
  ASSUME NEW T \in SUBSET Nat, T # {}
  PROVE  Log!Min(T) \in T
<1>1. \E n \in T : \A m \in T : n <= m
  BY NatMin
<1> QED
  BY <1>1 DEF Log!Min

(***************************************************************************)
(* A finite set of numbers has a greatest one: in a least set without one, *)
(* the greatest of the others, or the one left out, is it.                 *)
(***************************************************************************)
LEMMA FiniteMax ==
  ASSUME NEW S \in SUBSET Nat, S # {}, IsFiniteSet(S)
  PROVE  \E x \in S : \A y \in S : x >= y
<1> DEFINE Topped(T) == \E x \in T : \A y \in T : x >= y
<1> DEFINE Bad(T) == T # {} /\ IsFiniteSet(T) /\ ~Topped(T)
<1> DEFINE Counts == {n \in Nat : \E T \in SUBSET Nat : Bad(T) /\ Cardinality(T) = n}
<1> SUFFICES ASSUME Bad(S) PROVE FALSE
  OBVIOUS
<1>1. Cardinality(S) \in Counts
  BY FS_CardinalityType
<1>2. PICK n \in Counts : \A m \in Counts : n <= m
  BY <1>1, NatMin
<1>3. PICK T \in SUBSET Nat : Bad(T) /\ Cardinality(T) = n
  BY <1>2
<1>4. PICK a \in T : TRUE
  BY <1>3
<1>5. IsFiniteSet(T \ {a}) /\ Cardinality(T \ {a}) = n - 1 /\ n \in Nat /\ n # 0
  BY <1>3, <1>4, FS_RemoveElement, FS_EmptySet, FS_CardinalityType
<1>6. n - 1 \notin Counts /\ n - 1 \in Nat
  BY <1>2, <1>5
<1>7. T \ {a} = {} \/ Topped(T \ {a})
  BY <1>5, <1>6
<1>8. CASE T \ {a} = {}
  <2>1. \A y \in T : a >= y
    BY <1>8
  <2> QED
    BY <2>1, <1>3, <1>4
<1>9. CASE Topped(T \ {a})
  <2>1. PICK x \in T \ {a} : \A y \in T \ {a} : x >= y
    BY <1>9
  <2>2. CASE x >= a
    BY <2>1, <2>2, <1>3
  <2>3. CASE a >= x
    <3>1. \A y \in T : a >= y
      BY <2>1, <2>3
    <3> QED
      BY <3>1, <1>3
  <2> QED
    BY <2>1, <2>2, <2>3
<1> QED
  BY <1>7, <1>8, <1>9

\* The limit grows by the size of any message with every thread.
LEMMA LimitGrows ==
  ASSUME Log!LoggerAssumption, NEW S \in SUBSET Threads
  PROVE  /\ Limit(S) \in Nat /\ Limit(S) >= _maxFileSize
         /\ \A t \in Threads \ S : \A n \in Sizes : Limit(S) + n <= Limit(S \cup {t})
<1> DEFINE M == Log!Max(Sizes)
<1> DEFINE c == Cardinality(S)
<1>1. Threads # {} /\ IsFiniteSet(Threads) /\ _maxFileSize \in Nat
  BY SameSets DEF Log!LoggerAssumption
<1>2. Sizes # {} /\ Sizes \in SUBSET Nat /\ IsFiniteSet(Sizes)
  BY SameSets DEF Log!LoggerAssumption
<1>3. M \in Sizes /\ \A n \in Sizes : M >= n
  <2>1. \E x \in Sizes : \A y \in Sizes : x >= y
    BY <1>2, FiniteMax
  <2> QED
    BY <2>1 DEF Log!Max
<1>4. M \in Nat
  BY <1>2, <1>3
<1>5. IsFiniteSet(S) /\ c \in Nat
  BY <1>1, FS_Subset, FS_CardinalityType
<1>6. \A t \in Threads \ S : Cardinality(S \cup {t}) = c + 1
  BY <1>5, FS_AddElement
<1> HIDE DEF M, c
<1>7. c * M \in Nat /\ (c + 1) * M = c * M + M
  BY <1>4, <1>5
<1>8. Limit(S) = _maxFileSize + c * M
  BY DEF Limit, M, c
<1>9. \A t \in Threads \ S : Limit(S \cup {t}) = _maxFileSize + (c + 1) * M
  BY <1>6 DEF Limit, M
<1>10. \A n \in Sizes : n \in Nat /\ M >= n
  BY <1>2, <1>3
<1> QED
  BY <1>1, <1>4, <1>7, <1>8, <1>9, <1>10

\* More threads, no lower limit.
LEMMA LimitMono ==
  ASSUME Log!LoggerAssumption, NEW T \in SUBSET Threads, NEW S \in SUBSET T
  PROVE  Limit(S) <= Limit(T)
<1> DEFINE M == Log!Max(Sizes)
<1> DEFINE c == Cardinality(S)
<1> DEFINE d == Cardinality(T)
<1>1. IsFiniteSet(Threads) /\ _maxFileSize \in Nat
  BY SameSets DEF Log!LoggerAssumption
<1>2. Sizes # {} /\ Sizes \in SUBSET Nat /\ IsFiniteSet(Sizes)
  BY SameSets DEF Log!LoggerAssumption
<1>3. M \in Nat
  <2>1. \E x \in Sizes : \A y \in Sizes : x >= y
    BY <1>2, FiniteMax
  <2> QED
    BY <1>2, <2>1 DEF Log!Max
<1>4. c \in Nat /\ d \in Nat /\ c <= d
  BY <1>1, FS_Subset, FS_CardinalityType
<1> HIDE DEF M, c, d
<1>5. c * M \in Nat /\ (d - c) * M \in Nat /\ d * M = c * M + (d - c) * M
  BY <1>3, <1>4
<1>6. Limit(S) = _maxFileSize + c * M /\ Limit(T) = _maxFileSize + d * M
  BY DEF Limit, M, c, d
<1> QED
  BY <1>1, <1>5, <1>6
-----------------------------------------------------------------------------
\* What the descriptors and the names of files cannot be.
LEMMA LogBasics ==
  ASSUME Log!LoggerAssumption, LogInv
  PROVE  /\ NoFd \notin Fds /\ NoFile \notin Opened
         /\ Log!Socket \notin Opened /\ Log!Closed \notin Opened
         /\ Opened \subseteq Nat /\ Log!Nobody \notin Threads
         /\ _maxFileSize \in Nat /\ Fds \subseteq Nat
BY DEF Log!LoggerAssumption, LogInv, Log!TypeOK, NoFd, NoFile, Opened, Log!NoFd, Log!NoFile,
       Log!Socket, Log!Closed, Log!LogFiles, Log!Nobody, Log!Opened

\* Whoever is between Lock and Unlock is alone there.
LEMMA LogAlone ==
  ASSUME Exclusive, NEW t \in Threads, at[t] \in Holding
  PROVE  mutex = t /\ \A u \in Threads : at[u] \in Holding => u = t
BY DEF Exclusive

\* Only rotateLog has two descriptors on log files.
LEMMA LogOnly ==
  ASSUME OnlyLog, \A u \in Threads : at[u] \notin {"close", "assign"},
         NEW n \in Fds, table[n] \in Opened
  PROVE  n = _fd
BY DEF OnlyLog

\* Reading _fd outside the mutex changes no file.
LEMMA LoadFdInv ==
  ASSUME Log!LoggerAssumption, LogInv, NEW t \in Threads, Log!LoadFd(t)
  PROVE  LogInv'
<1> USE DEF LogInv, Log!LoadFd, Log!Go
<1>1. Log!TypeOK'
  BY DEF Log!TypeOK, Log!Opened, Log!States
<1>2. at \in [Threads -> Log!States] /\ fd \in [Threads -> Fds \cup {NoFd}]
  BY DEF Log!TypeOK, NoFd
<1>3. Exclusive'
  BY <1>2 DEF Exclusive, Holding
<1>4. Numbered'
  BY DEF Numbered, Opened, Log!Opened
<1>5. Rotation'
  BY <1>2 DEF Rotation, RotationAt, Healthy, Opened, Log!Opened
<1>6. OnlyLog'
  BY <1>2 DEF OnlyLog, Opened, Log!Opened
<1>7. \A f : Behind(f)' = Behind(f)
  BY <1>2 DEF Behind
<1>8. Room'
  BY <1>7 DEF Room, Opened, Log!Opened
<1>9. RotatedFull'
  BY DEF RotatedFull
<1> QED
  BY <1>1, <1>3, <1>4, <1>5, <1>6, <1>8, <1>9

\* A write to a file that is full makes its thread one of those behind it.
LEMMA WritevInv ==
  ASSUME Log!LoggerAssumption, LogInv, NEW t \in Threads, Log!Writev(t)
  PROVE  LogInv'
<1> USE DEF LogInv
<1>1. /\ at[t] = "write" /\ at' = [at EXCEPT ![t] = "lock"]
      /\ UNCHANGED <<_fd, table, name, rotated, fd, mutex, second>>
  BY DEF Log!Writev, Log!Go
<1>2. /\ at \in [Threads -> Log!States] /\ fd \in [Threads -> Fds \cup {NoFd}]
      /\ size \in [Opened -> Nat] /\ name \in Opened \cup {NoFile}
      /\ rotated \in [0 .. MaxSeconds -> Opened \cup {NoFile}] /\ table \in [Fds -> Int]
  BY DEF Log!TypeOK, NoFd, NoFile, Opened, Log!LogFiles, Log!Socket, Log!Closed
<1>3. /\ Opened' = Opened /\ size' \in [Opened -> Nat]
      /\ \A f \in Opened : size'[f] >= size[f]
      /\ \A f \in Opened : size'[f] # size[f] =>
           \E m \in Sizes : size'[f] = size[f] + m /\ \E n \in Fds : table[n] = f
  <2>1. CASE fd[t] # Log!NoFd /\ table[fd[t]] \in Log!Opened
    <3>1. PICK m \in Sizes : size' = [size EXCEPT ![table[fd[t]]] = @ + m]
      BY <2>1 DEF Log!Writev
    <3>2. m \in Nat /\ fd[t] \in Fds
      BY <1>2, <2>1 DEF Log!LoggerAssumption, NoFd
    <3>3. table[fd[t]] \in Opened /\ Opened' = Opened
      BY <2>1, <3>1 DEF Opened, Log!Opened
    <3> QED
      BY <1>2, <3>1, <3>2, <3>3
  <2>2. CASE ~(fd[t] # Log!NoFd /\ table[fd[t]] \in Log!Opened)
    <3>1. size' = size
      BY <2>2 DEF Log!Writev
    <3> QED
      BY <1>2, <3>1 DEF Opened, Log!Opened
  <2> QED
    BY <2>1, <2>2
<1>4. Log!TypeOK'
  BY <1>1, <1>3 DEF Log!TypeOK, Opened, Log!Opened, Log!States
<1>5. Exclusive'
  BY <1>1, <1>2 DEF Exclusive, Holding
<1>6. Numbered'
  BY <1>1, <1>3 DEF Numbered
<1>7. Rotation'
  BY <1>1, <1>2, <1>3, LogBasics DEF Rotation, RotationAt, Healthy
<1>8. OnlyLog'
  BY <1>1, <1>2, <1>3 DEF OnlyLog
<1>9. \A f : Behind(f) \in SUBSET Threads /\ t \notin Behind(f)
             /\ Behind(f)' = Behind(f) \cup {t}
  BY <1>1, <1>2 DEF Behind
<1>10. \A f \in Opened : size[f] < Limit(Behind(f)) => size'[f] < Limit(Behind(f)')
  <2> SUFFICES ASSUME NEW f \in Opened, size[f] < Limit(Behind(f))
               PROVE  size'[f] < Limit(Behind(f)')
    OBVIOUS
  <2> DEFINE B == Behind(f)
  <2>1. B \in SUBSET Threads /\ t \in Threads \ B /\ B \cup {t} \in SUBSET Threads
    BY <1>9
  <2> HIDE DEF B
  <2>2. Limit(B) \in Nat /\ Limit(B \cup {t}) \in Nat
        /\ \A m \in Sizes : Limit(B) + m <= Limit(B \cup {t})
    BY <2>1, LimitGrows
  <2>3. Limit(B) <= Limit(B \cup {t})
    BY <2>1, LimitMono
  <2>4. size[f] \in Nat /\ size'[f] \in Nat /\ size[f] < Limit(B) /\ Sizes \subseteq Nat
    BY <1>2, <1>3 DEF Log!LoggerAssumption, B
  <2>5. size'[f] < Limit(B \cup {t})
    <3>1. size'[f] = size[f] \/ \E m \in Sizes : size'[f] = size[f] + m
      BY <1>3
    <3>2. CASE size'[f] = size[f]
      BY <2>2, <2>3, <2>4, <3>2
    <3>3. ASSUME NEW m \in Sizes, size'[f] = size[f] + m PROVE size'[f] < Limit(B \cup {t})
      <4>1. Limit(B) + m <= Limit(B \cup {t}) /\ m \in Nat
        BY <2>2, <2>4
      <4> QED
        BY <2>2, <2>4, <3>3, <4>1
    <3> QED
      BY <3>1, <3>2, <3>3
  <2> QED
    BY <1>9, <2>5 DEF B
<1>11. \A f \in Opened : \A n \in Fds : table[n] = f => size'[f] < Limit(Behind(f)')
  BY <1>10 DEF Room
<1>12. \A f \in Opened : size'[f] < Limit(Threads)
  <2> SUFFICES ASSUME NEW f \in Opened PROVE size'[f] < Limit(Threads)
    OBVIOUS
  <2>1. CASE size'[f] = size[f]
    BY <2>1 DEF Room
  <2>2. CASE size'[f] # size[f]
    <3>1. size'[f] < Limit(Behind(f)')
      BY <1>3, <1>11, <2>2
    <3>2. Behind(f)' \in SUBSET Threads
      BY <1>9
    <3>3. /\ Limit(Behind(f)') \in Nat /\ Limit(Threads) \in Nat
          /\ Limit(Behind(f)') <= Limit(Threads)
      BY <3>2, LimitGrows, LimitMono
    <3>4. size'[f] \in Nat
      BY <1>3
    <3> QED
      BY <3>1, <3>3, <3>4
  <2> QED
    BY <2>1, <2>2
<1>13. Room'
  BY <1>1, <1>3, <1>11, <1>12 DEF Room
<1>14. RotatedFull'
  <2>1. _maxFileSize \in Nat
    BY LogBasics
  <2>2. \A f \in Opened : size[f] >= _maxFileSize => size'[f] >= _maxFileSize
    BY <1>2, <1>3, <2>1
  <2> QED
    BY <1>1, <1>2, <2>2 DEF RotatedFull
<1> QED
  BY <1>4, <1>5, <1>6, <1>7, <1>8, <1>13, <1>14

(***************************************************************************)
(* Steps that leave the descriptors and the files alone: the limits hold   *)
(* as long as nobody leaves Behind of a file, unless it is not full.       *)
(***************************************************************************)
LEMMA RoomKept ==
  ASSUME Log!LoggerAssumption, LogInv, UNCHANGED <<table, size>>,
         \A f \in Opened : \A n \in Fds :
            table[n] = f => Behind(f)' = Behind(f) \/ size[f] < _maxFileSize
  PROVE  Room'
<1>1. Opened' = Opened
  BY DEF Opened, Log!Opened
<1>2. size \in [Opened -> Nat]
  BY DEF LogInv, Log!TypeOK, Opened
<1>3. \A f \in Opened : \A n \in Fds : table[n] = f => size[f] < Limit(Behind(f)')
  <2> SUFFICES ASSUME NEW f \in Opened, NEW n \in Fds, table[n] = f
               PROVE  size[f] < Limit(Behind(f)')
    OBVIOUS
  <2>1. CASE Behind(f)' = Behind(f)
    BY <2>1 DEF LogInv, Room
  <2>2. CASE size[f] < _maxFileSize
    <3>1. Behind(f)' \in SUBSET Threads
      BY DEF Behind
    <3>2. Limit(Behind(f)') \in Nat /\ Limit(Behind(f)') >= _maxFileSize
      BY <3>1, LimitGrows
    <3> QED
      BY <1>2, <2>2, <3>2, LogBasics
  <2> QED
    BY <2>1, <2>2
<1> QED
  BY <1>1, <1>3 DEF LogInv, Room

\* The thread that takes the mutex finds _fd open on the log, or none.
LEMMA LockInv ==
  ASSUME Log!LoggerAssumption, LogInv, NEW t \in Threads, Log!Lock(t)
  PROVE  LogInv'
<1> USE DEF LogInv
<1>1. /\ at[t] = "lock" /\ at' = [at EXCEPT ![t] = "lseek"]
      /\ mutex = Log!Nobody /\ mutex' = t
      /\ UNCHANGED <<_fd, table, size, name, rotated, fd, second>>
  BY DEF Log!Lock, Log!Go
<1>2. at \in [Threads -> Log!States] /\ Opened' = Opened
  BY <1>1 DEF Log!TypeOK, Opened, Log!Opened
<1>3. \A u \in Threads : at[u] \notin Holding
  BY <1>1, LogBasics DEF Exclusive
<1>4. Log!TypeOK'
  BY <1>1 DEF Log!TypeOK, Log!Opened, Log!States
<1>5. Exclusive'
  BY <1>1, <1>2, <1>3 DEF Exclusive, Holding
<1>6. Numbered'
  BY <1>1, <1>2 DEF Numbered
<1>7. Rotation'
  <2>1. Healthy'
    BY <1>1 DEF Rotation, Healthy
  <2> QED
    BY <1>1, <1>2, <1>3, <2>1, LogBasics DEF Rotation, RotationAt, Holding
<1>8. OnlyLog'
  BY <1>1, <1>2 DEF OnlyLog
<1>9. \A n \in Fds : table[n] \in Opened => n = _fd
  BY <1>3, LogOnly DEF Holding
<1>10. \A f \in Opened : \A n \in Fds : table[n] = f => Behind(f)' = Behind(f)
  BY <1>1, <1>2, <1>9, LogBasics DEF Behind
<1>11. Room'
  BY <1>1, <1>10, RoomKept
<1>12. RotatedFull'
  BY <1>1 DEF RotatedFull
<1> QED
  BY <1>4, <1>5, <1>6, <1>7, <1>8, <1>11, <1>12

\* Under the mutex the size of the log decides whether it is renamed.
LEMMA LseekInv ==
  ASSUME Log!LoggerAssumption, LogInv, NEW t \in Threads, Log!Lseek(t)
  PROVE  LogInv'
<1> USE DEF LogInv
<1> DEFINE full == /\ _fd # NoFd /\ table[_fd] \in Opened
                   /\ size[table[_fd]] >= _maxFileSize
<1>1. /\ at[t] = "lseek"
      /\ UNCHANGED <<_fd, table, size, name, rotated, fd, mutex, second>>
  BY DEF Log!Lseek
<1>2. at \in [Threads -> Log!States] /\ Opened' = Opened /\ size \in [Opened -> Nat]
      /\ name \in Opened \cup {NoFile} /\ _fd \in Fds \cup {NoFd}
  BY <1>1 DEF Log!TypeOK, Opened, Log!Opened, NoFile, NoFd
<1>3. Healthy
  BY <1>1 DEF Rotation, RotationAt
<1>4. at' = [at EXCEPT ![t] = IF full THEN "rename" ELSE "unlock"]
  BY <1>1, <1>3 DEF Log!Lseek, Log!Go, Log!IsFull, Healthy, NoFd, Opened, NoFile
<1>5. mutex = t /\ \A u \in Threads : at[u] \in Holding => u = t
  BY <1>1, LogAlone DEF Holding
<1>6. Log!TypeOK'
  BY <1>1, <1>4 DEF Log!TypeOK, Log!Opened, Log!States
<1>7. Exclusive'
  BY <1>1, <1>2, <1>4, <1>5 DEF Exclusive, Holding
<1>8. Numbered'
  BY <1>1, <1>2 DEF Numbered
<1>9. Rotation'
  <2>1. Healthy'
    BY <1>1, <1>3 DEF Healthy
  <2>2. full => _fd # NoFd /\ name # NoFile /\ table[_fd] = name /\ size[name] >= _maxFileSize
    BY <1>3 DEF Healthy
  <2> QED
    BY <1>1, <1>2, <1>4, <1>5, <2>1, <2>2, LogBasics DEF Rotation, RotationAt, Holding
<1>10. OnlyLog'
  BY <1>1, <1>2, <1>4 DEF OnlyLog
<1>11. \A n \in Fds : table[n] \in Opened => n = _fd
  BY <1>1, <1>5, LogOnly DEF Holding
<1>12. ASSUME NEW f \in Opened, NEW n \in Fds, table[n] = f
       PROVE  Behind(f)' = Behind(f) \/ size[f] < _maxFileSize
  <2>1. n = _fd /\ _fd # NoFd
    BY <1>11, <1>12, LogBasics
  <2>2. CASE full
    BY <1>1, <1>2, <1>4, <2>1, <2>2 DEF Behind
  <2>3. CASE ~full
    BY <1>2, <1>12, <2>1, <2>3, LogBasics
  <2> QED
    BY <2>2, <2>3
<1>13. Room'
  BY <1>1, <1>12, RoomKept
<1>14. RotatedFull'
  BY <1>1 DEF RotatedFull
<1> QED
  BY <1>6, <1>7, <1>8, <1>9, <1>10, <1>13, <1>14

\* The mutex is given back with _fd open on the log, or none.
LEMMA UnlockInv ==
  ASSUME Log!LoggerAssumption, LogInv, NEW t \in Threads, Log!Unlock(t)
  PROVE  LogInv'
<1> USE DEF LogInv
<1>1. /\ at[t] = "unlock" /\ at' = [at EXCEPT ![t] = "idle"] /\ mutex' = Log!Nobody
      /\ UNCHANGED <<_fd, table, size, name, rotated, fd, second>>
  BY DEF Log!Unlock, Log!Go
<1>2. at \in [Threads -> Log!States] /\ Opened' = Opened
  BY <1>1 DEF Log!TypeOK, Opened, Log!Opened
<1>3. mutex = t /\ \A u \in Threads : at[u] \in Holding => u = t
  BY <1>1, LogAlone DEF Holding
<1>4. Log!TypeOK'
  BY <1>1 DEF Log!TypeOK, Log!Opened, Log!States
<1>5. Exclusive'
  BY <1>1, <1>2, <1>3, LogBasics DEF Exclusive, Holding
<1>6. Numbered'
  BY <1>1, <1>2 DEF Numbered
<1>7. Rotation'
  <2>1. Healthy'
    BY <1>1 DEF Rotation, RotationAt, Healthy
  <2> QED
    BY <1>1, <1>2, <1>3, <2>1 DEF Rotation, RotationAt, Holding
<1>8. OnlyLog'
  BY <1>1, <1>2 DEF OnlyLog
<1>9. \A f : Behind(f)' = Behind(f)
  BY <1>1, <1>2 DEF Behind
<1>10. Room'
  BY <1>1, <1>9, RoomKept
<1>11. RotatedFull'
  BY <1>1 DEF RotatedFull
<1> QED
  BY <1>4, <1>5, <1>6, <1>7, <1>8, <1>10, <1>11

\* What is renamed is full.
LEMMA RenameInv ==
  ASSUME Log!LoggerAssumption, LogInv, NEW t \in Threads, Log!Rename(t)
  PROVE  LogInv'
<1> USE DEF LogInv
<1>1. /\ at[t] = "rename" /\ at' = [at EXCEPT ![t] = "open"]
      /\ rotated' = [rotated EXCEPT ![second] = name] /\ name' = NoFile
      /\ UNCHANGED <<_fd, table, size, fd, mutex, second>>
  BY DEF Log!Rename, Log!Go, NoFile
<1>2. /\ at \in [Threads -> Log!States] /\ Opened' = Opened
      /\ rotated \in [0 .. MaxSeconds -> Opened \cup {NoFile}]
      /\ name \in Opened \cup {NoFile} /\ second \in 0 .. MaxSeconds
  BY <1>1 DEF Log!TypeOK, Opened, Log!Opened, NoFile
<1>3. mutex = t /\ \A u \in Threads : at[u] \in Holding => u = t
  BY <1>1, LogAlone DEF Holding
<1>4. /\ _fd # NoFd /\ name # NoFile /\ table[_fd] = name /\ size[name] >= _maxFileSize
  BY <1>1 DEF Rotation, RotationAt
<1>5. Log!TypeOK'
  BY <1>1, <1>2 DEF Log!TypeOK, Opened, Log!Opened, Log!States, NoFile
<1>6. Exclusive'
  BY <1>1, <1>2, <1>3 DEF Exclusive, Holding
<1>7. Numbered'
  BY <1>1, <1>2 DEF Numbered
<1>8. Rotation'
  BY <1>1, <1>2, <1>3, <1>4, LogBasics DEF Rotation, RotationAt, Holding
<1>9. OnlyLog'
  BY <1>1, <1>2 DEF OnlyLog
<1>10. \A f : Behind(f)' = Behind(f)
  BY <1>1, <1>2 DEF Behind
<1>11. Room'
  BY <1>1, <1>10, RoomKept
<1>12. RotatedFull'
  BY <1>1, <1>2, <1>4 DEF RotatedFull
<1> QED
  BY <1>5, <1>6, <1>7, <1>8, <1>9, <1>11, <1>12

\* _fd becomes the descriptor of the new log, or none.
LEMMA AssignInv ==
  ASSUME Log!LoggerAssumption, LogInv, NEW t \in Threads, Log!Assign(t)
  PROVE  LogInv'
<1> USE DEF LogInv
<1>1. /\ at[t] = "assign" /\ at' = [at EXCEPT ![t] = "unlock"] /\ _fd' = fd[t]
      /\ UNCHANGED <<table, size, name, rotated, fd, mutex, second>>
  BY DEF Log!Assign, Log!Go
<1>2. /\ at \in [Threads -> Log!States] /\ Opened' = Opened
      /\ fd \in [Threads -> Fds \cup {NoFd}]
  BY <1>1 DEF Log!TypeOK, Opened, Log!Opened, NoFd
<1>3. mutex = t /\ \A u \in Threads : at[u] \in Holding => u = t
  BY <1>1, LogAlone DEF Holding
<1>4. Log!TypeOK'
  BY <1>1, <1>2 DEF Log!TypeOK, Log!Opened, Log!States, NoFd
<1>5. Exclusive'
  BY <1>1, <1>2, <1>3 DEF Exclusive, Holding
<1>6. Numbered'
  BY <1>1, <1>2 DEF Numbered
<1>7. Rotation'
  <2>1. Healthy'
    BY <1>1 DEF Rotation, RotationAt, Healthy
  <2> QED
    BY <1>1, <1>2, <1>3, <2>1, LogBasics DEF Rotation, RotationAt, Holding
<1>8. OnlyLog'
  BY <1>1, <1>2, <1>3 DEF OnlyLog, Holding
<1>9. \A f : Behind(f)' = Behind(f)
  BY <1>1, <1>2, <1>3 DEF Behind, Holding
<1>10. Room'
  BY <1>1, <1>9, RoomKept
<1>11. RotatedFull'
  BY <1>1 DEF RotatedFull
<1> QED
  BY <1>4, <1>5, <1>6, <1>7, <1>8, <1>10, <1>11

\* The new log gets a number of its own and a descriptor that was closed.
LEMMA OpenInv ==
  ASSUME Log!LoggerAssumption, LogInv, NEW t \in Threads, Log!Open(t)
  PROVE  LogInv'
<1> USE DEF LogInv
<1>1. /\ at[t] = "open" /\ at' = [at EXCEPT ![t] = "close"]
      /\ UNCHANGED <<_fd, rotated, mutex, second>>
  BY DEF Log!Open, Log!Go
<1>2. /\ at \in [Threads -> Log!States] /\ fd \in [Threads -> Fds \cup {NoFd}]
      /\ size \in [Opened -> Nat] /\ name \in Opened \cup {NoFile}
      /\ rotated \in [0 .. MaxSeconds -> Opened \cup {NoFile}]
      /\ table \in [Fds -> Int] /\ _fd \in Fds \cup {NoFd}
  BY DEF Log!TypeOK, NoFd, NoFile, Opened, Log!LogFiles, Log!Socket, Log!Closed
<1>3. mutex = t /\ \A u \in Threads : at[u] \in Holding => u = t
  BY <1>1, LogAlone DEF Holding
<1>4. _fd # NoFd /\ name = NoFile /\ table[_fd] \in Opened
  BY <1>1 DEF Rotation, RotationAt
<1>5. \A n \in Fds : table[n] \in Opened => n = _fd
  BY <1>1, <1>3, LogOnly DEF Holding
<1>6. Exclusive'
  BY <1>1, <1>2, <1>3 DEF Exclusive, Holding
<1>7. CASE Log!Free = {}
  <2>1. fd' = [fd EXCEPT ![t] = NoFd] /\ UNCHANGED <<table, size, name>> /\ Opened' = Opened
    BY <1>7 DEF Log!Open, Opened, Log!Opened, NoFd
  <2>2. Log!TypeOK'
    BY <1>1, <1>2, <2>1 DEF Log!TypeOK, Opened, Log!Opened, Log!States, NoFd
  <2>3. Numbered'
    BY <1>1, <2>1 DEF Numbered
  <2>4. Rotation'
    BY <1>1, <1>2, <1>3, <1>4, <2>1, LogBasics DEF Rotation, RotationAt, Holding
  <2>5. OnlyLog'
    BY <1>1, <1>2, <1>3, <1>5, <2>1 DEF OnlyLog, Holding
  <2>6. \A f : Behind(f)' = Behind(f)
    BY <1>1, <1>2, <2>1 DEF Behind
  <2>7. Room'
    BY <2>1, <2>6, RoomKept
  <2>8. RotatedFull'
    BY <1>1, <2>1 DEF RotatedFull
  <2> QED
    BY <1>6, <2>2, <2>3, <2>4, <2>5, <2>7, <2>8
<1>8. CASE Log!Free # {}
  <2> DEFINE m == Log!Min(Log!Free)
  <2>1. PICK k \in 1 .. MaxFiles : Opened = 1 .. k
    BY DEF Numbered
  <2>2. Cardinality(Opened) = k /\ k \in Nat /\ k < MaxFiles /\ MaxFiles \in Nat
    <3>1. Cardinality(1 .. k) = k
      BY <2>1, FS_Interval DEF Log!LoggerAssumption
    <3>2. Cardinality(Log!Opened) < MaxFiles
      BY SameSets DEF Log!Open
    <3> QED
      BY <2>1, <3>1, <3>2 DEF Opened, Log!LoggerAssumption
  <2>3. m \in Fds /\ table[m] = Log!Closed
    <3>1. Log!Free \in SUBSET Nat
      BY LogBasics DEF Log!Free
    <3>2. m \in Log!Free
      BY <1>8, <3>1, MinResult
    <3> QED
      BY <3>2 DEF Log!Free
  <2> HIDE DEF m
  <2>4. /\ fd' = [fd EXCEPT ![t] = m] /\ table' = [table EXCEPT ![m] = k + 1]
        /\ size' = [g \in Opened \cup {k + 1} |-> IF g = k + 1 THEN 0 ELSE size[g]]
        /\ name' = k + 1
    <3>1. Log!Cardinality(Log!Opened) = k
      BY <2>2, SameSets DEF Opened
    <3> QED
      BY <1>8, <3>1 DEF Log!Open, Opened, m
  <2>5. /\ Opened' = Opened \cup {k + 1} /\ k + 1 \notin Opened /\ k + 1 \in 1 .. MaxFiles
        /\ Opened' = 1 .. (k + 1) /\ k + 1 # NoFile
    BY <2>1, <2>2, <2>4 DEF Opened, Log!Opened, NoFile, Log!NoFile
  <2>6. /\ m # _fd /\ _fd \in Fds /\ table'[_fd] = table[_fd] /\ table'[m] = k + 1
        /\ table[_fd] # k + 1
    BY <1>2, <1>4, <2>3, <2>4, <2>5, LogBasics
  <2>7. /\ size'[k + 1] = 0 /\ size' \in [Opened' -> Nat]
        /\ \A f \in Opened : size'[f] = size[f]
    BY <1>2, <2>4, <2>5
  <2>8. \A n \in Fds : n # m => table'[n] = table[n]
    BY <1>2, <2>4
  <2>9. Log!TypeOK'
    <3>1. /\ _fd' \in Fds \cup {Log!NoFd} /\ Log!Opened' \subseteq Log!LogFiles
          /\ size' \in [Log!Opened' -> Nat] /\ name' \in Log!Opened' \cup {Log!NoFile}
      BY <1>1, <1>2, <2>4, <2>5, <2>7 DEF NoFd, Opened, Log!LogFiles, Log!TypeOK
    <3>2. table' \in [Fds -> Log!LogFiles \cup {Log!Socket, Log!Closed}]
      BY <2>4, <2>5 DEF Log!TypeOK, Log!LogFiles
    <3>3. rotated' \in [0 .. MaxSeconds -> Log!Opened' \cup {Log!NoFile}]
      BY <1>1, <1>2, <2>5 DEF Opened, NoFile
    <3>4. at' \in [Threads -> Log!States] /\ fd' \in [Threads -> Fds \cup {Log!NoFd}]
      BY <1>1, <1>2, <2>3, <2>4 DEF Log!States, NoFd
    <3>5. mutex' \in Threads \cup {Log!Nobody} /\ second' \in 0 .. MaxSeconds
      BY <1>1 DEF Log!TypeOK
    <3> QED
      BY <3>1, <3>2, <3>3, <3>4, <3>5 DEF Log!TypeOK
  <2>10. Numbered'
    <3>1. \A n \in Fds : table'[n] \in Opened' \cup {Log!Socket, Log!Closed}
      BY <2>5, <2>6, <2>8 DEF Numbered
    <3> QED
      BY <2>5, <3>1 DEF Numbered
  <2>11. Rotation'
    <3>1. fd'[t] = m
      BY <1>2, <2>4
    <3>2. \A u \in Threads : RotationAt(u)'
      BY <1>1, <1>2, <1>3, <1>4, <2>4, <2>5, <2>6, <3>1 DEF RotationAt, Holding
    <3> QED
      BY <1>1, <1>3, <3>2, LogBasics DEF Rotation
  <2>12. OnlyLog'
    <3>1. fd'[t] = m /\ at'[t] = "close" /\ \A u \in Threads : u # t => at'[u] \notin {"close", "assign"}
      BY <1>1, <1>2, <1>3, <2>4 DEF Holding
    <3>2. \A n \in Fds : n # m /\ table'[n] \in Opened' => n = _fd
      BY <1>5, <2>5, <2>8, <2>1, <2>2 DEF Numbered, Log!Socket, Log!Closed
    <3> QED
      BY <1>1, <3>1, <3>2 DEF OnlyLog
  <2>13. \A f : f # k + 1 => Behind(f)' = Behind(f)
    BY <1>1, <1>2, <2>6 DEF Behind
  <2>14. \A f \in Opened' : \A n \in Fds : table'[n] = f => size'[f] < Limit(Behind(f)')
    <3> SUFFICES ASSUME NEW f \in Opened', NEW n \in Fds, table'[n] = f
                 PROVE  size'[f] < Limit(Behind(f)')
      OBVIOUS
    <3>1. CASE f = k + 1
      <4>1. Behind(f)' \in SUBSET Threads
        BY DEF Behind
      <4>2. Limit(Behind(f)') \in Nat /\ Limit(Behind(f)') >= _maxFileSize /\ _maxFileSize \in Nat \ {0}
        BY <4>1, LimitGrows DEF Log!LoggerAssumption
      <4> QED
        BY <2>7, <3>1, <4>2
    <3>2. CASE f # k + 1
      <4>1. n # m /\ table[n] = f /\ f \in Opened
        BY <2>5, <2>6, <2>8, <3>2
      <4>2. size[f] < Limit(Behind(f))
        BY <4>1 DEF Room
      <4> QED
        BY <2>7, <2>13, <3>2, <4>1, <4>2
    <3> QED
      BY <3>1, <3>2
  <2>15. \A f \in Opened' : size'[f] < Limit(Threads)
    <3>1. Limit(Threads) \in Nat /\ Limit(Threads) >= _maxFileSize /\ _maxFileSize \in Nat \ {0}
      BY LimitGrows DEF Log!LoggerAssumption
    <3>2. size'[k + 1] < Limit(Threads)
      BY <2>7, <3>1
    <3> QED
      BY <2>5, <2>7, <3>2 DEF Room
  <2>16. Room'
    BY <2>14, <2>15 DEF Room
  <2>17. RotatedFull'
    BY <1>1, <1>2, <2>7 DEF RotatedFull
  <2> QED
    BY <1>6, <2>9, <2>10, <2>11, <2>12, <2>16, <2>17
<1> QED
  BY <1>7, <1>8

\* Closing the old descriptor leaves the new one open on the log.
LEMMA CloseInv ==
  ASSUME Log!LoggerAssumption, LogInv, NEW t \in Threads, Log!Close(t)
  PROVE  LogInv'
<1> USE DEF LogInv
<1>1. /\ at[t] = "close" /\ at' = [at EXCEPT ![t] = "assign"]
      /\ table' = [table EXCEPT ![_fd] = Log!Closed]
      /\ UNCHANGED <<_fd, size, name, rotated, fd, mutex, second>>
  BY DEF Log!Close, Log!Go
<1>2. /\ at \in [Threads -> Log!States] /\ fd \in [Threads -> Fds \cup {NoFd}]
      /\ Opened' = Opened /\ table \in [Fds -> Int] /\ _fd \in Fds \cup {NoFd}
  BY <1>1 DEF Log!TypeOK, NoFd, Opened, Log!Opened, Log!LogFiles, Log!Socket, Log!Closed
<1>3. mutex = t /\ \A u \in Threads : at[u] \in Holding => u = t
  BY <1>1, LogAlone DEF Holding
<1>4. _fd \in Fds /\ table'[_fd] = Log!Closed /\ \A n \in Fds : n # _fd => table'[n] = table[n]
  BY <1>1, <1>2 DEF Rotation, RotationAt
<1>5. fd[t] # NoFd =>
        fd[t] # _fd /\ name # NoFile /\ table[fd[t]] = name /\ table[_fd] # name
  BY <1>1 DEF Rotation, RotationAt
<1>6. \A n \in Fds : table'[n] \in Opened =>
        n = fd[t] /\ n # _fd /\ table'[n] = table[n] /\ table[n] = name /\ table[_fd] # name
  <2> SUFFICES ASSUME NEW n \in Fds, table'[n] \in Opened
               PROVE  n = fd[t] /\ n # _fd /\ table'[n] = table[n] /\ table[n] = name
                      /\ table[_fd] # name
    OBVIOUS
  <2>1. n # _fd /\ table'[n] = table[n]
    BY <1>4, LogBasics
  <2>2. n = fd[t]
    BY <1>1, <2>1 DEF OnlyLog
  <2> QED
    BY <1>5, <2>1, <2>2, LogBasics
<1>7. Log!TypeOK'
  BY <1>1, <1>4 DEF Log!TypeOK, Log!Opened, Log!States
<1>8. Exclusive'
  BY <1>1, <1>2, <1>3 DEF Exclusive, Holding
<1>9. Numbered'
  <2>1. \A n \in Fds : table'[n] \in Opened \cup {Log!Socket, Log!Closed}
    BY <1>4 DEF Numbered
  <2> QED
    BY <1>2, <2>1 DEF Numbered
<1>10. Rotation'
  <2>1. fd[t] # NoFd => name # NoFile /\ table'[fd[t]] = name
    BY <1>2, <1>4, <1>5
  <2>2. \A u \in Threads : RotationAt(u)'
    BY <1>1, <1>2, <1>3, <2>1 DEF RotationAt, Holding
  <2> QED
    BY <1>1, <1>3, <2>2, LogBasics DEF Rotation
<1>11. OnlyLog'
  <2>1. at'[t] = "assign" /\ \A u \in Threads : u # t => at'[u] \notin {"close", "assign"}
    BY <1>1, <1>2, <1>3 DEF Holding
  <2> QED
    BY <1>1, <1>2, <1>6, <2>1 DEF OnlyLog
<1>12. \A n \in Fds : table'[n] \in Opened => Behind(name)' = Behind(name)
  <2> SUFFICES ASSUME table[_fd] # name PROVE Behind(name)' = Behind(name)
    BY <1>6
  <2>1. \A u \in Threads : u \in Behind(name) <=> at[u] = "lock"
    BY <1>1, <1>3 DEF Behind, Holding
  <2>2. \A u \in Threads : u \in Behind(name)' <=> at'[u] = "lock"
    BY <1>1, <1>2, <1>3 DEF Behind, Holding
  <2>3. \A u \in Threads : at'[u] = "lock" <=> at[u] = "lock"
    BY <1>1, <1>2
  <2> QED
    BY <2>1, <2>2, <2>3 DEF Behind
<1>13. \A n \in Fds : table'[n] \in Opened => size[table'[n]] < Limit(Behind(name)')
  BY <1>6, <1>12 DEF Room
<1>14. Room'
  BY <1>1, <1>2, <1>6, <1>13 DEF Room
<1>15. RotatedFull'
  BY <1>1 DEF RotatedFull
<1> QED
  BY <1>7, <1>8, <1>9, <1>10, <1>11, <1>14, <1>15

(***************************************************************************)
(* A socket takes or gives back a descriptor that no log file has.         *)
(***************************************************************************)
LEMMA SocketInv ==
  ASSUME Log!LoggerAssumption, LogInv,
         NEW m \in Fds, table[m] \notin Opened,
         NEW v \in {Log!Socket, Log!Closed}, table' = [table EXCEPT ![m] = v],
         UNCHANGED <<_fd, size, name, rotated, at, fd, mutex, second>>
  PROVE  LogInv'
<1> USE DEF LogInv
<1>1. /\ Opened' = Opened /\ fd \in [Threads -> Fds \cup {NoFd}]
      /\ table \in [Fds -> Int] /\ _fd \in Fds \cup {NoFd} /\ name \in Opened \cup {NoFile}
  BY DEF Log!TypeOK, NoFd, NoFile, Opened, Log!Opened, Log!LogFiles, Log!Socket, Log!Closed
<1>2. v \notin Opened
  BY LogBasics
<1>3. /\ \A n \in Fds : n # m => table'[n] = table[n]
      /\ \A n \in Fds : table[n] \in Opened => table'[n] = table[n]
      /\ \A n \in Fds : table'[n] \in Opened => table'[n] = table[n]
  BY <1>1, <1>2
<1>4. Log!TypeOK'
  BY DEF Log!TypeOK, Log!Opened
<1>5. Exclusive'
  BY DEF Exclusive
<1>6. Numbered'
  <2>1. \A n \in Fds : table'[n] \in Opened \cup {Log!Socket, Log!Closed}
    BY <1>1 DEF Numbered
  <2> QED
    BY <1>1, <2>1 DEF Numbered
<1>7. Rotation'
  <2>1. \A n \in Fds : name # NoFile => (table'[n] = name <=> table[n] = name)
    BY <1>1, <1>3
  <2>2. \A n \in Fds : table'[n] \in Opened <=> table[n] \in Opened
    BY <1>3
  <2>3. Healthy => Healthy'
    BY <1>1, <2>1 DEF Healthy
  <2>4. ASSUME NEW u \in Threads PROVE RotationAt(u)'
    <3>1. fd[u] \in Fds \cup {NoFd} /\ RotationAt(u)
      BY <1>1 DEF Rotation
    <3> QED
      BY <1>1, <2>1, <2>2, <2>3, <3>1 DEF RotationAt
  <2> QED
    BY <2>3, <2>4 DEF Rotation
<1>8. OnlyLog'
  BY <1>1, <1>3 DEF OnlyLog
<1>9. \A f \in Opened : Behind(f)' = Behind(f)
  <2>1. \A f \in Opened : _fd # NoFd => (table'[_fd] = f <=> table[_fd] = f)
    BY <1>1, <1>3
  <2> QED
    BY <2>1 DEF Behind
<1>10. Room'
  BY <1>1, <1>3, <1>9 DEF Room
<1>11. RotatedFull'
  BY DEF RotatedFull
<1> QED
  BY <1>4, <1>5, <1>6, <1>7, <1>8, <1>10, <1>11

\* The clock concerns no file and no thread.
LEMMA TickInv ==
  ASSUME LogInv, UNCHANGED <<_fd, table, size, name, rotated, at, fd, mutex>>,
         second' \in 0 .. MaxSeconds
  PROVE  LogInv'
<1>1. Log!TypeOK' /\ Opened' = Opened
  BY DEF LogInv, Log!TypeOK, Log!Opened, Opened
<1>2. Exclusive' /\ Numbered' /\ RotatedFull'
  BY <1>1 DEF LogInv, Exclusive, Numbered, RotatedFull
<1>3. Rotation' /\ OnlyLog'
  BY <1>1 DEF LogInv, Rotation, RotationAt, Healthy, OnlyLog
<1>4. \A f : Behind(f)' = Behind(f)
  BY DEF Behind
<1>5. Room'
  BY <1>1, <1>4 DEF LogInv, Room
<1> QED
  BY <1>1, <1>2, <1>3, <1>5 DEF LogInv

\* Every step of the threads, the sockets and the clock keeps the invariant.
LEMMA NextLogInv ==
  ASSUME Log!LoggerAssumption, LogInv, [Log!Next]_(Log!vars)
  PROVE  LogInv'
<1>1. CASE \E t \in Threads : \/ Log!LoadFd(t) \/ Log!Writev(t) \/ Log!Lock(t) \/ Log!Lseek(t)
                              \/ Log!Unlock(t) \/ Log!Rename(t) \/ Log!Open(t)
                              \/ Log!Close(t) \/ Log!Assign(t)
  BY <1>1, LoadFdInv, WritevInv, LockInv, LseekInv, UnlockInv, RenameInv, OpenInv,
     CloseInv, AssignInv
<1>2. CASE Log!Connect
  <2> DEFINE m == Log!Min(Log!Free)
  <2>1. Log!Free \in SUBSET Nat /\ Log!Free # {}
    BY <1>2, LogBasics DEF Log!Free, Log!Connect
  <2>2. m \in Log!Free
    BY <2>1, MinResult
  <2>3. m \in Fds /\ table[m] \notin Opened
    BY <2>2, LogBasics DEF Log!Free
  <2>4. /\ table' = [table EXCEPT ![m] = Log!Socket]
        /\ UNCHANGED <<_fd, size, name, rotated, at, fd, mutex, second>>
    BY <1>2 DEF Log!Connect
  <2> HIDE DEF m
  <2> QED
    BY <2>3, <2>4, SocketInv
<1>3. CASE Log!Disconnect
  <2>1. PICK n \in Fds : table[n] = Log!Socket /\ table' = [table EXCEPT ![n] = Log!Closed]
    BY <1>3 DEF Log!Disconnect
  <2>2. UNCHANGED <<_fd, size, name, rotated, at, fd, mutex, second>>
    BY <1>3 DEF Log!Disconnect
  <2>3. table[n] \notin Opened
    BY <2>1, LogBasics
  <2> QED
    BY <2>1, <2>2, <2>3, SocketInv
<1>4. CASE Log!Tick
  <2>1. second' \in 0 .. MaxSeconds
    BY <1>4 DEF Log!Tick, LogInv, Log!TypeOK, Log!LoggerAssumption
  <2> QED
    BY <1>4, <2>1, TickInv DEF Log!Tick
<1>5. CASE UNCHANGED Log!vars
  BY <1>5, TickInv DEF Log!vars, LogInv, Log!TypeOK
<1> QED
  BY <1>1, <1>2, <1>3, <1>4, <1>5 DEF Log!Next

\* The first log is open on _fd when the threads start.
LEMMA InitLogInv ==
  ASSUME Log!LoggerAssumption, Log!Init
  PROVE  LogInv
<1> DEFINE m == Log!Min(Fds)
<1>1. Fds \in SUBSET Nat /\ Fds # {} /\ _maxFileSize \in Nat \ {0} /\ MaxFiles \in Nat \ {0}
      /\ MaxSeconds \in Nat /\ Log!Nobody \notin Threads
  BY DEF Log!LoggerAssumption, Log!Nobody
<1>2. m \in Fds
  BY <1>1, MinResult
<1>3. /\ _fd = m /\ table = [n \in Fds |-> IF n = m THEN 1 ELSE Log!Closed]
      /\ size = [f \in {1} |-> 0] /\ name = 1
      /\ rotated = [s \in 0 .. MaxSeconds |-> NoFile]
      /\ at = [t \in Threads |-> "idle"] /\ fd = [t \in Threads |-> NoFd]
      /\ mutex = Log!Nobody /\ second = 0
  BY DEF Log!Init, NoFile, NoFd
<1> HIDE DEF m
<1>4. Opened = {1}
  BY <1>3 DEF Opened, Log!Opened
<1>5. Log!TypeOK
  BY <1>1, <1>2, <1>3, <1>4 DEF Log!TypeOK, Opened, Log!LogFiles, Log!States, NoFile, NoFd
<1>6. Exclusive
  BY <1>1, <1>3 DEF Exclusive, Holding
<1>7. Numbered
  <2>1. 1 \in 1 .. MaxFiles /\ Opened = 1 .. 1
    BY <1>1, <1>4
  <2> QED
    BY <1>3, <1>4, <2>1 DEF Numbered
<1>8. Rotation
  BY <1>2, <1>3 DEF Rotation, RotationAt, Healthy, NoFile, Log!NoFile
<1>9. OnlyLog
  BY <1>3, <1>4 DEF OnlyLog, Log!Closed
<1>10. \A f : Limit(Behind(f)) \in Nat /\ Limit(Behind(f)) >= _maxFileSize
  <2>1. \A f : Behind(f) \in SUBSET Threads
    BY DEF Behind
  <2> QED
    BY <2>1, LimitGrows
<1>11. Limit(Threads) \in Nat /\ Limit(Threads) >= _maxFileSize
  BY LimitGrows
<1>12. Room
  BY <1>1, <1>3, <1>4, <1>10, <1>11 DEF Room
<1>13. RotatedFull
  BY <1>3 DEF RotatedFull
<1> QED
  BY <1>5, <1>6, <1>7, <1>8, <1>9, <1>12, <1>13 DEF LogInv

(***************************************************************************)
(* For any number of threads and descriptors and any interleaving of their *)
(* steps: while nobody has the mutex, _fd is open on the file that has the *)
(* name of the log, unless rotateLog found no descriptor for it.           *)
(***************************************************************************)
THEOREM LoggerLogIsOpen == Log!LoggerAssumption => (Log!Spec => []LogIsOpen)
<1> SUFFICES ASSUME Log!LoggerAssumption PROVE Log!Spec => []LogIsOpen
  OBVIOUS
<1>1. Log!Init => LogInv
  BY InitLogInv
<1>2. LogInv /\ [Log!Next]_(Log!vars) => LogInv'
  BY NextLogInv
<1>3. LogInv => LogIsOpen
  BY DEF LogInv, Rotation, Healthy, LogIsOpen, Log!LogIsOpen, NoFd, NoFile, Log!NoFd, Log!NoFile
<1> QED
  BY <1>1, <1>2, <1>3, PTL DEF Log!Spec

(***************************************************************************)
(* For any sizes of messages: a log file outgrows the limit by less than a *)
(* message of each thread, although writev is not under the mutex, and no  *)
(* file is renamed before it is full.                                      *)
(***************************************************************************)
THEOREM LoggerSizeBounded == Log!LoggerAssumption => (Log!Spec => []SizeBounded)
<1> SUFFICES ASSUME Log!LoggerAssumption PROVE Log!Spec => []SizeBounded
  OBVIOUS
<1>1. Log!Init => LogInv
  BY InitLogInv
<1>2. LogInv /\ [Log!Next]_(Log!vars) => LogInv'
  BY NextLogInv
<1>3. LogInv => SizeBounded
  <2> SUFFICES ASSUME LogInv PROVE SizeBounded
    OBVIOUS
  <2>1. \A f \in Log!Opened :
          size[f] < _maxFileSize + Log!Cardinality(Threads) * Log!Max(Sizes)
    BY SameSets DEF LogInv, Room, Limit, Opened
  <2>2. \A s \in DOMAIN rotated : rotated[s] # Log!NoFile => size[rotated[s]] >= _maxFileSize
    BY DEF LogInv, RotatedFull, Log!TypeOK, NoFile
  <2> QED
    BY <2>1, <2>2 DEF SizeBounded, Log!SizeBounded
<1> QED
  BY <1>1, <1>2, <1>3, PTL DEF Log!Spec
=============================================================================
