----------------------- MODULE MonitorLifecycleProofs -----------------------
(***************************************************************************)
(* Proofs about MonitorLifecycle, for any finite set of callers and any    *)
(* bound on the daemons: types, and that restarts which race never leave   *)
(* the system without a monitor.                                           *)
(*                                                                         *)
(* Why it holds: the caller that signals the last monitor is about to      *)
(* remove the file.  When it has, and as long as no new daemon is forked,  *)
(* nobody can write the file again, so nothing stops that caller on its    *)
(* way to the fork.                                                        *)
(***************************************************************************)
EXTENDS MonitorLifecycle, FiniteSetTheorems, TLAPS

\* The monitors that nobody has told to stop.
Alive == daemons \ termed

\* Each caller in the script forks one daemon at most.
EnoughPids == forked + Cardinality(Busy) <= MaxPids

\* The daemons are among those forked so far.
Known == daemons \subseteq 1 .. forked

Stopping == \E s \in Callers : s01[s] = "rm"

Starting ==
  /\ pidfile = 0
  /\ \E s \in Callers : s01[s] \in {"sleep", "ssd", "fork"}

\* Without a monitor somebody is on the way to the fork and will not be
\* turned back.
OneIsComing == Alive = {} => Stopping \/ Starting

IInv == TypeOK /\ EnoughPids /\ Known /\ OneIsComing

-----------------------------------------------------------------------------
\* A step of a caller that stays in the script leaves Busy as it is; one that
\* enters or leaves it adds or removes the caller.
LEMMA BusyChanges ==
  ASSUME NEW s \in Callers, NEW here, NEW there, TypeOK, Step(s, here, there)
  PROVE  /\ here = "out" /\ there # "out" =>
              s \notin Busy /\ Busy' = Busy \cup {s}
         /\ here # "out" /\ there # "out" => s \in Busy /\ Busy' = Busy
         /\ here # "out" /\ there = "out" => s \in Busy /\ Busy' = Busy \ {s}
  BY DEF Busy, Step, TypeOK

\* The number of callers in the script is a natural number, and how it
\* changes.
LEMMA BusyCounted ==
  /\ Cardinality(Busy) \in Nat
  /\ \A s \in Busy : Cardinality(Busy) > 0
                     /\ Cardinality(Busy \ {s}) = Cardinality(Busy) - 1
  /\ \A s : s \notin Busy => Cardinality(Busy \cup {s}) = Cardinality(Busy) + 1
  <1>1. IsFiniteSet(Busy)
    BY CallersAssumption, FS_Subset DEF Busy
  <1>2. Cardinality(Busy) \in Nat
    BY <1>1, FS_CardinalityType
  <1>3. ASSUME NEW s \in Busy
        PROVE  /\ Cardinality(Busy) > 0
               /\ Cardinality(Busy \ {s}) = Cardinality(Busy) - 1
    <2>1. Cardinality(Busy \ {s}) = Cardinality(Busy) - 1
      BY <1>1, FS_RemoveElement
    <2>2. Cardinality(Busy) # 0
      BY <1>1, FS_EmptySet
    <2> QED
      BY <2>1, <2>2, <1>2
  <1>4. ASSUME NEW s, s \notin Busy
        PROVE  Cardinality(Busy \cup {s}) = Cardinality(Busy) + 1
    BY <1>1, <1>4, FS_AddElement
  <1> QED
    BY <1>2, <1>3, <1>4

\* The boot's daemon is up and nobody restarts it yet.
LEMMA InitIInv == Init => IInv
  <1> SUFFICES ASSUME Init PROVE IInv
    OBVIOUS
  <1>1. Busy = {}
    BY DEF Init, Busy
  <1>2. Cardinality(Busy) = 0
    BY <1>1, FS_EmptySet
  <1>3. EnoughPids
    BY <1>2, MaxPidsAssumption DEF Init, EnoughPids
  <1>4. TypeOK
    BY MaxPidsAssumption DEF Init, TypeOK, BootDaemon
  <1> QED
    BY <1>3, <1>4 DEF Init, IInv, Known, OneIsComing, Alive, BootDaemon

\* Types, and the bound on the daemons: an action that forks leaves the
\* script.
LEMMA TypeStep ==
  ASSUME TypeOK, EnoughPids, Known, [Next]_vars
  PROVE  TypeOK' /\ EnoughPids' /\ Known'
  <1> USE MaxPidsAssumption DEF TypeOK, EnoughPids, Known
  <1>0. CASE UNCHANGED vars
    BY <1>0 DEF vars, Busy
  <1>1. ASSUME NEW s \in Callers, restart(s)
        PROVE  TypeOK' /\ EnoughPids' /\ Known'
    <2>1. s \notin Busy /\ Busy' = Busy \cup {s}
      BY <1>1, BusyChanges DEF restart
    <2>2. Cardinality(Busy') = Cardinality(Busy) + 1
      BY <2>1, BusyCounted
    <2> QED
      BY <1>1, <2>2, BusyCounted DEF restart, Step, daemonVars
  <1>2. ASSUME NEW s \in Callers,
               stop_kill(s) \/ stop_rm(s) \/ start_cat(s) \/ start_rm(s)
        PROVE  TypeOK' /\ EnoughPids' /\ Known'
    <2>1. Busy' = Busy
      BY <1>2, BusyChanges DEF stop_kill, stop_rm, start_cat, start_rm
    <2>2. forked' = forked /\ daemons' = daemons
      BY <1>2 DEF stop_kill, stop_rm, start_cat, start_rm, daemonVars
    <2>3. CASE stop_kill(s)
      BY <2>1, <2>2, <2>3, BusyCounted DEF stop_kill, Step, Killed
    <2>4. CASE stop_rm(s)
      BY <2>1, <2>2, <2>4, BusyCounted DEF stop_rm, Step, daemonVars, FileRemoved
    <2>5. CASE start_cat(s)
      BY <2>1, <2>2, <2>5, BusyCounted DEF start_cat, Step, daemonVars
    <2>6. CASE start_rm(s)
      BY <2>1, <2>2, <2>6, BusyCounted DEF start_rm, Step, daemonVars, FileRemoved
    <2> QED
      BY <1>2, <2>3, <2>4, <2>5, <2>6
  <1>3. ASSUME NEW s \in Callers, start_test(s) \/ ssd_test(s)
        PROVE  TypeOK' /\ EnoughPids' /\ Known'
    <2>1. \/ Step(s, "test", "out") \/ Step(s, "test", "stale")
          \/ Step(s, "ssd", "out") \/ Step(s, "ssd", "fork")
      BY <1>3 DEF start_test, ssd_test
    <2>2. Busy' = Busy \/ (s \in Busy /\ Busy' = Busy \ {s})
      BY <2>1, BusyChanges
    <2>3. TypeOK' /\ Known' /\ forked' = forked
      BY <1>3 DEF start_test, ssd_test, Step, daemonVars
    <2>4. CASE Busy' = Busy
      BY <2>3, <2>4
    <2>5. CASE s \in Busy /\ Busy' = Busy \ {s}
      <3>1. Cardinality(Busy') = Cardinality(Busy) - 1
        BY <2>5, BusyCounted
      <3> QED
        BY <2>3, <3>1, BusyCounted
    <2> QED
      BY <2>2, <2>4, <2>5
  <1>4. ASSUME NEW s \in Callers, ssd_fork(s)
        PROVE  TypeOK' /\ EnoughPids' /\ Known'
    <2>1. s \in Busy /\ Busy' = Busy \ {s}
      BY <1>4, BusyChanges DEF ssd_fork
    <2>2. /\ Cardinality(Busy) > 0 /\ Cardinality(Busy) \in Nat
          /\ Cardinality(Busy') = Cardinality(Busy) - 1
      BY <2>1, BusyCounted
    <2>3. EnoughPids' /\ forked' \in 1 .. MaxPids
      BY <1>4, <2>2 DEF ssd_fork
    <2>4. Known' /\ daemons' \subseteq 1 .. MaxPids
      BY <1>4, <2>3 DEF ssd_fork
    <2> QED
      BY <1>4, <2>3, <2>4 DEF ssd_fork, Step
  <1>5. ASSUME NEW d \in daemons, main_starts(d) \/ main_ends(d)
        PROVE  TypeOK' /\ EnoughPids' /\ Known'
    <2>1. Busy' = Busy /\ forked' = forked
      BY <1>5 DEF main_starts, main_ends, Busy
    <2>2. CASE main_starts(d)
      BY <2>1, <2>2, BusyCounted DEF main_starts
    <2>3. CASE main_ends(d)
      BY <2>1, <2>3, BusyCounted DEF main_ends
    <2> QED
      BY <1>5, <2>2, <2>3
  <1> QED
    BY <1>0, <1>1, <1>2, <1>3, <1>4, <1>5 DEF Next

\* Whoever leaves the system without a monitor is about to remove the file;
\* from then on its way to the fork is free.
LEMMA ComingStep ==
  ASSUME IInv, [Next]_vars
  PROVE  OneIsComing'
  <1> USE DEF IInv, TypeOK, OneIsComing, Alive, Stopping, Starting
  <1>0. CASE UNCHANGED vars
    BY <1>0 DEF vars
  <1>1. ASSUME NEW s \in Callers, restart(s) PROVE OneIsComing'
    BY <1>1 DEF restart, Step, daemonVars
  <1>2. ASSUME NEW s \in Callers, stop_kill(s) PROVE OneIsComing'
    BY <1>2 DEF stop_kill, Step
  <1>3. ASSUME NEW s \in Callers, stop_rm(s) PROVE OneIsComing'
    BY <1>3 DEF stop_rm, Step, FileRemoved, daemonVars
  <1>4. ASSUME NEW s \in Callers, start_cat(s) PROVE OneIsComing'
    BY <1>4 DEF start_cat, Step, daemonVars
  <1>5. ASSUME NEW s \in Callers, start_test(s) PROVE OneIsComing'
    BY <1>5 DEF start_test, Step, daemonVars
  <1>6. ASSUME NEW s \in Callers, start_rm(s) PROVE OneIsComing'
    BY <1>6 DEF start_rm, Step, FileRemoved, daemonVars
  <1>7. ASSUME NEW s \in Callers, ssd_test(s) PROVE OneIsComing'
    <2>1. 0 \notin daemons
      OBVIOUS
    <2> QED
      BY <1>7, <2>1 DEF ssd_test, Step, daemonVars
  <1>8. ASSUME NEW s \in Callers, ssd_fork(s) PROVE OneIsComing'
    <2>1. forked' \in daemons' /\ forked' \notin termed'
      BY <1>8 DEF ssd_fork, Known
    <2> QED
      BY <2>1
  <1>9. ASSUME NEW d \in daemons, main_starts(d) \/ main_ends(d)
        PROVE  OneIsComing'
    BY <1>9 DEF main_starts, main_ends
  <1> QED
    BY <1>0, <1>1, <1>2, <1>3, <1>4, <1>5, <1>6, <1>7, <1>8, <1>9 DEF Next

-----------------------------------------------------------------------------
\* The inductive invariant holds for every interleaving of the callers.
THEOREM LifecycleInvHolds == Spec => []IInv
  <1>1. IInv /\ [Next]_vars => IInv'
    BY TypeStep, ComingStep DEF IInv
  <1> QED
    BY InitIInv, <1>1, PTL DEF Spec

\* Types, for any finite set of callers and any bound.
THEOREM LifecycleTypeCorrect == Spec => []TypeOK
  BY LifecycleInvHolds, PTL DEF IInv

\* When all callers of S01statusmonitor are done, a monitor runs that nobody
\* has told to stop.
THEOREM OneMonitorIsLeft == Spec => []MonitorAlive
  <1>1. IInv => MonitorAlive
    BY DEF IInv, OneIsComing, Stopping, Starting, Alive, MonitorAlive, Busy
  <1> QED
    BY LifecycleInvHolds, <1>1, PTL
=============================================================================
