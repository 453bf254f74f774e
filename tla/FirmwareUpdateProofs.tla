------------------------ MODULE FirmwareUpdateProofs ------------------------
(***************************************************************************)
(* What a lone run of update.sh guarantees, for any number of browsers,    *)
(* runs and failures.                                                      *)
(***************************************************************************)
EXTENDS FirmwareUpdate, FiniteSetTheorems, TLAPS

\* A lone run has no other run beside it.
LoneIsAlone ==
  \A u \in lone : at[u] # "idle" /\ \A v \in Updates : v # u => at[v] = "idle"

\* What a lone run in rsync has fetched so far.
FetchedSoFar ==
  \A u \in lone : at[u] = "rsync" =>
    \A n \in 1 .. part[u] : TransferOrder[n] \in images

\* What a lone run has written: everything before the partition it is at.
WrittenSoFar ==
  \A u \in lone :
    /\ at[u] \in {"erase", "write"} =>
         \A p \in Parts : p < part[u] => flash[p] = "new"
    /\ at[u] = "write" => flash[part[u]] = "blank"
    /\ at[u] = "clean" => AllNew

\* After a completed run no other one has begun.
CompletedAtRest == completed => \A u \in Updates : at[u] \in {"idle", "end"}

\* The inductive invariant: a lone run at each place has done all that
\* comes before it, and nobody undoes it.
LoneRun == FetchedSoFar /\ FetchedBeforeErase /\ WrittenSoFar
IInv    == /\ TypeOK /\ LoneIsAlone /\ LoneRun
           /\ CompletedMeansNew /\ CompletedAtRest

-----------------------------------------------------------------------------
(* Type correctness. *)

\* Every partition is in the order of rsync.
LEMMA OrderCovers ==
  /\ \A n \in 1 .. Last + 1 : TransferOrder[n] \in Parts
  /\ \A p \in Parts : \E n \in 1 .. Last + 1 : TransferOrder[n] = p
BY DEF TransferOrder, Parts, Last

\* Every step keeps TypeOK.
LEMMA TypeStep ==
  ASSUME TypeOK, [Next]_vars
  PROVE  TypeOK'
<1> USE BoundsAssumption DEF BoundsAssumption, TypeOK, Places, Parts, Last, At, history
<1>1. CASE UNCHANGED vars
  BY <1>1 DEF vars, disk, process
<1>2. ASSUME NEW u \in Updates, Begin(u) \/ RunStep(u) \/ HangUp(u)
      PROVE  TypeOK'
  <2>1. CASE Begin(u)
    <3>1. runs' \in 0 .. MaxRuns
      BY <2>1 DEF Begin
    <3>2. at' \in [Updates -> Places] /\ at'[u] \in {"end", "check"}
      BY <2>1 DEF Begin
    <3>3. page' \in [Updates -> {"none", "log", "finish", "error"}]
      BY <2>1 DEF Begin
    <3>4. lone' \subseteq Updates /\ overlapped' \in BOOLEAN /\ connected' \subseteq Updates
      BY <2>1 DEF Begin
    <3> QED
      BY <2>1, <3>1, <3>2, <3>3, <3>4 DEF Begin, disk
  <2>2. CASE SelfUpToDate(u)
    BY <2>2 DEF SelfUpToDate, Printed, Go, disk
  <2>3. CASE SelfReplace(u)
    BY <2>3 DEF SelfReplace, Printed, Go
  <2>4. CASE SelfCopied(u)
    BY <2>4 DEF SelfCopied, Printed, Go
  <2>5. CASE SelfRestart(u)
    BY <2>5 DEF SelfRestart, Go, disk
  <2>6. CASE Clear(u)
    BY <2>6 DEF Clear, Go
  <2>7. CASE RsyncFetches(u)
    <3>1. part[u] + 1 \in 1 .. Last + 1
      BY <2>7 DEF RsyncFetches
    <3>2. images' \subseteq Parts
      BY <2>7, <3>1, OrderCovers DEF RsyncFetches
    <3> QED
      BY <2>7, <3>1, <3>2 DEF RsyncFetches, Go, Mixed
  <2>8. CASE RsyncEnds(u)
    BY <2>8 DEF RsyncEnds, Printed, Go
  <2>9. CASE RsyncFails(u)
    BY <2>9 DEF RsyncFails, Go, Mixed, Fault
  <2>10. CASE flash_erase(u)
    BY <2>10 DEF flash_erase, Printed, Go
  <2>11. CASE mtd_write(u)
    BY <2>11 DEF mtd_write, NextPart, Printed, Go
  <2>12. CASE ImageMissing(u)
    BY <2>12 DEF ImageMissing, Go, disk
  <2>13. CASE FlashFails(u)
    BY <2>13 DEF FlashFails, Go, Fault
  <2>14. CASE Clean(u)
    BY <2>14 DEF Clean, Go
  <2>15. CASE Answer(u)
    BY <2>15 DEF Answer, disk
  <2>16. CASE HangUp(u)
    BY <2>16 DEF HangUp, Fault, disk, process
  <2> QED
    BY <1>2, <2>1, <2>2, <2>3, <2>4, <2>5, <2>6, <2>7, <2>8, <2>9, <2>10, <2>11, <2>12, <2>13, <2>14, <2>15, <2>16 DEF RunStep
<1>3. CASE PowerFails
  <2>1. /\ at' \in [Updates -> Places]
        /\ \A u \in Updates : at'[u] \notin {"erase", "write"}
    BY <1>3 DEF PowerFails
  <2>2. part' \in [Updates -> 0 .. Last + 1]
    BY <1>3 DEF PowerFails
  <2>3. page' \in [Updates -> {"none", "log", "finish", "error"}]
    BY <1>3 DEF PowerFails
  <2>4. faults' \in 0 .. MaxFaults
    BY <1>3 DEF PowerFails, Fault
  <2> QED
    BY <1>3, <2>1, <2>2, <2>3, <2>4 DEF PowerFails, disk
<1>4. CASE Boot
  BY <1>4 DEF Boot, disk, process
<1> QED
  BY <1>1, <1>2, <1>3, <1>4 DEF Next

\* Every initial state has its types.
LEMMA UpdateTypeInit ==
  ASSUME Init
  PROVE  TypeOK
<1>1. runs \in 0 .. MaxRuns /\ faults \in 0 .. MaxFaults
  BY BoundsAssumption DEF Init, BoundsAssumption
<1>2. /\ at \in [Updates -> Places]
      /\ \A u \in Updates : at[u] \notin {"erase", "write"}
  BY DEF Init, Places
<1>3. part \in [Updates -> 0 .. Last + 1]
  BY DEF Init, Last
<1> QED
  BY <1>1, <1>2, <1>3 DEF Init, TypeOK

-----------------------------------------------------------------------------
(* Lone runs. *)

\* A step of a run moves only that run; if another run was lone, there is no
\* such step.
LEMMA StepOfOne ==
  ASSUME TypeOK, LoneIsAlone, NEW u \in Updates, RunStep(u)
  PROVE  /\ at[u] # "idle" /\ lone \subseteq {u} /\ lone' \subseteq lone
         /\ \A v \in Updates : v # u => at'[v] = at[v]
         /\ at'[u] # "idle" \/ lone' = {}
         /\ completed' # completed => Clean(u)
<1>1. at[u] # "idle"
  BY DEF RunStep, At, TypeOK, SelfUpToDate, SelfReplace, SelfCopied, SelfRestart, Clear, RsyncFetches, RsyncEnds, RsyncFails, flash_erase, mtd_write, ImageMissing, FlashFails, Clean, Answer
<1>2. lone \subseteq {u}
  BY <1>1 DEF LoneIsAlone, TypeOK
<1>3. CASE Answer(u)
  BY <1>1, <1>2, <1>3 DEF Answer, TypeOK
<1>4. CASE ~Answer(u)
  <2>1. PICK place : Go(u, place, part'[u]) /\ place # "idle"
    BY <1>4 DEF RunStep, Printed, NextPart, Go, TypeOK, Last, SelfUpToDate, SelfReplace, SelfCopied, SelfRestart, Clear, RsyncFetches, RsyncEnds, RsyncFails, flash_erase, mtd_write, ImageMissing, FlashFails, Clean
  <2>2. lone' = lone /\ (completed' # completed => Clean(u))
    BY <1>4 DEF RunStep, history, SelfUpToDate, SelfReplace, SelfCopied, SelfRestart, Clear, RsyncFetches, RsyncEnds, RsyncFails, flash_erase, mtd_write, ImageMissing, FlashFails, Clean
  <2> QED
    BY <1>1, <1>2, <2>1, <2>2 DEF Go, TypeOK
<1> QED
  BY <1>3, <1>4

\* Every step keeps LoneIsAlone.
LEMMA LoneStep ==
  ASSUME TypeOK, LoneIsAlone, [Next]_vars
  PROVE  LoneIsAlone'
<1>1. CASE UNCHANGED vars
  BY <1>1 DEF vars, process, history, LoneIsAlone
<1>2. ASSUME NEW u \in Updates, Begin(u)
      PROVE  LoneIsAlone'
  BY <1>2 DEF Begin, Active, LoneIsAlone, TypeOK
<1>3. ASSUME NEW u \in Updates, RunStep(u)
      PROVE  LoneIsAlone'
  BY <1>3, StepOfOne DEF LoneIsAlone
<1>4. ASSUME NEW u \in Updates, HangUp(u)
      PROVE  LoneIsAlone'
  BY <1>4 DEF HangUp, process, history, LoneIsAlone
<1>5. CASE PowerFails \/ Boot
  BY <1>5 DEF PowerFails, Boot, process, history, LoneIsAlone
<1> QED
  BY <1>1, <1>2, <1>3, <1>4, <1>5 DEF Next

\* Every step of a run that is lone keeps what LoneRun says of it.
LEMMA LoneRunStep ==
  ASSUME TypeOK, LoneIsAlone, LoneRun, NEW u \in Updates, RunStep(u), u \in lone
  PROVE  LoneRun'
<1> USE DEF LoneRun, FetchedSoFar, FetchedBeforeErase, WrittenSoFar, At
<1> SUFFICES ASSUME u \in lone'
             PROVE  LoneRun'
  BY StepOfOne
<1>1. /\ lone' = {u} /\ lone = {u} /\ part[u] \in 0 .. Last + 1
      /\ at \in [Updates -> Places] /\ part \in [Updates -> 0 .. Last + 1]
  BY StepOfOne DEF TypeOK
<1>2. CASE \/ SelfUpToDate(u) \/ SelfReplace(u) \/ SelfCopied(u)
           \/ SelfRestart(u) \/ RsyncFails(u) \/ ImageMissing(u)
           \/ FlashFails(u) \/ Clean(u) \/ Answer(u)
  <2>1. at'[u] \notin {"rsync", "erase", "write", "clean"}
    BY <1>1, <1>2 DEF SelfUpToDate, SelfReplace, SelfCopied, SelfRestart,
      RsyncFails, ImageMissing, FlashFails, Clean, Answer, Printed, Go
  <2> QED
    BY <1>1, <2>1
<1>3. CASE Clear(u)
  BY <1>1, <1>3 DEF Clear, Go
<1>4. CASE RsyncFetches(u)
  <2>1. at'[u] = "rsync" /\ part'[u] = part[u] + 1
    BY <1>1, <1>4 DEF RsyncFetches, Go
  <2>2. \A n \in 1 .. part[u] + 1 : TransferOrder[n] \in images'
    BY <1>1, <1>4 DEF RsyncFetches, Last
  <2> QED
    BY <1>1, <2>1, <2>2
<1>5. CASE RsyncEnds(u)
  <2>1. at'[u] \in {"erase", "end"} /\ part'[u] = 0
    BY <1>1, <1>5 DEF RsyncEnds, Printed, Go
  <2>2. \A p \in Parts : p \in images
    BY <1>1, <1>5, OrderCovers DEF RsyncEnds
  <2>3. images' = Parts /\ files' = "new"
    BY <1>5, <2>2 DEF RsyncEnds, TypeOK
  <2> QED
    BY <1>1, <2>1, <2>3 DEF Parts
<1>6. CASE flash_erase(u)
  <2>1. at'[u] \in {"write", "end"} /\ part'[u] = part[u] /\ part[u] \in Parts
    BY <1>1, <1>6 DEF flash_erase, Printed, Go, TypeOK
  <2>2. /\ flash' = [flash EXCEPT ![part[u]] = "blank"]
        /\ images' = Parts /\ files' = "new"
    BY <1>1, <1>6 DEF flash_erase
  <2>3. /\ \A p \in Parts : p < part[u] => flash'[p] = "new"
        /\ flash'[part[u]] = "blank"
    BY <1>1, <1>6, <2>1, <2>2 DEF flash_erase, TypeOK, Parts
  <2> QED
    BY <1>1, <2>1, <2>2, <2>3
<1>7. CASE mtd_write(u)
  <2>1. part[u] \in Parts /\ flash[part[u]] = "blank" /\ at[u] = "write"
    BY <1>1, <1>7 DEF mtd_write, TypeOK
  <2>2. images' = Parts /\ files' = "new"
    BY <1>1, <1>7, <2>1 DEF mtd_write
  <2>3. \A p \in Parts : p < part[u] + 1 => flash'[p] = "new"
    BY <1>1, <1>7, <2>1 DEF mtd_write, TypeOK, Parts
  <2>4. CASE part[u] < Last
    <3>1. at'[u] \in {"erase", "end"} /\ part'[u] = part[u] + 1
      BY <1>1, <1>7, <2>4 DEF mtd_write, NextPart, Printed, Go
    <3> QED
      BY <1>1, <2>2, <2>3, <3>1
  <2>5. CASE ~(part[u] < Last)
    <3>1. at'[u] \in {"clean", "end"}
      BY <1>1, <1>7, <2>5 DEF mtd_write, NextPart, Printed, Go
    <3>2. \A p \in Parts : flash'[p] = "new"
      BY <2>1, <2>3, <2>5 DEF Parts, Last
    <3> QED
      BY <1>1, <2>2, <3>1, <3>2 DEF AllNew
  <2> QED
    BY <2>4, <2>5
<1> QED
  BY <1>2, <1>3, <1>4, <1>5, <1>6, <1>7 DEF RunStep

\* Every step keeps LoneRun.
LEMMA LoneRunNext ==
  ASSUME TypeOK, LoneIsAlone, LoneRun, [Next]_vars
  PROVE  LoneRun'
<1> USE DEF LoneRun, FetchedSoFar, FetchedBeforeErase, WrittenSoFar, AllNew
<1>1. CASE UNCHANGED vars
  BY <1>1 DEF vars, disk, process, history
<1>2. ASSUME NEW u \in Updates, Begin(u)
      PROVE  LoneRun'
  <2>1. lone' \subseteq {u} /\ at'[u] \in {"check", "end"}
    BY <1>2 DEF Begin, TypeOK
  <2> QED
    BY <2>1
<1>3. ASSUME NEW u \in Updates, RunStep(u)
      PROVE  LoneRun'
  <2>1. CASE u \in lone
    BY <1>3, <2>1, LoneRunStep
  <2>2. CASE u \notin lone
    BY <1>3, <2>2, StepOfOne
  <2> QED
    BY <2>1, <2>2
<1>4. ASSUME NEW u \in Updates, HangUp(u)
      PROVE  LoneRun'
  BY <1>4 DEF HangUp, disk, process, history
<1>5. CASE PowerFails \/ Boot
  BY <1>5 DEF PowerFails, Boot, disk, process, history
<1> QED
  BY <1>1, <1>2, <1>3, <1>4, <1>5 DEF Next

\* Every step keeps what a completed run leaves.
LEMMA CompletedStep ==
  ASSUME IInv, [Next]_vars
  PROVE  (CompletedMeansNew /\ CompletedAtRest)'
<1> USE DEF IInv, CompletedMeansNew, CompletedAtRest
<1>1. CASE UNCHANGED vars
  BY <1>1 DEF vars, disk, process, history, AllNew
<1>2. ASSUME NEW u \in Updates, Begin(u)
      PROVE  (CompletedMeansNew /\ CompletedAtRest)'
  BY <1>2 DEF Begin
<1>3. ASSUME NEW u \in Updates, RunStep(u)
      PROVE  (CompletedMeansNew /\ CompletedAtRest)'
  <2>1. CASE Clean(u)
    <3>1. at'[u] = "end" /\ flash' = flash /\ files' = files
      BY <2>1 DEF Clean, Go, TypeOK
    <3>2. completed' => u \in lone /\ AllNew
      BY <2>1 DEF Clean, At, LoneRun, WrittenSoFar
    <3>3. completed' => \A v \in Updates : v # u => at'[v] = "idle"
      BY <1>3, <3>2, StepOfOne DEF LoneIsAlone
    <3> QED
      BY <3>1, <3>2, <3>3 DEF AllNew
  <2>2. CASE ~Clean(u) /\ completed
    <3>1. at[u] = "end"
      BY <1>3, <2>2, StepOfOne
    <3>2. Answer(u)
      BY <1>3, <2>2, <3>1 DEF RunStep, At, SelfUpToDate, SelfReplace, SelfCopied, SelfRestart, Clear, RsyncFetches, RsyncEnds, RsyncFails, flash_erase, mtd_write, ImageMissing, FlashFails
    <3> QED
      BY <2>2, <3>2 DEF Answer, disk, AllNew, TypeOK
  <2>3. CASE ~Clean(u) /\ ~completed
    BY <1>3, <2>3, StepOfOne DEF TypeOK
  <2> QED
    BY <2>1, <2>2, <2>3
<1>4. ASSUME NEW u \in Updates, HangUp(u)
      PROVE  (CompletedMeansNew /\ CompletedAtRest)'
  BY <1>4 DEF HangUp, disk, process, history, AllNew
<1>5. CASE PowerFails \/ Boot
  BY <1>5 DEF PowerFails, Boot, disk, process, history, AllNew
<1> QED
  BY <1>1, <1>2, <1>3, <1>4, <1>5 DEF Next

-----------------------------------------------------------------------------
(* Damaged partitions. *)

\* As long as updates come one at a time: the one under way is lone, a
\* partition is damaged because of a failure or of the write that follows, and
\* a run that will be killed by its next erase has cost a failure already.
DamagePaid ==
  ~overlapped =>
    /\ Active \subseteq lone
    /\ Cardinality(Damaged) <= faults + 1
    /\ Writing = {} => Cardinality(Damaged) <= faults
    /\ \A u \in Updates : at[u] = "erase" /\ u \notin connected =>
         Cardinality(Damaged) + 1 <= faults

\* There are finitely many damaged partitions, before and after a step.
LEMMA DamagedFinite ==
  /\ IsFiniteSet(Damaged) /\ Cardinality(Damaged) \in Nat
  /\ IsFiniteSet(Damaged') /\ Cardinality(Damaged') \in Nat
<1>1. IsFiniteSet(Parts)
  <2>1. 0 \in Int /\ Last \in Int
    BY DEF Last
  <2> QED
    BY <2>1, FS_Interval, Zenon DEF Parts
<1>2. Damaged \in SUBSET Parts /\ Damaged' \in SUBSET Parts
  BY DEF Damaged
<1>3. IsFiniteSet(Damaged) /\ IsFiniteSet(Damaged')
  BY <1>1, <1>2, FS_Subset, Zenon
<1> QED
  BY <1>3, FS_CardinalityType, Zenon

\* One more partition is damaged at most after an erase.
LEMMA DamagedAdded ==
  ASSUME TypeOK, NEW p \in Parts, flash' = [flash EXCEPT ![p] = "blank"]
  PROVE  Cardinality(Damaged') <= Cardinality(Damaged) + 1
<1>1. Damaged' = Damaged \cup {p}
  BY DEF Damaged, TypeOK
<1>2. Cardinality(Damaged \cup {p}) =
        IF p \in Damaged THEN Cardinality(Damaged) ELSE Cardinality(Damaged) + 1
  BY DamagedFinite, FS_AddElement, Zenon
<1> QED
  BY <1>1, <1>2, DamagedFinite

\* One partition less is damaged after its write.
LEMMA DamagedRemoved ==
  ASSUME TypeOK, NEW p \in Parts, flash[p] = "blank",
         flash' = [flash EXCEPT ![p] = "new"]
  PROVE  Cardinality(Damaged') = Cardinality(Damaged) - 1
<1>1. Damaged' = Damaged \ {p} /\ p \in Damaged
  BY DEF Damaged, TypeOK
<1> QED
  BY <1>1, DamagedFinite, FS_RemoveElement

\* Every step of a run keeps DamagePaid.
LEMMA DamageRunStep ==
  ASSUME IInv, DamagePaid, NEW u \in Updates, RunStep(u)
  PROVE  DamagePaid'
<1> SUFFICES ASSUME ~overlapped'
             PROVE  /\ Active' \subseteq lone'
                    /\ Cardinality(Damaged') <= faults' + 1
                    /\ Writing' = {} => Cardinality(Damaged') <= faults'
                    /\ \A v \in Updates : at'[v] = "erase" /\ v \notin connected' =>
                         Cardinality(Damaged') + 1 <= faults'
  BY DEF DamagePaid
<1> DEFINE n == Cardinality(Damaged)
<1>1. /\ ~overlapped /\ lone = {u} /\ at[u] # "idle" /\ part[u] \in 0 .. Last + 1
      /\ \A v \in Updates : v # u => at[v] = "idle" /\ at'[v] = "idle"
  <2>1. overlapped' = overlapped
    BY DEF RunStep, history, SelfUpToDate, SelfReplace, SelfCopied, SelfRestart, Clear, RsyncFetches, RsyncEnds, RsyncFails, flash_erase, mtd_write, ImageMissing, FlashFails, Clean, Answer
  <2>2. u \in lone
    BY <2>1, StepOfOne DEF DamagePaid, Active, IInv
  <2> QED
    BY <2>1, <2>2, StepOfOne DEF IInv, LoneIsAlone, TypeOK
<1>2. Active' \subseteq lone'
  <2>1. CASE Answer(u)
    BY <1>1, <2>1 DEF Answer, Active, IInv, TypeOK
  <2>2. CASE ~Answer(u)
    <3>1. lone' = lone
      BY <2>2 DEF RunStep, history, SelfUpToDate, SelfReplace, SelfCopied, SelfRestart, Clear, RsyncFetches, RsyncEnds, RsyncFails, flash_erase, mtd_write, ImageMissing, FlashFails, Clean
    <3> QED
      BY <1>1, <3>1 DEF Active
  <2> QED
    BY <2>1, <2>2
<1>3. /\ faults \in Nat /\ n \in Nat /\ at \in [Updates -> Places]
      /\ flash \in [Parts -> {"old", "new", "blank", "corrupt"}]
      /\ part \in [Updates -> 0 .. Last + 1]
  BY DamagedFinite, BoundsAssumption DEF IInv, TypeOK
<1>4. /\ n <= faults + 1
      /\ at[u] # "write" => n <= faults
      /\ at[u] = "erase" /\ u \notin connected => n + 1 <= faults
  BY <1>1 DEF DamagePaid, Writing
<1>5. SUFFICES /\ Cardinality(Damaged') <= faults' + 1
               /\ at'[u] # "write" => Cardinality(Damaged') <= faults'
               /\ at'[u] = "erase" /\ u \notin connected' =>
                    Cardinality(Damaged') + 1 <= faults'
  BY <1>1, <1>2 DEF Writing
<1> HIDE DEF n
<1>6. CASE \/ SelfUpToDate(u) \/ SelfReplace(u) \/ SelfCopied(u)
           \/ SelfRestart(u) \/ Clear(u) \/ RsyncFetches(u) \/ RsyncEnds(u)
           \/ RsyncFails(u) \/ Clean(u) \/ Answer(u)
  <2>1. flash' = flash /\ faults' \in Nat /\ faults' >= faults
    BY <1>3, <1>6 DEF disk, SelfUpToDate, SelfReplace, SelfCopied, SelfRestart, Clear, RsyncFetches, RsyncEnds, RsyncFails, Clean, Answer, Fault
  <2>2. at[u] # "write" /\ at'[u] # "write"
    BY <1>3, <1>6 DEF At, SelfUpToDate, SelfReplace, SelfCopied, SelfRestart, Clear, RsyncFetches, RsyncEnds, RsyncFails, Clean, Answer, Printed, Go
  <2>3. at'[u] = "erase" => u \in connected'
    BY <1>3, <1>6 DEF At, SelfUpToDate, SelfReplace, SelfCopied, SelfRestart, Clear, RsyncFetches, RsyncEnds, RsyncFails, Clean, Answer, Printed, Go
  <2>4. Cardinality(Damaged') = n
    BY <2>1 DEF Damaged, n
  <2> QED
    <3>1. n <= faults'
      BY <1>3, <1>4, <2>1, <2>2
    <3>2. Cardinality(Damaged') <= faults'
      BY <2>4, <3>1
    <3>3. Cardinality(Damaged') \in Nat /\ faults' \in Nat
      BY <2>1, DamagedFinite
    <3>4. Cardinality(Damaged') <= faults' + 1
      BY <3>2, <3>3
    <3> QED
      BY <2>3, <3>2, <3>4
<1>7. CASE flash_erase(u)
  <2>1. /\ at[u] = "erase" /\ part[u] \in Parts /\ faults' = faults
        /\ flash' = [flash EXCEPT ![part[u]] = "blank"]
    BY <1>7 DEF flash_erase, At, IInv, TypeOK
  <2>2. Cardinality(Damaged') <= n + 1
    BY <2>1, DamagedAdded DEF IInv, n
  <2>3. /\ at'[u] = IF u \in connected THEN "write" ELSE "end"
    BY <1>3, <1>7 DEF flash_erase, Printed, Go
  <2>4. Cardinality(Damaged') \in Nat
    BY <2>1, DamagedFinite DEF IInv
  <2> QED
    BY <1>3, <1>4, <2>1, <2>2, <2>3, <2>4
<1>8. CASE mtd_write(u)
  <2>1. /\ at[u] = "write" /\ part[u] \in Parts /\ faults' = faults
        /\ flash[part[u]] = "blank" /\ connected' = connected
    BY <1>1, <1>8 DEF mtd_write, At, IInv, TypeOK, LoneRun, WrittenSoFar, NextPart, Printed, Go
  <2>2. flash' = [flash EXCEPT ![part[u]] = "new"]
    BY <1>3, <1>8, <2>1 DEF mtd_write
  <2>3. Cardinality(Damaged') = n - 1
    BY <2>1, <2>2, DamagedRemoved DEF IInv, n
  <2>4. at'[u] # "write" /\ (at'[u] = "erase" => u \in connected)
    BY <1>3, <1>8 DEF mtd_write, NextPart, Printed, Go
  <2> QED
    BY <1>3, <1>4, <2>1, <2>3, <2>4
<1>9. CASE ImageMissing(u)
  BY <1>1, <1>9 DEF ImageMissing, At, IInv, TypeOK, LoneRun, FetchedBeforeErase
<1>10. CASE FlashFails(u)
  <2>1. /\ faults' = faults + 1 /\ at'[u] = "end" /\ part[u] \in Parts
    BY <1>3, <1>10 DEF FlashFails, Fault, Go, IInv, TypeOK
  <2>2. CASE at[u] = "erase"
    <3>1. flash' = [flash EXCEPT ![part[u]] = "blank"]
      BY <1>10, <2>2 DEF FlashFails, At
    <3>2. Cardinality(Damaged') <= n + 1 /\ Cardinality(Damaged') \in Nat
      BY <2>1, <3>1, DamagedAdded, DamagedFinite DEF IInv, n
    <3> QED
      BY <1>3, <1>4, <2>1, <2>2, <3>2
  <2>3. CASE at[u] # "erase"
    <3>1. Cardinality(Damaged') = n
      BY <1>10, <2>3 DEF FlashFails, At, Damaged, n
    <3> QED
      BY <1>3, <1>4, <2>1, <3>1
  <2> QED
    BY <2>2, <2>3
<1> QED
  BY <1>6, <1>7, <1>8, <1>9, <1>10 DEF RunStep

\* Every step keeps DamagePaid.
LEMMA DamageStep ==
  ASSUME IInv, DamagePaid, [Next]_vars
  PROVE  DamagePaid'
<1>1. Cardinality(Damaged) \in Nat /\ faults \in Nat
  BY DamagedFinite, BoundsAssumption DEF IInv, TypeOK
<1>2. CASE UNCHANGED vars
  BY <1>2 DEF vars, disk, process, history, DamagePaid, Active, Damaged, Writing
<1>3. ASSUME NEW u \in Updates, Begin(u)
      PROVE  DamagePaid'
  <2>1. /\ flash' = flash /\ faults' = faults
        /\ at' = [at EXCEPT ![u] = at'[u]] /\ at'[u] \notin {"erase", "write"}
        /\ u \in connected' /\ connected \subseteq connected'
        /\ at[u] = "idle"
    BY <1>3 DEF Begin, disk, At, IInv, TypeOK
  <2> SUFFICES ASSUME ~overlapped'
               PROVE  DamagePaid'
    BY DEF DamagePaid
  <2>2. ~overlapped /\ Active = {} /\ lone' = {u}
    BY <1>3 DEF Begin, IInv, TypeOK
  <2>3. /\ Active' \subseteq lone' /\ Writing' = {} /\ Writing = {}
        /\ \A v \in Updates : at'[v] # "erase"
    BY <2>1, <2>2 DEF Active, Writing, IInv, TypeOK
  <2>4. Cardinality(Damaged') <= faults' /\ Cardinality(Damaged') \in Nat
    BY <2>1, <2>2, <2>3, <1>1 DEF DamagePaid, Damaged
  <2> QED
    BY <1>1, <2>1, <2>3, <2>4 DEF DamagePaid
<1>4. ASSUME NEW u \in Updates, RunStep(u)
      PROVE  DamagePaid'
  BY <1>4, DamageRunStep
<1>5. ASSUME NEW u \in Updates, HangUp(u)
      PROVE  DamagePaid'
  <2>1. /\ flash' = flash /\ at' = at /\ lone' = lone
        /\ overlapped' = overlapped /\ faults' = faults + 1
    BY <1>5 DEF HangUp, Fault, disk, process, history
  <2>2. Damaged' = Damaged /\ Active' = Active /\ Writing' = Writing
    BY <2>1 DEF Damaged, Active, Writing
  <2>3. \A v \in Updates : at[v] = "erase" => Writing = {} \/ overlapped
    BY DEF Writing, DamagePaid, Active, IInv, LoneIsAlone
  <2>4. CASE overlapped
    BY <2>1, <2>4 DEF DamagePaid
  <2>5. CASE ~overlapped
    BY <1>1, <2>1, <2>2, <2>3, <2>5 DEF DamagePaid
  <2> QED
    BY <2>4, <2>5
<1>6. CASE PowerFails
  <2>1. /\ flash' = flash /\ overlapped' = overlapped /\ faults' = faults + 1
        /\ \A v \in Updates : at'[v] = "idle"
    BY <1>6 DEF PowerFails, Fault, disk
  <2>2. Damaged' = Damaged /\ Active' = {} /\ Writing' = {}
    BY <2>1 DEF Damaged, Active, Writing
  <2> QED
    BY <1>1, <2>1, <2>2 DEF DamagePaid
<1>7. CASE Boot
  BY <1>7 DEF Boot, disk, process, history, DamagePaid, Active, Damaged, Writing
<1> QED
  BY <1>2, <1>3, <1>4, <1>5, <1>6, <1>7 DEF Next

-----------------------------------------------------------------------------
(* Theorems. *)

\* The inductive invariant holds.
THEOREM UpdateInvHolds == Spec => []IInv
<1>1. Init => TypeOK
  BY UpdateTypeInit
<1>2. Init => LoneIsAlone /\ LoneRun /\ CompletedMeansNew /\ CompletedAtRest
  BY DEF Init, LoneIsAlone, LoneRun, FetchedSoFar, FetchedBeforeErase,
         WrittenSoFar, CompletedMeansNew, CompletedAtRest
<1>3. IInv /\ [Next]_vars => IInv'
  BY TypeStep, LoneStep, LoneRunNext, CompletedStep DEF IInv
<1> QED
  BY <1>1, <1>2, <1>3, PTL DEF Spec, IInv

\* The program's variables always have their types.
THEOREM UpdateTypeCorrect == Spec => []TypeOK
BY UpdateInvHolds, PTL DEF IInv

\* A lone run that reached its end has renewed everything.
THEOREM CompletedRunRenewsAll == Spec => []CompletedMeansNew
BY UpdateInvHolds, PTL DEF IInv

\* A lone run erases nothing before all has arrived.
THEOREM NothingErasedTooEarly == Spec => []FetchedBeforeErase
BY UpdateInvHolds, PTL DEF IInv, LoneRun

\* While updates come one at a time, the damaged partitions are at most the
\* failures and the one that is being written.
THEOREM DamageIsPaidFor == Spec => []OneDamagedPerFault
<1>1. Init => DamagePaid
  <2>1. Init => Damaged = {} /\ Active = {} /\ faults = 0
    BY DEF Init, Damaged, Active
  <2> QED
    BY <2>1, FS_EmptySet DEF DamagePaid, Init
<1>2. IInv /\ DamagePaid /\ [Next]_vars => DamagePaid'
  BY DamageStep
<1>3. IInv /\ DamagePaid => OneDamagedPerFault
  <2> SUFFICES ASSUME IInv, DamagePaid, ~overlapped
               PROVE  Cardinality(Damaged) <= faults + Cardinality(Writing)
    BY DEF OneDamagedPerFault
  <2>1. Cardinality(Damaged) \in Nat /\ faults \in Nat
    BY DamagedFinite, BoundsAssumption DEF IInv, TypeOK
  <2>2. CASE Writing = {}
    <3>1. Cardinality(Writing) = 0
      BY <2>2, FS_EmptySet
    <3> QED
      BY <2>1, <2>2, <3>1 DEF DamagePaid
  <2>3. CASE Writing # {}
    <3>1. PICK u \in Updates : at[u] = "write"
      BY <2>3 DEF Writing
    <3>2. Writing = {u}
      BY <3>1 DEF DamagePaid, Active, Writing, IInv, LoneIsAlone
    <3>3. Cardinality(Writing) = 1
      BY <3>2, FS_Singleton
    <3> QED
      BY <2>1, <3>3 DEF DamagePaid
  <2> QED
    BY <2>2, <2>3
<1> QED
  BY <1>1, <1>2, <1>3, UpdateInvHolds, PTL DEF Spec
=============================================================================
