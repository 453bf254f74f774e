--------------------------- MODULE FirmwareUpdate ---------------------------
(***************************************************************************)
(* The firmware update.  run_update.php starts update.sh, which replaces   *)
(* itself, fetches the root file system and four flash images with rsync,  *)
(* and erases and writes the partitions one after the other.  Each run is  *)
(* a process of its own, nothing locks the script, and what it prints goes *)
(* through a pipe to the browser: once that hangs up, the next command     *)
(* that prints is killed.  Commands fail, and so does the power.           *)
(*                                                                         *)
(* The server has one version, "new".  What a running script has read of   *)
(* its file stays as it was: a copy over it changes only later runs.       *)
(***************************************************************************)
EXTENDS Naturals, FiniteSets

CONSTANTS
  Updates,              \* browsers that can ask for an update
  MaxRuns, MaxFaults    \* bounds: runs that are started, things that fail

ASSUME BoundsAssumption == MaxRuns \in Nat /\ MaxFaults \in Nat

\* mtd0 env, mtd1 idblock, mtd2 uboot, mtd3 boot
Last  == 3
Parts == 0 .. Last
TransferOrder == <<3, 0, 1, 2>>

VARIABLES
  on,          \* the board has power and has booted
  flash,       \* each partition; "blank" also if only a part is written
  images,      \* partitions whose image is in /data
  files,       \* the root file system
  script,      \* the file /opt/update.sh
  at, part,    \* position of each run and its number there
  connected,   \* runs whose output somebody reads
  page,        \* what the page of each browser says
  runs, faults,
  lone,        \* history: runs beside which no other was there
  overlapped,  \* history: there were two runs at once
  completed    \* history: the last run was lone and reached its end

disk    == <<flash, images, files, script>>
process == <<at, part>>
history == <<lone, overlapped, completed>>
vars    == <<on, disk, process, connected, page, runs, faults, history>>

Places == {"idle", "check", "copy", "exec", "clear", "rsync", "erase", "write",
           "clean", "end"}

TypeOK ==
  /\ on \in BOOLEAN
  /\ flash \in [Parts -> {"old", "new", "blank", "corrupt"}]
  /\ images \subseteq Parts
  /\ files \in {"old", "mixed", "new"}
  /\ script \in {"old", "new", "empty"}
  /\ at \in [Updates -> Places]
  /\ part \in [Updates -> 0 .. Last + 1]
  /\ \A u \in Updates : at[u] \in {"erase", "write"} => part[u] \in Parts
  /\ connected \subseteq Updates
  /\ page \in [Updates -> {"none", "log", "finish", "error"}]
  /\ runs \in 0 .. MaxRuns /\ faults \in 0 .. MaxFaults
  /\ lone \subseteq Updates /\ overlapped \in BOOLEAN /\ completed \in BOOLEAN

Active   == {u \in Updates : at[u] # "idle"}
Damaged  == {p \in Parts : flash[p] \notin {"old", "new"}}
Bootable == Damaged = {}
AllNew   == files = "new" /\ \A p \in Parts : flash[p] = "new"

Init ==
  /\ on = TRUE
  /\ flash = [p \in Parts |-> "old"] /\ images = {}
  /\ files = "old" /\ script = "old"
  /\ at = [u \in Updates |-> "idle"] /\ part = [u \in Updates |-> 0]
  /\ connected = {} /\ page = [u \in Updates |-> "none"]
  /\ runs = 0 /\ faults = 0
  /\ lone = {} /\ overlapped = FALSE /\ completed = FALSE

-----------------------------------------------------------------------------

At(u, place) == at[u] = place

Go(u, place, n) ==
  /\ at' = [at EXCEPT ![u] = place]
  /\ part' = [part EXCEPT ![u] = n]
  /\ UNCHANGED <<on, connected, page, runs>>

\* The command has printed: without a reader it was killed, and the script
\* ends ("|| exit 1", or the shell's own echo).
Printed(u, place, n) == Go(u, IF u \in connected THEN place ELSE "end", n)

Fault == faults < MaxFaults /\ faults' = faults + 1

\* The button of the page starts run_update.php.  An emptied script does
\* nothing and ends.
Begin(u) ==
  /\ on /\ At(u, "idle")
  /\ runs < MaxRuns /\ runs' = runs + 1
  /\ at' = [at EXCEPT ![u] = IF script = "empty" THEN "end" ELSE "check"]
  /\ connected' = connected \cup {u}
  /\ page' = [page EXCEPT ![u] = "log"]
  /\ lone' = IF Active = {} THEN {u} ELSE {}
  /\ overlapped' = (overlapped \/ Active # {})
  /\ completed' = FALSE
  /\ UNCHANGED <<on, disk, part, faults>>

\* The new script was not received or is the one that runs.
SelfUpToDate(u) ==
  /\ At(u, "check")
  /\ Printed(u, "clear", 0)
  /\ UNCHANGED <<disk, faults, history>>

\* cp empties the file, then writes it; the script then starts itself again.
SelfReplace(u) ==
  /\ At(u, "check") /\ script # "new"
  /\ Printed(u, "copy", 0)
  /\ script' = IF u \in connected THEN "empty" ELSE script
  /\ UNCHANGED <<flash, images, files, faults, history>>

SelfCopied(u) ==
  /\ At(u, "copy")
  /\ script' = "new"
  /\ Printed(u, "exec", 0)
  /\ UNCHANGED <<flash, images, files, faults, history>>

SelfRestart(u) ==
  /\ At(u, "exec")
  /\ Go(u, IF script = "empty" THEN "end" ELSE "clear", 0)
  /\ UNCHANGED <<disk, faults, history>>

\* The players and the monitor are stopped, earlier images removed.
Clear(u) ==
  /\ At(u, "clear")
  /\ images' = {}
  /\ Go(u, "rsync", 0)
  /\ UNCHANGED <<flash, files, script, faults, history>>

Mixed == IF files = "new" THEN "new" ELSE "mixed"

\* rsync goes through its list once: what is removed later is not fetched.
RsyncFetches(u) ==
  /\ At(u, "rsync") /\ part[u] <= Last
  /\ images' = images \cup {TransferOrder[part[u] + 1]}
  /\ files' = Mixed
  /\ Go(u, "rsync", part[u] + 1)
  /\ UNCHANGED <<flash, script, faults, history>>

RsyncEnds(u) ==
  /\ At(u, "rsync") /\ part[u] = Last + 1
  /\ files' = "new"
  /\ Printed(u, "erase", 0)
  /\ UNCHANGED <<flash, images, script, faults, history>>

\* mutant: the script goes on without what rsync should have fetched
RsyncFailsGoesOn(u) ==
  /\ At(u, "rsync") /\ Fault
  /\ files' \in {files, Mixed}
  /\ Go(u, "erase", 0)
  /\ UNCHANGED <<flash, images, script, history>>

\* The network fails, or nobody reads the list of files.
RsyncFails(u) ==
  /\ At(u, "rsync")
  /\ IF u \in connected THEN Fault ELSE faults' = faults
  /\ files' \in {files, Mixed}
  /\ Go(u, "end", 0)
  /\ UNCHANGED <<flash, images, script, history>>

\* mutant: all partitions are erased at the beginning
EraseAllFirst(u) ==
  /\ At(u, "erase")
  /\ flash' = [p \in Parts |-> IF p < part[u] THEN flash[p] ELSE "blank"]
  /\ Printed(u, "write", part[u])
  /\ UNCHANGED <<images, files, script, faults, history>>

flash_erase(u) ==
  /\ At(u, "erase")
  /\ flash' = [flash EXCEPT ![part[u]] = "blank"]
  /\ Printed(u, "write", part[u])
  /\ UNCHANGED <<images, files, script, faults, history>>

\* mutant: after the last partition comes another one
NextPartGoesOn(u) ==
  IF part[u] <= Last THEN Printed(u, "erase", part[u] + 1)
                     ELSE Printed(u, "clean", 0)

NextPart(u) ==
  IF part[u] < Last THEN Printed(u, "erase", part[u] + 1)
                    ELSE Printed(u, "clean", 0)

\* What was not erased is not written as it should be.
mtd_write(u) ==
  /\ At(u, "write") /\ part[u] \in images
  /\ flash' = [flash EXCEPT ![part[u]] =
                 IF @ \in {"blank", "new"} THEN "new" ELSE "corrupt"]
  /\ NextPart(u)
  /\ UNCHANGED <<images, files, script, faults, history>>

\* Another run has removed the image.
ImageMissing(u) ==
  /\ At(u, "write") /\ part[u] \notin images
  /\ Go(u, "end", 0)
  /\ UNCHANGED <<disk, faults, history>>

\* mutant: a partition that could not be written is passed over
FlashFailsGoesOn(u) ==
  /\ at[u] \in {"erase", "write"} /\ Fault
  /\ flash' = IF At(u, "erase") THEN [flash EXCEPT ![part[u]] = "blank"]
                                ELSE flash
  /\ NextPart(u)
  /\ UNCHANGED <<images, files, script, history>>

\* A command fails after it has erased or written some of the blocks.
FlashFails(u) ==
  /\ at[u] \in {"erase", "write"} /\ Fault
  /\ flash' = IF At(u, "erase") THEN [flash EXCEPT ![part[u]] = "blank"]
                                ELSE flash
  /\ Go(u, "end", 0)
  /\ UNCHANGED <<images, files, script, history>>

Clean(u) ==
  /\ At(u, "clean")
  /\ images' = {}
  /\ Go(u, "end", 0)
  /\ completed' = (u \in lone)
  /\ UNCHANGED <<flash, files, script, faults, lone, overlapped>>

\* run_update.php does not look at the exit status: the request succeeds.
Answer(u) ==
  /\ At(u, "end")
  /\ at' = [at EXCEPT ![u] = "idle"]
  /\ page' = IF u \in connected THEN [page EXCEPT ![u] = "finish"] ELSE page
  /\ connected' = connected \ {u}
  /\ lone' = lone \ {u}
  /\ UNCHANGED <<on, disk, part, runs, faults, overlapped, completed>>

\* The browser is closed, or the connection is lost.
HangUp(u) ==
  /\ u \in connected /\ Fault
  /\ connected' = connected \ {u}
  /\ page' = [page EXCEPT ![u] = "error"]
  /\ UNCHANGED <<on, disk, process, runs, history>>

PowerFails ==
  /\ on /\ Fault
  /\ on' = FALSE
  /\ at' = [u \in Updates |-> "idle"] /\ part' = [u \in Updates |-> 0]
  /\ connected' = {}
  /\ page' = [u \in Updates |-> IF u \in connected THEN "error" ELSE page[u]]
  /\ lone' = {}
  /\ UNCHANGED <<disk, runs, overlapped, completed>>

\* A board with a partition that is not whole does not start again.
Boot ==
  /\ ~on /\ Bootable
  /\ on' = TRUE
  /\ UNCHANGED <<disk, process, connected, page, runs, faults, history>>

RunStep(u) ==
  \/ SelfUpToDate(u) \/ SelfReplace(u) \/ SelfCopied(u) \/ SelfRestart(u)
  \/ Clear(u) \/ RsyncFetches(u) \/ RsyncEnds(u) \/ RsyncFails(u)
  \/ flash_erase(u) \/ mtd_write(u) \/ ImageMissing(u) \/ FlashFails(u)
  \/ Clean(u) \/ Answer(u)

Next ==
  \/ \E u \in Updates : Begin(u) \/ RunStep(u) \/ HangUp(u)
  \/ PowerFails \/ Boot

Spec == Init /\ [][Next]_vars

-----------------------------------------------------------------------------
(* Properties. *)

\* A run of update.sh that was alone and reached its end has renewed all
\* partitions and the root file system, whatever earlier runs left behind.
CompletedMeansNew == completed => AllNew

\* A run that is alone erases nothing before all four images and all files
\* have arrived ("rsync ... || exit 1").
FetchedBeforeErase ==
  \A u \in lone :
    at[u] \in {"erase", "write"} => images = Parts /\ files = "new"

Writing == {u \in Updates : at[u] = "write"}

\* While updates come one at a time, each failure costs at most one partition,
\* and nothing else does: update.sh erases a partition just before it writes
\* it, and so none is written over its old contents.
OneDamagedPerFault ==
  ~overlapped => Cardinality(Damaged) <= faults + Cardinality(Writing)

\* app.js:98: "Update completed. Please reboot LuckFox".  The board can be
\* rebooted when a page says so and no update is under way.
FinishMeansBootable ==
  (\E u \in Updates : page[u] = "finish") /\ Active = {} => Bootable
=============================================================================
