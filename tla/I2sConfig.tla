------------------------------ MODULE I2sConfig ------------------------------
(***************************************************************************)
(* The settings of the I2S output.  i2s.php and its scripts (2pll.sh,      *)
(* 2ext.sh, 2_512_ext.sh, ...) keep them in several places: /etc/i2s.conf, *)
(* the init scripts S94ioi2s and S01RkLunch, the link /etc/asound.conf,    *)
(* the driver's sysfs attributes and the device tree in flash.  The boot   *)
(* reads them again.                                                       *)
(*                                                                         *)
(* A request is the list of commands that it has still to execute.  The    *)
(* page posts each control by itself and waits for none, and nothing locks *)
(* the files: requests interleave.  "sed -i" reads the file and renames    *)
(* its result over it; PHP reads it, truncates it and writes it.  A power  *)
(* failure, or the reboot that the page asks for, ends every request.      *)
(* What is written counts as stored at once.  What 2_std.sh does to the    *)
(* players and the monitor is in RestartScripts and StatusMonitor.         *)
(***************************************************************************)
EXTENDS Naturals, Sequences

CONSTANTS
  Requests,     \* requests to i2s.php that can be in progress at once
  Forms,        \* the forms that are posted, functions from Fields
  Swaps,        \* keys of the swap settings: PCM_SWAP, DSD_SWAP, FREQ_SWAP
  MaxPosts, MaxFailures   \* bounds on the requests and failures of a run

Modes    == {"pll", "ext"}
Mclks    == {"512", "1024"}
Submodes == {"std", "lr", "plr", "8ch"}
Missing  == "missing"            \* no line of the file has the key
Keys     == {"MODE", "MCLK", "SUBMODE"} \cup Swaps
Values(key) == CASE key = "MODE" -> Modes
                 [] key = "MCLK" -> Mclks
                 [] key = "SUBMODE" -> Submodes
                 [] OTHER -> {"0", "1"}
Images == {"1024_pll", "1024_ext", "512_ext"}
Texts  == {t \in [Keys -> {Missing} \cup UNION {Values(k) : k \in Keys}] :
             \A k \in Keys : t[k] \in Values(k) \cup {Missing}}

ASSUME FormsAssumption ==
  \A f \in Forms : /\ DOMAIN f \subseteq Keys
                   /\ \A k \in DOMAIN f : f[k] \in Values(k)
ASSUME SwapsAssumption == Swaps \subseteq {"PCM_SWAP", "DSD_SWAP", "FREQ_SWAP"}
ASSUME BoundsAssumption == MaxPosts \in Nat /\ MaxFailures \in Nat

VARIABLES
  conf,      \* /etc/i2s.conf
  s94,       \* the direction constant that S94ioi2s writes, or both
  s01,       \* the swap that S01RkLunch sets over i2s.conf's, or "shipped"
  link,      \* what /etc/asound.conf points to
  flash,     \* the device tree's blocks of mtd3
  sysfs,     \* the driver's attributes mclk_multiplier and swaps
  board,     \* the device tree and the direction since the last boot
  todo,      \* commands left of each request
  at,        \* position in the command at the head
  text,      \* what the request has read of conf, with its change
  script,    \* what it has read of S01RkLunch, with its change
  opened,    \* requests whose open conf is the present file
  posts, failures,
  form,      \* history: what each request was asked for
  alone,     \* history: no other request since it began, and conf was whole
  applied,   \* history: the form of the last request if it ran alone
  booted     \* history: the board has booted since then

stores  == <<conf, s94, s01, link, flash, sysfs>>
control == <<todo, at, text, script, opened>>
bounds  == <<posts, failures>>
history == <<form, alone, applied, booted>>
vars    == <<stores, board, control, bounds, history>>

Off     == [image |-> "off", direction |-> "none"]
Nothing == [k \in {} |-> Missing]
Empty   == [k \in Keys |-> Missing]
On      == board # Off

Idle(r) == todo[r] = <<>>
Whole   == s01 # "empty" /\ \A k \in Keys : conf[k] # Missing
Scripts == {"shipped", "empty", "0", "1"}

TypeOK ==
  /\ conf \in Texts
  /\ s94 \in {"both", "pll", "ext"}
  /\ s01 \in Scripts
  /\ link \in Submodes \cup {"none"}
  /\ flash \in Images \cup {"blank", "corrupt"}
  /\ DOMAIN sysfs = {"MCLK"} \cup Swaps
  /\ \A k \in DOMAIN sysfs : sysfs[k] \in Values(k)
  /\ board = Off \/ board \in [image : Images, direction : Modes \cup {"none"}]
  /\ \A r \in Requests : /\ at[r] \in 0 .. 2
                         /\ text[r] \in Texts /\ script[r] \in Scripts
                         /\ alone[r] \in BOOLEAN
                         /\ Idle(r) => at[r] = 0 /\ r \notin opened
  /\ opened \subseteq Requests /\ booted \in BOOLEAN
  /\ posts \in 0 .. MaxPosts /\ failures \in 0 .. MaxFailures

-----------------------------------------------------------------------------
(* The scripts, as lists of commands. *)

Cmd(op, key, val) == [op |-> op, key |-> key, val |-> val]

\* sed 's/KEY=from/KEY=val/' with the only other value of the key, or any.
Sed(key, val)   == Cmd("sed", key, val)
SedAny(key, val) == Cmd("sedany", key, val)

\* mutant: the blocks are written without an erase
NoErase(image) == <<Cmd("write", "", image)>>
\* mutant: the blocks are erased after the write
EraseLast(image) == <<Cmd("write", "", image), Cmd("erase", "", "")>>

WriteTree(image) == <<Cmd("erase", "", ""), Cmd("write", "", image)>>

\* mutant: the tree that is written is one that there is not
ModeScript512(mode) ==
  IF mode = "pll"
    THEN <<Cmd("s94", "", "pll"), Sed("MODE", "pll")>> \o WriteTree("512_pll")
    ELSE <<Cmd("s94", "", "ext"), Sed("MODE", "ext")>> \o WriteTree("1024_ext")

ModeScript(mode) ==
  IF mode = "pll"
    THEN <<Cmd("s94", "", "pll"), Sed("MODE", "pll"), Sed("MCLK", "1024")>>
           \o WriteTree("1024_pll")
    ELSE <<Cmd("s94", "", "ext"), Sed("MODE", "ext")>> \o WriteTree("1024_ext")

SubmodeScript(submode) ==
  <<Cmd("rm", "", ""), Cmd("ln", "", submode), SedAny("SUBMODE", submode)>>

\* mutant: the script is chosen without a look at the mode
MclkScriptPll(mclk, mode) ==
  <<Cmd("sysfs", "MCLK", mclk), SedAny("MCLK", mclk)>>

\* With every mode but pll, an absent one too, the scripts of ext are called.
MclkScript(mclk, mode) ==
  IF mode = "pll"
    THEN <<Cmd("sysfs", "MCLK", mclk), SedAny("MCLK", mclk)>>
    ELSE <<Cmd("s94", "", "ext")>>
           \o (IF mclk = "512" THEN <<Sed("MODE", "ext")>> ELSE <<>>)
           \o <<Sed("MCLK", mclk)>>
           \o WriteTree(IF mclk = "512" THEN "512_ext" ELSE "1024_ext")

\* The POST part of i2s.php.
Field(f, key, commands) == IF key \in DOMAIN f THEN commands ELSE <<>>

SwapCommands(f, key) ==
  Field(f, key, <<Cmd("sysfs", key, f[key]), Cmd("php", key, f[key])>>
                  \o (IF key = "FREQ_SWAP" THEN <<>>
                                           ELSE <<Cmd("s01", key, f[key])>>))

CommandsOf(f) ==
  Field(f, "MODE", ModeScript(f["MODE"]))
    \o Field(f, "SUBMODE", SubmodeScript(f["SUBMODE"]))
    \o Field(f, "MCLK", <<Cmd("mclk", "", f["MCLK"])>>)
    \o SwapCommands(f, "PCM_SWAP") \o SwapCommands(f, "DSD_SWAP")
    \o SwapCommands(f, "FREQ_SWAP")

-----------------------------------------------------------------------------
(* The boot. *)

\* mutant: S01RkLunch does not look at MCLK
MultiplierDefault(t) == "512"

\* S01RkLunch; 512 is the driver's default.
Multiplier(t) == IF t["MCLK"] = "1024" THEN "1024" ELSE "512"

Default(key) == IF key = "DSD_SWAP" THEN "1" ELSE "0"

\* The swap of the channels that updateInitScript adds comes after the one
\* from i2s.conf.  An empty S01RkLunch leaves what the driver starts with.
SysfsAtBoot(t, s) ==
  [k \in {"MCLK"} \cup Swaps |->
     CASE s = "empty" -> IF k = "MCLK" THEN "512" ELSE "0"
       [] s # "empty" /\ k = "MCLK" -> Multiplier(t)
       [] s \in {"0", "1"} /\ k = "PCM_SWAP" -> s
       [] OTHER -> IF t[k] = Missing THEN Default(k) ELSE t[k]]

\* S94ioi2s: without a mode it ends before it sets the direction.
Direction(t) ==
  IF t["MODE"] = Missing THEN "none" ELSE IF s94 = "both" THEN t["MODE"] ELSE s94

Shipped ==
  [k \in Keys |-> CASE k = "MODE" -> "pll" [] k = "MCLK" -> "512"
                    [] k = "SUBMODE" -> "std" [] OTHER -> Default(k)]

Init ==
  /\ conf = Shipped /\ s94 = "both" /\ s01 = "shipped" /\ link = "std" /\ flash = "1024_pll"
  /\ sysfs = SysfsAtBoot(Shipped, s01)
  /\ board = [image |-> "1024_pll", direction |-> "pll"]
  /\ todo = [r \in Requests |-> <<>>] /\ at = [r \in Requests |-> 0]
  /\ text = [r \in Requests |-> Empty] /\ opened = {}
  /\ script = [r \in Requests |-> "empty"]
  /\ posts = 0 /\ failures = 0
  /\ form = [r \in Requests |-> Nothing] /\ alone = [r \in Requests |-> FALSE]
  /\ applied = Nothing /\ booted = FALSE

\* Power comes back; without a device tree the kernel does not start.
Boot ==
  /\ ~On /\ flash \in Images
  /\ board' = [image |-> flash, direction |-> Direction(conf)]
  /\ sysfs' = SysfsAtBoot(conf, s01)
  /\ booted' = TRUE
  /\ UNCHANGED <<conf, s94, s01, link, flash, control, bounds, form, alone, applied>>

\* A power failure, or reboot.php.
PowerFails ==
  /\ On /\ failures < MaxFailures /\ failures' = failures + 1
  /\ board' = Off
  /\ todo' = [r \in Requests |-> <<>>] /\ at' = [r \in Requests |-> 0]
  /\ text' = [r \in Requests |-> Empty] /\ opened' = {}
  /\ script' = [r \in Requests |-> "empty"]
  /\ UNCHANGED <<stores, posts, history>>

-----------------------------------------------------------------------------
(* The requests. *)

Post(r) ==
  /\ On /\ Idle(r)
  /\ posts < MaxPosts /\ posts' = posts + 1
  /\ \E f \in Forms :
       /\ todo' = [todo EXCEPT ![r] = CommandsOf(f)]
       /\ form' = [form EXCEPT ![r] = f]
  /\ alone' = [q \in Requests |-> /\ q = r /\ Whole
                                  /\ \A p \in Requests : Idle(p)]
  /\ applied' = Nothing /\ booted' = FALSE
  /\ UNCHANGED <<stores, board, at, text, script, opened, failures>>

At(r, ops, position) == ~Idle(r) /\ Head(todo[r]).op \in ops /\ at[r] = position

\* The request goes on with the rest, or ends.
Advance(r, rest) ==
  /\ todo' = [todo EXCEPT ![r] = rest]
  /\ at' = [at EXCEPT ![r] = 0]
  /\ text' = [text EXCEPT ![r] = Empty]
  /\ script' = [script EXCEPT ![r] = "empty"]
  /\ applied' = IF rest = <<>> /\ alone[r] THEN form[r] ELSE applied
  /\ UNCHANGED <<board, bounds, form, alone, booted>>

Within(r) ==
  /\ at' = [at EXCEPT ![r] = at[r] + 1]
  /\ UNCHANGED <<todo, board, bounds, history>>

\* One command on one store.
S94Sed(r) ==
  /\ At(r, {"s94"}, 0)
  /\ s94' = Head(todo[r]).val
  /\ Advance(r, Tail(todo[r]))
  /\ UNCHANGED <<conf, s01, link, flash, sysfs, opened>>

RemoveLink(r) ==
  /\ At(r, {"rm"}, 0)
  /\ link' = "none"
  /\ Advance(r, Tail(todo[r]))
  /\ UNCHANGED <<conf, s94, s01, flash, sysfs, opened>>

\* ln fails if another script has made its link.
MakeLink(r) ==
  /\ At(r, {"ln"}, 0)
  /\ link' = IF link = "none" THEN Head(todo[r]).val ELSE link
  /\ Advance(r, Tail(todo[r]))
  /\ UNCHANGED <<conf, s94, s01, flash, sysfs, opened>>

WriteSysfs(r) ==
  /\ At(r, {"sysfs"}, 0)
  /\ sysfs' = [sysfs EXCEPT ![Head(todo[r]).key] = Head(todo[r]).val]
  /\ Advance(r, Tail(todo[r]))
  /\ UNCHANGED <<conf, s94, s01, link, flash, opened>>

flash_erase(r) ==
  /\ At(r, {"erase"}, 0)
  /\ flash' = "blank"
  /\ Advance(r, Tail(todo[r]))
  /\ UNCHANGED <<conf, s94, s01, link, sysfs, opened>>

\* Pages that are not erased keep the bits that were written.
nandwrite(r) ==
  /\ At(r, {"write"}, 0)
  /\ flash' = IF flash \in {"blank", Head(todo[r]).val} THEN Head(todo[r]).val
                                                        ELSE "corrupt"
  /\ Advance(r, Tail(todo[r]))
  /\ UNCHANGED <<conf, s94, s01, link, sysfs, opened>>

\* The script for MCLK is chosen when its turn comes.
ChooseMclkScript(r) ==
  /\ At(r, {"mclk"}, 0)
  /\ Advance(r, MclkScript(Head(todo[r]).val, conf["MODE"]) \o Tail(todo[r]))
  /\ UNCHANGED <<stores, opened>>

\* sed -i on i2s.conf: a line that is missing stays missing.
SedReads(r) ==
  LET c == Head(todo[r])
  IN  /\ At(r, {"sed", "sedany"}, 0)
      /\ text' = [text EXCEPT ![r] =
                    [conf EXCEPT ![c.key] = IF @ = Missing THEN @ ELSE c.val]]
      /\ Within(r)
      /\ UNCHANGED <<stores, script, opened>>

SedRenames(r) ==
  /\ At(r, {"sed", "sedany"}, 1)
  /\ conf' = text[r]
  /\ opened' = {}
  /\ Advance(r, Tail(todo[r]))
  /\ UNCHANGED <<s94, s01, link, flash, sysfs>>

\* updateConfigValue: a missing line is appended.
PhpReads(r) ==
  LET c == Head(todo[r])
  IN  /\ At(r, {"php"}, 0)
      /\ text' = [text EXCEPT ![r] = [conf EXCEPT ![c.key] = c.val]]
      /\ Within(r)
      /\ UNCHANGED <<stores, script, opened>>

PhpTruncates(r) ==
  /\ At(r, {"php"}, 1)
  /\ conf' = Empty
  /\ opened' = opened \cup {r}
  /\ Within(r)
  /\ UNCHANGED <<s94, s01, link, flash, sysfs, text, script>>

\* The text goes over the start of what another writer has written since; if
\* a sed has put another file in place, it is lost.
PhpWrites(r) ==
  /\ At(r, {"php"}, 2)
  /\ conf' = IF r \in opened
               THEN [k \in Keys |-> IF text[r][k] # Missing THEN text[r][k]
                                                            ELSE conf[k]]
               ELSE conf
  /\ opened' = opened \ {r}
  /\ Advance(r, Tail(todo[r]))
  /\ UNCHANGED <<s94, s01, link, flash, sysfs>>

\* updateInitScript.  The shipped script has no line for its pattern, so the
\* channels' swap is added; dsd's is not found, the file is written as it was.
InitReads(r) ==
  LET c == Head(todo[r])
  IN  /\ At(r, {"s01"}, 0)
      /\ script' = [script EXCEPT ![r] =
                      IF c.key = "PCM_SWAP" /\ s01 # "empty" THEN c.val ELSE s01]
      /\ Within(r)
      /\ UNCHANGED <<stores, text, opened>>

InitTruncates(r) ==
  /\ At(r, {"s01"}, 1)
  /\ s01' = "empty"
  /\ Within(r)
  /\ UNCHANGED <<conf, s94, link, flash, sysfs, text, script, opened>>

InitWrites(r) ==
  /\ At(r, {"s01"}, 2)
  /\ s01' = IF script[r] = "empty" THEN s01 ELSE script[r]
  /\ Advance(r, Tail(todo[r]))
  /\ UNCHANGED <<conf, s94, link, flash, sysfs, opened>>

RequestStep(r) ==
  \/ S94Sed(r) \/ RemoveLink(r) \/ MakeLink(r) \/ WriteSysfs(r)
  \/ flash_erase(r) \/ nandwrite(r) \/ ChooseMclkScript(r)
  \/ SedReads(r) \/ SedRenames(r)
  \/ PhpReads(r) \/ PhpTruncates(r) \/ PhpWrites(r)
  \/ InitReads(r) \/ InitTruncates(r) \/ InitWrites(r)

Next ==
  \/ \E r \in Requests : Post(r) \/ RequestStep(r)
  \/ PowerFails \/ Boot

Spec == Init /\ [][Next]_vars

-----------------------------------------------------------------------------
(* Properties. *)

\* The device tree for a mode and a multiplier: pll mode has one tree.
TreeOf(mode, mclk) ==
  IF mode = "pll" THEN "1024_pll"
  ELSE IF mclk = "512" THEN "512_ext" ELSE "1024_ext"

\* A request that ran alone on whole files leaves every place in agreement
\* with its form, whatever earlier requests and failures left (i2s.php and
\* its scripts): i2s.conf has its values; if it gave mode and multiplier, flash
\* has their device tree and S94ioi2s their direction.
AppliedEverywhere ==
  /\ \A k \in DOMAIN applied : conf[k] = applied[k]
  /\ "SUBMODE" \in DOMAIN applied => link = applied["SUBMODE"]
  /\ {"MODE", "MCLK"} \subseteq DOMAIN applied =>
       /\ flash = TreeOf(applied["MODE"], applied["MCLK"])
       /\ s94 \in {"both", applied["MODE"]}

\* What such a request has set is what the board runs with after the next
\* boot (S94ioi2s, S01RkLunch), and the swaps and pll's multiplier at once.
AppliedRuns ==
  On =>
    /\ \A k \in Swaps \cap DOMAIN applied : sysfs[k] = applied[k]
    /\ "MCLK" \in DOMAIN applied /\ (booted \/ conf["MODE"] = "pll") =>
         sysfs["MCLK"] = applied["MCLK"]
    /\ booted /\ {"MODE", "MCLK"} \subseteq DOMAIN applied =>
         board = [image |-> TreeOf(applied["MODE"], applied["MCLK"]),
                  direction |-> applied["MODE"]]

\* As long as the board is on, its device tree is erased only while a request
\* has still to write one: no order of two requests leaves it erased (the
\* pairs flash_erase, nandwrite of 2pll.sh and the others).
ErasedOnlyForWrite ==
  On /\ flash = "blank" =>
    \E r \in Requests : \E i \in DOMAIN todo[r] : todo[r][i].op = "write"
=============================================================================
