--------------------------- MODULE I2sConfigProofs ---------------------------
(***************************************************************************)
(* Types; that a running board's device tree is erased only for a write    *)
(* that some request has still to make; that a request which runs alone on *)
(* whole files leaves every place in agreement; and that the board runs    *)
(* with what it left, also after the next boot: for any forms, any number  *)
(* of requests at once, posts and failures.                                *)
(*                                                                         *)
(* Why it holds: in the list of a request the command after an erase is    *)
(* always a write, also in the list that the script for MCLK puts in front *)
(* of the rest; and the head of a list leaves it only by being executed.   *)
(* For each place that a lone request's form is about, either the last     *)
(* command left that sets the place gives it the wanted value, or none is  *)
(* left and the place has it.  The one command whose effect depends on     *)
(* what it finds, the script for MCLK, comes when the mode is set for      *)
(* good.  What the boot reads is then what the form wants in those places. *)
(***************************************************************************)
EXTENDS I2sConfig, TLAPS

Ops  == {"s94", "rm", "ln", "erase", "write", "mclk", "sed", "sedany", "php",
         "sysfs", "s01"}
Bits == {"0", "1"}
Vals == Modes \cup Mclks \cup Submodes \cup Bits \cup Images \cup {""}

CommandOK(c) ==
  /\ c.op = "s94" => c.val \in Modes
  /\ c.op = "ln" => c.val \in Submodes
  /\ c.op = "write" => c.val \in Images
  /\ c.op = "mclk" => c.val \in Mclks
  /\ c.op = "s01" => c.val \in Bits
  /\ c.op \in {"sed", "sedany", "php"} => c.key \in Keys /\ c.val \in Values(c.key)
  /\ c.op = "sysfs" =>
       c.key \in {"MCLK"} \cup Swaps /\ c.val \in Values(c.key)

Commands == {c \in [op : Ops, key : Keys \cup {""}, val : Vals] : CommandOK(c)}

\* Lists of commands in which a write follows every erase.
Lists ==
  {s \in Seq(Commands) :
     \A i \in 1 .. Len(s) :
       s[i].op = "erase" => i < Len(s) /\ s[i + 1].op = "write"}

\* The types of what a request is about to do.
RequestsTyped ==
  /\ todo \in [Requests -> Lists]
  /\ at \in [Requests -> 0 .. 2]
  /\ text \in [Requests -> Texts]
  /\ script \in [Requests -> Scripts]
  /\ opened \subseteq Requests
  /\ \A r \in Requests : at[r] # 0 => ~Idle(r)
  /\ \A r \in opened : at[r] = 2 /\ ~Idle(r) /\ Head(todo[r]).op = "php"

\* The types of the places that a setting is kept in, and of the rest.
StoresTyped ==
  /\ conf \in Texts /\ s94 \in {"both", "pll", "ext"} /\ s01 \in Scripts
  /\ link \in Submodes \cup {"none"}
  /\ flash \in Images \cup {"blank", "corrupt"}
  /\ sysfs \in [{"MCLK"} \cup Swaps -> Mclks \cup Bits]
  /\ \A k \in {"MCLK"} \cup Swaps : sysfs[k] \in Values(k)

HistoryTyped ==
  /\ board = Off \/ board \in [image : Images, direction : Modes \cup {"none"}]
  /\ alone \in [Requests -> BOOLEAN] /\ booted \in BOOLEAN
  /\ posts \in 0 .. MaxPosts /\ failures \in 0 .. MaxFailures

Typed == StoresTyped /\ RequestsTyped /\ HistoryTyped
IInv  == Typed /\ ErasedOnlyForWrite

-----------------------------------------------------------------------------
(* Lists of commands. *)

LEMMA SwapKeys == Swaps \subseteq {"PCM_SWAP", "DSD_SWAP", "FREQ_SWAP"}
  BY SwapsAssumption

\* One command after the other, the second list after the first.
LEMMA ListsJoin ==
  ASSUME NEW s \in Lists, NEW t \in Lists
  PROVE  s \o t \in Lists
  <1>1. s \in Seq(Commands) /\ t \in Seq(Commands) /\ s \o t \in Seq(Commands)
    BY DEF Lists
  <1>2. Len(s \o t) = Len(s) + Len(t) /\ Len(s) \in Nat /\ Len(t) \in Nat
    BY <1>1
  <1>3. ASSUME NEW i \in 1 .. Len(s \o t), (s \o t)[i].op = "erase"
        PROVE  i < Len(s \o t) /\ (s \o t)[i + 1].op = "write"
    <2>1. CASE i <= Len(s)
      <3>1. (s \o t)[i] = s[i]
        BY <1>1, <1>2, <2>1
      <3>2. i < Len(s) /\ s[i + 1].op = "write"
        BY <1>2, <1>3, <2>1, <3>1 DEF Lists
      <3>3. (s \o t)[i + 1] = s[i + 1]
        BY <1>1, <1>2, <3>2
      <3> QED
        BY <1>2, <3>2, <3>3
    <2>2. CASE i > Len(s)
      <3>1. (s \o t)[i] = t[i - Len(s)] /\ i - Len(s) \in 1 .. Len(t)
        BY <1>1, <1>2, <2>2
      <3>2. i - Len(s) < Len(t) /\ t[i - Len(s) + 1].op = "write"
        BY <1>3, <3>1 DEF Lists
      <3>3. (s \o t)[i + 1] = t[i - Len(s) + 1]
        BY <1>1, <1>2, <2>2, <3>2
      <3> QED
        BY <1>2, <3>2, <3>3
    <2> QED
      BY <1>2, <2>1, <2>2
  <1> QED
    BY <1>1, <1>3 DEF Lists

\* What is left after the head.
LEMMA ListsTail ==
  ASSUME NEW s \in Lists, s # <<>>
  PROVE  /\ Tail(s) \in Lists /\ Head(s) \in Commands
         /\ Len(Tail(s)) = Len(s) - 1 /\ Len(s) \in Nat /\ Head(s) = s[1]
         /\ \A i \in 1 .. Len(s) - 1 : Tail(s)[i] = s[i + 1]
         /\ Head(s).op = "erase" =>
              \E i \in DOMAIN Tail(s) : Tail(s)[i].op = "write"
  <1>1. /\ s \in Seq(Commands) /\ Tail(s) \in Seq(Commands)
        /\ Head(s) \in Commands /\ Head(s) = s[1]
        /\ Len(Tail(s)) = Len(s) - 1 /\ Len(s) \in Nat /\ Len(s) > 0
        /\ \A i \in 1 .. Len(s) - 1 : Tail(s)[i] = s[i + 1]
    BY DEF Lists
  <1>2. ASSUME NEW i \in 1 .. Len(Tail(s)), Tail(s)[i].op = "erase"
        PROVE  i < Len(Tail(s)) /\ Tail(s)[i + 1].op = "write"
    <2>1. s[i + 1].op = "erase" /\ i + 1 \in 1 .. Len(s)
      BY <1>1, <1>2
    <2>2. i + 1 < Len(s) /\ s[i + 1 + 1].op = "write"
      BY <2>1 DEF Lists
    <2> QED
      BY <1>1, <2>2
  <1>3. ASSUME Head(s).op = "erase"
        PROVE  \E i \in DOMAIN Tail(s) : Tail(s)[i].op = "write"
    <2>1. 1 < Len(s) /\ s[1 + 1].op = "write"
      BY <1>1, <1>3 DEF Lists
    <2>2. 1 \in DOMAIN Tail(s) /\ Tail(s)[1].op = "write"
      BY <1>1, <2>1
    <2> QED
      BY <2>2
  <1> QED
    BY <1>1, <1>2, <1>3 DEF Lists

\* Up to three commands of which none is an erase.
Harmless == {c \in Commands : c.op # "erase"}

LEMMA ListsShort ==
  ASSUME NEW a \in Harmless, NEW b \in Harmless, NEW c \in Harmless
  PROVE  <<a>> \in Lists /\ <<a, b>> \in Lists /\ <<a, b, c>> \in Lists
  <1>1. <<a>> \in Lists
    BY DEF Lists, Harmless
  <1>2. <<a, b>> \in Lists
    BY DEF Lists, Harmless
  <1>3. <<a, b, c>> \in Lists
    BY DEF Lists, Harmless
  <1> QED
    BY <1>1, <1>2, <1>3

LEMMA ListsEmpty == <<>> \in Lists
  BY DEF Lists

\* The commands of the scripts, and the pair that writes a device tree.
LEMMA CommandsMade ==
  /\ \A m \in Modes : Cmd("s94", "", m) \in Commands
  /\ \A m \in Submodes : Cmd("ln", "", m) \in Commands
  /\ \A m \in Mclks : Cmd("mclk", "", m) \in Commands
  /\ \A m \in Images : Cmd("write", "", m) \in Commands
  /\ Cmd("rm", "", "") \in Commands /\ Cmd("erase", "", "") \in Commands
  <1> USE DEF Commands, CommandOK, Cmd, Ops, Vals
  <1>1. \A m \in Modes : Cmd("s94", "", m) \in Commands
    OBVIOUS
  <1>2. \A m \in Submodes : Cmd("ln", "", m) \in Commands
    OBVIOUS
  <1>3. \A m \in Mclks : Cmd("mclk", "", m) \in Commands
    OBVIOUS
  <1>4. \A m \in Images : Cmd("write", "", m) \in Commands
    OBVIOUS
  <1>5. Cmd("rm", "", "") \in Commands /\ Cmd("erase", "", "") \in Commands
    OBVIOUS
  <1> QED
    BY <1>1, <1>2, <1>3, <1>4, <1>5

\* The commands that change a key.
LEMMA KeyCommandsMade ==
  ASSUME NEW k \in Keys, NEW v \in Values(k)
  PROVE  /\ Sed(k, v) \in Commands /\ SedAny(k, v) \in Commands
         /\ Cmd("php", k, v) \in Commands
         /\ k \in {"MCLK"} \cup Swaps => Cmd("sysfs", k, v) \in Commands
         /\ k \in Swaps => Cmd("s01", k, v) \in Commands
  <1>1. v \in Vals
    BY SwapKeys DEF Keys, Values, Vals, Bits
  <1>2. k \in Swaps => v \in Bits
    BY SwapKeys DEF Values, Bits
  <1> QED
    BY <1>1, <1>2 DEF Sed, SedAny, Commands, CommandOK, Cmd, Ops

LEMMA TreeLists == \A m \in Images : WriteTree(m) \in Lists
  <1> SUFFICES ASSUME NEW m \in Images PROVE WriteTree(m) \in Lists
    OBVIOUS
  <1> DEFINE e == Cmd("erase", "", "")
             w == Cmd("write", "", m)
  <1>1. e \in Commands /\ w \in Commands /\ e.op = "erase" /\ w.op = "write"
    BY CommandsMade DEF Cmd
  <1> HIDE DEF e, w
  <1>2. <<e, w>> \in Lists
    BY <1>1 DEF Lists
  <1> QED
    BY <1>2 DEF WriteTree, e, w

\* Scripts and forms.
LEMMA ScriptLists ==
  /\ \A m \in Modes : ModeScript(m) \in Lists
  /\ \A m \in Submodes : SubmodeScript(m) \in Lists
  /\ \A m \in Mclks, x \in Modes \cup {Missing} : MclkScript(m, x) \in Lists
  <1>1. /\ \A m \in Modes : Cmd("s94", "", m) \in Harmless /\ Sed("MODE", m) \in Harmless
        /\ \A m \in Mclks : /\ Sed("MCLK", m) \in Harmless
                            /\ SedAny("MCLK", m) \in Harmless
                            /\ Cmd("sysfs", "MCLK", m) \in Harmless
        /\ \A m \in Submodes : /\ Cmd("ln", "", m) \in Harmless
                               /\ SedAny("SUBMODE", m) \in Harmless
        /\ Cmd("rm", "", "") \in Harmless
    <2>1. /\ "MODE" \in Keys /\ "MCLK" \in Keys /\ "SUBMODE" \in Keys
          /\ Values("MODE") = Modes /\ Values("MCLK") = Mclks
          /\ Values("SUBMODE") = Submodes
      BY DEF Keys, Values
    <2>2. \A op, k, v : op # "erase" => Cmd(op, k, v).op # "erase"
      BY DEF Cmd
    <2> QED
      BY <2>1, <2>2, CommandsMade, KeyCommandsMade DEF Sed, SedAny, Harmless
  <1>4. \A m \in Images : WriteTree(m) \in Lists
    BY TreeLists
  <1>5. \A m \in Modes : ModeScript(m) \in Lists
    <2>1. \A i \in Images, x \in Modes :
            <<Cmd("s94", "", x), Sed("MODE", x)>> \o WriteTree(i) \in Lists
      BY <1>1, <1>4, ListsShort, ListsJoin
    <2>2. \A i \in Images, x \in Modes, n \in Mclks :
            <<Cmd("s94", "", x), Sed("MODE", x), Sed("MCLK", n)>> \o WriteTree(i)
              \in Lists
      BY <1>1, <1>4, ListsShort, ListsJoin
    <2> QED
      BY <2>1, <2>2 DEF ModeScript, Modes, Mclks, Images
  <1>6. \A m \in Submodes : SubmodeScript(m) \in Lists
    BY <1>1, ListsShort DEF SubmodeScript
  <1>7. ASSUME NEW m \in Mclks, NEW x \in Modes \cup {Missing}
        PROVE  MclkScript(m, x) \in Lists
    <2>1. CASE x = "pll"
      BY <1>1, <2>1, ListsShort DEF MclkScript
    <2>2. CASE x # "pll"
      <3> DEFINE a == <<Cmd("s94", "", "ext")>>
                 b == IF m = "512" THEN <<Sed("MODE", "ext")>> ELSE <<>>
                 c == <<Sed("MCLK", m)>>
                 i == IF m = "512" THEN "512_ext" ELSE "1024_ext"
                 d == WriteTree(i)
      <3>1. a \in Lists /\ b \in Lists /\ c \in Lists
        BY <1>1, ListsShort, ListsEmpty DEF Modes
      <3>2. i \in Images
        BY DEF Images
      <3>3. d \in Lists
        BY <1>4, <3>2
      <3>4. MclkScript(m, x) = a \o b \o c \o d
        BY <2>2 DEF MclkScript
      <3> HIDE DEF a, b, c, d
      <3> QED
        BY <3>1, <3>3, <3>4, ListsJoin
    <2> QED
      BY <2>1, <2>2
  <1> QED
    BY <1>5, <1>6, <1>7

LEMMA FormLists == \A f \in Forms : CommandsOf(f) \in Lists
  <1> SUFFICES ASSUME NEW f \in Forms PROVE CommandsOf(f) \in Lists
    OBVIOUS
  <1>1. DOMAIN f \subseteq Keys /\ \A k \in DOMAIN f : f[k] \in Values(k)
    BY FormsAssumption
  <1>2. ASSUME NEW k \in {"PCM_SWAP", "DSD_SWAP", "FREQ_SWAP"}
        PROVE  SwapCommands(f, k) \in Lists
    <2>1. CASE k \in DOMAIN f
      <3>1. k \in Swaps /\ k \in Keys /\ f[k] \in Values(k)
        BY <1>1, <2>1 DEF Keys
      <3> DEFINE a == Cmd("sysfs", k, f[k])
                 b == Cmd("php", k, f[k])
                 c == Cmd("s01", k, f[k])
      <3>2. a \in Commands /\ b \in Commands /\ c \in Commands
        BY <3>1, KeyCommandsMade
      <3>3. a \in Harmless /\ b \in Harmless /\ c \in Harmless
        BY <3>2 DEF Cmd, Harmless
      <3>4. SwapCommands(f, k) =
              <<a, b>> \o (IF k = "FREQ_SWAP" THEN <<>> ELSE <<c>>)
        BY <2>1 DEF SwapCommands, Field
      <3> HIDE DEF a, b, c
      <3>5. <<a, b>> \in Lists /\ <<c>> \in Lists
        BY <3>3, ListsShort
      <3> QED
        BY <3>4, <3>5, ListsJoin, ListsEmpty
    <2>2. CASE k \notin DOMAIN f
      BY <2>2, ListsEmpty DEF SwapCommands, Field
    <2> QED
      BY <2>1, <2>2
  <1>3. Field(f, "MODE", ModeScript(f["MODE"])) \in Lists
    BY <1>1, ScriptLists, ListsEmpty DEF Field, Values
  <1>4. Field(f, "SUBMODE", SubmodeScript(f["SUBMODE"])) \in Lists
    BY <1>1, ScriptLists, ListsEmpty DEF Field, Values
  <1>5. Field(f, "MCLK", <<Cmd("mclk", "", f["MCLK"])>>) \in Lists
    <2>1. CASE "MCLK" \in DOMAIN f
      <3>1. Cmd("mclk", "", f["MCLK"]) \in Commands
        BY <1>1, <2>1, CommandsMade DEF Values
      <3>2. Cmd("mclk", "", f["MCLK"]) \in Harmless
        BY <3>1 DEF Cmd, Harmless
      <3> QED
        BY <2>1, <3>2, ListsShort DEF Field
    <2>2. CASE "MCLK" \notin DOMAIN f
      BY <2>2, ListsEmpty DEF Field
    <2> QED
      BY <2>1, <2>2
  <1> QED
    BY <1>2, <1>3, <1>4, <1>5, ListsJoin DEF CommandsOf

\* A list in which a write is left.
HasWrite(s) == \E i \in DOMAIN s : s[i].op = "write"

LEMMA TailHasWrite ==
  ASSUME NEW s \in Lists, s # <<>>, Head(s).op # "write", HasWrite(s)
  PROVE  HasWrite(Tail(s))
  <1>1. s \in Seq(Commands) /\ Tail(s) \in Seq(Commands)
    BY ListsTail DEF Lists
  <1>2. PICK i \in 1 .. Len(s) : s[i].op = "write"
    BY <1>1 DEF HasWrite
  <1>3. i # 1 /\ Len(s) \in Nat
    BY <1>2, ListsTail
  <1>4. i - 1 \in 1 .. Len(Tail(s)) /\ Tail(s)[i - 1] = s[i - 1 + 1]
    BY <1>3, ListsTail
  <1>5. i - 1 \in DOMAIN Tail(s) /\ Tail(s)[i - 1].op = "write"
    BY <1>1, <1>2, <1>3, <1>4
  <1> QED
    BY <1>5 DEF HasWrite

LEMMA JoinHasWrite ==
  ASSUME NEW s \in Lists, NEW t \in Lists, HasWrite(t)
  PROVE  HasWrite(s \o t)
  <1>1. s \in Seq(Commands) /\ t \in Seq(Commands)
    BY DEF Lists
  <1>2. PICK i \in 1 .. Len(t) : t[i].op = "write"
    BY <1>1 DEF HasWrite
  <1>3. Len(s) + i \in DOMAIN (s \o t) /\ (s \o t)[Len(s) + i] = t[i]
    BY <1>1
  <1> QED
    BY <1>2, <1>3 DEF HasWrite

-----------------------------------------------------------------------------
(* Texts and what the boot makes of them. *)

LEMMA TextChanged ==
  ASSUME NEW t \in Texts, NEW k \in Keys, NEW v \in Values(k) \cup {Missing}
  PROVE  [t EXCEPT ![k] = v] \in Texts
  <1> DEFINE U == {Missing} \cup UNION {Values(x) : x \in Keys}
             s == [t EXCEPT ![k] = v]
  <1>1. v \in U
    <2>1. Values(k) \in {Values(x) : x \in Keys}
      OBVIOUS
    <2>2. Values(k) \subseteq UNION {Values(x) : x \in Keys}
      BY <2>1
    <2> QED
      BY <2>2
  <1>2. t \in [Keys -> U] /\ \A x \in Keys : t[x] \in Values(x) \cup {Missing}
    BY DEF Texts
  <1> HIDE DEF U
  <1>3. s \in [Keys -> U]
    BY <1>1, <1>2
  <1>4. \A x \in Keys : s[x] \in Values(x) \cup {Missing}
    BY <1>2
  <1> HIDE DEF s
  <1>5. s \in {x \in [Keys -> U] : \A y \in Keys : x[y] \in Values(y) \cup {Missing}}
    BY <1>3, <1>4
  <1> QED
    BY <1>5 DEF Texts, U, s

LEMMA TextsMixed ==
  ASSUME NEW s \in Texts, NEW t \in Texts
  PROVE  [k \in Keys |-> IF s[k] # Missing THEN s[k] ELSE t[k]] \in Texts
  BY DEF Texts

LEMMA EmptyText == Empty \in Texts
  <1>1. \A x \in Keys : Empty[x] \in Values(x) \cup {Missing}
    BY DEF Empty
  <1> DEFINE U == {Missing} \cup UNION {Values(x) : x \in Keys}
  <1>2. Missing \in U
    OBVIOUS
  <1> HIDE DEF U
  <1>3. Empty \in [Keys -> U]
    BY <1>2 DEF Empty
  <1> QED
    BY <1>1, <1>3 DEF Texts, U

LEMMA BootTyped ==
  ASSUME NEW t \in Texts, NEW s \in Scripts
  PROVE  /\ SysfsAtBoot(t, s) \in [{"MCLK"} \cup Swaps -> Mclks \cup Bits]
         /\ \A k \in {"MCLK"} \cup Swaps : SysfsAtBoot(t, s)[k] \in Values(k)
  <1>1. ASSUME NEW k \in {"MCLK"} \cup Swaps
        PROVE  SysfsAtBoot(t, s)[k] \in Values(k)
    <2>1. t[k] \in Values(k) \cup {Missing}
      BY DEF Texts, Keys
    <2>2. CASE k = "MCLK"
      BY <2>2, SwapKeys DEF SysfsAtBoot, Multiplier, Values, Mclks
    <2>3. CASE k # "MCLK"
      <3>1. Values(k) = Bits /\ Default(k) \in Bits
        BY <2>3, SwapKeys DEF Values, Bits, Default
      <3> QED
        BY <2>1, <2>3, <3>1 DEF SysfsAtBoot, Bits
    <2> QED
      BY <2>2, <2>3
  <1>2. \A k \in {"MCLK"} \cup Swaps : Values(k) \subseteq Mclks \cup Bits
    BY SwapKeys DEF Values, Bits
  <1> QED
    BY <1>1, <1>2 DEF SysfsAtBoot

LEMMA InitIInv == Init => IInv
  <1> SUFFICES ASSUME Init PROVE IInv
    OBVIOUS
  <1>1. Shipped \in Texts
    <2>1. \A k \in Keys : Shipped[k] \in Values(k)
      BY SwapKeys DEF Shipped, Keys, Values, Modes, Mclks, Submodes, Default
    <2> QED
      BY <2>1 DEF Shipped, Texts
  <1>2. StoresTyped
    <2>1. "shipped" \in Scripts
      BY DEF Scripts
    <2> QED
      BY <1>1, <2>1, BootTyped DEF Init, StoresTyped, Submodes, Images
  <1>3. RequestsTyped
    BY EmptyText, ListsEmpty DEF Init, RequestsTyped, Scripts
  <1>4. HistoryTyped
    <2>1. board \in [image : Images, direction : Modes \cup {"none"}]
      BY DEF Init, Images, Modes
    <2>2. /\ alone \in [Requests -> BOOLEAN] /\ booted \in BOOLEAN
          /\ posts = 0 /\ failures = 0
      BY DEF Init
    <2> QED
      BY <2>1, <2>2, BoundsAssumption DEF HistoryTyped
  <1>5. flash # "blank"
    BY DEF Init
  <1> QED
    BY <1>2, <1>3, <1>4, <1>5 DEF IInv, Typed, ErasedOnlyForWrite

-----------------------------------------------------------------------------
(* Steps of a request. *)

LEMMA AdvanceTyped ==
  ASSUME Typed, NEW r \in Requests, ~Idle(r), NEW rest \in Lists,
         Advance(r, rest), opened' \subseteq opened \ {r}
  PROVE  RequestsTyped' /\ HistoryTyped'
  <1>1. HistoryTyped'
    BY DEF Advance, Typed, HistoryTyped, bounds
  <1>2. /\ todo' = [todo EXCEPT ![r] = rest] /\ at' = [at EXCEPT ![r] = 0]
        /\ text' = [text EXCEPT ![r] = Empty]
        /\ script' = [script EXCEPT ![r] = "empty"]
    BY DEF Advance
  <1>3. "empty" \in Scripts
    BY DEF Scripts
  <1>4. RequestsTyped'
    BY <1>2, <1>3, EmptyText DEF Typed, RequestsTyped, Idle
  <1> QED
    BY <1>1, <1>4

LEMMA WithinTyped ==
  ASSUME Typed, NEW r \in Requests, ~Idle(r), at[r] \in {0, 1}, Within(r),
         text' \in [Requests -> Texts], script' \in [Requests -> Scripts],
         \/ opened' = opened
         \/ opened' = opened \cup {r} /\ at[r] = 1 /\ Head(todo[r]).op = "php"
  PROVE  RequestsTyped' /\ HistoryTyped'
  <1>1. HistoryTyped'
    BY DEF Within, Typed, HistoryTyped, bounds, history
  <1>2. todo' = todo /\ at' = [at EXCEPT ![r] = at[r] + 1]
    BY DEF Within
  <1>3. r \notin opened
    BY DEF Typed, RequestsTyped
  <1>4. RequestsTyped'
    BY <1>2, <1>3 DEF Typed, RequestsTyped, Idle
  <1> QED
    BY <1>1, <1>4

\* A command that leaves flash alone is no write; what is left has a write if
\* the list had one.
LEMMA AdvanceErased ==
  ASSUME IInv, NEW r \in Requests, ~Idle(r), NEW rest, Advance(r, rest),
         flash' = flash, Head(todo[r]).op # "write",
         HasWrite(Tail(todo[r])) => HasWrite(rest)
  PROVE  ErasedOnlyForWrite'
  <1> SUFFICES ASSUME On, flash = "blank"
               PROVE  \E q \in Requests : HasWrite(todo'[q])
    BY DEF ErasedOnlyForWrite, HasWrite, On, Advance
  <1>1. PICK q \in Requests : HasWrite(todo[q])
    BY DEF IInv, ErasedOnlyForWrite, HasWrite
  <1>2. todo \in [Requests -> Lists] /\ todo' = [todo EXCEPT ![r] = rest]
    BY DEF IInv, Typed, RequestsTyped, Advance
  <1>3. CASE q = r
    <2>1. HasWrite(Tail(todo[r]))
      BY <1>1, <1>2, <1>3, TailHasWrite DEF Idle
    <2> QED
      BY <1>2, <2>1
  <1>4. CASE q # r
    BY <1>1, <1>2, <1>4
  <1> QED
    BY <1>3, <1>4

LEMMA UnmovedErased ==
  ASSUME IInv, flash' = flash, todo' = todo, board' = board
  PROVE  ErasedOnlyForWrite'
  BY DEF IInv, ErasedOnlyForWrite, On

\* One step of a request.
LEMMA RequestKeeps ==
  ASSUME IInv, NEW r \in Requests, RequestStep(r)
  PROVE  IInv'
  <1> DEFINE c    == Head(todo[r])
             rest == Tail(todo[r])
  <1>1. ~Idle(r) /\ todo[r] \in Lists /\ todo[r] # <<>>
    BY DEF
       RequestStep, S94Sed, RemoveLink, MakeLink, WriteSysfs, flash_erase,
       nandwrite, ChooseMclkScript, SedReads, SedRenames, PhpReads,
       PhpTruncates, PhpWrites, InitReads, InitTruncates, InitWrites, At,
       Idle, IInv, Typed, RequestsTyped
  <1>2. c \in Commands /\ rest \in Lists /\ CommandOK(c)
    BY <1>1, ListsTail DEF Commands
  <1>3. /\ StoresTyped /\ text \in [Requests -> Texts]
        /\ script \in [Requests -> Scripts] /\ at \in [Requests -> 0 .. 2]
        /\ opened \subseteq Requests /\ Typed
    BY DEF IInv, Typed, RequestsTyped
  <1>4. r \in opened => at[r] = 2 /\ c.op = "php"
    BY DEF IInv, Typed, RequestsTyped
  <1> HIDE DEF c, rest
  <1>5. CASE S94Sed(r) \/ RemoveLink(r) \/ MakeLink(r) \/ WriteSysfs(r)
    <2>1. /\ c.op \in {"s94", "rm", "ln", "sysfs"} /\ at[r] = 0
          /\ Advance(r, rest) /\ opened' = opened /\ flash' = flash
      BY <1>5 DEF S94Sed, RemoveLink, MakeLink, WriteSysfs, At, c, rest
    <2>2. StoresTyped'
      <3>1. CASE S94Sed(r)
        <4>1. c.val \in Modes
          BY <1>2, <3>1 DEF S94Sed, At, CommandOK, c
        <4> QED
          BY <1>3, <3>1, <4>1 DEF S94Sed, StoresTyped, Modes, c
      <3>2. CASE RemoveLink(r)
        BY <1>3, <3>2 DEF RemoveLink, StoresTyped
      <3>3. CASE MakeLink(r)
        <4>1. c.val \in Submodes
          BY <1>2, <3>3 DEF MakeLink, At, CommandOK, c
        <4> QED
          BY <1>3, <3>3, <4>1 DEF MakeLink, StoresTyped, c
      <3>4. CASE WriteSysfs(r)
        <4>1. c.key \in {"MCLK"} \cup Swaps /\ c.val \in Values(c.key)
          BY <1>2, <3>4 DEF WriteSysfs, At, CommandOK, c
        <4>2. c.val \in Mclks \cup Bits
          BY <4>1, SwapKeys DEF Values, Bits
        <4>3. sysfs' = [sysfs EXCEPT ![c.key] = c.val]
          BY <3>4 DEF WriteSysfs, c
        <4>4. /\ sysfs' \in [{"MCLK"} \cup Swaps -> Mclks \cup Bits]
              /\ \A k \in {"MCLK"} \cup Swaps : sysfs'[k] \in Values(k)
          BY <1>3, <4>1, <4>2, <4>3 DEF StoresTyped
        <4> QED
          BY <1>3, <3>4, <4>4 DEF WriteSysfs, StoresTyped
      <3> QED
        BY <1>5, <3>1, <3>2, <3>3, <3>4
    <2>3. RequestsTyped' /\ HistoryTyped'
      BY <1>1, <1>2, <1>3, <1>4, <2>1, AdvanceTyped
    <2>4. ErasedOnlyForWrite'
      BY <1>1, <2>1, AdvanceErased DEF c, rest
    <2> QED
      BY <2>2, <2>3, <2>4 DEF IInv, Typed
  <1>6. CASE flash_erase(r)
    <2>1. /\ c.op = "erase" /\ at[r] = 0 /\ Advance(r, rest)
          /\ opened' = opened /\ flash' = "blank"
      BY <1>6 DEF flash_erase, At, c, rest
    <2>2. StoresTyped'
      BY <1>3, <1>6 DEF flash_erase, StoresTyped
    <2>3. RequestsTyped' /\ HistoryTyped'
      BY <1>1, <1>2, <1>3, <1>4, <2>1, AdvanceTyped
    <2>4. HasWrite(todo'[r])
      <3>1. HasWrite(rest)
        BY <1>1, <2>1, ListsTail DEF HasWrite, c, rest
      <3>2. todo' = [todo EXCEPT ![r] = rest]
        BY <2>1 DEF Advance
      <3> QED
        BY <3>1, <3>2 DEF IInv, Typed, RequestsTyped
    <2>5. ErasedOnlyForWrite'
      BY <2>4 DEF ErasedOnlyForWrite, HasWrite
    <2> QED
      BY <2>2, <2>3, <2>5 DEF IInv, Typed
  <1>7. CASE nandwrite(r)
    <2>1. /\ c.op = "write" /\ at[r] = 0 /\ Advance(r, rest)
          /\ opened' = opened /\ c.val \in Images
          /\ flash' \in {c.val, "corrupt"}
      BY <1>2, <1>7 DEF nandwrite, At, CommandOK, c, rest
    <2>2. StoresTyped' /\ flash' # "blank"
      BY <1>3, <1>7, <2>1 DEF nandwrite, StoresTyped, Images
    <2>3. RequestsTyped' /\ HistoryTyped'
      BY <1>1, <1>2, <1>3, <1>4, <2>1, AdvanceTyped
    <2> QED
      BY <2>2, <2>3 DEF IInv, Typed, ErasedOnlyForWrite
  <1>8. CASE ChooseMclkScript(r)
    <2> DEFINE s == MclkScript(c.val, conf["MODE"])
    <2>1. /\ c.op = "mclk" /\ at[r] = 0 /\ Advance(r, s \o rest)
          /\ UNCHANGED <<stores, opened>>
      BY <1>8 DEF ChooseMclkScript, At, c, rest
    <2>2. s \in Lists
      <3>1. c.val \in Mclks
        BY <1>2, <2>1 DEF CommandOK
      <3>2. conf["MODE"] \in Modes \cup {Missing}
        BY <1>3 DEF StoresTyped, Texts, Keys, Values
      <3> QED
        BY <3>1, <3>2, ScriptLists
    <2> HIDE DEF s
    <2>3. s \o rest \in Lists /\ (HasWrite(rest) => HasWrite(s \o rest))
      BY <1>2, <2>2, ListsJoin, JoinHasWrite
    <2>4. StoresTyped'
      BY <1>3, <2>1 DEF StoresTyped, stores
    <2>5. RequestsTyped' /\ HistoryTyped'
      BY <1>1, <1>3, <1>4, <2>1, <2>3, AdvanceTyped
    <2>6. ErasedOnlyForWrite'
      BY <1>1, <2>1, <2>3, AdvanceErased DEF c, rest, stores
    <2> QED
      BY <2>4, <2>5, <2>6 DEF IInv, Typed
  <1>9. CASE SedReads(r) \/ PhpReads(r) \/ InitReads(r)
    <2>1. /\ at[r] = 0 /\ Within(r) /\ opened' = opened /\ UNCHANGED stores
      BY <1>9 DEF SedReads, PhpReads, InitReads, At
    <2>2. text' \in [Requests -> Texts] /\ script' \in [Requests -> Scripts]
      <3>1. CASE SedReads(r) \/ PhpReads(r)
        <4>1. c.key \in Keys /\ c.val \in Values(c.key) \cup {Missing}
          BY <1>2, <3>1 DEF SedReads, PhpReads, At, CommandOK, c
        <4>2. conf \in Texts /\ script' = script
          BY <1>3, <3>1 DEF SedReads, PhpReads, StoresTyped
        <4>3. PICK w \in Values(c.key) \cup {Missing} :
                text' = [text EXCEPT ![r] = [conf EXCEPT ![c.key] = w]]
          <5>1. CASE SedReads(r)
            <6> DEFINE w == IF conf[c.key] = Missing THEN Missing ELSE c.val
            <6>1. text' = [text EXCEPT ![r] = [conf EXCEPT ![c.key] = w]]
              BY <4>2, <5>1 DEF SedReads, c
            <6>2. w \in Values(c.key) \cup {Missing}
              BY <4>1
            <6> QED
              BY <6>1, <6>2
          <5>2. CASE PhpReads(r)
            BY <4>1, <5>2 DEF PhpReads, c
          <5> QED
            BY <3>1, <5>1, <5>2
        <4>4. [conf EXCEPT ![c.key] = w] \in Texts
          BY <4>1, <4>2, TextChanged
        <4> QED
          BY <1>3, <4>2, <4>3, <4>4
      <3>2. CASE InitReads(r)
        <4>1. c.val \in Bits
          BY <1>2, <3>2 DEF InitReads, At, CommandOK, c
        <4>2. /\ script' = [script EXCEPT ![r] =
                   IF c.key = "PCM_SWAP" /\ s01 # "empty" THEN c.val ELSE s01]
              /\ text' = text
          BY <3>2 DEF InitReads, c
        <4>3. (IF c.key = "PCM_SWAP" /\ s01 # "empty" THEN c.val ELSE s01)
                \in Scripts
          BY <1>3, <4>1 DEF StoresTyped, Scripts, Bits
        <4> QED
          BY <1>3, <4>2, <4>3
      <3> QED
        BY <1>9, <3>1, <3>2
    <2>3. RequestsTyped' /\ HistoryTyped'
      BY <1>1, <1>3, <2>1, <2>2, WithinTyped
    <2>4. StoresTyped'
      BY <1>3, <2>1 DEF StoresTyped, stores
    <2>5. ErasedOnlyForWrite'
      BY <2>1, UnmovedErased DEF Within, stores
    <2> QED
      BY <2>3, <2>4, <2>5 DEF IInv, Typed
  <1>10. CASE PhpTruncates(r) \/ InitTruncates(r)
    <2>1. /\ at[r] = 1 /\ Within(r) /\ text' = text /\ script' = script
          /\ flash' = flash
          /\ \/ opened' = opened
             \/ opened' = opened \cup {r} /\ c.op = "php"
      BY <1>10 DEF PhpTruncates, InitTruncates, At, c
    <2>2. StoresTyped'
      BY <1>3, <1>10, EmptyText DEF PhpTruncates, InitTruncates, StoresTyped, Scripts
    <2>3. RequestsTyped' /\ HistoryTyped'
      BY <1>1, <1>3, <2>1, WithinTyped DEF c
    <2>4. ErasedOnlyForWrite'
      BY <2>1, UnmovedErased DEF Within
    <2> QED
      BY <2>2, <2>3, <2>4 DEF IInv, Typed
  <1>11. CASE SedRenames(r) \/ PhpWrites(r) \/ InitWrites(r)
    <2>1. /\ c.op # "write" /\ Advance(r, rest) /\ flash' = flash
          /\ opened' \subseteq opened \ {r}
      BY <1>4, <1>11 DEF SedRenames, PhpWrites, InitWrites, At, c, rest
    <2>2. StoresTyped'
      <3>1. CASE SedRenames(r)
        BY <1>3, <3>1 DEF SedRenames, StoresTyped
      <3>2. CASE PhpWrites(r)
        <4>1. conf' \in Texts
          BY <1>3, <3>2, TextsMixed DEF PhpWrites, StoresTyped
        <4> QED
          BY <1>3, <3>2, <4>1 DEF PhpWrites, StoresTyped
      <3>3. CASE InitWrites(r)
        BY <1>3, <3>3 DEF InitWrites, StoresTyped
      <3> QED
        BY <1>11, <3>1, <3>2, <3>3
    <2>3. RequestsTyped' /\ HistoryTyped'
      BY <1>1, <1>2, <1>3, <2>1, AdvanceTyped
    <2>4. ErasedOnlyForWrite'
      BY <1>1, <2>1, AdvanceErased DEF c, rest
    <2> QED
      BY <2>2, <2>3, <2>4 DEF IInv, Typed
  <1> QED
    BY <1>5, <1>6, <1>7, <1>8, <1>9, <1>10, <1>11 DEF RequestStep

-----------------------------------------------------------------------------
(* The other steps, and the theorems. *)

LEMMA PostKeeps ==
  ASSUME IInv, NEW r \in Requests, Post(r)
  PROVE  IInv'
  <1>1. PICK f \in Forms : todo' = [todo EXCEPT ![r] = CommandsOf(f)]
    BY DEF Post
  <1>2. CommandsOf(f) \in Lists
    BY FormLists
  <1>3. /\ at' = at /\ text' = text /\ script' = script /\ opened' = opened
        /\ UNCHANGED <<stores, board, failures>>
        /\ todo[r] = <<>> /\ booted' = FALSE
        /\ alone' \in [Requests -> BOOLEAN]
    BY DEF Post, Idle
  <1>4. posts' \in 0 .. MaxPosts
    BY BoundsAssumption DEF Post, IInv, Typed, HistoryTyped
  <1>5. at[r] = 0 /\ r \notin opened
    BY <1>3 DEF IInv, Typed, RequestsTyped, Idle
  <1>6. RequestsTyped'
    BY <1>1, <1>2, <1>3, <1>5 DEF IInv, Typed, RequestsTyped, Idle
  <1>7. StoresTyped' /\ HistoryTyped'
    BY <1>3, <1>4 DEF IInv, Typed, StoresTyped, HistoryTyped, stores
  <1>8. ErasedOnlyForWrite'
    <2> SUFFICES ASSUME On, flash = "blank"
                 PROVE  \E q \in Requests : HasWrite(todo'[q])
      BY <1>3 DEF ErasedOnlyForWrite, HasWrite, On, stores
    <2>1. PICK q \in Requests : HasWrite(todo[q])
      BY DEF IInv, ErasedOnlyForWrite, HasWrite
    <2>2. q # r
      BY <1>3, <2>1 DEF HasWrite
    <2> QED
      BY <1>1, <2>1, <2>2 DEF IInv, Typed, RequestsTyped
  <1> QED
    BY <1>6, <1>7, <1>8 DEF IInv, Typed

LEMMA PowerKeeps ==
  ASSUME IInv, PowerFails \/ Boot
  PROVE  IInv'
  <1>1. CASE PowerFails
    <2>1. RequestsTyped'
      BY <1>1, EmptyText, ListsEmpty DEF PowerFails, RequestsTyped, Scripts
    <2>2. failures' \in 0 .. MaxFailures
      BY <1>1, BoundsAssumption DEF PowerFails, IInv, Typed, HistoryTyped
    <2>3. StoresTyped' /\ HistoryTyped' /\ ~On'
      BY <1>1, <2>2 DEF PowerFails, On, IInv, Typed, StoresTyped, HistoryTyped, stores, history
    <2> QED
      BY <2>1, <2>3 DEF IInv, Typed, ErasedOnlyForWrite
  <1>2. CASE Boot
    <2>1. Direction(conf) \in Modes \cup {"none"}
      BY DEF Direction, IInv, Typed, StoresTyped, Texts, Keys, Values, Modes
    <2>2. HistoryTyped'
      BY <1>2, <2>1 DEF Boot, IInv, Typed, HistoryTyped, bounds
    <2>3. /\ sysfs' \in [{"MCLK"} \cup Swaps -> Mclks \cup Bits]
          /\ \A k \in {"MCLK"} \cup Swaps : sysfs'[k] \in Values(k)
      BY <1>2, BootTyped DEF Boot, IInv, Typed, StoresTyped
    <2>4. StoresTyped' /\ flash' # "blank"
      BY <1>2, <2>3 DEF Boot, IInv, Typed, StoresTyped, Images
    <2>5. RequestsTyped'
      BY <1>2 DEF Boot, IInv, Typed, RequestsTyped, control, Idle
    <2> QED
      BY <2>2, <2>4, <2>5 DEF IInv, Typed, ErasedOnlyForWrite
  <1> QED
    BY <1>1, <1>2

LEMMA StutterKeeps == ASSUME IInv, UNCHANGED vars PROVE IInv'
  BY DEF vars, stores, control, bounds, history, IInv, Typed, StoresTyped,
         RequestsTyped, HistoryTyped, ErasedOnlyForWrite, Idle, On

\* The inductive invariant of the settings.
THEOREM ConfigInvHolds == Spec => []IInv
  <1>1. IInv /\ [Next]_vars => IInv'
    BY RequestKeeps, PostKeeps, PowerKeeps, StutterKeeps DEF Next
  <1> QED
    BY InitIInv, <1>1, PTL DEF Spec

\* Types, for any forms, swap settings, requests, posts and failures: what a
\* request has read is a text, and every attribute has one of its values.
THEOREM ConfigTypeCorrect == Spec => []TypeOK
  <1>1. IInv => TypeOK
    BY DEF IInv, Typed, StoresTyped, RequestsTyped, HistoryTyped, TypeOK
  <1> QED
    BY ConfigInvHolds, <1>1, PTL

\* No order of requests leaves the device tree of a running board erased.
THEOREM ErasedTreeIsWritten == Spec => []ErasedOnlyForWrite
  BY ConfigInvHolds, PTL DEF IInv

-----------------------------------------------------------------------------
(* Lone requests: that every place comes to agree. *)

\* The places that a form is about: keys of i2s.conf, the link, the direction
\* in S94ioi2s, the device tree, the swap in S01RkLunch, the driver's
\* attributes for the swaps and the multiplier ("mclk").
Attributes == {"pcm_swap", "dsd_swap", "freq_swap"}
Places == Keys \cup {"link", "s94", "flash", "s01", "mclk"} \cup Attributes

SwapOf(p) ==
  CASE p = "pcm_swap" -> "PCM_SWAP"
    [] p = "dsd_swap" -> "DSD_SWAP"
    [] OTHER          -> "FREQ_SWAP"

\* What a form wants in a place, if it is about it.  Whether it wants the
\* multiplier at once depends on the mode.
Wants(f, p) ==
  \/ p \in DOMAIN f
  \/ p = "link" /\ "SUBMODE" \in DOMAIN f
  \/ p = "s94" /\ "MODE" \in DOMAIN f
  \/ p = "flash" /\ {"MODE", "MCLK"} \subseteq DOMAIN f
  \/ p = "s01" /\ "PCM_SWAP" \in DOMAIN f
  \/ p \in Attributes /\ SwapOf(p) \in DOMAIN f

Want(f, p) ==
  CASE p = "link"  -> f["SUBMODE"]
    [] p = "s94"   -> f["MODE"]
    [] p = "flash" -> TreeOf(f["MODE"], f["MCLK"])
    [] p = "s01"   -> f["PCM_SWAP"]
    [] p = "mclk"  -> f["MCLK"]
    [] p \in Attributes -> f[SwapOf(p)]
    [] OTHER       -> f[p]

\* The places that a command will have changed when it is done, the script for
\* MCLK included: called in ext mode, it sets direction and device tree too.
Sets(c, f, p) ==
  \/ p = c.key /\ c.op \in {"sed", "sedany", "php"}
  \/ p = "MCLK" /\ c.op = "mclk"
  \/ p = "link" /\ c.op \in {"rm", "ln"}
  \/ p = "s94" /\ c.op = "s94"
  \/ p = "flash" /\ c.op \in {"erase", "write"}
  \/ p \in {"s94", "flash"} /\ c.op = "mclk" /\ f["MODE"] = "ext"
  \/ p = "s01" /\ c.op = "s01" /\ c.key = "PCM_SWAP"
  \/ p = "mclk" /\ (c.op = "mclk" \/ (c.op = "sysfs" /\ c.key = "MCLK"))
  \/ p \in Attributes /\ c.op = "sysfs" /\ c.key = SwapOf(p)

Value(c, p) ==
  CASE c.op \in {"rm", "erase"}     -> ""
    [] c.op = "mclk" /\ p = "s94"   -> "ext"
    [] c.op = "mclk" /\ p = "flash" -> TreeOf("ext", c.val)
    [] OTHER                        -> c.val

\* The last command of s that sets p gives it the wanted value.
LastGives(s, f, p) ==
  \E i \in 1 .. Len(s) :
    /\ Sets(s[i], f, p) /\ Value(s[i], p) = Want(f, p)
    /\ \A j \in (i + 1) .. Len(s) : ~Sets(s[j], f, p)

NoneSets(s, f, p) == \A i \in 1 .. Len(s) : ~Sets(s[i], f, p)

\* The texts that i2s.conf and S01RkLunch have when the command in progress is
\* done.
Rewriting(r) == at[r] # 0 /\ Head(todo[r]).op \in {"sed", "sedany", "php"}
Now(r) == IF Rewriting(r) THEN text[r] ELSE conf

Scripting(r) == at[r] # 0 /\ Head(todo[r]).op = "s01"
Script(r) == IF Scripting(r) THEN script[r] ELSE s01

Is(r, p) ==
  CASE p = "link"  -> link
    [] p = "s94"   -> s94
    [] p = "flash" -> flash
    [] p = "s01"   -> Script(r)
    [] p = "mclk"  -> sysfs["MCLK"]
    [] p \in Attributes -> sysfs[SwapOf(p)]
    [] OTHER       -> Now(r)[p]

\* Each place the form is about has the wanted value, or will be given it
\* last.
Settled(r) ==
  \A p \in Places :
    Wants(form[r], p) =>
      \/ LastGives(todo[r], form[r], p)
      \/ NoneSets(todo[r], form[r], p) /\ Is(r, p) = Want(form[r], p)

\* A write finds its blocks erased and ln finds no link; nothing changes the
\* mode once the script for MCLK is to be chosen.
Follows(s) ==
  \A i \in 2 .. Len(s) :
    /\ s[i].op = "write" => s[i - 1].op = "erase"
    /\ s[i].op = "ln" => s[i - 1].op = "rm"
SetsMode(c) == c.key = "MODE" /\ c.op \in {"sed", "sedany", "php"}
MclkLast(s) ==
  \A i, j \in 1 .. Len(s) :
    i < j /\ s[i].op = "mclk" => ~SetsMode(s[j])

\* Nothing sets the mode but to ext.
OnlyExt(s) == \A i \in 1 .. Len(s) : SetsMode(s[i]) => s[i].val = "ext"

\* In pll mode the multiplier is set at once.
MclkSettled(r) ==
  "MCLK" \in DOMAIN form[r] =>
    \/ LastGives(todo[r], form[r], "mclk")
    \/ /\ NoneSets(todo[r], form[r], "mclk")
       /\ \/ sysfs["MCLK"] = form[r]["MCLK"]
          \/ Now(r)["MODE"] = "ext" /\ OnlyExt(todo[r])

Prepared(r) ==
  /\ Follows(todo[r]) /\ MclkLast(todo[r])
  /\ Head(todo[r]).op = "write" => flash = "blank"
  /\ Head(todo[r]).op = "ln" => link = "none"

\* What a request that runs alone has, still when it ends.
Finishing(r) ==
  /\ form[r] \in Forms
  /\ Script(r) # "empty" /\ Settled(r) /\ MclkSettled(r)

\* A request that runs alone on files that were whole when it began.
AloneOK(r) ==
  /\ Finishing(r) /\ Prepared(r)
  /\ \A k \in Keys : Now(r)[k] # Missing
  /\ Rewriting(r) => text[r][Head(todo[r]).key] = Head(todo[r]).val
  /\ Scripting(r) /\ Head(todo[r]).key = "PCM_SWAP" =>
       script[r] = Head(todo[r]).val
  /\ at[r] = 2 /\ Head(todo[r]).op = "php" => r \in opened

\* What a form that was applied has left for the next boot, and what runs
\* before it.
ReadyForBoot ==
  /\ DOMAIN applied \subseteq Keys
  /\ s01 # "empty"
  /\ "PCM_SWAP" \in DOMAIN applied => s01 = applied["PCM_SWAP"]
  /\ \A k \in DOMAIN applied : applied[k] \in Values(k)

LoneRequests ==
  /\ form \in [Requests -> Forms \cup {Nothing}]
  /\ \A r \in Requests : alone[r] => \A q \in Requests : q = r \/ Idle(q)
  /\ \A r \in Requests : alone[r] /\ ~Idle(r) => AloneOK(r)
  /\ applied # Nothing => ReadyForBoot /\ \A q \in Requests : Idle(q)
  /\ booted \/ ~On => \A q \in Requests : Idle(q)

-----------------------------------------------------------------------------
(* What a command sets, and what a form wants in a place. *)

LEMMA PlacesDiffer ==
  /\ Keys \subseteq Places /\ Attributes \subseteq Places
  /\ {"link", "s94", "flash", "s01", "mclk"} \subseteq Places
  /\ Keys \cap Attributes = {}
  /\ {"link", "s94", "flash", "s01", "mclk"} \cap (Keys \cup Attributes) = {}
  /\ "MODE" \in Keys /\ "MCLK" \in Keys /\ "SUBMODE" \in Keys
  /\ \A p : SwapOf(p) \in {"PCM_SWAP", "DSD_SWAP", "FREQ_SWAP"}
  <1>1. Keys \subseteq {"MODE", "MCLK", "SUBMODE", "PCM_SWAP", "DSD_SWAP", "FREQ_SWAP"}
    BY SwapKeys DEF Keys
  <1>2. {"link", "s94", "flash", "s01", "mclk"} \cap (Keys \cup Attributes) = {}
    BY <1>1 DEF Attributes
  <1>3. \A p : SwapOf(p) \in {"PCM_SWAP", "DSD_SWAP", "FREQ_SWAP"}
    BY DEF SwapOf
  <1> QED
    BY <1>1, <1>2, <1>3 DEF Places, Keys, Attributes

LEMMA CommandSets ==
  ASSUME NEW c, NEW f, NEW p \in Places
  PROVE  /\ c.op \in {"erase", "write"} => (Sets(c, f, p) <=> p = "flash")
         /\ c.op = "s94" => (Sets(c, f, p) <=> p = "s94")
         /\ c.op \in {"rm", "ln"} => (Sets(c, f, p) <=> p = "link")
         /\ c.op \in {"sed", "sedany", "php"} => (Sets(c, f, p) <=> p = c.key)
         /\ c.op = "sysfs" /\ c.key = "MCLK" => (Sets(c, f, p) <=> p = "mclk")
         /\ c.op = "sysfs" /\ c.key \in {"PCM_SWAP", "DSD_SWAP", "FREQ_SWAP"} =>
              (Sets(c, f, p) <=> p \in Attributes /\ SwapOf(p) = c.key)
         /\ c.op = "s01" => (Sets(c, f, p) <=> p = "s01" /\ c.key = "PCM_SWAP")
         /\ c.op = "mclk" =>
              (Sets(c, f, p) <=> \/ p \in {"MCLK", "mclk"}
                                 \/ p \in {"s94", "flash"} /\ f["MODE"] = "ext")
  <1>1. SwapOf(p) # "MCLK"
    BY PlacesDiffer
  <1> QED
    BY <1>1, PlacesDiffer DEF Sets

LEMMA FormWants ==
  ASSUME NEW f
  PROVE  /\ Want(f, "link") = f["SUBMODE"] /\ Want(f, "s94") = f["MODE"]
         /\ Want(f, "flash") = TreeOf(f["MODE"], f["MCLK"])
         /\ Want(f, "s01") = f["PCM_SWAP"] /\ Want(f, "mclk") = f["MCLK"]
         /\ \A p \in Attributes : Want(f, p) = f[SwapOf(p)]
         /\ \A k \in Keys : Want(f, k) = f[k]
  <1>1. \A p \in Attributes : p \notin {"link", "s94", "flash", "s01", "mclk"}
    BY PlacesDiffer
  <1>2. \A k \in Keys : k \notin {"link", "s94", "flash", "s01", "mclk"} \cup Attributes
    BY PlacesDiffer
  <1> QED
    BY <1>1, <1>2 DEF Want

Gives(c, f, p) == Sets(c, f, p) /\ Value(c, p) = Want(f, p)

LEMMA CommandGives ==
  ASSUME NEW c, NEW f
  PROVE  /\ c.op = "s94" /\ c.val = f["MODE"] => Gives(c, f, "s94")
         /\ c.op = "ln" /\ c.val = f["SUBMODE"] => Gives(c, f, "link")
         /\ c.op = "write" /\ c.val = Want(f, "flash") => Gives(c, f, "flash")
         /\ c.op = "sysfs" /\ c.key = "MCLK" /\ c.val = f["MCLK"] =>
              Gives(c, f, "mclk")
         /\ c.op = "s01" /\ c.key = "PCM_SWAP" /\ c.val = f["PCM_SWAP"] =>
              Gives(c, f, "s01")
         /\ \A k \in Keys :
              c.op \in {"sed", "sedany", "php"} /\ c.key = k /\ c.val = f[k] =>
                Gives(c, f, k)
         /\ \A p \in Attributes :
              c.op = "sysfs" /\ c.key = SwapOf(p) /\ c.val = f[SwapOf(p)] =>
                Gives(c, f, p)
  <1>1. \A p : c.op \notin {"rm", "erase", "mclk"} => Value(c, p) = c.val
    BY DEF Value
  <1>2. /\ c.op = "s94" => Sets(c, f, "s94")
        /\ c.op = "ln" => Sets(c, f, "link")
        /\ c.op = "write" => Sets(c, f, "flash")
        /\ c.op = "sysfs" /\ c.key = "MCLK" => Sets(c, f, "mclk")
        /\ c.op = "s01" /\ c.key = "PCM_SWAP" => Sets(c, f, "s01")
        /\ \A k \in Keys :
             c.op \in {"sed", "sedany", "php"} /\ c.key = k => Sets(c, f, k)
        /\ \A p \in Attributes : c.op = "sysfs" /\ c.key = SwapOf(p) => Sets(c, f, p)
    BY DEF Sets
  <1>3. /\ c.op = "s94" /\ c.val = f["MODE"] => Gives(c, f, "s94")
        /\ c.op = "ln" /\ c.val = f["SUBMODE"] => Gives(c, f, "link")
        /\ c.op = "write" /\ c.val = Want(f, "flash") => Gives(c, f, "flash")
    BY <1>1, <1>2, FormWants DEF Gives
  <1>4. /\ c.op = "sysfs" /\ c.key = "MCLK" /\ c.val = f["MCLK"] =>
              Gives(c, f, "mclk")
        /\ c.op = "s01" /\ c.key = "PCM_SWAP" /\ c.val = f["PCM_SWAP"] =>
              Gives(c, f, "s01")
    BY <1>1, <1>2, FormWants DEF Gives
  <1>5. ASSUME NEW k \in Keys, c.op \in {"sed", "sedany", "php"}, c.key = k,
               c.val = f[k]
        PROVE  Gives(c, f, k)
    BY <1>1, <1>2, <1>5, FormWants DEF Gives
  <1>6. ASSUME NEW p \in Attributes, c.op = "sysfs", c.key = SwapOf(p),
               c.val = f[SwapOf(p)]
        PROVE  Gives(c, f, p)
    BY <1>1, <1>2, <1>6, FormWants DEF Gives
  <1> QED
    BY <1>3, <1>4, <1>5, <1>6

-----------------------------------------------------------------------------
(* What lists of commands set. *)

\* Lists of up to three commands.
LEMMA ShortSets ==
  ASSUME NEW a \in Commands, NEW b \in Commands, NEW c \in Commands, NEW f, NEW p
  PROVE  /\ ~Sets(a, f, p) => NoneSets(<<a>>, f, p)
         /\ ~Sets(a, f, p) /\ ~Sets(b, f, p) => NoneSets(<<a, b>>, f, p)
         /\ ~Sets(a, f, p) /\ ~Sets(b, f, p) /\ ~Sets(c, f, p) =>
              NoneSets(<<a, b, c>>, f, p)
         /\ Gives(a, f, p) => LastGives(<<a>>, f, p)
         /\ Gives(b, f, p) => LastGives(<<a, b>>, f, p)
         /\ Gives(a, f, p) /\ ~Sets(b, f, p) => LastGives(<<a, b>>, f, p)
         /\ Gives(c, f, p) => LastGives(<<a, b, c>>, f, p)
         /\ Gives(b, f, p) /\ ~Sets(c, f, p) => LastGives(<<a, b, c>>, f, p)
         /\ Gives(a, f, p) /\ ~Sets(b, f, p) /\ ~Sets(c, f, p) =>
              LastGives(<<a, b, c>>, f, p)
         /\ NoneSets(<<>>, f, p)
  <1>1. /\ ~Sets(a, f, p) => NoneSets(<<a>>, f, p)
        /\ ~Sets(a, f, p) /\ ~Sets(b, f, p) => NoneSets(<<a, b>>, f, p)
        /\ ~Sets(a, f, p) /\ ~Sets(b, f, p) /\ ~Sets(c, f, p) =>
              NoneSets(<<a, b, c>>, f, p)
        /\ NoneSets(<<>>, f, p)
    BY DEF NoneSets
  <1>2. Gives(a, f, p) => LastGives(<<a>>, f, p)
    <2>1. Len(<<a>>) = 1 /\ <<a>>[1] = a
      OBVIOUS
    <2>2. \A j \in (1 + 1) .. 1 : FALSE
      OBVIOUS
    <2> QED
      BY <2>1, <2>2 DEF LastGives, Gives
  <1>3. /\ Gives(b, f, p) => LastGives(<<a, b>>, f, p)
        /\ Gives(a, f, p) /\ ~Sets(b, f, p) => LastGives(<<a, b>>, f, p)
    <2> DEFINE s == <<a, b>>
    <2>1. Len(s) = 2 /\ s[1] = a /\ s[2] = b
      OBVIOUS
    <2> HIDE DEF s
    <2>2. \A i \in 1 .. 2 : \A j \in (i + 1) .. 2 : j = 2 /\ i = 1
      OBVIOUS
    <2>3. 1 \in 1 .. 2 /\ 2 \in 1 .. 2
      OBVIOUS
    <2>4. Gives(b, f, p) => LastGives(s, f, p)
      BY <2>1, <2>2, <2>3 DEF LastGives, Gives
    <2>5. Gives(a, f, p) /\ ~Sets(b, f, p) => LastGives(s, f, p)
      BY <2>1, <2>2, <2>3 DEF LastGives, Gives
    <2> QED
      BY <2>4, <2>5 DEF s
  <1>4. /\ Gives(c, f, p) => LastGives(<<a, b, c>>, f, p)
        /\ Gives(b, f, p) /\ ~Sets(c, f, p) => LastGives(<<a, b, c>>, f, p)
        /\ Gives(a, f, p) /\ ~Sets(b, f, p) /\ ~Sets(c, f, p) =>
             LastGives(<<a, b, c>>, f, p)
    <2> DEFINE s == <<a, b, c>>
    <2>1. Len(s) = 3 /\ s[1] = a /\ s[2] = b /\ s[3] = c
      OBVIOUS
    <2> HIDE DEF s
    <2>2. /\ \A j \in (1 + 1) .. 3 : j = 2 \/ j = 3
          /\ \A j \in (2 + 1) .. 3 : j = 3
          /\ \A j \in (3 + 1) .. 3 : FALSE
      OBVIOUS
    <2>3. 1 \in 1 .. 3 /\ 2 \in 1 .. 3 /\ 3 \in 1 .. 3
      OBVIOUS
    <2>4. Gives(c, f, p) => LastGives(s, f, p)
      BY <2>1, <2>2, <2>3 DEF LastGives, Gives
    <2>5. Gives(b, f, p) /\ ~Sets(c, f, p) => LastGives(s, f, p)
      BY <2>1, <2>2, <2>3 DEF LastGives, Gives
    <2>6. Gives(a, f, p) /\ ~Sets(b, f, p) /\ ~Sets(c, f, p) => LastGives(s, f, p)
      BY <2>1, <2>2, <2>3 DEF LastGives, Gives
    <2> QED
      BY <2>4, <2>5, <2>6 DEF s
  <1> QED
    BY <1>1, <1>2, <1>3, <1>4

\* One list after the other.
LEMMA JoinSets ==
  ASSUME NEW s \in Lists, NEW t \in Lists, NEW f, NEW p
  PROVE  /\ NoneSets(s, f, p) /\ NoneSets(t, f, p) => NoneSets(s \o t, f, p)
         /\ LastGives(t, f, p) => LastGives(s \o t, f, p)
         /\ LastGives(s, f, p) /\ NoneSets(t, f, p) => LastGives(s \o t, f, p)
  <1>1. /\ s \in Seq(Commands) /\ t \in Seq(Commands)
        /\ Len(s) \in Nat /\ Len(t) \in Nat /\ Len(s \o t) = Len(s) + Len(t)
        /\ \A i \in 1 .. Len(s) : (s \o t)[i] = s[i]
        /\ \A i \in 1 .. Len(t) : (s \o t)[Len(s) + i] = t[i]
    BY DEF Lists
  <1> DEFINE u == s \o t
             m == Len(s)
             n == Len(t)
  <1>2. /\ m \in Nat /\ n \in Nat /\ Len(u) = m + n
        /\ \A i \in 1 .. m : u[i] = s[i] /\ i \in 1 .. m + n
        /\ \A i \in 1 .. n : u[m + i] = t[i] /\ m + i \in 1 .. m + n
    BY <1>1
  <1>3. \A i \in 1 .. m + n : i \in 1 .. m \/ (i - m \in 1 .. n /\ m + (i - m) = i)
    BY <1>2
  <1> HIDE DEF u, m, n
  <1>4. ASSUME NoneSets(s, f, p), NoneSets(t, f, p) PROVE NoneSets(u, f, p)
    BY <1>2, <1>3, <1>4 DEF NoneSets, m, n
  <1>5. ASSUME LastGives(t, f, p) PROVE LastGives(u, f, p)
    <2>1. PICK i \in 1 .. n : /\ Sets(t[i], f, p) /\ Value(t[i], p) = Want(f, p)
                              /\ \A j \in (i + 1) .. n : ~Sets(t[j], f, p)
      BY <1>5 DEF LastGives, n
    <2>2. m + i \in 1 .. Len(u) /\ u[m + i] = t[i]
      BY <1>2
    <2>3. ASSUME NEW j \in (m + i + 1) .. Len(u) PROVE ~Sets(u[j], f, p)
      <3>1. j - m \in (i + 1) .. n /\ j - m \in 1 .. n /\ m + (j - m) = j
        BY <1>2
      <3> QED
        BY <1>2, <2>1, <3>1
    <2> QED
      BY <2>1, <2>2, <2>3 DEF LastGives
  <1>6. ASSUME LastGives(s, f, p), NoneSets(t, f, p) PROVE LastGives(u, f, p)
    <2>1. PICK i \in 1 .. m : /\ Sets(s[i], f, p) /\ Value(s[i], p) = Want(f, p)
                              /\ \A j \in (i + 1) .. m : ~Sets(s[j], f, p)
      BY <1>6 DEF LastGives, m
    <2>2. i \in 1 .. Len(u) /\ u[i] = s[i]
      BY <1>2
    <2>3. ASSUME NEW j \in (i + 1) .. Len(u) PROVE ~Sets(u[j], f, p)
      <3>1. CASE j <= m
        <4>1. j \in (i + 1) .. m /\ j \in 1 .. m
          BY <1>2, <3>1
        <4> QED
          BY <1>2, <2>1, <4>1
      <3>2. CASE j > m
        <4>1. j - m \in 1 .. n /\ m + (j - m) = j
          BY <1>2, <3>2
        <4> QED
          BY <1>2, <1>6, <4>1 DEF NoneSets, n
      <3> QED
        BY <1>2, <3>1, <3>2
    <2> QED
      BY <2>1, <2>2, <2>3 DEF LastGives
  <1> QED
    BY <1>4, <1>5, <1>6 DEF u

\* What is left to be set after the head, or was set by it.
LEMMA TailSets ==
  ASSUME NEW s \in Lists, s # <<>>, NEW f, NEW p
  PROVE  /\ NoneSets(s, f, p) =>
              ~Sets(Head(s), f, p) /\ NoneSets(Tail(s), f, p)
         /\ LastGives(s, f, p) =>
              \/ LastGives(Tail(s), f, p)
              \/ Gives(Head(s), f, p) /\ NoneSets(Tail(s), f, p)
  <1> DEFINE t == Tail(s)
             n == Len(s) - 1
  <1>1. /\ n \in Nat /\ Len(t) = n /\ Len(s) = n + 1 /\ Head(s) = s[1]
        /\ \A i \in 1 .. n : t[i] = s[i + 1] /\ i + 1 \in 1 .. n + 1
    <2>1. /\ s \in Seq(Commands) /\ Len(s) > 0 /\ Len(s) \in Nat
      BY DEF Lists
    <2> QED
      BY <2>1, ListsTail
  <1> HIDE DEF t, n
  <1>2. ASSUME NoneSets(s, f, p)
        PROVE  ~Sets(Head(s), f, p) /\ NoneSets(t, f, p)
    <2>1. 1 \in 1 .. Len(s)
      BY <1>1
    <2> QED
      BY <1>1, <1>2, <2>1 DEF NoneSets
  <1>3. ASSUME LastGives(s, f, p)
        PROVE  \/ LastGives(t, f, p)
               \/ Gives(Head(s), f, p) /\ NoneSets(t, f, p)
    <2>1. PICK i \in 1 .. n + 1 :
            /\ Sets(s[i], f, p) /\ Value(s[i], p) = Want(f, p)
            /\ \A j \in (i + 1) .. n + 1 : ~Sets(s[j], f, p)
      BY <1>1, <1>3 DEF LastGives
    <2>2. CASE i = 1
      <3>1. \A j \in 1 .. n : j + 1 \in (i + 1) .. n + 1
        BY <1>1, <2>2
      <3> QED
        BY <1>1, <2>1, <2>2, <3>1 DEF Gives, NoneSets
    <2>3. CASE i # 1
      <3>1. i - 1 \in 1 .. n /\ t[i - 1] = s[i]
        BY <1>1, <2>3
      <3>2. ASSUME NEW j \in (i - 1 + 1) .. n PROVE ~Sets(t[j], f, p)
        <4>1. j + 1 \in (i + 1) .. n + 1 /\ t[j] = s[j + 1]
          BY <1>1
        <4> QED
          BY <2>1, <4>1
      <3> QED
        BY <1>1, <2>1, <3>1, <3>2 DEF LastGives
    <2> QED
      BY <2>2, <2>3
  <1> QED
    BY <1>2, <1>3 DEF t

-----------------------------------------------------------------------------
(* The order within a list. *)

\* Lists that can come after others.
Chain(s) == Follows(s) /\ (s = <<>> \/ Head(s).op \notin {"write", "ln"})
NoMclk(s) == \A i \in 1 .. Len(s) : s[i].op # "mclk"
NoMode(s) == \A i \in 1 .. Len(s) : ~SetsMode(s[i])

LEMMA JoinOrder ==
  ASSUME NEW s \in Lists, NEW t \in Lists
  PROVE  /\ Follows(s) /\ Chain(t) => Follows(s \o t)
         /\ Chain(s) /\ Chain(t) => Chain(s \o t)
         /\ NoMclk(s) /\ NoMclk(t) => NoMclk(s \o t)
         /\ NoMode(s) /\ NoMode(t) => NoMode(s \o t)
         /\ OnlyExt(s) /\ OnlyExt(t) => OnlyExt(s \o t)
         /\ NoMode(t) => OnlyExt(t)
         /\ MclkLast(s) /\ NoMode(t) => MclkLast(s \o t)
         /\ NoMclk(s) /\ MclkLast(t) => MclkLast(s \o t)
  <1> DEFINE u == s \o t
             m == Len(s)
             n == Len(t)
  <1>1. /\ m \in Nat /\ n \in Nat /\ Len(u) = m + n
        /\ \A i \in 1 .. m : u[i] = s[i]
        /\ \A i \in 1 .. n : u[m + i] = t[i]
        /\ s # <<>> => Head(s) = s[1] /\ Head(u) = s[1] /\ m > 0
        /\ t # <<>> => Head(t) = t[1] /\ n > 0
        /\ s = <<>> => u = t
        /\ t = <<>> => n = 0
    BY DEF Lists
  <1> HIDE DEF u, m, n
  <1>2. \A i \in 1 .. m + n :
          \/ i \in 1 .. m /\ u[i] = s[i]
          \/ i - m \in 1 .. n /\ u[i] = t[i - m]
    <2> SUFFICES ASSUME NEW i \in 1 .. m + n
                 PROVE  \/ i \in 1 .. m /\ u[i] = s[i]
                        \/ i - m \in 1 .. n /\ u[i] = t[i - m]
      OBVIOUS
    <2>1. CASE i <= m
      BY <1>1, <2>1
    <2>2. CASE i > m
      <3>1. i - m \in 1 .. n /\ m + (i - m) = i
        BY <1>1, <2>2
      <3> QED
        BY <1>1, <3>1
    <2> QED
      BY <1>1, <2>1, <2>2
  <1>3. ASSUME Follows(s), Chain(t) PROVE Follows(u)
    <2> SUFFICES ASSUME NEW i \in 2 .. m + n
                 PROVE  /\ u[i].op = "write" => u[i - 1].op = "erase"
                        /\ u[i].op = "ln" => u[i - 1].op = "rm"
      BY <1>1 DEF Follows
    <2>1. CASE i <= m
      <3>1. i \in 2 .. m /\ u[i] = s[i] /\ u[i - 1] = s[i - 1]
        BY <1>1, <2>1
      <3> QED
        BY <1>3, <3>1 DEF Follows, m
    <2>2. CASE i = m + 1
      <3>1. t # <<>> /\ u[i] = t[1]
        BY <1>1, <2>2
      <3> QED
        BY <1>1, <1>3, <3>1 DEF Chain
    <2>3. CASE i > m + 1
      <3>1. /\ i - m \in 2 .. n /\ i - m \in 1 .. n /\ i - m - 1 \in 1 .. n
            /\ m + (i - m) = i /\ m + (i - m - 1) = i - 1
        BY <1>1, <2>3
      <3>2. u[i] = t[i - m] /\ u[i - 1] = t[i - m - 1]
        BY <1>1, <3>1
      <3> QED
        BY <1>3, <3>1, <3>2 DEF Chain, Follows, n
    <2> QED
      BY <1>1, <2>1, <2>2, <2>3
  <1>4. ASSUME Chain(s), Chain(t) PROVE Chain(u)
    BY <1>1, <1>3, <1>4 DEF Chain
  <1>5. ASSUME NoMclk(s), NoMclk(t) PROVE NoMclk(u)
    BY <1>1, <1>2, <1>5 DEF NoMclk, m, n
  <1>6. ASSUME NoMode(s), NoMode(t) PROVE NoMode(u)
    BY <1>1, <1>2, <1>6 DEF NoMode, m, n
  <1>7. ASSUME \/ MclkLast(s) /\ NoMode(t)
               \/ NoMclk(s) /\ MclkLast(t)
        PROVE  MclkLast(u)
    <2> SUFFICES ASSUME NEW i \in 1 .. m + n, NEW j \in 1 .. m + n,
                        i < j, u[i].op = "mclk", SetsMode(u[j])
                 PROVE  FALSE
      BY <1>1 DEF MclkLast, SetsMode
    <2>1. CASE MclkLast(s) /\ NoMode(t)
      <3>1. j \in 1 .. m /\ u[j] = s[j]
        BY <1>2, <2>1 DEF NoMode, n
      <3>2. i \in 1 .. m /\ u[i] = s[i]
        BY <1>1, <3>1
      <3> QED
        BY <2>1, <3>1, <3>2 DEF MclkLast, SetsMode, m
    <2>2. CASE NoMclk(s) /\ MclkLast(t)
      <3>1. i - m \in 1 .. n /\ u[i] = t[i - m]
        BY <1>2, <2>2 DEF NoMclk, m
      <3>2. j - m \in 1 .. n /\ m + (j - m) = j
        BY <1>1, <3>1
      <3>3. u[j] = t[j - m] /\ i - m < j - m
        BY <1>1, <3>1, <3>2
      <3> QED
        BY <2>2, <3>1, <3>2, <3>3 DEF MclkLast, SetsMode, n
    <2> QED
      BY <1>7, <2>1, <2>2
  <1>8. ASSUME OnlyExt(s), OnlyExt(t) PROVE OnlyExt(u)
    BY <1>1, <1>2, <1>8 DEF OnlyExt, m, n
  <1>9. NoMode(t) => OnlyExt(t)
    BY DEF NoMode, OnlyExt
  <1> QED
    BY <1>3, <1>4, <1>5, <1>6, <1>7, <1>8, <1>9 DEF u

LEMMA TailOrder ==
  ASSUME NEW s \in Lists, s # <<>>, Follows(s), MclkLast(s)
  PROVE  /\ Follows(Tail(s)) /\ MclkLast(Tail(s))
         /\ Tail(s) # <<>> =>
              /\ Head(Tail(s)).op = "write" => Head(s).op = "erase"
              /\ Head(Tail(s)).op = "ln" => Head(s).op = "rm"
         /\ Head(s).op = "mclk" => NoMode(Tail(s))
         /\ OnlyExt(s) => OnlyExt(Tail(s))
  <1> DEFINE t == Tail(s)
             n == Len(s) - 1
  <1>1. /\ n \in Nat /\ Len(t) = n /\ Len(s) = n + 1 /\ Head(s) = s[1]
        /\ \A i \in 1 .. n : t[i] = s[i + 1]
        /\ t # <<>> => n > 0 /\ Head(t) = t[1]
    <2>1. s \in Seq(Commands) /\ Len(s) > 0 /\ Len(s) \in Nat /\ t \in Seq(Commands)
      BY ListsTail DEF Lists
    <2> QED
      BY <2>1, ListsTail
  <1> HIDE DEF t, n
  <1>2. \A i \in 2 .. n + 1 : /\ s[i].op = "write" => s[i - 1].op = "erase"
                              /\ s[i].op = "ln" => s[i - 1].op = "rm"
    BY <1>1 DEF Follows
  <1>3. Follows(t)
    <2> SUFFICES ASSUME NEW i \in 2 .. n
                 PROVE  /\ t[i].op = "write" => t[i - 1].op = "erase"
                        /\ t[i].op = "ln" => t[i - 1].op = "rm"
      BY <1>1 DEF Follows
    <2>1. /\ i + 1 \in 2 .. n + 1 /\ i + 1 - 1 = i /\ t[i] = s[i + 1]
          /\ i - 1 \in 1 .. n /\ i - 1 + 1 = i
      BY <1>1
    <2>2. t[i - 1] = s[i]
      BY <1>1, <2>1
    <2> QED
      BY <1>2, <2>1, <2>2
  <1>4. MclkLast(t)
    <2> SUFFICES ASSUME NEW i \in 1 .. n, NEW j \in 1 .. n,
                        i < j, t[i].op = "mclk", SetsMode(t[j])
                 PROVE  FALSE
      BY <1>1 DEF MclkLast, SetsMode
    <2>1. i + 1 \in 1 .. n + 1 /\ j + 1 \in 1 .. n + 1 /\ i + 1 < j + 1
      BY <1>1
    <2> QED
      BY <1>1, <2>1 DEF MclkLast, SetsMode
  <1>5. t # <<>> => /\ Head(t).op = "write" => Head(s).op = "erase"
                    /\ Head(t).op = "ln" => Head(s).op = "rm"
    <2> SUFFICES ASSUME t # <<>>
                 PROVE  /\ Head(t).op = "write" => Head(s).op = "erase"
                        /\ Head(t).op = "ln" => Head(s).op = "rm"
      OBVIOUS
    <2>1. 2 \in 2 .. n + 1 /\ t[1] = s[2] /\ Head(t) = t[1]
      BY <1>1
    <2>2. Head(s) = s[2 - 1]
      BY <1>1
    <2> QED
      BY <1>2, <2>1, <2>2
  <1>6. ASSUME Head(s).op = "mclk" PROVE NoMode(t)
    <2> SUFFICES ASSUME NEW j \in 1 .. n PROVE ~SetsMode(t[j])
      BY <1>1 DEF NoMode
    <2>1. 1 \in 1 .. n + 1 /\ j + 1 \in 1 .. n + 1 /\ 1 < j + 1
      BY <1>1
    <2> QED
      BY <1>1, <1>6, <2>1 DEF MclkLast, SetsMode
  <1>7. ASSUME OnlyExt(s) PROVE OnlyExt(t)
    <2> SUFFICES ASSUME NEW j \in 1 .. n, SetsMode(t[j]) PROVE t[j].val = "ext"
      BY <1>1 DEF OnlyExt
    <2>1. j + 1 \in 1 .. n + 1 /\ t[j] = s[j + 1]
      BY <1>1
    <2> QED
      BY <1>1, <1>7, <2>1 DEF OnlyExt
  <1> QED
    BY <1>3, <1>4, <1>5, <1>6, <1>7 DEF t

\* Lists of up to three commands.
LEMMA ShortOrder ==
  ASSUME NEW a \in Commands, NEW b \in Commands, NEW c \in Commands
  PROVE  /\ a.op \notin {"write", "ln"} => Chain(<<a>>)
         /\ a.op \notin {"write", "ln"} /\ b.op \notin {"write", "ln"} =>
              Chain(<<a, b>>)
         /\ /\ a.op \notin {"write", "ln"} /\ b.op \notin {"write", "ln"}
            /\ c.op \notin {"write", "ln"}
            => Chain(<<a, b, c>>)
         /\ a.op = "erase" /\ b.op = "write" => Chain(<<a, b>>)
         /\ a.op = "rm" /\ b.op = "ln" /\ c.op \notin {"write", "ln"} =>
              Chain(<<a, b, c>>)
         /\ a.op # "mclk" => NoMclk(<<a>>)
         /\ a.op # "mclk" /\ b.op # "mclk" => NoMclk(<<a, b>>)
         /\ a.op # "mclk" /\ b.op # "mclk" /\ c.op # "mclk" =>
              NoMclk(<<a, b, c>>)
         /\ ~SetsMode(a) => NoMode(<<a>>)
         /\ ~SetsMode(a) /\ ~SetsMode(b) => NoMode(<<a, b>>)
         /\ ~SetsMode(a) /\ ~SetsMode(b) /\ ~SetsMode(c) => NoMode(<<a, b, c>>)
         /\ Chain(<<>>) /\ NoMclk(<<>>) /\ NoMode(<<>>)
  <1>1. /\ \A i \in 2 .. 1 : FALSE
        /\ \A i \in 2 .. 0 : FALSE
        /\ \A i \in 2 .. 2 : i = 2
        /\ \A i \in 2 .. 3 : i = 2 \/ i = 3
        /\ \A i \in 1 .. 0 : FALSE
        /\ \A i \in 1 .. 1 : i = 1
        /\ \A i \in 1 .. 2 : i = 1 \/ i = 2
        /\ \A i \in 1 .. 3 : i = 1 \/ i = 2 \/ i = 3
        /\ 2 - 1 = 1 /\ 3 - 1 = 2
    OBVIOUS
  <1>2. /\ Len(<<a>>) = 1 /\ <<a>>[1] = a /\ Head(<<a>>) = a
        /\ Len(<<>>) = 0
    OBVIOUS
  <1>3. Len(<<a, b>>) = 2 /\ <<a, b>>[1] = a /\ <<a, b>>[2] = b /\ Head(<<a, b>>) = a
    OBVIOUS
  <1>4. /\ Len(<<a, b, c>>) = 3 /\ <<a, b, c>>[1] = a /\ <<a, b, c>>[2] = b
        /\ <<a, b, c>>[3] = c /\ Head(<<a, b, c>>) = a
    OBVIOUS
  <1>5. /\ a.op \notin {"write", "ln"} => Chain(<<a>>)
        /\ a.op # "mclk" => NoMclk(<<a>>)
        /\ ~SetsMode(a) => NoMode(<<a>>)
        /\ Chain(<<>>) /\ NoMclk(<<>>) /\ NoMode(<<>>)
    BY <1>1, <1>2 DEF Chain, Follows, NoMclk, NoMode
  <1>6. /\ a.op \notin {"write", "ln"} /\ b.op \notin {"write", "ln"} =>
             Chain(<<a, b>>)
        /\ a.op = "erase" /\ b.op = "write" => Chain(<<a, b>>)
        /\ a.op # "mclk" /\ b.op # "mclk" => NoMclk(<<a, b>>)
        /\ ~SetsMode(a) /\ ~SetsMode(b) => NoMode(<<a, b>>)
    BY <1>1, <1>3 DEF Chain, Follows, NoMclk, NoMode
  <1>7. /\ /\ a.op \notin {"write", "ln"} /\ b.op \notin {"write", "ln"}
           /\ c.op \notin {"write", "ln"}
           => Chain(<<a, b, c>>)
        /\ a.op = "rm" /\ b.op = "ln" /\ c.op \notin {"write", "ln"} =>
             Chain(<<a, b, c>>)
        /\ a.op # "mclk" /\ b.op # "mclk" /\ c.op # "mclk" => NoMclk(<<a, b, c>>)
        /\ ~SetsMode(a) /\ ~SetsMode(b) /\ ~SetsMode(c) => NoMode(<<a, b, c>>)
    BY <1>1, <1>4 DEF Chain, Follows, NoMclk, NoMode
  <1> QED
    BY <1>5, <1>6, <1>7

-----------------------------------------------------------------------------
(* What scripts and forms set. *)

LEMMA TreeSets ==
  ASSUME NEW m \in Images, NEW f
  PROVE  /\ Want(f, "flash") = m => LastGives(WriteTree(m), f, "flash")
         /\ \A p \in Places : p # "flash" => NoneSets(WriteTree(m), f, p)
         /\ Chain(WriteTree(m)) /\ NoMclk(WriteTree(m)) /\ NoMode(WriteTree(m))
  <1> DEFINE e == Cmd("erase", "", "")
             w == Cmd("write", "", m)
  <1>1. /\ e \in Commands /\ w \in Commands /\ e.op = "erase" /\ w.op = "write"
        /\ e.key = "" /\ w.key = "" /\ w.val = m
    BY CommandsMade DEF Cmd
  <1> HIDE DEF e, w
  <1>2. Want(f, "flash") = m => Gives(w, f, "flash")
    BY <1>1 DEF Gives, Sets, Value
  <1>3. \A p \in Places : p # "flash" => ~Sets(e, f, p) /\ ~Sets(w, f, p)
    BY <1>1 DEF Sets
  <1>4. WriteTree(m) = <<e, w>>
    BY DEF WriteTree, e, w
  <1>5. ~SetsMode(e) /\ ~SetsMode(w)
    BY <1>1 DEF SetsMode
  <1>6. \A p : /\ Gives(w, f, p) => LastGives(<<e, w>>, f, p)
               /\ ~Sets(e, f, p) /\ ~Sets(w, f, p) => NoneSets(<<e, w>>, f, p)
    BY <1>1, ShortSets
  <1>7. Chain(<<e, w>>) /\ NoMclk(<<e, w>>) /\ NoMode(<<e, w>>)
    BY <1>1, <1>5, ShortOrder
  <1> QED
    BY <1>2, <1>3, <1>4, <1>6, <1>7

\* The script for a mode.
LEMMA ModeScriptSets ==
  ASSUME NEW m \in Modes, NEW f, f["MODE"] = m
  PROVE  LET s == ModeScript(m)
         IN  /\ Chain(s) /\ NoMclk(s)
             /\ LastGives(s, f, "MODE") /\ LastGives(s, f, "s94")
             /\ \A p \in Places :
                  p \notin {"MODE", "s94", "MCLK", "flash"} => NoneSets(s, f, p)
             /\ m = "pll" => LastGives(s, f, "flash")
  <1> DEFINE a == Cmd("s94", "", m)
             b == Sed("MODE", m)
             c == Sed("MCLK", "1024")
             i == IF m = "pll" THEN "1024_pll" ELSE "1024_ext"
             w == WriteTree(i)
             h == IF m = "pll" THEN <<a, b, c>> ELSE <<a, b>>
  <1>1. /\ a \in Commands /\ b \in Commands /\ c \in Commands
        /\ a.op = "s94" /\ a.key = "" /\ a.val = m
        /\ b.op = "sed" /\ b.key = "MODE" /\ b.val = m
        /\ c.op = "sed" /\ c.key = "MCLK"
    <2>1. /\ "MODE" \in Keys /\ "MCLK" \in Keys /\ m \in Values("MODE")
          /\ "1024" \in Values("MCLK")
      BY DEF Keys, Values, Mclks
    <2> QED
      BY <2>1, CommandsMade, KeyCommandsMade DEF Cmd, Sed
  <1>2. i \in Images /\ ModeScript(m) = h \o w
    BY DEF ModeScript, Images, Modes
  <1> HIDE DEF a, b, c, h, i
  <1>3. w \in Lists
    BY <1>2, TreeLists
  <1>4. h \in Lists /\ Chain(h) /\ NoMclk(h)
    <2>1. a \in Harmless /\ b \in Harmless /\ c \in Harmless
      BY <1>1 DEF Harmless
    <2>2. <<a, b, c>> \in Lists /\ <<a, b>> \in Lists
      BY <2>1, ListsShort
    <2>3. /\ Chain(<<a, b, c>>) /\ Chain(<<a, b>>)
          /\ NoMclk(<<a, b, c>>) /\ NoMclk(<<a, b>>)
      BY <1>1, ShortOrder
    <2> QED
      BY <2>2, <2>3 DEF h
  <1>5. Gives(a, f, "s94") /\ Gives(b, f, "MODE")
    BY <1>1, PlacesDiffer, CommandGives
  <1>6. /\ \A p \in Places : p # "s94" => ~Sets(a, f, p)
        /\ \A p \in Places : p # "MODE" => ~Sets(b, f, p)
        /\ \A p \in Places : p # "MCLK" => ~Sets(c, f, p)
    BY <1>1 DEF Sets
  <1>7. "s94" \in Places /\ "MODE" \in Places /\ "flash" \in Places
    BY DEF Places, Keys
  <1>8. LastGives(h, f, "MODE") /\ LastGives(h, f, "s94")
    BY <1>1, <1>5, <1>6, <1>7, ShortSets DEF h
  <1>9. \A p \in Places : p \notin {"MODE", "s94", "MCLK"} => NoneSets(h, f, p)
    BY <1>1, <1>6, ShortSets DEF h
  <1>10. \A p \in Places : p # "flash" => NoneSets(w, f, p)
    BY <1>2, TreeSets
  <1>11. Chain(w) /\ NoMclk(w)
    BY <1>2, TreeSets
  <1>12. m = "pll" => LastGives(w, f, "flash")
    <2>1. m = "pll" => Want(f, "flash") = i
      BY FormWants DEF TreeOf, i
    <2> QED
      BY <1>2, <2>1, TreeSets
  <1> HIDE DEF w
  <1>13. Chain(h \o w) /\ NoMclk(h \o w)
    BY <1>3, <1>4, <1>11, JoinOrder
  <1>14. LastGives(h \o w, f, "MODE") /\ LastGives(h \o w, f, "s94")
    BY <1>3, <1>4, <1>7, <1>8, <1>10, JoinSets
  <1>15. \A p \in Places :
           p \notin {"MODE", "s94", "MCLK", "flash"} => NoneSets(h \o w, f, p)
    BY <1>3, <1>4, <1>9, <1>10, JoinSets
  <1>16. m = "pll" => LastGives(h \o w, f, "flash")
    BY <1>3, <1>4, <1>12, JoinSets
  <1> QED
    BY <1>2, <1>13, <1>14, <1>15, <1>16

\* The script for a submode.
LEMMA SubmodeScriptSets ==
  ASSUME NEW m \in Submodes, NEW f, f["SUBMODE"] = m
  PROVE  LET s == SubmodeScript(m)
         IN  /\ Chain(s) /\ NoMclk(s) /\ NoMode(s)
             /\ LastGives(s, f, "SUBMODE") /\ LastGives(s, f, "link")
             /\ \A p \in Places : p \notin {"SUBMODE", "link"} => NoneSets(s, f, p)
  <1> DEFINE a == Cmd("rm", "", "")
             b == Cmd("ln", "", m)
             c == SedAny("SUBMODE", m)
  <1>1. /\ a \in Commands /\ b \in Commands /\ c \in Commands
        /\ a.op = "rm" /\ a.key = ""
        /\ b.op = "ln" /\ b.key = "" /\ b.val = m
        /\ c.op = "sedany" /\ c.key = "SUBMODE" /\ c.val = m
    <2>1. "SUBMODE" \in Keys /\ m \in Values("SUBMODE")
      BY DEF Keys, Values
    <2> QED
      BY <2>1, CommandsMade, KeyCommandsMade DEF Cmd, SedAny
  <1>2. SubmodeScript(m) = <<a, b, c>>
    BY DEF SubmodeScript
  <1> HIDE DEF a, b, c
  <1>3. Gives(b, f, "link") /\ Gives(c, f, "SUBMODE")
    BY <1>1, PlacesDiffer, CommandGives
  <1>4. /\ \A p \in Places : p # "link" => ~Sets(a, f, p) /\ ~Sets(b, f, p)
        /\ \A p \in Places : p # "SUBMODE" => ~Sets(c, f, p)
        /\ "link" \in Places /\ "SUBMODE" \in Places
    BY <1>1 DEF Sets, Places, Keys
  <1>5. ~SetsMode(a) /\ ~SetsMode(b) /\ ~SetsMode(c)
    BY <1>1 DEF SetsMode
  <1>6. /\ Chain(<<a, b, c>>) /\ NoMclk(<<a, b, c>>) /\ NoMode(<<a, b, c>>)
    BY <1>1, <1>5, ShortOrder
  <1>7. LastGives(<<a, b, c>>, f, "link") /\ LastGives(<<a, b, c>>, f, "SUBMODE")
    BY <1>1, <1>3, <1>4, ShortSets
  <1>8. \A p \in Places : p \notin {"SUBMODE", "link"} => NoneSets(<<a, b, c>>, f, p)
    BY <1>1, <1>4, ShortSets
  <1> QED
    BY <1>2, <1>6, <1>7, <1>8

\* The script for MCLK, chosen for mode x.
LEMMA MclkScriptSets ==
  ASSUME NEW v \in Mclks, NEW x \in Modes, NEW f
  PROVE  LET s == MclkScript(v, x)
         IN  /\ Chain(s) /\ NoMclk(s)
             /\ f["MCLK"] = v => LastGives(s, f, "MCLK")
             /\ f["MODE"] = x => LastGives(s, f, "MODE") \/ NoneSets(s, f, "MODE")
             /\ x = "pll" /\ f["MCLK"] = v => LastGives(s, f, "mclk")
             /\ x = "ext" => OnlyExt(s)
             /\ x = "ext" /\ f["MODE"] = x => LastGives(s, f, "s94")
             /\ x = "ext" /\ f["MODE"] = x /\ f["MCLK"] = v =>
                  LastGives(s, f, "flash")
             /\ \A p \in Places :
                  \/ p \in {"MCLK", "MODE"}
                  \/ x = "ext" /\ p \in {"s94", "flash"}
                  \/ x = "pll" /\ p = "mclk"
                  \/ NoneSets(s, f, p)
  <1> DEFINE s == MclkScript(v, x)
  <1>0. /\ "MODE" \in Keys /\ "MCLK" \in Keys /\ v \in Values("MCLK")
        /\ "ext" \in Values("MODE") /\ "ext" \in Modes
        /\ {"MCLK", "MODE", "s94", "flash", "mclk"} \subseteq Places
    BY DEF Keys, Values, Modes, Places
  <1>1. CASE x = "pll"
    <2> DEFINE a == Cmd("sysfs", "MCLK", v)
               b == SedAny("MCLK", v)
    <2>1. /\ a \in Commands /\ b \in Commands
          /\ a.op = "sysfs" /\ a.key = "MCLK" /\ a.val = v
          /\ b.op = "sedany" /\ b.key = "MCLK" /\ b.val = v
      BY <1>0, KeyCommandsMade DEF Cmd, SedAny
    <2>2. s = <<a, b>>
      BY <1>1 DEF MclkScript
    <2> HIDE DEF a, b, s
    <2>3. f["MCLK"] = v => Gives(b, f, "MCLK") /\ Gives(a, f, "mclk")
      BY <2>1, PlacesDiffer, CommandGives
    <2>4. /\ \A p \in Places : p # "mclk" => ~Sets(a, f, p)
          /\ \A p \in Places : p # "MCLK" => ~Sets(b, f, p)
      BY <2>1 DEF Sets, SwapOf
    <2>5. Chain(<<a, b>>) /\ NoMclk(<<a, b>>)
      BY <2>1, ShortOrder
    <2>6. f["MCLK"] = v => /\ LastGives(<<a, b>>, f, "MCLK")
                           /\ LastGives(<<a, b>>, f, "mclk")
      BY <1>0, <2>1, <2>3, <2>4, ShortSets
    <2>7. \A p \in Places : p \notin {"MCLK", "mclk"} => NoneSets(<<a, b>>, f, p)
      BY <2>1, <2>4, ShortSets
    <2> QED
      BY <1>0, <1>1, <2>2, <2>5, <2>6, <2>7 DEF s
  <1>2. CASE x # "pll"
    <2> DEFINE a == Cmd("s94", "", "ext")
               b == Sed("MODE", "ext")
               c == Sed("MCLK", v)
               i == IF v = "512" THEN "512_ext" ELSE "1024_ext"
               w == WriteTree(i)
               h == IF v = "512" THEN <<b>> ELSE <<>>
    <2>1. /\ a \in Commands /\ b \in Commands /\ c \in Commands
          /\ a.op = "s94" /\ a.key = "" /\ a.val = "ext"
          /\ b.op = "sed" /\ b.key = "MODE" /\ b.val = "ext"
          /\ c.op = "sed" /\ c.key = "MCLK" /\ c.val = v
      BY <1>0, CommandsMade, KeyCommandsMade DEF Cmd, Sed
    <2>2. i \in Images /\ s = ((<<a>> \o h) \o <<c>>) \o w /\ x = "ext"
      BY <1>2 DEF MclkScript, Images, Modes
    <2>3. x = "ext" /\ f["MODE"] = x /\ f["MCLK"] = v => Want(f, "flash") = i
      BY FormWants DEF TreeOf, Mclks
    <2> HIDE DEF a, b, c, i, s
    <2>4. a \in Harmless /\ b \in Harmless /\ c \in Harmless
      BY <2>1 DEF Harmless
    <2>5. <<a>> \in Lists /\ <<c>> \in Lists /\ <<b>> \in Lists
      BY <2>4, ListsShort
    <2>6. h \in Lists /\ w \in Lists
      BY <2>2, <2>5, ListsEmpty, TreeLists
    <2>7. /\ Chain(<<a>>) /\ Chain(h) /\ Chain(<<c>>)
          /\ NoMclk(<<a>>) /\ NoMclk(h) /\ NoMclk(<<c>>)
      BY <2>1, ShortOrder
    <2>8. Chain(w) /\ NoMclk(w) /\ OnlyExt(w)
      BY <2>2, <2>6, TreeSets, JoinOrder
    <2>22. OnlyExt(<<a>>) /\ OnlyExt(h) /\ OnlyExt(<<c>>)
      <3>1. \A x1 : x1.val = "ext" \/ ~SetsMode(x1) => OnlyExt(<<x1>>)
        BY DEF OnlyExt
      <3>2. OnlyExt(<<>>)
        BY DEF OnlyExt
      <3> QED
        BY <2>1, <3>1, <3>2 DEF SetsMode, h
    <2>9. /\ f["MODE"] = "ext" => Gives(a, f, "s94") /\ Gives(b, f, "MODE")
          /\ f["MCLK"] = v => Gives(c, f, "MCLK")
      BY <2>1, PlacesDiffer, CommandGives
    <2>10. /\ \A p \in Places : p # "s94" => ~Sets(a, f, p)
           /\ \A p \in Places : p # "MODE" => ~Sets(b, f, p)
           /\ \A p \in Places : p # "MCLK" => ~Sets(c, f, p)
      BY <2>1 DEF Sets
    <2>11. /\ f["MODE"] = "ext" => LastGives(<<a>>, f, "s94")
           /\ f["MCLK"] = v => LastGives(<<c>>, f, "MCLK")
           /\ \A p \in Places : p # "s94" => NoneSets(<<a>>, f, p)
           /\ \A p \in Places : p # "MCLK" => NoneSets(<<c>>, f, p)
      BY <2>1, <2>9, <2>10, ShortSets
    <2>12. /\ f["MODE"] = "ext" => LastGives(h, f, "MODE") \/ NoneSets(h, f, "MODE")
           /\ \A p \in Places : p # "MODE" => NoneSets(h, f, p)
      BY <2>1, <2>9, <2>10, ShortSets
    <2>13. \A p \in Places : p # "flash" => NoneSets(w, f, p)
      BY <2>2, TreeSets
    <2>14. f["MODE"] = x /\ f["MCLK"] = v => LastGives(w, f, "flash")
      BY <2>2, <2>3, TreeSets
    <2> DEFINE g == <<a>> \o h
               k == g \o <<c>>
    <2> HIDE DEF w, h
    <2>15. g \in Lists /\ Chain(g) /\ NoMclk(g) /\ OnlyExt(g)
      BY <2>5, <2>6, <2>7, <2>22, ListsJoin, JoinOrder
    <2>16. /\ f["MODE"] = "ext" => LastGives(g, f, "s94")
           /\ f["MODE"] = "ext" => LastGives(g, f, "MODE") \/ NoneSets(g, f, "MODE")
           /\ \A p \in Places : p \notin {"s94", "MODE"} => NoneSets(g, f, p)
      BY <1>0, <2>5, <2>6, <2>11, <2>12, JoinSets
    <2> HIDE DEF g
    <2>17. k \in Lists /\ Chain(k) /\ NoMclk(k) /\ OnlyExt(k)
      BY <2>5, <2>7, <2>15, <2>22, ListsJoin, JoinOrder
    <2>18. /\ f["MODE"] = "ext" => LastGives(k, f, "s94")
           /\ f["MODE"] = "ext" => LastGives(k, f, "MODE") \/ NoneSets(k, f, "MODE")
           /\ f["MCLK"] = v => LastGives(k, f, "MCLK")
           /\ \A p \in Places : p \notin {"s94", "MODE", "MCLK"} => NoneSets(k, f, p)
      BY <1>0, <2>5, <2>11, <2>15, <2>16, JoinSets
    <2> HIDE DEF k
    <2>19. s = k \o w
      BY <2>2 DEF k, g
    <2>20. Chain(k \o w) /\ NoMclk(k \o w) /\ OnlyExt(k \o w)
      BY <2>6, <2>8, <2>17, JoinOrder
    <2>21. /\ f["MODE"] = "ext" => LastGives(k \o w, f, "s94")
           /\ f["MODE"] = "ext" =>
                LastGives(k \o w, f, "MODE") \/ NoneSets(k \o w, f, "MODE")
           /\ f["MCLK"] = v => LastGives(k \o w, f, "MCLK")
           /\ f["MODE"] = x /\ f["MCLK"] = v => LastGives(k \o w, f, "flash")
           /\ \A p \in Places :
                p \notin {"s94", "MODE", "MCLK", "flash"} => NoneSets(k \o w, f, p)
      BY <1>0, <2>6, <2>13, <2>14, <2>17, <2>18, JoinSets
    <2> QED
      BY <2>2, <2>19, <2>20, <2>21 DEF s
  <1> QED
    BY <1>1, <1>2

\* The commands of one swap setting.
LEMMA SwapSets ==
  ASSUME NEW f \in Forms, NEW k \in {"PCM_SWAP", "DSD_SWAP", "FREQ_SWAP"}
  PROVE  LET s == SwapCommands(f, k)
         IN  /\ s \in Lists /\ Chain(s) /\ NoMclk(s) /\ NoMode(s)
             /\ k \in DOMAIN f => LastGives(s, f, k)
             /\ \A p \in Attributes :
                  SwapOf(p) = k /\ k \in DOMAIN f => LastGives(s, f, p)
             /\ k = "PCM_SWAP" /\ k \in DOMAIN f => LastGives(s, f, "s01")
             /\ \A p \in Places :
                  \/ p = k
                  \/ p \in Attributes /\ SwapOf(p) = k
                  \/ p = "s01" /\ k = "PCM_SWAP"
                  \/ NoneSets(s, f, p)
  <1> DEFINE s == SwapCommands(f, k)
  <1>1. CASE k \in DOMAIN f
    <2> DEFINE a == Cmd("sysfs", k, f[k])
               b == Cmd("php", k, f[k])
               c == Cmd("s01", k, f[k])
               h == IF k = "FREQ_SWAP" THEN <<>> ELSE <<c>>
    <2>1. /\ a \in Commands /\ b \in Commands /\ c \in Commands
          /\ a.op = "sysfs" /\ b.op = "php" /\ c.op = "s01"
          /\ a.key = k /\ a.val = f[k]
          /\ b.key = k /\ b.val = f[k]
          /\ c.key = k /\ c.val = f[k]
      <3>1. k \in Swaps /\ k \in Keys /\ f[k] \in Values(k)
        BY <1>1, FormsAssumption DEF Keys
      <3> QED
        BY <3>1, KeyCommandsMade DEF Cmd
    <2>2. s = <<a, b>> \o h
      BY <1>1 DEF SwapCommands, Field
    <2> HIDE DEF a, b, c, s
    <2>3. /\ k \in Places /\ "s01" \in Places /\ Attributes \subseteq Places
          /\ k \notin Attributes /\ k \notin {"s01", "mclk", "link", "s94", "flash"}
          /\ "s01" \notin Attributes
      <3>1. DOMAIN f \subseteq Keys
        BY FormsAssumption
      <3> QED
        BY <1>1, <3>1 DEF Places, Attributes
    <2>4. /\ Gives(b, f, k)
          /\ \A p \in Attributes : SwapOf(p) = k => Gives(a, f, p)
          /\ k = "PCM_SWAP" => Gives(c, f, "s01")
      <3>1. k \in Keys
        BY <1>1, FormsAssumption
      <3> QED
        BY <2>1, <3>1, CommandGives
    <2>5. /\ \A p \in Places : Sets(a, f, p) => p \in Attributes /\ SwapOf(p) = k
          /\ \A p \in Places : Sets(b, f, p) => p = k
          /\ \A p \in Places : Sets(c, f, p) => p = "s01" /\ k = "PCM_SWAP"
          /\ ~SetsMode(a) /\ ~SetsMode(b) /\ ~SetsMode(c)
      BY <2>1 DEF Sets, SetsMode
    <2>6. <<a, b>> \in Lists /\ <<c>> \in Lists
      <3>1. a \in Harmless /\ b \in Harmless /\ c \in Harmless
        BY <2>1 DEF Harmless
      <3> QED
        BY <3>1, ListsShort, ListsEmpty
    <2>7. /\ Chain(<<a, b>>) /\ NoMclk(<<a, b>>) /\ NoMode(<<a, b>>)
          /\ Chain(h) /\ NoMclk(h) /\ NoMode(h)
      BY <2>1, <2>5, ShortOrder
    <2>8. /\ LastGives(<<a, b>>, f, k)
          /\ \A p \in Attributes : SwapOf(p) = k => LastGives(<<a, b>>, f, p)
          /\ \A p \in Places : \/ p = k
                               \/ p \in Attributes /\ SwapOf(p) = k
                               \/ NoneSets(<<a, b>>, f, p)
      <3>1. \A p : /\ Gives(b, f, p) => LastGives(<<a, b>>, f, p)
                   /\ Gives(a, f, p) /\ ~Sets(b, f, p) => LastGives(<<a, b>>, f, p)
                   /\ ~Sets(a, f, p) /\ ~Sets(b, f, p) => NoneSets(<<a, b>>, f, p)
        BY <2>1, ShortSets
      <3>2. \A p \in Attributes : p \in Places /\ p # k
        BY <2>3
      <3>3. LastGives(<<a, b>>, f, k)
        BY <2>4, <3>1
      <3>4. ASSUME NEW p \in Attributes, SwapOf(p) = k
            PROVE  LastGives(<<a, b>>, f, p)
        BY <2>4, <2>5, <3>1, <3>2, <3>4
      <3>5. ASSUME NEW p \in Places
            PROVE  p = k \/ (p \in Attributes /\ SwapOf(p) = k) \/ NoneSets(<<a, b>>, f, p)
        BY <2>5, <3>1
      <3> QED
        BY <3>3, <3>4, <3>5
    <2>9. /\ \A p \in Places : (p = "s01" /\ k = "PCM_SWAP") \/ NoneSets(h, f, p)
          /\ k = "PCM_SWAP" => LastGives(h, f, "s01")
      BY <2>1, <2>4, <2>5, ShortSets
    <2>10. h \in Lists
      BY <2>6, ListsEmpty
    <2> HIDE DEF h
    <2>11. <<a, b>> \o h \in Lists /\ Chain(<<a, b>> \o h)
           /\ NoMclk(<<a, b>> \o h) /\ NoMode(<<a, b>> \o h)
      BY <2>6, <2>7, <2>10, ListsJoin, JoinOrder
    <2>12. /\ LastGives(<<a, b>> \o h, f, k)
           /\ \A p \in Attributes : SwapOf(p) = k => LastGives(<<a, b>> \o h, f, p)
           /\ k = "PCM_SWAP" => LastGives(<<a, b>> \o h, f, "s01")
           /\ \A p \in Places : \/ p = k
                                \/ p \in Attributes /\ SwapOf(p) = k
                                \/ p = "s01" /\ k = "PCM_SWAP"
                                \/ NoneSets(<<a, b>> \o h, f, p)
      <3> DEFINE g == <<a, b>>
      <3>1. g \in Lists
        BY <2>6
      <3> HIDE DEF g
      <3>2. \A p : /\ NoneSets(g, f, p) /\ NoneSets(h, f, p) => NoneSets(g \o h, f, p)
                   /\ LastGives(h, f, p) => LastGives(g \o h, f, p)
                   /\ LastGives(g, f, p) /\ NoneSets(h, f, p) => LastGives(g \o h, f, p)
        BY <2>10, <3>1, JoinSets
      <3>3. /\ LastGives(g, f, k)
            /\ \A p \in Attributes : SwapOf(p) = k => LastGives(g, f, p)
            /\ \A p \in Places : \/ p = k
                                 \/ p \in Attributes /\ SwapOf(p) = k
                                 \/ NoneSets(g, f, p)
        BY <2>8 DEF g
      <3>4. \A p \in Attributes : p \in Places /\ p # "s01"
        BY <2>3
      <3>5. LastGives(g \o h, f, k)
        BY <2>3, <2>9, <3>2, <3>3
      <3>6. \A p \in Attributes : SwapOf(p) = k => LastGives(g \o h, f, p)
        BY <2>9, <3>2, <3>3, <3>4
      <3>7. k = "PCM_SWAP" => LastGives(g \o h, f, "s01")
        BY <2>9, <3>2
      <3>8. \A p \in Places : \/ p = k
                              \/ p \in Attributes /\ SwapOf(p) = k
                              \/ p = "s01" /\ k = "PCM_SWAP"
                              \/ NoneSets(g \o h, f, p)
        BY <2>9, <3>2, <3>3
      <3> QED
        BY <3>5, <3>6, <3>7, <3>8 DEF g
    <2> QED
      BY <2>2, <2>11, <2>12 DEF s
  <1>2. CASE k \notin DOMAIN f
    <2>1. s = <<>>
      BY <1>2 DEF SwapCommands, Field
    <2>2. \A p \in Places : NoneSets(<<>>, f, p)
      BY DEF NoneSets
    <2>3. Chain(<<>>) /\ NoMclk(<<>>) /\ NoMode(<<>>)
      BY DEF Chain, Follows, NoMclk, NoMode
    <2> QED
      BY <1>2, <2>1, <2>2, <2>3, ListsEmpty
  <1> QED
    BY <1>1, <1>2

\* The control of MCLK: its script is chosen later.
LEMMA MclkFieldSets ==
  ASSUME NEW f \in Forms
  PROVE  LET s == Field(f, "MCLK", <<Cmd("mclk", "", f["MCLK"])>>)
         IN  /\ s \in Lists /\ Chain(s) /\ NoMode(s) /\ MclkLast(s)
             /\ "MCLK" \in DOMAIN f => LastGives(s, f, "MCLK") /\ LastGives(s, f, "mclk")
             /\ "MCLK" \in DOMAIN f /\ f["MODE"] = "ext" =>
                  LastGives(s, f, "s94") /\ LastGives(s, f, "flash")
             /\ "MCLK" \notin DOMAIN f \/ f["MODE"] # "ext" =>
                  NoneSets(s, f, "s94") /\ NoneSets(s, f, "flash")
             /\ \A p \in Places :
                  p \notin {"MCLK", "mclk", "s94", "flash"} => NoneSets(s, f, p)
  <1> DEFINE c == Cmd("mclk", "", f["MCLK"])
             s == Field(f, "MCLK", <<c>>)
  <1>1. CASE "MCLK" \in DOMAIN f
    <2>1. c \in Commands /\ c.op = "mclk" /\ c.key = "" /\ c.val = f["MCLK"]
      <3>1. f["MCLK"] \in Mclks
        BY <1>1, FormsAssumption DEF Values
      <3> QED
        BY <3>1, CommandsMade DEF Cmd
    <2>2. s = <<c>>
      BY <1>1 DEF Field
    <2> HIDE DEF c, s
    <2>3. Gives(c, f, "MCLK") /\ Gives(c, f, "mclk")
      <3>1. Sets(c, f, "MCLK") /\ Sets(c, f, "mclk")
        BY <2>1 DEF Sets
      <3>2. Value(c, "MCLK") = c.val /\ Value(c, "mclk") = c.val
        BY <2>1 DEF Value
      <3>3. Want(f, "MCLK") = f["MCLK"] /\ Want(f, "mclk") = f["MCLK"]
        BY PlacesDiffer, FormWants
      <3> QED
        BY <2>1, <3>1, <3>2, <3>3 DEF Gives
    <2>4. f["MODE"] = "ext" => Gives(c, f, "s94") /\ Gives(c, f, "flash")
      <3>1. f["MODE"] = "ext" => Sets(c, f, "s94") /\ Sets(c, f, "flash")
        BY <2>1 DEF Sets
      <3>2. Value(c, "s94") = "ext" /\ Value(c, "flash") = TreeOf("ext", c.val)
        BY <2>1 DEF Value
      <3>3. Want(f, "s94") = f["MODE"] /\ Want(f, "flash") = TreeOf(f["MODE"], f["MCLK"])
        BY FormWants
      <3> QED
        BY <2>1, <3>1, <3>2, <3>3 DEF Gives
    <2>5. /\ \A p \in Places : p \notin {"MCLK", "mclk", "s94", "flash"} => ~Sets(c, f, p)
          /\ f["MODE"] # "ext" => ~Sets(c, f, "s94") /\ ~Sets(c, f, "flash")
          /\ ~SetsMode(c)
      BY <2>1, PlacesDiffer, CommandSets DEF SetsMode
    <2>6. <<c>> \in Lists
      BY <2>1, ListsShort DEF Harmless
    <2>7. Chain(<<c>>) /\ NoMode(<<c>>)
      BY <2>1, <2>5, ShortOrder
    <2>8. MclkLast(<<c>>)
      BY <2>7 DEF MclkLast, NoMode
    <2>9. \A p : /\ Gives(c, f, p) => LastGives(<<c>>, f, p)
                 /\ ~Sets(c, f, p) => NoneSets(<<c>>, f, p)
      BY <2>1, ShortSets
    <2> QED
      BY <1>1, <2>2, <2>3, <2>4, <2>5, <2>6, <2>7, <2>8, <2>9 DEF s, c
  <1>2. CASE "MCLK" \notin DOMAIN f
    <2>1. s = <<>>
      BY <1>2 DEF Field
    <2>2. \A p : NoneSets(<<>>, f, p)
      BY DEF NoneSets
    <2>3. Chain(<<>>) /\ NoMode(<<>>) /\ MclkLast(<<>>)
      BY DEF Chain, Follows, NoMode, MclkLast
    <2> QED
      BY <1>2, <2>1, <2>2, <2>3, ListsEmpty
  <1> QED
    BY <1>1, <1>2

\* The places of one swap setting.
SwapPlaces(k) ==
  {p \in Places : \/ p = k
                  \/ p \in Attributes /\ SwapOf(p) = k
                  \/ p = "s01" /\ k = "PCM_SWAP"}

LEMMA SwapFieldSets ==
  ASSUME NEW f \in Forms, NEW k \in {"PCM_SWAP", "DSD_SWAP", "FREQ_SWAP"}
  PROVE  LET s == SwapCommands(f, k)
         IN  /\ s \in Lists /\ Chain(s) /\ NoMclk(s) /\ NoMode(s)
             /\ \A p \in SwapPlaces(k) : Wants(f, p) => LastGives(s, f, p)
             /\ \A p \in Places \ SwapPlaces(k) : NoneSets(s, f, p)
  <1> DEFINE s == SwapCommands(f, k)
  <1>1. DOMAIN f \subseteq Keys
    BY FormsAssumption
  <1>2. ASSUME NEW p \in SwapPlaces(k), Wants(f, p) PROVE LastGives(s, f, p)
    <2>1. CASE p = k
      <3>1. p \in DOMAIN f
        <4>1. p \notin Attributes \cup {"link", "s94", "flash", "s01"}
          BY <2>1 DEF Attributes
        <4> QED
          BY <1>2, <4>1 DEF Wants
      <3> QED
        BY <2>1, <3>1, SwapSets
    <2>2. CASE p \in Attributes /\ SwapOf(p) = k
      <3>1. p \notin Keys \cup {"link", "s94", "flash", "s01"}
        BY <2>2, PlacesDiffer
      <3>2. k \in DOMAIN f
        BY <1>1, <1>2, <2>2, <3>1 DEF Wants
      <3> QED
        BY <2>2, <3>2, SwapSets
    <2>3. CASE p = "s01" /\ k = "PCM_SWAP"
      <3>1. "s01" \notin Keys \cup Attributes
        BY PlacesDiffer
      <3>2. k \in DOMAIN f
        BY <1>1, <1>2, <2>3, <3>1 DEF Wants
      <3> QED
        BY <2>3, <3>2, SwapSets
    <2> QED
      BY <1>2, <2>1, <2>2, <2>3 DEF SwapPlaces
  <1>3. ASSUME NEW p \in Places \ SwapPlaces(k) PROVE NoneSets(s, f, p)
    BY <1>3, SwapSets DEF SwapPlaces
  <1>4. s \in Lists /\ Chain(s) /\ NoMclk(s) /\ NoMode(s)
    BY SwapSets
  <1> QED
    BY <1>2, <1>3, <1>4

\* The commands of a form set all that it is about, last of all to what it
\* wants.
LEMMA FormSets ==
  ASSUME NEW f \in Forms
  PROVE  LET s == CommandsOf(f)
         IN  /\ Chain(s) /\ MclkLast(s)
             /\ \A p \in Places : Wants(f, p) => LastGives(s, f, p)
             /\ "MCLK" \in DOMAIN f => LastGives(s, f, "mclk")
  <1> DEFINE a  == Field(f, "MODE", ModeScript(f["MODE"]))
             b  == Field(f, "SUBMODE", SubmodeScript(f["SUBMODE"]))
             c  == Field(f, "MCLK", <<Cmd("mclk", "", f["MCLK"])>>)
             d1 == SwapCommands(f, "PCM_SWAP")
             d2 == SwapCommands(f, "DSD_SWAP")
             d3 == SwapCommands(f, "FREQ_SWAP")
  <1>0. /\ DOMAIN f \subseteq Keys /\ \A k \in DOMAIN f : f[k] \in Values(k)
        /\ {"MODE", "MCLK", "SUBMODE", "link", "s94", "flash", "mclk"} \subseteq Places
        /\ "mclk" \notin SwapPlaces("PCM_SWAP") \cup SwapPlaces("DSD_SWAP")
                          \cup SwapPlaces("FREQ_SWAP")
        /\ \A p \in Places : \/ ~Wants(f, p)
                             \/ p \in {"MODE", "MCLK", "SUBMODE", "link", "s94", "flash"}
                             \/ p \in SwapPlaces("PCM_SWAP")
                             \/ p \in SwapPlaces("DSD_SWAP")
                             \/ p \in SwapPlaces("FREQ_SWAP")
    <2>1. DOMAIN f \subseteq Keys /\ \A k \in DOMAIN f : f[k] \in Values(k)
      BY FormsAssumption
    <2>2. "mclk" \notin Attributes \cup Keys
      BY PlacesDiffer
    <2>3. ~Wants(f, "mclk")
      BY <2>1, <2>2 DEF Wants
    <2>4. \A p \in Keys : \/ p \in {"MODE", "MCLK", "SUBMODE"}
                          \/ p \in SwapPlaces("PCM_SWAP")
                          \/ p \in SwapPlaces("DSD_SWAP")
                          \/ p \in SwapPlaces("FREQ_SWAP")
      BY SwapKeys DEF Keys, SwapPlaces, Places
    <2>5. \A p \in Attributes : \/ p \in SwapPlaces("PCM_SWAP")
                                \/ p \in SwapPlaces("DSD_SWAP")
                                \/ p \in SwapPlaces("FREQ_SWAP")
      BY PlacesDiffer DEF SwapPlaces
    <2>6. "s01" \in SwapPlaces("PCM_SWAP")
      BY DEF SwapPlaces, Places
    <2> QED
      BY <2>1, <2>2, <2>3, <2>4, <2>5, <2>6, PlacesDiffer DEF Places, SwapPlaces
  <1>1. /\ \A p : NoneSets(<<>>, f, p)
        /\ Chain(<<>>) /\ NoMode(<<>>) /\ NoMclk(<<>>)
    BY DEF NoneSets, Chain, Follows, NoMode, NoMclk
  <1>2. /\ a \in Lists /\ Chain(a) /\ NoMclk(a)
        /\ "MODE" \in DOMAIN f => LastGives(a, f, "MODE") /\ LastGives(a, f, "s94")
        /\ "MODE" \in DOMAIN f /\ f["MODE"] = "pll" => LastGives(a, f, "flash")
        /\ \A p \in Places : p \notin {"MODE", "s94", "MCLK", "flash"} => NoneSets(a, f, p)
    <2>1. CASE "MODE" \in DOMAIN f
      <3>1. f["MODE"] \in Modes /\ a = ModeScript(f["MODE"])
        BY <1>0, <2>1 DEF Values, Field
      <3> HIDE DEF a
      <3> QED
        BY <2>1, <3>1, ModeScriptSets, ScriptLists
    <2>2. CASE "MODE" \notin DOMAIN f
      <3>1. a = <<>>
        BY <2>2 DEF Field
      <3> QED
        BY <1>1, <2>2, <3>1, ListsEmpty
    <2> QED
      BY <2>1, <2>2
  <1>3. /\ b \in Lists /\ Chain(b) /\ NoMclk(b) /\ NoMode(b)
        /\ "SUBMODE" \in DOMAIN f =>
             LastGives(b, f, "SUBMODE") /\ LastGives(b, f, "link")
        /\ \A p \in Places : p \notin {"SUBMODE", "link"} => NoneSets(b, f, p)
    <2>1. CASE "SUBMODE" \in DOMAIN f
      <3>1. f["SUBMODE"] \in Submodes /\ b = SubmodeScript(f["SUBMODE"])
        BY <1>0, <2>1 DEF Values, Field
      <3> HIDE DEF b
      <3> QED
        BY <2>1, <3>1, SubmodeScriptSets, ScriptLists
    <2>2. CASE "SUBMODE" \notin DOMAIN f
      <3>1. b = <<>>
        BY <2>2 DEF Field
      <3> QED
        BY <1>1, <2>2, <3>1, ListsEmpty
    <2> QED
      BY <2>1, <2>2
  <1>4. /\ c \in Lists /\ Chain(c) /\ NoMode(c) /\ MclkLast(c)
        /\ "MCLK" \in DOMAIN f => LastGives(c, f, "MCLK") /\ LastGives(c, f, "mclk")
        /\ "MCLK" \in DOMAIN f /\ f["MODE"] = "ext" =>
             LastGives(c, f, "s94") /\ LastGives(c, f, "flash")
        /\ "MCLK" \notin DOMAIN f \/ f["MODE"] # "ext" =>
             NoneSets(c, f, "s94") /\ NoneSets(c, f, "flash")
        /\ \A p \in Places : p \notin {"MCLK", "mclk", "s94", "flash"} => NoneSets(c, f, p)
    BY MclkFieldSets
  <1>5. /\ d1 \in Lists /\ d2 \in Lists /\ d3 \in Lists
        /\ Chain(d1) /\ Chain(d2) /\ Chain(d3)
        /\ NoMode(d1) /\ NoMode(d2) /\ NoMode(d3)
        /\ \A p \in SwapPlaces("PCM_SWAP") : Wants(f, p) => LastGives(d1, f, p)
        /\ \A p \in SwapPlaces("DSD_SWAP") : Wants(f, p) => LastGives(d2, f, p)
        /\ \A p \in SwapPlaces("FREQ_SWAP") : Wants(f, p) => LastGives(d3, f, p)
        /\ \A p \in Places \ SwapPlaces("PCM_SWAP") : NoneSets(d1, f, p)
        /\ \A p \in Places \ SwapPlaces("DSD_SWAP") : NoneSets(d2, f, p)
        /\ \A p \in Places \ SwapPlaces("FREQ_SWAP") : NoneSets(d3, f, p)
    BY SwapFieldSets
  <1> DEFINE ab == a \o b
             abc == ab \o c
             s1 == abc \o d1
             s2 == s1 \o d2
             s3 == s2 \o d3
  <1>6. CommandsOf(f) = s3
    BY DEF CommandsOf
  <1> HIDE DEF a, b, c, d1, d2, d3
  <1>7. /\ ab \in Lists /\ Chain(ab) /\ NoMclk(ab)
        /\ "MODE" \in DOMAIN f => LastGives(ab, f, "MODE") /\ LastGives(ab, f, "s94")
        /\ "MODE" \in DOMAIN f /\ f["MODE"] = "pll" => LastGives(ab, f, "flash")
        /\ "SUBMODE" \in DOMAIN f =>
             LastGives(ab, f, "SUBMODE") /\ LastGives(ab, f, "link")
    <2>1. ab \in Lists /\ Chain(ab) /\ NoMclk(ab)
      BY <1>2, <1>3, ListsJoin, JoinOrder
    <2>2. \A p \in Places : p \notin {"SUBMODE", "link"} /\ LastGives(a, f, p) =>
                              LastGives(ab, f, p)
      BY <1>2, <1>3, JoinSets
    <2>3. \A p \in Places : LastGives(b, f, p) => LastGives(ab, f, p)
      BY <1>2, <1>3, JoinSets
    <2> HIDE DEF ab
    <2> QED
      BY <1>0, <1>2, <1>3, <2>1, <2>2, <2>3
  <1> HIDE DEF ab
  <1>8. /\ abc \in Lists /\ Chain(abc) /\ MclkLast(abc)
        /\ "MCLK" \in DOMAIN f => LastGives(abc, f, "mclk")
        /\ \A p \in {"MODE", "MCLK", "SUBMODE", "link", "s94", "flash"} :
             Wants(f, p) => LastGives(abc, f, p)
    <2>1. abc \in Lists /\ Chain(abc) /\ MclkLast(abc)
      BY <1>4, <1>7, ListsJoin, JoinOrder
    <2>2. \A p \in Places : NoneSets(c, f, p) /\ LastGives(ab, f, p) =>
                              LastGives(abc, f, p)
      BY <1>4, <1>7, JoinSets
    <2>3. \A p \in Places : LastGives(c, f, p) => LastGives(abc, f, p)
      BY <1>4, <1>7, JoinSets
    <2> HIDE DEF abc
    <2>4. "MODE" \in DOMAIN f => LastGives(abc, f, "MODE") /\ LastGives(abc, f, "s94")
      BY <1>0, <1>4, <1>7, <2>2, <2>3
    <2>5. "MCLK" \in DOMAIN f => LastGives(abc, f, "MCLK") /\ LastGives(abc, f, "mclk")
      BY <1>0, <1>4, <2>3
    <2>6. "SUBMODE" \in DOMAIN f =>
             LastGives(abc, f, "SUBMODE") /\ LastGives(abc, f, "link")
      BY <1>0, <1>4, <1>7, <2>2
    <2>7. {"MODE", "MCLK"} \subseteq DOMAIN f => LastGives(abc, f, "flash")
      <3>1. "MODE" \in DOMAIN f => f["MODE"] \in {"pll", "ext"}
        BY <1>0 DEF Values, Modes
      <3> QED
        BY <1>0, <1>4, <1>7, <2>2, <2>3, <3>1
    <2>8. ASSUME NEW p \in {"MODE", "MCLK", "SUBMODE", "link", "s94", "flash"},
                 Wants(f, p)
          PROVE  LastGives(abc, f, p)
      <3>1. /\ p \in DOMAIN f => p \in {"MODE", "MCLK", "SUBMODE"}
            /\ p \notin Attributes /\ p # "s01"
        <4>1. "link" \notin Keys /\ "s94" \notin Keys /\ "flash" \notin Keys
          BY PlacesDiffer
        <4> QED
          BY <1>0, <4>1 DEF Attributes
      <3> QED
        BY <2>4, <2>5, <2>6, <2>7, <2>8, <3>1 DEF Wants
    <2> QED
      BY <2>1, <2>5, <2>8
  <1> HIDE DEF abc
  <1>9. /\ s1 \in Lists /\ Chain(s1) /\ MclkLast(s1)
        /\ "MCLK" \in DOMAIN f => LastGives(s1, f, "mclk")
        /\ \A p \in Places \ (SwapPlaces("DSD_SWAP") \cup SwapPlaces("FREQ_SWAP")) :
             Wants(f, p) => LastGives(s1, f, p)
    <2>1. s1 \in Lists /\ Chain(s1) /\ MclkLast(s1)
      BY <1>5, <1>8, ListsJoin, JoinOrder
    <2>2. \A p \in Places :
            /\ LastGives(d1, f, p) => LastGives(s1, f, p)
            /\ LastGives(abc, f, p) /\ NoneSets(d1, f, p) => LastGives(s1, f, p)
      BY <1>5, <1>8, JoinSets
    <2> HIDE DEF s1
    <2>3. ASSUME NEW p \in Places \ (SwapPlaces("DSD_SWAP") \cup SwapPlaces("FREQ_SWAP")), Wants(f, p)
          PROVE  LastGives(s1, f, p)
      <3>1. CASE p \in SwapPlaces("PCM_SWAP")
        BY <1>5, <2>2, <2>3, <3>1
      <3>2. CASE p \notin SwapPlaces("PCM_SWAP")
        BY <1>0, <1>5, <1>8, <2>2, <2>3, <3>2
      <3> QED
        BY <3>1, <3>2
    <2>4. "MCLK" \in DOMAIN f => LastGives(s1, f, "mclk")
      BY <1>0, <1>5, <1>8, <2>2
    <2> QED
      BY <2>1, <2>3, <2>4
  <1> HIDE DEF s1
  <1>10. /\ s2 \in Lists /\ Chain(s2) /\ MclkLast(s2)
         /\ "MCLK" \in DOMAIN f => LastGives(s2, f, "mclk")
         /\ \A p \in Places \ SwapPlaces("FREQ_SWAP") :
              Wants(f, p) => LastGives(s2, f, p)
    <2>1. s2 \in Lists /\ Chain(s2) /\ MclkLast(s2)
      BY <1>5, <1>9, ListsJoin, JoinOrder
    <2>2. \A p \in Places :
            /\ LastGives(d2, f, p) => LastGives(s2, f, p)
            /\ LastGives(s1, f, p) /\ NoneSets(d2, f, p) => LastGives(s2, f, p)
      BY <1>5, <1>9, JoinSets
    <2> HIDE DEF s2
    <2>3. ASSUME NEW p \in Places \ SwapPlaces("FREQ_SWAP"), Wants(f, p)
          PROVE  LastGives(s2, f, p)
      <3>1. CASE p \in SwapPlaces("DSD_SWAP")
        BY <1>5, <2>2, <2>3, <3>1
      <3>2. CASE p \notin SwapPlaces("DSD_SWAP")
        BY <1>0, <1>5, <1>9, <2>2, <2>3, <3>2
      <3> QED
        BY <3>1, <3>2
    <2>4. "MCLK" \in DOMAIN f => LastGives(s2, f, "mclk")
      BY <1>0, <1>5, <1>9, <2>2
    <2> QED
      BY <2>1, <2>3, <2>4
  <1> HIDE DEF s2
  <1>11. /\ s3 \in Lists /\ Chain(s3) /\ MclkLast(s3)
         /\ "MCLK" \in DOMAIN f => LastGives(s3, f, "mclk")
         /\ \A p \in Places :
              Wants(f, p) => LastGives(s3, f, p)
    <2>1. s3 \in Lists /\ Chain(s3) /\ MclkLast(s3)
      BY <1>5, <1>10, ListsJoin, JoinOrder
    <2>2. \A p \in Places :
            /\ LastGives(d3, f, p) => LastGives(s3, f, p)
            /\ LastGives(s2, f, p) /\ NoneSets(d3, f, p) => LastGives(s3, f, p)
      BY <1>5, <1>10, JoinSets
    <2> HIDE DEF s3
    <2>3. ASSUME NEW p \in Places, Wants(f, p)
          PROVE  LastGives(s3, f, p)
      <3>1. CASE p \in SwapPlaces("FREQ_SWAP")
        BY <1>5, <2>2, <2>3, <3>1
      <3>2. CASE p \notin SwapPlaces("FREQ_SWAP")
        BY <1>0, <1>5, <1>10, <2>2, <2>3, <3>2
      <3> QED
        BY <3>1, <3>2
    <2>4. "MCLK" \in DOMAIN f => LastGives(s3, f, "mclk")
      BY <1>0, <1>5, <1>10, <2>2
    <2> QED
      BY <2>1, <2>3, <2>4
  <1> HIDE DEF s3
  <1> QED
    BY <1>6, <1>11

-----------------------------------------------------------------------------
(* A lone request. *)

\* What is in a place, now and after a step.
LEMMA PlaceIs ==
  ASSUME NEW r
  PROVE  /\ Is(r, "link") = link /\ Is(r, "s94") = s94 /\ Is(r, "flash") = flash
         /\ Is(r, "s01") = Script(r) /\ Is(r, "mclk") = sysfs["MCLK"]
         /\ \A p \in Attributes : Is(r, p) = sysfs[SwapOf(p)]
         /\ \A k \in Keys : Is(r, k) = Now(r)[k]
         /\ Is(r, "link")' = link' /\ Is(r, "s94")' = s94' /\ Is(r, "flash")' = flash'
         /\ Is(r, "s01")' = Script(r)' /\ Is(r, "mclk")' = sysfs'["MCLK"]
         /\ \A p \in Attributes : Is(r, p)' = sysfs'[SwapOf(p)]
         /\ \A k \in Keys : Is(r, k)' = Now(r)'[k]
  <1>1. \A p \in Attributes : p \notin {"link", "s94", "flash", "s01", "mclk"}
    BY PlacesDiffer
  <1>2. \A k \in Keys : k \notin {"link", "s94", "flash", "s01", "mclk"} \cup Attributes
    BY PlacesDiffer
  <1> QED
    BY <1>1, <1>2 DEF Is

\* The places that matter to a form.
Cares(f, p) == p = "mclk" \/ Wants(f, p)

\* A place that matters is in i2s.conf, in another file, or an attribute that
\* the driver has.
LEMMA CaresWhere ==
  ASSUME NEW f \in Forms, NEW p \in Places, Cares(f, p)
  PROVE  \/ p \in Keys
         \/ p \in {"link", "s94", "flash", "s01", "mclk"}
         \/ p \in Attributes /\ SwapOf(p) \in Swaps
  <1>1. DOMAIN f \subseteq Keys
    BY FormsAssumption
  <1>2. CASE p \in Attributes
    <2>1. p \notin Keys \cup {"link", "s94", "flash", "s01", "mclk"}
      BY <1>2, PlacesDiffer
    <2>2. SwapOf(p) \in Keys
      BY <1>1, <2>1 DEF Cares, Wants
    <2> QED
      BY <1>2, <2>2, PlacesDiffer DEF Keys
  <1> QED
    BY <1>2 DEF Places

LEMMA LoneTyped ==
  ASSUME IInv, NEW r \in Requests, ~Idle(r), AloneOK(r)
  PROVE  /\ todo[r] \in Lists /\ todo[r] # <<>>
         /\ Head(todo[r]) \in Commands /\ Tail(todo[r]) \in Lists
         /\ CommandOK(Head(todo[r]))
         /\ form[r] \in Forms /\ DOMAIN form[r] \subseteq Keys
         /\ \A k \in DOMAIN form[r] : form[r][k] \in Values(k)
         /\ \A p \in {"link", "flash"} : Wants(form[r], p) => Want(form[r], p) # ""
  <1>1. todo[r] \in Lists /\ todo[r] # <<>>
    BY DEF IInv, Typed, RequestsTyped, Idle
  <1>2. Head(todo[r]) \in Commands /\ Tail(todo[r]) \in Lists
    BY <1>1, ListsTail
  <1>3. /\ form[r] \in Forms /\ DOMAIN form[r] \subseteq Keys
        /\ \A k \in DOMAIN form[r] : form[r][k] \in Values(k)
    BY FormsAssumption DEF AloneOK, Finishing
  <1>4. "link" \notin Keys /\ "flash" \notin Keys
    BY SwapKeys DEF Keys
  <1>5. Wants(form[r], "link") => Want(form[r], "link") # ""
    <2>1. "SUBMODE" \in DOMAIN form[r] => form[r]["SUBMODE"] # ""
      BY <1>3 DEF Values, Submodes
    <2> QED
      <3>1. "link" \notin Attributes
        BY PlacesDiffer
      <3> QED
        BY <1>3, <1>4, <2>1, <3>1, FormWants DEF Wants
  <1>6. Want(form[r], "flash") # ""
    BY FormWants DEF TreeOf
  <1> QED
    BY <1>1, <1>2, <1>3, <1>5, <1>6 DEF Commands

\* A command is done: what it sets is set, the rest is as it was.
LEMMA LoneAdvances ==
  ASSUME IInv, NEW r \in Requests, ~Idle(r), AloneOK(r),
         Advance(r, Tail(todo[r])),
         \A p \in Places :
           Cares(form[r], p) /\ Gives(Head(todo[r]), form[r], p) =>
             Is(r, p)' = Want(form[r], p),
         \A p \in Places :
           Cares(form[r], p) /\ ~Sets(Head(todo[r]), form[r], p) =>
             Is(r, p)' = Is(r, p),
         conf'["MODE"] = IF SetsMode(Head(todo[r])) THEN Head(todo[r]).val
                                                    ELSE Now(r)["MODE"],
         \A k \in Keys : conf'[k] # Missing,
         s01' # "empty",
         Head(todo[r]).op = "erase" => flash' = "blank",
         Head(todo[r]).op = "rm" => link' = "none"
  PROVE  Finishing(r)' /\ (~Idle(r)' => AloneOK(r)')
  <1> DEFINE s == todo[r]
             f == form[r]
             t == Tail(s)
  <1>1. /\ s \in Lists /\ s # <<>> /\ t \in Lists
        /\ Follows(s) /\ MclkLast(s) /\ f \in Forms
    BY LoneTyped DEF AloneOK, Prepared
  <1>2. todo'[r] = t /\ at'[r] = 0 /\ form'[r] = f
    BY DEF Advance, IInv, Typed, RequestsTyped
  <1>3. /\ ~Rewriting(r)' /\ Now(r)' = conf'
        /\ ~Scripting(r)' /\ Script(r)' = s01'
    BY <1>2 DEF Rewriting, Now, Scripting, Script
  <1> HIDE DEF s, f, t
  <1>4. ASSUME NEW p \in Places, Cares(f, p),
               LastGives(s, f, p) \/ (NoneSets(s, f, p) /\ Is(r, p) = Want(f, p))
        PROVE  LastGives(t, f, p) \/ (NoneSets(t, f, p) /\ Is(r, p)' = Want(f, p))
    <2>2. CASE LastGives(s, f, p)
      <3>1. LastGives(t, f, p) \/ (Gives(Head(s), f, p) /\ NoneSets(t, f, p))
        BY <1>1, <2>2, TailSets DEF t
      <3> QED
        BY <1>4, <3>1 DEF s, f
    <2>3. CASE NoneSets(s, f, p) /\ Is(r, p) = Want(f, p)
      <3>1. ~Sets(Head(s), f, p) /\ NoneSets(t, f, p)
        BY <1>1, <2>3, TailSets DEF t
      <3> QED
        BY <1>4, <2>3, <3>1 DEF s, f
    <2> QED
      BY <1>4, <2>2, <2>3
  <1>5. Settled(r)'
    <2>1. \A p \in Places :
            Wants(f, p) => \/ LastGives(s, f, p)
                           \/ NoneSets(s, f, p) /\ Is(r, p) = Want(f, p)
      BY DEF AloneOK, Finishing, Settled, s, f
    <2> QED
      BY <1>2, <1>4, <2>1 DEF Settled, Cares
  <1>8. MclkSettled(r)'
    <2> SUFFICES ASSUME "MCLK" \in DOMAIN f
                 PROVE  \/ LastGives(t, f, "mclk")
                        \/ /\ NoneSets(t, f, "mclk")
                           /\ \/ sysfs'["MCLK"] = f["MCLK"]
                              \/ conf'["MODE"] = "ext" /\ OnlyExt(t)
      BY <1>2, <1>3 DEF MclkSettled
    <2>1. /\ "mclk" \in Places /\ Want(f, "mclk") = f["MCLK"] /\ Cares(f, "mclk")
          /\ Is(r, "mclk") = sysfs["MCLK"] /\ Is(r, "mclk")' = sysfs'["MCLK"]
      BY PlacesDiffer, FormWants, PlaceIs DEF Cares
    <2>2. \/ LastGives(s, f, "mclk")
          \/ NoneSets(s, f, "mclk") /\ sysfs["MCLK"] = f["MCLK"]
          \/ NoneSets(s, f, "mclk") /\ Now(r)["MODE"] = "ext" /\ OnlyExt(s)
      BY DEF AloneOK, Finishing, MclkSettled, s, f
    <2>3. CASE \/ LastGives(s, f, "mclk")
               \/ NoneSets(s, f, "mclk") /\ sysfs["MCLK"] = f["MCLK"]
      BY <1>4, <2>1, <2>3
    <2>4. CASE NoneSets(s, f, "mclk") /\ Now(r)["MODE"] = "ext" /\ OnlyExt(s)
      <3>1. NoneSets(t, f, "mclk")
        BY <1>1, <2>4, TailSets DEF t
      <3>2. OnlyExt(t)
        BY <1>1, <2>4, TailOrder DEF t
      <3>3. SetsMode(Head(s)) => Head(s).val = "ext"
        <4>1. Len(s) \in Nat /\ Len(s) > 0 /\ Head(s) = s[1]
          BY <1>1 DEF Lists
        <4>2. 1 \in 1 .. Len(s)
          BY <4>1
        <4> QED
          BY <2>4, <4>1, <4>2 DEF OnlyExt
      <3>4. conf'["MODE"] = "ext"
        BY <2>4, <3>3 DEF s
      <3> QED
        BY <3>1, <3>2, <3>4
    <2> QED
      BY <2>2, <2>3, <2>4
  <1>9. Finishing(r)'
    BY <1>1, <1>2, <1>3, <1>5, <1>8 DEF Finishing
  <1>6. ASSUME t # <<>> PROVE Prepared(r)'
    <2>1. /\ Follows(t) /\ MclkLast(t)
          /\ Head(t).op = "write" => Head(s).op = "erase"
          /\ Head(t).op = "ln" => Head(s).op = "rm"
      BY <1>1, <1>6, TailOrder DEF t
    <2> QED
      BY <1>2, <2>1 DEF Prepared, s
  <1>7. ASSUME t # <<>> PROVE AloneOK(r)'
    BY <1>1, <1>2, <1>3, <1>9, <1>6, <1>7 DEF AloneOK
  <1> QED
    BY <1>2, <1>9, <1>7 DEF Idle

\* The commands on one store.
LEMMA LoneStores ==
  ASSUME IInv, NEW r \in Requests, ~Idle(r), AloneOK(r),
         \/ S94Sed(r) \/ RemoveLink(r) \/ MakeLink(r) \/ WriteSysfs(r)
         \/ flash_erase(r) \/ nandwrite(r)
  PROVE  Finishing(r)' /\ (~Idle(r)' => AloneOK(r)')
  <1> DEFINE c == Head(todo[r])
             f == form[r]
  <1>1. /\ at[r] = 0 /\ c.op \in {"s94", "rm", "ln", "sysfs", "erase", "write"}
        /\ conf' = conf /\ s01' = s01 /\ Advance(r, Tail(todo[r]))
    BY DEF S94Sed, RemoveLink, MakeLink, WriteSysfs, flash_erase, nandwrite, At
  <1>2. /\ ~Rewriting(r) /\ Now(r) = conf /\ ~Rewriting(r)' /\ Now(r)' = conf
        /\ Script(r) = s01 /\ Script(r)' = s01
    BY <1>1 DEF Rewriting, Now, Scripting, Script, Advance, IInv, Typed, RequestsTyped
  <1>3. (\A k \in Keys : conf'[k] # Missing) /\ s01' # "empty"
    BY <1>1, <1>2 DEF AloneOK, Finishing
  <1>4. /\ f \in Forms /\ CommandOK(c)
        /\ \A p \in {"link", "flash"} : Wants(f, p) => Want(f, p) # ""
    BY LoneTyped
  <1>5. /\ s94' = IF c.op = "s94" THEN c.val ELSE s94
        /\ link' = CASE c.op = "rm" -> "none" [] c.op = "ln" -> c.val [] OTHER -> link
        /\ flash' = CASE c.op = "erase" -> "blank" [] c.op = "write" -> c.val
                      [] OTHER -> flash
        /\ sysfs' = IF c.op = "sysfs" THEN [sysfs EXCEPT ![c.key] = c.val] ELSE sysfs
    <2>1. /\ c.op = "ln" => link = "none"
          /\ c.op = "write" => flash = "blank"
      BY DEF AloneOK, Prepared
    <2>2. CASE S94Sed(r)
      BY <2>2 DEF S94Sed, At
    <2>3. CASE RemoveLink(r)
      BY <2>3 DEF RemoveLink, At
    <2>4. CASE MakeLink(r)
      BY <2>1, <2>4 DEF MakeLink, At
    <2>5. CASE WriteSysfs(r)
      BY <2>5 DEF WriteSysfs, At
    <2>6. CASE flash_erase(r)
      BY <2>6 DEF flash_erase, At
    <2>7. CASE nandwrite(r)
      BY <2>1, <2>7 DEF nandwrite, At
    <2> QED
      BY <2>2, <2>3, <2>4, <2>5, <2>6, <2>7
  <1>8. c.op = "sysfs" => /\ c.key \in {"MCLK"} \cup Swaps
                          /\ sysfs'[c.key] = c.val
                          /\ \A k \in {"MCLK"} \cup Swaps :
                               k # c.key => sysfs'[k] = sysfs[k]
    BY <1>4, <1>5 DEF CommandOK, IInv, Typed, StoresTyped
  <1>9. c.op # "sysfs" => sysfs' = sysfs
    BY <1>5
  <1>10. Swaps \subseteq {"PCM_SWAP", "DSD_SWAP", "FREQ_SWAP"}
    BY SwapKeys
  <1> HIDE DEF c, f
  <1>6. ASSUME NEW p \in Places, Cares(f, p), Gives(c, f, p)
        PROVE  Is(r, p)' = Want(f, p)
    <2>1. Sets(c, f, p) /\ Value(c, p) = Want(f, p)
      BY <1>6 DEF Gives
    <2>2. \/ p = "link" /\ c.op \in {"rm", "ln"}
          \/ p = "s94" /\ c.op = "s94"
          \/ p = "flash" /\ c.op \in {"erase", "write"}
          \/ p = "mclk" /\ c.op = "sysfs" /\ c.key = "MCLK"
          \/ p \in Attributes /\ c.op = "sysfs" /\ c.key = SwapOf(p)
      BY <1>1, <2>1 DEF Sets
    <2>3. c.op \notin {"rm", "erase"}
      <3>1. CASE p \in {"link", "flash"}
        BY <1>4, <1>6, <2>1, <3>1 DEF Value, Cares
      <3>2. CASE p \notin {"link", "flash"}
        BY <2>2, <3>2
      <3> QED
        BY <3>1, <3>2
    <2>4. Want(f, p) = c.val
      BY <1>1, <2>1, <2>3 DEF Value
    <2>5. CASE p = "link" \/ p = "s94" \/ p = "flash"
      <3>1. p \notin Attributes /\ p # "mclk"
        BY <2>5, PlacesDiffer
      <3> QED
        BY <1>5, <2>2, <2>3, <2>4, <2>5, <3>1, PlaceIs
    <2>6. CASE p = "mclk" /\ c.op = "sysfs" /\ c.key = "MCLK"
      BY <1>8, <2>4, <2>6, PlaceIs
    <2>7. CASE p \in Attributes /\ c.op = "sysfs" /\ c.key = SwapOf(p)
      BY <1>8, <2>4, <2>7, PlaceIs
    <2> QED
      BY <2>2, <2>5, <2>6, <2>7
  <1>7. ASSUME NEW p \in Places, Cares(f, p), ~Sets(c, f, p)
        PROVE  Is(r, p)' = Is(r, p)
    <2>1. CASE p \in Keys
      BY <1>2, <2>1, PlaceIs
    <2>2. CASE p \in {"link", "s94", "flash"}
      <3>1. /\ c.op = "s94" => p # "s94"
            /\ c.op \in {"rm", "ln"} => p # "link"
            /\ c.op \in {"erase", "write"} => p # "flash"
        BY <1>7 DEF Sets
      <3> QED
        BY <1>1, <1>5, <2>2, <3>1, PlaceIs
    <2>3. CASE p = "s01"
      BY <1>2, <2>3, PlaceIs
    <2>4. CASE p = "mclk"
      <3>1. c.op = "sysfs" => c.key # "MCLK"
        BY <1>7, <2>4 DEF Sets
      <3> QED
        BY <1>8, <1>9, <2>4, <3>1, PlaceIs
    <2>5. CASE p \in Attributes /\ SwapOf(p) \in Swaps
      <3>1. c.op = "sysfs" => c.key # SwapOf(p)
        BY <1>7, <2>5 DEF Sets
      <3> QED
        BY <1>8, <1>9, <2>5, <3>1, PlaceIs
    <2> QED
      BY <1>4, <1>7, <2>1, <2>2, <2>3, <2>4, <2>5, CaresWhere
  <1>11. conf'["MODE"] = IF SetsMode(c) THEN c.val ELSE Now(r)["MODE"]
    BY <1>1, <1>2 DEF SetsMode
  <1>12. /\ c.op = "erase" => flash' = "blank"
         /\ c.op = "rm" => link' = "none"
    BY <1>5
  <1> QED
    BY <1>1, <1>3, <1>6, <1>7, <1>11, <1>12, LoneAdvances DEF c, f

\* The end of a change of i2s.conf, or of S01RkLunch.
LEMMA LoneWrites ==
  ASSUME IInv, NEW r \in Requests, ~Idle(r), AloneOK(r),
         SedRenames(r) \/ PhpWrites(r) \/ InitWrites(r)
  PROVE  Finishing(r)' /\ (~Idle(r)' => AloneOK(r)')
  <1> DEFINE c == Head(todo[r])
             f == form[r]
  <1>1. /\ c.op \in {"sed", "sedany", "php", "s01"} /\ at[r] \in {1, 2}
        /\ link' = link /\ s94' = s94 /\ flash' = flash /\ sysfs' = sysfs
        /\ Advance(r, Tail(todo[r]))
    BY DEF SedRenames, PhpWrites, InitWrites, At
  <1>2. ~Rewriting(r)' /\ Now(r)' = conf' /\ Script(r)' = s01'
    BY <1>1 DEF Rewriting, Now, Scripting, Script, Advance, IInv, Typed, RequestsTyped
  <1>3. (\A k \in Keys : Now(r)[k] # Missing) /\ Script(r) # "empty" /\ f \in Forms
    BY DEF AloneOK, Finishing
  <1>9. s01' = Script(r)
    <2>1. CASE SedRenames(r)
      BY <1>1, <2>1 DEF SedRenames, At, Scripting, Script
    <2>2. CASE PhpWrites(r)
      BY <1>1, <2>2 DEF PhpWrites, At, Scripting, Script
    <2>3. CASE InitWrites(r)
      BY <1>1, <1>3, <2>3 DEF InitWrites, At, Scripting, Script
    <2> QED
      BY <2>1, <2>2, <2>3
  <1>4. \A k \in Keys : conf'[k] = Now(r)[k]
    <2>1. CASE SedRenames(r)
      BY <1>1, <2>1 DEF SedRenames, At, Rewriting, Now
    <2>2. CASE PhpWrites(r)
      <3>1. c.op = "php" /\ at[r] = 2 /\ Now(r) = text[r]
        BY <2>2 DEF PhpWrites, At, Rewriting, Now
      <3>2. r \in opened
        BY <3>1 DEF AloneOK
      <3>3. conf' = [k \in Keys |-> IF text[r][k] # Missing THEN text[r][k] ELSE conf[k]]
        BY <2>2, <3>2 DEF PhpWrites
      <3> QED
        BY <1>3, <3>1, <3>3
    <2>3. CASE InitWrites(r)
      BY <2>3 DEF InitWrites, At, Rewriting, Now
    <2> QED
      BY <2>1, <2>2, <2>3
  <1>5. c.op # "s01" => c.key \in Keys /\ Now(r)[c.key] = c.val
    <2>1. CommandOK(c)
      BY LoneTyped
    <2> QED
      BY <1>1, <2>1 DEF AloneOK, CommandOK, Rewriting, Now
  <1>10. c.op = "s01" /\ c.key = "PCM_SWAP" => Script(r) = c.val
    BY <1>1 DEF AloneOK, Scripting, Script
  <1> HIDE DEF c, f
  <1>6. ASSUME NEW p \in Places, Cares(f, p)
        PROVE  Is(r, p)' = Is(r, p)
    <2>1. CASE p \in Keys
      BY <1>2, <1>4, <2>1, PlaceIs
    <2>2. CASE p \in {"link", "s94", "flash", "s01", "mclk"}
      BY <1>1, <1>2, <1>9, <2>2, PlaceIs
    <2>3. CASE p \in Attributes
      BY <1>1, <2>3, PlaceIs
    <2> QED
      BY <1>3, <1>6, <2>1, <2>2, <2>3, CaresWhere
  <1>7. ASSUME NEW p \in Places, Cares(f, p), Gives(c, f, p)
        PROVE  Is(r, p)' = Want(f, p)
    <2>1. Sets(c, f, p) /\ Value(c, p) = Want(f, p)
      BY <1>7 DEF Gives
    <2>2. c.val = Want(f, p)
      BY <1>1, <2>1 DEF Value
    <2>3. CASE c.op # "s01"
      <3>1. p = c.key
        BY <1>1, <2>1, <2>3, CommandSets
      <3>2. Is(r, p) = c.val
        BY <1>5, <2>3, <3>1, PlaceIs
      <3> QED
        BY <1>6, <1>7, <2>2, <3>2
    <2>4. CASE c.op = "s01"
      <3>1. p = "s01" /\ c.key = "PCM_SWAP"
        BY <2>1, <2>4, CommandSets
      <3>2. Is(r, p) = c.val
        BY <1>10, <2>4, <3>1, PlaceIs
      <3> QED
        BY <1>6, <1>7, <2>2, <3>2
    <2> QED
      BY <2>3, <2>4
  <1>8. \A k \in Keys : conf'[k] # Missing
    BY <1>3, <1>4
  <1>11. conf'["MODE"] = IF SetsMode(c) THEN c.val ELSE Now(r)["MODE"]
    BY <1>1, <1>4, <1>5, PlacesDiffer DEF SetsMode
  <1>12. c.op # "erase" /\ c.op # "rm" /\ s01' # "empty"
    BY <1>1, <1>3, <1>9
  <1> QED
    BY <1>1, <1>6, <1>7, <1>8, <1>11, <1>12, LoneAdvances DEF c, f

\* Within a change: what the request is about to write already counts.
LEMMA LoneWithin ==
  ASSUME IInv, NEW r \in Requests, ~Idle(r), AloneOK(r),
         \/ SedReads(r) \/ PhpReads(r) \/ InitReads(r)
         \/ PhpTruncates(r) \/ InitTruncates(r)
  PROVE  AloneOK(r)'
  <1> DEFINE c == Head(todo[r])
             f == form[r]
  <1>1. /\ at[r] \in {0, 1} /\ at'[r] = at[r] + 1
        /\ todo' = todo /\ form' = form
        /\ link' = link /\ s94' = s94 /\ flash' = flash /\ sysfs' = sysfs
    BY DEF
       SedReads, PhpReads, InitReads, PhpTruncates, InitTruncates, At,
       Within, stores, history, IInv, Typed, RequestsTyped
  <1>2. /\ todo[r] \in Lists /\ CommandOK(c)
        /\ \A k \in Keys : Now(r)[k] # Missing
        /\ Settled(r) /\ MclkSettled(r) /\ Prepared(r) /\ f \in Forms
        /\ Script(r) # "empty"
    BY LoneTyped DEF AloneOK, Finishing
  <1>3. Prepared(r)'
    BY <1>1, <1>2 DEF Prepared
  <1>4. /\ \A k \in Keys : Now(r)'[k] # Missing
        /\ Rewriting(r)' => text'[r][c.key] = c.val
        /\ \A p \in Places :
             Cares(f, p) /\ NoneSets(todo[r], f, p) => Is(r, p)' = Is(r, p)
        /\ Now(r)'["MODE"] = (IF SetsMode(c) THEN c.val ELSE Now(r)["MODE"])
             \/ Now(r)'["MODE"] = Now(r)["MODE"]
        /\ Script(r)' # "empty"
        /\ Scripting(r)' /\ c.key = "PCM_SWAP" => script'[r] = c.val
        /\ at'[r] = 2 /\ c.op = "php" => r \in opened'
    <2>1. CASE SedReads(r) \/ PhpReads(r)
      <3>1. /\ at[r] = 0 /\ c.op \in {"sed", "sedany", "php"}
            /\ c.key \in Keys /\ c.val \in Values(c.key)
        BY <1>2, <2>1 DEF SedReads, PhpReads, At, CommandOK
      <3>2. /\ Now(r) = conf /\ Rewriting(r)' /\ Now(r)' = text'[r]
            /\ ~Scripting(r)' /\ Script(r) = s01 /\ Script(r)' = s01'
        BY <1>1, <3>1 DEF Rewriting, Now, Scripting, Script
      <3>7. s01' = s01
        BY <2>1 DEF SedReads, PhpReads, stores
      <3>3. text'[r] = [conf EXCEPT ![c.key] = c.val]
        <4>1. conf[c.key] # Missing
          BY <1>2, <3>1, <3>2
        <4>2. text \in [Requests -> Texts]
          BY DEF IInv, Typed, RequestsTyped
        <4> QED
          BY <2>1, <4>1, <4>2 DEF SedReads, PhpReads
      <3>4. conf \in Texts /\ Missing \notin Values(c.key)
        <4>1. Missing \notin Values(c.key)
          BY <3>1, SwapKeys DEF Values, Missing, Modes, Mclks, Submodes, Keys
        <4> QED
          BY <4>1 DEF IInv, Typed, StoresTyped
      <3>5. /\ text'[r][c.key] = c.val /\ c.val # Missing
            /\ \A k \in Keys : k # c.key => text'[r][k] = conf[k]
        BY <3>1, <3>3, <3>4 DEF Texts
      <3> HIDE DEF c, f
      <3>6. ASSUME NEW p \in Places, Cares(f, p), NoneSets(todo[r], f, p)
            PROVE  Is(r, p)' = Is(r, p)
        <4>1. ~Sets(c, f, p)
          BY <1>2, <3>6, TailSets DEF Idle, c
        <4>2. p # c.key
          BY <3>1, <4>1 DEF Sets
        <4>3. CASE p \in Keys
          BY <3>2, <3>5, <4>2, <4>3, PlaceIs
        <4>4. CASE p \in {"link", "s94", "flash", "s01", "mclk"}
          BY <1>1, <3>2, <3>7, <4>4, PlaceIs
        <4>5. CASE p \in Attributes
          BY <1>1, <4>5, PlaceIs
        <4> QED
          BY <1>2, <3>6, <4>3, <4>4, <4>5, CaresWhere DEF f
      <3>8. Now(r)'["MODE"] = IF SetsMode(c) THEN c.val ELSE Now(r)["MODE"]
        BY <3>1, <3>2, <3>5, PlacesDiffer DEF SetsMode
      <3> QED
        BY <1>1, <1>2, <3>1, <3>2, <3>5, <3>6, <3>7, <3>8
    <2>2. CASE InitReads(r) \/ InitTruncates(r)
      <3>1. c.op = "s01" /\ conf' = conf
        BY <2>2 DEF InitReads, InitTruncates, At, stores
      <3>2. Now(r) = conf /\ ~Rewriting(r)' /\ Now(r)' = conf
        BY <1>1, <3>1 DEF Rewriting, Now
      <3>3. /\ Scripting(r)' /\ Script(r)' = script'[r]
            /\ Script(r) = IF InitReads(r) THEN s01 ELSE script[r]
        <4>1. CASE InitReads(r)
          BY <1>1, <3>1, <4>1 DEF Scripting, Script, InitReads, At
        <4>2. CASE InitTruncates(r) /\ ~InitReads(r)
          BY <1>1, <3>1, <4>2 DEF Scripting, Script, InitTruncates, At
        <4> QED
          BY <2>2, <4>1, <4>2
      <3>4. /\ script'[r] # "empty"
            /\ c.key = "PCM_SWAP" => script'[r] = c.val
            /\ c.key # "PCM_SWAP" => script'[r] = Script(r)
        <4>1. CASE InitReads(r)
          <5>1. c.val # "empty"
            BY <1>2, <3>1 DEF CommandOK, Bits
          <5>2. script'[r] = IF c.key = "PCM_SWAP" /\ s01 # "empty" THEN c.val ELSE s01
            BY <4>1 DEF InitReads, IInv, Typed, RequestsTyped
          <5> QED
            BY <1>2, <3>3, <4>1, <5>1, <5>2
        <4>2. CASE InitTruncates(r) /\ ~InitReads(r)
          <5>1. script' = script /\ Scripting(r)
            BY <3>1, <4>2 DEF InitTruncates, At, Scripting
          <5>2. c.key = "PCM_SWAP" => script[r] = c.val
            BY <5>1 DEF AloneOK
          <5> QED
            BY <1>2, <3>3, <4>2, <5>1, <5>2
        <4> QED
          BY <2>2, <4>1, <4>2
      <3> HIDE DEF c, f
      <3>6. ASSUME NEW p \in Places, Cares(f, p), NoneSets(todo[r], f, p)
            PROVE  Is(r, p)' = Is(r, p)
        <4>1. CASE p \in Keys
          BY <3>2, <4>1, PlaceIs
        <4>2. CASE p \in {"link", "s94", "flash", "mclk"}
          BY <1>1, <4>2, PlaceIs
        <4>3. CASE p = "s01"
          <5>1. ~Sets(c, f, p)
            BY <1>2, <3>6, TailSets DEF Idle, c
          <5>2. c.key # "PCM_SWAP"
            BY <3>1, <4>3, <5>1 DEF Sets
          <5> QED
            BY <3>3, <3>4, <4>3, <5>2, PlaceIs
        <4>5. CASE p \in Attributes
          BY <1>1, <4>5, PlaceIs
        <4> QED
          BY <1>2, <3>6, <4>1, <4>2, <4>3, <4>5, CaresWhere DEF f
      <3> QED
        BY <1>2, <3>1, <3>2, <3>3, <3>4, <3>6
    <2>3. CASE PhpTruncates(r)
      <3>1. /\ c.op = "php" /\ at[r] = 1 /\ text' = text /\ r \in opened'
            /\ s01' = s01
        BY <2>3 DEF PhpTruncates, At
      <3>2. /\ Now(r) = text[r] /\ Rewriting(r) /\ Rewriting(r)' /\ Now(r)' = text[r]
            /\ ~Scripting(r)' /\ Script(r) = s01 /\ Script(r)' = s01
        BY <1>1, <3>1 DEF Rewriting, Now, Scripting, Script
      <3>3. \A p \in Places : Is(r, p)' = Is(r, p)
        BY <1>1, <3>2 DEF Is
      <3>4. text[r][c.key] = c.val
        BY <3>2 DEF AloneOK
      <3> QED
        BY <1>2, <3>1, <3>2, <3>3, <3>4
    <2> QED
      BY <2>1, <2>2, <2>3
  <1>5. Settled(r)'
    <2>1. todo'[r] = todo[r] /\ form'[r] = f
      BY <1>1
    <2> HIDE DEF f
    <2>2. \A p \in Places :
            Wants(f, p) => \/ LastGives(todo[r], f, p)
                           \/ NoneSets(todo[r], f, p) /\ Is(r, p) = Want(f, p)
      BY <1>2 DEF Settled, f
    <2> QED
      BY <1>4, <2>1, <2>2 DEF Settled, Cares
  <1>6. MclkSettled(r)'
    <2>1. todo'[r] = todo[r] /\ form'[r] = f /\ sysfs' = sysfs
      BY <1>1
    <2>2. SetsMode(c) /\ OnlyExt(todo[r]) => c.val = "ext"
      <3>1. Len(todo[r]) \in Nat /\ Len(todo[r]) > 0 /\ c = todo[r][1]
        BY <1>2 DEF Lists, Idle
      <3>2. 1 \in 1 .. Len(todo[r])
        BY <3>1
      <3> QED
        BY <3>1, <3>2 DEF OnlyExt
    <2>3. Now(r)["MODE"] = "ext" /\ OnlyExt(todo[r]) => Now(r)'["MODE"] = "ext"
      BY <1>4, <2>2
    <2> QED
      BY <1>2, <2>1, <2>3 DEF MclkSettled
  <1> QED
    BY <1>1, <1>2, <1>3, <1>4, <1>5, <1>6 DEF AloneOK, Finishing

\* The script for MCLK takes the place of its command: in the mode that the
\* form wants, if it wants one.
LEMMA LoneChooses ==
  ASSUME IInv, NEW r \in Requests, ~Idle(r), AloneOK(r), ChooseMclkScript(r)
  PROVE  Finishing(r)' /\ (~Idle(r)' => AloneOK(r)')
  <1> DEFINE c == Head(todo[r])
             f == form[r]
             t == Tail(todo[r])
             v == c.val
             x == conf["MODE"]
             s == MclkScript(v, x)
             u == s \o t
  <1>1. /\ c.op = "mclk" /\ at[r] = 0 /\ Advance(r, u)
        /\ conf' = conf /\ link' = link /\ s94' = s94 /\ flash' = flash
        /\ s01' = s01 /\ sysfs' = sysfs
    BY DEF ChooseMclkScript, At, stores
  <1>2. /\ todo'[r] = u /\ at'[r] = 0 /\ form'[r] = f
    BY <1>1 DEF Advance, IInv, Typed, RequestsTyped
  <1>3. /\ Now(r) = conf /\ ~Rewriting(r)' /\ Now(r)' = conf
        /\ ~Scripting(r)' /\ Script(r) = s01 /\ Script(r)' = s01
        /\ \A p \in Places : Is(r, p)' = Is(r, p)
    <2>1. /\ Now(r) = conf /\ ~Rewriting(r)' /\ Now(r)' = conf
          /\ ~Scripting(r)' /\ Script(r) = s01 /\ Script(r)' = s01
      BY <1>1, <1>2 DEF Rewriting, Now, Scripting, Script
    <2> QED
      BY <1>1, <2>1 DEF Is
  <1>4. /\ todo[r] \in Lists /\ todo[r] # <<>> /\ t \in Lists /\ CommandOK(c)
        /\ \A k \in DOMAIN f : f[k] \in Values(k)
        /\ DOMAIN f \subseteq Keys /\ f \in Forms
    BY LoneTyped
  <1>5. v \in Mclks /\ x \in Modes
    <2>1. "MODE" \in Keys /\ conf["MODE"] # Missing
      BY <1>3 DEF AloneOK, Keys
    <2> QED
      BY <1>1, <1>4, <2>1 DEF CommandOK, IInv, Typed, StoresTyped, Texts, Values
  <1>6. /\ Follows(todo[r]) /\ MclkLast(todo[r])
        /\ \A k \in Keys : Now(r)[k] # Missing
        /\ Script(r) # "empty"
    BY DEF AloneOK, Prepared, Finishing
  <1>7. Chain(t) /\ MclkLast(t) /\ NoMode(t)
    <2>1. /\ Follows(t) /\ MclkLast(t) /\ NoMode(t)
          /\ t # <<>> => /\ Head(t).op = "write" => c.op = "erase"
                         /\ Head(t).op = "ln" => c.op = "rm"
      BY <1>1, <1>4, <1>6, TailOrder
    <2> QED
      BY <1>1, <2>1 DEF Chain
  <1>8. s \in Lists /\ u \in Lists
    BY <1>4, <1>5, ScriptLists, ListsJoin
  <1>9. /\ Chain(s) /\ NoMclk(s)
        /\ f["MCLK"] = v => LastGives(s, f, "MCLK")
        /\ f["MODE"] = x => LastGives(s, f, "MODE") \/ NoneSets(s, f, "MODE")
        /\ x = "ext" /\ f["MODE"] = x => LastGives(s, f, "s94")
        /\ x = "ext" /\ f["MODE"] = x /\ f["MCLK"] = v => LastGives(s, f, "flash")
        /\ x = "pll" /\ f["MCLK"] = v => LastGives(s, f, "mclk")
        /\ x = "ext" => OnlyExt(s)
        /\ \A p \in Places : \/ p \in {"MCLK", "MODE"}
                             \/ x = "ext" /\ p \in {"s94", "flash"}
                             \/ x = "pll" /\ p = "mclk"
                             \/ NoneSets(s, f, p)
    BY <1>5, MclkScriptSets
  <1> HIDE DEF s
  <1>10. Chain(u) /\ MclkLast(u) /\ (x = "ext" => OnlyExt(u))
    BY <1>4, <1>7, <1>8, <1>9, JoinOrder
  <1>11. \A p : /\ LastGives(t, f, p) => LastGives(u, f, p)
                /\ NoneSets(t, f, p) /\ LastGives(s, f, p) => LastGives(u, f, p)
                /\ NoneSets(t, f, p) /\ NoneSets(s, f, p) => NoneSets(u, f, p)
    BY <1>4, <1>8, JoinSets
  <1> HIDE DEF u
  <1>12. ASSUME NEW p \in Places, Wants(f, p), ~LastGives(t, f, p)
         PROVE  /\ NoneSets(t, f, p)
                /\ \/ Gives(c, f, p)
                   \/ ~Sets(c, f, p) /\ Is(r, p) = Want(f, p)
    <2>1. \/ LastGives(todo[r], f, p)
          \/ NoneSets(todo[r], f, p) /\ Is(r, p) = Want(f, p)
      BY <1>12 DEF AloneOK, Finishing, Settled
    <2> HIDE DEF c, t, f
    <2>2. /\ NoneSets(todo[r], f, p) => ~Sets(c, f, p) /\ NoneSets(t, f, p)
          /\ LastGives(todo[r], f, p) =>
               LastGives(t, f, p) \/ (Gives(c, f, p) /\ NoneSets(t, f, p))
      BY <1>4, TailSets DEF c, t
    <2> QED
      BY <1>12, <2>1, <2>2
  <1>13. "MODE" \in DOMAIN f => Is(r, "MODE") = f["MODE"] /\ f["MODE"] = x
    <2> SUFFICES ASSUME "MODE" \in DOMAIN f
                 PROVE  Is(r, "MODE") = f["MODE"] /\ f["MODE"] = x
      OBVIOUS
    <2>1. "MODE" \in Places /\ Wants(f, "MODE") /\ Want(f, "MODE") = f["MODE"]
      BY PlacesDiffer, FormWants DEF Wants
    <2>2. ~LastGives(t, f, "MODE")
      <3>1. "MODE" \notin Attributes
        BY PlacesDiffer
      <3> QED
        BY <1>7, <3>1 DEF LastGives, NoMode, Sets, SetsMode
    <2>3. ~Sets(c, f, "MODE")
      BY <1>1, <2>1, CommandSets
    <2>4. Is(r, "MODE") = f["MODE"]
      BY <1>12, <2>1, <2>2, <2>3 DEF Gives
    <2>5. Is(r, "MODE") = x
      BY <1>3, PlacesDiffer, PlaceIs
    <2> QED
      BY <2>4, <2>5
  <1>14. ASSUME NEW p \in Places, Wants(f, p)
         PROVE  LastGives(u, f, p) \/ (NoneSets(u, f, p) /\ Is(r, p)' = Want(f, p))
    <2>0. /\ {"MODE", "MCLK", "link", "s94", "flash"} \subseteq Places
          /\ "link" \notin Keys /\ "s94" \notin Keys /\ "flash" \notin Keys
          /\ "mclk" \notin Keys
          /\ {"MODE", "MCLK", "s94", "flash", "mclk"} \cap Attributes = {}
      BY PlacesDiffer
    <2>1. CASE LastGives(t, f, p)
      BY <1>11, <2>1
    <2>2. CASE ~LastGives(t, f, p)
      <3>1. /\ NoneSets(t, f, p)
            /\ Gives(c, f, p) \/ (~Sets(c, f, p) /\ Is(r, p) = Want(f, p))
        BY <1>12, <1>14, <2>2
      <3>2. CASE p = "MCLK"
        <4>1. Sets(c, f, p)
          BY <1>1, <3>2, CommandSets
        <4>2. Value(c, p) = v /\ Want(f, p) = f["MCLK"]
          BY <1>1, <3>2, PlacesDiffer, FormWants DEF Value
        <4>3. f["MCLK"] = v
          BY <3>1, <4>1, <4>2 DEF Gives
        <4> QED
          BY <1>9, <1>11, <3>1, <3>2, <4>3
      <3>3. CASE p = "MODE"
        <4>1. "MODE" \in DOMAIN f /\ Want(f, p) = f["MODE"]
          BY <1>14, <2>0, <3>3, PlacesDiffer, FormWants DEF Wants
        <4> QED
          BY <1>3, <1>9, <1>11, <1>13, <3>1, <3>3, <4>1
      <3>4. CASE p = "s94"
        <4>1. "MODE" \in DOMAIN f
          BY <1>4, <1>14, <2>0, <3>4 DEF Wants
        <4>2. f["MODE"] = x
          BY <1>13, <4>1
        <4>3. CASE x = "ext"
          BY <1>9, <1>11, <3>1, <3>4, <4>2, <4>3
        <4>4. CASE x # "ext"
          <5>1. ~Sets(c, f, p)
            BY <1>1, <3>4, <4>2, <4>4, CommandSets
          <5>2. NoneSets(s, f, p)
            BY <1>9, <3>4, <4>4
          <5> QED
            BY <1>3, <1>11, <3>1, <5>1, <5>2 DEF Gives
        <4> QED
          BY <4>3, <4>4
      <3>5. CASE p = "flash"
        <4>1. "MODE" \in DOMAIN f /\ "MCLK" \in DOMAIN f
          BY <1>4, <1>14, <2>0, <3>5 DEF Wants
        <4>2. f["MODE"] = x /\ f["MCLK"] \in Mclks
          BY <1>4, <1>13, <4>1 DEF Values
        <4>3. CASE x = "ext"
          <5>1. Sets(c, f, p)
            BY <1>1, <3>5, <4>2, <4>3, CommandSets
          <5>2. TreeOf("ext", v) = TreeOf("ext", f["MCLK"])
            BY <1>1, <3>1, <3>5, <4>2, <4>3, <5>1, FormWants DEF Gives, Value
          <5>3. f["MCLK"] = v
            BY <1>5, <4>2, <5>2 DEF TreeOf, Mclks
          <5> QED
            BY <1>9, <1>11, <3>1, <3>5, <4>2, <4>3, <5>3
        <4>4. CASE x # "ext"
          <5>1. ~Sets(c, f, p)
            BY <1>1, <3>5, <4>2, <4>4, CommandSets
          <5>2. NoneSets(s, f, p)
            BY <1>9, <3>5, <4>4
          <5> QED
            BY <1>3, <1>11, <3>1, <5>1, <5>2 DEF Gives
        <4> QED
          BY <4>3, <4>4
      <3>6. CASE p \notin {"MCLK", "MODE", "s94", "flash"}
        <4>0. p # "mclk"
          BY <1>4, <1>14, <2>0 DEF Wants
        <4>1. ~Sets(c, f, p)
          BY <1>1, <3>6, <4>0, CommandSets
        <4>2. NoneSets(s, f, p)
          BY <1>9, <3>6, <4>0
        <4> QED
          BY <1>3, <1>11, <3>1, <4>1, <4>2 DEF Gives
      <3> QED
        BY <3>2, <3>3, <3>4, <3>5, <3>6
    <2> QED
      BY <2>1, <2>2
  <1>17. ASSUME "MCLK" \in DOMAIN f
         PROVE  \/ LastGives(u, f, "mclk")
                \/ NoneSets(u, f, "mclk") /\ conf["MODE"] = "ext" /\ OnlyExt(u)
    <2>0. "mclk" \in Places
      BY PlacesDiffer
    <2>1. Sets(c, f, "mclk")
      BY <1>1, <2>0, CommandSets
    <2>2. LastGives(todo[r], f, "mclk")
      <3>1. LastGives(todo[r], f, "mclk") \/ NoneSets(todo[r], f, "mclk")
        BY <1>17 DEF AloneOK, Finishing, MclkSettled
      <3> QED
        BY <1>4, <2>1, <3>1, TailSets
    <2>3. LastGives(t, f, "mclk") \/ (Gives(c, f, "mclk") /\ NoneSets(t, f, "mclk"))
      BY <1>4, <2>2, TailSets
    <2>4. CASE LastGives(t, f, "mclk")
      BY <1>11, <2>4
    <2>5. CASE Gives(c, f, "mclk") /\ NoneSets(t, f, "mclk")
      <3>1. v = f["MCLK"]
        <4>1. Value(c, "mclk") = c.val /\ Want(f, "mclk") = f["MCLK"]
          BY <1>1, FormWants DEF Value
        <4> QED
          BY <2>5, <4>1 DEF Gives
      <3>2. CASE x = "pll"
        BY <1>9, <1>11, <2>5, <3>1, <3>2
      <3>3. CASE x = "ext"
        <4>1. NoneSets(s, f, "mclk")
          BY <1>9, <2>0, <3>3
        <4> QED
          BY <1>10, <1>11, <2>5, <3>3, <4>1
      <3> QED
        BY <1>5, <3>2, <3>3 DEF Modes
    <2> QED
      BY <2>3, <2>4, <2>5
  <1> HIDE DEF c, f, t, v, x
  <1>15. Finishing(r)'
    <2>1. Settled(r)'
      BY <1>2, <1>14 DEF Settled
    <2>2. MclkSettled(r)'
      BY <1>2, <1>3, <1>17 DEF MclkSettled
    <2> QED
      BY <1>2, <1>3, <1>4, <1>6, <2>1, <2>2 DEF Finishing
  <1>16. ASSUME u # <<>> PROVE AloneOK(r)'
    <2>1. Prepared(r)'
      BY <1>2, <1>10, <1>16 DEF Prepared, Chain
    <2> QED
      BY <1>2, <1>3, <1>4, <1>6, <1>15, <2>1 DEF AloneOK
  <1> QED
    BY <1>2, <1>15, <1>16 DEF Idle

LoneInv == IInv /\ LoneRequests /\ AppliedEverywhere /\ AppliedRuns

\* When nothing is left to set, all is as the form wants it.
LEMMA SettledIsApplied ==
  ASSUME NEW r \in Requests, Finishing(r)', todo'[r] = <<>>, at'[r] = 0,
         applied' = form'[r], ~booted'
  PROVE  AppliedEverywhere' /\ AppliedRuns' /\ ReadyForBoot'
  <1> DEFINE f == form'[r]
  <1>1. \A p : ~LastGives(<<>>, f, p)
    BY DEF LastGives
  <1>2. \A p \in Places : Wants(f, p) => Is(r, p)' = Want(f, p)
    BY <1>1 DEF Finishing, Settled
  <1>3. /\ f \in Forms /\ DOMAIN f \subseteq Keys
        /\ \A k \in DOMAIN f : f[k] \in Values(k)
    BY FormsAssumption DEF Finishing
  <1>4. Now(r)' = conf' /\ Script(r)' = s01' /\ s01' # "empty"
    BY DEF Now, Rewriting, Scripting, Script, Finishing
  <1>5. applied' = f
    OBVIOUS
  <1>10. "MCLK" \in DOMAIN f => sysfs'["MCLK"] = f["MCLK"] \/ conf'["MODE"] = "ext"
    BY <1>1, <1>4 DEF Finishing, MclkSettled
  <1> HIDE DEF f
  <1>6. \A k \in DOMAIN f : conf'[k] = f[k]
    BY <1>2, <1>3, <1>4, PlacesDiffer, FormWants, PlaceIs DEF Wants
  <1>7. "SUBMODE" \in DOMAIN f => link' = f["SUBMODE"]
    BY <1>2, PlacesDiffer, FormWants, PlaceIs DEF Wants
  <1>8. "MODE" \in DOMAIN f => s94' = f["MODE"]
    BY <1>2, PlacesDiffer, FormWants, PlaceIs DEF Wants
  <1>9. {"MODE", "MCLK"} \subseteq DOMAIN f => flash' = TreeOf(f["MODE"], f["MCLK"])
    BY <1>2, PlacesDiffer, FormWants, PlaceIs DEF Wants
  <1>11. "PCM_SWAP" \in DOMAIN f => s01' = f["PCM_SWAP"]
    BY <1>2, <1>4, PlacesDiffer, FormWants, PlaceIs DEF Wants
  <1>12. ASSUME NEW k \in Swaps \cap DOMAIN f PROVE sysfs'[k] = f[k]
    <2>1. PICK p \in Attributes : SwapOf(p) = k
      BY <1>12, SwapKeys DEF Attributes, SwapOf
    <2>2. Is(r, p)' = Want(f, p)
      BY <1>2, <1>12, <2>1, PlacesDiffer DEF Wants
    <2> QED
      BY <2>1, <2>2, FormWants, PlaceIs
  <1>13. AppliedEverywhere'
    BY <1>5, <1>6, <1>7, <1>8, <1>9 DEF AppliedEverywhere
  <1>14. AppliedRuns'
    BY <1>5, <1>10, <1>12 DEF AppliedRuns
  <1>15. ReadyForBoot'
    BY <1>3, <1>4, <1>5, <1>11 DEF ReadyForBoot
  <1> QED
    BY <1>13, <1>14, <1>15

LEMMA NothingApplied ==
  ASSUME applied = Nothing PROVE AppliedEverywhere /\ AppliedRuns
  BY DEF AppliedEverywhere, AppliedRuns, Nothing

\* The boot takes what was applied from flash, i2s.conf and the init scripts.
LEMMA BootRunsApplied ==
  ASSUME LoneInv, Boot PROVE AppliedRuns'
  <1>1. applied' = applied /\ conf' = conf /\ booted' = TRUE
    BY DEF Boot
  <1>2. /\ board' = [image |-> flash, direction |-> Direction(conf)]
        /\ sysfs' = SysfsAtBoot(conf, s01)
    BY DEF Boot
  <1>3. CASE applied = Nothing
    BY <1>1, <1>3 DEF AppliedRuns, Nothing
  <1>4. CASE applied # Nothing
    <2>1. /\ DOMAIN applied \subseteq Keys /\ s01 # "empty"
          /\ "PCM_SWAP" \in DOMAIN applied => s01 = applied["PCM_SWAP"]
          /\ \A k \in DOMAIN applied : /\ applied[k] \in Values(k)
                                       /\ conf[k] = applied[k]
      BY <1>4 DEF LoneInv, LoneRequests, ReadyForBoot, AppliedEverywhere
    <2>2. ASSUME NEW k \in Swaps \cap DOMAIN applied PROVE sysfs'[k] = applied[k]
      <3>1. k \in {"PCM_SWAP", "DSD_SWAP", "FREQ_SWAP"}
        BY SwapKeys
      <3>2. applied[k] \in {"0", "1"} /\ conf[k] # Missing
        BY <2>1, <3>1 DEF Values, Missing
      <3> QED
        BY <1>2, <2>1, <3>1, <3>2 DEF SysfsAtBoot
    <2>3. "MCLK" \in DOMAIN applied => sysfs'["MCLK"] = applied["MCLK"]
      <3>1. "MCLK" \in DOMAIN applied => applied["MCLK"] \in {"512", "1024"}
        BY <2>1 DEF Values, Mclks
      <3> QED
        BY <1>2, <2>1, <3>1 DEF SysfsAtBoot, Multiplier
    <2>4. {"MODE", "MCLK"} \subseteq DOMAIN applied =>
            board' = [image |-> TreeOf(applied["MODE"], applied["MCLK"]),
                      direction |-> applied["MODE"]]
      <3> SUFFICES ASSUME {"MODE", "MCLK"} \subseteq DOMAIN applied
                   PROVE  /\ flash = TreeOf(applied["MODE"], applied["MCLK"])
                          /\ Direction(conf) = applied["MODE"]
        BY <1>2
      <3>1. /\ flash = TreeOf(applied["MODE"], applied["MCLK"])
            /\ s94 \in {"both", applied["MODE"]}
        BY DEF LoneInv, AppliedEverywhere
      <3>2. conf["MODE"] = applied["MODE"] /\ applied["MODE"] # Missing
        BY <2>1 DEF Values, Modes, Missing
      <3> QED
        BY <3>1, <3>2 DEF Direction
    <2> QED
      BY <1>1, <2>2, <2>3, <2>4 DEF AppliedRuns
  <1> QED
    BY <1>3, <1>4

\* A step of a request, lone or not.
LEMMA LoneStep ==
  ASSUME LoneInv, NEW r \in Requests, RequestStep(r)
  PROVE  (LoneRequests /\ AppliedEverywhere /\ AppliedRuns)'
  <1> USE DEF LoneInv
  <1>1. ~Idle(r)
    BY DEF
       RequestStep, S94Sed, RemoveLink, MakeLink, WriteSysfs, flash_erase,
       nandwrite, ChooseMclkScript, SedReads, SedRenames, PhpReads,
       PhpTruncates, PhpWrites, InitReads, InitTruncates, InitWrites, At
  <1>2. /\ applied = Nothing /\ ~booted /\ On
        /\ \A q \in Requests : alone[q] => q = r
        /\ alone[r] => AloneOK(r) /\ \A q \in Requests : q = r \/ Idle(q)
        /\ form \in [Requests -> Forms \cup {Nothing}]
    BY <1>1 DEF LoneRequests
  <1>3. /\ form' = form /\ alone' = alone /\ booted' = booted /\ board' = board
        /\ \A q \in Requests : q # r => todo'[q] = todo[q]
    BY DEF
       IInv, Typed, RequestsTyped, RequestStep, S94Sed, RemoveLink,
       MakeLink, WriteSysfs, flash_erase, nandwrite, ChooseMclkScript,
       SedReads, SedRenames, PhpReads, PhpTruncates, PhpWrites, InitReads,
       InitTruncates, InitWrites, Advance, Within, history
  <1>4. \/ applied' = applied
        \/ applied' = form[r] /\ alone[r] /\ todo'[r] = <<>> /\ at'[r] = 0
    BY DEF
       IInv, Typed, RequestsTyped, RequestStep, S94Sed, RemoveLink,
       MakeLink, WriteSysfs, flash_erase, nandwrite, ChooseMclkScript,
       SedReads, SedRenames, PhpReads, PhpTruncates, PhpWrites, InitReads,
       InitTruncates, InitWrites, Advance, Within, history
  <1>5. ASSUME alone[r]
        PROVE  /\ ~Idle(r)' => AloneOK(r)'
               /\ Idle(r)' => Finishing(r)'
    <2>1. CASE \/ SedReads(r) \/ PhpReads(r) \/ InitReads(r)
               \/ PhpTruncates(r) \/ InitTruncates(r)
      <3>1. todo' = todo
        BY <2>1 DEF SedReads, PhpReads, InitReads, PhpTruncates, InitTruncates, Within
      <3> QED
        BY <1>1, <1>2, <1>5, <2>1, <3>1, LoneWithin DEF Idle
    <2>2. CASE \/ S94Sed(r) \/ RemoveLink(r) \/ MakeLink(r) \/ WriteSysfs(r)
               \/ flash_erase(r) \/ nandwrite(r)
      BY <1>1, <1>2, <1>5, <2>2, LoneStores
    <2>3. CASE SedRenames(r) \/ PhpWrites(r) \/ InitWrites(r)
      BY <1>1, <1>2, <1>5, <2>3, LoneWrites
    <2>4. CASE ChooseMclkScript(r)
      BY <1>1, <1>2, <1>5, <2>4, LoneChooses
    <2> QED
      BY <2>1, <2>2, <2>3, <2>4 DEF RequestStep
  <1>6. AppliedEverywhere' /\ AppliedRuns' /\ (applied' # Nothing => ReadyForBoot')
    <2>1. CASE applied' = applied
      BY <1>2, <2>1 DEF AppliedEverywhere, AppliedRuns, Nothing
    <2>2. CASE applied' = form[r] /\ alone[r] /\ todo'[r] = <<>> /\ at'[r] = 0
      <3>1. Finishing(r)'
        BY <1>5, <2>2 DEF Idle
      <3> QED
        BY <1>2, <1>3, <2>2, <3>1, SettledIsApplied
    <2> QED
      BY <1>4, <2>1, <2>2
  <1>7. LoneRequests'
    <2>1. \A q \in Requests : alone'[q] => \A p \in Requests : p = q \/ Idle(p)'
      BY <1>2, <1>3 DEF Idle
    <2>2. \A q \in Requests : alone'[q] /\ ~Idle(q)' => AloneOK(q)'
      BY <1>2, <1>3, <1>5
    <2>3. applied' # Nothing => \A q \in Requests : Idle(q)'
      BY <1>2, <1>3, <1>4 DEF Idle
    <2>4. ~booted' /\ On'
      BY <1>2, <1>3 DEF On
    <2> QED
      BY <1>2, <1>3, <1>6, <2>1, <2>2, <2>3, <2>4 DEF LoneRequests
  <1> QED
    BY <1>6, <1>7

\* A new request is lone, if it is, with all of its form still to be set.
LEMMA LonePost ==
  ASSUME LoneInv, NEW r \in Requests, Post(r)
  PROVE  (LoneRequests /\ AppliedEverywhere /\ AppliedRuns)'
  <1> USE DEF LoneInv
  <1>1. PICK f \in Forms : /\ todo' = [todo EXCEPT ![r] = CommandsOf(f)]
                           /\ form' = [form EXCEPT ![r] = f]
    BY DEF Post
  <1>2. /\ applied' = Nothing /\ ~booted' /\ On /\ board' = board
        /\ at' = at /\ Idle(r) /\ conf' = conf /\ s01' = s01
        /\ alone' = [q \in Requests |-> /\ q = r /\ Whole
                                        /\ \A p \in Requests : Idle(p)]
    BY DEF Post, stores
  <1>3. /\ form' \in [Requests -> Forms \cup {Nothing}] /\ form'[r] = f
        /\ todo'[r] = CommandsOf(f) /\ at'[r] = 0
        /\ \A q \in Requests : q # r => todo'[q] = todo[q]
    BY <1>1, <1>2 DEF LoneRequests, IInv, Typed, RequestsTyped, Idle
  <1>4. \A q \in Requests : alone'[q] => q = r /\ Whole /\ \A p \in Requests : Idle(p)
    BY <1>2
  <1>5. ASSUME alone'[r], ~Idle(r)' PROVE AloneOK(r)'
    <2>1. ~Rewriting(r)' /\ Now(r)' = conf /\ ~Scripting(r)' /\ Script(r)' = s01
      BY <1>2, <1>3 DEF Rewriting, Now, Scripting, Script
    <2>2. (\A k \in Keys : conf[k] # Missing) /\ s01 # "empty"
      BY <1>4, <1>5 DEF Whole
    <2>3. /\ Chain(CommandsOf(f)) /\ MclkLast(CommandsOf(f))
          /\ \A p \in Places : Wants(f, p) => LastGives(CommandsOf(f), f, p)
          /\ "MCLK" \in DOMAIN f => LastGives(CommandsOf(f), f, "mclk")
      BY FormSets
    <2>4. Settled(r)' /\ MclkSettled(r)'
      BY <1>3, <2>3 DEF Settled, MclkSettled
    <2>5. Prepared(r)'
      BY <1>3, <1>5, <2>3 DEF Prepared, Chain, Idle
    <2> QED
      BY <1>3, <2>1, <2>2, <2>4, <2>5 DEF AloneOK, Finishing
  <1>6. LoneRequests'
    <2>1. \A q \in Requests : alone'[q] => \A p \in Requests : p = q \/ Idle(p)'
      BY <1>3, <1>4 DEF Idle
    <2>2. \A q \in Requests : alone'[q] /\ ~Idle(q)' => AloneOK(q)'
      BY <1>4, <1>5
    <2>3. ~booted' /\ On'
      BY <1>2 DEF On
    <2> QED
      BY <1>2, <1>3, <2>1, <2>2, <2>3 DEF LoneRequests
  <1>7. AppliedEverywhere' /\ AppliedRuns'
    BY <1>2 DEF AppliedEverywhere, AppliedRuns, Nothing
  <1> QED
    BY <1>6, <1>7

LEMMA LonePower ==
  ASSUME LoneInv, PowerFails \/ Boot \/ UNCHANGED vars
  PROVE  (LoneRequests /\ AppliedEverywhere /\ AppliedRuns)'
  <1>1. /\ conf' = conf /\ link' = link /\ s94' = s94 /\ flash' = flash /\ s01' = s01
        /\ form' = form /\ alone' = alone /\ applied' = applied
    BY DEF PowerFails, Boot, vars, stores, history
  <1>2. AppliedEverywhere' /\ (ReadyForBoot => ReadyForBoot')
    BY <1>1 DEF LoneInv, AppliedEverywhere, ReadyForBoot
  <1>3. CASE PowerFails
    <2>1. \A q \in Requests : Idle(q)'
      BY <1>3 DEF PowerFails, Idle
    <2>2. AppliedRuns'
      BY <1>3 DEF PowerFails, AppliedRuns, On
    <2> QED
      BY <1>1, <1>2, <2>1, <2>2 DEF LoneInv, LoneRequests
  <1>4. CASE Boot
    <2>1. \A q \in Requests : Idle(q) /\ Idle(q)'
      BY <1>4 DEF LoneInv, LoneRequests, Boot, Idle, control
    <2>2. AppliedRuns'
      BY <1>4, BootRunsApplied
    <2> QED
      BY <1>1, <1>2, <2>1, <2>2 DEF LoneInv, LoneRequests
  <1>5. CASE UNCHANGED vars
    <2>1. /\ todo' = todo /\ at' = at /\ text' = text /\ opened' = opened
          /\ script' = script /\ sysfs' = sysfs /\ board' = board /\ booted' = booted
      BY <1>5 DEF vars, control, stores, history
    <2>2. \A q \in Requests :
            /\ Idle(q)' <=> Idle(q)
            /\ Now(q)' = Now(q) /\ (Rewriting(q)' <=> Rewriting(q))
            /\ Script(q)' = Script(q) /\ (Scripting(q)' <=> Scripting(q))
      BY <1>1, <2>1 DEF Idle, Now, Rewriting, Script, Scripting
    <2>3. \A q \in Requests : \A p \in Places : Is(q, p)' = Is(q, p)
      BY <1>1, <2>1, <2>2 DEF Is
    <2>4. \A q \in Requests : Finishing(q) => Finishing(q)'
      BY <1>1, <2>1, <2>2, <2>3 DEF Finishing, Settled, MclkSettled
    <2>5. \A q \in Requests : Prepared(q) => Prepared(q)'
      BY <1>1, <2>1 DEF Prepared
    <2>6. \A q \in Requests : AloneOK(q) => AloneOK(q)'
      BY <1>1, <2>1, <2>2, <2>4, <2>5 DEF AloneOK
    <2>7. AppliedRuns'
      BY <1>1, <2>1 DEF LoneInv, AppliedRuns, On
    <2> QED
      BY <1>1, <1>2, <2>1, <2>2, <2>6, <2>7 DEF LoneInv, LoneRequests, On
  <1> QED
    BY <1>3, <1>4, <1>5

\* The invariant that the two theorems below follow from: what a lone request
\* has done and has still to do (i2s.php and its scripts).
THEOREM LoneInvHolds == Spec => []LoneInv
  <1>1. Init => LoneInv
    <2>1. Init => LoneRequests
      <3>1. Init => form \in [Requests -> Forms \cup {Nothing}]
        BY DEF Init
      <3> QED
        BY <3>1 DEF Init, LoneRequests, Idle
    <2>2. Init => AppliedEverywhere /\ AppliedRuns
      BY NothingApplied DEF Init
    <2> QED
      BY <2>1, <2>2, InitIInv DEF LoneInv
  <1>2. LoneInv /\ [Next]_vars => LoneInv'
    <2>1. LoneInv /\ [Next]_vars => IInv'
      BY RequestKeeps, PostKeeps, PowerKeeps, StutterKeeps DEF Next, LoneInv
    <2>2. LoneInv /\ [Next]_vars => (LoneRequests /\ AppliedEverywhere /\ AppliedRuns)'
      BY LoneStep, LonePost, LonePower DEF Next
    <2> QED
      BY <2>1, <2>2 DEF LoneInv
  <1> QED
    BY <1>1, <1>2, PTL DEF Spec

\* A request that ran alone on whole files leaves every place in agreement
\* with its form, whatever earlier requests and power failures left (i2s.php
\* and its scripts).
THEOREM AloneMeansApplied == Spec => []AppliedEverywhere
  <1>1. LoneInv => AppliedEverywhere
    BY DEF LoneInv
  <1> QED
    BY <1>1, LoneInvHolds, PTL

\* What such a request has set is what the board runs with: the swaps and
\* pll's multiplier at once, all of it after the next boot (S01RkLunch,
\* S94ioi2s).
THEOREM AppliedIsWhatRuns == Spec => []AppliedRuns
  <1>1. LoneInv => AppliedRuns
    BY DEF LoneInv
  <1> QED
    BY <1>1, LoneInvHolds, PTL
=============================================================================
