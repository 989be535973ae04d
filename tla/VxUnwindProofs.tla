--------------------------- MODULE VxUnwindProofs ---------------------------
(***************************************************************************)
(* Proofs about VxUnwind, for any sizes of its tables and any capabilities *)
(* of the machine.                                                         *)
(*                                                                         *)
(* The operators take the three stacks as arguments, so that the lemmas    *)
(* can speak of those before a step and of those after it.  A place of the *)
(* text is a frame and an index of its open blocks; J gives the index of   *)
(* the block that each entry of a stack stands for, its frame is there.    *)
(***************************************************************************)
EXTENDS VxUnwind, FiniteSetTheorems, FunctionTheorems, WellFoundedInduction, TLAPS

Frame   == [base : Int, temps : Nat, open : Seq(Blocks)]
Handler == [frame : Nat, sp : Int, nsbox : Nat, catch : Seq(Blocks)]
Box     == [saved : SUBSET Caps, frame : Nat]
Index   == [Nat -> Nat]

Before(i, j, k, l) == i < k \/ (i = k /\ j < l)
Has(f, i, j)       == i \in 1..Len(f) /\ j \in 1..Len(f[i].open)

(* The entries of s are blocks of a kind, in the order of the text; ...    *)
Stack(f, s, J, kind) ==
  /\ \A k \in 1..Len(s) : /\ Has(f, s[k].frame, J[k])
                          /\ f[s[k].frame].open[J[k]].kind = kind
  /\ \A k, l \in 1..Len(s) :
       k < l => Before(s[k].frame, J[k], s[l].frame, J[l])

(* ... all of that kind are there.                                         *)
Covers(f, s, J, kind) ==
  \A i, j \in Nat :
    Has(f, i, j) /\ f[i].open[j].kind = kind =>
      \E k \in 1..Len(s) : s[k].frame = i /\ J[k] = j

(* A handler knows the blocks around its try, and how many sandboxes.      *)
Catches(f, hs, HJ) ==
  \A k \in 1..Len(hs) :
    /\ Len(hs[k].catch) + 1 = HJ[k]
    /\ \A j \in 1..Len(hs[k].catch) :
         hs[k].catch[j] = f[hs[k].frame].open[j]

Depths(hs, HJ, bs, BJ) ==
  \A k \in 1..Len(hs) :
    /\ hs[k].nsbox <= Len(bs)
    /\ \A l \in 1..Len(bs) :
         l <= hs[k].nsbox <=> Before(bs[l].frame, BJ[l], hs[k].frame, HJ[k])

(* The permissions inside of the first n sandboxes and of no other: those  *)
(* granted, less what these deny.                                          *)
At(bs, P, n) == IF n < Len(bs) THEN bs[n + 1].saved ELSE P

Saves(f, bs, BJ, P, iso, g) ==
  \A n \in 0..Len(bs) : \A c \in Caps :
    LET may == /\ c \in g
               /\ \A l \in 1..n : c \notin f[bs[l].frame].open[BJ[l]].deny
    IN  /\ c \in At(bs, P, n) => may
        /\ ~iso /\ may => c \in At(bs, P, n)

Sound(f, hs, bs, HJ, BJ) ==
  /\ Stack(f, hs, HJ, "try") /\ Stack(f, bs, BJ, "sbox")
  /\ Catches(f, hs, HJ) /\ Depths(hs, HJ, bs, BJ)

Types(f, hs, bs) ==
  /\ f \in Seq(Frame) /\ f # <<>> /\ hs \in Seq(Handler) /\ bs \in Seq(Box)
  /\ \A i \in 1..Len(f) : Len(f[i].open) <= MaxOpen

-----------------------------------------------------------------------------
(* g is f with its last places cut off.                                    *)
Cuts(g, f) ==
  /\ Len(g) <= Len(f)
  /\ \A i \in 1..Len(g) :
       /\ Len(g[i].open) <= Len(f[i].open)
       /\ i < Len(g) => Len(g[i].open) = Len(f[i].open)
       /\ \A j \in 1..Len(g[i].open) : g[i].open[j] = f[i].open[j]

Starts(t, s) == Len(t) <= Len(s) /\ \A k \in 1..Len(t) : t[k] = s[k]

LEMMA FrameSeq ==
  ASSUME NEW f \in Seq(Frame)
  PROVE  /\ Len(f) \in Nat /\ DOMAIN f = 1..Len(f)
         /\ \A i \in 1..Len(f) : /\ f[i].open \in Seq(Blocks)
                                 /\ Len(f[i].open) \in Nat
                                 /\ DOMAIN f[i].open = 1..Len(f[i].open)
                                 /\ f[i].base \in Int /\ f[i].temps \in Nat
                                 /\ f[i] \in Frame
                                 /\ \A j \in 1..Len(f[i].open) : f[i].open[j] \in Blocks
<1>1. Len(f) \in Nat /\ DOMAIN f = 1..Len(f) /\ \A i \in 1..Len(f) : f[i] \in Frame
  OBVIOUS
<1>2. \A x \in Frame : x.open \in Seq(Blocks) /\ x.base \in Int /\ x.temps \in Nat
  BY DEF Frame
<1>3. \A o \in Seq(Blocks) : /\ Len(o) \in Nat /\ DOMAIN o = 1..Len(o)
                             /\ \A j \in 1..Len(o) : o[j] \in Blocks
  OBVIOUS
<1>4. QED
  BY <1>1, <1>2, <1>3

LEMMA HandlerSeq ==
  ASSUME NEW s \in Seq(Handler)
  PROVE  /\ Len(s) \in Nat /\ DOMAIN s = 1..Len(s)
         /\ \A k \in 1..Len(s) : /\ s[k] \in Handler /\ s[k].frame \in Nat
                                 /\ s[k].sp \in Int /\ s[k].nsbox \in Nat
                                 /\ s[k].catch \in Seq(Blocks)
                                 /\ Len(s[k].catch) \in Nat
<1>1. Len(s) \in Nat /\ DOMAIN s = 1..Len(s) /\ \A i \in 1..Len(s) : s[i] \in Handler
  OBVIOUS
<1>2. \A x \in Handler : /\ x.frame \in Nat /\ x.sp \in Int /\ x.nsbox \in Nat
                         /\ x.catch \in Seq(Blocks)
  BY DEF Handler
<1>3. \A o \in Seq(Blocks) : Len(o) \in Nat
  OBVIOUS
<1>4. QED
  BY <1>1, <1>2, <1>3

LEMMA BoxSeq ==
  ASSUME NEW s \in Seq(Box)
  PROVE  /\ Len(s) \in Nat /\ DOMAIN s = 1..Len(s)
         /\ \A k \in 1..Len(s) : /\ s[k] \in Box /\ s[k].frame \in Nat
                                 /\ s[k].saved \in SUBSET Caps
<1>1. Len(s) \in Nat /\ DOMAIN s = 1..Len(s) /\ \A i \in 1..Len(s) : s[i] \in Box
  OBVIOUS
<1>2. \A x \in Box : x.frame \in Nat /\ x.saved \in SUBSET Caps
  BY DEF Box
<1>3. QED
  BY <1>1, <1>2

LEMMA CutHas ==
  ASSUME NEW f \in Seq(Frame), NEW g \in Seq(Frame), Cuts(g, f),
         NEW i, NEW j, Has(g, i, j)
  PROVE  Has(f, i, j) /\ g[i].open[j] = f[i].open[j]
  BY FrameSeq DEF Has, Cuts

(* What is cut off keeps the rest as it was ...                            *)
LEMMA CutSound ==
  ASSUME NEW f, NEW hs, NEW bs, Types(f, hs, bs),
         NEW g, NEW ht, NEW bt, Types(g, ht, bt),
         NEW HJ \in Index, NEW BJ \in Index, Sound(f, hs, bs, HJ, BJ),
         Cuts(g, f), Starts(ht, hs), Starts(bt, bs),
         \A k \in 1..Len(ht) : Has(g, hs[k].frame, HJ[k]),
         \A l \in 1..Len(bt) : Has(g, bs[l].frame, BJ[l]),
         \A k \in 1..Len(ht) : hs[k].nsbox <= Len(bt)
  PROVE  Sound(g, ht, bt, HJ, BJ)
<1>1. /\ Len(ht) \in Nat /\ Len(hs) \in Nat /\ Len(bt) \in Nat /\ Len(bs) \in Nat
      /\ Len(ht) <= Len(hs) /\ Len(bt) <= Len(bs)
  BY HandlerSeq, BoxSeq DEF Types, Starts
<1>2. \A k \in 1..Len(ht) : k \in 1..Len(hs) /\ ht[k] = hs[k]
  BY <1>1 DEF Starts
<1>3. \A l \in 1..Len(bt) : l \in 1..Len(bs) /\ bt[l] = bs[l]
  BY <1>1 DEF Starts
<1>4. \A i, j : Has(g, i, j) => /\ Has(f, i, j)
                                /\ g[i].open[j] = f[i].open[j]
  BY CutHas DEF Types
<1>5. Stack(g, ht, HJ, "try")
  <2>1. Stack(f, hs, HJ, "try")
    BY DEF Sound
  <2>2. ASSUME NEW k \in 1..Len(ht)
        PROVE  /\ Has(g, ht[k].frame, HJ[k])
               /\ g[ht[k].frame].open[HJ[k]].kind = "try"
    <3>1. k \in 1..Len(hs) /\ ht[k] = hs[k] /\ Has(g, hs[k].frame, HJ[k])
      BY <1>2
    <3>2. f[hs[k].frame].open[HJ[k]].kind = "try"
      BY <2>1, <3>1 DEF Stack
    <3>3. QED
      BY <1>4, <3>1, <3>2
  <2>3. ASSUME NEW k \in 1..Len(ht), NEW l \in 1..Len(ht), k < l
        PROVE  Before(ht[k].frame, HJ[k], ht[l].frame, HJ[l])
    BY <1>2, <2>1, <2>3 DEF Stack
  <2>4. QED
    BY <2>2, <2>3 DEF Stack
<1>6. Stack(g, bt, BJ, "sbox")
  <2>1. Stack(f, bs, BJ, "sbox")
    BY DEF Sound
  <2>2. ASSUME NEW k \in 1..Len(bt)
        PROVE  /\ Has(g, bt[k].frame, BJ[k])
               /\ g[bt[k].frame].open[BJ[k]].kind = "sbox"
    <3>1. k \in 1..Len(bs) /\ bt[k] = bs[k] /\ Has(g, bs[k].frame, BJ[k])
      BY <1>3
    <3>2. f[bs[k].frame].open[BJ[k]].kind = "sbox"
      BY <2>1, <3>1 DEF Stack
    <3>3. QED
      BY <1>4, <3>1, <3>2
  <2>3. ASSUME NEW k \in 1..Len(bt), NEW l \in 1..Len(bt), k < l
        PROVE  Before(bt[k].frame, BJ[k], bt[l].frame, BJ[l])
    BY <1>3, <2>1, <2>3 DEF Stack
  <2>4. QED
    BY <2>2, <2>3 DEF Stack
<1>7. Catches(g, ht, HJ)
  <2> SUFFICES ASSUME NEW k \in 1..Len(ht)
               PROVE  /\ Len(ht[k].catch) + 1 = HJ[k]
                      /\ \A j \in 1..Len(ht[k].catch) :
                           ht[k].catch[j] = g[ht[k].frame].open[j]
    BY DEF Catches
  <2>1. /\ Len(hs[k].catch) + 1 = HJ[k] /\ Len(hs[k].catch) \in Nat
        /\ \A j \in 1..Len(hs[k].catch) :
             hs[k].catch[j] = f[hs[k].frame].open[j]
    BY <1>2, HandlerSeq DEF Sound, Catches, Types
  <2>2. \A j \in 1..Len(hs[k].catch) : Has(g, hs[k].frame, j)
    <3>1. Has(g, hs[k].frame, HJ[k])
      OBVIOUS
    <3>2. Has(g, hs[k].frame, Len(hs[k].catch) + 1)
      BY <2>1, <3>1
    <3>3. Len(g[hs[k].frame].open) \in Nat
      BY <3>1, FrameSeq DEF Has, Types
    <3>4. QED
      BY <2>1, <3>2, <3>3 DEF Has
  <2>3. QED
    BY <1>2, <1>4, <2>1, <2>2
<1>8. Depths(ht, HJ, bt, BJ)
  BY <1>2, <1>3 DEF Sound, Depths
<1>9. QED
  BY <1>5, <1>6, <1>7, <1>8 DEF Sound

(* ... and lets the permissions out again.                                 *)
LEMMA CutSaves ==
  ASSUME NEW f, NEW hs, NEW bs, Types(f, hs, bs),
         NEW g, NEW ht, NEW bt, Types(g, ht, bt), NEW BJ \in Index,
         NEW P, NEW iso, NEW gr, Saves(f, bs, BJ, P, iso, gr),
         Cuts(g, f), Starts(bt, bs),
         \A l \in 1..Len(bt) : Has(g, bs[l].frame, BJ[l])
  PROVE  Saves(g, bt, BJ, At(bs, P, Len(bt)), iso, gr)
<1> DEFINE Q == At(bs, P, Len(bt))
<1>1. /\ Len(bt) \in Nat /\ Len(bs) \in Nat /\ Len(bt) <= Len(bs)
  BY BoxSeq DEF Types, Starts
<1>2. \A l \in 1..Len(bt) : l \in 1..Len(bs) /\ bt[l] = bs[l]
  BY <1>1 DEF Starts
<1>3. \A l \in 1..Len(bt) :
        g[bt[l].frame].open[BJ[l]] = f[bs[l].frame].open[BJ[l]]
  <2>1. f \in Seq(Frame) /\ g \in Seq(Frame)
    BY DEF Types
  <2>2. \A i, j : Has(g, i, j) => g[i].open[j] = f[i].open[j]
    BY <2>1, CutHas
  <2>3. QED
    BY <1>2, <2>2
<1>4. ASSUME NEW n \in 0..Len(bt)
      PROVE  At(bt, Q, n) = At(bs, P, n)
  <2>1. CASE n < Len(bt)
    <3>1. n + 1 \in 1..Len(bt) /\ n < Len(bs)
      BY <1>1, <2>1
    <3>2. QED
      BY <1>2, <2>1, <3>1 DEF At
  <2>2. CASE n = Len(bt)
    BY <1>1, <2>2 DEF At
  <2>3. QED
    BY <1>1, <2>1, <2>2
<1> HIDE DEF Q
<1>5. \A n \in 0..Len(bt) : n \in 0..Len(bs) /\ \A l \in 1..n : l \in 1..Len(bt)
  BY <1>1
<1>6. ASSUME NEW n \in 0..Len(bt), NEW c \in Caps
      PROVE  LET may == /\ c \in gr
                        /\ \A l \in 1..n : c \notin g[bt[l].frame].open[BJ[l]].deny
             IN  /\ c \in At(bt, Q, n) => may
                 /\ ~iso /\ may => c \in At(bt, Q, n)
  <2>1. /\ \A l \in 1..n : g[bt[l].frame].open[BJ[l]].deny = f[bs[l].frame].open[BJ[l]].deny
        /\ n \in 0..Len(bs)
    BY <1>3, <1>5
  <2>2. At(bt, Q, n) = At(bs, P, n)
    BY <1>4
  <2>3. QED
    BY <2>1, <2>2 DEF Saves
<1>7. Saves(g, bt, BJ, Q, iso, gr)
  BY <1>6 DEF Saves
<1>8. QED
  BY <1>7 DEF Q

-----------------------------------------------------------------------------
(* The permissions when the agent call that is under way returns.          *)
EPerms == IF asking.active THEN asking.perms ELSE perms
EIso   == IF asking.active THEN asking.isolated ELSE isolated

Asking ==
  /\ asking \in [active : BOOLEAN, perms : SUBSET Caps, isolated : BOOLEAN]
  /\ asking.active =>
       /\ status = "running" /\ todo = <<>> /\ isolated
       /\ perms \subseteq asking.perms

Ops == {"TRY_POP", "SBOX_EXIT", "break", "continue", "POP"}

TypeInv ==
  /\ Types(frames, handlers, sbox)
  /\ grant \in SUBSET Caps /\ perms \in SUBSET Caps /\ isolated \in BOOLEAN
  /\ sp \in Int /\ todo \in Seq(Ops) /\ Asking
  /\ status \in {"running", "done", "dead"}

(* In the middle of a break or continue the last n entries of a kind, the  *)
(* ones inside the loop at L, are still to be taken off; what is off       *)
(* already lies inside the loop too, after all that is on.                 *)
Leaving(f, s, J, kind, L, n) ==
  /\ n <= Len(s)
  /\ \A k \in 1..Len(s) : k > Len(s) - n <=> s[k].frame = Len(f) /\ J[k] > L
  /\ \A i, j \in Nat :
       Has(f, i, j) /\ f[i].open[j].kind = kind =>
         \/ \E k \in 1..Len(s) : s[k].frame = i /\ J[k] = j
         \/ /\ i = Len(f) /\ j > L
            /\ \A k \in 1..Len(s) : Before(s[k].frame, J[k], i, j)

(* What is left of the statement: pops, exits and the jump.                *)
Shape(t, a, b, kind) ==
  /\ Len(t) = a + b + 1
  /\ \A i \in 1..a : t[i] = "TRY_POP"
  /\ \A i \in (a + 1)..(a + b) : t[i] = "SBOX_EXIT"
  /\ t[a + b + 1] = kind

Jumping(HJ, BJ, L) ==
  \E a, b \in Nat, kind \in {"break", "continue"} :
    /\ Shape(todo, a, b, kind)
    /\ Has(frames, Len(frames), L) /\ frames[Len(frames)].open[L].kind = "loop"
    /\ Leaving(frames, handlers, HJ, "try", L, a)
    /\ Leaving(frames, sbox, BJ, "sbox", L, b)
    /\ a > 0 => Covers(frames, sbox, BJ, "sbox")

Resting == todo \in {<<>>, <<"POP">>}

Tracks(HJ, BJ) ==
  /\ Sound(frames, handlers, sbox, HJ, BJ)
  /\ Saves(frames, sbox, BJ, EPerms, EIso, grant)
  /\ Resting => /\ Covers(frames, handlers, HJ, "try")
                /\ Covers(frames, sbox, BJ, "sbox")
  /\ ~Resting => Jumping(HJ, BJ, InnermostLoop)

IInv ==
  TypeInv /\ (status = "running" => \E HJ, BJ \in Index : Tracks(HJ, BJ))

-----------------------------------------------------------------------------
LEMMA BeforeOrder ==
  ASSUME NEW i \in Nat, NEW j \in Nat, NEW k \in Nat, NEW l \in Nat
  PROVE  /\ ~(Before(i, j, k, l) /\ Before(k, l, i, j))
         /\ ~Before(i, j, i, j)
         /\ \A m, n \in Nat :
              Before(i, j, k, l) /\ Before(k, l, m, n) => Before(i, j, m, n)
  BY DEF Before

(* Where the entries of the stacks are.                                    *)
LEMMA Placed ==
  ASSUME NEW f, NEW hs, NEW bs, Types(f, hs, bs), NEW HJ \in Index, NEW BJ \in Index
  PROVE  /\ Len(f) \in Nat /\ Len(f) > 0 /\ Len(hs) \in Nat /\ Len(bs) \in Nat
         /\ \A k \in 1..Len(hs) : /\ hs[k].frame \in Nat /\ HJ[k] \in Nat
                                   /\ hs[k].nsbox \in Nat /\ hs[k].sp \in Int
                                   /\ hs[k].catch \in Seq(Blocks)
                                   /\ Len(hs[k].catch) \in Nat
         /\ \A k \in 1..Len(bs) : /\ bs[k].frame \in Nat /\ BJ[k] \in Nat
                                   /\ bs[k].saved \in SUBSET Caps
         /\ \A i \in 1..Len(f) : Len(f[i].open) \in Nat
<1>1. \A k : k \in 1..Len(hs) \/ k \in 1..Len(bs) => k \in Nat
  OBVIOUS
<1>2. f # <<>> /\ f \in Seq(Frame) => Len(f) > 0
  OBVIOUS
<1>3. QED
  BY <1>1, <1>2, FrameSeq, HandlerSeq, BoxSeq DEF Types, Index

(* Whatever the machine is doing, everything before the last handler is on *)
(* the stacks.                                                             *)
LEMMA CoveredBefore ==
  ASSUME TypeInv, NEW HJ \in Index, NEW BJ \in Index, Tracks(HJ, BJ),
         NEW n, n = Len(handlers), n > 0,
         NEW i \in Nat, NEW j \in Nat, Has(frames, i, j),
         Before(i, j, handlers[n].frame, HJ[n])
  PROVE  /\ frames[i].open[j].kind = "try" =>
              \E k \in 1..(n - 1) : handlers[k].frame = i /\ HJ[k] = j
         /\ frames[i].open[j].kind = "sbox" =>
              \E l \in 1..handlers[n].nsbox : sbox[l].frame = i /\ BJ[l] = j
<1>1. /\ n \in Nat /\ n \in 1..Len(handlers) /\ Len(frames) \in Nat /\ Len(sbox) \in Nat
      /\ handlers[n].frame \in 1..Len(frames) /\ handlers[n].frame \in Nat /\ HJ[n] \in Nat
      /\ handlers[n].nsbox \in Nat
  BY Placed DEF TypeInv, Tracks, Sound, Stack, Has
<1>2. ~Before(handlers[n].frame, HJ[n], i, j) /\ ~(handlers[n].frame = i /\ HJ[n] = j)
  BY <1>1, BeforeOrder
<1>3. i \in 1..Len(frames)
  BY DEF Has
<1>4. ASSUME NEW k \in 1..Len(handlers), handlers[k].frame = i, HJ[k] = j
      PROVE  k \in 1..(n - 1)
  BY <1>1, <1>2, <1>4
<1>5. ASSUME NEW l \in 1..Len(sbox), sbox[l].frame = i, BJ[l] = j
      PROVE  l \in 1..handlers[n].nsbox
  BY <1>1, <1>5 DEF Tracks, Sound, Depths
<1>6. CASE Resting
  <2>1. Covers(frames, handlers, HJ, "try") /\ Covers(frames, sbox, BJ, "sbox")
    BY <1>6 DEF Tracks
  <2>2. frames[i].open[j].kind = "try" =>
          \E k \in 1..Len(handlers) : handlers[k].frame = i /\ HJ[k] = j
    BY <2>1 DEF Covers
  <2>3. frames[i].open[j].kind = "sbox" =>
          \E l \in 1..Len(sbox) : sbox[l].frame = i /\ BJ[l] = j
    BY <2>1 DEF Covers
  <2>4. QED
    BY <1>4, <1>5, <2>2, <2>3
<1>7. CASE ~Resting
  <2> DEFINE L == InnermostLoop
  <2>1. PICK a, b \in Nat :
          /\ Has(frames, Len(frames), L)
          /\ Leaving(frames, handlers, HJ, "try", L, a)
          /\ Leaving(frames, sbox, BJ, "sbox", L, b)
          /\ a > 0 => Covers(frames, sbox, BJ, "sbox")
    BY <1>7 DEF Tracks, Jumping
  <2> HIDE DEF L
  <2>2. frames[i].open[j].kind = "try" =>
          \E k \in 1..Len(handlers) : handlers[k].frame = i /\ HJ[k] = j
    BY <1>1, <1>2, <2>1 DEF Leaving
  <2>3. ASSUME frames[i].open[j].kind = "sbox"
        PROVE  \E l \in 1..Len(sbox) : sbox[l].frame = i /\ BJ[l] = j
    <3>1. CASE a > 0
      BY <2>1, <2>3, <3>1 DEF Covers
    <3>2. CASE a = 0
      <4>1. ~(handlers[n].frame = Len(frames) /\ HJ[n] > L)
        BY <1>1, <2>1, <3>2 DEF Leaving
      <4>2. L \in Nat
        BY <2>1, Placed DEF Has, TypeInv
      <4>3. ~(i = Len(frames) /\ j > L)
        BY <1>1, <4>1, <4>2 DEF Before
      <4>4. QED
        BY <2>1, <2>3, <4>3 DEF Leaving
    <3>3. QED
      BY <2>1, <3>1, <3>2
  <2>4. QED
    BY <1>4, <1>5, <2>2, <2>3
<1>8. QED
  BY <1>6, <1>7

-----------------------------------------------------------------------------
(* The frames that are left when an error lands in the try at (m, c).      *)
LEMMA LandedFrames ==
  ASSUME NEW f \in Seq(Frame), NEW m \in 1..Len(f), NEW c \in Seq(Blocks),
         \A i \in 1..Len(f) : Len(f[i].open) <= MaxOpen,
         Len(c) + 1 \in 1..Len(f[m].open),
         \A j \in 1..Len(c) : c[j] = f[m].open[j]
  PROVE  LET g == Append(SubSeq(f, 1, m - 1), [f[m] EXCEPT !.open = c])
         IN  /\ g \in Seq(Frame) /\ g # <<>> /\ Len(g) = m
             /\ \A i \in 1..Len(g) : Len(g[i].open) <= MaxOpen
             /\ Cuts(g, f)
             /\ \A i, j \in Nat :
                  Has(g, i, j) <=> Has(f, i, j) /\ Before(i, j, m, Len(c) + 1)
<1> DEFINE x == [f[m] EXCEPT !.open = c]
           h == SubSeq(f, 1, m - 1)
           g == Append(h, x)
<1>1. /\ Len(f) \in Nat /\ m \in Nat /\ Len(c) \in Nat /\ f[m] \in Frame
      /\ \A i \in 1..Len(f) : Len(f[i].open) \in Nat
  BY FrameSeq
<1>2. x \in Frame /\ x.open = c
  BY <1>1 DEF Frame
<1>3. h \in Seq(Frame) /\ Len(h) = m - 1 /\ \A i \in 1..(m - 1) : h[i] = f[i]
  BY <1>1
<1> HIDE DEF x, h
<1>5. /\ g \in Seq(Frame) /\ Len(g) = m /\ g[m] = x
      /\ \A i \in 1..(m - 1) : g[i] = f[i]
  BY <1>1, <1>2, <1>3
<1> HIDE DEF g
<1>6. MaxOpen \in Nat
  BY UnwindAssumption
<1>7. \A i \in 1..Len(g) : i \in 1..(m - 1) \/ i = m
  BY <1>1, <1>5
<1>8. \A i \in 1..Len(g) : Len(g[i].open) <= MaxOpen
  BY <1>1, <1>2, <1>5, <1>6, <1>7
<1>9. Cuts(g, f)
  BY <1>1, <1>2, <1>5, <1>7 DEF Cuts
<1>10. \A i, j \in Nat : Has(g, i, j) <=> Has(f, i, j) /\ Before(i, j, m, Len(c) + 1)
  BY <1>1, <1>2, <1>5 DEF Has, Before
<1>11. g # <<>>
  <2>1. Len(g) > 0
    BY <1>1, <1>5
  <2>2. QED
    BY <2>1
<1>12. QED
  BY <1>5, <1>8, <1>9, <1>10, <1>11 DEF g, h, x

LEMMA PrefixStarts ==
  ASSUME NEW S, NEW s \in Seq(S), NEW n \in 0..Len(s)
  PROVE  SubSeq(s, 1, n) \in Seq(S) /\ Len(SubSeq(s, 1, n)) = n
         /\ Starts(SubSeq(s, 1, n), s)
  BY DEF Starts

(* An error that is caught (vm.c:91-100).                                  *)
LEMMA LandHolds ==
  ASSUME IInv, status = "running", handlers # <<>>,
         NEW h, h = Last(handlers),
         Land(h, Front(handlers), PermsBelow(h.nsbox), h.sp)
  PROVE  IInv'
<1>1. PICK HJ, BJ \in Index : Tracks(HJ, BJ)
  BY DEF IInv
<1> DEFINE n == Len(handlers)
           g == frames'
           ht == Front(handlers)
           bt == SubSeq(sbox, 1, h.nsbox)
<1>2. TypeInv /\ Types(frames, handlers, sbox)
  BY DEF IInv, TypeInv
<1>3. n \in Nat /\ n > 0 /\ h = handlers[n] /\ n \in 1..Len(handlers)
  BY <1>2, HandlerSeq DEF Types, Last
<1>4. /\ Len(frames) \in Nat /\ Len(sbox) \in Nat
      /\ h.frame \in Nat /\ HJ[n] \in Nat /\ h.nsbox \in Nat /\ h.sp \in Int
      /\ h.catch \in Seq(Blocks) /\ Len(h.catch) \in Nat
  BY <1>2, <1>3, Placed
<1>5. /\ Has(frames, h.frame, HJ[n]) /\ h.nsbox <= Len(sbox)
      /\ Len(h.catch) + 1 = HJ[n]
      /\ \A j \in 1..Len(h.catch) : h.catch[j] = frames[h.frame].open[j]
  BY <1>1, <1>3 DEF Tracks, Sound, Stack, Catches, Depths
<1>6. /\ handlers' = ht /\ frames' = g /\ sbox' = bt
      /\ perms' = At(sbox, perms, h.nsbox)
      /\ sp' = h.sp + 1 /\ todo' = <<"POP">> /\ asking' = NoAsk
      /\ UNCHANGED <<grant, isolated, status>>
  <2>1. Min({h.nsbox, Len(sbox)}) = h.nsbox
    BY <1>4, <1>5 DEF Min
  <2>2. QED
    BY <2>1 DEF Land, PermsBelow, At
<1>7. /\ g \in Seq(Frame) /\ g # <<>> /\ Len(g) = h.frame
      /\ \A i \in 1..Len(g) : Len(g[i].open) <= MaxOpen
      /\ Cuts(g, frames)
      /\ \A i, j \in Nat : Has(g, i, j) <=>
           Has(frames, i, j) /\ Before(i, j, h.frame, HJ[n])
  <2>1. frames \in Seq(Frame) /\ \A i \in 1..Len(frames) : Len(frames[i].open) <= MaxOpen
    BY <1>2 DEF Types
  <2>2. h.frame \in 1..Len(frames) /\ HJ[n] \in 1..Len(frames[h.frame].open)
    BY <1>5 DEF Has
  <2>3. g = Append(SubSeq(frames, 1, h.frame - 1),
                   [frames[h.frame] EXCEPT !.open = h.catch])
    BY DEF Land
  <2> HIDE DEF g, n
  <2> DEFINE m == h.frame
             c == h.catch
  <2>4. /\ m \in 1..Len(frames) /\ c \in Seq(Blocks)
        /\ Len(c) + 1 \in 1..Len(frames[m].open)
        /\ \A j \in 1..Len(c) : c[j] = frames[m].open[j]
        /\ g = Append(SubSeq(frames, 1, m - 1), [frames[m] EXCEPT !.open = c])
    BY <1>4, <1>5, <2>2, <2>3
  <2> HIDE DEF m, c
  <2>5. /\ g \in Seq(Frame) /\ g # <<>> /\ Len(g) = m
        /\ \A i \in 1..Len(g) : Len(g[i].open) <= MaxOpen
        /\ Cuts(g, frames)
        /\ \A i, j \in Nat : Has(g, i, j) <=>
             Has(frames, i, j) /\ Before(i, j, m, Len(c) + 1)
    BY <2>1, <2>4, LandedFrames
  <2>6. QED
    BY <1>5, <2>5 DEF m, c
<1>8. /\ ht \in Seq(Handler) /\ Len(ht) = n - 1 /\ Starts(ht, handlers)
      /\ bt \in Seq(Box) /\ Len(bt) = h.nsbox /\ Starts(bt, sbox)
  <2>1. handlers \in Seq(Handler) /\ n - 1 \in 0..Len(handlers)
    BY <1>2, <1>3 DEF Types
  <2>2. ht = SubSeq(handlers, 1, n - 1)
    BY DEF Front
  <2>3. sbox \in Seq(Box) /\ h.nsbox \in 0..Len(sbox)
    BY <1>2, <1>4, <1>5 DEF Types
  <2> HIDE DEF n
  <2>4. /\ SubSeq(handlers, 1, n - 1) \in Seq(Handler)
        /\ Len(SubSeq(handlers, 1, n - 1)) = n - 1
        /\ Starts(SubSeq(handlers, 1, n - 1), handlers)
    BY <2>1, PrefixStarts
  <2>5. bt \in Seq(Box) /\ Len(bt) = h.nsbox /\ Starts(bt, sbox)
    BY <2>3, PrefixStarts
  <2> HIDE DEF ht, bt
  <2>6. QED
    BY <2>2, <2>4, <2>5
<1> HIDE DEF g, ht, bt, n
<1>9. Types(g, ht, bt)
  BY <1>7, <1>8 DEF Types
<1>9a. \A i, j : Has(g, i, j) => g[i].open[j] = frames[i].open[j]
  <2>1. frames \in Seq(Frame) /\ g \in Seq(Frame) /\ Cuts(g, frames)
    BY <1>2, <1>7 DEF Types
  <2>2. QED
    BY <2>1, CutHas
<1>10. \A k \in 1..Len(ht) : /\ k \in 1..Len(handlers)
                             /\ Before(handlers[k].frame, HJ[k], h.frame, HJ[n])
  BY <1>1, <1>3, <1>8 DEF Tracks, Sound, Stack, n
<1>11. \A k \in 1..Len(ht) : Has(g, handlers[k].frame, HJ[k])
  BY <1>1, <1>2, <1>7, <1>10, Placed DEF Tracks, Sound, Stack
<1>12. \A l \in 1..Len(bt) : Has(g, sbox[l].frame, BJ[l])
  <2>1. \A l \in 1..Len(bt) : l \in 1..Len(sbox) /\ l <= h.nsbox
    BY <1>4, <1>5, <1>8
  <2>2. \A l \in 1..Len(bt) : /\ Has(frames, sbox[l].frame, BJ[l])
                              /\ Before(sbox[l].frame, BJ[l], h.frame, HJ[n])
    BY <1>1, <1>3, <2>1 DEF Tracks, Sound, Stack, Depths
  <2>3. QED
    BY <1>2, <1>7, <2>1, <2>2, Placed
<1>13. \A k \in 1..Len(ht) : handlers[k].nsbox <= Len(bt)
  <2> SUFFICES ASSUME NEW k \in 1..Len(ht), handlers[k].nsbox > h.nsbox
               PROVE  FALSE
    BY <1>2, <1>4, <1>8, <1>10, Placed
  <2> DEFINE l == h.nsbox + 1
  <2>1. /\ handlers[k].nsbox \in Nat /\ handlers[k].nsbox <= Len(sbox)
        /\ handlers[k].frame \in Nat /\ HJ[k] \in Nat
    BY <1>1, <1>2, <1>10, Placed DEF Tracks, Sound, Depths
  <2>2. l \in 1..Len(sbox) /\ l <= handlers[k].nsbox /\ ~(l <= h.nsbox)
    BY <1>4, <2>1
  <2> HIDE DEF l
  <2>3. /\ Before(sbox[l].frame, BJ[l], handlers[k].frame, HJ[k])
        /\ ~Before(sbox[l].frame, BJ[l], h.frame, HJ[n])
    BY <1>1, <1>3, <1>10, <2>2 DEF Tracks, Sound, Depths
  <2>4. sbox[l].frame \in Nat /\ BJ[l] \in Nat
    BY <1>2, <2>2, Placed
  <2>5. Before(handlers[k].frame, HJ[k], h.frame, HJ[n])
    BY <1>10
  <2>6. Before(sbox[l].frame, BJ[l], h.frame, HJ[n])
    <3>1. /\ h.frame \in Nat /\ HJ[n] \in Nat /\ handlers[k].frame \in Nat
          /\ HJ[k] \in Nat /\ sbox[l].frame \in Nat /\ BJ[l] \in Nat
      BY <1>4, <2>1, <2>4
    <3>2. QED
      BY <2>3, <2>5, <3>1 DEF Before
  <2>7. QED
    BY <2>3, <2>6
<1>14. Sound(g, ht, bt, HJ, BJ)
  BY <1>1, <1>2, <1>7, <1>8, <1>9, <1>11, <1>12, <1>13, CutSound DEF Tracks
<1>15. Saves(g, bt, BJ, perms', isolated, grant)
  <2>1. Saves(frames, sbox, BJ, perms, isolated, grant)
    <3>1. CASE asking.active
      <4>1. Saves(frames, sbox, BJ, asking.perms, EIso, grant)
        BY <1>1, <3>1 DEF Tracks, EPerms
      <4>2. isolated /\ perms \subseteq asking.perms
        BY <1>2, <3>1 DEF TypeInv, Asking
      <4>3. QED
        BY <4>1, <4>2 DEF Saves, At
    <3>2. CASE ~asking.active
      BY <1>1, <3>2 DEF Tracks, EPerms, EIso
    <3>3. QED
      BY <3>1, <3>2
  <2>2. Saves(g, bt, BJ, At(sbox, perms, Len(bt)), isolated, grant)
    BY <1>2, <1>7, <1>8, <1>9, <1>12, <2>1, CutSaves
  <2>3. QED
    BY <1>6, <1>8, <2>2
<1>16. Covers(g, ht, HJ, "try")
  <2> SUFFICES ASSUME NEW i \in Nat, NEW j \in Nat,
                      Has(g, i, j), g[i].open[j].kind = "try"
               PROVE  \E k \in 1..Len(ht) : ht[k].frame = i /\ HJ[k] = j
    BY DEF Covers
  <2>1. /\ Has(frames, i, j) /\ Before(i, j, h.frame, HJ[n])
        /\ frames[i].open[j].kind = "try"
    BY <1>7, <1>9a
  <2>2. \E k \in 1..(n - 1) : handlers[k].frame = i /\ HJ[k] = j
    BY <1>1, <1>2, <1>3, <2>1, CoveredBefore DEF n
  <2>3. QED
    BY <1>8, <2>2 DEF Starts
<1>17. Covers(g, bt, BJ, "sbox")
  <2> SUFFICES ASSUME NEW i \in Nat, NEW j \in Nat,
                      Has(g, i, j), g[i].open[j].kind = "sbox"
               PROVE  \E l \in 1..Len(bt) : bt[l].frame = i /\ BJ[l] = j
    BY DEF Covers
  <2>1. /\ Has(frames, i, j) /\ Before(i, j, h.frame, HJ[n])
        /\ frames[i].open[j].kind = "sbox"
    BY <1>7, <1>9a
  <2>2. \E l \in 1..h.nsbox : sbox[l].frame = i /\ BJ[l] = j
    BY <1>1, <1>2, <1>3, <2>1, CoveredBefore DEF n
  <2>3. QED
    BY <1>8, <2>2 DEF Starts
<1>18. perms' \in SUBSET Caps
  <2>1. CASE h.nsbox < Len(sbox)
    <3>1. h.nsbox + 1 \in 1..Len(sbox)
      BY <1>4, <2>1
    <3>2. QED
      BY <1>2, <1>6, <2>1, <3>1, Placed DEF At
  <2>2. CASE ~(h.nsbox < Len(sbox))
    BY <1>2, <1>6, <2>2 DEF At, TypeInv
  <2>3. QED
    BY <2>1, <2>2
<1>19. Asking' /\ EPerms' = perms' /\ EIso' = isolated'
  BY <1>6 DEF Asking, NoAsk, EPerms, EIso
<1>20. TypeInv'
  <2>1. <<"POP">> \in Seq(Ops)
    BY DEF Ops
  <2>2. QED
    BY <1>2, <1>4, <1>6, <1>9, <1>18, <1>19, <2>1 DEF TypeInv
<1>21. Tracks(HJ, BJ)'
  <2>1. /\ Sound(frames', handlers', sbox', HJ, BJ)
        /\ Saves(frames', sbox', BJ, EPerms', EIso', grant')
        /\ Covers(frames', handlers', HJ, "try")
        /\ Covers(frames', sbox', BJ, "sbox")
    BY <1>6, <1>14, <1>15, <1>16, <1>17, <1>19
  <2>2. Resting'
    BY <1>6 DEF Resting
  <2>3. QED
    BY <2>1, <2>2 DEF Tracks
<1>22. QED
  BY <1>20, <1>21 DEF IInv

-----------------------------------------------------------------------------
(* A set of naturals has a least element, and a greatest if it is bounded. *)
LEMMA LeastNatural ==
  ASSUME NEW T \in SUBSET Nat, T # {}
  PROVE  \E m \in T : \A x \in T : ~(x < m)
<1>1. PICK m \in T : \A x \in T : <<x, m>> \notin OpToRel(<, Nat)
  BY NatLessThanWellFounded, WFMin
<1>2. \A x \in T : ~(x < m)
  BY <1>1, Zenon DEF OpToRel
<1>3. QED
  BY <1>2

LEMMA GreatestNatural ==
  ASSUME NEW N \in Nat, NEW T \in SUBSET (0..N), T # {}
  PROVE  Max(T) \in T /\ \A x \in T : x <= Max(T)
<1> DEFINE D == {N - x : x \in T}
<1>1. D \in SUBSET Nat /\ D # {}
  <2>1. \A x \in 0..N : N - x \in Nat
    OBVIOUS
  <2>2. PICK t \in T : TRUE
    OBVIOUS
  <2>3. N - t \in D
    OBVIOUS
  <2>4. QED
    BY <2>1, <2>3
<1>2. PICK m \in D : \A x \in D : ~(x < m)
  <2> HIDE DEF D
  <2>1. QED
    BY <1>1, LeastNatural
<1>3. N - m \in T /\ \A y \in T : N - m >= y
  BY <1>2
<1>4. Max(T) \in T /\ \A y \in T : Max(T) >= y
  BY <1>3 DEF Max
<1>5. \A y \in 0..N : y \in Int
  OBVIOUS
<1> HIDE DEF D
<1>6. \A y \in T : y \in Int
  BY <1>5
<1>7. QED
  BY <1>4, <1>6

(* The entries that the running frame has not opened are the lower ones.   *)
LEMMA KeepPrefix ==
  ASSUME NEW S, NEW s \in Seq(S), Top \in Nat,
         \A k \in 1..Len(s) : s[k].frame \in Nat /\ s[k].frame <= Top,
         \A k, l \in 1..Len(s) : k < l => s[k].frame <= s[l].frame
  PROVE  \E n \in 0..Len(s) : /\ Keep(s) = SubSeq(s, 1, n)
                              /\ \A k \in 1..n : s[k].frame < Top
                              /\ \A k \in 1..Len(s) : k > n => s[k].frame = Top
<1> DEFINE T == {0} \cup {i \in DOMAIN s : s[i].frame # Top}
           n == Max(T)
<1>1. Len(s) \in Nat /\ DOMAIN s = 1..Len(s)
  OBVIOUS
<1>2. T \in SUBSET (0..Len(s)) /\ T # {}
  BY <1>1
<1>3. n \in T /\ \A x \in T : x <= n
  <2> HIDE DEF T
  <2>1. QED
    BY <1>1, <1>2, GreatestNatural
<1>4. Keep(s) = SubSeq(s, 1, n)
  BY DEF Keep
<1> HIDE DEF n
<1>5. n \in 0..Len(s)
  BY <1>2, <1>3
<1>6. \A k \in 1..n : s[k].frame < Top
  BY <1>1, <1>3, <1>5
<1>7. \A k \in 1..Len(s) : k > n => s[k].frame = Top
  BY <1>1, <1>3, <1>5
<1>8. QED
  BY <1>4, <1>5, <1>6, <1>7

LEMMA InnermostLoopIs ==
  ASSUME Types(frames, handlers, sbox), InnermostLoop > 0
  PROVE  /\ Has(frames, Len(frames), InnermostLoop)
         /\ frames[Len(frames)].open[InnermostLoop].kind = "loop"
<1> DEFINE I == {i \in 1..Len(Open) : IsLoop(Open[i])}
<1>1. /\ Len(frames) \in 1..Len(frames) /\ Open = frames[Len(frames)].open
      /\ Len(Open) \in Nat
  BY FrameSeq DEF Types, Open, Top
<1>2. InnermostLoop = IF I # {} THEN Max(I) ELSE 0
  BY DEF InnermostLoop, SelectLastInSeq
<1>3. I # {} /\ InnermostLoop = Max(I) /\ I \in SUBSET (0..Len(Open))
  BY <1>1, <1>2
<1>4. InnermostLoop \in I
  <2> HIDE DEF I
  <2>1. QED
    BY <1>1, <1>3, GreatestNatural
<1>5. QED
  BY <1>1, <1>4 DEF Has, IsLoop

(* The blocks of a kind inside the loop are the last entries of its stack, *)
(* and pop_tries_to_loop counts them.                                      *)
InsideOf(f, L, kind) ==
  {j \in 1..Len(f[Len(f)].open) : j > L /\ f[Len(f)].open[j].kind = kind}

LEMMA Counted ==
  ASSUME NEW f \in Seq(Frame), f # <<>>, NEW s, Len(s) \in Nat, NEW J \in Index,
         NEW kind, NEW L \in Nat,
         Stack(f, s, J, kind), Covers(f, s, J, kind)
  PROVE  /\ Cardinality(InsideOf(f, L, kind)) \in Nat
         /\ Leaving(f, s, J, kind, L, Cardinality(InsideOf(f, L, kind)))
<1> DEFINE I == InsideOf(f, L, kind)
<1> USE DEF InsideOf
<1> DEFINE t == Len(f)
           In(k) == s[k].frame = t /\ J[k] > L
           T == {0} \cup {k \in 1..Len(s) : ~In(k)}
           c == Max(T)
           m == Len(s) - c
           F == [k \in 1..m |-> J[c + k]]
<1>1. /\ t \in 1..Len(f) /\ t \in Nat /\ Len(f[t].open) \in Nat
      /\ \A k \in 1..Len(s) : /\ s[k].frame \in Nat /\ s[k].frame <= t /\ J[k] \in Nat
                              /\ J[k] \in 1..Len(f[s[k].frame].open)
  <2>1. t \in 1..Len(f) /\ t \in Nat
    OBVIOUS
  <2>2. \A i \in 1..t : i \in Nat /\ i <= t /\ Len(f[i].open) \in Nat
    BY <2>1, FrameSeq
  <2>3. \A k \in 1..Len(s) : s[k].frame \in 1..t /\ J[k] \in 1..Len(f[s[k].frame].open)
    BY DEF Stack, Has
  <2>4. \A k \in 1..Len(s) : J[k] \in Nat
    BY DEF Index
  <2> HIDE DEF t
  <2>5. QED
    BY <2>1, <2>2, <2>3, <2>4 DEF t
<1>2. T \in SUBSET (0..Len(s)) /\ T # {}
  OBVIOUS
<1>3. c \in T /\ \A x \in T : x <= c
  <2> HIDE DEF T
  <2>1. QED
    BY <1>2, GreatestNatural
<1>4. c \in 0..Len(s)
  BY <1>2, <1>3
<1> HIDE DEF c
<1>5. \A k \in 1..Len(s) : k > c => In(k)
  BY <1>3, <1>4
<1>6. ASSUME NEW k \in 1..Len(s), ~(k > c) PROVE ~In(k)
  <2>1. c \in 1..Len(s) /\ ~In(c)
    BY <1>3, <1>4, <1>6
  <2>2. CASE k = c
    BY <2>1, <2>2
  <2>3. CASE k # c
    <3>1. Before(s[k].frame, J[k], s[c].frame, J[c])
      BY <1>4, <1>6, <2>1, <2>3 DEF Stack
    <3>2. QED
      BY <1>1, <2>1, <3>1 DEF Before
  <2>4. QED
    BY <2>2, <2>3
<1>7. \A k \in 1..Len(s) : k > c <=> In(k)
  BY <1>5, <1>6
<1>8. m \in Nat /\ \A k \in 1..m : c + k \in 1..Len(s) /\ In(c + k)
  BY <1>4, <1>7
<1>9. F \in [1..m -> I]
  <2> SUFFICES ASSUME NEW k \in 1..m PROVE J[c + k] \in I
    OBVIOUS
  <2>1. c + k \in 1..Len(s) /\ In(c + k)
    BY <1>8
  <2>2. f[t].open[J[c + k]].kind = kind
    BY <2>1 DEF Stack
  <2>3. QED
    BY <1>1, <2>1, <2>2
<1>10. \A k, l \in 1..m : k < l => F[k] < F[l]
  <2> SUFFICES ASSUME NEW k \in 1..m, NEW l \in 1..m, k < l PROVE J[c + k] < J[c + l]
    OBVIOUS
  <2>1. c + k \in 1..Len(s) /\ c + l \in 1..Len(s) /\ c + k < c + l
    BY <1>4, <1>8
  <2>2. Before(s[c + k].frame, J[c + k], s[c + l].frame, J[c + l])
    BY <2>1 DEF Stack
  <2>3. s[c + k].frame = t /\ s[c + l].frame = t
    BY <1>8
  <2>4. QED
    BY <1>1, <2>2, <2>3 DEF Before
<1>11. \A j \in I : \E k \in 1..m : F[k] = j
  <2> SUFFICES ASSUME NEW j \in I PROVE \E k \in 1..m : F[k] = j
    OBVIOUS
  <2>1. j \in Nat /\ Has(f, t, j) /\ f[t].open[j].kind = kind /\ j > L
    BY <1>1 DEF Has
  <2>2. PICK k \in 1..Len(s) : s[k].frame = t /\ J[k] = j
    BY <1>1, <2>1 DEF Covers
  <2>3. k > c
    BY <1>7, <2>1, <2>2
  <2>4. k - c \in 1..m /\ c + (k - c) = k
    BY <1>4, <2>3
  <2>5. QED
    BY <2>2, <2>4
<1>12. Cardinality(I) = m
  <2> HIDE DEF F, m
  <2>1. \A k, l \in 1..m : F[k] = F[l] => k = l
    <3> SUFFICES ASSUME NEW k \in 1..m, NEW l \in 1..m, F[k] = F[l], k # l PROVE FALSE
      OBVIOUS
    <3>1. F[k] \in Int /\ F[l] \in Int /\ (k < l \/ l < k)
      <4>1. I \subseteq Int
        OBVIOUS
      <4>2. k < l \/ l < k
        BY <1>8
      <4>3. QED
        BY <1>9, <4>1, <4>2
    <3>2. QED
      BY <1>10, <3>1
  <2>2. F \in Bijection(1..m, I)
    BY <1>9, <1>11, <2>1 DEF Bijection, Injection, Surjection, IsInjective
  <2>3. ExistsBijection(1..m, I)
    BY <2>2 DEF ExistsBijection
  <2>4. QED
    BY <1>8, <2>3, FS_CountingElements
<1>13. Leaving(f, s, J, kind, L, m)
  <2>1. m <= Len(s) /\ Len(s) - m = c
    BY <1>4
  <2>2. \A k \in 1..Len(s) : k > Len(s) - m <=> s[k].frame = Len(f) /\ J[k] > L
    BY <1>7, <2>1
  <2>3. QED
    BY <2>1, <2>2 DEF Leaving, Covers
<1>14. QED
  BY <1>8, <1>12, <1>13

-----------------------------------------------------------------------------
(* The program is in the m-th block of the t-th frame, the running one.    *)
AtEnd(f, t, m) == Has(f, t, m) /\ t = Len(f) /\ m = Len(f[t].open)

(* The running frame with its first n blocks, and with one block more.     *)
Trimmed(f, t, n) == [f EXCEPT ![t].open = SubSeq(f[t].open, 1, n)]
Grown(f, t, b)   == [f EXCEPT ![t].open = Append(f[t].open, b)]

Limited(f) == /\ f \in Seq(Frame) /\ f # <<>>
              /\ \A i \in 1..Len(f) : Len(f[i].open) <= MaxOpen

LEMMA TrimFrames ==
  ASSUME NEW f, Limited(f), NEW t, NEW m, AtEnd(f, t, m), NEW n \in 0..m
  PROVE  /\ Limited(Trimmed(f, t, n)) /\ Len(Trimmed(f, t, n)) = t
         /\ Cuts(Trimmed(f, t, n), f)
         /\ \A i, j \in Nat : Has(Trimmed(f, t, n), i, j)
                               <=> Has(f, i, j) /\ (i = t => j <= n)
<1> USE DEF Limited, AtEnd
<1> DEFINE c == SubSeq(f[t].open, 1, n)
           x == [f[t] EXCEPT !.open = c]
           g == [f EXCEPT ![t].open = c]
<1>1. /\ t \in Nat /\ t \in 1..Len(f) /\ f[t] \in Frame /\ f[t].open \in Seq(Blocks)
      /\ Len(f[t].open) \in Nat /\ n \in Nat
      /\ \A i \in 1..Len(f) : Len(f[i].open) \in Nat
  BY FrameSeq
<1>2. c \in Seq(Blocks) /\ Len(c) = n /\ \A j \in 1..n : c[j] = f[t].open[j]
  BY <1>1
<1> HIDE DEF c
<1>3. x \in Frame /\ x.open = c
  BY <1>1, <1>2 DEF Frame
<1>4. g = [f EXCEPT ![t] = x]
  BY <1>1
<1> HIDE DEF x
<1>5. g \in Seq(Frame) /\ Len(g) = t /\ g[t] = x /\ \A i \in 1..t : i # t => g[i] = f[i]
  BY <1>1, <1>3, <1>4
<1> HIDE DEF g
<1>6. MaxOpen \in Nat
  BY UnwindAssumption
<1>7. \A i \in 1..Len(g) : Len(g[i].open) <= MaxOpen
  BY <1>1, <1>2, <1>3, <1>5, <1>6
<1>8. Cuts(g, f)
  BY <1>1, <1>2, <1>3, <1>5 DEF Cuts
<1>9. \A i, j \in Nat : Has(g, i, j) <=> Has(f, i, j) /\ (i = t => j <= n)
  BY <1>1, <1>2, <1>3, <1>5 DEF Has
<1>10. g # <<>>
  BY <1>1, <1>5
<1>11. QED
  BY <1>5, <1>7, <1>8, <1>9, <1>10 DEF g, c, Trimmed

(* g is f with the block b opened in its running frame.                    *)
Extends(g, f, t, m, b) ==
  /\ Len(g) = Len(f) /\ AtEnd(g, t, m) /\ g[t].open[m] = b
  /\ \A i, j : Has(f, i, j) => Has(g, i, j) /\ g[i].open[j] = f[i].open[j]
  /\ \A i, j \in Nat : Has(g, i, j) <=> Has(f, i, j) \/ (i = t /\ j = m)
  /\ \A i, j \in Nat : Has(f, i, j) => Before(i, j, t, m)
  /\ t \in Nat /\ m \in Nat

LEMMA GrowFrames ==
  ASSUME NEW f, Limited(f), NEW t, t = Len(f),
         NEW b \in Blocks, Len(f[t].open) < MaxOpen
  PROVE  /\ Limited(Grown(f, t, b))
         /\ Extends(Grown(f, t, b), f, t, Len(f[t].open) + 1, b)
<1> USE DEF Limited
<1> DEFINE c == Append(f[t].open, b)
           x == [f[t] EXCEPT !.open = c]
           g == [f EXCEPT ![t].open = c]
           m == Len(f[t].open) + 1
<1>1. /\ t \in Nat /\ t \in 1..Len(f) /\ f[t] \in Frame /\ f[t].open \in Seq(Blocks)
      /\ Len(f[t].open) \in Nat
      /\ \A i \in 1..Len(f) : Len(f[i].open) \in Nat
  BY FrameSeq
<1>2. /\ c \in Seq(Blocks) /\ Len(c) = m /\ c[m] = b
      /\ \A j \in 1..Len(f[t].open) : c[j] = f[t].open[j]
  BY <1>1
<1> HIDE DEF c
<1>3. x \in Frame /\ x.open = c
  BY <1>1, <1>2 DEF Frame
<1>4. g = [f EXCEPT ![t] = x]
  BY <1>1
<1> HIDE DEF x
<1>5. g \in Seq(Frame) /\ Len(g) = t /\ g[t] = x /\ \A i \in 1..t : i # t => g[i] = f[i]
  BY <1>1, <1>3, <1>4
<1> HIDE DEF g
<1>6. MaxOpen \in Nat
  BY UnwindAssumption
<1>7. \A i \in 1..Len(g) : Len(g[i].open) <= MaxOpen
  BY <1>1, <1>2, <1>3, <1>5, <1>6
<1>8. \A i, j : Has(f, i, j) => Has(g, i, j) /\ g[i].open[j] = f[i].open[j]
  BY <1>1, <1>2, <1>3, <1>5 DEF Has
<1>9. AtEnd(g, t, m) /\ g[t].open[m] = b
  BY <1>1, <1>2, <1>3, <1>5 DEF AtEnd, Has
<1>10. /\ \A i, j \in Nat : Has(g, i, j) <=> Has(f, i, j) \/ (i = t /\ j = m)
       /\ \A i, j \in Nat : Has(f, i, j) => Before(i, j, t, m)
       /\ t \in Nat /\ m \in Nat
  BY <1>1, <1>2, <1>3, <1>5 DEF Has, Before
<1>11. g # <<>>
  BY <1>1, <1>5
<1>12. QED
  BY <1>5, <1>7, <1>8, <1>9, <1>10, <1>11 DEF g, c, m, Grown, Extends

(* What is on a stack stays covered when the rest of its places is cut.    *)
LEMMA CutCovers ==
  ASSUME NEW f \in Seq(Frame), NEW g \in Seq(Frame), Cuts(g, f),
         NEW s, NEW t, Len(s) \in Nat, Len(t) \in Nat, Starts(t, s), NEW J, NEW kind,
         Covers(f, s, J, kind),
         \A k \in 1..Len(s) : Has(g, s[k].frame, J[k]) => k <= Len(t)
  PROVE  Covers(g, t, J, kind)
<1> SUFFICES ASSUME NEW i \in Nat, NEW j \in Nat, Has(g, i, j), g[i].open[j].kind = kind
             PROVE  \E k \in 1..Len(t) : t[k].frame = i /\ J[k] = j
  BY DEF Covers
<1>1. Has(f, i, j) /\ f[i].open[j].kind = kind
  BY CutHas
<1>2. PICK k \in 1..Len(s) : s[k].frame = i /\ J[k] = j
  BY <1>1 DEF Covers
<1>3. k \in 1..Len(t)
  BY <1>2
<1>4. QED
  BY <1>2, <1>3 DEF Starts

(* The block that the program is in belongs to the last entry of its kind. *)
LEMMA LastPlace ==
  ASSUME NEW f \in Seq(Frame), NEW s, Len(s) \in Nat, NEW J \in Index, NEW kind,
         Stack(f, s, J, kind), Covers(f, s, J, kind),
         NEW t, NEW m, AtEnd(f, t, m)
  PROVE  /\ f[t].open[m].kind = kind =>
              Len(s) > 0 /\ s[Len(s)].frame = t /\ J[Len(s)] = m
         /\ \A k \in 1..Len(s) : s[k].frame = t /\ J[k] = m =>
              k = Len(s) /\ f[t].open[m].kind = kind
<1> USE DEF AtEnd
<1>1. /\ t \in Nat /\ m \in Nat
      /\ \A k \in 1..Len(s) : /\ s[k].frame \in Nat /\ s[k].frame <= t /\ J[k] \in Nat
                              /\ s[k].frame = t => J[k] <= m
  <2>1. t \in Nat /\ \A i \in 1..t : i \in Nat /\ i <= t /\ Len(f[i].open) \in Nat
    BY FrameSeq
  <2>2. \A k \in 1..Len(s) : s[k].frame \in 1..t /\ J[k] \in 1..Len(f[s[k].frame].open)
    BY DEF Stack, Has
  <2>3. \A k \in 1..Len(s) : J[k] \in Nat
    BY DEF Index
  <2>4. m \in Nat
    BY <2>1 DEF Has
  <2>5. QED
    BY <2>1, <2>2, <2>3, <2>4
<1>2. ASSUME NEW k \in 1..Len(s), s[k].frame = t, J[k] = m
      PROVE  k = Len(s)
  <2> SUFFICES ASSUME k # Len(s) PROVE FALSE
    OBVIOUS
  <2>1. Len(s) \in 1..Len(s) /\ k < Len(s)
    OBVIOUS
  <2>2. Before(s[k].frame, J[k], s[Len(s)].frame, J[Len(s)])
    BY <2>1 DEF Stack
  <2>3. QED
    BY <1>1, <1>2, <2>1, <2>2 DEF Before
<1>3. ASSUME f[t].open[m].kind = kind
      PROVE  Len(s) > 0 /\ s[Len(s)].frame = t /\ J[Len(s)] = m
  <2>1. PICK k \in 1..Len(s) : s[k].frame = t /\ J[k] = m
    BY <1>1, <1>3 DEF Covers
  <2>2. QED
    BY <1>2, <2>1
<1>4. ASSUME NEW k \in 1..Len(s), s[k].frame = t, J[k] = m
      PROVE  f[t].open[m].kind = kind
  BY <1>4 DEF Stack
<1>5. QED
  BY <1>2, <1>3, <1>4

(* The end of a block takes it off its stack, and off no other.            *)
LEMMA CloseHolds ==
  ASSUME NEW f, NEW hs, NEW bs, Types(f, hs, bs), NEW HJ \in Index, NEW BJ \in Index,
         Sound(f, hs, bs, HJ, BJ), Covers(f, hs, HJ, "try"), Covers(f, bs, BJ, "sbox"),
         NEW P, NEW iso, NEW gr, Saves(f, bs, BJ, P, iso, gr),
         NEW t, NEW m, AtEnd(f, t, m), NEW kind, kind = f[t].open[m].kind,
         NEW g, NEW ht, NEW bt, Types(g, ht, bt), Cuts(g, f),
         \A i, j \in Nat : Has(g, i, j) <=> Has(f, i, j) /\ (i = t => j <= m - 1),
         Starts(ht, hs), Len(ht) = IF kind = "try" THEN Len(hs) - 1 ELSE Len(hs),
         Starts(bt, bs), Len(bt) = IF kind = "sbox" THEN Len(bs) - 1 ELSE Len(bs)
  PROVE  /\ Sound(g, ht, bt, HJ, BJ)
         /\ Covers(g, ht, HJ, "try") /\ Covers(g, bt, BJ, "sbox")
         /\ Saves(g, bt, BJ, At(bs, P, Len(bt)), iso, gr)
<1>0. t = Len(f) /\ m = Len(f[t].open) /\ Has(f, t, m)
  BY DEF AtEnd
<1>1. /\ f \in Seq(Frame) /\ g \in Seq(Frame) /\ t \in Nat /\ t > 0 /\ m \in Nat
      /\ Len(hs) \in Nat /\ Len(bs) \in Nat /\ Len(ht) \in Nat /\ Len(bt) \in Nat
  <2>1. /\ Len(f) \in Nat /\ Len(f) > 0 /\ Len(hs) \in Nat /\ Len(bs) \in Nat
        /\ \A i \in 1..Len(f) : Len(f[i].open) \in Nat
    BY Placed
  <2>2. Len(ht) \in Nat /\ Len(bt) \in Nat
    BY Placed
  <2>3. QED
    BY <1>0, <2>1, <2>2 DEF Types, Has
<1>3. /\ Stack(f, hs, HJ, "try") /\ Stack(f, bs, BJ, "sbox") /\ Depths(hs, HJ, bs, BJ)
  BY DEF Sound
<1>4. /\ kind = "try" => Len(hs) > 0 /\ hs[Len(hs)].frame = t /\ HJ[Len(hs)] = m
      /\ \A k \in 1..Len(hs) : hs[k].frame = t /\ HJ[k] = m => k = Len(hs) /\ kind = "try"
  BY <1>1, <1>3, LastPlace
<1>5. /\ kind = "sbox" => Len(bs) > 0 /\ bs[Len(bs)].frame = t /\ BJ[Len(bs)] = m
      /\ \A k \in 1..Len(bs) : bs[k].frame = t /\ BJ[k] = m => k = Len(bs) /\ kind = "sbox"
  BY <1>1, <1>3, LastPlace
<1>6. /\ \A k \in 1..Len(hs) : /\ hs[k].frame \in Nat /\ HJ[k] \in Nat /\ hs[k].nsbox \in Nat
                               /\ Has(f, hs[k].frame, HJ[k])
      /\ \A k \in 1..Len(bs) : /\ bs[k].frame \in Nat /\ BJ[k] \in Nat
                               /\ Has(f, bs[k].frame, BJ[k])
  BY <1>3, Placed DEF Stack
<1>7. \A j \in Nat : Has(f, t, j) => j <= m
  BY <1>0 DEF Has
<1>8. \A k \in 1..Len(hs) : Has(g, hs[k].frame, HJ[k]) <=> k <= Len(ht)
  <2> SUFFICES ASSUME NEW k \in 1..Len(hs)
               PROVE  Has(g, hs[k].frame, HJ[k]) <=> k <= Len(ht)
    OBVIOUS
  <2>1. Has(g, hs[k].frame, HJ[k]) <=> ~(hs[k].frame = t /\ HJ[k] = m)
    BY <1>1, <1>6, <1>7
  <2>2. (hs[k].frame = t /\ HJ[k] = m) <=> k = Len(hs) /\ kind = "try"
    BY <1>4
  <2>3. QED
    BY <1>1, <2>1, <2>2
<1>9. \A k \in 1..Len(bs) : Has(g, bs[k].frame, BJ[k]) <=> k <= Len(bt)
  <2> SUFFICES ASSUME NEW k \in 1..Len(bs)
               PROVE  Has(g, bs[k].frame, BJ[k]) <=> k <= Len(bt)
    OBVIOUS
  <2>1. Has(g, bs[k].frame, BJ[k]) <=> ~(bs[k].frame = t /\ BJ[k] = m)
    BY <1>1, <1>6, <1>7
  <2>2. (bs[k].frame = t /\ BJ[k] = m) <=> k = Len(bs) /\ kind = "sbox"
    BY <1>5
  <2>3. QED
    BY <1>1, <2>1, <2>2
<1>10. \A k \in 1..Len(ht) : hs[k].nsbox <= Len(bt)
  <2> SUFFICES ASSUME NEW k \in 1..Len(ht) PROVE hs[k].nsbox <= Len(bt)
    OBVIOUS
  <2>1. k \in 1..Len(hs) /\ hs[k].nsbox <= Len(bs) /\ hs[k].nsbox \in Nat
    BY <1>1, <1>3, <1>6 DEF Depths
  <2>2. CASE kind = "sbox"
    <3>1. Len(bs) \in 1..Len(bs)
      BY <1>1, <1>5, <2>2
    <3>2. ~Before(t, m, hs[k].frame, HJ[k])
      <4>1. hs[k].frame \in 1..t
        BY <1>0, <1>6, <2>1 DEF Has
      <4>2. hs[k].frame = t => HJ[k] <= m
        BY <1>6, <1>7, <2>1
      <4>3. QED
        BY <1>1, <1>6, <2>1, <4>1, <4>2 DEF Before
    <3>3. ~(Len(bs) <= hs[k].nsbox)
      BY <1>3, <1>5, <2>1, <2>2, <3>1, <3>2 DEF Depths
    <3>4. QED
      BY <1>1, <2>1, <2>2, <3>3
  <2>3. CASE kind # "sbox"
    BY <2>1, <2>3
  <2>4. QED
    BY <2>2, <2>3
<1>11. /\ \A k \in 1..Len(ht) : Has(g, hs[k].frame, HJ[k])
       /\ \A l \in 1..Len(bt) : Has(g, bs[l].frame, BJ[l])
  BY <1>1, <1>8, <1>9 DEF Starts
<1>12. Sound(g, ht, bt, HJ, BJ)
  BY <1>10, <1>11, CutSound
<1>13. Covers(g, ht, HJ, "try")
  BY <1>1, <1>8, CutCovers
<1>14. Covers(g, bt, BJ, "sbox")
  BY <1>1, <1>9, CutCovers
<1>15. Saves(g, bt, BJ, At(bs, P, Len(bt)), iso, gr)
  BY <1>11, CutSaves
<1>16. QED
  BY <1>12, <1>13, <1>14, <1>15

(* What the actions between two statements have in common.                 *)
LEMMA AtStatement ==
  ASSUME IInv, Ready
  PROVE  /\ TypeInv /\ Types(frames, handlers, sbox) /\ status = "running"
         /\ todo = <<>> /\ ~asking.active /\ Len(frames) > 0 /\ Len(frames) \in Nat
         /\ \E HJ, BJ \in Index :
              /\ Sound(frames, handlers, sbox, HJ, BJ)
              /\ Saves(frames, sbox, BJ, perms, isolated, grant)
              /\ Covers(frames, handlers, HJ, "try")
              /\ Covers(frames, sbox, BJ, "sbox")
<1>1. TypeInv /\ status = "running" /\ todo = <<>> /\ ~asking.active
  BY DEF IInv, Ready
<1>2. PICK HJ, BJ \in Index : Tracks(HJ, BJ)
  BY <1>1 DEF IInv
<1>3. Types(frames, handlers, sbox)
  BY <1>1 DEF TypeInv
<1>4. Len(frames) > 0 /\ Len(frames) \in Nat
  <2>1. frames \in Seq(Frame) /\ frames # <<>>
    BY <1>3 DEF Types
  <2>2. QED
    BY <2>1
<1>5. /\ Sound(frames, handlers, sbox, HJ, BJ)
      /\ Saves(frames, sbox, BJ, perms, isolated, grant)
      /\ Covers(frames, handlers, HJ, "try")
      /\ Covers(frames, sbox, BJ, "sbox")
  BY <1>1, <1>2 DEF Tracks, EPerms, EIso, Resting
<1>6. QED
  BY <1>1, <1>3, <1>4, <1>5

LEMMA AtNextStatement ==
  ASSUME TypeInv', ~asking.active', todo' \in {<<>>, <<"POP">>},
         NEW HJ \in Index, NEW BJ \in Index,
         Sound(frames', handlers', sbox', HJ, BJ),
         Saves(frames', sbox', BJ, perms', isolated', grant'),
         Covers(frames', handlers', HJ, "try"),
         Covers(frames', sbox', BJ, "sbox")
  PROVE  IInv'
<1>1. EPerms' = perms' /\ EIso' = isolated' /\ Resting'
  BY DEF EPerms, EIso, Resting
<1>2. Saves(frames', sbox', BJ, EPerms', EIso', grant')
  BY <1>1
<1>3. Tracks(HJ, BJ)'
  BY <1>1, <1>2 DEF Tracks
<1>4. QED
  BY <1>3 DEF IInv

-----------------------------------------------------------------------------
(* LeaveTry, LeaveSandbox and LeaveLoop are one step.                      *)
Leave(kind) ==
  /\ Ready
  /\ Open # <<>> /\ Last(Open).kind = kind
  /\ SetOpen(Front(Open))
  /\ handlers' = IF kind = "try" THEN Front(handlers) ELSE handlers
  /\ sbox' = IF kind = "sbox" THEN Front(sbox) ELSE sbox
  /\ perms' = IF kind = "sbox" THEN Last(sbox).saved ELSE perms
  /\ UNCHANGED <<grant, isolated, sp, todo, asking, spent, status>>

LEMMA LeavesAre ==
  /\ LeaveTry => Leave("try")
  /\ LeaveSandbox => Leave("sbox")
  /\ LeaveLoop => Leave("loop")
  BY DEF LeaveTry, LeaveSandbox, LeaveLoop, Leave, IsTry, IsSbox, IsLoop

LEMMA LeaveNonEmpty ==
  ASSUME IInv, NEW kind, Leave(kind)
  PROVE  /\ frames[Len(frames)].open \in Seq(Blocks)
         /\ AtEnd(frames, Len(frames), Len(frames[Len(frames)].open))
         /\ kind = frames[Len(frames)].open[Len(frames[Len(frames)].open)].kind
         /\ Len(handlers) \in Nat /\ Len(sbox) \in Nat
         /\ kind = "try" => Len(handlers) > 0
         /\ kind = "sbox" => Len(sbox) > 0
<1> DEFINE t == Len(frames)
           m == Len(frames[t].open)
<1>1. /\ Types(frames, handlers, sbox) /\ t > 0 /\ t \in Nat
  BY AtStatement DEF Leave
<1>2. PICK HJ, BJ \in Index :
        /\ Sound(frames, handlers, sbox, HJ, BJ)
        /\ Covers(frames, handlers, HJ, "try")
        /\ Covers(frames, sbox, BJ, "sbox")
  BY AtStatement DEF Leave
<1>3. Open = frames[t].open /\ Open # <<>> /\ Last(Open).kind = kind
  BY DEF Leave, Open, Top
<1>4. frames[t].open \in Seq(Blocks) /\ m \in Nat /\ m > 0 /\ kind = frames[t].open[m].kind
  <2>1. t \in 1..Len(frames) /\ frames \in Seq(Frame)
    BY <1>1 DEF Types
  <2>2. frames[t].open \in Seq(Blocks) /\ frames[t].open # <<>>
    BY <1>3, <2>1, FrameSeq
  <2>3. m \in Nat /\ m > 0
    BY <2>2
  <2>4. QED
    BY <1>3, <2>2, <2>3 DEF Last
<1>5. AtEnd(frames, t, m)
  <2>1. t \in 1..Len(frames) /\ m \in 1..Len(frames[t].open)
    BY <1>1, <1>4
  <2>2. QED
    BY <2>1 DEF AtEnd, Has
<1> HIDE DEF t, m
<1>6. Len(handlers) \in Nat /\ Len(sbox) \in Nat /\ frames \in Seq(Frame)
  BY <1>1, Placed DEF Types
<1>7. Stack(frames, handlers, HJ, "try") /\ Stack(frames, sbox, BJ, "sbox")
  BY <1>2 DEF Sound
<1>8. frames[t].open[m].kind = "try" => Len(handlers) > 0
  BY <1>2, <1>5, <1>6, <1>7, LastPlace
<1>9. frames[t].open[m].kind = "sbox" => Len(sbox) > 0
  BY <1>2, <1>5, <1>6, <1>7, LastPlace
<1>10. QED
  BY <1>4, <1>5, <1>6, <1>8, <1>9 DEF t, m

LEMMA LeaveHolds ==
  ASSUME IInv, NEW kind, Leave(kind)
  PROVE  IInv'
<1> DEFINE t == Len(frames)
           m == Len(frames[t].open)
           g == frames'
           ht == handlers'
           bt == sbox'
<1>1. /\ TypeInv /\ Types(frames, handlers, sbox) /\ todo = <<>> /\ ~asking.active
      /\ t > 0 /\ t \in Nat
  BY AtStatement DEF Leave
<1>2. PICK HJ, BJ \in Index :
        /\ Sound(frames, handlers, sbox, HJ, BJ)
        /\ Saves(frames, sbox, BJ, perms, isolated, grant)
        /\ Covers(frames, handlers, HJ, "try")
        /\ Covers(frames, sbox, BJ, "sbox")
  BY AtStatement DEF Leave
<1>3. /\ Open = frames[t].open /\ Open # <<>> /\ Last(Open).kind = kind
      /\ g = [frames EXCEPT ![t].open = SubSeq(frames[t].open, 1, m - 1)]
      /\ handlers' = IF kind = "try" THEN Front(handlers) ELSE handlers
      /\ sbox' = IF kind = "sbox" THEN Front(sbox) ELSE sbox
      /\ perms' = IF kind = "sbox" THEN Last(sbox).saved ELSE perms
      /\ UNCHANGED <<grant, isolated, sp, todo, asking, spent, status>>
  BY DEF Leave, SetOpen, Open, Top, Front
<1>4. /\ AtEnd(frames, t, m) /\ kind = frames[t].open[m].kind
      /\ frames[t].open \in Seq(Blocks) /\ m \in Nat /\ m > 0
  <2>1. /\ AtEnd(frames, t, m) /\ kind = frames[t].open[m].kind
        /\ frames[t].open \in Seq(Blocks)
    BY LeaveNonEmpty
  <2>2. m \in Nat /\ m > 0
    BY <2>1 DEF AtEnd, Has
  <2>3. QED
    BY <2>1, <2>2
<1> HIDE DEF t, m
<1>5. /\ Limited(g) /\ Cuts(g, frames)
      /\ \A i, j \in Nat : Has(g, i, j) <=> Has(frames, i, j) /\ (i = t => j <= m - 1)
  <2>1. m - 1 \in 0..m /\ Limited(frames)
    BY <1>1, <1>4 DEF Types, Limited
  <2>2. g = Trimmed(frames, t, m - 1)
    BY <1>3 DEF Trimmed
  <2>3. QED
    BY <1>4, <2>1, <2>2, TrimFrames
<1>6. /\ Len(handlers) \in Nat /\ Len(sbox) \in Nat
      /\ kind = "try" => Len(handlers) > 0
      /\ kind = "sbox" => Len(sbox) > 0
  BY LeaveNonEmpty
<1>7. /\ ht \in Seq(Handler) /\ Starts(ht, handlers)
      /\ Len(ht) = IF kind = "try" THEN Len(handlers) - 1 ELSE Len(handlers)
  <2>1. handlers \in Seq(Handler) /\ Starts(handlers, handlers)
    BY <1>1, <1>6 DEF Types, Starts
  <2>2. CASE kind = "try"
    <3>1. Len(handlers) - 1 \in 0..Len(handlers)
      BY <1>6, <2>2
    <3>2. ht = SubSeq(handlers, 1, Len(handlers) - 1)
      BY <1>3, <2>2 DEF Front
    <3>3. QED
      BY <2>1, <2>2, <3>1, <3>2, PrefixStarts
  <2>3. CASE kind # "try"
    BY <1>3, <2>1, <2>3
  <2>4. QED
    BY <2>2, <2>3
<1>8. /\ bt \in Seq(Box) /\ Starts(bt, sbox)
      /\ Len(bt) = IF kind = "sbox" THEN Len(sbox) - 1 ELSE Len(sbox)
      /\ perms' = At(sbox, perms, Len(bt)) /\ perms' \in SUBSET Caps
  <2>1. sbox \in Seq(Box) /\ Starts(sbox, sbox) /\ perms \in SUBSET Caps
    BY <1>1, <1>6 DEF Types, Starts, TypeInv
  <2>2. CASE kind = "sbox"
    <3>1. Len(sbox) - 1 \in 0..Len(sbox) /\ Len(sbox) \in 1..Len(sbox)
      BY <1>6, <2>2
    <3>2. bt = SubSeq(sbox, 1, Len(sbox) - 1) /\ perms' = sbox[Len(sbox)].saved
      BY <1>3, <2>2 DEF Front, Last
    <3>3. bt \in Seq(Box) /\ Starts(bt, sbox) /\ Len(bt) = Len(sbox) - 1
      BY <2>1, <3>1, <3>2, PrefixStarts
    <3>4. perms' = At(sbox, perms, Len(sbox) - 1)
      BY <1>6, <3>1, <3>2 DEF At
    <3>5. perms' \in SUBSET Caps
      BY <2>1, <3>1, <3>2, BoxSeq
    <3>6. QED
      BY <2>2, <3>3, <3>4, <3>5
  <2>3. CASE kind # "sbox"
    BY <1>3, <1>6, <2>1, <2>3 DEF At
  <2>4. QED
    BY <2>2, <2>3
<1> HIDE DEF g, ht, bt
<1>9. Types(g, ht, bt)
  BY <1>5, <1>7, <1>8 DEF Types, Limited
<1>10. /\ Sound(g, ht, bt, HJ, BJ)
       /\ Covers(g, ht, HJ, "try") /\ Covers(g, bt, BJ, "sbox")
       /\ Saves(g, bt, BJ, At(sbox, perms, Len(bt)), isolated, grant)
  BY <1>1, <1>2, <1>4, <1>5, <1>7, <1>8, <1>9, CloseHolds
<1>11. TypeInv'
  <2>1. Types(frames', handlers', sbox')
    BY <1>9 DEF g, ht, bt
  <2>2. Types(frames, handlers, sbox)'
    BY <2>1
  <2>3. Asking'
    BY <1>1, <1>3 DEF TypeInv, Asking
  <2>4. QED
    BY <1>1, <1>3, <1>8, <2>2, <2>3 DEF TypeInv
<1>12. /\ Sound(frames', handlers', sbox', HJ, BJ)
       /\ Saves(frames', sbox', BJ, perms', isolated', grant')
       /\ Covers(frames', handlers', HJ, "try")
       /\ Covers(frames', sbox', BJ, "sbox")
  BY <1>3, <1>8, <1>10 DEF g, ht, bt
<1>13. ~asking.active' /\ todo' \in {<<>>, <<"POP">>}
  BY <1>1, <1>3
<1>14. QED
  BY <1>11, <1>12, <1>13, AtNextStatement


-----------------------------------------------------------------------------
(* Frames that have all the blocks of f, where they were, and others.       *)
Keeps(g, f) ==
  \A i, j : Has(f, i, j) => Has(g, i, j) /\ g[i].open[j] = f[i].open[j]

LEMMA KeptHolds ==
  ASSUME NEW f, NEW hs, NEW bs, Types(f, hs, bs), NEW HJ \in Index, NEW BJ \in Index,
         Sound(f, hs, bs, HJ, BJ), NEW g, Keeps(g, f)
  PROVE  /\ Sound(g, hs, bs, HJ, BJ)
         /\ \A P, iso, gr : Saves(f, bs, BJ, P, iso, gr) => Saves(g, bs, BJ, P, iso, gr)
<1>1. \A i, j : Has(f, i, j) => Has(g, i, j) /\ g[i].open[j] = f[i].open[j]
  BY DEF Keeps
<1>2. Stack(g, hs, HJ, "try")
  BY <1>1 DEF Sound, Stack
<1>3. Stack(g, bs, BJ, "sbox")
  BY <1>1 DEF Sound, Stack
<1>4. Catches(g, hs, HJ)
  <2> SUFFICES ASSUME NEW k \in 1..Len(hs)
               PROVE  /\ Len(hs[k].catch) + 1 = HJ[k]
                      /\ \A j \in 1..Len(hs[k].catch) :
                           hs[k].catch[j] = g[hs[k].frame].open[j]
    BY DEF Catches
  <2>1. /\ Len(hs[k].catch) + 1 = HJ[k] /\ Len(hs[k].catch) \in Nat
        /\ \A j \in 1..Len(hs[k].catch) :
             hs[k].catch[j] = f[hs[k].frame].open[j]
    BY HandlerSeq DEF Sound, Catches, Types
  <2>2. Has(f, hs[k].frame, HJ[k])
    BY DEF Sound, Stack
  <2>3. \A j \in 1..Len(hs[k].catch) : Has(f, hs[k].frame, j)
    <3>1. Len(f[hs[k].frame].open) \in Nat
      BY <2>2, FrameSeq DEF Has, Types
    <3>2. HJ[k] \in 1..Len(f[hs[k].frame].open) /\ hs[k].frame \in 1..Len(f)
      BY <2>2 DEF Has
    <3>3. QED
      BY <2>1, <3>1, <3>2 DEF Has
  <2>4. QED
    BY <1>1, <2>1, <2>3
<1>5. Sound(g, hs, bs, HJ, BJ)
  BY <1>2, <1>3, <1>4 DEF Sound
<1>6. ASSUME NEW P, NEW iso, NEW gr, Saves(f, bs, BJ, P, iso, gr)
      PROVE  Saves(g, bs, BJ, P, iso, gr)
  <2>1. \A l \in 1..Len(bs) : g[bs[l].frame].open[BJ[l]] = f[bs[l].frame].open[BJ[l]]
    BY <1>1 DEF Sound, Stack
  <2>2. Len(bs) \in Nat
    BY BoxSeq DEF Types
  <2>3. \A n \in 0..Len(bs) : \A l \in 1..n :
          g[bs[l].frame].open[BJ[l]].deny = f[bs[l].frame].open[BJ[l]].deny
    BY <2>1, <2>2
  <2>4. QED
    BY <1>6, <2>3 DEF Saves
<1>7. QED
  BY <1>5, <1>6

(* A block is opened in the running frame: what was true stays true, ...   *)
LEMMA GrownHolds ==
  ASSUME NEW f, NEW hs, NEW bs, Types(f, hs, bs), NEW HJ \in Index, NEW BJ \in Index,
         Sound(f, hs, bs, HJ, BJ),
         NEW g, NEW t, NEW m, NEW b, Extends(g, f, t, m, b)
  PROVE  /\ Sound(g, hs, bs, HJ, BJ)
         /\ \A P, iso, gr : Saves(f, bs, BJ, P, iso, gr) => Saves(g, bs, BJ, P, iso, gr)
         /\ \A s, J, kind : Covers(f, s, J, kind) /\ b.kind # kind => Covers(g, s, J, kind)
<1>1. Keeps(g, f)
  BY DEF Extends, Keeps
<1>2. ASSUME NEW s, NEW J, NEW kind, Covers(f, s, J, kind), b.kind # kind
      PROVE  Covers(g, s, J, kind)
  <2>1. \A i, j \in Nat : Has(g, i, j) => \/ Has(f, i, j) /\ g[i].open[j] = f[i].open[j]
                                          \/ g[i].open[j] = b
    BY <1>1 DEF Extends, Keeps
  <2>2. QED
    BY <1>2, <2>1 DEF Covers
<1>3. QED
  BY <1>1, <1>2, KeptHolds

(* K is J with one entry more, m.                                          *)
Longer(K, J, n, m) == (\A k \in 1..n : K[k] = J[k]) /\ K[n + 1] = m

(* h is the handler of the try at (t, m), with n sandboxes around it.      *)
HandlerOf(h, g, t, m, n) ==
  /\ h \in Handler /\ h.frame = t /\ h.nsbox = n /\ Len(h.catch) + 1 = m
  /\ \A j \in 1..Len(h.catch) : h.catch[j] = g[t].open[j]

(* ... the block may be a try, with a handler of its own, ...              *)
LEMMA PushTry ==
  ASSUME NEW f, NEW hs, NEW bs, Types(f, hs, bs), NEW HJ \in Index, NEW BJ \in Index,
         Sound(f, hs, bs, HJ, BJ), Covers(f, hs, HJ, "try"), Covers(f, bs, BJ, "sbox"),
         NEW g, NEW t, NEW m, NEW b, Extends(g, f, t, m, b), b.kind = "try",
         NEW h, HandlerOf(h, g, t, m, Len(bs)),
         NEW K \in Index, Longer(K, HJ, Len(hs), m)
  PROVE  Sound(g, Append(hs, h), bs, K, BJ) /\ Covers(g, Append(hs, h), K, "try")
<1> USE DEF HandlerOf
<1> DEFINE u == Append(hs, h)
           n == Len(hs) + 1
<1>1. /\ Len(hs) \in Nat /\ Len(bs) \in Nat
      /\ \A k \in 1..Len(hs) : /\ hs[k].frame \in Nat /\ HJ[k] \in Nat
                               /\ Has(f, hs[k].frame, HJ[k])
      /\ \A k \in 1..Len(bs) : /\ bs[k].frame \in Nat /\ BJ[k] \in Nat
                               /\ Has(f, bs[k].frame, BJ[k])
  BY Placed DEF Sound, Stack
<1>2. /\ Len(u) = n /\ n \in Nat /\ u[n] = h /\ K[n] = m
      /\ \A k \in 1..Len(hs) : u[k] = hs[k] /\ K[k] = HJ[k]
  BY <1>1 DEF Types, Longer
<1>3. /\ t \in Nat /\ m \in Nat /\ Has(g, t, m) /\ g[t].open[m].kind = "try"
      /\ \A k \in 1..Len(hs) : Before(hs[k].frame, HJ[k], t, m)
      /\ \A k \in 1..Len(bs) : Before(bs[k].frame, BJ[k], t, m)
  BY <1>1 DEF Extends, AtEnd
<1> HIDE DEF u
<1>4. Sound(g, hs, bs, HJ, BJ)
  BY GrownHolds
<1>5. \A k \in 1..Len(u) : k \in 1..Len(hs) \/ k = n
  BY <1>1, <1>2
<1>6. Stack(g, u, K, "try")
  <2>1. \A k \in 1..Len(u) : /\ Has(g, u[k].frame, K[k])
                             /\ g[u[k].frame].open[K[k]].kind = "try"
    BY <1>2, <1>3, <1>4, <1>5 DEF Sound, Stack
  <2>2. ASSUME NEW k \in 1..Len(u), NEW l \in 1..Len(u), k < l
        PROVE  Before(u[k].frame, K[k], u[l].frame, K[l])
    <3>1. k \in 1..Len(hs)
      BY <1>1, <1>2, <2>2
    <3>2. CASE l = n
      BY <1>2, <1>3, <3>1, <3>2
    <3>3. CASE l \in 1..Len(hs)
      BY <1>2, <1>4, <2>2, <3>1, <3>3 DEF Sound, Stack
    <3>4. QED
      BY <1>5, <3>2, <3>3
  <2>3. QED
    BY <2>1, <2>2 DEF Stack
<1>7. Catches(g, u, K)
  <2>1. Catches(g, hs, HJ)
    BY <1>4 DEF Sound
  <2>2. /\ Len(u[n].catch) + 1 = K[n]
        /\ \A j \in 1..Len(u[n].catch) : u[n].catch[j] = g[u[n].frame].open[j]
    BY <1>2
  <2>3. \A k \in 1..Len(hs) :
          /\ Len(u[k].catch) + 1 = K[k]
          /\ \A j \in 1..Len(u[k].catch) : u[k].catch[j] = g[u[k].frame].open[j]
    BY <1>2, <2>1 DEF Catches
  <2>4. QED
    BY <1>5, <2>2, <2>3 DEF Catches
<1>8. Depths(u, K, bs, BJ)
  <2>1. Depths(hs, HJ, bs, BJ)
    BY <1>4 DEF Sound
  <2>2. /\ u[n].nsbox <= Len(bs)
        /\ \A l \in 1..Len(bs) :
             l <= u[n].nsbox <=> Before(bs[l].frame, BJ[l], u[n].frame, K[n])
    BY <1>1, <1>2, <1>3
  <2>3. \A k \in 1..Len(hs) :
          /\ u[k].nsbox <= Len(bs)
          /\ \A l \in 1..Len(bs) :
               l <= u[k].nsbox <=> Before(bs[l].frame, BJ[l], u[k].frame, K[k])
    BY <1>2, <2>1 DEF Depths
  <2>4. QED
    BY <1>5, <2>2, <2>3 DEF Depths
<1>9. Covers(g, u, K, "try")
  <2> SUFFICES ASSUME NEW i \in Nat, NEW j \in Nat, Has(g, i, j), g[i].open[j].kind = "try"
               PROVE  \E k \in 1..Len(u) : u[k].frame = i /\ K[k] = j
    BY DEF Covers
  <2>1. (Has(f, i, j) /\ g[i].open[j] = f[i].open[j]) \/ (i = t /\ j = m)
    BY DEF Extends
  <2>2. CASE i = t /\ j = m
    BY <1>2, <2>2
  <2>3. CASE Has(f, i, j) /\ g[i].open[j] = f[i].open[j]
    <3>1. PICK k \in 1..Len(hs) : hs[k].frame = i /\ HJ[k] = j
      BY <2>3 DEF Covers
    <3>2. k \in 1..Len(u)
      BY <1>1, <1>2
    <3>3. u[k].frame = i /\ K[k] = j
      BY <1>2, <3>1
    <3>4. QED
      BY <3>2, <3>3
  <2>4. QED
    BY <2>1, <2>2, <2>3
<1>10. QED
  BY <1>4, <1>6, <1>7, <1>8, <1>9 DEF Sound, u

(* ... or a sandbox, with the permissions to come back to.                 *)
LEMMA PushBox ==
  ASSUME NEW f, NEW hs, NEW bs, Types(f, hs, bs), NEW HJ \in Index, NEW BJ \in Index,
         Sound(f, hs, bs, HJ, BJ), Covers(f, bs, BJ, "sbox"),
         NEW P, NEW iso, NEW gr, Saves(f, bs, BJ, P, iso, gr),
         NEW g, NEW t, NEW m, NEW b, Extends(g, f, t, m, b), b.kind = "sbox",
         NEW x \in Box, x.frame = t, x.saved = P,
         NEW K \in Index, Longer(K, BJ, Len(bs), m)
  PROVE  /\ Sound(g, hs, Append(bs, x), HJ, K) /\ Covers(g, Append(bs, x), K, "sbox")
         /\ Saves(g, Append(bs, x), K, P \ b.deny, iso, gr)
<1> DEFINE u == Append(bs, x)
           n == Len(bs) + 1
<1>1. /\ Len(hs) \in Nat /\ Len(bs) \in Nat
      /\ \A k \in 1..Len(hs) : /\ hs[k].frame \in Nat /\ HJ[k] \in Nat
                               /\ Has(f, hs[k].frame, HJ[k])
                               /\ hs[k].nsbox \in Nat
      /\ \A k \in 1..Len(bs) : /\ bs[k].frame \in Nat /\ BJ[k] \in Nat
                               /\ Has(f, bs[k].frame, BJ[k])
  BY Placed DEF Sound, Stack
<1>2. /\ Len(u) = n /\ n \in Nat /\ u[n] = x /\ K[n] = m
      /\ \A k \in 1..Len(bs) : u[k] = bs[k] /\ K[k] = BJ[k]
  <2>1. bs \in Seq(Box)
    BY DEF Types
  <2>2. Len(u) = n /\ n \in Nat /\ u[n] = x /\ \A k \in 1..Len(bs) : u[k] = bs[k]
    BY <1>1, <2>1
  <2>3. K[n] = m /\ \A k \in 1..Len(bs) : K[k] = BJ[k]
    BY DEF Longer
  <2>4. QED
    BY <2>2, <2>3
<1>3. /\ t \in Nat /\ m \in Nat /\ Has(g, t, m) /\ g[t].open[m] = b
      /\ \A k \in 1..Len(hs) : Before(hs[k].frame, HJ[k], t, m)
      /\ \A k \in 1..Len(bs) : Before(bs[k].frame, BJ[k], t, m)
  BY <1>1 DEF Extends, AtEnd
<1> HIDE DEF u
<1>4. Sound(g, hs, bs, HJ, BJ) /\ Saves(g, bs, BJ, P, iso, gr)
  BY GrownHolds
<1>5. \A k \in 1..Len(u) : k \in 1..Len(bs) \/ k = n
  BY <1>1, <1>2
<1>6. Stack(g, u, K, "sbox")
  <2>1. \A k \in 1..Len(u) : /\ Has(g, u[k].frame, K[k])
                             /\ g[u[k].frame].open[K[k]].kind = "sbox"
    BY <1>2, <1>3, <1>4, <1>5 DEF Sound, Stack
  <2>2. ASSUME NEW k \in 1..Len(u), NEW l \in 1..Len(u), k < l
        PROVE  Before(u[k].frame, K[k], u[l].frame, K[l])
    <3>1. k \in 1..Len(bs)
      BY <1>1, <1>2, <2>2
    <3>2. CASE l = n
      BY <1>2, <1>3, <3>1, <3>2
    <3>3. CASE l \in 1..Len(bs)
      BY <1>2, <1>4, <2>2, <3>1, <3>3 DEF Sound, Stack
    <3>4. QED
      BY <1>5, <3>2, <3>3
  <2>3. QED
    BY <2>1, <2>2 DEF Stack
<1>7. Depths(hs, HJ, u, K)
  <2> SUFFICES ASSUME NEW k \in 1..Len(hs)
               PROVE  /\ hs[k].nsbox <= Len(u)
                      /\ \A l \in 1..Len(u) :
                           l <= hs[k].nsbox <=> Before(u[l].frame, K[l], hs[k].frame, HJ[k])
    BY DEF Depths
  <2>1. /\ hs[k].nsbox <= Len(bs)
        /\ \A l \in 1..Len(bs) :
             l <= hs[k].nsbox <=> Before(bs[l].frame, BJ[l], hs[k].frame, HJ[k])
    BY <1>4 DEF Sound, Depths
  <2>2. ~Before(t, m, hs[k].frame, HJ[k])
    BY <1>1, <1>3 DEF Before
  <2>3. ~(n <= hs[k].nsbox) /\ hs[k].nsbox <= Len(u)
    BY <1>1, <1>2, <2>1
  <2>4. QED
    BY <1>2, <1>5, <2>1, <2>2, <2>3
<1>8. Covers(g, u, K, "sbox")
  <2> SUFFICES ASSUME NEW i \in Nat, NEW j \in Nat, Has(g, i, j), g[i].open[j].kind = "sbox"
               PROVE  \E k \in 1..Len(u) : u[k].frame = i /\ K[k] = j
    BY DEF Covers
  <2>1. (Has(f, i, j) /\ g[i].open[j] = f[i].open[j]) \/ (i = t /\ j = m)
    BY DEF Extends
  <2>2. CASE i = t /\ j = m
    BY <1>2, <2>2
  <2>3. CASE Has(f, i, j) /\ g[i].open[j] = f[i].open[j]
    <3>1. PICK k \in 1..Len(bs) : bs[k].frame = i /\ BJ[k] = j
      BY <2>3 DEF Covers
    <3>2. k \in 1..Len(u)
      BY <1>1, <1>2
    <3>3. u[k].frame = i /\ K[k] = j
      BY <1>2, <3>1
    <3>4. QED
      BY <3>2, <3>3
  <2>4. QED
    BY <2>1, <2>2, <2>3
<1>9. ASSUME NEW q \in 0..Len(u), NEW c \in Caps
      PROVE  LET may == /\ c \in gr
                        /\ \A l \in 1..q : c \notin g[u[l].frame].open[K[l]].deny
             IN  /\ c \in At(u, P \ b.deny, q) => may
                 /\ ~iso /\ may => c \in At(u, P \ b.deny, q)
  <2>1. \A l \in 1..Len(bs) : g[u[l].frame].open[K[l]].deny = g[bs[l].frame].open[BJ[l]].deny
    BY <1>2
  <2>2. CASE q <= Len(bs)
    <3>1. q \in 0..Len(bs) /\ \A l \in 1..q : l \in 1..Len(bs)
      BY <1>1, <1>2, <2>2
    <3>2. At(u, P \ b.deny, q) = At(bs, P, q)
      <4>1. CASE q = Len(bs)
        BY <1>1, <1>2, <4>1 DEF At
      <4>2. CASE q < Len(bs)
        <5>1. q < Len(u) /\ q + 1 \in 1..Len(bs)
          BY <1>1, <1>2, <3>1, <4>2
        <5>2. QED
          BY <1>2, <4>2, <5>1 DEF At
      <4>3. QED
        BY <1>1, <3>1, <4>1, <4>2
    <3>3. QED
      BY <1>4, <2>1, <3>1, <3>2 DEF Saves
  <2>3. CASE q = n
    <3>1. /\ At(u, P \ b.deny, q) = P \ b.deny /\ At(bs, P, Len(bs)) = P
          /\ Len(bs) \in 0..Len(bs)
      BY <1>1, <1>2, <2>3 DEF At
    <3>2. (\A l \in 1..q : c \notin g[u[l].frame].open[K[l]].deny)
          <=> /\ \A l \in 1..Len(bs) : c \notin g[bs[l].frame].open[BJ[l]].deny
              /\ c \notin b.deny
      <4>1. \A l \in 1..q : l \in 1..Len(bs) \/ l = n
        BY <1>1, <2>3
      <4>2. n \in 1..q /\ \A l \in 1..Len(bs) : l \in 1..q
        BY <1>1, <2>3
      <4>3. g[u[n].frame].open[K[n]].deny = b.deny
        BY <1>2, <1>3
      <4>4. QED
        BY <2>1, <4>1, <4>2, <4>3
    <3>3. /\ c \in P => /\ c \in gr
                        /\ \A l \in 1..Len(bs) : c \notin g[bs[l].frame].open[BJ[l]].deny
          /\ /\ ~iso /\ c \in gr
             /\ \A l \in 1..Len(bs) : c \notin g[bs[l].frame].open[BJ[l]].deny
             => c \in P
      BY <1>4, <3>1 DEF Saves
    <3>4. QED
      BY <3>1, <3>2, <3>3
  <2>4. q <= Len(bs) \/ q = n
    BY <1>1, <1>2
  <2>5. QED
    BY <2>2, <2>3, <2>4
<1>10. Saves(g, u, K, P \ b.deny, iso, gr)
  BY <1>9 DEF Saves
<1>11. QED
  BY <1>4, <1>6, <1>7, <1>8, <1>10 DEF Sound, u

-----------------------------------------------------------------------------
LEMMA Lengthen ==
  ASSUME NEW J \in Index, NEW n \in Nat, NEW m \in Nat
  PROVE  \E K \in Index : Longer(K, J, n, m)
<1> DEFINE K == [J EXCEPT ![n + 1] = m]
<1>1. K \in Index /\ Longer(K, J, n, m)
  BY DEF Index, Longer
<1>2. QED
  BY <1>1

(* What the actions that open a block do to the frames.                    *)
LEMMA EnterFrames ==
  ASSUME IInv, Ready, NEW b \in Blocks, Len(Open) < MaxOpen, SetOpen(Append(Open, b))
  PROVE  /\ Limited(frames') /\ Open \in Seq(Blocks) /\ Len(Open) \in Nat
         /\ Extends(frames', frames, Len(frames), Len(Open) + 1, b)
         /\ \A j \in 1..Len(Open) : Open[j] = frames'[Len(frames)].open[j]
<1> DEFINE t == Len(frames)
<1>1. Types(frames, handlers, sbox) /\ t > 0 /\ t \in Nat
  BY AtStatement
<1>2. Limited(frames)
  BY <1>1 DEF Types, Limited
<1>3. Open = frames[t].open /\ frames' = Grown(frames, t, b)
  BY DEF Open, Top, SetOpen, Grown
<1>4. t = Len(frames)
  OBVIOUS
<1>5. Open \in Seq(Blocks) /\ Len(Open) \in Nat
  <2>1. frames \in Seq(Frame) /\ t \in 1..Len(frames)
    BY <1>1, <1>2 DEF Limited
  <2>2. QED
    BY <1>3, <2>1, FrameSeq
<1> HIDE DEF t
<1>6. Len(frames[t].open) < MaxOpen
  BY <1>3
<1>7. Limited(frames') /\ Extends(frames', frames, t, Len(frames[t].open) + 1, b)
  BY <1>2, <1>3, <1>4, <1>6, GrowFrames
<1>8. \A j \in 1..Len(Open) : Open[j] = frames'[t].open[j]
  <2>1. \A j \in 1..Len(Open) : Has(frames, t, j)
    BY <1>1, <1>3, <1>4 DEF Has
  <2>2. QED
    BY <1>3, <1>7, <2>1 DEF Extends
<1>9. QED
  BY <1>3, <1>4, <1>5, <1>7, <1>8

LEMMA BlockKinds ==
  /\ Try \in Blocks /\ Try.kind = "try" /\ Try.deny = {}
  /\ Loop \in Blocks /\ Loop.kind = "loop" /\ Loop.deny = {}
  /\ \A d \in SUBSET Caps \ {{}} :
       Sandbox(d) \in Blocks /\ Sandbox(d).kind = "sbox" /\ Sandbox(d).deny = d
  /\ \A b \in Blocks : /\ b.kind \in {"try", "loop", "sbox"} /\ b.deny \in SUBSET Caps
                       /\ b.kind # "sbox" => b.deny = {}
<1>1. /\ Try \in Blocks /\ Try.kind = "try" /\ Try.deny = {}
      /\ Loop \in Blocks /\ Loop.kind = "loop" /\ Loop.deny = {}
  BY DEF Blocks, Try, Loop
<1>2. \A d : Sandbox(d).kind = "sbox" /\ Sandbox(d).deny = d
  BY DEF Sandbox
<1>3. \A d \in SUBSET Caps \ {{}} : Sandbox(d) \in Blocks
  BY DEF Blocks
<1>4. \A b \in Blocks : b = Try \/ b = Loop \/ \E d \in SUBSET Caps \ {{}} : b = Sandbox(d)
  BY DEF Blocks
<1>5. QED
  BY <1>1, <1>2, <1>3, <1>4

LEMMA EnterTryHolds ==
  ASSUME IInv, EnterTry
  PROVE  IInv'
<1> DEFINE t == Len(frames)
           m == Len(Open) + 1
           h == [frame |-> Top, sp |-> sp, nsbox |-> Len(sbox), catch |-> Open]
<1>1. /\ TypeInv /\ Types(frames, handlers, sbox) /\ todo = <<>> /\ ~asking.active
      /\ t \in Nat
  BY AtStatement DEF EnterTry
<1>2. PICK HJ, BJ \in Index :
        /\ Sound(frames, handlers, sbox, HJ, BJ)
        /\ Saves(frames, sbox, BJ, perms, isolated, grant)
        /\ Covers(frames, handlers, HJ, "try")
        /\ Covers(frames, sbox, BJ, "sbox")
  BY AtStatement DEF EnterTry
<1>3. /\ Ready /\ Len(Open) < MaxOpen /\ SetOpen(Append(Open, Try))
      /\ handlers' = Append(handlers, h)
      /\ UNCHANGED <<grant, sbox, perms, isolated, sp, todo, asking, status>>
  BY DEF EnterTry
<1>4. /\ Limited(frames') /\ Open \in Seq(Blocks) /\ Len(Open) \in Nat
      /\ Extends(frames', frames, t, m, Try)
      /\ \A j \in 1..Len(Open) : Open[j] = frames'[t].open[j]
  BY <1>3, BlockKinds, EnterFrames
<1>5. Len(handlers) \in Nat /\ Len(sbox) \in Nat /\ handlers \in Seq(Handler) /\ sbox \in Seq(Box)
  BY <1>1, HandlerSeq, BoxSeq DEF Types
<1>6. HandlerOf(h, frames', t, m, Len(sbox)) /\ h \in Handler
  BY <1>1, <1>4, <1>5 DEF Handler, Top, TypeInv, HandlerOf
<1>7. PICK K \in Index : Longer(K, HJ, Len(handlers), m)
  BY <1>4, <1>5, Lengthen
<1> HIDE DEF t, m, h
<1>8. /\ Sound(frames', Append(handlers, h), sbox, K, BJ)
      /\ Covers(frames', Append(handlers, h), K, "try")
  BY <1>1, <1>2, <1>4, <1>6, <1>7, BlockKinds, PushTry
<1>9. /\ Saves(frames', sbox, BJ, perms, isolated, grant)
      /\ Covers(frames', sbox, BJ, "sbox")
  BY <1>1, <1>2, <1>4, BlockKinds, GrownHolds
<1>10. TypeInv'
  <2>1. handlers' \in Seq(Handler)
    BY <1>3, <1>5, <1>6
  <2>2. Types(frames', handlers', sbox')
    BY <1>3, <1>4, <1>5, <2>1 DEF Types, Limited
  <2>3. Types(frames, handlers, sbox)' /\ Asking'
    BY <1>1, <1>3, <2>2 DEF TypeInv, Asking
  <2>4. QED
    BY <1>1, <1>3, <2>3 DEF TypeInv
<1>11. /\ Sound(frames', handlers', sbox', K, BJ)
       /\ Saves(frames', sbox', BJ, perms', isolated', grant')
       /\ Covers(frames', handlers', K, "try") /\ Covers(frames', sbox', BJ, "sbox")
       /\ ~asking.active' /\ todo' \in {<<>>, <<"POP">>}
  BY <1>1, <1>3, <1>8, <1>9
<1>12. QED
  BY <1>10, <1>11, AtNextStatement

LEMMA EnterSandboxHolds ==
  ASSUME IInv, NEW deny \in SUBSET Caps \ {{}}, EnterSandbox(deny)
  PROVE  IInv'
<1> DEFINE t == Len(frames)
           m == Len(Open) + 1
           x == [saved |-> perms, frame |-> Top]
           b == Sandbox(deny)
<1>1. /\ TypeInv /\ Types(frames, handlers, sbox) /\ todo = <<>> /\ ~asking.active
      /\ t \in Nat
  BY AtStatement DEF EnterSandbox
<1>2. PICK HJ, BJ \in Index :
        /\ Sound(frames, handlers, sbox, HJ, BJ)
        /\ Saves(frames, sbox, BJ, perms, isolated, grant)
        /\ Covers(frames, handlers, HJ, "try")
        /\ Covers(frames, sbox, BJ, "sbox")
  BY AtStatement DEF EnterSandbox
<1>3. /\ Ready /\ Len(Open) < MaxOpen /\ SetOpen(Append(Open, b))
      /\ sbox' = Append(sbox, x) /\ perms' = perms \ deny
      /\ UNCHANGED <<grant, handlers, isolated, sp, todo, asking, status>>
  BY DEF EnterSandbox
<1>4. b \in Blocks /\ b.kind = "sbox" /\ b.deny = deny
  BY BlockKinds
<1> HIDE DEF b
<1>5. /\ Limited(frames') /\ Len(Open) \in Nat /\ Extends(frames', frames, t, m, b)
  BY <1>3, <1>4, EnterFrames
<1>6. Len(handlers) \in Nat /\ Len(sbox) \in Nat /\ handlers \in Seq(Handler) /\ sbox \in Seq(Box)
  BY <1>1, HandlerSeq, BoxSeq DEF Types
<1>7. x \in Box /\ x.frame = t /\ x.saved = perms
  BY <1>1 DEF Box, Top, TypeInv
<1>8. PICK K \in Index : Longer(K, BJ, Len(sbox), m)
  BY <1>5, <1>6, Lengthen
<1> HIDE DEF t, m, x
<1>9. /\ Sound(frames', handlers, Append(sbox, x), HJ, K)
      /\ Covers(frames', Append(sbox, x), K, "sbox")
      /\ Saves(frames', Append(sbox, x), K, perms \ b.deny, isolated, grant)
  BY <1>1, <1>2, <1>4, <1>5, <1>7, <1>8, PushBox
<1>10. Covers(frames', handlers, HJ, "try")
  BY <1>1, <1>2, <1>4, <1>5, GrownHolds
<1>11. TypeInv'
  <2>1. sbox' \in Seq(Box)
    BY <1>3, <1>6, <1>7
  <2>2. Types(frames', handlers', sbox')
    BY <1>3, <1>5, <1>6, <2>1 DEF Types, Limited
  <2>3. Types(frames, handlers, sbox)' /\ Asking'
    BY <1>1, <1>3, <2>2 DEF TypeInv, Asking
  <2>4. QED
    BY <1>1, <1>3, <2>3 DEF TypeInv
<1>12. /\ Sound(frames', handlers', sbox', HJ, K)
       /\ Saves(frames', sbox', K, perms', isolated', grant')
       /\ Covers(frames', handlers', HJ, "try") /\ Covers(frames', sbox', K, "sbox")
       /\ ~asking.active' /\ todo' \in {<<>>, <<"POP">>}
  BY <1>1, <1>3, <1>4, <1>9, <1>10
<1>13. QED
  BY <1>11, <1>12, AtNextStatement

LEMMA EnterLoopHolds ==
  ASSUME IInv, EnterLoop
  PROVE  IInv'
<1>1. TypeInv /\ Types(frames, handlers, sbox) /\ todo = <<>> /\ ~asking.active
  BY AtStatement DEF EnterLoop
<1>2. PICK HJ, BJ \in Index :
        /\ Sound(frames, handlers, sbox, HJ, BJ)
        /\ Saves(frames, sbox, BJ, perms, isolated, grant)
        /\ Covers(frames, handlers, HJ, "try")
        /\ Covers(frames, sbox, BJ, "sbox")
  BY AtStatement DEF EnterLoop
<1>3. /\ Ready /\ Len(Open) < MaxOpen /\ SetOpen(Append(Open, Loop))
      /\ UNCHANGED <<grant, handlers, sbox, perms, isolated, sp, todo, asking, status>>
  BY DEF EnterLoop
<1>4. Limited(frames') /\ Extends(frames', frames, Len(frames), Len(Open) + 1, Loop)
  BY <1>3, BlockKinds, EnterFrames
<1>5. /\ Sound(frames', handlers, sbox, HJ, BJ)
      /\ Saves(frames', sbox, BJ, perms, isolated, grant)
      /\ Covers(frames', handlers, HJ, "try")
      /\ Covers(frames', sbox, BJ, "sbox")
  BY <1>1, <1>2, <1>4, BlockKinds, GrownHolds
<1>6. TypeInv'
  <2>1. Types(frames', handlers', sbox')
    BY <1>1, <1>3, <1>4 DEF Types, Limited
  <2>2. Types(frames, handlers, sbox)' /\ Asking'
    BY <1>1, <1>3, <2>1 DEF TypeInv, Asking
  <2>3. QED
    BY <1>1, <1>3, <2>2 DEF TypeInv
<1>7. /\ Sound(frames', handlers', sbox', HJ, BJ)
      /\ Saves(frames', sbox', BJ, perms', isolated', grant')
      /\ Covers(frames', handlers', HJ, "try") /\ Covers(frames', sbox', BJ, "sbox")
      /\ ~asking.active' /\ todo' \in {<<>>, <<"POP">>}
  BY <1>1, <1>3, <1>5
<1>8. QED
  BY <1>6, <1>7, AtNextStatement

-----------------------------------------------------------------------------
LEMMA CallHolds ==
  ASSUME IInv, NEW temps \in 0..MaxTemps, Call(temps)
  PROVE  IInv'
<1> DEFINE x == [base |-> sp + temps, temps |-> temps, open |-> <<>>]
<1>1. TypeInv /\ Types(frames, handlers, sbox) /\ todo = <<>> /\ ~asking.active
  BY AtStatement DEF Call
<1>2. PICK HJ, BJ \in Index :
        /\ Sound(frames, handlers, sbox, HJ, BJ)
        /\ Saves(frames, sbox, BJ, perms, isolated, grant)
        /\ Covers(frames, handlers, HJ, "try")
        /\ Covers(frames, sbox, BJ, "sbox")
  BY AtStatement DEF Call
<1>3. /\ frames' = Append(frames, x) /\ sp' = sp + temps + Slots
      /\ UNCHANGED <<grant, handlers, sbox, perms, isolated, todo, asking, status>>
  BY DEF Call
<1>4. MaxOpen \in Nat /\ Slots \in Nat /\ MaxTemps \in Nat
  BY UnwindAssumption
<1>5. x \in Frame /\ x.open = <<>> /\ Len(x.open) = 0 /\ sp' \in Int
  BY <1>1, <1>3, <1>4 DEF Frame, TypeInv
<1> HIDE DEF x
<1>6. /\ frames \in Seq(Frame) /\ Len(frames) \in Nat
      /\ \A i \in 1..Len(frames) : Len(frames[i].open) <= MaxOpen
  BY <1>1, FrameSeq DEF Types
<1>7. /\ frames' \in Seq(Frame) /\ Len(frames') = Len(frames) + 1
      /\ \A i \in 1..Len(frames) : frames'[i] = frames[i]
      /\ frames'[Len(frames) + 1] = x
      /\ \A i \in 1..Len(frames') : i \in 1..Len(frames) \/ i = Len(frames) + 1
  BY <1>3, <1>5, <1>6
<1>8. Limited(frames')
  <2>1. frames' # <<>>
    BY <1>6, <1>7
  <2>2. \A i \in 1..Len(frames') : Len(frames'[i].open) <= MaxOpen
    BY <1>4, <1>5, <1>6, <1>7
  <2>3. QED
    BY <1>7, <2>1, <2>2 DEF Limited
<1>9. \A i, j \in Nat : Has(frames', i, j) => Has(frames, i, j)
  <2> SUFFICES ASSUME NEW i \in Nat, NEW j \in Nat, Has(frames', i, j)
               PROVE  Has(frames, i, j)
    OBVIOUS
  <2>1. i \in 1..Len(frames') /\ j \in 1..Len(frames'[i].open)
    BY DEF Has
  <2>2. i # Len(frames) + 1
    BY <1>5, <1>7, <2>1
  <2>3. QED
    BY <1>7, <2>1, <2>2 DEF Has
<1>10. Keeps(frames', frames)
  <2>1. Len(frames') >= Len(frames)
    BY <1>6, <1>7
  <2>2. QED
    BY <1>6, <1>7, <2>1 DEF Keeps, Has
<1>11. /\ Sound(frames', handlers, sbox, HJ, BJ)
       /\ Saves(frames', sbox, BJ, perms, isolated, grant)
  BY <1>1, <1>2, <1>10, KeptHolds
<1>12. /\ Covers(frames', handlers, HJ, "try")
       /\ Covers(frames', sbox, BJ, "sbox")
  <2>1. \A i, j \in Nat : Has(frames', i, j) =>
          Has(frames, i, j) /\ frames'[i].open[j] = frames[i].open[j]
    BY <1>9, <1>10 DEF Keeps
  <2>2. Covers(frames', handlers, HJ, "try")
    BY <1>2, <2>1 DEF Covers
  <2>3. Covers(frames', sbox, BJ, "sbox")
    BY <1>2, <2>1 DEF Covers
  <2>4. QED
    BY <2>2, <2>3
<1>13. TypeInv'
  <2>1. Types(frames', handlers', sbox')
    BY <1>1, <1>3, <1>8 DEF Types, Limited
  <2>2. Types(frames, handlers, sbox)' /\ Asking'
    BY <1>1, <1>3, <2>1 DEF TypeInv, Asking
  <2>3. QED
    BY <1>1, <1>3, <1>5, <2>2 DEF TypeInv
<1>14. /\ Sound(frames', handlers', sbox', HJ, BJ)
       /\ Saves(frames', sbox', BJ, perms', isolated', grant')
       /\ Covers(frames', handlers', HJ, "try") /\ Covers(frames', sbox', BJ, "sbox")
       /\ ~asking.active' /\ todo' \in {<<>>, <<"POP">>}
  BY <1>1, <1>3, <1>11, <1>12
<1>15. QED
  BY <1>13, <1>14, AtNextStatement

(* The frames are in order on each stack.                                  *)
LEMMA FramesAscend ==
  ASSUME NEW f \in Seq(Frame), NEW s, NEW J \in Index, NEW kind, Stack(f, s, J, kind)
  PROVE  /\ \A k \in 1..Len(s) : s[k].frame \in Nat /\ s[k].frame <= Len(f)
         /\ \A k, l \in 1..Len(s) : k < l => s[k].frame <= s[l].frame
<1>1. Len(f) \in Nat
  BY FrameSeq
<1>2. \A k \in 1..Len(s) : s[k].frame \in 1..Len(f)
  BY DEF Stack, Has
<1>3. \A k, l \in 1..Len(s) : k < l => Before(s[k].frame, J[k], s[l].frame, J[l])
  BY DEF Stack
<1>4. QED
  BY <1>1, <1>2, <1>3 DEF Before

(* OP_RET of a function that was called.                                   *)
LEMMA FrontFrames ==
  ASSUME NEW f, Limited(f), NEW t, t = Len(f), t > 1
  PROVE  /\ Limited(Front(f)) /\ Cuts(Front(f), f)
         /\ \A i, j \in Nat : Has(Front(f), i, j) <=> Has(f, i, j) /\ i < t
<1> DEFINE g == SubSeq(f, 1, t - 1)
<1>1. /\ f \in Seq(Frame) /\ t \in Nat /\ \A i \in 1..t : Len(f[i].open) \in Nat
      /\ \A i \in 1..t : Len(f[i].open) <= MaxOpen
  BY FrameSeq DEF Limited
<1>2. Front(f) = g
  BY DEF Front
<1>3. g \in Seq(Frame) /\ Len(g) = t - 1 /\ \A i \in 1..(t - 1) : g[i] = f[i]
  BY <1>1
<1> HIDE DEF g
<1>4. g # <<>> /\ \A i \in 1..Len(g) : i \in 1..t /\ i \in 1..(t - 1)
  BY <1>1, <1>3
<1>5. Limited(g)
  BY <1>1, <1>3, <1>4 DEF Limited
<1>6. Cuts(g, f)
  <2>1. \A i \in 1..Len(g) : g[i] = f[i] /\ Len(f[i].open) \in Nat
    BY <1>1, <1>3, <1>4
  <2>2. Len(g) <= Len(f)
    BY <1>1, <1>3
  <2>3. QED
    BY <2>1, <2>2 DEF Cuts
<1>7. \A i, j \in Nat : Has(g, i, j) <=> Has(f, i, j) /\ i < t
  BY <1>1, <1>3, <1>4 DEF Has
<1>8. QED
  BY <1>2, <1>5, <1>6, <1>7

LEMMA ReturnHolds ==
  ASSUME IInv, Return
  PROVE  IInv'
<1> DEFINE t == Len(frames)
           ht == Keep(handlers)
           bt == Keep(sbox)
<1>1. /\ TypeInv /\ Types(frames, handlers, sbox) /\ todo = <<>> /\ ~asking.active
      /\ t > 0 /\ t \in Nat /\ Limited(frames)
  BY AtStatement DEF Return, Types, Limited
<1>2. PICK HJ, BJ \in Index :
        /\ Sound(frames, handlers, sbox, HJ, BJ)
        /\ Saves(frames, sbox, BJ, perms, isolated, grant)
        /\ Covers(frames, handlers, HJ, "try")
        /\ Covers(frames, sbox, BJ, "sbox")
  BY AtStatement DEF Return
<1>3. /\ handlers' = ht /\ sbox' = bt /\ perms' = PermsBelow(Len(bt))
      /\ IF Top = 1 THEN status' = "done" /\ UNCHANGED <<frames, sp>>
                    ELSE /\ frames' = Front(frames)
                         /\ sp' = frames[Top].base - frames[Top].temps
                         /\ UNCHANGED status
      /\ UNCHANGED <<grant, isolated, todo, asking>>
  BY DEF Return
<1>4. t = Top
  BY DEF Top
<1>5. /\ Stack(frames, handlers, HJ, "try") /\ Stack(frames, sbox, BJ, "sbox")
      /\ Depths(handlers, HJ, sbox, BJ)
      /\ frames \in Seq(Frame) /\ handlers \in Seq(Handler) /\ sbox \in Seq(Box)
      /\ Len(handlers) \in Nat /\ Len(sbox) \in Nat
  BY <1>1, <1>2, HandlerSeq, BoxSeq DEF Sound, Types
<1>6. /\ \A k \in 1..Len(handlers) : handlers[k].frame \in Nat /\ handlers[k].frame <= Top
      /\ \A k, l \in 1..Len(handlers) : k < l => handlers[k].frame <= handlers[l].frame
      /\ \A k \in 1..Len(sbox) : sbox[k].frame \in Nat /\ sbox[k].frame <= Top
      /\ \A k, l \in 1..Len(sbox) : k < l => sbox[k].frame <= sbox[l].frame
  BY <1>5, FramesAscend DEF Top
<1>7. PICK n \in 0..Len(handlers) :
        /\ ht = SubSeq(handlers, 1, n)
        /\ \A k \in 1..n : handlers[k].frame < Top
        /\ \A k \in 1..Len(handlers) : k > n => handlers[k].frame = Top
  BY <1>1, <1>4, <1>5, <1>6, KeepPrefix
<1>8. PICK d \in 0..Len(sbox) :
        /\ bt = SubSeq(sbox, 1, d)
        /\ \A k \in 1..d : sbox[k].frame < Top
        /\ \A k \in 1..Len(sbox) : k > d => sbox[k].frame = Top
  BY <1>1, <1>4, <1>5, <1>6, KeepPrefix
<1>9. /\ ht \in Seq(Handler) /\ Len(ht) = n /\ Starts(ht, handlers)
      /\ bt \in Seq(Box) /\ Len(bt) = d /\ Starts(bt, sbox)
  BY <1>5, <1>7, <1>8, PrefixStarts
<1> HIDE DEF t, ht, bt
<1>10. perms' = At(sbox, perms, d) /\ perms' \in SUBSET Caps
  <2>1. perms' = At(sbox, perms, d)
    BY <1>3, <1>9 DEF PermsBelow, At
  <2>2. CASE d < Len(sbox)
    <3>1. d + 1 \in 1..Len(sbox)
      BY <1>5, <2>2
    <3>2. sbox[d + 1].saved \in SUBSET Caps
      BY <1>5, <3>1, BoxSeq
    <3>3. QED
      BY <2>1, <2>2, <3>2 DEF At
  <2>3. CASE ~(d < Len(sbox))
    BY <1>1, <2>1, <2>3 DEF At, TypeInv
  <2>4. QED
    BY <2>1, <2>2, <2>3
<1>11. CASE Top = 1
  <2>1. status' = "done" /\ frames' = frames /\ sp' = sp
    BY <1>3, <1>11
  <2>2. Types(frames', handlers', sbox')
    BY <1>1, <1>3, <1>9, <2>1 DEF Types
  <2>3. Types(frames, handlers, sbox)' /\ Asking'
    BY <1>1, <1>3, <2>2 DEF TypeInv, Asking
  <2>4. TypeInv'
    BY <1>1, <1>3, <1>10, <2>1, <2>3 DEF TypeInv
  <2>5. QED
    BY <2>1, <2>4 DEF IInv
<1>12. CASE Top # 1
  <2> DEFINE g == Front(frames)
  <2>1. frames' = g /\ sp' = frames[Top].base - frames[Top].temps /\ UNCHANGED status
    BY <1>3, <1>12
  <2>2. t = Len(frames) /\ t > 1
    BY <1>1, <1>4, <1>12 DEF t
  <2>3. /\ Limited(g) /\ Cuts(g, frames)
        /\ \A i, j \in Nat : Has(g, i, j) <=> Has(frames, i, j) /\ i < t
    BY <1>1, <2>2, FrontFrames
  <2> HIDE DEF g
  <2>4. /\ \A k \in 1..Len(handlers) : /\ Has(frames, handlers[k].frame, HJ[k])
                                       /\ handlers[k].frame \in Nat /\ HJ[k] \in Nat
                                       /\ handlers[k].nsbox \in Nat
        /\ \A k \in 1..Len(sbox) : /\ Has(frames, sbox[k].frame, BJ[k])
                                   /\ sbox[k].frame \in Nat /\ BJ[k] \in Nat
    BY <1>1, <1>5, Placed DEF Stack
  <2>5. \A k \in 1..Len(handlers) : Has(g, handlers[k].frame, HJ[k]) <=> k <= n
    <3>1. \A k \in 1..Len(handlers) : k <= n <=> handlers[k].frame < t
      BY <1>1, <1>4, <1>5, <1>7
    <3>2. QED
      BY <2>3, <2>4, <3>1
  <2>6. \A k \in 1..Len(sbox) : Has(g, sbox[k].frame, BJ[k]) <=> k <= d
    <3>1. \A k \in 1..Len(sbox) : k <= d <=> sbox[k].frame < t
      BY <1>1, <1>4, <1>5, <1>8
    <3>2. QED
      BY <2>3, <2>4, <3>1
  <2>7. \A k \in 1..n : k \in 1..Len(handlers)
    BY <1>5
  <2>8. \A k \in 1..d : k \in 1..Len(sbox)
    BY <1>5
  <2>9. \A k \in 1..n : handlers[k].nsbox <= d
    <3> SUFFICES ASSUME NEW k \in 1..n, ~(handlers[k].nsbox <= d) PROVE FALSE
      OBVIOUS
    <3>1. /\ k \in 1..Len(handlers) /\ handlers[k].nsbox \in Nat
          /\ handlers[k].nsbox <= Len(sbox) /\ handlers[k].frame \in Nat
      BY <1>5, <2>4, <2>7 DEF Depths
    <3>2. d + 1 \in 1..Len(sbox) /\ d + 1 <= handlers[k].nsbox
      BY <1>5, <3>1
    <3>3. Before(sbox[d + 1].frame, BJ[d + 1], handlers[k].frame, HJ[k])
      BY <1>5, <3>1, <3>2 DEF Depths
    <3>4. sbox[d + 1].frame = Top /\ handlers[k].frame < Top
      BY <1>5, <1>7, <1>8, <3>2
    <3>5. QED
      BY <1>1, <1>4, <3>1, <3>3, <3>4 DEF Before
  <2>10. Types(g, ht, bt)
    BY <1>9, <2>3 DEF Types, Limited
  <2>11. /\ \A k \in 1..Len(ht) : Has(g, handlers[k].frame, HJ[k])
         /\ \A l \in 1..Len(bt) : Has(g, sbox[l].frame, BJ[l])
         /\ \A k \in 1..Len(ht) : handlers[k].nsbox <= Len(bt)
    <3>1. (\A k \in 1..n : k <= n) /\ (\A k \in 1..d : k <= d)
      OBVIOUS
    <3>2. QED
      BY <1>9, <2>5, <2>6, <2>7, <2>8, <2>9, <3>1
  <2>12. Sound(g, ht, bt, HJ, BJ)
    BY <1>1, <1>2, <1>9, <2>3, <2>10, <2>11, CutSound
  <2>13. Saves(g, bt, BJ, At(sbox, perms, Len(bt)), isolated, grant)
    BY <1>1, <1>2, <1>9, <2>3, <2>10, <2>11, CutSaves
  <2>14. g \in Seq(Frame)
    BY <2>3 DEF Limited
  <2>15. Covers(g, ht, HJ, "try")
    BY <1>2, <1>5, <1>9, <2>3, <2>5, <2>14, CutCovers
  <2>16. Covers(g, bt, BJ, "sbox")
    BY <1>2, <1>5, <1>9, <2>3, <2>6, <2>14, CutCovers
  <2>17. TypeInv'
    <3>1. Types(frames', handlers', sbox')
      BY <1>3, <2>1, <2>10
    <3>2. Types(frames, handlers, sbox)' /\ Asking'
      BY <1>1, <1>3, <2>1, <3>1 DEF TypeInv, Asking
    <3>3. sp' \in Int
      <4>1. t \in 1..Len(frames)
        BY <1>1, <2>2
      <4>2. frames[t].base \in Int /\ frames[t].temps \in Nat
        BY <1>5, <4>1, FrameSeq
      <4>3. QED
        BY <1>4, <2>1, <4>2
    <3>4. QED
      BY <1>1, <1>3, <1>10, <2>1, <3>2, <3>3 DEF TypeInv
  <2>18. /\ Sound(frames', handlers', sbox', HJ, BJ)
         /\ Saves(frames', sbox', BJ, perms', isolated', grant')
         /\ Covers(frames', handlers', HJ, "try") /\ Covers(frames', sbox', BJ, "sbox")
         /\ ~asking.active' /\ todo' \in {<<>>, <<"POP">>}
    BY <1>1, <1>3, <1>9, <1>10, <2>1, <2>12, <2>13, <2>15, <2>16
  <2>19. QED
    BY <2>17, <2>18, AtNextStatement
<1>13. QED
  BY <1>11, <1>12

-----------------------------------------------------------------------------
Jumps == {"break", "continue"}

(* What Jump puts together: runs of the same instruction, in a row.         *)
Sized(s, n)     == s \in Seq(Ops) /\ Len(s) = n
Times(s, n, op) == Sized(s, n) /\ \A i \in 1..n : s[i] = op

(* w is s followed by t.                                                   *)
Joins(w, s, a, t, b) ==
  /\ Sized(w, a + b)
  /\ \A i \in 1..a : w[i] = s[i]
  /\ \A i \in (a + 1)..(a + b) : w[i] = t[i - a]

LEMMA Joined ==
  ASSUME NEW s, NEW t, NEW a \in Nat, NEW b \in Nat, Sized(s, a), Sized(t, b)
  PROVE  Joins(s \o t, s, a, t, b)
<1>1. s \in Seq(Ops) /\ t \in Seq(Ops) /\ Len(s) = a /\ Len(t) = b
  BY DEF Sized
<1>2. s \o t \in Seq(Ops)
  BY <1>1
<1>3. Len(s \o t) = a + b
  BY <1>1
<1>4. \A i \in 1..a : (s \o t)[i] = s[i]
  BY <1>1
<1>5. \A i \in (a + 1)..(a + b) : (s \o t)[i] = t[i - a]
  BY <1>1
<1>6. QED
  BY <1>2, <1>3, <1>4, <1>5 DEF Joins, Sized

LEMMA JumpShape ==
  ASSUME NEW a \in Nat, NEW b \in Nat, NEW kind \in Jumps,
         NEW u, NEW v, NEW k, NEW w, NEW t,
         Times(u, a, "TRY_POP"), Times(v, b, "SBOX_EXIT"), Times(k, 1, kind),
         Joins(w, u, a, v, b), Joins(t, w, a + b, k, 1)
  PROVE  t \in Seq(Ops) /\ Shape(t, a, b, kind)
<1>1. /\ t \in Seq(Ops) /\ Len(t) = a + b + 1
  BY DEF Joins, Sized
<1>2. \A i \in 1..(a + b) : t[i] = w[i]
  BY DEF Joins
<1>3. t[a + b + 1] = kind
  <2>1. a + b + 1 \in (a + b + 1)..(a + b + 1) /\ (a + b + 1) - (a + b) = 1
    OBVIOUS
  <2>2. t[a + b + 1] = k[1]
    BY <2>1 DEF Joins
  <2>3. QED
    BY <2>2 DEF Times
<1>4. \A i \in 1..a : t[i] = "TRY_POP"
  <2>1. \A i \in 1..a : i \in 1..(a + b)
    OBVIOUS
  <2>2. QED
    BY <1>2, <2>1 DEF Joins, Times
<1>5. ASSUME NEW i \in (a + 1)..(a + b) PROVE t[i] = "SBOX_EXIT"
  <2>1. i \in 1..(a + b) /\ i - a \in 1..b
    OBVIOUS
  <2>2. QED
    BY <1>2, <2>1 DEF Joins, Times
<1>6. QED
  BY <1>1, <1>3, <1>4, <1>5 DEF Shape

LEMMA Emitted ==
  ASSUME NEW a \in Nat, NEW b \in Nat, NEW kind \in Jumps,
         NEW t, t = [i \in 1..a |-> "TRY_POP"] \o [i \in 1..b |-> "SBOX_EXIT"] \o <<kind>>
  PROVE  t \in Seq(Ops) /\ Shape(t, a, b, kind)
<1> DEFINE u == [i \in 1..a |-> "TRY_POP"]
           v == [i \in 1..b |-> "SBOX_EXIT"]
           k == <<kind>>
           w == u \o v
<1>1. Times(u, a, "TRY_POP") /\ Times(v, b, "SBOX_EXIT")
  BY DEF Ops, Times, Sized
<1>2. Times(k, 1, kind)
  BY DEF Ops, Jumps, Times, Sized
<1> HIDE DEF u, v, k
<1>3. Joins(w, u, a, v, b)
  BY <1>1, Joined DEF Times
<1> HIDE DEF w
<1>4. t = w \o k
  BY DEF u, v, k, w
<1>5. Joins(w \o k, w, a + b, k, 1)
  <2>1. Sized(w, a + b) /\ Sized(k, 1) /\ a + b \in Nat /\ 1 \in Nat
    BY <1>2, <1>3 DEF Times, Joins
  <2>2. QED
    BY <2>1, Joined, Zenon
<1>6. Joins(t, w, a + b, k, 1)
  BY <1>4, <1>5
<1>7. QED
  BY <1>1, <1>2, <1>3, <1>6, JumpShape

LEMMA ShapeHead ==
  ASSUME NEW t \in Seq(Ops), NEW a \in Nat, NEW b \in Nat, NEW kind \in Jumps,
         Shape(t, a, b, kind)
  PROVE  /\ t \notin {<<>>, <<"POP">>}
         /\ a > 0 => Head(t) = "TRY_POP" /\ Shape(Tail(t), a - 1, b, kind)
         /\ a = 0 /\ b > 0 => Head(t) = "SBOX_EXIT" /\ Shape(Tail(t), a, b - 1, kind)
         /\ a = 0 /\ b = 0 => Head(t) = kind /\ Tail(t) = <<>>
<1>1. /\ Len(t) = a + b + 1 /\ t[a + b + 1] = kind
      /\ \A i \in 1..a : t[i] = "TRY_POP"
      /\ \A i \in (a + 1)..(a + b) : t[i] = "SBOX_EXIT"
  BY DEF Shape
<1>2. /\ t # <<>> /\ Head(t) = t[1] /\ Len(Tail(t)) = a + b
      /\ \A i \in 1..(a + b) : Tail(t)[i] = t[i + 1]
  BY <1>1
<1>3. t # <<"POP">>
  <2> SUFFICES ASSUME t = <<"POP">> PROVE FALSE
    OBVIOUS
  <2>1. Len(t) = 1 /\ t[1] = "POP"
    OBVIOUS
  <2>2. a = 0 /\ b = 0 /\ a + b + 1 = 1
    BY <1>1, <2>1
  <2>3. QED
    BY <1>1, <2>1, <2>2 DEF Jumps
<1>4. ASSUME a > 0
      PROVE  Head(t) = "TRY_POP" /\ Shape(Tail(t), a - 1, b, kind)
  <2>1. Head(t) = "TRY_POP"
    BY <1>1, <1>2, <1>4
  <2>2. Len(Tail(t)) = (a - 1) + b + 1 /\ (a - 1) + b + 1 = a + b
    BY <1>2
  <2>3. \A i \in 1..(a - 1) : Tail(t)[i] = "TRY_POP"
    BY <1>1, <1>2
  <2>4. \A i \in ((a - 1) + 1)..((a - 1) + b) : Tail(t)[i] = "SBOX_EXIT"
    BY <1>1, <1>2, <1>4
  <2>5. Tail(t)[(a - 1) + b + 1] = kind
    BY <1>1, <1>2, <1>4, <2>2
  <2>6. QED
    BY <2>1, <2>2, <2>3, <2>4, <2>5 DEF Shape
<1>5. ASSUME a = 0, b > 0
      PROVE  Head(t) = "SBOX_EXIT" /\ Shape(Tail(t), a, b - 1, kind)
  <2>1. Head(t) = "SBOX_EXIT"
    BY <1>1, <1>2, <1>5
  <2>2. Len(Tail(t)) = a + (b - 1) + 1 /\ a + (b - 1) + 1 = a + b
    BY <1>2
  <2>3. \A i \in (a + 1)..(a + (b - 1)) : Tail(t)[i] = "SBOX_EXIT"
    BY <1>1, <1>2, <1>5
  <2>4. Tail(t)[a + (b - 1) + 1] = kind
    BY <1>1, <1>2, <1>5, <2>2
  <2>5. \A i \in 1..a : Tail(t)[i] = "TRY_POP"
    BY <1>5
  <2>6. QED
    BY <2>1, <2>2, <2>3, <2>4, <2>5 DEF Shape
<1>6. ASSUME a = 0, b = 0
      PROVE  Head(t) = kind /\ Tail(t) = <<>>
  <2>1. Head(t) = kind
    BY <1>1, <1>2, <1>6
  <2> DEFINE s == Tail(t)
  <2>2. s \in Seq(Ops) /\ Len(s) = 0
    BY <1>2, <1>6
  <2> HIDE DEF s
  <2>3. s = <<>>
    BY <2>2
  <2>4. QED
    BY <2>1, <2>3 DEF s
<1>7. QED
  BY <1>2, <1>3, <1>4, <1>5, <1>6

(* In the middle of a jump, ...                                            *)
Midway(HJ, BJ, a, b, kind) ==
  /\ Shape(todo, a, b, kind)
  /\ Has(frames, Len(frames), InnermostLoop)
  /\ frames[Len(frames)].open[InnermostLoop].kind = "loop"
  /\ Leaving(frames, handlers, HJ, "try", InnermostLoop, a)
  /\ Leaving(frames, sbox, BJ, "sbox", InnermostLoop, b)
  /\ a > 0 => Covers(frames, sbox, BJ, "sbox")

LEMMA MidwayHolds ==
  ASSUME TypeInv', ~asking.active', NEW HJ \in Index, NEW BJ \in Index,
         Sound(frames', handlers', sbox', HJ, BJ),
         Saves(frames', sbox', BJ, perms', isolated', grant'),
         NEW a \in Nat, NEW b \in Nat, NEW kind \in Jumps, Midway(HJ, BJ, a, b, kind)'
  PROVE  IInv'
<1>1. EPerms' = perms' /\ EIso' = isolated'
  BY DEF EPerms, EIso
<1>2. Shape(todo', a, b, kind) /\ todo' \in Seq(Ops)
  BY DEF Midway, TypeInv
<1>3. ~Resting'
  BY <1>2, ShapeHead DEF Resting
<1>4. Jumping(HJ, BJ, InnermostLoop)'
  BY DEF Midway, Jumping, Jumps
<1>5. Saves(frames', sbox', BJ, EPerms', EIso', grant')
  BY <1>1
<1>6. Tracks(HJ, BJ)'
  BY <1>3, <1>4, <1>5 DEF Tracks
<1>7. QED
  BY <1>6 DEF IInv

LEMMA MidwayIs ==
  ASSUME IInv, NEW op, NextInstr(op), op # "POP"
  PROVE  /\ TypeInv /\ Types(frames, handlers, sbox) /\ status = "running"
         /\ ~asking.active /\ Len(frames) \in Nat /\ Len(frames) > 0 /\ Head(todo) = op
         /\ \E HJ, BJ \in Index, a, b \in Nat, kind \in Jumps :
              /\ Sound(frames, handlers, sbox, HJ, BJ)
              /\ Saves(frames, sbox, BJ, perms, isolated, grant)
              /\ Midway(HJ, BJ, a, b, kind)
<1>1. TypeInv /\ status = "running" /\ todo # <<>> /\ Head(todo) = op
  BY DEF IInv, NextInstr
<1>2. PICK HJ, BJ \in Index : Tracks(HJ, BJ)
  BY <1>1 DEF IInv
<1>3. Types(frames, handlers, sbox) /\ ~asking.active /\ todo \in Seq(Ops)
  BY <1>1 DEF TypeInv, Asking
<1>4. Len(frames) > 0 /\ Len(frames) \in Nat
  <2>1. frames \in Seq(Frame) /\ frames # <<>>
    BY <1>3 DEF Types
  <2>2. QED
    BY <2>1
<1>5. ~Resting
  <2>1. Head(<<"POP">>) = "POP"
    OBVIOUS
  <2>2. QED
    BY <1>1, <2>1 DEF Resting
<1>6. /\ Sound(frames, handlers, sbox, HJ, BJ)
      /\ Saves(frames, sbox, BJ, perms, isolated, grant)
      /\ Jumping(HJ, BJ, InnermostLoop)
  BY <1>2, <1>3, <1>5 DEF Tracks, EPerms, EIso
<1>7. \E a, b \in Nat, kind \in Jumps : Midway(HJ, BJ, a, b, kind)
  BY <1>6 DEF Jumping, Midway, Jumps
<1>8. QED
  BY <1>1, <1>3, <1>4, <1>6, <1>7

LEMMA JumpHolds ==
  ASSUME IInv, NEW kind \in Jumps, Jump(kind)
  PROVE  IInv'
<1> DEFINE L == InnermostLoop
<1>1. /\ TypeInv /\ Types(frames, handlers, sbox) /\ ~asking.active
      /\ frames \in Seq(Frame) /\ frames # <<>>
      /\ Len(handlers) \in Nat /\ Len(sbox) \in Nat
  BY AtStatement, HandlerSeq, BoxSeq DEF Jump, Types
<1>2. PICK HJ, BJ \in Index :
        /\ Sound(frames, handlers, sbox, HJ, BJ)
        /\ Saves(frames, sbox, BJ, perms, isolated, grant)
        /\ Covers(frames, handlers, HJ, "try")
        /\ Covers(frames, sbox, BJ, "sbox")
  BY AtStatement DEF Jump
<1>3. /\ L > 0
      /\ todo' = [i \in 1..Cardinality(Inside("try")) |-> "TRY_POP"]
                 \o [i \in 1..Cardinality(Inside("sbox")) |-> "SBOX_EXIT"] \o <<kind>>
      /\ UNCHANGED <<grant, frames, handlers, sbox, perms, isolated, sp, asking, status>>
  BY DEF Jump
<1>4. Has(frames, Len(frames), L) /\ frames[Len(frames)].open[L].kind = "loop"
  BY <1>1, <1>3, InnermostLoopIs
<1>5. Inside("try") = InsideOf(frames, L, "try") /\ Inside("sbox") = InsideOf(frames, L, "sbox")
  <2>1. Open = frames[Len(frames)].open /\ Len(frames) \in 1..Len(frames)
    BY <1>1 DEF Open, Top
  <2>2. DOMAIN Open = 1..Len(frames[Len(frames)].open)
    BY <1>1, <2>1, FrameSeq
  <2>3. QED
    BY <2>1, <2>2 DEF Inside, InsideOf
<1>6. L \in Nat
  <2>1. Len(frames) \in 1..Len(frames) /\ L \in 1..Len(frames[Len(frames)].open)
    BY <1>1, <1>4 DEF Has
  <2>2. QED
    BY <2>1
<1>7. Stack(frames, handlers, HJ, "try") /\ Stack(frames, sbox, BJ, "sbox")
  BY <1>2 DEF Sound
<1> HIDE DEF L
<1>8. PICK a \in Nat : /\ a = Cardinality(Inside("try"))
                       /\ Leaving(frames, handlers, HJ, "try", L, a)
  BY <1>1, <1>2, <1>5, <1>6, <1>7, Counted
<1>9. PICK b \in Nat : /\ b = Cardinality(Inside("sbox"))
                       /\ Leaving(frames, sbox, BJ, "sbox", L, b)
  BY <1>1, <1>2, <1>5, <1>6, <1>7, Counted
<1>10. todo' \in Seq(Ops) /\ Shape(todo', a, b, kind)
  BY <1>3, <1>8, <1>9, Emitted
<1>11. InnermostLoop' = L
  BY <1>3 DEF L, InnermostLoop, Open, Top
<1>12. Midway(HJ, BJ, a, b, kind)'
  BY <1>2, <1>3, <1>4, <1>8, <1>9, <1>10, <1>11 DEF Midway
<1>13. TypeInv'
  <2>1. Types(frames', handlers', sbox')
    BY <1>1, <1>3
  <2>2. Types(frames, handlers, sbox)' /\ Asking'
    BY <1>1, <1>3, <2>1 DEF TypeInv, Asking
  <2>3. QED
    BY <1>1, <1>3, <1>10, <2>2 DEF TypeInv
<1>14. /\ Sound(frames', handlers', sbox', HJ, BJ)
       /\ Saves(frames', sbox', BJ, perms', isolated', grant')
       /\ ~asking.active'
  BY <1>1, <1>2, <1>3
<1>15. QED
  BY <1>8, <1>9, <1>12, <1>13, <1>14, MidwayHolds

-----------------------------------------------------------------------------
(* One entry is taken off the stack while a jump is under way.             *)
LEMMA LeavingOne ==
  ASSUME NEW f \in Seq(Frame), NEW s, NEW t, Len(s) \in Nat, NEW J \in Index, NEW kind,
         Stack(f, s, J, kind), NEW L, NEW n \in Nat, n > 0, Leaving(f, s, J, kind, L, n),
         Starts(t, s), Len(t) = Len(s) - 1
  PROVE  Leaving(f, t, J, kind, L, n - 1)
<1> DEFINE m == Len(s)
<1>1. m \in Nat /\ m > 0 /\ n <= m /\ Len(t) = m - 1
  BY DEF Leaving
<1>2. \A k \in 1..Len(t) : k \in 1..m /\ t[k] = s[k]
  BY <1>1 DEF Starts
<1>3. s[m].frame = Len(f) /\ J[m] > L
  <2>1. m \in 1..Len(s) /\ m > Len(s) - n
    BY <1>1
  <2>2. QED
    BY <2>1 DEF Leaving
<1>4. \A k \in 1..Len(t) : Before(t[k].frame, J[k], s[m].frame, J[m])
  <2>1. \A k \in 1..Len(t) : k < m /\ m \in 1..Len(s)
    BY <1>1
  <2>2. QED
    BY <1>2, <2>1 DEF Stack
<1>5. \A k \in 1..Len(t) : k > Len(t) - (n - 1) <=> t[k].frame = Len(f) /\ J[k] > L
  <2>1. Len(t) - (n - 1) = Len(s) - n
    BY <1>1
  <2>2. QED
    BY <1>2, <2>1 DEF Leaving
<1>6. ASSUME NEW i \in Nat, NEW j \in Nat, Has(f, i, j), f[i].open[j].kind = kind
      PROVE  \/ \E k \in 1..Len(t) : t[k].frame = i /\ J[k] = j
             \/ /\ i = Len(f) /\ j > L
                /\ \A k \in 1..Len(t) : Before(t[k].frame, J[k], i, j)
  <2>1. CASE /\ i = Len(f) /\ j > L
             /\ \A k \in 1..Len(s) : Before(s[k].frame, J[k], i, j)
    BY <1>2, <2>1
  <2>2. CASE \E k \in 1..Len(s) : s[k].frame = i /\ J[k] = j
    <3>1. PICK k \in 1..Len(s) : s[k].frame = i /\ J[k] = j
      BY <2>2
    <3>2. CASE k = m
      BY <1>3, <1>4, <3>1, <3>2
    <3>3. CASE k # m
      <4>1. k \in 1..Len(t)
        BY <1>1, <3>3
      <4>2. QED
        BY <1>2, <3>1, <4>1
    <3>4. QED
      BY <3>2, <3>3
  <2>3. QED
    BY <1>6, <2>1, <2>2 DEF Leaving
<1>7. n - 1 <= Len(t)
  BY <1>1
<1>8. QED
  BY <1>5, <1>6, <1>7 DEF Leaving

LEMMA ItsOwnCut ==
  ASSUME NEW f \in Seq(Frame)
  PROVE  Cuts(f, f)
<1>1. \A i \in 1..Len(f) : Len(f[i].open) \in Nat
  BY FrameSeq
<1>2. Len(f) \in Nat
  OBVIOUS
<1>3. QED
  BY <1>1, <1>2 DEF Cuts

LEMMA TryPopHolds ==
  ASSUME IInv, TryPop
  PROVE  IInv'
<1> DEFINE ht == Front(handlers)
           L == InnermostLoop
<1>1. /\ TypeInv /\ Types(frames, handlers, sbox) /\ status = "running"
      /\ ~asking.active /\ Head(todo) = "TRY_POP"
  BY MidwayIs DEF TryPop
<1>2. PICK HJ, BJ \in Index, a, b \in Nat, kind \in Jumps :
        /\ Sound(frames, handlers, sbox, HJ, BJ)
        /\ Saves(frames, sbox, BJ, perms, isolated, grant)
        /\ Midway(HJ, BJ, a, b, kind)
  BY MidwayIs DEF TryPop
<1>3. /\ handlers' = ht /\ todo' = Tail(todo)
      /\ UNCHANGED <<grant, frames, sbox, perms, isolated, sp, asking, status>>
  BY DEF TryPop, NextInstr
<1>4. todo \in Seq(Ops) /\ Shape(todo, a, b, kind)
  BY <1>1, <1>2 DEF TypeInv, Midway
<1>5. a > 0 /\ Shape(todo', a - 1, b, kind)
  <2>1. a > 0
    <3> SUFFICES ASSUME a = 0 PROVE FALSE
      OBVIOUS
    <3>1. CASE b > 0
      BY <1>1, <1>4, <3>1, ShapeHead
    <3>2. CASE b = 0
      <4>1. Head(todo) = kind
        BY <1>4, <3>2, ShapeHead
      <4>2. QED
        BY <1>1, <4>1 DEF Jumps
    <3>3. QED
      BY <3>1, <3>2
  <2>2. QED
    BY <1>3, <1>4, <2>1, ShapeHead
<1>6. /\ frames \in Seq(Frame) /\ handlers \in Seq(Handler) /\ sbox \in Seq(Box)
      /\ Len(handlers) \in Nat /\ Len(sbox) \in Nat
  BY <1>1, HandlerSeq, BoxSeq DEF Types
<1>7. /\ Has(frames, Len(frames), L) /\ frames[Len(frames)].open[L].kind = "loop"
      /\ Leaving(frames, handlers, HJ, "try", L, a)
      /\ Leaving(frames, sbox, BJ, "sbox", L, b)
      /\ Covers(frames, sbox, BJ, "sbox")
  BY <1>2, <1>5 DEF Midway
<1>8. Len(handlers) - 1 \in 0..Len(handlers)
  BY <1>5, <1>6, <1>7 DEF Leaving
<1>9. ht \in Seq(Handler) /\ Len(ht) = Len(handlers) - 1 /\ Starts(ht, handlers)
  BY <1>6, <1>8, PrefixStarts DEF Front
<1> HIDE DEF ht, L
<1>10. /\ Stack(frames, handlers, HJ, "try") /\ Stack(frames, sbox, BJ, "sbox")
       /\ Depths(handlers, HJ, sbox, BJ)
  BY <1>2 DEF Sound
<1>11. Leaving(frames, ht, HJ, "try", L, a - 1)
  BY <1>5, <1>6, <1>7, <1>9, <1>10, LeavingOne
<1>12. Types(frames, ht, sbox) /\ Starts(sbox, sbox)
  BY <1>1, <1>6, <1>9 DEF Types, Starts
<1>13. Sound(frames, ht, sbox, HJ, BJ)
  <2>1. \A k \in 1..Len(ht) : k \in 1..Len(handlers)
    BY <1>6, <1>9
  <2>2. /\ \A k \in 1..Len(ht) : Has(frames, handlers[k].frame, HJ[k])
        /\ \A l \in 1..Len(sbox) : Has(frames, sbox[l].frame, BJ[l])
        /\ \A k \in 1..Len(ht) : handlers[k].nsbox <= Len(sbox)
    BY <1>10, <2>1 DEF Stack, Depths
  <2>3. QED
    BY <1>1, <1>2, <1>6, <1>9, <1>12, <2>2, ItsOwnCut, CutSound
<1>14. InnermostLoop' = L
  BY <1>3 DEF L, InnermostLoop, Open, Top
<1>15. Midway(HJ, BJ, a - 1, b, kind)'
  BY <1>3, <1>5, <1>7, <1>11, <1>14 DEF Midway
<1>16. TypeInv'
  <2>1. Types(frames', handlers', sbox')
    BY <1>3, <1>12
  <2>2. Types(frames, handlers, sbox)' /\ Asking'
    BY <1>1, <1>3, <2>1 DEF TypeInv, Asking
  <2>3. todo' \in Seq(Ops)
    BY <1>3, <1>4, ShapeHead
  <2>4. QED
    BY <1>1, <1>3, <2>2, <2>3 DEF TypeInv
<1>17. /\ Sound(frames', handlers', sbox', HJ, BJ)
       /\ Saves(frames', sbox', BJ, perms', isolated', grant')
       /\ ~asking.active' /\ a - 1 \in Nat
  BY <1>1, <1>2, <1>3, <1>5, <1>13
<1>18. QED
  BY <1>15, <1>16, <1>17, MidwayHolds

LEMMA SboxExitHolds ==
  ASSUME IInv, SboxExit
  PROVE  IInv'
<1> DEFINE bt == Front(sbox)
           L == InnermostLoop
           m == Len(sbox)
<1>1. /\ TypeInv /\ Types(frames, handlers, sbox) /\ status = "running"
      /\ ~asking.active /\ Head(todo) = "SBOX_EXIT"
  BY MidwayIs DEF SboxExit
<1>2. PICK HJ, BJ \in Index, a, b \in Nat, kind \in Jumps :
        /\ Sound(frames, handlers, sbox, HJ, BJ)
        /\ Saves(frames, sbox, BJ, perms, isolated, grant)
        /\ Midway(HJ, BJ, a, b, kind)
  BY MidwayIs DEF SboxExit
<1>3. /\ sbox' = bt /\ todo' = Tail(todo) /\ perms' = Last(sbox).saved
      /\ UNCHANGED <<grant, frames, handlers, isolated, sp, asking, status>>
  BY DEF SboxExit, NextInstr
<1>4. todo \in Seq(Ops) /\ Shape(todo, a, b, kind)
  BY <1>1, <1>2 DEF TypeInv, Midway
<1>5. a = 0 /\ b > 0 /\ Shape(todo', a, b - 1, kind)
  <2>1. a = 0
    BY <1>1, <1>4, ShapeHead
  <2>2. b > 0
    <3> SUFFICES ASSUME b = 0 PROVE FALSE
      OBVIOUS
    <3>1. Head(todo) = kind
      BY <1>4, <2>1, ShapeHead
    <3>2. QED
      BY <1>1, <3>1 DEF Jumps
  <2>3. QED
    BY <1>3, <1>4, <2>1, <2>2, ShapeHead
<1>6. /\ frames \in Seq(Frame) /\ handlers \in Seq(Handler) /\ sbox \in Seq(Box)
      /\ Len(handlers) \in Nat /\ Len(sbox) \in Nat /\ Len(frames) \in Nat
  BY <1>1, HandlerSeq, BoxSeq, FrameSeq DEF Types
<1>7. /\ Has(frames, Len(frames), L) /\ frames[Len(frames)].open[L].kind = "loop"
      /\ Leaving(frames, handlers, HJ, "try", L, a)
      /\ Leaving(frames, sbox, BJ, "sbox", L, b)
  BY <1>2 DEF Midway
<1>8. m - 1 \in 0..m /\ m \in 1..m
  BY <1>5, <1>6, <1>7 DEF Leaving
<1>9. bt \in Seq(Box) /\ Len(bt) = m - 1 /\ Starts(bt, sbox)
  BY <1>6, <1>8, PrefixStarts DEF Front
<1>10. perms' = At(sbox, perms, Len(bt)) /\ perms' \in SUBSET Caps
  <2>1. perms' = sbox[m].saved
    BY <1>3 DEF Last
  <2>2. m - 1 < m /\ (m - 1) + 1 = m
    BY <1>8
  <2>3. QED
    BY <1>6, <1>8, <1>9, <2>1, <2>2, BoxSeq DEF At
<1> HIDE DEF bt, L
<1>11. /\ Stack(frames, handlers, HJ, "try") /\ Stack(frames, sbox, BJ, "sbox")
       /\ Depths(handlers, HJ, sbox, BJ)
  BY <1>2 DEF Sound
<1>12. Leaving(frames, bt, BJ, "sbox", L, b - 1)
  BY <1>5, <1>6, <1>7, <1>9, <1>11, LeavingOne
<1>13. Types(frames, handlers, bt) /\ Starts(handlers, handlers)
  BY <1>1, <1>6, <1>9 DEF Types, Starts
<1>14. \A k \in 1..Len(handlers) : handlers[k].nsbox <= Len(bt)
  <2> SUFFICES ASSUME NEW k \in 1..Len(handlers) PROVE handlers[k].nsbox <= Len(bt)
    OBVIOUS
  <2>1. /\ handlers[k].nsbox \in Nat /\ handlers[k].nsbox <= m
        /\ handlers[k].frame \in Nat /\ HJ[k] \in Nat /\ L \in Nat
        /\ sbox[m].frame \in Nat /\ BJ[m] \in Nat
    BY <1>1, <1>6, <1>7, <1>8, <1>11, Placed DEF Depths, Has
  <2>2. handlers[k].frame <= Len(frames)
    BY <1>6, <1>11 DEF Stack, Has
  <2>3. ~(handlers[k].frame = Len(frames) /\ HJ[k] > L)
    BY <1>5, <1>6, <1>7 DEF Leaving
  <2>4. sbox[m].frame = Len(frames) /\ BJ[m] > L
    <3>1. \A l \in 1..m : l > m - b <=> sbox[l].frame = Len(frames) /\ BJ[l] > L
      BY <1>7 DEF Leaving
    <3>2. m > m - b
      BY <1>5, <1>6
    <3>3. QED
      BY <1>8, <3>1, <3>2
  <2>5. ~Before(sbox[m].frame, BJ[m], handlers[k].frame, HJ[k])
    BY <1>6, <2>1, <2>2, <2>3, <2>4 DEF Before
  <2>6. ~(m <= handlers[k].nsbox)
    BY <1>8, <1>11, <2>5 DEF Depths
  <2>7. QED
    BY <1>6, <1>9, <2>1, <2>6
<1>15. \A l \in 1..Len(bt) : Has(frames, sbox[l].frame, BJ[l])
  BY <1>6, <1>9, <1>11 DEF Stack
<1>16. Sound(frames, handlers, bt, HJ, BJ)
  <2>1. \A k \in 1..Len(handlers) : Has(frames, handlers[k].frame, HJ[k])
    BY <1>11 DEF Stack
  <2>2. QED
    BY <1>1, <1>2, <1>6, <1>9, <1>13, <1>14, <1>15, <2>1, ItsOwnCut, CutSound
<1>17. Saves(frames, bt, BJ, At(sbox, perms, Len(bt)), isolated, grant)
  BY <1>1, <1>2, <1>6, <1>9, <1>13, <1>15, ItsOwnCut, CutSaves
<1>18. InnermostLoop' = L
  BY <1>3 DEF L, InnermostLoop, Open, Top
<1>19. Midway(HJ, BJ, a, b - 1, kind)'
  BY <1>3, <1>5, <1>7, <1>12, <1>18 DEF Midway
<1>20. TypeInv'
  <2>1. Types(frames', handlers', sbox')
    BY <1>3, <1>13
  <2>2. Types(frames, handlers, sbox)' /\ Asking'
    BY <1>1, <1>3, <2>1 DEF TypeInv, Asking
  <2>3. todo' \in Seq(Ops)
    BY <1>3, <1>4, ShapeHead
  <2>4. QED
    BY <1>1, <1>3, <1>10, <2>2, <2>3 DEF TypeInv
<1>21. /\ Sound(frames', handlers', sbox', HJ, BJ)
       /\ Saves(frames', sbox', BJ, perms', isolated', grant')
       /\ ~asking.active' /\ b - 1 \in Nat
  BY <1>1, <1>2, <1>3, <1>5, <1>10, <1>16, <1>17
<1>22. QED
  BY <1>19, <1>20, <1>21, MidwayHolds

-----------------------------------------------------------------------------
(* JMP: JumpBreak leaves the loop, JumpContinue stays in it.               *)
LEMMA ArriveHolds ==
  ASSUME IInv, NEW op \in Jumps, NextInstr(op),
         NEW n, n = InnermostLoop - 1 \/ n = InnermostLoop,
         SetOpen(SubSeq(Open, 1, n)), UNCHANGED <<handlers, sbox, perms, sp>>
  PROVE  IInv'
<1> DEFINE L == InnermostLoop
           g == frames'
<1>1. /\ TypeInv /\ Types(frames, handlers, sbox) /\ status = "running"
      /\ ~asking.active /\ Head(todo) = op /\ Len(frames) \in Nat
  BY MidwayIs DEF Jumps
<1>2. PICK HJ, BJ \in Index, a, b \in Nat, kind \in Jumps :
        /\ Sound(frames, handlers, sbox, HJ, BJ)
        /\ Saves(frames, sbox, BJ, perms, isolated, grant)
        /\ Midway(HJ, BJ, a, b, kind)
  BY MidwayIs DEF Jumps
<1>3. /\ todo' = Tail(todo) /\ SetOpen(SubSeq(Open, 1, n))
      /\ UNCHANGED <<grant, handlers, sbox, perms, isolated, sp, asking, status>>
  BY DEF NextInstr
<1>4. todo \in Seq(Ops) /\ Shape(todo, a, b, kind)
  BY <1>1, <1>2 DEF TypeInv, Midway
<1>5. a = 0 /\ b = 0 /\ todo' = <<>>
  <2>1. op # "TRY_POP" /\ op # "SBOX_EXIT"
    BY DEF Jumps
  <2>2. ~(a > 0)
    BY <1>1, <1>4, <2>1, ShapeHead
  <2>3. ~(b > 0)
    BY <1>1, <1>4, <2>1, <2>2, ShapeHead
  <2>4. a = 0 /\ b = 0
    BY <2>2, <2>3
  <2>5. QED
    BY <1>3, <1>4, <2>4, ShapeHead
<1>6. /\ frames \in Seq(Frame) /\ handlers \in Seq(Handler) /\ sbox \in Seq(Box)
      /\ Len(handlers) \in Nat /\ Len(sbox) \in Nat /\ Limited(frames)
  BY <1>1, HandlerSeq, BoxSeq DEF Types, Limited
<1>7. /\ Has(frames, Len(frames), L) /\ frames[Len(frames)].open[L].kind = "loop"
      /\ Leaving(frames, handlers, HJ, "try", L, 0)
      /\ Leaving(frames, sbox, BJ, "sbox", L, 0)
  BY <1>2, <1>5 DEF Midway
<1>8. PICK t, m : AtEnd(frames, t, m) /\ L \in 1..m /\ m \in Nat /\ t = Len(frames)
  <2>1. Len(frames) \in 1..Len(frames) /\ L \in 1..Len(frames[Len(frames)].open)
    BY <1>7 DEF Has
  <2>2. Len(frames[Len(frames)].open) \in Nat
    BY <1>6, <2>1, FrameSeq
  <2>3. AtEnd(frames, Len(frames), Len(frames[Len(frames)].open))
    BY <2>1, <2>2 DEF AtEnd, Has
  <2>4. QED
    BY <2>1, <2>2, <2>3
<1>9. n \in 0..m /\ n \in Nat /\ n <= L /\ n >= L - 1 /\ L \in Nat
  BY <1>8
<1>10. g = Trimmed(frames, t, n)
  BY <1>3, <1>8 DEF SetOpen, Open, Top, Trimmed
<1>11. /\ Limited(g) /\ Cuts(g, frames)
       /\ \A i, j \in Nat : Has(g, i, j) <=> Has(frames, i, j) /\ (i = t => j <= n)
  BY <1>6, <1>8, <1>9, <1>10, TrimFrames
<1> HIDE DEF L, g
<1>12. /\ \A k \in 1..Len(handlers) : /\ Has(frames, handlers[k].frame, HJ[k])
                                      /\ handlers[k].frame \in Nat /\ HJ[k] \in Nat
                                      /\ frames[handlers[k].frame].open[HJ[k]].kind = "try"
                                      /\ handlers[k].nsbox <= Len(sbox)
       /\ \A k \in 1..Len(sbox) : /\ Has(frames, sbox[k].frame, BJ[k])
                                  /\ sbox[k].frame \in Nat /\ BJ[k] \in Nat
                                  /\ frames[sbox[k].frame].open[BJ[k]].kind = "sbox"
  BY <1>1, <1>2, Placed DEF Sound, Stack, Depths
<1>13. \A k \in 1..Len(handlers) : Has(g, handlers[k].frame, HJ[k])
  <2> SUFFICES ASSUME NEW k \in 1..Len(handlers) PROVE Has(g, handlers[k].frame, HJ[k])
    OBVIOUS
  <2>1. ~(handlers[k].frame = Len(frames) /\ HJ[k] > L)
    BY <1>6, <1>7 DEF Leaving
  <2>2. ~(handlers[k].frame = Len(frames) /\ HJ[k] = L)
    BY <1>7, <1>12
  <2>3. handlers[k].frame = t => HJ[k] <= n
    BY <1>8, <1>9, <1>12, <2>1, <2>2
  <2>4. QED
    BY <1>11, <1>12, <2>3
<1>14. \A k \in 1..Len(sbox) : Has(g, sbox[k].frame, BJ[k])
  <2> SUFFICES ASSUME NEW k \in 1..Len(sbox) PROVE Has(g, sbox[k].frame, BJ[k])
    OBVIOUS
  <2>1. ~(sbox[k].frame = Len(frames) /\ BJ[k] > L)
    BY <1>6, <1>7 DEF Leaving
  <2>2. ~(sbox[k].frame = Len(frames) /\ BJ[k] = L)
    BY <1>7, <1>12
  <2>3. sbox[k].frame = t => BJ[k] <= n
    BY <1>8, <1>9, <1>12, <2>1, <2>2
  <2>4. QED
    BY <1>11, <1>12, <2>3
<1>15. Types(g, handlers, sbox) /\ Starts(handlers, handlers) /\ Starts(sbox, sbox)
  BY <1>6, <1>11 DEF Types, Starts, Limited
<1>16. Sound(g, handlers, sbox, HJ, BJ)
  <2>1. \A k \in 1..Len(handlers) : handlers[k].nsbox <= Len(sbox)
    BY <1>12
  <2>2. QED
    BY <1>1, <1>2, <1>11, <1>13, <1>14, <1>15, <2>1, CutSound
<1>17. Saves(g, sbox, BJ, perms, isolated, grant)
  <2>1. Saves(g, sbox, BJ, At(sbox, perms, Len(sbox)), isolated, grant)
    BY <1>1, <1>2, <1>11, <1>14, <1>15, CutSaves
  <2>2. At(sbox, perms, Len(sbox)) = perms
    BY <1>6 DEF At
  <2>3. QED
    BY <2>1, <2>2
<1>18. \A i, j \in Nat : Has(g, i, j) => /\ Has(frames, i, j) /\ ~(i = Len(frames) /\ j > L)
                                         /\ g[i].open[j] = frames[i].open[j]
  <2>1. g \in Seq(Frame)
    BY <1>11 DEF Limited
  <2>2. \A i, j \in Nat : Has(g, i, j) => g[i].open[j] = frames[i].open[j]
    BY <1>6, <1>11, <2>1, CutHas
  <2>3. QED
    BY <1>8, <1>9, <1>11, <2>2
<1>19. Covers(g, handlers, HJ, "try")
  <2>1. \A i, j \in Nat :
          Has(frames, i, j) /\ frames[i].open[j].kind = "try" =>
            \/ \E k \in 1..Len(handlers) : handlers[k].frame = i /\ HJ[k] = j
            \/ i = Len(frames) /\ j > L
    BY <1>7 DEF Leaving
  <2>2. QED
    BY <1>18, <2>1 DEF Covers
<1>20. Covers(g, sbox, BJ, "sbox")
  <2>1. \A i, j \in Nat :
          Has(frames, i, j) /\ frames[i].open[j].kind = "sbox" =>
            \/ \E k \in 1..Len(sbox) : sbox[k].frame = i /\ BJ[k] = j
            \/ i = Len(frames) /\ j > L
    BY <1>7 DEF Leaving
  <2>2. QED
    BY <1>18, <2>1 DEF Covers
<1>21. TypeInv'
  <2>1. Types(frames', handlers', sbox')
    BY <1>3, <1>15 DEF g
  <2>2. Types(frames, handlers, sbox)' /\ Asking'
    BY <1>1, <1>3, <2>1 DEF TypeInv, Asking
  <2>3. todo' \in Seq(Ops)
    BY <1>5
  <2>4. QED
    BY <1>1, <1>3, <2>2, <2>3 DEF TypeInv
<1>22. /\ Sound(frames', handlers', sbox', HJ, BJ)
       /\ Saves(frames', sbox', BJ, perms', isolated', grant')
       /\ Covers(frames', handlers', HJ, "try") /\ Covers(frames', sbox', BJ, "sbox")
       /\ ~asking.active' /\ todo' \in {<<>>, <<"POP">>}
  BY <1>1, <1>3, <1>5, <1>16, <1>17, <1>19, <1>20 DEF g
<1>23. QED
  BY <1>21, <1>22, AtNextStatement

LEMMA StoreErrorIs ==
  ASSUME IInv, StoreError
  PROVE  todo = <<"POP">> /\ todo' = <<>>
<1>1. /\ status = "running" /\ todo # <<>> /\ Head(todo) = "POP" /\ todo' = Tail(todo)
  BY DEF StoreError, NextInstr
<1>2. TypeInv /\ todo \in Seq(Ops)
  BY DEF IInv, TypeInv
<1>3. PICK HJ, BJ \in Index : Tracks(HJ, BJ)
  BY <1>1 DEF IInv
<1>4. Resting
  <2> SUFFICES ASSUME ~Resting PROVE FALSE
    OBVIOUS
  <2>1. PICK a, b \in Nat, kind \in Jumps : Shape(todo, a, b, kind)
    BY <1>3 DEF Tracks, Jumping, Jumps
  <2>2. "POP" \notin Jumps
    BY DEF Jumps
  <2>3. ~(a > 0) /\ ~(a = 0 /\ b > 0) /\ ~(a = 0 /\ b = 0)
    BY <1>1, <1>2, <2>1, <2>2, ShapeHead
  <2>4. QED
    BY <2>3
<1>5. todo = <<"POP">> /\ todo' = <<>>
  <2>1. Tail(<<"POP">>) = <<>>
    OBVIOUS
  <2>2. QED
    BY <1>1, <1>4, <2>1 DEF Resting
<1>6. QED
  BY <1>5

LEMMA StoreErrorHolds ==
  ASSUME IInv, StoreError
  PROVE  IInv'
<1>1. /\ status = "running" /\ sp' = sp - 1
      /\ UNCHANGED <<grant, frames, handlers, sbox, perms, isolated, asking, status>>
  BY DEF StoreError, NextInstr
<1>2. TypeInv /\ Types(frames, handlers, sbox) /\ ~asking.active
  <2>1. todo # <<>>
    BY DEF StoreError, NextInstr
  <2>2. QED
    BY <2>1 DEF IInv, TypeInv, Asking
<1>3. PICK HJ, BJ \in Index : Tracks(HJ, BJ)
  BY <1>1 DEF IInv
<1>4. todo = <<"POP">> /\ Resting
  BY StoreErrorIs DEF Resting
<1>5. todo' = <<>>
  BY StoreErrorIs
<1>6. /\ Sound(frames', handlers', sbox', HJ, BJ)
      /\ Saves(frames', sbox', BJ, perms', isolated', grant')
      /\ Covers(frames', handlers', HJ, "try") /\ Covers(frames', sbox', BJ, "sbox")
      /\ ~asking.active' /\ todo' \in {<<>>, <<"POP">>}
  BY <1>1, <1>2, <1>3, <1>4, <1>5 DEF Tracks, EPerms, EIso
<1>7. TypeInv'
  <2>1. Types(frames', handlers', sbox')
    BY <1>1, <1>2
  <2>2. Types(frames, handlers, sbox)' /\ Asking'
    BY <1>1, <1>2, <2>1 DEF TypeInv, Asking
  <2>3. QED
    BY <1>1, <1>2, <1>5, <2>2 DEF TypeInv
<1>8. QED
  BY <1>6, <1>7, AtNextStatement

(* agent_ask: what is owed to the program are the permissions it will have *)
(* when the reply is there.                                                *)
LEMMA AgentAskHolds ==
  ASSUME IInv, AgentAsk
  PROVE  IInv'
<1>1. TypeInv /\ Types(frames, handlers, sbox) /\ status = "running" /\ todo = <<>>
      /\ ~asking.active
  BY AtStatement DEF AgentAsk
<1>2. PICK HJ, BJ \in Index :
        /\ Sound(frames, handlers, sbox, HJ, BJ)
        /\ Saves(frames, sbox, BJ, perms, isolated, grant)
        /\ Covers(frames, handlers, HJ, "try")
        /\ Covers(frames, sbox, BJ, "sbox")
  BY AtStatement DEF AgentAsk
<1>3. /\ asking' = [active |-> TRUE, perms |-> perms, isolated |-> isolated]
      /\ perms' = perms \ {Fs} /\ isolated' = TRUE
      /\ UNCHANGED <<grant, frames, handlers, sbox, sp, todo, status>>
  BY DEF AgentAsk
<1>4. EPerms' = perms /\ EIso' = isolated /\ Resting'
  BY <1>1, <1>3 DEF EPerms, EIso, Resting
<1>5. TypeInv'
  <2>1. Types(frames', handlers', sbox')
    BY <1>1, <1>3
  <2>2. Types(frames, handlers, sbox)'
    BY <2>1
  <2>3. perms \in SUBSET Caps /\ isolated \in BOOLEAN /\ perms' \in SUBSET Caps
    BY <1>1, <1>3 DEF TypeInv
  <2>4. Asking'
    BY <1>1, <1>3, <2>3 DEF Asking
  <2>5. QED
    BY <1>1, <1>3, <2>2, <2>3, <2>4 DEF TypeInv
<1>6. Saves(frames', sbox', BJ, EPerms', EIso', grant')
  BY <1>2, <1>3, <1>4
<1>7. Tracks(HJ, BJ)'
  BY <1>2, <1>3, <1>4, <1>6 DEF Tracks
<1>8. QED
  BY <1>5, <1>7 DEF IInv

LEMMA AgentReplyHolds ==
  ASSUME IInv, AgentReply
  PROVE  IInv'
<1>1. /\ asking.active /\ perms' = asking.perms /\ isolated' = asking.isolated
      /\ asking' = NoAsk
      /\ UNCHANGED <<grant, frames, handlers, sbox, sp, todo, status>>
  BY DEF AgentReply
<1>2. /\ TypeInv /\ Types(frames, handlers, sbox) /\ status = "running" /\ todo = <<>>
      /\ asking \in [active : BOOLEAN, perms : SUBSET Caps, isolated : BOOLEAN]
  BY <1>1 DEF IInv, TypeInv, Asking
<1>3. PICK HJ, BJ \in Index : Tracks(HJ, BJ)
  BY <1>2 DEF IInv
<1>4. /\ Sound(frames', handlers', sbox', HJ, BJ)
      /\ Saves(frames', sbox', BJ, perms', isolated', grant')
      /\ Covers(frames', handlers', HJ, "try") /\ Covers(frames', sbox', BJ, "sbox")
      /\ ~asking.active' /\ todo' \in {<<>>, <<"POP">>}
  BY <1>1, <1>2, <1>3 DEF Tracks, EPerms, EIso, Resting, NoAsk
<1>5. TypeInv'
  <2>1. Types(frames', handlers', sbox')
    BY <1>1, <1>2
  <2>2. Types(frames, handlers, sbox)'
    BY <2>1
  <2>3. Asking'
    BY <1>1 DEF Asking, NoAsk
  <2>4. QED
    BY <1>1, <1>2, <2>2, <2>3 DEF TypeInv
<1>6. QED
  BY <1>4, <1>5, AtNextStatement

LEMMA RaiseHolds ==
  ASSUME IInv, status = "running", Raise
  PROVE  IInv'
<1>1. CASE Die
  <2>1. /\ status' = "dead" /\ asking' = NoAsk
        /\ UNCHANGED <<grant, frames, handlers, sbox, perms, isolated, sp, todo>>
    BY <1>1 DEF Die
  <2>2. Asking' /\ Types(frames, handlers, sbox)'
    BY <2>1 DEF Asking, NoAsk, IInv, TypeInv
  <2>3. TypeInv'
    BY <2>1, <2>2 DEF IInv, TypeInv
  <2>4. QED
    BY <2>1, <2>3 DEF IInv
<1>2. CASE ~Die
  <2>1. /\ handlers # <<>>
        /\ Land(Last(handlers), Front(handlers), PermsBelow(Last(handlers).nsbox),
                Last(handlers).sp)
    BY <1>2 DEF Raise
  <2>2. QED
    BY <2>1, LandHolds
<1>3. QED
  BY <1>1, <1>2

-----------------------------------------------------------------------------
LEMMA InitHolds == Init => IInv
<1> SUFFICES ASSUME Init PROVE IInv
  OBVIOUS
<1> DEFINE x == [base |-> 0, temps |-> 0, open |-> <<>>]
           J == [k \in Nat |-> 0]
<1>1. /\ frames = << x >> /\ handlers = <<>> /\ sbox = <<>> /\ grant \in SUBSET Caps
      /\ perms = grant /\ isolated = FALSE /\ sp = Slots /\ todo = <<>>
      /\ asking = NoAsk /\ status = "running"
  BY DEF Init
<1>2. x \in Frame /\ Len(x.open) = 0
  BY DEF Frame
<1>3. J \in Index
  BY DEF Index
<1> HIDE DEF x, J
<1>4. frames \in Seq(Frame) /\ frames # <<>> /\ Len(frames) = 1 /\ frames[1] = x
  BY <1>1, <1>2
<1>5. MaxOpen \in Nat /\ Slots \in Nat
  BY UnwindAssumption
<1>6. \A i \in 1..Len(frames) : Len(frames[i].open) <= MaxOpen
  BY <1>2, <1>4, <1>5
<1>7. \A i, j : ~Has(frames, i, j)
  <2> SUFFICES ASSUME NEW i, NEW j, i \in 1..1, j \in 1..Len(frames[i].open) PROVE FALSE
    BY <1>4 DEF Has
  <2>1. i = 1
    OBVIOUS
  <2>2. QED
    BY <1>2, <1>4, <2>1
<1>8. Types(frames, handlers, sbox)
  <2>1. handlers \in Seq(Handler) /\ sbox \in Seq(Box)
    BY <1>1
  <2>2. QED
    BY <1>4, <1>6, <2>1 DEF Types
<1>9. TypeInv
  <2>1. Asking
    BY <1>1 DEF Asking, NoAsk
  <2>2. todo \in Seq(Ops) /\ sp \in Int
    BY <1>1, <1>5
  <2>3. QED
    BY <1>1, <1>8, <2>1, <2>2 DEF TypeInv
<1>10. Len(handlers) = 0 /\ Len(sbox) = 0
  BY <1>1
<1>11. Sound(frames, handlers, sbox, J, J)
  BY <1>10 DEF Sound, Stack, Catches, Depths
<1>12. Saves(frames, sbox, J, perms, isolated, grant)
  BY <1>1, <1>10 DEF Saves, At
<1>13. Covers(frames, handlers, J, "try") /\ Covers(frames, sbox, J, "sbox")
  BY <1>7 DEF Covers
<1>14. Resting /\ EPerms = perms /\ EIso = isolated
  BY <1>1 DEF Resting, EPerms, EIso, NoAsk
<1>15. Tracks(J, J)
  BY <1>11, <1>12, <1>13, <1>14 DEF Tracks
<1>16. QED
  BY <1>3, <1>9, <1>15 DEF IInv

LEMMA StutterHolds ==
  ASSUME IInv, UNCHANGED vars
  PROVE  IInv'
<1>1. UNCHANGED <<grant, frames, handlers, sbox, perms, isolated, sp, todo, asking, status>>
  BY DEF vars
<1>2. Types(frames, handlers, sbox)' /\ Asking'
  BY <1>1 DEF IInv, TypeInv, Asking
<1>3. TypeInv'
  BY <1>1, <1>2 DEF IInv, TypeInv
<1>4. InnermostLoop' = InnermostLoop /\ EPerms' = EPerms /\ EIso' = EIso /\ Resting' = Resting
  BY <1>1 DEF InnermostLoop, Open, Top, EPerms, EIso, Resting
<1>5. ASSUME status = "running" PROVE \E HJ, BJ \in Index : Tracks(HJ, BJ)'
  <2>1. PICK HJ, BJ \in Index : Tracks(HJ, BJ)
    BY <1>5 DEF IInv
  <2>2. Tracks(HJ, BJ)'
    BY <1>1, <1>4, <2>1 DEF Tracks, Jumping
  <2>3. QED
    BY <2>2
<1>6. QED
  BY <1>1, <1>3, <1>5 DEF IInv

LEMMA StepHolds ==
  ASSUME IInv, Next
  PROVE  IInv'
<1>1. CASE RuntimeError
  BY <1>1, RaiseHolds DEF RuntimeError, Ready
<1>2. CASE TimeLimit
  BY <1>2, RaiseHolds DEF TimeLimit
<1>3. CASE InstrLimit
  BY <1>3, RaiseHolds DEF InstrLimit
<1>4. CASE EnterTry
  BY <1>4, EnterTryHolds
<1>5. CASE LeaveTry
  BY <1>5, LeavesAre, LeaveHolds
<1>6. ASSUME NEW deny \in SUBSET Caps \ {{}}, EnterSandbox(deny) PROVE IInv'
  BY <1>6, EnterSandboxHolds
<1>7. CASE LeaveSandbox
  BY <1>7, LeavesAre, LeaveHolds
<1>8. CASE EnterLoop
  BY <1>8, EnterLoopHolds
<1>9. CASE LeaveLoop
  BY <1>9, LeavesAre, LeaveHolds
<1>10. ASSUME NEW kind \in {"break", "continue"}, Jump(kind) PROVE IInv'
  BY <1>10, JumpHolds DEF Jumps
<1>11. CASE TryPop
  BY <1>11, TryPopHolds
<1>12. CASE SboxExit
  BY <1>12, SboxExitHolds
<1>13. CASE JumpBreak
  BY <1>13, ArriveHolds DEF JumpBreak, Jumps
<1>14. CASE JumpContinue
  BY <1>14, ArriveHolds DEF JumpContinue, Jumps
<1>15. CASE StoreError
  BY <1>15, StoreErrorHolds
<1>16. ASSUME NEW temps \in 0..MaxTemps, Call(temps) PROVE IInv'
  BY <1>16, CallHolds
<1>17. CASE Return
  BY <1>17, ReturnHolds
<1>18. CASE AgentAsk
  BY <1>18, AgentAskHolds
<1>19. CASE AgentReply
  BY <1>19, AgentReplyHolds
<1>20. CASE AgentFails
  BY <1>20, RaiseHolds DEF AgentFails, IInv, TypeInv, Asking
<1>21. QED
  BY <1>1, <1>2, <1>3, <1>4, <1>5, <1>6, <1>7, <1>8, <1>9, <1>10, <1>11, <1>12, <1>13,
     <1>14, <1>15, <1>16, <1>17, <1>18, <1>19, <1>20 DEF Next

(* The strengthened invariant: at a statement, and between the            *)
(* instructions of a break or continue, every entry of the two stacks      *)
(* stands for a block of the program text, in the order of the text        *)
(* (vm.c:92-100, 317-344; vxc.py:734-740).                                 *)
THEOREM StacksTrackText == Spec => []IInv
<1>1. IInv /\ [Next]_vars => IInv'
  BY StepHolds, StutterHolds
<1>2. QED
  BY InitHolds, <1>1, PTL DEF Spec

(* The places in force are those that the lemmas speak of.                 *)
LEMMA InForceIs ==
  ASSUME Types(frames, handlers, sbox)
  PROVE  /\ \A i, j : Has(frames, i, j) => <<i, j>> \in InForce
         /\ \A p \in InForce : /\ p = <<p[1], p[2]>> /\ p[1] \in Nat /\ p[2] \in Nat
                               /\ Has(frames, p[1], p[2])
<1>1. /\ DOMAIN frames = 1..Len(frames) /\ Len(frames) \in Nat /\ MaxOpen \in Nat
      /\ \A i \in 1..Len(frames) :
           /\ DOMAIN frames[i].open = 1..Len(frames[i].open)
           /\ Len(frames[i].open) \in Nat /\ Len(frames[i].open) <= MaxOpen
  BY FrameSeq, UnwindAssumption DEF Types
<1>2. ASSUME NEW i, NEW j, Has(frames, i, j) PROVE <<i, j>> \in InForce
  <2>1. i \in DOMAIN frames /\ j \in DOMAIN frames[i].open /\ j \in 1..MaxOpen
    BY <1>1, <1>2 DEF Has
  <2>2. <<i, j>> \in Places
    BY <2>1 DEF Places
  <2>3. QED
    BY <2>1, <2>2 DEF InForce
<1>3. ASSUME NEW p \in InForce
      PROVE  /\ p = <<p[1], p[2]>> /\ p[1] \in Nat /\ p[2] \in Nat
             /\ Has(frames, p[1], p[2])
  <2>1. p \in Places /\ p[2] \in DOMAIN frames[p[1]].open
    BY DEF InForce
  <2>2. PICK f \in DOMAIN frames, i \in 1..MaxOpen : p = <<f, i>>
    BY <2>1 DEF Places
  <2>3. p[1] = f /\ p[2] = i
    BY <2>2
  <2>4. QED
    BY <1>1, <2>1, <2>2, <2>3 DEF Has
<1>4. QED
  BY <1>2, <1>3

LEMMA LexicalInv == IInv => PermsAreLexical
<1> SUFFICES ASSUME IInv, AtRest
             PROVE  /\ perms \subseteq grant \ Denied(InForce)
                    /\ ~isolated => perms = grant \ Denied(InForce)
  BY DEF PermsAreLexical
<1>1. TypeInv /\ Types(frames, handlers, sbox) /\ status = "running" /\ Resting
  BY DEF IInv, TypeInv, AtRest, Resting
<1>2. PICK HJ, BJ \in Index : Tracks(HJ, BJ)
  BY <1>1 DEF IInv
<1>3. /\ Stack(frames, sbox, BJ, "sbox") /\ Covers(frames, sbox, BJ, "sbox")
      /\ Saves(frames, sbox, BJ, EPerms, EIso, grant)
  BY <1>1, <1>2 DEF Tracks, Sound
<1>4. Len(sbox) \in Nat /\ frames \in Seq(Frame)
  BY <1>1, BoxSeq DEF Types
<1> DEFINE D(l) == frames[sbox[l].frame].open[BJ[l]].deny
<1>5. \A c \in Caps : /\ c \in EPerms => c \in grant /\ \A l \in 1..Len(sbox) : c \notin D(l)
                      /\ /\ ~EIso /\ c \in grant /\ \A l \in 1..Len(sbox) : c \notin D(l)
                         => c \in EPerms
  <2>1. At(sbox, EPerms, Len(sbox)) = EPerms /\ Len(sbox) \in 0..Len(sbox)
    BY <1>4 DEF At
  <2>2. QED
    BY <1>3, <2>1 DEF Saves
<1>6. \A c : c \in Denied(InForce) <=> \E l \in 1..Len(sbox) : c \in D(l)
  <2>1. ASSUME NEW c, NEW l \in 1..Len(sbox), c \in D(l) PROVE c \in Denied(InForce)
    <3> DEFINE p == <<sbox[l].frame, BJ[l]>>
    <3>1. p \in InForce
      BY <1>1, <1>3, InForceIs DEF Stack
    <3>2. BlockAt(p).deny = D(l)
      BY DEF BlockAt
    <3> HIDE DEF p, D
    <3>3. QED
      BY <2>1, <3>1, <3>2 DEF Denied
  <2>2. ASSUME NEW c, c \in Denied(InForce) PROVE \E l \in 1..Len(sbox) : c \in D(l)
    <3>1. PICK p \in InForce : c \in BlockAt(p).deny
      BY <2>2 DEF Denied
    <3>2. /\ p[1] \in Nat /\ p[2] \in Nat /\ Has(frames, p[1], p[2])
      BY <1>1, InForceIs
    <3>3. BlockAt(p) = frames[p[1]].open[p[2]]
      BY DEF BlockAt
    <3>4. frames[p[1]].open[p[2]] \in Blocks
      BY <1>4, <3>2, FrameSeq DEF Has
    <3>5. frames[p[1]].open[p[2]].kind = "sbox"
      BY <3>1, <3>3, <3>4, BlockKinds
    <3>6. PICK l \in 1..Len(sbox) : sbox[l].frame = p[1] /\ BJ[l] = p[2]
      BY <1>3, <3>2, <3>5 DEF Covers
    <3>7. QED
      BY <3>1, <3>3, <3>6
  <2>3. QED
    BY <2>1, <2>2
<1> HIDE DEF D
<1>7. grant \subseteq Caps /\ perms \subseteq Caps /\ EPerms \subseteq Caps
  BY <1>1 DEF TypeInv, EPerms, Asking
<1>8. EPerms \subseteq grant \ Denied(InForce)
  BY <1>5, <1>6, <1>7
<1>9. ~EIso => EPerms = grant \ Denied(InForce)
  BY <1>5, <1>6, <1>7
<1>10. perms \subseteq EPerms /\ (~isolated => ~asking.active)
  BY <1>1 DEF TypeInv, Asking, EPerms
<1>11. QED
  BY <1>8, <1>9, <1>10 DEF EPerms, EIso

(* The capabilities in force at any statement are those granted, less what *)
(* the sandbox blocks around the place deny, however control got there     *)
(* (vm.c:92-100, 317-344; vxc.py:662-670, 734-740).                        *)
THEOREM PermsAreLexicalAlways == Spec => []PermsAreLexical
  BY StacksTrackText, LexicalInv, PTL

-----------------------------------------------------------------------------
(* Where a caught error goes.                                              *)
LEMMA LandsWhere ==
  ASSUME IInv, AtRest, handlers # <<>>,
         NEW h, h = Last(handlers), NEW left, NEW rest, NEW height,
         Land(h, left, rest, height)
  PROVE  \E p \in InForce :
           /\ IsTry(BlockAt(p))
           /\ \A q \in InForce : IsTry(BlockAt(q)) => q = p \/ q \in Outside(p)
           /\ Len(frames') = p[1]
           /\ frames'[p[1]].open = SubSeq(frames[p[1]].open, 1, p[2] - 1)
           /\ SubSeq(frames', 1, p[1] - 1) = SubSeq(frames, 1, p[1] - 1)
<1> DEFINE n == Len(handlers)
<1>1. /\ TypeInv /\ Types(frames, handlers, sbox) /\ status = "running" /\ Resting
  BY DEF IInv, TypeInv, AtRest, Resting
<1>2. PICK HJ, BJ \in Index : Tracks(HJ, BJ)
  BY <1>1 DEF IInv
<1>3. /\ Stack(frames, handlers, HJ, "try") /\ Covers(frames, handlers, HJ, "try")
      /\ Catches(frames, handlers, HJ)
  BY <1>1, <1>2 DEF Tracks, Sound
<1>4. n \in Nat /\ n > 0 /\ h = handlers[n] /\ n \in 1..Len(handlers)
  BY <1>1, HandlerSeq DEF Types, Last
<1> DEFINE m == h.frame
           j == HJ[n]
           c == h.catch
           p == <<m, j>>
<1>5. /\ m \in Nat /\ j \in Nat /\ c \in Seq(Blocks) /\ Len(c) \in Nat
      /\ Has(frames, m, j) /\ frames[m].open[j].kind = "try" /\ Len(c) + 1 = j
      /\ \A i \in 1..Len(c) : c[i] = frames[m].open[i]
  <2>1. /\ h.frame \in Nat /\ HJ[n] \in Nat /\ h.catch \in Seq(Blocks)
        /\ Len(h.catch) \in Nat
    BY <1>1, <1>4, Placed
  <2>2. Has(frames, h.frame, HJ[n]) /\ frames[h.frame].open[HJ[n]].kind = "try"
    BY <1>3, <1>4 DEF Stack
  <2>3. /\ Len(h.catch) + 1 = HJ[n]
        /\ \A i \in 1..Len(h.catch) : h.catch[i] = frames[h.frame].open[i]
    BY <1>3, <1>4 DEF Catches
  <2>4. QED
    BY <2>1, <2>2, <2>3
<1>6. frames' = Append(SubSeq(frames, 1, m - 1), [frames[m] EXCEPT !.open = c])
  BY DEF Land
<1>7. /\ frames \in Seq(Frame) /\ m \in 1..Len(frames) /\ Len(frames) \in Nat
      /\ frames[m] \in Frame /\ frames[m].open \in Seq(Blocks)
      /\ j \in 1..Len(frames[m].open) /\ Len(frames[m].open) \in Nat
  BY <1>1, <1>5, FrameSeq DEF Types, Has
<1> HIDE DEF n, m, j, c
<1>8. /\ Len(frames') = m /\ frames'[m].open = c
      /\ SubSeq(frames', 1, m - 1) = SubSeq(frames, 1, m - 1)
  <2> DEFINE x == [frames[m] EXCEPT !.open = c]
             s == SubSeq(frames, 1, m - 1)
  <2>1. x \in Frame /\ x.open = c
    BY <1>5, <1>7 DEF Frame
  <2>2. s \in Seq(Frame) /\ Len(s) = m - 1
    BY <1>7
  <2>3. frames' = Append(s, x)
    BY <1>6
  <2> HIDE DEF x, s
  <2>4. Len(frames') = m /\ frames'[m] = x
    BY <1>5, <2>1, <2>2, <2>3
  <2>5. SubSeq(Append(s, x), 1, m - 1) = s
    BY <1>5, <1>7, <2>1, <2>2
  <2>6. QED
    BY <2>1, <2>3, <2>4, <2>5 DEF s
<1>9. c = SubSeq(frames[m].open, 1, j - 1)
  <2> DEFINE o == frames[m].open
             d == SubSeq(o, 1, j - 1)
  <2>1. d \in Seq(Blocks) /\ Len(d) = j - 1 /\ \A i \in 1..(j - 1) : d[i] = o[i]
    BY <1>5, <1>7
  <2>2. Len(c) = j - 1 /\ \A i \in 1..(j - 1) : c[i] = o[i]
    BY <1>5
  <2> HIDE DEF d, o
  <2>3. c = d
    BY <1>5, <2>1, <2>2
  <2>4. QED
    BY <2>3 DEF d, o
<1>10. /\ p \in InForce /\ p[1] = m /\ p[2] = j /\ BlockAt(p) = frames[m].open[j]
       /\ IsTry(BlockAt(p))
  BY <1>1, <1>5, InForceIs DEF BlockAt, IsTry
<1>11. ASSUME NEW q \in InForce, IsTry(BlockAt(q)) PROVE q = p \/ q \in Outside(p)
  <2>1. /\ q = <<q[1], q[2]>> /\ q[1] \in Nat /\ q[2] \in Nat
        /\ Has(frames, q[1], q[2])
    BY <1>1, InForceIs
  <2>2. frames[q[1]].open[q[2]].kind = "try"
    BY <1>11 DEF BlockAt, IsTry
  <2>3. PICK k \in 1..Len(handlers) : handlers[k].frame = q[1] /\ HJ[k] = q[2]
    BY <1>3, <2>1, <2>2 DEF Covers
  <2>4. CASE k = n
    BY <1>4, <2>1, <2>3, <2>4 DEF m, j
  <2>5. CASE k # n
    <3>1. k < n
      BY <1>4, <2>5 DEF n
    <3>2. Before(handlers[k].frame, HJ[k], handlers[n].frame, HJ[n])
      BY <1>3, <1>4, <3>1 DEF Stack
    <3>3. Before(q[1], q[2], m, j)
      BY <1>4, <2>3, <3>2 DEF m, j
    <3>4. QED
      BY <1>10, <3>3 DEF Before, Outside
  <2>6. QED
    BY <2>4, <2>5
<1>12. QED
  BY <1>8, <1>9, <1>10, <1>11

(* The message of an error is stored for a catch block by no other step.    *)
LEMMA LandingStep ==
  ASSUME Next, AtRest, handlers' # handlers, todo' = <<"POP">>
  PROVE  handlers # <<>> /\ \E left, rest, height : Land(Last(handlers), left, rest, height)
<1>1. <<>> # <<"POP">>
  OBVIOUS
<1>2. ASSUME Raise PROVE handlers # <<>> /\ \E left, rest, height : Land(Last(handlers), left, rest, height)
  BY <1>2 DEF Raise, Die
<1>3. CASE RuntimeError \/ TimeLimit \/ InstrLimit \/ AgentFails
  BY <1>2, <1>3 DEF RuntimeError, TimeLimit, InstrLimit, AgentFails
<1>4. CASE EnterTry \/ LeaveTry \/ Return
  BY <1>1, <1>4 DEF EnterTry, LeaveTry, Return, Ready
<1>5. CASE TryPop
  <2>1. Head(<<"POP">>) = "POP"
    OBVIOUS
  <2>2. QED
    BY <1>5, <2>1 DEF TryPop, NextInstr, AtRest
<1>6. CASE \/ \E deny \in SUBSET Caps \ {{}} : EnterSandbox(deny)
           \/ LeaveSandbox \/ EnterLoop \/ LeaveLoop
           \/ \E kind \in {"break", "continue"} : Jump(kind)
           \/ SboxExit \/ JumpBreak \/ JumpContinue \/ StoreError
           \/ \E temps \in 0..MaxTemps : Call(temps)
           \/ AgentAsk \/ AgentReply
  BY <1>6 DEF EnterSandbox, LeaveSandbox, EnterLoop, LeaveLoop, Jump, SboxExit,
     JumpBreak, JumpContinue, StoreError, Call, AgentAsk, AgentReply
<1>7. QED
  BY <1>3, <1>4, <1>5, <1>6 DEF Next

(* An error lands in the innermost try around the place that failed, in    *)
(* whatever function that is, and nowhere else (vm.c:92-100).              *)
THEOREM LandsInnermostAlways == Spec => LandsInnermost
<1> DEFINE A == AtRest /\ handlers' # handlers /\ todo' = <<"POP">> =>
                  \E p \in InForce :
                    /\ IsTry(BlockAt(p))
                    /\ \A q \in InForce : IsTry(BlockAt(q)) => q = p \/ q \in Outside(p)
                    /\ Len(frames') = p[1]
                    /\ frames'[p[1]].open = SubSeq(frames[p[1]].open, 1, p[2] - 1)
                    /\ SubSeq(frames', 1, p[1] - 1) = SubSeq(frames, 1, p[1] - 1)
<1>1. IInv /\ [Next]_vars => [A]_vars
  <2> SUFFICES ASSUME IInv, Next, AtRest, handlers' # handlers, todo' = <<"POP">>
               PROVE  \E p \in InForce :
                        /\ IsTry(BlockAt(p))
                        /\ \A q \in InForce : IsTry(BlockAt(q)) => q = p \/ q \in Outside(p)
                        /\ Len(frames') = p[1]
                        /\ frames'[p[1]].open = SubSeq(frames[p[1]].open, 1, p[2] - 1)
                        /\ SubSeq(frames', 1, p[1] - 1) = SubSeq(frames, 1, p[1] - 1)
    OBVIOUS
  <2>1. /\ handlers # <<>>
        /\ \E left, rest, height : Land(Last(handlers), left, rest, height)
    BY LandingStep
  <2>2. QED
    BY <2>1, LandsWhere
<1>2. QED
  BY <1>1, StacksTrackText, PTL DEF Spec, LandsInnermost

-----------------------------------------------------------------------------
(* The sizes of the stacks and the heights of the operand stack: of a      *)
(* statement, and of the statement that a handler goes back to.            *)
Height == frames[Len(frames)].base + Slots + (IF todo = <<"POP">> THEN 1 ELSE 0)

Bounded ==
  /\ Len(frames) <= MaxFrames /\ Len(handlers) <= MaxHandlers /\ Len(sbox) <= MaxSbox
  /\ \A i \in 1..Len(frames) : frames[i].base \in Nat
  /\ \A k \in 1..Len(handlers) :
       handlers[k].frame \in 1..MaxFrames /\ handlers[k].sp \in Nat /\ handlers[k].nsbox <= MaxSbox
  /\ \A k \in 1..Len(sbox) : sbox[k].frame \in 1..MaxFrames
  /\ sp \in Nat

Level ==
  status = "running" =>
    /\ \A k \in 1..Len(handlers) :
         handlers[k].sp = frames[handlers[k].frame].base + Slots
    /\ sp = Height

(* A frame lies above the slots of its caller and the operands of the      *)
(* expression that called it.                                              *)
Nested(f) ==
  \A i \in 1..Len(f) :
    i > 1 => f[i].base - f[i].temps = f[i - 1].base + Slots

LInv == IInv /\ Bounded /\ Level /\ Nested(frames)

Bases(g, f) ==
  /\ Len(g) \in Nat /\ Len(g) > 0 /\ Len(g) <= Len(f)
  /\ \A i \in 1..Len(g) : g[i].base = f[i].base /\ g[i].temps = f[i].temps

LEMMA NestedKept ==
  ASSUME NEW f, NEW g, Nested(f), Len(f) \in Nat, Bases(g, f)
  PROVE  Nested(g)
<1> SUFFICES ASSUME NEW i \in 1..Len(g), i > 1
             PROVE  g[i].base - g[i].temps = g[i - 1].base + Slots
  BY DEF Nested
<1>1. i \in 1..Len(f) /\ i - 1 \in 1..Len(g)
  BY DEF Bases
<1>2. QED
  BY <1>1 DEF Nested, Bases

LEMMA Sizes ==
  ASSUME IInv
  PROVE  /\ Len(frames) \in Nat /\ Len(frames) > 0 /\ Len(handlers) \in Nat
         /\ Len(sbox) \in Nat /\ sp \in Int
         /\ frames \in Seq(Frame) /\ handlers \in Seq(Handler) /\ sbox \in Seq(Box)
         /\ \A k \in 1..Len(handlers) : handlers[k].frame \in Nat /\ handlers[k].nsbox \in Nat
         /\ status = "running" =>
              /\ \A k \in 1..Len(handlers) : handlers[k].frame \in 1..Len(frames)
              /\ \A k \in 1..Len(sbox) : sbox[k].frame \in 1..Len(frames)
              /\ \A k \in 1..Len(handlers) : handlers[k].nsbox <= Len(sbox)
              /\ \A k, l \in 1..Len(handlers) :
                   k < l => handlers[k].frame <= handlers[l].frame
<1>1. Types(frames, handlers, sbox) /\ sp \in Int
  BY DEF IInv, TypeInv
<1>2. frames \in Seq(Frame) /\ handlers \in Seq(Handler) /\ sbox \in Seq(Box) /\ frames # <<>>
  BY <1>1 DEF Types
<1>3. Len(frames) \in Nat /\ Len(frames) > 0
  BY <1>2
<1>4. /\ Len(handlers) \in Nat /\ Len(sbox) \in Nat
      /\ \A k \in 1..Len(handlers) : handlers[k].frame \in Nat /\ handlers[k].nsbox \in Nat
  BY <1>2, HandlerSeq, BoxSeq
<1>5. ASSUME status = "running"
      PROVE  /\ \A k \in 1..Len(handlers) : handlers[k].frame \in 1..Len(frames)
             /\ \A k \in 1..Len(sbox) : sbox[k].frame \in 1..Len(frames)
             /\ \A k \in 1..Len(handlers) : handlers[k].nsbox <= Len(sbox)
             /\ \A k, l \in 1..Len(handlers) :
                  k < l => handlers[k].frame <= handlers[l].frame
  <2>1. PICK HJ, BJ \in Index : Tracks(HJ, BJ)
    BY <1>5 DEF IInv
  <2>2. /\ Stack(frames, handlers, HJ, "try") /\ Stack(frames, sbox, BJ, "sbox")
        /\ Depths(handlers, HJ, sbox, BJ)
    BY <2>1 DEF Tracks, Sound
  <2>3. QED
    BY <1>2, <2>2, FramesAscend DEF Stack, Depths, Has
<1>6. QED
  BY <1>1, <1>2, <1>3, <1>4, <1>5

(* Steps that open nothing.                                                *)
LEMMA LevelMoves ==
  ASSUME LInv, IInv', Bases(frames', frames), Starts(handlers', handlers),
         Starts(sbox', sbox), sp' \in Nat,
         status' = "running" => status = "running" /\ sp' = Height'
  PROVE  LInv'
<1>1. /\ Len(frames) \in Nat /\ Len(handlers) \in Nat /\ Len(sbox) \in Nat
  BY Sizes DEF LInv
<1>2. /\ Len(handlers') \in Nat /\ Len(sbox') \in Nat
      /\ status' = "running" => \A k \in 1..Len(handlers') : handlers'[k].frame \in 1..Len(frames')
  <2>1. (Len(handlers) \in Nat)' /\ (Len(sbox) \in Nat)'
        /\ (status = "running" => \A k \in 1..Len(handlers) : handlers[k].frame \in 1..Len(frames))'
    BY Sizes, PTL
  <2>2. QED
    BY <2>1
<1>3. /\ \A k \in 1..Len(handlers') : k \in 1..Len(handlers) /\ handlers'[k] = handlers[k]
      /\ \A k \in 1..Len(sbox') : k \in 1..Len(sbox) /\ sbox'[k] = sbox[k]
      /\ Len(handlers') <= Len(handlers) /\ Len(sbox') <= Len(sbox)
  BY <1>1, <1>2 DEF Starts
<1>4. /\ Len(frames') \in Nat /\ Len(frames') <= Len(frames)
      /\ \A i \in 1..Len(frames') : i \in 1..Len(frames) /\ frames'[i].base = frames[i].base
  BY <1>1 DEF Bases
<1>5. MaxFrames \in Nat /\ MaxHandlers \in Nat /\ MaxSbox \in Nat
  BY UnwindAssumption
<1>6. Bounded'
  <2>1. Bounded
    BY DEF LInv
  <2>2. /\ Len(frames') <= MaxFrames /\ Len(handlers') <= MaxHandlers /\ Len(sbox') <= MaxSbox
    BY <1>1, <1>2, <1>3, <1>4, <1>5, <2>1 DEF Bounded
  <2>3. QED
    BY <1>3, <1>4, <2>1, <2>2 DEF Bounded
<1>7. Level'
  <2> SUFFICES ASSUME status' = "running"
               PROVE  /\ \A k \in 1..Len(handlers') :
                           handlers'[k].sp = frames'[handlers'[k].frame].base + Slots
                      /\ sp' = Height'
    BY DEF Level
  <2>1. \A k \in 1..Len(handlers) : handlers[k].sp = frames[handlers[k].frame].base + Slots
    BY DEF LInv, Level
  <2>2. QED
    BY <1>2, <1>3, <1>4, <2>1
<1>8. Nested(frames)'
  BY <1>1, NestedKept DEF LInv
<1>9. QED
  BY <1>6, <1>7, <1>8 DEF LInv

LEMMA SameBases ==
  ASSUME IInv, UNCHANGED frames
  PROVE  Bases(frames', frames)
  BY Sizes DEF Bases

LEMMA OpenBases ==
  ASSUME IInv, NEW open, SetOpen(open)
  PROVE  Bases(frames', frames) /\ Len(frames') = Len(frames)
<1>1. Len(frames) \in Nat /\ Len(frames) > 0 /\ frames \in Seq(Frame)
  BY Sizes
<1>2. frames' = [frames EXCEPT ![Len(frames)].open = open]
  BY DEF SetOpen, Top
<1>3. /\ Len(frames') = Len(frames)
      /\ \A i \in 1..Len(frames) : /\ frames'[i].base = frames[i].base
                                    /\ frames'[i].temps = frames[i].temps
  <2>1. DOMAIN frames = 1..Len(frames) /\ \A i \in 1..Len(frames) : frames[i] \in Frame
    BY <1>1
  <2>2. frames' = [i \in 1..Len(frames) |->
                     IF i = Len(frames) THEN [frames[i] EXCEPT !.open = open] ELSE frames[i]]
    BY <1>2, <2>1
  <2>3. \A x \in Frame : /\ [x EXCEPT !.open = open].base = x.base
                          /\ [x EXCEPT !.open = open].temps = x.temps
    BY DEF Frame
  <2>4. Len(frames') = Len(frames)
    BY <1>1, <2>2
  <2>5. QED
    BY <2>1, <2>2, <2>3, <2>4
<1>4. QED
  BY <1>1, <1>3 DEF Bases

LEMMA StartsItself ==
  ASSUME NEW S, NEW s \in Seq(S)
  PROVE  Starts(s, s) /\ (Len(s) > 0 => Starts(Front(s), s))
<1>1. Len(s) \in Nat /\ Starts(s, s)
  BY DEF Starts
<1>2. ASSUME Len(s) > 0 PROVE Starts(Front(s), s)
  <2>1. Len(s) - 1 \in 0..Len(s)
    BY <1>1, <1>2
  <2>2. QED
    BY <2>1, PrefixStarts DEF Front
<1>3. QED
  BY <1>1, <1>2

(* Steps that leave the operand stack as it is.                            *)
LEMMA LevelStays ==
  ASSUME LInv, IInv', Bases(frames', frames), Len(frames') = Len(frames),
         Starts(handlers', handlers), Starts(sbox', sbox), sp' = sp,
         status' = "running" => status = "running" /\ (todo' = <<"POP">> <=> todo = <<"POP">>)
  PROVE  LInv'
<1>1. sp' \in Nat
  BY DEF LInv, Bounded
<1>2. ASSUME status' = "running" PROVE status = "running" /\ sp' = Height'
  <2>1. status = "running" /\ sp = Height
    BY <1>2 DEF LInv, Level
  <2>2. Len(frames) \in 1..Len(frames')
    BY DEF Bases
  <2>3. QED
    BY <1>2, <2>1, <2>2 DEF Height, Bases
<1>3. QED
  BY <1>1, <1>2, LevelMoves

LEMMA NotPop == <<>> # <<"POP">>
  OBVIOUS

LEMMA LeaveLevel ==
  ASSUME LInv, NEW kind, Leave(kind)
  PROVE  LInv'
<1>1. IInv /\ IInv'
  BY LeaveHolds DEF LInv
<1>2. handlers \in Seq(Handler) /\ sbox \in Seq(Box) /\ Len(handlers) \in Nat /\ Len(sbox) \in Nat
  BY <1>1, Sizes
<1>3. /\ Bases(frames', frames) /\ Len(frames') = Len(frames)
      /\ sp' = sp /\ status' = status /\ todo' = todo
      /\ handlers' = IF kind = "try" THEN Front(handlers) ELSE handlers
      /\ sbox' = IF kind = "sbox" THEN Front(sbox) ELSE sbox
  BY <1>1, OpenBases DEF Leave
<1>4. /\ kind = "try" => Len(handlers) > 0
      /\ kind = "sbox" => Len(sbox) > 0
  BY <1>1, LeaveNonEmpty
<1>5. Starts(handlers', handlers) /\ Starts(sbox', sbox)
  BY <1>2, <1>3, <1>4, StartsItself
<1>6. QED
  BY <1>1, <1>3, <1>5, LevelStays

LEMMA EnterTryLevel ==
  ASSUME LInv, EnterTry
  PROVE  LInv'
<1> DEFINE h == [frame |-> Top, sp |-> sp, nsbox |-> Len(sbox), catch |-> Open]
<1>1. IInv /\ IInv' /\ Bounded /\ status = "running" /\ todo = <<>>
  BY EnterTryHolds, AtStatement DEF LInv, EnterTry
<1>2. /\ handlers \in Seq(Handler) /\ Len(handlers) \in Nat /\ Len(sbox) \in Nat
      /\ Len(frames) \in Nat /\ Len(frames) > 0
      /\ \A k \in 1..Len(handlers) : handlers[k].frame \in 1..Len(frames)
  BY <1>1, Sizes
<1>3. /\ Bases(frames', frames) /\ Len(frames') = Len(frames)
      /\ sp' = sp /\ status' = status /\ todo' = todo /\ sbox' = sbox
      /\ handlers' = Append(handlers, h) /\ Len(handlers) < MaxHandlers
  BY <1>1, OpenBases DEF EnterTry
<1>4. h.frame = Len(frames) /\ h.sp = sp /\ h.nsbox = Len(sbox)
  BY DEF Top
<1> HIDE DEF h
<1>5. /\ Len(handlers') = Len(handlers) + 1 /\ handlers'[Len(handlers) + 1] = h
      /\ \A k \in 1..Len(handlers) : handlers'[k] = handlers[k]
      /\ \A k \in 1..Len(handlers') : k \in 1..Len(handlers) \/ k = Len(handlers) + 1
  BY <1>2, <1>3
<1>6. /\ sp = frames[Len(frames)].base + Slots
      /\ \A k \in 1..Len(handlers) : handlers[k].sp = frames[handlers[k].frame].base + Slots
  <2>1. Slots \in Nat /\ frames[Len(frames)].base \in Nat
    BY <1>1, <1>2, UnwindAssumption DEF Bounded
  <2>2. QED
    BY <1>1, <2>1, NotPop DEF LInv, Level, Height
<1>7. \A i \in 1..Len(frames) : frames'[i].base = frames[i].base
  BY <1>3 DEF Bases
<1>8. Bounded'
  <2>1. MaxFrames \in Nat /\ MaxHandlers \in Nat /\ MaxSbox \in Nat
    BY UnwindAssumption
  <2>2. h.frame \in 1..MaxFrames /\ h.sp \in Nat /\ h.nsbox <= MaxSbox
    BY <1>1, <1>2, <1>4, <2>1 DEF Bounded
  <2>3. \A k \in 1..Len(handlers') :
          /\ handlers'[k].frame \in 1..MaxFrames /\ handlers'[k].sp \in Nat
          /\ handlers'[k].nsbox <= MaxSbox
    BY <1>1, <1>5, <2>2 DEF Bounded
  <2>4. Len(handlers') <= MaxHandlers
    BY <1>2, <1>3, <1>5, <2>1
  <2>5. QED
    BY <1>1, <1>3, <1>7, <2>3, <2>4 DEF Bounded
<1>9. Level'
  <2>1. \A k \in 1..Len(handlers') : handlers'[k].sp = frames'[handlers'[k].frame].base + Slots
    <3>1. Len(frames) \in 1..Len(frames)
      BY <1>2
    <3>2. QED
      BY <1>2, <1>4, <1>5, <1>6, <1>7, <3>1
  <2>2. sp' = Height'
    BY <1>1, <1>2, <1>3, <1>7 DEF LInv, Level, Height
  <2>3. QED
    BY <2>1, <2>2 DEF Level
<1>10. Nested(frames)'
  BY <1>2, <1>3, NestedKept DEF LInv
<1>11. QED
  BY <1>1, <1>8, <1>9, <1>10 DEF LInv

LEMMA EnterSandboxLevel ==
  ASSUME LInv, NEW deny \in SUBSET Caps \ {{}}, EnterSandbox(deny)
  PROVE  LInv'
<1> DEFINE x == [saved |-> perms, frame |-> Top]
<1>1. IInv /\ IInv' /\ Bounded /\ status = "running"
  BY EnterSandboxHolds, AtStatement DEF LInv, EnterSandbox
<1>2. /\ sbox \in Seq(Box) /\ Len(sbox) \in Nat
      /\ Len(frames) \in Nat /\ Len(frames) > 0
      /\ \A k \in 1..Len(handlers) : handlers[k].frame \in 1..Len(frames)
  BY <1>1, Sizes
<1>3. /\ Bases(frames', frames) /\ Len(frames') = Len(frames)
      /\ sp' = sp /\ status' = status /\ todo' = todo /\ handlers' = handlers
      /\ sbox' = Append(sbox, x) /\ Len(sbox) < MaxSbox
  BY <1>1, OpenBases DEF EnterSandbox
<1>4. x.frame = Len(frames)
  BY DEF Top
<1> HIDE DEF x
<1>5. /\ Len(sbox') = Len(sbox) + 1 /\ sbox'[Len(sbox) + 1] = x
      /\ \A k \in 1..Len(sbox) : sbox'[k] = sbox[k]
      /\ \A k \in 1..Len(sbox') : k \in 1..Len(sbox) \/ k = Len(sbox) + 1
  BY <1>2, <1>3
<1>6. \A i \in 1..Len(frames) : frames'[i].base = frames[i].base
  BY <1>3 DEF Bases
<1>7. Bounded'
  <2>1. MaxFrames \in Nat /\ MaxSbox \in Nat
    BY UnwindAssumption
  <2>2. x.frame \in 1..MaxFrames
    BY <1>1, <1>2, <1>4, <2>1 DEF Bounded
  <2>3. \A k \in 1..Len(sbox') : sbox'[k].frame \in 1..MaxFrames
    BY <1>1, <1>5, <2>2 DEF Bounded
  <2>4. Len(sbox') <= MaxSbox
    BY <1>2, <1>3, <1>5, <2>1
  <2>5. QED
    BY <1>1, <1>3, <1>6, <2>3, <2>4 DEF Bounded
<1>8. Level'
  <2>1. \A k \in 1..Len(handlers') : handlers'[k].sp = frames'[handlers'[k].frame].base + Slots
    BY <1>1, <1>2, <1>3, <1>6 DEF LInv, Level
  <2>2. sp' = Height'
    BY <1>1, <1>2, <1>3, <1>6 DEF LInv, Level, Height
  <2>3. QED
    BY <2>1, <2>2 DEF Level
<1>9. Nested(frames)'
  BY <1>2, <1>3, NestedKept DEF LInv
<1>10. QED
  BY <1>1, <1>7, <1>8, <1>9 DEF LInv

LEMMA CallLevel ==
  ASSUME LInv, NEW temps \in 0..MaxTemps, Call(temps)
  PROVE  LInv'
<1> DEFINE x == [base |-> sp + temps, temps |-> temps, open |-> <<>>]
<1>1. IInv /\ IInv' /\ Bounded /\ status = "running" /\ todo = <<>>
  BY CallHolds, AtStatement DEF LInv, Call
<1>2. /\ frames \in Seq(Frame) /\ Len(frames) \in Nat /\ Len(frames) > 0
      /\ \A k \in 1..Len(handlers) : handlers[k].frame \in 1..Len(frames)
  BY <1>1, Sizes
<1>3. /\ frames' = Append(frames, x) /\ Len(frames) < MaxFrames
      /\ sp' = sp + temps + Slots
      /\ UNCHANGED <<handlers, sbox, status, todo>>
  BY DEF Call, Top
<1>4. x.base = sp + temps /\ x.temps = temps
  OBVIOUS
<1> HIDE DEF x
<1>5. /\ Len(frames') = Len(frames) + 1 /\ frames'[Len(frames) + 1] = x
      /\ \A i \in 1..Len(frames) : frames'[i] = frames[i]
      /\ \A i \in 1..Len(frames') : i \in 1..Len(frames) \/ i = Len(frames) + 1
  BY <1>2, <1>3
<1>6. sp \in Nat /\ temps \in Nat /\ Slots \in Nat /\ MaxFrames \in Nat
  BY <1>1, UnwindAssumption DEF Bounded
<1>7. Bounded'
  <2>1. x.base \in Nat /\ sp' \in Nat
    BY <1>3, <1>4, <1>6
  <2>2. \A i \in 1..Len(frames') : frames'[i].base \in Nat
    BY <1>1, <1>5, <2>1 DEF Bounded
  <2>3. Len(frames') <= MaxFrames
    BY <1>2, <1>3, <1>5, <1>6
  <2>4. QED
    BY <1>1, <1>3, <2>1, <2>2, <2>3 DEF Bounded
<1>8. Level'
  <2>1. \A k \in 1..Len(handlers') : handlers'[k].sp = frames'[handlers'[k].frame].base + Slots
    BY <1>1, <1>2, <1>3, <1>5 DEF LInv, Level
  <2>2. todo' # <<"POP">>
    BY <1>1, <1>3, NotPop
  <2>3. sp' = Height'
    BY <1>3, <1>4, <1>5, <1>6, <2>2 DEF Height
  <2>4. QED
    BY <2>1, <2>3 DEF Level
<1>9. Nested(frames')
  <2> SUFFICES ASSUME NEW i \in 1..Len(frames'), i > 1
               PROVE  frames'[i].base - frames'[i].temps = frames'[i - 1].base + Slots
    BY DEF Nested
  <2>1. i - 1 \in 1..Len(frames) /\ frames'[i - 1] = frames[i - 1]
    BY <1>2, <1>5
  <2>2. CASE i \in 1..Len(frames)
    BY <1>5, <2>1, <2>2 DEF LInv, Nested
  <2>3. CASE i = Len(frames) + 1
    <3>1. i - 1 = Len(frames) /\ frames'[i] = x
      BY <1>2, <1>5, <2>3
    <3>2. frames[Len(frames)].base \in Nat
      BY <1>1, <1>2 DEF Bounded
    <3>3. sp = frames[Len(frames)].base + Slots
      BY <1>1, <1>6, <3>2, NotPop DEF LInv, Level, Height
    <3>4. QED
      BY <1>4, <1>6, <2>1, <3>1, <3>2, <3>3
  <2>4. QED
    BY <1>5, <2>2, <2>3
<1>10. QED
  BY <1>1, <1>7, <1>8, <1>9 DEF LInv

LEMMA EnterLoopLevel ==
  ASSUME LInv, EnterLoop
  PROVE  LInv'
<1>1. IInv /\ IInv'
  BY EnterLoopHolds DEF LInv
<1>2. /\ Bases(frames', frames) /\ Len(frames') = Len(frames)
      /\ UNCHANGED <<handlers, sbox, sp, status, todo>>
  BY <1>1, OpenBases DEF EnterLoop
<1>3. Starts(handlers', handlers) /\ Starts(sbox', sbox)
  BY <1>1, <1>2, Sizes, StartsItself
<1>4. QED
  BY <1>1, <1>2, <1>3, LevelStays

(* The entries of the frame that returns are dropped, and with it the      *)
(* operands above the caller's own.                                        *)
LEMMA ReturnLevel ==
  ASSUME LInv, Return
  PROVE  LInv'
<1>1. IInv /\ IInv' /\ Bounded /\ status = "running" /\ todo = <<>>
  BY ReturnHolds, AtStatement DEF LInv, Return
<1>2. /\ frames \in Seq(Frame) /\ handlers \in Seq(Handler) /\ sbox \in Seq(Box)
      /\ Len(frames) \in Nat /\ Len(frames) > 0
  BY <1>1, Sizes
<1>3. Starts(handlers', handlers) /\ Starts(sbox', sbox)
  <2>1. PICK HJ, BJ \in Index :
          Stack(frames, handlers, HJ, "try") /\ Stack(frames, sbox, BJ, "sbox")
    BY <1>1 DEF IInv, Tracks, Sound
  <2>2. /\ \A k \in 1..Len(handlers) : handlers[k].frame \in Nat /\ handlers[k].frame <= Top
        /\ \A k, l \in 1..Len(handlers) : k < l => handlers[k].frame <= handlers[l].frame
        /\ \A k \in 1..Len(sbox) : sbox[k].frame \in Nat /\ sbox[k].frame <= Top
        /\ \A k, l \in 1..Len(sbox) : k < l => sbox[k].frame <= sbox[l].frame
    BY <1>2, <2>1, FramesAscend DEF Top
  <2>3. Top \in Nat
    BY <1>2 DEF Top
  <2>4. PICK n \in 0..Len(handlers) : Keep(handlers) = SubSeq(handlers, 1, n)
    BY <1>2, <2>2, <2>3, KeepPrefix
  <2>5. PICK d \in 0..Len(sbox) : Keep(sbox) = SubSeq(sbox, 1, d)
    BY <1>2, <2>2, <2>3, KeepPrefix
  <2>6. handlers' = SubSeq(handlers, 1, n) /\ sbox' = SubSeq(sbox, 1, d)
    BY <2>4, <2>5 DEF Return
  <2>7. QED
    BY <1>2, <2>6, PrefixStarts
<1>4. CASE Top = 1
  <2>1. status' = "done" /\ UNCHANGED <<frames, sp>>
    BY <1>4 DEF Return
  <2>2. Bases(frames', frames) /\ sp' \in Nat /\ status' # "running"
    BY <1>1, <2>1, SameBases DEF Bounded
  <2>3. QED
    BY <1>1, <1>3, <2>2, LevelMoves
<1>5. CASE Top # 1
  <2>0. /\ frames' = SubSeq(frames, 1, Len(frames) - 1)
        /\ sp' = frames[Len(frames)].base - frames[Len(frames)].temps
        /\ UNCHANGED <<status, todo>>
    BY <1>5 DEF Return, Front, Top
  <2>2. Len(frames) - 1 \in 1..Len(frames)
    <3>1. Len(frames) # 1
      BY <1>5 DEF Top
    <3>2. \A t \in Nat : t > 0 /\ t # 1 => t - 1 \in 1..t
      OBVIOUS
    <3>3. QED
      BY <1>2, <3>1, <3>2
  <2>1. sp' = frames[Len(frames) - 1].base + Slots
    <3>1. Len(frames) \in 1..Len(frames) /\ Len(frames) > 1
      BY <1>2, <2>2
    <3>2. QED
      BY <2>0, <3>1 DEF LInv, Nested
  <2>3. /\ Len(frames') = Len(frames) - 1
        /\ \A i \in 1..(Len(frames) - 1) : frames'[i] = frames[i]
    BY <1>2, <2>0, <2>2
  <2>4. Bases(frames', frames)
    BY <1>2, <2>2, <2>3 DEF Bases
  <2>5. sp' \in Nat
    <3>1. frames[Len(frames) - 1].base \in Nat /\ Slots \in Nat
      BY <1>1, <2>2, UnwindAssumption DEF Bounded
    <3>2. QED
      BY <2>1, <3>1
  <2>6. sp' = Height'
    <3>1. frames'[Len(frames')].base = frames[Len(frames) - 1].base /\ todo' # <<"POP">>
      BY <1>1, <2>0, <2>2, <2>3, NotPop
    <3>2. frames[Len(frames) - 1].base \in Nat /\ Slots \in Nat
      BY <1>1, <2>2, UnwindAssumption DEF Bounded
    <3>3. Height' = frames'[Len(frames')].base + Slots
      BY <3>1, <3>2 DEF Height
    <3>4. QED
      BY <2>1, <3>1, <3>3
  <2>7. QED
    BY <1>1, <1>3, <2>0, <2>4, <2>5, <2>6, LevelMoves
<1>6. QED
  BY <1>4, <1>5

(* The operands are cut back to those of the statement of the try, and the *)
(* message is put on them.                                                 *)
LEMMA RaiseLevel ==
  ASSUME LInv, status = "running", Raise
  PROVE  LInv'
<1>1. IInv /\ IInv' /\ Bounded
  BY RaiseHolds DEF LInv
<1>2. /\ frames \in Seq(Frame) /\ handlers \in Seq(Handler) /\ sbox \in Seq(Box)
      /\ Len(handlers) \in Nat /\ Len(sbox) \in Nat /\ Len(frames) \in Nat
      /\ \A k \in 1..Len(handlers) :
           /\ handlers[k].frame \in 1..Len(frames) /\ handlers[k].nsbox \in Nat
           /\ handlers[k].nsbox <= Len(sbox)
  BY <1>1, Sizes
<1>3. CASE Die
  <2>1. status' = "dead" /\ UNCHANGED <<frames, handlers, sbox, sp>>
    BY <1>3 DEF Die
  <2>2. Bases(frames', frames) /\ sp' \in Nat /\ status' # "running"
    BY <1>1, <2>1, SameBases DEF Bounded
  <2>3. Starts(handlers', handlers) /\ Starts(sbox', sbox)
    BY <1>2, <2>1, StartsItself
  <2>4. QED
    BY <1>1, <2>2, <2>3, LevelMoves
<1>4. CASE ~Die
  <2>1. PICK n : n = Len(handlers)
    OBVIOUS
  <2>2. PICK h : h = handlers[n]
    OBVIOUS
  <2>3. handlers # <<>> /\ Land(h, Front(handlers), PermsBelow(h.nsbox), h.sp)
    BY <1>4, <2>1, <2>2 DEF Raise, Last
  <2>4. n \in 1..Len(handlers) /\ n - 1 \in 0..Len(handlers)
    BY <1>2, <2>1, <2>3
  <2>5. /\ h.frame \in 1..Len(frames) /\ h.nsbox \in 0..Len(sbox) /\ h.sp \in Nat
        /\ h.sp = frames[h.frame].base + Slots
    BY <1>1, <1>2, <2>2, <2>4 DEF LInv, Level, Bounded
  <2>6. Min({h.nsbox, Len(sbox)}) = h.nsbox
    BY <1>2, <2>5 DEF Min
  <2>7. /\ handlers' = SubSeq(handlers, 1, n - 1) /\ sbox' = SubSeq(sbox, 1, h.nsbox)
        /\ frames' = Append(SubSeq(frames, 1, h.frame - 1), [frames[h.frame] EXCEPT !.open = h.catch])
        /\ sp' = h.sp + 1 /\ todo' = <<"POP">> /\ status' = status
    BY <2>1, <2>3, <2>6 DEF Land, Front
  <2>8. Starts(handlers', handlers) /\ Starts(sbox', sbox)
    BY <1>2, <2>4, <2>5, <2>7, PrefixStarts
  <2>9. /\ Len(frames') = h.frame
        /\ \A i \in 1..h.frame : /\ frames'[i].base = frames[i].base
                                  /\ frames'[i].temps = frames[i].temps
    <3>1. PICK x : x = [frames[h.frame] EXCEPT !.open = h.catch]
      OBVIOUS
    <3>2. PICK s : s = SubSeq(frames, 1, h.frame - 1)
      OBVIOUS
    <3>3. x.base = frames[h.frame].base /\ x.temps = frames[h.frame].temps
      <4>1. frames[h.frame] \in Frame
        BY <1>2, <2>5
      <4>2. QED
        BY <3>1, <4>1 DEF Frame
    <3>4. /\ s \in Seq(Frame) /\ Len(s) = h.frame - 1
          /\ \A i \in 1..(h.frame - 1) : s[i] = frames[i]
      BY <1>2, <2>5, <3>2
    <3>5. frames' = Append(s, x)
      BY <2>7, <3>1, <3>2
    <3>6. /\ Len(frames') = h.frame /\ frames'[h.frame] = x
          /\ \A i \in 1..(h.frame - 1) : frames'[i] = s[i]
      BY <2>5, <3>4, <3>5
    <3>7. \A i \in 1..h.frame : i = h.frame \/ i \in 1..(h.frame - 1)
      BY <1>2, <2>5
    <3>8. QED
      BY <3>3, <3>4, <3>6, <3>7
  <2>10. Bases(frames', frames)
    <3>1. Len(frames') \in Nat /\ Len(frames') > 0 /\ Len(frames') <= Len(frames)
      BY <1>2, <2>5, <2>9
    <3>2. \A i \in 1..Len(frames') : i \in 1..h.frame
      BY <2>9
    <3>3. QED
      BY <2>9, <3>1, <3>2 DEF Bases
  <2>11. sp' = Height' /\ sp' \in Nat
    <3>1. h.frame \in 1..h.frame /\ Slots \in Nat /\ frames[h.frame].base \in Nat
      BY <1>1, <1>2, <2>5, UnwindAssumption DEF Bounded
    <3>2. Height' = frames'[h.frame].base + Slots + 1
      BY <2>7, <2>9 DEF Height
    <3>3. frames'[h.frame].base = frames[h.frame].base /\ sp' = h.sp + 1
      BY <2>7, <2>9, <3>1
    <3>4. h.sp \in Nat /\ h.sp = frames[h.frame].base + Slots
      BY <2>5
    <3>5. QED
      BY <3>1, <3>2, <3>3, <3>4
  <2>12. QED
    BY <1>1, <2>7, <2>8, <2>10, <2>11, LevelMoves
<1>5. QED
  BY <1>3, <1>4

LEMMA StoreErrorLevel ==
  ASSUME LInv, StoreError
  PROVE  LInv'
<1>1. IInv /\ IInv' /\ Bounded /\ status = "running" /\ todo = <<"POP">> /\ todo' = <<>>
  BY StoreErrorHolds, StoreErrorIs DEF LInv, StoreError, NextInstr
<1>2. sp' = sp - 1 /\ UNCHANGED <<frames, handlers, sbox, status>>
  BY DEF StoreError, NextInstr
<1>3. Bases(frames', frames) /\ Starts(handlers', handlers) /\ Starts(sbox', sbox)
  BY <1>1, <1>2, SameBases, Sizes, StartsItself
<1>4. frames[Len(frames)].base \in Nat /\ Slots \in Nat
  BY <1>1, Sizes, UnwindAssumption DEF Bounded
<1>5. sp = frames[Len(frames)].base + Slots + 1
  BY <1>1 DEF LInv, Level, Height
<1>6. sp' = Height' /\ sp' \in Nat
  BY <1>1, <1>2, <1>4, <1>5, NotPop DEF Height
<1>7. QED
  BY <1>1, <1>2, <1>3, <1>6, LevelMoves

(* While a jump is under way no message is waiting.                        *)
LEMMA NoMessage ==
  ASSUME IInv, NEW op, NextInstr(op), op # "POP"
  PROVE  todo # <<"POP">> /\ todo' # <<"POP">>
<1>1. TypeInv /\ Head(todo) = op /\ todo' = Tail(todo)
  BY MidwayIs DEF NextInstr
<1>2. PICK HJ, BJ \in Index, a, b \in Nat, kind \in Jumps : Midway(HJ, BJ, a, b, kind)
  BY MidwayIs
<1>3. todo \in Seq(Ops) /\ Shape(todo, a, b, kind)
  BY <1>1, <1>2 DEF TypeInv, Midway
<1>4. todo # <<"POP">>
  BY <1>3, ShapeHead
<1>5. \A c, d \in Nat : Shape(todo', c, d, kind) => todo' # <<"POP">>
  <2>1. todo' \in Seq(Ops)
    BY <1>1, <1>3, <1>4, ShapeHead
  <2>2. QED
    BY <2>1, ShapeHead
<1>6. CASE a > 0
  BY <1>1, <1>3, <1>5, <1>6, ShapeHead
<1>7. CASE a = 0 /\ b > 0
  BY <1>1, <1>3, <1>5, <1>7, ShapeHead
<1>8. CASE a = 0 /\ b = 0
  BY <1>1, <1>3, <1>8, NotPop, ShapeHead
<1>9. QED
  BY <1>4, <1>6, <1>7, <1>8

(* A pop of a jump finds an entry to pop.                                  *)
LEMMA PopNonEmpty ==
  ASSUME IInv
  PROVE  /\ NextInstr("TRY_POP") => Len(handlers) > 0
         /\ NextInstr("SBOX_EXIT") => Len(sbox) > 0
<1>1. Len(handlers) \in Nat /\ Len(sbox) \in Nat
  BY Sizes
<1>2. ASSUME NEW op \in {"TRY_POP", "SBOX_EXIT"}, NextInstr(op)
      PROVE  \E a, b \in Nat :
               /\ a <= Len(handlers) /\ b <= Len(sbox)
               /\ op = "TRY_POP" => a > 0
               /\ op = "SBOX_EXIT" => b > 0
  <2>1. TypeInv /\ Head(todo) = op
    BY <1>2, MidwayIs
  <2>2. PICK HJ, BJ \in Index, a, b \in Nat, kind \in Jumps : Midway(HJ, BJ, a, b, kind)
    BY <1>2, MidwayIs
  <2>3. todo \in Seq(Ops) /\ Shape(todo, a, b, kind)
    BY <2>1, <2>2 DEF TypeInv, Midway
  <2>4. a <= Len(handlers) /\ b <= Len(sbox)
    BY <2>2 DEF Midway, Leaving
  <2>5. op # kind
    BY <1>2 DEF Jumps
  <2>6. op = "TRY_POP" => a > 0
    BY <2>1, <2>3, <2>5, ShapeHead
  <2>7. op = "SBOX_EXIT" => b > 0
    BY <2>1, <2>3, <2>5, ShapeHead
  <2>8. QED
    BY <2>4, <2>6, <2>7
<1>3. ASSUME NextInstr("TRY_POP") PROVE Len(handlers) > 0
  BY <1>1, <1>2, <1>3
<1>4. ASSUME NextInstr("SBOX_EXIT") PROVE Len(sbox) > 0
  BY <1>1, <1>2, <1>4
<1>5. QED
  BY <1>3, <1>4

LEMMA JumpLeaves ==
  ASSUME IInv, NEW kind \in Jumps, Jump(kind)
  PROVE  todo' # <<"POP">>
<1>1. /\ frames \in Seq(Frame) /\ Len(frames) \in 1..Len(frames)
  BY Sizes
<1>2. /\ Open \in Seq(Blocks)
  BY <1>1, FrameSeq DEF Open, Top
<1>3. ASSUME NEW k PROVE Cardinality(Inside(k)) \in Nat
  <2>1. IsFiniteSet(1..Len(Open)) /\ Inside(k) \subseteq 1..Len(Open)
    BY <1>2, FS_Interval DEF Inside
  <2>2. QED
    BY <2>1, FS_Subset, FS_CardinalityType
<1>4. PICK a \in Nat, b \in Nat :
        a = Cardinality(Inside("try")) /\ b = Cardinality(Inside("sbox"))
  BY <1>3
<1>5. todo' = [i \in 1..a |-> "TRY_POP"] \o [i \in 1..b |-> "SBOX_EXIT"] \o <<kind>>
  BY <1>4 DEF Jump
<1>6. todo' \in Seq(Ops) /\ Shape(todo', a, b, kind)
  BY <1>5, Emitted
<1>7. QED
  BY <1>6, ShapeHead

LEMMA TryPopLevel ==
  ASSUME LInv, TryPop
  PROVE  LInv'
<1>1. IInv /\ IInv' /\ todo # <<"POP">> /\ todo' # <<"POP">>
  BY TryPopHolds, NoMessage DEF LInv, TryPop
<1>2. handlers' = Front(handlers) /\ UNCHANGED <<frames, sbox, sp, status>>
  BY DEF TryPop, NextInstr
<1>3. Len(handlers) > 0
  BY <1>1, PopNonEmpty DEF TryPop
<1>4. /\ Bases(frames', frames) /\ Len(frames') = Len(frames)
      /\ Starts(handlers', handlers) /\ Starts(sbox', sbox)
  BY <1>1, <1>2, <1>3, SameBases, Sizes, StartsItself
<1>5. QED
  BY <1>1, <1>2, <1>4, LevelStays DEF TryPop, NextInstr

LEMMA SboxExitLevel ==
  ASSUME LInv, SboxExit
  PROVE  LInv'
<1>1. IInv /\ IInv' /\ todo # <<"POP">> /\ todo' # <<"POP">>
  BY SboxExitHolds, NoMessage DEF LInv, SboxExit
<1>2. sbox' = Front(sbox) /\ UNCHANGED <<frames, handlers, sp, status>>
  BY DEF SboxExit, NextInstr
<1>3. Len(sbox) > 0
  BY <1>1, PopNonEmpty DEF SboxExit
<1>4. /\ Bases(frames', frames) /\ Len(frames') = Len(frames)
      /\ Starts(handlers', handlers) /\ Starts(sbox', sbox)
  BY <1>1, <1>2, <1>3, SameBases, Sizes, StartsItself
<1>5. QED
  BY <1>1, <1>2, <1>4, LevelStays DEF SboxExit, NextInstr

LEMMA ArriveLevel ==
  ASSUME LInv, JumpBreak \/ JumpContinue
  PROVE  LInv'
<1>1. IInv /\ IInv' /\ todo # <<"POP">> /\ todo' # <<"POP">>
  <2>1. IInv
    BY DEF LInv
  <2>2. IInv'
    BY <2>1, ArriveHolds DEF JumpBreak, JumpContinue, Jumps
  <2>3. todo # <<"POP">> /\ todo' # <<"POP">>
    BY <2>1, NoMessage DEF JumpBreak, JumpContinue
  <2>4. QED
    BY <2>1, <2>2, <2>3
<1>2. UNCHANGED <<handlers, sbox, sp, status>> /\ \E open : SetOpen(open)
  BY DEF JumpBreak, JumpContinue, NextInstr
<1>3. /\ Bases(frames', frames) /\ Len(frames') = Len(frames)
      /\ Starts(handlers', handlers) /\ Starts(sbox', sbox)
  BY <1>1, <1>2, OpenBases, Sizes, StartsItself
<1>4. QED
  BY <1>1, <1>2, <1>3, LevelStays DEF JumpBreak, JumpContinue, NextInstr

LEMMA OtherLevel ==
  ASSUME LInv, \/ \E kind \in Jumps : Jump(kind)
               \/ AgentAsk \/ AgentReply \/ UNCHANGED vars
  PROVE  LInv'
<1>1. IInv /\ IInv' /\ UNCHANGED <<frames, handlers, sbox, sp, status>>
  <2>1. IInv
    BY DEF LInv
  <2>2. IInv'
    BY <2>1, JumpHolds, AgentAskHolds, AgentReplyHolds, StutterHolds
  <2>3. QED
    BY <2>1, <2>2 DEF Jump, AgentAsk, AgentReply, vars
<1>2. todo' = <<"POP">> <=> todo = <<"POP">>
  <2>1. ASSUME NEW kind \in Jumps, Jump(kind)
        PROVE  todo # <<"POP">> /\ todo' # <<"POP">>
    <3>1. IInv /\ Ready /\ todo = <<>>
      BY <2>1, AtStatement DEF LInv, Jump
    <3>2. todo' # <<"POP">>
      BY <1>1, <2>1, <3>1, JumpLeaves
    <3>3. QED
      BY <3>1, <3>2, NotPop
  <2>2. CASE AgentAsk \/ AgentReply \/ UNCHANGED vars
    BY <2>2 DEF AgentAsk, AgentReply, vars
  <2>3. QED
    BY <2>1, <2>2
<1>3. /\ Bases(frames', frames) /\ Len(frames') = Len(frames)
      /\ Starts(handlers', handlers) /\ Starts(sbox', sbox)
  BY <1>1, SameBases, Sizes, StartsItself
<1>4. QED
  BY <1>1, <1>2, <1>3, LevelStays
LEMMA InitLevel == Init => LInv
<1> SUFFICES ASSUME Init PROVE LInv
  OBVIOUS
<1>1. IInv
  BY InitHolds
<1>2. /\ frames = << [base |-> 0, temps |-> 0, open |-> <<>>] >> /\ Len(handlers) = 0 /\ Len(sbox) = 0
      /\ sp = Slots /\ todo = <<>>
  BY DEF Init
<1>3. Len(frames) = 1 /\ frames[1].base = 0
  BY <1>2
<1>4. Slots \in Nat /\ MaxFrames \in Nat \ {0} /\ MaxHandlers \in Nat /\ MaxSbox \in Nat
  BY UnwindAssumption
<1>5. Bounded
  BY <1>2, <1>3, <1>4 DEF Bounded
<1>6. Level
  BY <1>2, <1>3, <1>4, NotPop DEF Level, Height
<1>7. Nested(frames)
  BY <1>3 DEF Nested
<1>8. QED
  BY <1>1, <1>5, <1>6, <1>7 DEF LInv

LEMMA StepLevel ==
  ASSUME LInv, [Next]_vars
  PROVE  LInv'
<1>1. CASE RuntimeError
  BY <1>1, RaiseLevel DEF RuntimeError, Ready
<1>2. CASE TimeLimit
  BY <1>2, RaiseLevel DEF TimeLimit
<1>3. CASE InstrLimit
  BY <1>3, RaiseLevel DEF InstrLimit
<1>4. CASE EnterTry
  BY <1>4, EnterTryLevel
<1>5. CASE LeaveTry \/ LeaveSandbox \/ LeaveLoop
  BY <1>5, LeavesAre, LeaveLevel
<1>6. ASSUME NEW deny \in SUBSET Caps \ {{}}, EnterSandbox(deny) PROVE LInv'
  BY <1>6, EnterSandboxLevel
<1>7. CASE EnterLoop
  BY <1>7, EnterLoopLevel
<1>8. CASE TryPop
  BY <1>8, TryPopLevel
<1>9. CASE SboxExit
  BY <1>9, SboxExitLevel
<1>10. CASE JumpBreak \/ JumpContinue
  BY <1>10, ArriveLevel
<1>11. CASE StoreError
  BY <1>11, StoreErrorLevel
<1>12. ASSUME NEW temps \in 0..MaxTemps, Call(temps) PROVE LInv'
  BY <1>12, CallLevel
<1>13. CASE Return
  BY <1>13, ReturnLevel
<1>14. CASE AgentFails
  BY <1>14, RaiseLevel DEF AgentFails, LInv, IInv, TypeInv, Asking
<1>15. CASE \/ \E kind \in {"break", "continue"} : Jump(kind)
            \/ AgentAsk \/ AgentReply \/ UNCHANGED vars
  BY <1>15, OtherLevel DEF Jumps
<1>16. QED
  BY <1>1, <1>2, <1>3, <1>4, <1>5, <1>6, <1>7, <1>8, <1>9, <1>10, <1>11, <1>12,
     <1>13, <1>14, <1>15 DEF Next

(* The strengthened invariant, with the heights of the operand stack.      *)
THEOREM StacksTrackOperands == Spec => []LInv
<1>1. LInv /\ [Next]_vars => LInv'
  BY StepLevel
<1>2. QED
  BY InitLevel, <1>1, PTL DEF Spec

-----------------------------------------------------------------------------
SpentInv == spent \in BOOLEAN

LEMMA SpentAlways == Spec => []SpentInv
<1>1. Init => SpentInv
  BY DEF Init, SpentInv
<1>2. SpentInv /\ [Next]_vars => SpentInv'
  <2> SUFFICES ASSUME spent \in BOOLEAN, [Next]_vars PROVE spent' \in BOOLEAN
    BY DEF SpentInv
  <2>1. Next => UNCHANGED spent \/ spent' = TRUE
    BY DEF Next, RuntimeError, TimeLimit, InstrLimit, EnterTry, LeaveTry, EnterSandbox,
       LeaveSandbox, EnterLoop, LeaveLoop, Jump, TryPop, SboxExit, JumpBreak, JumpContinue,
       StoreError, NextInstr, Call, Return, AgentAsk, AgentReply, AgentFails
  <2>2. QED
    BY <2>1 DEF vars
<1>3. QED
  BY <1>1, <1>2, PTL DEF Spec

LEMMA TypeInvOK == LInv /\ SpentInv => TypeOK
<1> SUFFICES ASSUME LInv, spent \in BOOLEAN PROVE TypeOK
  BY DEF SpentInv
<1>1. TypeInv /\ Types(frames, handlers, sbox) /\ Bounded
  BY DEF LInv, IInv, TypeInv
<1>2. /\ frames \in Seq(Frame) /\ frames # <<>> /\ handlers \in Seq(Handler) /\ sbox \in Seq(Box)
      /\ MaxFrames \in Nat /\ MaxSbox \in Nat
  BY <1>1, UnwindAssumption DEF Types
<1> DEFINE F == [base : Nat, temps : Nat, open : Seq(Blocks)]
           H == [frame : 1..MaxFrames, sp : Nat, nsbox : 0..MaxSbox, catch : Seq(Blocks)]
           B == [saved : SUBSET Caps, frame : 1..MaxFrames]
<1>3. frames \in Seq(F)
  <2>1. ASSUME NEW i \in 1..Len(frames) PROVE frames[i] \in F
    <3>1. frames[i] \in Frame /\ frames[i].base \in Nat
      BY <1>1, <1>2 DEF Bounded
    <3>2. \A x \in Frame : x.base \in Nat => x \in F
      BY DEF Frame
    <3>3. QED
      BY <3>1, <3>2
  <2> HIDE DEF F
  <2>2. QED
    BY <1>2, <2>1
<1>4. handlers \in Seq(H)
  <2>1. ASSUME NEW k \in 1..Len(handlers) PROVE handlers[k] \in H
    <3>1. /\ handlers[k] \in Handler /\ handlers[k].frame \in 1..MaxFrames
          /\ handlers[k].sp \in Nat /\ handlers[k].nsbox \in 0..MaxSbox
      <4>1. handlers[k] \in Handler
        BY <1>2
      <4>2. handlers[k].nsbox \in Nat
        BY <4>1 DEF Handler
      <4>3. QED
        BY <1>1, <1>2, <4>1, <4>2 DEF Bounded
    <3>2. \A x \in Handler :
            x.frame \in 1..MaxFrames /\ x.sp \in Nat /\ x.nsbox \in 0..MaxSbox => x \in H
      BY DEF Handler
    <3>3. QED
      BY <3>1, <3>2
  <2> HIDE DEF H
  <2>2. QED
    BY <1>2, <2>1
<1>5. sbox \in Seq(B)
  <2>1. ASSUME NEW k \in 1..Len(sbox) PROVE sbox[k] \in B
    <3>1. sbox[k] \in Box /\ sbox[k].frame \in 1..MaxFrames
      BY <1>1, <1>2 DEF Bounded
    <3>2. \A x \in Box : x.frame \in 1..MaxFrames => x \in B
      BY DEF Box
    <3>3. QED
      BY <3>1, <3>2
  <2> HIDE DEF B
  <2>2. QED
    BY <1>2, <2>1
<1>6. Len(handlers) <= MaxHandlers /\ Len(sbox) <= MaxSbox /\ sp \in Nat
  BY <1>1 DEF Bounded
<1>7. /\ grant \subseteq Caps /\ perms \subseteq Caps /\ isolated \in BOOLEAN
      /\ todo \in Seq({"TRY_POP", "SBOX_EXIT", "break", "continue", "POP"})
      /\ asking \in [active : BOOLEAN, perms : SUBSET Caps, isolated : BOOLEAN]
      /\ status \in {"running", "done", "dead"}
  BY <1>1 DEF TypeInv, Asking, Ops
<1>8. QED
  BY <1>2, <1>3, <1>4, <1>5, <1>6, <1>7 DEF TypeOK

LEMMA LevelInv == LInv => StackIsLevel
  BY DEF LInv, Level, Height, AtRest, StackIsLevel, Top

-----------------------------------------------------------------------------
(* Two entries are of two places.                                          *)
LEMMA EntriesDiffer ==
  ASSUME NEW s, Len(s) \in Nat, NEW J \in Index, NEW kind, Types(frames, handlers, sbox),
         Stack(frames, s, J, kind), NEW k \in 1..Len(s), NEW l \in 1..Len(s),
         <<s[k].frame, J[k]>> = <<s[l].frame, J[l]>>
  PROVE  k = l
<1>1. s[k].frame = s[l].frame /\ J[k] = J[l]
  OBVIOUS
<1>2. s[k].frame \in Nat /\ J[k] \in Nat /\ k \in Nat /\ l \in Nat
  <2>1. s[k].frame \in 1..Len(frames) /\ Len(frames) \in Nat
    BY DEF Stack, Has, Types
  <2>2. k \in Nat /\ l \in Nat
    OBVIOUS
  <2>3. J[k] \in Nat
    BY <2>2 DEF Index
  <2>4. QED
    BY <2>1, <2>2, <2>3
<1>3. ~(k < l)
  <2>1. k < l => Before(s[k].frame, J[k], s[l].frame, J[l])
    BY DEF Stack
  <2>2. QED
    BY <1>1, <1>2, <2>1 DEF Before
<1>4. ~(l < k)
  <2>1. l < k => Before(s[l].frame, J[l], s[k].frame, J[k])
    BY DEF Stack
  <2>2. QED
    BY <1>1, <1>2, <2>1 DEF Before
<1>5. QED
  BY <1>2, <1>3, <1>4

(* The places of the first n entries are n places.                         *)
Entries(s, J, n) == {<<s[k].frame, J[k]>> : k \in 1..n}
Differ(s, J, n)  ==
  \A k, l \in 1..n : <<s[k].frame, J[k]>> = <<s[l].frame, J[l]>> => k = l

LEMMA EntriesCounted ==
  ASSUME NEW s, NEW J, NEW n \in Nat, Differ(s, J, n)
  PROVE  Cardinality(Entries(s, J, n)) = n
<1> DEFINE P == Entries(s, J, n)
           F == [k \in 1..n |-> <<s[k].frame, J[k]>>]
<1>1. /\ F \in [1..n -> P] /\ \A k, l \in 1..n : F[k] = F[l] => k = l
      /\ \A p \in P : \E k \in 1..n : F[k] = p
  BY DEF Entries, Differ
<1> HIDE DEF F, P
<1>2. F \in Bijection(1..n, P)
  BY <1>1, Fun_IsBij
<1>3. ExistsBijection(1..n, P)
  BY <1>2 DEF ExistsBijection
<1>4. QED
  BY <1>3, FS_CountingElements DEF P

(* As many entries lie before a place as blocks of the kind outside of it. *)
LEMMA OutsideCounted ==
  ASSUME Types(frames, handlers, sbox), NEW s, Len(s) \in Nat, NEW J \in Index, NEW kind,
         Stack(frames, s, J, kind), Covers(frames, s, J, kind),
         NEW i \in Nat, NEW j \in Nat, NEW n \in 0..Len(s),
         \A l \in 1..Len(s) : l <= n <=> Before(s[l].frame, J[l], i, j)
  PROVE  Cardinality({q \in Outside(<<i, j>>) : BlockAt(q).kind = kind}) = n
<1> DEFINE Q == {q \in Outside(<<i, j>>) : BlockAt(q).kind = kind}
           P == {<<s[k].frame, J[k]>> : k \in 1..n}
<1>1. \A k \in 1..n : k \in 1..Len(s)
  OBVIOUS
<1>2. Q = P
  <2>1. ASSUME NEW q \in Q PROVE q \in P
    <3>1. /\ q \in InForce /\ BlockAt(q).kind = kind
          /\ q[1] < i \/ (q[1] = i /\ q[2] < j)
      BY DEF Outside
    <3>2. q = <<q[1], q[2]>> /\ q[1] \in Nat /\ q[2] \in Nat /\ Has(frames, q[1], q[2])
      BY <3>1, InForceIs
    <3>3. PICK l \in 1..Len(s) : s[l].frame = q[1] /\ J[l] = q[2]
      BY <3>1, <3>2 DEF Covers, BlockAt
    <3>4. Before(s[l].frame, J[l], i, j)
      BY <3>1, <3>3 DEF Before
    <3>5. l \in 1..n
      BY <3>3, <3>4
    <3>6. QED
      BY <3>2, <3>3, <3>5
  <2>2. ASSUME NEW k \in 1..n PROVE <<s[k].frame, J[k]>> \in Q
    <3>1. PICK p : p = <<s[k].frame, J[k]>>
      OBVIOUS
    <3>2. k \in 1..Len(s) /\ k <= n
      BY <1>1
    <3>3. /\ Has(frames, s[k].frame, J[k]) /\ frames[s[k].frame].open[J[k]].kind = kind
          /\ Before(s[k].frame, J[k], i, j)
      BY <3>2 DEF Stack
    <3>4. p \in InForce /\ p[1] = s[k].frame /\ p[2] = J[k]
      BY <3>1, <3>3, InForceIs
    <3>5. p \in Outside(<<i, j>>) /\ BlockAt(p).kind = kind
      BY <3>3, <3>4 DEF Outside, Before, BlockAt
    <3>6. QED
      BY <3>1, <3>5
  <2>3. QED
    BY <2>1, <2>2
<1>3. Differ(s, J, n)
  BY <1>1, EntriesDiffer DEF Differ
<1>4. n \in Nat
  OBVIOUS
<1>5. Cardinality(Entries(s, J, n)) = n
  BY <1>3, <1>4, EntriesCounted
<1>6. QED
  BY <1>2, <1>5 DEF Entries

(* All entries are all blocks of the kind.                                 *)
LEMMA AllCounted ==
  ASSUME Types(frames, handlers, sbox), NEW s, Len(s) \in Nat, NEW J \in Index, NEW kind,
         Stack(frames, s, J, kind), Covers(frames, s, J, kind)
  PROVE  Cardinality({q \in InForce : BlockAt(q).kind = kind}) = Len(s)
<1> DEFINE Q == {q \in InForce : BlockAt(q).kind = kind}
           P == {<<s[k].frame, J[k]>> : k \in 1..Len(s)}
<1>1. Q = P
  <2>1. ASSUME NEW q \in Q PROVE q \in P
    <3>1. q = <<q[1], q[2]>> /\ q[1] \in Nat /\ q[2] \in Nat /\ Has(frames, q[1], q[2])
      BY InForceIs
    <3>2. PICK l \in 1..Len(s) : s[l].frame = q[1] /\ J[l] = q[2]
      BY <3>1 DEF Covers, BlockAt
    <3>3. QED
      BY <3>1, <3>2
  <2>2. ASSUME NEW k \in 1..Len(s) PROVE <<s[k].frame, J[k]>> \in Q
    <3>1. PICK p : p = <<s[k].frame, J[k]>>
      OBVIOUS
    <3>2. /\ Has(frames, s[k].frame, J[k]) /\ frames[s[k].frame].open[J[k]].kind = kind
      BY DEF Stack
    <3>3. p \in InForce /\ p[1] = s[k].frame /\ p[2] = J[k]
      BY <3>1, <3>2, InForceIs
    <3>4. QED
      BY <3>1, <3>2, <3>3 DEF BlockAt
  <2>3. QED
    BY <2>1, <2>2
<1>2. Differ(s, J, Len(s))
  BY EntriesDiffer DEF Differ
<1>3. Cardinality(Entries(s, J, Len(s))) = Len(s)
  BY <1>2, EntriesCounted
<1>4. QED
  BY <1>1, <1>3 DEF Entries

(* The k-th entry has k - 1 blocks of its kind outside of its own.         *)
LEMMA NthPlace ==
  ASSUME Types(frames, handlers, sbox), NEW s, Len(s) \in Nat, NEW J \in Index, NEW kind,
         Stack(frames, s, J, kind), Covers(frames, s, J, kind), NEW k \in 1..Len(s)
  PROVE  Cardinality({q \in Outside(<<s[k].frame, J[k]>>) : BlockAt(q).kind = kind}) = k - 1
<1>1. \A l \in 1..Len(s) : s[l].frame \in Nat /\ J[l] \in Nat
  <2> SUFFICES ASSUME NEW l \in 1..Len(s) PROVE s[l].frame \in Nat /\ J[l] \in Nat
    OBVIOUS
  <2>1. s[l].frame \in 1..Len(frames) /\ Len(frames) \in Nat
    BY DEF Stack, Has, Types
  <2>2. l \in Nat
    OBVIOUS
  <2>3. J[l] \in Nat
    BY <2>2 DEF Index
  <2>4. QED
    BY <2>1, <2>3
<1>2. ASSUME NEW l \in 1..Len(s)
      PROVE  l <= k - 1 <=> Before(s[l].frame, J[l], s[k].frame, J[k])
  <2>1. /\ l < k => Before(s[l].frame, J[l], s[k].frame, J[k])
        /\ l > k => Before(s[k].frame, J[k], s[l].frame, J[l])
    BY DEF Stack
  <2>2. l \in Nat /\ k \in Nat
    OBVIOUS
  <2>3. CASE l < k
    BY <2>1, <2>2, <2>3
  <2>4. CASE l = k
    BY <1>1, <2>2, <2>4 DEF Before
  <2>5. CASE l > k
    BY <1>1, <2>1, <2>2, <2>5 DEF Before
  <2>6. QED
    BY <2>2, <2>3, <2>4, <2>5
<1>3. k - 1 \in 0..Len(s)
  OBVIOUS
<1>4. QED
  BY <1>1, <1>2, <1>3, OutsideCounted

LEMMA TheFirst ==
  ASSUME NEW c \in Seq(Blocks), NEW o \in Seq(Blocks), NEW j \in 1..Len(o),
         Len(c) + 1 = j, \A i \in 1..Len(c) : c[i] = o[i]
  PROVE  c = SubSeq(o, 1, j - 1)
<1> DEFINE d == SubSeq(o, 1, j - 1)
<1>1. d \in Seq(Blocks) /\ Len(d) = j - 1 /\ \A i \in 1..(j - 1) : d[i] = o[i]
  OBVIOUS
<1>2. Len(c) = j - 1 /\ \A i \in 1..(j - 1) : c[i] = o[i]
  OBVIOUS
<1> HIDE DEF d
<1>3. c = d
  BY <1>1, <1>2
<1>4. QED
  BY <1>3 DEF d

-----------------------------------------------------------------------------
LEMMA HandlersInv == LInv => HandlersMatch
<1> SUFFICES ASSUME LInv, AtRest PROVE HandlersMatch
  BY DEF HandlersMatch
<1>1. /\ TypeInv /\ Types(frames, handlers, sbox) /\ status = "running" /\ Resting
      /\ Level
  BY DEF LInv, IInv, TypeInv, AtRest, Resting
<1>2. PICK HJ, BJ \in Index : Tracks(HJ, BJ)
  BY <1>1 DEF LInv, IInv
<1>3. /\ Stack(frames, handlers, HJ, "try") /\ Covers(frames, handlers, HJ, "try")
      /\ Stack(frames, sbox, BJ, "sbox") /\ Covers(frames, sbox, BJ, "sbox")
      /\ Catches(frames, handlers, HJ) /\ Depths(handlers, HJ, sbox, BJ)
  BY <1>1, <1>2 DEF Tracks, Sound
<1>4. Len(handlers) \in Nat /\ Len(sbox) \in Nat
  BY <1>1, Placed
<1>5. Cardinality({p \in InForce : IsTry(BlockAt(p))}) = Len(handlers)
  BY <1>1, <1>3, <1>4, AllCounted DEF IsTry
<1>6. ASSUME NEW p \in InForce, IsTry(BlockAt(p))
      PROVE  handlers[1 + Count(Outside(p), IsTry)] =
               [frame |-> p[1], sp |-> frames[p[1]].base + Slots,
                nsbox |-> Count(Outside(p), IsSbox),
                catch |-> SubSeq(frames[p[1]].open, 1, p[2] - 1)]
  <2>1. p = <<p[1], p[2]>> /\ p[1] \in Nat /\ p[2] \in Nat /\ Has(frames, p[1], p[2])
    BY <1>1, InForceIs
  <2>2. PICK k \in 1..Len(handlers) : handlers[k].frame = p[1] /\ HJ[k] = p[2]
    BY <1>3, <1>6, <2>1 DEF Covers, BlockAt, IsTry
  <2>3. PICK h : h = handlers[k]
    OBVIOUS
  <2>4. h \in Handler /\ h.nsbox \in Nat /\ h.catch \in Seq(Blocks) /\ Len(h.catch) \in Nat
    <3>1. handlers \in Seq(Handler)
      BY <1>1 DEF Types
    <3>2. QED
      BY <1>1, <1>2, <2>2, <2>3, <3>1, Placed
  <2>5. Count(Outside(p), IsTry) = k - 1
    <3>1. Cardinality({q \in Outside(<<handlers[k].frame, HJ[k]>>) : BlockAt(q).kind = "try"}) = k - 1
      BY <1>1, <1>3, <1>4, NthPlace
    <3>2. p = <<handlers[k].frame, HJ[k]>>
      BY <2>1, <2>2
    <3>3. QED
      BY <3>1, <3>2 DEF Count, IsTry
  <2>6. Count(Outside(p), IsSbox) = h.nsbox
    <3>1. /\ h.nsbox <= Len(sbox)
          /\ \A l \in 1..Len(sbox) : l <= h.nsbox <=> Before(sbox[l].frame, BJ[l], p[1], p[2])
      BY <1>3, <2>2, <2>3 DEF Depths
    <3>2. h.nsbox \in 0..Len(sbox)
      BY <1>4, <2>4, <3>1
    <3>3. Cardinality({q \in Outside(<<p[1], p[2]>>) : BlockAt(q).kind = "sbox"}) = h.nsbox
      BY <1>1, <1>3, <1>4, <2>1, <3>1, <3>2, OutsideCounted
    <3>4. QED
      BY <2>1, <3>3 DEF Count, IsSbox
  <2>7. h.frame = p[1] /\ h.sp = frames[p[1]].base + Slots
    BY <1>1, <2>2, <2>3 DEF Level
  <2>8. h.catch = SubSeq(frames[p[1]].open, 1, p[2] - 1)
    <3>1. /\ Len(h.catch) + 1 = p[2]
          /\ \A i \in 1..Len(h.catch) : h.catch[i] = frames[p[1]].open[i]
      BY <1>3, <2>2, <2>3 DEF Catches
    <3>2. /\ frames[p[1]].open \in Seq(Blocks) /\ p[2] \in 1..Len(frames[p[1]].open)
          /\ Len(frames[p[1]].open) \in Nat
      BY <1>1, <2>1, FrameSeq DEF Types, Has
    <3>3. QED
      BY <2>4, <3>1, <3>2, TheFirst
  <2>9. 1 + Count(Outside(p), IsTry) = k
    BY <2>2, <2>5
  <2>10. h = [frame |-> h.frame, sp |-> h.sp, nsbox |-> h.nsbox, catch |-> h.catch]
    BY <2>4 DEF Handler
  <2>11. QED
    BY <2>3, <2>6, <2>7, <2>8, <2>9, <2>10
<1>7. QED
  BY <1>5, <1>6 DEF HandlersMatch

LEMMA SandboxesInv == LInv => SandboxesMatch
<1> SUFFICES ASSUME LInv, AtRest PROVE SandboxesMatch
  BY DEF SandboxesMatch
<1>1. TypeInv /\ Types(frames, handlers, sbox) /\ status = "running" /\ Resting
  BY DEF LInv, IInv, TypeInv, AtRest, Resting
<1>2. PICK HJ, BJ \in Index : Tracks(HJ, BJ)
  BY <1>1 DEF LInv, IInv
<1>3. Stack(frames, sbox, BJ, "sbox") /\ Covers(frames, sbox, BJ, "sbox")
  BY <1>1, <1>2 DEF Tracks, Sound
<1>4. Len(sbox) \in Nat
  BY <1>1, Placed
<1>5. Cardinality({p \in InForce : IsSbox(BlockAt(p))}) = Len(sbox)
  BY <1>1, <1>3, <1>4, AllCounted DEF IsSbox
<1>6. ASSUME NEW p \in InForce, IsSbox(BlockAt(p))
      PROVE  sbox[1 + Count(Outside(p), IsSbox)].frame = p[1]
  <2>1. p = <<p[1], p[2]>> /\ p[1] \in Nat /\ p[2] \in Nat /\ Has(frames, p[1], p[2])
    BY <1>1, InForceIs
  <2>2. PICK k \in 1..Len(sbox) : sbox[k].frame = p[1] /\ BJ[k] = p[2]
    BY <1>3, <1>6, <2>1 DEF Covers, BlockAt, IsSbox
  <2>3. Count(Outside(p), IsSbox) = k - 1
    <3>1. Cardinality({q \in Outside(<<sbox[k].frame, BJ[k]>>) : BlockAt(q).kind = "sbox"}) = k - 1
      BY <1>1, <1>3, <1>4, NthPlace
    <3>2. p = <<sbox[k].frame, BJ[k]>>
      BY <2>1, <2>2
    <3>3. QED
      BY <3>1, <3>2 DEF Count, IsSbox
  <2>4. QED
    BY <2>2, <2>3
<1>7. QED
  BY <1>5, <1>6 DEF SandboxesMatch

(* What the compiler knows of the open blocks and what the machine has on  *)
(* its stacks is the same at every statement: each handler and sandbox,    *)
(* their number and order, and the height of the operands (vm.c:92-100,    *)
(* 317-344, 395-407; vxc.py:734-740).                                      *)
THEOREM StacksMatchAlways == Spec => []StacksMatch
<1>1. LInv /\ SpentInv => StacksMatch
  BY TypeInvOK, HandlersInv, SandboxesInv, LevelInv DEF StacksMatch
<1>2. QED
  BY <1>1, StacksTrackOperands, SpentAlways, PTL
=============================================================================
