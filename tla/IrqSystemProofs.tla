-------------------------- MODULE IrqSystemProofs ---------------------------
(***************************************************************************)
(* Proofs about the interrupt and sound side of the machine: what the sound *)
(* chip plays, for every FIFO size, longword, sample rate and bus speed,    *)
(* and what the pseudo-VIA keeps of the lines.                              *)
(***************************************************************************)
EXTENDS IrqSystem, TLAPS

-----------------------------------------------------------------------------
(* The inductive invariant *)

\* The numbers of samples go round after two FIFOs full of them.
Number == 0..(2 * SIZE - 1)

Cell == 0..(SIZE - 1)

Sample == Number \cup {Silence}

EascSet ==
    [mode : {"fifo", "hold"}, wrptr : [Channels -> Cell], rdptr : [Channels -> Cell],
     cap : [Channels -> 0..SIZE], mem : [Channels -> [Cell -> Sample]],
     q_b : [Channels -> Sample], push : Seq(Number), push_to : Channels,
     sdiv : 0..(SAMPLE_DIV - 1), irq_r : BOOLEAN]

IdsSet ==
    [wr : [Channels -> Number], rd : [Channels -> Number],
     new : SUBSET Channels, bad : SUBSET Channels]

CpuSet ==
    [pc : {"idle", "enable", "asc", "poll", "wait", "fill", "ack", "slot", "scsi"},
     playing : BOOLEAN, flags : SUBSET {"slot", "scsi", "asc"}, chans : SUBSET Channels,
     left : Nat, how : {"half", "full"}]

PviaSet == [via2_ifr : SUBSET {"slot", "scsi", "asc"}, via2_ier : SUBSET Lines,
            d : SUBSET {"slot", "scsi", "asc"}]

IrqTypes ==
    /\ easc \in EascSet /\ ids \in IdsSet /\ cpu \in CpuSet /\ pvia \in PviaSet
    /\ bus \in [gap : Nat, capture : BOOLEAN]

\* Outside FIFO mode the FIFOs are empty; the guest fills them in FIFO mode only.
Mode ==
    /\ ~fifo_mode(easc) => easc.push = <<>> /\ \A c \in Channels : easc.cap[c] = 0
    /\ cpu.playing \/ cpu.pc = "enable" => fifo_mode(easc)

\* The lanes of a write are in the FIFO before the next access of the bus.
Drained ==
    /\ Len(easc.push) <= bus.gap + 1
    /\ bus.capture => easc.push = <<>>

\* Samples of the FIFO c that are on their way from the write to the RAM.
Pending(c) == IF easc.push_to = c THEN Len(easc.push) ELSE 0

\* The place j steps on in a ring of S, and the way from one place to another.
Ahead(S, a, j) == (a + j) % S

Apart(S, a, b) == (b - a) % S

\* The FIFO the guest fills now.
Filling == IF "A" \in cpu.chans THEN "A" ELSE "B"

\* What the guest has yet to write has room.
Room ==
    /\ \A c \in Channels : easc.cap[c] + Pending(c) <= SIZE
    /\ cpu.pc = "fill" =>
          /\ cpu.playing /\ cpu.chans # {} /\ cpu.left > 0
          /\ \A c \in cpu.chans :
                easc.cap[c] + Pending(c) + (IF c = Filling THEN cpu.left ELSE Portion) <= SIZE
    /\ cpu.pc \in {"poll", "wait"} => cpu.left = 0 \/ cpu.how = "full"
    /\ cpu.pc \notin {"poll", "wait", "fill"} => cpu.left = 0

\* The pointers are as far apart as the level says, and so are the samples' numbers.
Order ==
    \A c \in Channels :
        /\ easc.wrptr[c] = Ahead(SIZE, easc.rdptr[c], easc.cap[c])
        /\ ids.wr[c] = Ahead(2 * SIZE, ids.rd[c], easc.cap[c] + Pending(c))

\* The FIFO holds the samples that are to be played next, in their order, and the lanes
\* on their way follow them.
Content ==
    /\ \A c \in Channels : \A j \in Cell :
          j < easc.cap[c] =>
              easc.mem[c][Ahead(SIZE, easc.rdptr[c], j)] = Ahead(2 * SIZE, ids.rd[c], j)
    /\ \A k \in 1..Len(easc.push) :
          easc.push[k] = Ahead(2 * SIZE, ids.rd[easc.push_to], easc.cap[easc.push_to] + (k - 1))

\* The read port shows the next sample, a clock after the last pop or crowding push.
ReadPort ==
    \A c \in Channels :
        (easc.cap[c] > 0 /\ c \notin ids.new /\ easc.sdiv # 0) => easc.q_b[c] = ids.rd[c]

SoundInv == IrqTypes /\ Mode /\ Drained /\ Room /\ Order /\ Content /\ ReadPort /\ SoundExact
-----------------------------------------------------------------------------
(* Arithmetic of the ring *)

\* Going round a ring by less than a turn: a pointer or a number that wraps.
LEMMA AheadIs ==
    \A S \in Nat \ {0} : \A a \in 0..(S - 1) : \A j \in 0..S :
        Ahead(S, a, j) = IF a + j < S THEN a + j ELSE a + j - S
  BY DEF Ahead

\* The way from one place of a ring to another.
LEMMA ApartIs ==
    \A S \in Nat \ {0} : \A a \in 0..(S - 1) : \A b \in 0..(S - 1) :
        Apart(S, a, b) = IF b >= a THEN b - a ELSE b - a + S
  BY DEF Apart

\* From a by i to b, and on by j: m steps, at most a turn.
TwoWays(S, a, i, b, j, m) ==
    /\ S \in Nat \ {0} /\ a \in 0..(S - 1) /\ i \in Nat /\ j \in Nat /\ m \in Nat
    /\ b = Ahead(S, a, i) /\ m = i + j /\ m <= S

\* From a by j to b, less than a turn.
OneWay(S, a, j, b) ==
    S \in Nat \ {0} /\ a \in 0..(S - 1) /\ j \in 0..(S - 1) /\ b = Ahead(S, a, j)

\* Two ways round in turn.
LEMMA RingAdd ==
    \A S, a, i, b, j, m :
        TwoWays(S, a, i, b, j, m) => b \in 0..(S - 1) /\ Ahead(S, b, j) = Ahead(S, a, m)
  <1> SUFFICES ASSUME NEW S \in Nat \ {0}, NEW a \in 0..(S - 1), NEW i \in Nat, NEW j \in Nat,
                      NEW m \in Nat, NEW b, b = Ahead(S, a, i), m = i + j, m <= S
               PROVE  b \in 0..(S - 1) /\ Ahead(S, b, j) = Ahead(S, a, m)
    BY DEF TwoWays
  <1>0. i \in 0..S /\ j \in 0..S /\ m \in 0..S
    OBVIOUS
  <1>1. b = IF a + i < S THEN a + i ELSE a + i - S
    BY <1>0, AheadIs
  <1>2. b \in 0..(S - 1)
    BY <1>0, <1>1
  <1>3. Ahead(S, b, j) = IF b + j < S THEN b + j ELSE b + j - S
    BY <1>0, <1>2, AheadIs
  <1>4. Ahead(S, a, m) = IF a + m < S THEN a + m ELSE a + m - S
    BY <1>0, AheadIs
  <1> QED
    BY <1>1, <1>2, <1>3, <1>4

\* There and back, within a turn.
LEMMA RingBack ==
    \A S, a, j, b : OneWay(S, a, j, b) => b \in 0..(S - 1) /\ Apart(S, a, b) = j
  <1> SUFFICES ASSUME NEW S \in Nat \ {0}, NEW a \in 0..(S - 1), NEW j \in 0..(S - 1), NEW b,
                      b = Ahead(S, a, j)
               PROVE  b \in 0..(S - 1) /\ Apart(S, a, b) = j
    BY DEF OneWay
  <1>1. b = IF a + j < S THEN a + j ELSE a + j - S
    BY AheadIs
  <1>2. b \in 0..(S - 1)
    BY <1>1
  <1>3. Apart(S, a, b) = IF b >= a THEN b - a ELSE b - a + S
    BY <1>2, ApartIs
  <1> QED
    BY <1>1, <1>2, <1>3

\* No way at all.
LEMMA RingStay ==
    ASSUME NEW S \in Nat \ {0}, NEW a \in 0..(S - 1)
    PROVE  Ahead(S, a, 0) = a
  BY AheadIs

\* Two halves are a FIFO: HALF.
LEMMA Sizes ==
    /\ SIZE \in Nat /\ SIZE >= 4 /\ HALF \in Nat /\ 2 * HALF = SIZE
    /\ 2 * SIZE \in Nat \ {0} /\ SIZE \in Nat \ {0}
    /\ SAMPLE_DIV \in Nat /\ SAMPLE_DIV >= 2
    /\ GAP \in Nat /\ LANES \in Nat /\ LANES <= GAP /\ LANES > 0
  BY EascAssumption, GuestAssumption DEF HALF

-----------------------------------------------------------------------------
(* A clock of the sound chip, register by register *)

\* A clock keeps the registers of the chip: EascCycle.
LEMMA SoundShape ==
    ASSUME NEW a, Sound(a)
    PROVE  easc' = [mode |-> easc'.mode, wrptr |-> easc'.wrptr, rdptr |-> easc'.rdptr,
                    cap |-> easc'.cap, mem |-> easc'.mem, q_b |-> easc'.q_b,
                    push |-> easc'.push, push_to |-> easc'.push_to, sdiv |-> easc'.sdiv,
                    irq_r |-> easc'.irq_r]
  <1>1. PICK race \in BOOLEAN : easc' = Forget(EascCycle(easc, a, race))
    BY DEF Sound
  <1>2. \E m, w, r, p, x, q, s, t, d, i :
           EascCycle(easc, a, race) = [mode |-> m, wrptr |-> w, rdptr |-> r, cap |-> p, mem |-> x,
                                       q_b |-> q, push |-> s, push_to |-> t, sdiv |-> d, irq_r |-> i]
    BY Zenon DEF EascCycle
  <1>3. PICK m, w, r, p, x, q, s, t, d, i :
           EascCycle(easc, a, race) = [mode |-> m, wrptr |-> w, rdptr |-> r, cap |-> p, mem |-> x,
                                       q_b |-> q, push |-> s, push_to |-> t, sdiv |-> d, irq_r |-> i]
    BY <1>2
  <1> QED
    BY <1>1, <1>3 DEF Forget

\* What EascCycle leaves in each of them, for an access a.
LEMMA SoundFields ==
    ASSUME NEW a, Sound(a)
    PROVE  LET clr == fifo_clear(easc, a)
           IN  /\ easc'.mode = (IF a.op = "mode" THEN a.val ELSE easc.mode)
               /\ easc'.push = push_next(easc, a)
               /\ easc'.push_to = (IF a.op = "push" /\ fifo_mode(easc) THEN a.ch ELSE easc.push_to)
               /\ easc'.sdiv = (IF tick(easc) THEN 0 ELSE easc.sdiv + 1)
               /\ easc'.irq_r = irq_next(easc, a)
               /\ easc'.wrptr = [c \in Channels |-> IF clr THEN 0 ELSE IF psh(easc, c)
                                                    THEN (easc.wrptr[c] + 1) % SIZE ELSE easc.wrptr[c]]
               /\ easc'.rdptr = [c \in Channels |-> IF clr THEN 0 ELSE IF pop(easc, c)
                                                    THEN (easc.rdptr[c] + 1) % SIZE ELSE easc.rdptr[c]]
               /\ easc'.cap = [c \in Channels |-> IF clr THEN 0 ELSE cap_next(easc, c)]
               /\ \E race \in BOOLEAN : easc'.q_b = [c \in Channels |-> q_next(easc, c, race)]
               /\ easc'.mem = [c \in Channels |-> [j \in Cell |->
                     IF (j - easc'.rdptr[c]) % SIZE < easc'.cap[c]
                     THEN (IF psh(easc, c) THEN [easc.mem[c] EXCEPT ![easc.wrptr[c]] = Head(easc.push)]
                           ELSE easc.mem[c])[j]
                     ELSE Silence]]
  <1>1. PICK race \in BOOLEAN : easc' = Forget(EascCycle(easc, a, race))
    BY DEF Sound
  <1> QED
    BY <1>1 DEF Forget, EascCycle, Cell

\* An access that the guest may make: one after the other, a mode that is another one,
\* samples in FIFO mode, in their order, when there is room for them.
Allowed(a) ==
    /\ a.op # "none" => bus.gap = 0
    /\ a.op = "ier_set" => a.bits \subseteq Lines
    /\ a.op = "mode" => a.val \in {"fifo", "hold"} /\ a.val # easc.mode
    /\ a.op = "push" =>
          /\ fifo_mode(easc) /\ bus.gap = 0 /\ a.ch \in Channels
          /\ a.data \in Seq(Number) /\ Len(a.data) <= GAP
          /\ easc.cap[a.ch] + Pending(a.ch) + Len(a.data) <= SIZE
          /\ \A k \in 1..Len(a.data) : a.data[k] = Ahead(2 * SIZE, ids.wr[a.ch], k - 1)

\* What a clock does to the level and to the lanes on their way.
LEMMA Levels ==
    ASSUME SoundInv, NEW a, Allowed(a), Sound(a), ~fifo_clear(easc, a)
    PROVE  /\ \A c \in Channels :
                 /\ pop(easc, c) => easc.cap[c] > 0
                 /\ psh(easc, c) <=> (easc.push # <<>> /\ easc.push_to = c)
                 /\ psh(easc, c) => Pending(c) > 0 /\ easc.cap[c] < SIZE
                 /\ easc'.cap[c] = easc.cap[c] + (IF psh(easc, c) THEN 1 ELSE 0)
                                     - (IF pop(easc, c) THEN 1 ELSE 0)
                 /\ easc'.cap[c] \in 0..SIZE
           /\ easc.push \in Seq(Number)
           /\ easc'.push = IF a.op = "push" THEN a.data
                           ELSE IF easc.push = <<>> THEN <<>> ELSE Tail(easc.push)
           /\ easc'.push_to = IF a.op = "push" THEN a.ch ELSE easc.push_to
  <1> USE Sizes
  <1>1. easc \in EascSet /\ easc.push \in Seq(Number) /\ easc.push_to \in Channels
        /\ \A c \in Channels : easc.cap[c] \in 0..SIZE
    BY DEF SoundInv, IrqTypes, EascSet
  <1>2. easc.push # <<>> => Len(easc.push) > 0 /\ easc.cap[easc.push_to] < SIZE
    <2>1. easc.push # <<>> => Len(easc.push) \in Nat /\ Len(easc.push) > 0
      BY <1>1
    <2>2. easc.cap[easc.push_to] + Len(easc.push) <= SIZE
      BY <1>1 DEF SoundInv, Room, Pending
    <2> QED
      BY <1>1, <2>1, <2>2
  <1>3. easc.push # <<>> => ~fifo_full(easc)
    BY <1>1, <1>2 DEF fifo_full
  <1>4. push_do(easc) <=> easc.push # <<>>
    BY <1>3 DEF push_do
  <1>5. ASSUME NEW c \in Channels
        PROVE  /\ pop(easc, c) => easc.cap[c] > 0
               /\ psh(easc, c) <=> (easc.push # <<>> /\ easc.push_to = c)
               /\ psh(easc, c) => Pending(c) > 0 /\ easc.cap[c] < SIZE
               /\ easc'.cap[c] = easc.cap[c] + (IF psh(easc, c) THEN 1 ELSE 0)
                                   - (IF pop(easc, c) THEN 1 ELSE 0)
               /\ easc'.cap[c] \in 0..SIZE
    <2>1. pop(easc, c) => easc.cap[c] > 0
      BY <1>1 DEF pop
    <2>2. psh(easc, c) <=> (easc.push # <<>> /\ easc.push_to = c)
      BY <1>4 DEF psh
    <2>3. psh(easc, c) => Pending(c) > 0 /\ easc.cap[c] < SIZE
      <3>1. ASSUME psh(easc, c) PROVE Pending(c) > 0 /\ easc.cap[c] < SIZE
        <4>1. easc.push # <<>> /\ easc.push_to = c
          BY <2>2, <3>1
        <4>2. Pending(c) = Len(easc.push)
          BY <4>1 DEF Pending
        <4> QED
          BY <1>2, <4>1, <4>2
      <3> QED
        BY <3>1
    <2>4. easc'.cap[c] = easc.cap[c] + (IF psh(easc, c) THEN 1 ELSE 0)
                           - (IF pop(easc, c) THEN 1 ELSE 0)
      <3>1. easc'.cap = [d \in Channels |-> IF fifo_clear(easc, a) THEN 0 ELSE cap_next(easc, d)]
        BY SoundFields
      <3>2. easc'.cap[c] = cap_next(easc, c)
        BY <3>1
      <3> QED
        BY <3>2 DEF cap_next
    <2>5. easc'.cap[c] \in 0..SIZE
      BY <1>1, <2>1, <2>3, <2>4
    <2> QED
      BY <2>1, <2>2, <2>3, <2>4, <2>5
  <1>6. easc'.push = IF a.op = "push" THEN a.data
                     ELSE IF easc.push = <<>> THEN <<>> ELSE Tail(easc.push)
    BY <1>4, SoundFields DEF push_next, Allowed
  <1>7. easc'.push_to = IF a.op = "push" THEN a.ch ELSE easc.push_to
    BY SoundFields DEF Allowed
  <1> QED
    BY <1>1, <1>5, <1>6, <1>7

\* The numbers that follow a clock of the sound chip.
LEMMA IdsFields ==
    ASSUME NEW a, Sound(a)
    PROVE  /\ ids' = [wr |-> ids'.wr, rd |-> ids'.rd, new |-> ids'.new, bad |-> ids'.bad]
           /\ ids'.wr = [c \in Channels |->
                 IF fifo_clear(easc, a) THEN 0
                 ELSE IF a.op = "push" /\ a.ch = c
                 THEN (ids.wr[c] + Len(a.data)) % (2 * SIZE) ELSE ids.wr[c]]
           /\ ids'.rd = [c \in Channels |->
                 IF fifo_clear(easc, a) THEN 0
                 ELSE IF pop(easc, c) THEN (ids.rd[c] + 1) % (2 * SIZE) ELSE ids.rd[c]]
           /\ ids'.new = {c \in Channels : crowds(easc, c)}
           /\ ids'.bad = {c \in Channels : /\ c \in out_l(easc) \cup out_r(easc)
                                           /\ easc.q_b[c] # ids.rd[c] /\ c \notin ids.new}
  BY DEF Sound

\* A clock keeps the types of the sound chip and of the history: EascCycle.
LEMMA SoundTypes ==
    ASSUME SoundInv, NEW a, Allowed(a), Sound(a)
    PROVE  easc' \in EascSet /\ ids' \in IdsSet
  <1> USE Sizes
  <1>1. easc \in EascSet /\ ids \in IdsSet
    BY DEF SoundInv, IrqTypes
  <1>2. \A x \in Cell : (x + 1) % SIZE \in Cell
    BY DEF Cell
  <1>3. 0 \in Cell /\ 0 \in Number /\ 0 \in 0..SIZE /\ Silence \in Sample
    BY DEF Cell, Number, Sample
  <1>4. easc'.wrptr \in [Channels -> Cell] /\ easc'.rdptr \in [Channels -> Cell]
    <2>1. easc'.wrptr = [c \in Channels |-> IF fifo_clear(easc, a) THEN 0 ELSE IF psh(easc, c)
                                            THEN (easc.wrptr[c] + 1) % SIZE ELSE easc.wrptr[c]]
      BY SoundFields
    <2>2. easc'.rdptr = [c \in Channels |-> IF fifo_clear(easc, a) THEN 0 ELSE IF pop(easc, c)
                                            THEN (easc.rdptr[c] + 1) % SIZE ELSE easc.rdptr[c]]
      BY SoundFields
    <2>3. \A c \in Channels : easc.wrptr[c] \in Cell /\ easc.rdptr[c] \in Cell
      BY <1>1 DEF EascSet
    <2>4. \A c \in Channels : (easc.wrptr[c] + 1) % SIZE \in Cell /\ (easc.rdptr[c] + 1) % SIZE \in Cell
      BY <1>2, <2>3
    <2>5. easc'.wrptr \in [Channels -> Cell]
      BY <1>3, <2>1, <2>3, <2>4
    <2>6. easc'.rdptr \in [Channels -> Cell]
      BY <1>3, <2>2, <2>3, <2>4
    <2> QED
      BY <2>5, <2>6
  <1>5. easc'.cap \in [Channels -> 0..SIZE]
    <2>1. CASE fifo_clear(easc, a)
      <3>1. easc'.cap = [c \in Channels |-> IF fifo_clear(easc, a) THEN 0 ELSE cap_next(easc, c)]
        BY SoundFields
      <3> QED
        BY <2>1, <1>3, <3>1
    <2>2. CASE ~fifo_clear(easc, a)
      <3>1. \A c \in Channels : easc'.cap[c] \in 0..SIZE
        BY <2>2, Levels
      <3>2. easc'.cap = [c \in Channels |-> IF fifo_clear(easc, a) THEN 0 ELSE cap_next(easc, c)]
        BY SoundFields
      <3>3. easc'.cap = [c \in Channels |-> easc'.cap[c]]
        BY <3>2
      <3> QED
        BY <3>1, <3>3
    <2> QED
      BY <2>1, <2>2
  <1>6. easc'.push \in Seq(Number)
    <2>1. CASE fifo_clear(easc, a)
      <3>1. easc'.push = <<>>
        BY <2>1, SoundFields DEF push_next
      <3> QED
        BY <3>1
    <2>2. CASE ~fifo_clear(easc, a)
      <3>1. easc.push \in Seq(Number)
            /\ easc'.push = IF a.op = "push" THEN a.data
                            ELSE IF easc.push = <<>> THEN <<>> ELSE Tail(easc.push)
        BY <2>2, Levels
      <3>2. a.op = "push" => a.data \in Seq(Number)
        BY DEF Allowed
      <3> QED
        BY <3>1, <3>2
    <2> QED
      BY <2>1, <2>2
  <1>7. easc'.mem \in [Channels -> [Cell -> Sample]]
    <2>1. ASSUME NEW c \in Channels, psh(easc, c)
          PROVE  [easc.mem[c] EXCEPT ![easc.wrptr[c]] = Head(easc.push)] \in [Cell -> Sample]
      <3>1. easc.push \in Seq(Number) /\ easc.push # <<>>
        BY <1>1, <2>1 DEF EascSet, psh, push_do
      <3>2. Head(easc.push) \in Sample
        BY <3>1 DEF Sample
      <3> QED
        BY <1>1, <3>2 DEF EascSet
    <2>2. \A c \in Channels : easc.mem[c] \in [Cell -> Sample]
      BY <1>1 DEF EascSet
    <2> DEFINE x(c) == IF psh(easc, c) THEN [easc.mem[c] EXCEPT ![easc.wrptr[c]] = Head(easc.push)]
                       ELSE easc.mem[c]
    <2>3. \A c \in Channels : x(c) \in [Cell -> Sample]
      BY <2>1, <2>2
    <2>4. easc'.mem = [c \in Channels |-> [j \in Cell |->
                         IF (j - easc'.rdptr[c]) % SIZE < easc'.cap[c] THEN x(c)[j] ELSE Silence]]
      BY SoundFields
    <2> HIDE DEF x
    <2> QED
      BY <1>3, <2>3, <2>4
  <1>8. easc'.q_b \in [Channels -> Sample]
    <2>1. PICK race \in BOOLEAN : easc'.q_b = [c \in Channels |-> q_next(easc, c, race)]
      BY SoundFields
    <2>2. ASSUME NEW c \in Channels PROVE q_next(easc, c, race) \in Sample
      BY <1>1, <1>3 DEF q_next, EascSet
    <2> QED
      BY <2>1, <2>2
  <1>9. easc'.push_to \in Channels /\ easc'.mode \in {"fifo", "hold"}
    BY <1>1, SoundFields DEF Allowed, EascSet
  <1>10. easc'.sdiv \in 0..(SAMPLE_DIV - 1)
    <2>1. easc'.sdiv = IF tick(easc) THEN 0 ELSE easc.sdiv + 1
      BY SoundFields
    <2> QED
      BY <1>1, <2>1 DEF tick, EascSet
  <1>11. easc'.irq_r \in BOOLEAN
    BY SoundFields DEF irq_next
  <1>12. easc' \in EascSet
    <2> DEFINE e == [mode |-> easc'.mode, wrptr |-> easc'.wrptr, rdptr |-> easc'.rdptr,
                     cap |-> easc'.cap, mem |-> easc'.mem, q_b |-> easc'.q_b,
                     push |-> easc'.push, push_to |-> easc'.push_to, sdiv |-> easc'.sdiv,
                     irq_r |-> easc'.irq_r]
    <2>1. e \in EascSet
      BY <1>4, <1>5, <1>6, <1>7, <1>8, <1>9, <1>10, <1>11 DEF EascSet
    <2>2. easc' = e
      BY SoundShape
    <2> HIDE DEF e
    <2> QED
      BY <2>1, <2>2
  <1>13. ids' \in IdsSet
    <2>1. \A x \in Number, n \in Nat : (x + n) % (2 * SIZE) \in Number
      BY DEF Number
    <2>2. a.op = "push" => Len(a.data) \in Nat
      BY DEF Allowed
    <2>3. ids'.wr \in [Channels -> Number] /\ ids'.rd \in [Channels -> Number]
      <3>1. \A c \in Channels : ids.wr[c] \in Number /\ ids.rd[c] \in Number
        BY <1>1 DEF IdsSet
      <3>2. \A c \in Channels : (ids.rd[c] + 1) % (2 * SIZE) \in Number
        BY <2>1, <3>1
      <3>3. a.op = "push" => \A c \in Channels : (ids.wr[c] + Len(a.data)) % (2 * SIZE) \in Number
        BY <2>1, <2>2, <3>1
      <3>4. ids'.wr = [c \in Channels |->
                 IF fifo_clear(easc, a) THEN 0
                 ELSE IF a.op = "push" /\ a.ch = c
                 THEN (ids.wr[c] + Len(a.data)) % (2 * SIZE) ELSE ids.wr[c]]
        BY IdsFields
      <3>5. ids'.rd = [c \in Channels |->
                 IF fifo_clear(easc, a) THEN 0
                 ELSE IF pop(easc, c) THEN (ids.rd[c] + 1) % (2 * SIZE) ELSE ids.rd[c]]
        BY IdsFields
      <3>6. ids'.wr \in [Channels -> Number]
        BY <1>3, <3>1, <3>3, <3>4
      <3>7. ids'.rd \in [Channels -> Number]
        BY <1>3, <3>1, <3>2, <3>5
      <3> QED
        BY <3>6, <3>7
    <2>4. ids'.new \in SUBSET Channels /\ ids'.bad \in SUBSET Channels
      BY IdsFields
    <2> DEFINE i == [wr |-> ids'.wr, rd |-> ids'.rd, new |-> ids'.new, bad |-> ids'.bad]
    <2>5. i \in IdsSet
      BY <2>3, <2>4 DEF IdsSet
    <2>6. ids' = i
      BY IdsFields
    <2> HIDE DEF i
    <2> QED
      BY <2>5, <2>6
  <1> QED
    BY <1>12, <1>13

\* A clock that takes p samples from the FIFO c, puts s into it and writes n more.
Moves(a, c, p, s, n) ==
    /\ p = 1 <=> pop(easc, c)
    /\ s = 1 <=> psh(easc, c)
    /\ n = IF a.op = "push" /\ a.ch = c THEN Len(a.data) ELSE 0
    /\ easc.cap[c] \in 0..SIZE /\ easc.cap[c] >= p /\ Pending(c) \in Nat /\ Pending(c) >= s
    /\ easc.cap[c] + s <= SIZE
    /\ easc.cap[c] + Pending(c) + n <= SIZE
    /\ a.op = "push" => Pending(c) = s
    /\ easc'.cap[c] = easc.cap[c] + s - p
    /\ Pending(c)' = Pending(c) - s + n
    /\ easc'.rdptr[c] = Ahead(SIZE, easc.rdptr[c], p)
    /\ easc'.wrptr[c] = Ahead(SIZE, easc.wrptr[c], s)
    /\ ids'.rd[c] = Ahead(2 * SIZE, ids.rd[c], p)
    /\ ids'.wr[c] = Ahead(2 * SIZE, ids.wr[c], n)

\* What a clock does to one FIFO's pointers, numbers and lanes on their way.
LEMMA OneFifo ==
    ASSUME SoundInv, NEW a, Allowed(a), Sound(a), ~fifo_clear(easc, a), NEW c \in Channels
    PROVE  \E p \in 0..1, s \in 0..1, n \in Nat : Moves(a, c, p, s, n)
  <1> DEFINE p == IF pop(easc, c) THEN 1 ELSE 0
             s == IF psh(easc, c) THEN 1 ELSE 0
             n == IF a.op = "push" /\ a.ch = c THEN Len(a.data) ELSE 0
  <1>bits. /\ p \in 0..1 /\ s \in 0..1 /\ (p = 1 <=> pop(easc, c)) /\ (s = 1 <=> psh(easc, c))
           /\ p = 0 \/ p = 1
           /\ s = 0 \/ s = 1
           /\ p = (IF pop(easc, c) THEN 1 ELSE 0)
           /\ s = (IF psh(easc, c) THEN 1 ELSE 0)
    OBVIOUS
  <1>lanes. n = IF a.op = "push" /\ a.ch = c THEN Len(a.data) ELSE 0
    OBVIOUS
  <1> HIDE DEF p, s, n
  <1>1. easc \in EascSet /\ ids \in IdsSet /\ bus.gap \in Nat
    BY DEF SoundInv, IrqTypes
  <1>2. easc.cap[c] \in 0..SIZE /\ easc.rdptr[c] \in 0..(SIZE - 1) /\ easc.wrptr[c] \in 0..(SIZE - 1)
        /\ ids.rd[c] \in 0..(2 * SIZE - 1) /\ ids.wr[c] \in 0..(2 * SIZE - 1)
        /\ easc.push \in Seq(Number) /\ easc.push_to \in Channels
    BY <1>1 DEF EascSet, IdsSet, Cell, Number
  <1>sz. SIZE \in Nat /\ SIZE \in Nat \ {0} /\ 2 * SIZE \in Nat \ {0}
    BY Sizes
  <1>3. Len(easc.push) \in Nat /\ (easc.push # <<>> <=> Len(easc.push) > 0)
    <2>1. ASSUME NEW q \in Seq(Number) PROVE Len(q) \in Nat /\ (q # <<>> <=> Len(q) > 0)
      OBVIOUS
    <2>2. easc.push \in Seq(Number)
      BY <1>2
    <2> QED
      BY <2>1, <2>2
  <1>4. Pending(c) \in Nat
    BY <1>3 DEF Pending
  <1>5. a.op = "push" => /\ a.data \in Seq(Number) /\ Len(a.data) \in Nat /\ a.ch \in Channels
                         /\ Len(easc.push) <= 1
    BY <1>1, <1>3 DEF Allowed, SoundInv, Drained
  <1>6. n \in Nat
    BY <1>5, <1>lanes
  <1>7. /\ pop(easc, c) => easc.cap[c] > 0
        /\ psh(easc, c) <=> (easc.push # <<>> /\ easc.push_to = c)
        /\ psh(easc, c) => Pending(c) > 0 /\ easc.cap[c] < SIZE
        /\ easc'.cap[c] = easc.cap[c] + s - p
    BY <1>bits, Levels
  <1>8. easc.cap[c] >= p /\ Pending(c) >= s /\ easc.cap[c] + s <= SIZE
    <2>1. ASSUME NEW x \in Nat, NEW y \in Nat, x <= SIZE,
                 p = 1 => x > 0, s = 1 => y > 0 /\ x < SIZE
          PROVE  x >= p /\ y >= s /\ x + s <= SIZE
      BY <1>bits, <1>sz, <2>1
    <2>2. easc.cap[c] \in Nat /\ easc.cap[c] <= SIZE
      BY <1>2, <1>sz
    <2>3. (p = 1 => easc.cap[c] > 0) /\ (s = 1 => Pending(c) > 0 /\ easc.cap[c] < SIZE)
      BY <1>7, <1>bits
    <2> QED
      BY <1>4, <2>1, <2>2, <2>3
  <1>9. easc.cap[c] + Pending(c) + n <= SIZE
    <2>1. easc.cap[c] + Pending(c) <= SIZE
      BY DEF SoundInv, Room
    <2>2. CASE a.op = "push" /\ a.ch = c
      BY <1>lanes, <2>2 DEF Allowed
    <2>3. CASE ~(a.op = "push" /\ a.ch = c)
      <3>1. n = 0 /\ easc.cap[c] \in Nat
        BY <1>2, <1>lanes, <1>sz, <2>3
      <3> QED
        BY <1>4, <2>1, <3>1
    <2> QED
      BY <2>2, <2>3
  <1>10. a.op = "push" => Pending(c) = s
    <2>1. ASSUME a.op = "push", easc.push_to = c PROVE Pending(c) = s
      BY <1>3, <1>5, <1>7, <1>bits, <2>1 DEF Pending
    <2>2. ASSUME easc.push_to # c PROVE Pending(c) = s
      BY <1>7, <1>bits, <2>2 DEF Pending
    <2> QED
      BY <2>1, <2>2
  <1>11. Pending(c)' = Pending(c) - s + n
    <2>1. /\ easc'.push = IF a.op = "push" THEN a.data
                          ELSE IF easc.push = <<>> THEN <<>> ELSE Tail(easc.push)
          /\ easc'.push_to = IF a.op = "push" THEN a.ch ELSE easc.push_to
      BY Levels
    <2>2. Pending(c)' = IF easc'.push_to = c THEN Len(easc'.push) ELSE 0
      BY DEF Pending
    <2>3. CASE a.op = "push"
      <3>1. Pending(c)' = n
        BY <1>lanes, <2>1, <2>2, <2>3
      <3> QED
        BY <1>4, <1>6, <1>10, <1>bits, <2>3, <3>1
    <2>4. CASE a.op # "push" /\ easc.push = <<>>
      <3>1. Pending(c)' = 0 /\ Pending(c) = 0 /\ s = 0 /\ n = 0
        BY <1>7, <1>bits, <1>lanes, <2>1, <2>2, <2>4 DEF Pending
      <3> QED
        BY <3>1
    <2>5. CASE a.op # "push" /\ easc.push # <<>>
      <3>1. easc'.push = Tail(easc.push) /\ easc'.push_to = easc.push_to /\ n = 0
        BY <1>lanes, <2>1, <2>5
      <3>2. Len(Tail(easc.push)) = Len(easc.push) - 1
        BY <1>2, <2>5
      <3>3. CASE easc.push_to = c
        <4>1. s = 1 /\ Pending(c) = Len(easc.push) /\ Pending(c)' = Len(easc.push) - 1
          BY <1>7, <1>bits, <2>2, <2>5, <3>1, <3>2, <3>3 DEF Pending
        <4> QED
          BY <1>3, <3>1, <4>1
      <3>4. CASE easc.push_to # c
        <4>1. s = 0 /\ Pending(c) = 0 /\ Pending(c)' = 0
          BY <1>7, <1>bits, <2>2, <3>1, <3>4 DEF Pending
        <4> QED
          BY <3>1, <4>1
      <3> QED
        BY <3>3, <3>4
    <2> QED
      BY <2>3, <2>4, <2>5
  <1>12. easc'.rdptr[c] = Ahead(SIZE, easc.rdptr[c], p) /\ easc'.wrptr[c] = Ahead(SIZE, easc.wrptr[c], s)
    <2>1. easc'.wrptr = [d \in Channels |-> IF fifo_clear(easc, a) THEN 0 ELSE IF psh(easc, d)
                                            THEN (easc.wrptr[d] + 1) % SIZE ELSE easc.wrptr[d]]
      BY SoundFields
    <2>2. easc'.rdptr = [d \in Channels |-> IF fifo_clear(easc, a) THEN 0 ELSE IF pop(easc, d)
                                            THEN (easc.rdptr[d] + 1) % SIZE ELSE easc.rdptr[d]]
      BY SoundFields
    <2>3. easc'.wrptr[c] = (IF psh(easc, c) THEN Ahead(SIZE, easc.wrptr[c], 1) ELSE easc.wrptr[c])
      BY <2>1 DEF Ahead
    <2>4. easc'.rdptr[c] = (IF pop(easc, c) THEN Ahead(SIZE, easc.rdptr[c], 1) ELSE easc.rdptr[c])
      BY <2>2 DEF Ahead
    <2>5. Ahead(SIZE, easc.rdptr[c], 0) = easc.rdptr[c] /\ Ahead(SIZE, easc.wrptr[c], 0) = easc.wrptr[c]
      BY <1>2, <1>sz, RingStay
    <2> QED
      BY <1>bits, <2>3, <2>4, <2>5
  <1>13. ids'.rd[c] = Ahead(2 * SIZE, ids.rd[c], p) /\ ids'.wr[c] = Ahead(2 * SIZE, ids.wr[c], n)
    <2>1. ids'.wr = [d \in Channels |->
                 IF fifo_clear(easc, a) THEN 0
                 ELSE IF a.op = "push" /\ a.ch = d
                 THEN (ids.wr[d] + Len(a.data)) % (2 * SIZE) ELSE ids.wr[d]]
      BY IdsFields
    <2>2. ids'.rd = [d \in Channels |->
                 IF fifo_clear(easc, a) THEN 0
                 ELSE IF pop(easc, d) THEN (ids.rd[d] + 1) % (2 * SIZE) ELSE ids.rd[d]]
      BY IdsFields
    <2>3. ids'.wr[c] = (IF a.op = "push" /\ a.ch = c THEN Ahead(2 * SIZE, ids.wr[c], Len(a.data))
                        ELSE ids.wr[c])
      BY <2>1 DEF Ahead
    <2>4. ids'.rd[c] = (IF pop(easc, c) THEN Ahead(2 * SIZE, ids.rd[c], 1) ELSE ids.rd[c])
      BY <2>2 DEF Ahead
    <2>5. Ahead(2 * SIZE, ids.rd[c], 0) = ids.rd[c] /\ Ahead(2 * SIZE, ids.wr[c], 0) = ids.wr[c]
      BY <1>2, <1>sz, RingStay
    <2> QED
      BY <1>bits, <1>lanes, <2>3, <2>4, <2>5
  <1> QED
    <2>1. Moves(a, c, p, s, n)
      BY <1>2, <1>4, <1>7, <1>8, <1>9, <1>10, <1>11, <1>12, <1>13, <1>bits, <1>lanes DEF Moves
    <2> QED
      BY <1>6, <1>bits, <2>1

\* Pointers and numbers stay as far apart as the level says: cap, wrptr and rdptr.
LEMMA OrderStep ==
    ASSUME SoundInv, NEW a, Allowed(a), Sound(a), ~fifo_clear(easc, a)
    PROVE  Order'
  <1>0. SIZE \in Nat \ {0} /\ 2 * SIZE \in Nat \ {0} /\ SIZE <= 2 * SIZE
    BY Sizes
  <1> SUFFICES ASSUME NEW c \in Channels
               PROVE  /\ easc'.wrptr[c] = Ahead(SIZE, easc'.rdptr[c], easc'.cap[c])
                      /\ ids'.wr[c] = Ahead(2 * SIZE, ids'.rd[c], easc'.cap[c] + Pending(c)')
    BY DEF Order
  <1>pick. PICK p \in 0..1, s \in 0..1, n \in Nat : Moves(a, c, p, s, n)
    BY OneFifo
  <1>1. /\ easc.cap[c] \in 0..SIZE /\ easc.cap[c] >= p /\ Pending(c) \in Nat /\ Pending(c) >= s
        /\ easc.cap[c] + s <= SIZE
        /\ easc.cap[c] + Pending(c) + n <= SIZE
        /\ easc'.cap[c] = easc.cap[c] + s - p
        /\ Pending(c)' = Pending(c) - s + n
        /\ easc'.rdptr[c] = Ahead(SIZE, easc.rdptr[c], p)
        /\ easc'.wrptr[c] = Ahead(SIZE, easc.wrptr[c], s)
        /\ ids'.rd[c] = Ahead(2 * SIZE, ids.rd[c], p)
        /\ ids'.wr[c] = Ahead(2 * SIZE, ids.wr[c], n)
    BY <1>pick DEF Moves
  <1>2. easc.rdptr[c] \in 0..(SIZE - 1) /\ ids.rd[c] \in 0..(2 * SIZE - 1)
    BY DEF SoundInv, IrqTypes, EascSet, IdsSet, Cell, Number
  <1>3. easc.wrptr[c] = Ahead(SIZE, easc.rdptr[c], easc.cap[c])
        /\ ids.wr[c] = Ahead(2 * SIZE, ids.rd[c], easc.cap[c] + Pending(c))
    BY DEF SoundInv, Order
  <1> DEFINE k == easc.cap[c] + s - p
             u == easc.cap[c] + Pending(c)
             v == easc.cap[c] + Pending(c) + n - p
  <1>4. k \in Nat /\ p \in Nat /\ s \in Nat /\ p + k = easc.cap[c] + s /\ p + k <= SIZE
    BY <1>0, <1>1
  <1>5. u \in Nat /\ v \in Nat /\ u + n = p + v /\ u + n <= SIZE /\ u + n <= 2 * SIZE
    BY <1>0, <1>1
  <1>6. easc'.cap[c] = k /\ easc'.cap[c] + Pending(c)' = v
    BY <1>0, <1>1
  <1> HIDE DEF k, u, v
  <1>7. Ahead(SIZE, easc.wrptr[c], s) = Ahead(SIZE, easc.rdptr[c], p + k)
    <2>1. TwoWays(SIZE, easc.rdptr[c], easc.cap[c], easc.wrptr[c], s, p + k)
      BY <1>0, <1>1, <1>2, <1>3, <1>4 DEF TwoWays
    <2> QED
      BY <2>1, RingAdd
  <1>8. Ahead(SIZE, easc'.rdptr[c], k) = Ahead(SIZE, easc.rdptr[c], p + k)
    <2>1. TwoWays(SIZE, easc.rdptr[c], p, easc'.rdptr[c], k, p + k)
      BY <1>0, <1>1, <1>2, <1>4 DEF TwoWays
    <2> QED
      BY <2>1, RingAdd
  <1>9. Ahead(2 * SIZE, ids.wr[c], n) = Ahead(2 * SIZE, ids.rd[c], p + v)
    <2>1. ids.wr[c] = Ahead(2 * SIZE, ids.rd[c], u)
      BY <1>3 DEF u
    <2>2. TwoWays(2 * SIZE, ids.rd[c], u, ids.wr[c], n, p + v)
      BY <1>0, <1>2, <1>4, <1>5, <2>1 DEF TwoWays
    <2> QED
      BY <2>2, RingAdd
  <1>10. Ahead(2 * SIZE, ids'.rd[c], v) = Ahead(2 * SIZE, ids.rd[c], p + v)
    <2>1. TwoWays(2 * SIZE, ids.rd[c], p, ids'.rd[c], v, p + v)
      BY <1>0, <1>1, <1>2, <1>4, <1>5 DEF TwoWays
    <2> QED
      BY <2>1, RingAdd
  <1> QED
    BY <1>1, <1>6, <1>7, <1>8, <1>9, <1>10

\* The cells of a FIFO keep the samples to be played, through a push and a pop of the same
\* clock: mem.
LEMMA CellsStep ==
    ASSUME SoundInv, NEW a, Allowed(a), Sound(a), ~fifo_clear(easc, a),
           NEW c \in Channels, NEW j \in Cell, j < easc'.cap[c]
    PROVE  easc'.mem[c][Ahead(SIZE, easc'.rdptr[c], j)] = Ahead(2 * SIZE, ids'.rd[c], j)
  <1> USE Sizes
  <1>0. PICK p \in 0..1, s \in 0..1, n \in Nat : Moves(a, c, p, s, n)
    BY OneFifo
  <1>1. /\ s = 1 <=> psh(easc, c)
        /\ easc.cap[c] \in 0..SIZE /\ easc.cap[c] >= p
        /\ easc.cap[c] + s <= SIZE
        /\ easc'.cap[c] = easc.cap[c] + s - p
        /\ easc'.rdptr[c] = Ahead(SIZE, easc.rdptr[c], p)
        /\ ids'.rd[c] = Ahead(2 * SIZE, ids.rd[c], p)
    BY <1>0 DEF Moves
  <1>2. easc.rdptr[c] \in 0..(SIZE - 1) /\ ids.rd[c] \in 0..(2 * SIZE - 1) /\ easc \in EascSet
    BY DEF SoundInv, IrqTypes, EascSet, IdsSet, Cell, Number
  <1> DEFINE i == p + j
             x == Ahead(SIZE, easc.rdptr[c], i)
  <1>3. j \in Nat /\ j < SIZE /\ p \in Nat
    BY DEF Cell
  <1>4. i \in Nat /\ i < easc.cap[c] + s /\ i <= SIZE /\ i \in 0..(SIZE - 1) /\ i <= 2 * SIZE
    BY <1>1, <1>3
  <1>5. Ahead(SIZE, easc'.rdptr[c], j) = x /\ easc'.rdptr[c] \in 0..(SIZE - 1)
    <2>1. TwoWays(SIZE, easc.rdptr[c], p, easc'.rdptr[c], j, i)
      BY <1>1, <1>2, <1>3, <1>4 DEF TwoWays
    <2> QED
      BY <2>1, RingAdd
  <1>6. Ahead(2 * SIZE, ids'.rd[c], j) = Ahead(2 * SIZE, ids.rd[c], i)
    <2>1. TwoWays(2 * SIZE, ids.rd[c], p, ids'.rd[c], j, i)
      BY <1>1, <1>2, <1>3, <1>4 DEF TwoWays
    <2> QED
      BY <2>1, RingAdd
  <1> HIDE DEF i
  <1>7. x \in 0..(SIZE - 1) /\ Apart(SIZE, easc.rdptr[c], x) = i
    <2>1. OneWay(SIZE, easc.rdptr[c], i, x)
      BY <1>2, <1>4 DEF OneWay
    <2> QED
      BY <2>1, RingBack
  <1>8. Apart(SIZE, easc'.rdptr[c], x) = j
    <2>1. j \in 0..(SIZE - 1)
      BY DEF Cell
    <2>2. OneWay(SIZE, easc'.rdptr[c], j, x)
      BY <1>5, <2>1 DEF OneWay
    <2> QED
      BY <2>2, RingBack
  <1> HIDE DEF x
  <1> DEFINE y == IF psh(easc, c) THEN [easc.mem[c] EXCEPT ![easc.wrptr[c]] = Head(easc.push)]
                  ELSE easc.mem[c]
  <1>9. easc'.mem[c][x] = y[x]
    <2>1. easc'.mem = [d \in Channels |-> [m \in Cell |->
                     IF (m - easc'.rdptr[d]) % SIZE < easc'.cap[d]
                     THEN (IF psh(easc, d) THEN [easc.mem[d] EXCEPT ![easc.wrptr[d]] = Head(easc.push)]
                           ELSE easc.mem[d])[m]
                     ELSE Silence]]
      BY SoundFields
    <2>2. x \in Cell /\ (x - easc'.rdptr[c]) % SIZE = j
      BY <1>7, <1>8 DEF Cell, Apart
    <2> HIDE DEF y
    <2>3. easc'.mem[c] = [m \in Cell |-> IF (m - easc'.rdptr[c]) % SIZE < easc'.cap[c]
                                         THEN y[m] ELSE Silence]
      BY <2>1 DEF y
    <2>4. easc'.mem[c][x] = IF (x - easc'.rdptr[c]) % SIZE < easc'.cap[c] THEN y[x] ELSE Silence
      BY <2>2, <2>3
    <2> QED
      BY <2>2, <2>4
  <1>10. ASSUME i < easc.cap[c] PROVE easc.mem[c][x] = Ahead(2 * SIZE, ids.rd[c], i)
    BY <1>4, <1>10 DEF SoundInv, Content, Cell, x
  <1>11. CASE ~psh(easc, c)
    <2>1. s = 0
      BY <1>1, <1>11
    <2>2. i < easc.cap[c]
      BY <1>1, <1>4, <2>1
    <2> QED
      BY <1>5, <1>6, <1>9, <1>10, <1>11, <2>2
  <1>12. CASE psh(easc, c)
    <2>1. s = 1 /\ easc.push_to = c /\ easc.push # <<>> /\ easc.push \in Seq(Number)
      BY <1>1, <1>12, Levels
    <2>2. easc.cap[c] \in 0..(SIZE - 1)
      BY <1>1, <2>1
    <2>3. easc.wrptr[c] = Ahead(SIZE, easc.rdptr[c], easc.cap[c])
      BY DEF SoundInv, Order
    <2>4. Apart(SIZE, easc.rdptr[c], easc.wrptr[c]) = easc.cap[c]
      <3>1. OneWay(SIZE, easc.rdptr[c], easc.cap[c], easc.wrptr[c])
        BY <1>2, <2>2, <2>3 DEF OneWay
      <3> QED
        BY <3>1, RingBack
    <2>5. easc.mem[c] \in [Cell -> Sample] /\ x \in Cell
      BY <1>2, <1>7 DEF EascSet, Cell
    <2>6. CASE x = easc.wrptr[c]
      <3>1. i = easc.cap[c]
        BY <1>7, <2>4, <2>6
      <3>2. y[x] = Head(easc.push)
        BY <1>12, <2>5, <2>6
      <3>3. 1 \in 1..Len(easc.push) /\ Head(easc.push) = easc.push[1]
        BY <2>1
      <3>4. easc.push[1] = Ahead(2 * SIZE, ids.rd[c], easc.cap[c] + (1 - 1))
        BY <2>1, <3>3 DEF SoundInv, Content
      <3>5. easc.cap[c] + (1 - 1) = i
        BY <1>1, <3>1
      <3> QED
        BY <1>5, <1>6, <1>9, <3>2, <3>3, <3>4, <3>5
    <2>7. CASE x # easc.wrptr[c]
      <3>1. i # easc.cap[c]
        BY <2>3, <2>7 DEF x
      <3>2. i < easc.cap[c]
        BY <1>1, <1>4, <2>1, <3>1
      <3>3. y[x] = easc.mem[c][x]
        BY <1>12, <2>5, <2>7
      <3> QED
        BY <1>5, <1>6, <1>9, <1>10, <3>2, <3>3
    <2> QED
      BY <2>6, <2>7
  <1> QED
    BY <1>11, <1>12

\* The lanes on their way keep following the cells, as a lane drains and as a write replaces
\* the last one: push_next.
LEMMA LanesStep ==
    ASSUME SoundInv, NEW a, Allowed(a), Sound(a), ~fifo_clear(easc, a),
           NEW k \in 1..Len(easc'.push)
    PROVE  easc'.push[k]
             = Ahead(2 * SIZE, ids'.rd[easc'.push_to], easc'.cap[easc'.push_to] + (k - 1))
  <1>0. SIZE \in Nat \ {0} /\ 2 * SIZE \in Nat \ {0} /\ SIZE <= 2 * SIZE
    BY Sizes
  <1>ch. PICK c : c = easc'.push_to
    OBVIOUS
  <1>1. /\ easc'.push = IF a.op = "push" THEN a.data
                        ELSE IF easc.push = <<>> THEN <<>> ELSE Tail(easc.push)
        /\ c = IF a.op = "push" THEN a.ch ELSE easc.push_to
    BY <1>ch, Levels
  <1>2. easc'.push \in Seq(Number) /\ c \in Channels
    BY <1>ch, SoundTypes DEF EascSet
  <1>3. k \in Nat /\ k >= 1 /\ k <= Len(easc'.push) /\ Len(easc'.push) \in Nat
    BY <1>2
  <1>4. PICK p \in 0..1, s \in 0..1, n \in Nat : Moves(a, c, p, s, n)
    BY <1>2, OneFifo
  <1>5. /\ easc.cap[c] \in Nat /\ Pending(c) \in Nat /\ easc.cap[c] >= p
        /\ easc.cap[c] + Pending(c) + n <= SIZE
        /\ easc'.cap[c] = easc.cap[c] + s - p
    BY <1>0, <1>4 DEF Moves
  <1>6. ids'.rd[c] = Ahead(2 * SIZE, ids.rd[c], p)
    BY <1>4 DEF Moves
  <1>7. ids.rd[c] \in 0..(2 * SIZE - 1) /\ easc.push \in Seq(Number)
    BY <1>2 DEF SoundInv, IrqTypes, EascSet, IdsSet, Number
  <1> DEFINE v == easc'.cap[c] + (k - 1)
             m == easc.cap[c] + s + (k - 1)
  <1>8. v \in Nat /\ m \in Nat /\ m = p + v /\ p \in Nat /\ s \in Nat
    <2>1. p \in Nat /\ s \in Nat /\ k - 1 \in Nat
      BY <1>3
    <2>2. ASSUME NEW x \in Nat, x >= p, NEW y, y = x + s - p
          PROVE  /\ y \in Nat /\ y + (k - 1) \in Nat /\ x + s + (k - 1) \in Nat
                 /\ x + s + (k - 1) = p + (y + (k - 1))
      BY <2>1, <2>2
    <2> QED
      BY <1>5, <2>1, <2>2
  <1>9. ASSUME m <= SIZE PROVE Ahead(2 * SIZE, ids'.rd[c], v) = Ahead(2 * SIZE, ids.rd[c], m)
    <2> HIDE DEF v, m
    <2>1. TwoWays(2 * SIZE, ids.rd[c], p, ids'.rd[c], v, m)
      BY <1>0, <1>6, <1>7, <1>8, <1>9 DEF TwoWays
    <2> QED
      BY <2>1, RingAdd
  <1>10. CASE a.op = "push"
    <2>1. easc'.push = a.data /\ c = a.ch
      BY <1>1, <1>10
    <2>2. n = Len(a.data) /\ Pending(c) = s
      BY <1>4, <1>10, <2>1 DEF Moves
    <2>3. m <= SIZE
      <3>1. k - 1 \in Nat /\ k - 1 <= n
        BY <1>3, <2>1, <2>2
      <3>2. m = easc.cap[c] + Pending(c) + (k - 1)
        BY <2>2
      <3> HIDE DEF m
      <3> QED
        BY <1>0, <1>5, <3>1, <3>2
    <2>4. easc'.push[k] = Ahead(2 * SIZE, ids.wr[c], k - 1)
      BY <1>10, <2>1 DEF Allowed
    <2> DEFINE u == easc.cap[c] + Pending(c)
    <2>5. ids.wr[c] = Ahead(2 * SIZE, ids.rd[c], u)
      BY <1>2 DEF SoundInv, Order
    <2>6. u \in Nat /\ k - 1 \in Nat /\ m = u + (k - 1)
      BY <1>3, <1>5, <2>2
    <2> HIDE DEF u, m, v
    <2>7. TwoWays(2 * SIZE, ids.rd[c], u, ids.wr[c], k - 1, m)
      BY <1>0, <1>7, <1>8, <2>3, <2>5, <2>6 DEF TwoWays
    <2>8. Ahead(2 * SIZE, ids.wr[c], k - 1) = Ahead(2 * SIZE, ids.rd[c], m)
      BY <2>7, RingAdd
    <2> QED
      BY <1>9, <1>ch, <2>3, <2>4, <2>8 DEF v
  <1>11. CASE a.op # "push"
    <2>1. easc.push # <<>>
      BY <1>1, <1>3, <1>11
    <2>2. easc'.push = Tail(easc.push) /\ c = easc.push_to
      BY <1>1, <1>11, <2>1
    <2>3. Len(easc.push) \in Nat /\ Len(easc'.push) = Len(easc.push) - 1 /\ easc'.push[k] = easc.push[k + 1]
      BY <1>3, <1>7, <2>1, <2>2
    <2>4. s = 1
      <3>1. psh(easc, c)
        BY <1>2, <2>1, <2>2, Levels
      <3> QED
        BY <1>4, <3>1 DEF Moves
    <2>5. Pending(c) = Len(easc.push)
      BY <2>2 DEF Pending
    <2>6. k + 1 \in 1..Len(easc.push) /\ m <= SIZE /\ m = easc.cap[c] + ((k + 1) - 1)
      <3>1. k + 1 \in 1..Len(easc.push) /\ k \in Nat /\ k <= Pending(c)
        BY <1>3, <2>3, <2>5
      <3>2. m = easc.cap[c] + k /\ easc.cap[c] + k = easc.cap[c] + ((k + 1) - 1)
        <4>1. \A x \in Nat : x + 1 + (k - 1) = x + k /\ x + k = x + ((k + 1) - 1)
          BY <3>1
        <4> QED
          BY <1>5, <2>4, <4>1
      <3> HIDE DEF m
      <3> QED
        BY <1>0, <1>5, <3>1, <3>2
    <2>7. easc.push[k + 1] = Ahead(2 * SIZE, ids.rd[c], easc.cap[c] + ((k + 1) - 1))
      BY <2>2, <2>6 DEF SoundInv, Content
    <2> HIDE DEF m, v
    <2> QED
      BY <1>9, <1>ch, <2>3, <2>6, <2>7 DEF v
  <1> QED
    BY <1>10, <1>11

\* The samples stay in their order.
LEMMA ContentStep ==
    ASSUME SoundInv, NEW a, Allowed(a), Sound(a), ~fifo_clear(easc, a)
    PROVE  Content'
  <1>1. ASSUME NEW c \in Channels, NEW j \in Cell, j < easc'.cap[c]
        PROVE  easc'.mem[c][Ahead(SIZE, easc'.rdptr[c], j)] = Ahead(2 * SIZE, ids'.rd[c], j)
    BY <1>1, CellsStep
  <1>2. ASSUME NEW k \in 1..Len(easc'.push)
        PROVE  easc'.push[k]
                 = Ahead(2 * SIZE, ids'.rd[easc'.push_to], easc'.cap[easc'.push_to] + (k - 1))
    BY <1>2, LanesStep
  <1> QED
    BY <1>1, <1>2 DEF Content

\* A clear leaves both FIFOs empty and the numbers at their start: fifo_clear.
LEMMA ClearStep ==
    ASSUME SoundInv, NEW a, Allowed(a), Sound(a), fifo_clear(easc, a)
    PROVE  /\ easc'.push = <<>> /\ \A c \in Channels : easc'.cap[c] = 0 /\ Pending(c)' = 0
           /\ Order' /\ Content' /\ ReadPort'
  <1>1. easc'.push = <<>>
    BY SoundFields DEF push_next
  <1>2. easc'.cap = [c \in Channels |-> IF fifo_clear(easc, a) THEN 0 ELSE cap_next(easc, c)]
    BY SoundFields
  <1>3. \A c \in Channels : easc'.cap[c] = 0
    BY <1>2
  <1>4. \A c \in Channels : Pending(c)' = 0
    BY <1>1 DEF Pending
  <1>5. \A c \in Channels : easc'.wrptr[c] = 0 /\ easc'.rdptr[c] = 0
    <2>1. easc'.wrptr = [c \in Channels |-> IF fifo_clear(easc, a) THEN 0 ELSE IF psh(easc, c)
                                            THEN (easc.wrptr[c] + 1) % SIZE ELSE easc.wrptr[c]]
      BY SoundFields
    <2>2. easc'.rdptr = [c \in Channels |-> IF fifo_clear(easc, a) THEN 0 ELSE IF pop(easc, c)
                                            THEN (easc.rdptr[c] + 1) % SIZE ELSE easc.rdptr[c]]
      BY SoundFields
    <2> QED
      BY <2>1, <2>2
  <1>6. \A c \in Channels : ids'.wr[c] = 0 /\ ids'.rd[c] = 0
    <2>1. ids'.wr = [d \in Channels |->
                 IF fifo_clear(easc, a) THEN 0
                 ELSE IF a.op = "push" /\ a.ch = d
                 THEN (ids.wr[d] + Len(a.data)) % (2 * SIZE) ELSE ids.wr[d]]
      BY IdsFields
    <2>2. ids'.rd = [d \in Channels |->
                 IF fifo_clear(easc, a) THEN 0
                 ELSE IF pop(easc, d) THEN (ids.rd[d] + 1) % (2 * SIZE) ELSE ids.rd[d]]
      BY IdsFields
    <2> QED
      BY <2>1, <2>2
  <1>7. Order'
    <2>1. Ahead(SIZE, 0, 0) = 0 /\ Ahead(2 * SIZE, 0, 0) = 0
      BY Sizes, RingStay
    <2>2. ASSUME NEW c \in Channels
          PROVE  /\ easc'.wrptr[c] = Ahead(SIZE, easc'.rdptr[c], easc'.cap[c])
                 /\ ids'.wr[c] = Ahead(2 * SIZE, ids'.rd[c], easc'.cap[c] + Pending(c)')
      BY <1>3, <1>4, <1>5, <1>6, <2>1
    <2> QED
      BY <2>2 DEF Order
  <1>8. Content'
    <2>1. ASSUME NEW c \in Channels, NEW j \in Cell PROVE ~(j < easc'.cap[c])
      BY <1>3, Sizes DEF Cell
    <2>2. 1..Len(easc'.push) = {}
      BY <1>1
    <2> QED
      BY <2>1, <2>2 DEF Content
  <1>9. ReadPort'
    BY <1>3 DEF ReadPort
  <1> QED
    BY <1>1, <1>3, <1>4, <1>7, <1>8, <1>9

\* The read port shows the sample at the read pointer unless it has just moved: q_next.
LEMMA ReadPortStep ==
    ASSUME SoundInv, NEW a, Allowed(a), Sound(a), ~fifo_clear(easc, a)
    PROVE  ReadPort'
  <1> SUFFICES ASSUME NEW c \in Channels, easc'.cap[c] > 0, c \notin ids'.new, easc'.sdiv # 0
               PROVE  easc'.q_b[c] = ids'.rd[c]
    BY DEF ReadPort
  <1>1. easc \in EascSet /\ ids \in IdsSet
    BY DEF SoundInv, IrqTypes
  <1>2. easc.cap[c] \in 0..SIZE /\ easc.rdptr[c] \in 0..(SIZE - 1) /\ ids.rd[c] \in 0..(2 * SIZE - 1)
    BY <1>1 DEF EascSet, IdsSet, Cell, Number
  <1>3. ~tick(easc) /\ ~pop(easc, c)
    <2>1. easc'.sdiv = (IF tick(easc) THEN 0 ELSE easc.sdiv + 1)
      BY SoundFields
    <2> QED
      BY <2>1 DEF pop
  <1>4. ids'.rd[c] = ids.rd[c]
    <2>2. ids'.rd = [d \in Channels |->
                 IF fifo_clear(easc, a) THEN 0
                 ELSE IF pop(easc, d) THEN (ids.rd[d] + 1) % (2 * SIZE) ELSE ids.rd[d]]
      BY IdsFields
    <2> QED
      BY <1>3, <2>2
  <1>5. ~crowds(easc, c)
    BY IdsFields
  <1>6. easc.cap[c] > 0
    <2>1. SUFFICES ASSUME easc.cap[c] = 0 PROVE FALSE
      BY <1>2, Sizes
    <2>2. easc'.cap[c] = easc.cap[c] + (IF psh(easc, c) THEN 1 ELSE 0)
                                     - (IF pop(easc, c) THEN 1 ELSE 0)
      BY Levels
    <2>3. psh(easc, c)
      BY <1>3, <2>1, <2>2
    <2>4. easc.wrptr[c] = Ahead(SIZE, easc.rdptr[c], 0)
      BY <2>1 DEF SoundInv, Order
    <2>5. easc.wrptr[c] = easc.rdptr[c]
      BY <1>2, <2>4, Sizes, RingStay
    <2> QED
      BY <1>5, <2>3, <2>5 DEF crowds
  <1>7. fifo_mode(easc)
    <2>1. easc.cap[c] # 0
      BY <1>2, <1>6
    <2> QED
      BY <2>1 DEF SoundInv, Mode
  <1>8. easc'.q_b[c] = easc.mem[c][easc.rdptr[c]]
    <2>1. PICK race \in BOOLEAN : easc'.q_b = [d \in Channels |-> q_next(easc, d, race)]
      BY SoundFields
    <2> QED
      BY <1>5, <1>7, <2>1 DEF q_next
  <1>9. 0 \in Cell /\ 0 < easc.cap[c]
    BY <1>2, <1>6, Sizes DEF Cell
  <1>10. easc.mem[c][Ahead(SIZE, easc.rdptr[c], 0)] = Ahead(2 * SIZE, ids.rd[c], 0)
    BY <1>9 DEF SoundInv, Content
  <1>11. Ahead(SIZE, easc.rdptr[c], 0) = easc.rdptr[c] /\ Ahead(2 * SIZE, ids.rd[c], 0) = ids.rd[c]
    BY <1>2, Sizes, RingStay
  <1> QED
    BY <1>4, <1>8, <1>10, <1>11

\* A tick finds the sample that is due in the read port: out_l and out_r.
LEMMA ExactStep ==
    ASSUME SoundInv, NEW a, Sound(a)
    PROVE  SoundExact'
  <1>1. ASSUME NEW c \in Channels, pop(easc, c), c \notin ids.new PROVE easc.q_b[c] = ids.rd[c]
    <2>1. easc.cap[c] \in Nat /\ easc.cap[c] # 0 /\ easc.sdiv = SAMPLE_DIV - 1
      BY <1>1, Sizes DEF pop, tick, SoundInv, IrqTypes, EascSet
    <2>2. easc.cap[c] > 0 /\ easc.sdiv # 0
      BY <2>1, Sizes
    <2> QED
      BY <1>1, <2>2 DEF SoundInv, ReadPort
  <1>2. out_l(easc) \cup out_r(easc) \subseteq {c \in Channels : pop(easc, c)}
    BY DEF out_l, out_r, Channels
  <1>3. ids'.bad = {c \in Channels : /\ c \in out_l(easc) \cup out_r(easc)
                                     /\ easc.q_b[c] # ids.rd[c] /\ c \notin ids.new}
    BY IdsFields
  <1> QED
    BY <1>1, <1>2, <1>3 DEF SoundExact

-----------------------------------------------------------------------------
(* A clock of the machine *)

\* The level and the lanes on their way grow by what the guest writes, and no more.
LEMMA LevelStep ==
    ASSUME SoundInv, NEW a, Allowed(a), Sound(a), NEW c \in Channels
    PROVE  /\ easc'.cap[c] + Pending(c)' <= SIZE
           /\ a.op = "push" /\ a.ch = c =>
                 easc'.cap[c] + Pending(c)' <= easc.cap[c] + Pending(c) + Len(a.data)
           /\ ~(a.op = "push" /\ a.ch = c) =>
                 easc'.cap[c] + Pending(c)' <= easc.cap[c] + Pending(c)
           /\ easc.cap[c] \in Nat /\ Pending(c) \in Nat /\ easc'.cap[c] \in Nat /\ Pending(c)' \in Nat
  <1>2. Pending(c) \in Nat /\ easc.cap[c] \in Nat /\ easc.cap[c] \in 0..SIZE
    BY Sizes DEF SoundInv, IrqTypes, EascSet, Pending
  <1>3. a.op = "push" => Len(a.data) \in Nat
    BY DEF Allowed
  <1>4. CASE fifo_clear(easc, a)
    <2>1. easc'.cap[c] = 0 /\ Pending(c)' = 0
      BY <1>4, ClearStep
    <2>2. \A x, y : x = 0 /\ y = 0 => x + y = 0
      OBVIOUS
    <2>3. easc'.cap[c] + Pending(c)' = 0
      BY <2>1, <2>2
    <2> QED
      BY <1>2, <1>3, <2>1, <2>3, Sizes
  <1>5. CASE ~fifo_clear(easc, a)
    <2>1. PICK p \in 0..1, s \in 0..1, n \in Nat : Moves(a, c, p, s, n)
      BY <1>5, OneFifo
    <2>2. /\ easc.cap[c] >= p /\ Pending(c) >= s /\ easc.cap[c] + s <= SIZE
          /\ easc.cap[c] + Pending(c) + n <= SIZE
          /\ easc'.cap[c] = easc.cap[c] + s - p
          /\ Pending(c)' = Pending(c) - s + n
      BY <2>1 DEF Moves
    <2>3. n = IF a.op = "push" /\ a.ch = c THEN Len(a.data) ELSE 0
      BY <2>1 DEF Moves
    <2>4. ASSUME NEW x \in Nat, NEW y \in Nat, x >= p, y >= s, x + y + n <= SIZE,
                 NEW x2, NEW y2, x2 = x + s - p, y2 = y - s + n
          PROVE  x2 \in Nat /\ y2 \in Nat /\ x2 + y2 <= SIZE /\ x2 + y2 <= x + y + n
      BY <2>4, Sizes
    <2>5. /\ easc'.cap[c] \in Nat /\ Pending(c)' \in Nat /\ easc'.cap[c] + Pending(c)' <= SIZE
          /\ easc'.cap[c] + Pending(c)' <= easc.cap[c] + Pending(c) + n
      BY <1>2, <2>2, <2>4
    <2> QED
      BY <1>2, <2>3, <2>5
  <1> QED
    BY <1>4, <1>5

\* Outside FIFO mode the FIFOs stay empty: fifo_mode.
LEMMA ModeStep ==
    ASSUME SoundInv, NEW a, Allowed(a), Sound(a), ~fifo_mode(easc)'
    PROVE  easc'.push = <<>> /\ \A c \in Channels : easc'.cap[c] = 0
  <1>1. easc'.mode = (IF a.op = "mode" THEN a.val ELSE easc.mode)
    BY SoundFields
  <1>2. CASE fifo_clear(easc, a)
    BY <1>2, ClearStep
  <1>3. CASE ~fifo_clear(easc, a)
    <2>1. a.op # "mode"
      BY <1>3 DEF fifo_clear, Allowed
    <2>2. ~fifo_mode(easc)
      BY <1>1, <2>1 DEF fifo_mode
    <2>3. easc.push = <<>> /\ \A c \in Channels : easc.cap[c] = 0
      BY <2>2 DEF SoundInv, Mode
    <2>4. a.op # "push"
      BY <2>2 DEF Allowed
    <2>5. easc'.push = <<>>
      BY <1>3, <2>3, <2>4, Levels
    <2>6. ASSUME NEW c \in Channels PROVE easc'.cap[c] = 0
      <3>1. /\ pop(easc, c) => easc.cap[c] > 0
            /\ psh(easc, c) <=> (easc.push # <<>> /\ easc.push_to = c)
            /\ easc'.cap[c] = easc.cap[c] + (IF psh(easc, c) THEN 1 ELSE 0)
                                - (IF pop(easc, c) THEN 1 ELSE 0)
        BY <1>3, Levels
      <3>2. ~psh(easc, c) /\ ~pop(easc, c)
        BY <2>3, <3>1
      <3> QED
        BY <2>3, <3>1, <3>2
    <2> QED
      BY <2>5, <2>6
  <1> QED
    BY <1>2, <1>3

\* A lane drains in every clock, and accesses are GAP clocks apart.
LEMMA DrainStep ==
    ASSUME SoundInv, NEW a, Allowed(a), Sound(a), Bus(a)
    PROVE  Drained' /\ bus' \in [gap : Nat, capture : BOOLEAN]
  <1>1. bus.gap \in Nat /\ easc.push \in Seq(Number) /\ Len(easc.push) <= bus.gap + 1
    BY DEF SoundInv, IrqTypes, EascSet, Drained
  <1>2. Len(easc.push) \in Nat /\ (easc.push = <<>> <=> Len(easc.push) = 0)
    BY <1>1
  <1>3. /\ bus'.gap = (IF a.op = "none" THEN (IF bus.gap > 0 THEN bus.gap - 1 ELSE 0)
                       ELSE IF a.op = "status" THEN GAP ELSE GAP - 1)
        /\ bus'.capture = (a.op = "status")
        /\ bus' = [gap |-> bus'.gap, capture |-> bus'.capture]
    BY DEF Bus
  <1>4. bus'.gap \in Nat
    <2>1. GAP \in Nat /\ GAP - 1 \in Nat /\ (bus.gap > 0 => bus.gap - 1 \in Nat)
      BY <1>1, Sizes
    <2> QED
      BY <1>3, <2>1
  <1>5. bus' \in [gap : Nat, capture : BOOLEAN]
    BY <1>3, <1>4
  <1>6. CASE fifo_clear(easc, a)
    <2>1. easc'.push = <<>>
      BY <1>6, ClearStep
    <2> QED
      BY <1>4, <1>5, <2>1 DEF Drained
  <1>7. CASE ~fifo_clear(easc, a) /\ a.op = "push"
    <2>1. easc'.push = a.data /\ Len(a.data) <= GAP /\ a.data \in Seq(Number)
      BY <1>7, Levels DEF Allowed
    <2>2. Len(easc'.push) \in Nat /\ Len(easc'.push) <= GAP
      BY <2>1
    <2>3. bus'.gap = GAP - 1 /\ ~bus'.capture
      BY <1>3, <1>7
    <2> QED
      BY <1>5, <2>2, <2>3, Sizes DEF Drained
  <1>8. CASE ~fifo_clear(easc, a) /\ a.op # "push"
    <2>1. easc'.push = IF easc.push = <<>> THEN <<>> ELSE Tail(easc.push)
      BY <1>8, Levels
    <2>2. Len(easc'.push) = IF Len(easc.push) = 0 THEN 0 ELSE Len(easc.push) - 1
      BY <1>1, <1>2, <2>1
    <2>3. CASE a.op = "none"
      <3>1. Len(easc'.push) <= bus'.gap + 1
        BY <1>1, <1>2, <1>3, <2>2, <2>3
      <3>2. ~bus'.capture
        BY <1>3, <2>3
      <3> QED
        BY <1>5, <3>1, <3>2 DEF Drained
    <2>4. CASE a.op # "none"
      <3>1. bus.gap = 0
        BY <2>4 DEF Allowed
      <3>2. Len(easc.push) <= 1 /\ Len(easc'.push) = 0
        <4>1. ASSUME NEW x \in Nat, NEW g, x <= g + 1, g = 0,
                     NEW y, y = IF x = 0 THEN 0 ELSE x - 1
              PROVE  x <= 1 /\ y = 0
          BY <4>1
        <4> QED
          BY <1>1, <1>2, <2>2, <3>1, <4>1
      <3>3. easc'.push = <<>>
        BY <1>1, <1>2, <2>1, <3>2
      <3> QED
        BY <1>4, <1>5, <3>2, <3>3 DEF Drained
    <2> QED
      BY <2>3, <2>4
  <1> QED
    BY <1>6, <1>7, <1>8

\* The pseudo-VIA latches its own lines only: PviaCycle.
LEMMA PviaTypes ==
    ASSUME pvia \in PviaSet, NEW a, a.op = "ier_set" => a.bits \subseteq Lines, Pvia(a)
    PROVE  pvia' \in PviaSet
  <1> DEFINE L == {"slot", "scsi", "asc"}
  <1>1. lines \subseteq L
    BY DEF lines
  <1>2. pvia.via2_ifr \subseteq L /\ pvia.via2_ier \subseteq Lines /\ pvia.d \subseteq L
    BY DEF PviaSet
  <1>3. via2_ifr_next(pvia, lines, a) \subseteq L
    BY <1>1, <1>2 DEF via2_ifr_next, EdgeLatch, rises
  <1>4. via2_ier_next(pvia, a) \subseteq Lines
    BY <1>2 DEF via2_ier_next
  <1>5. pvia' = [via2_ifr |-> via2_ifr_next(pvia, lines, a), via2_ier |-> via2_ier_next(pvia, a),
                 d |-> lines]
    BY DEF Pvia, PviaCycle
  <1> QED
    BY <1>1, <1>3, <1>4, <1>5 DEF PviaSet

\* What every clock keeps, whoever makes an access in it.
LEMMA ClockStep ==
    ASSUME SoundInv, NEW a, Allowed(a), Clock(a)
    PROVE  /\ easc' \in EascSet /\ ids' \in IdsSet /\ pvia' \in PviaSet
           /\ bus' \in [gap : Nat, capture : BOOLEAN]
           /\ ~fifo_mode(easc)' => easc'.push = <<>> /\ \A c \in Channels : easc'.cap[c] = 0
           /\ Drained' /\ Order' /\ Content' /\ ReadPort' /\ SoundExact'
           /\ a.op # "mode" => (fifo_mode(easc)' <=> fifo_mode(easc))
  <1>1. Sound(a) /\ Pvia(a) /\ Bus(a)
    BY DEF Clock
  <1>2. easc' \in EascSet /\ ids' \in IdsSet
    BY <1>1, SoundTypes
  <1>3. pvia' \in PviaSet
    <2>1. pvia \in PviaSet /\ (a.op = "ier_set" => a.bits \subseteq Lines)
      BY DEF SoundInv, IrqTypes, Allowed
    <2> QED
      BY <1>1, <2>1, PviaTypes
  <1>4. ~fifo_mode(easc)' => easc'.push = <<>> /\ \A c \in Channels : easc'.cap[c] = 0
    BY <1>1, ModeStep
  <1>5. Drained' /\ bus' \in [gap : Nat, capture : BOOLEAN]
    BY <1>1, DrainStep
  <1>6. Order' /\ Content' /\ ReadPort'
    <2>1. CASE fifo_clear(easc, a)
      BY <1>1, <2>1, ClearStep
    <2>2. CASE ~fifo_clear(easc, a)
      BY <1>1, <2>2, OrderStep, ContentStep, ReadPortStep
    <2> QED
      BY <2>1, <2>2
  <1>7. SoundExact'
    BY <1>1, ExactStep
  <1>8. a.op # "mode" => (fifo_mode(easc)' <=> fifo_mode(easc))
    <2>1. easc'.mode = (IF a.op = "mode" THEN a.val ELSE easc.mode)
      BY <1>1, SoundFields
    <2> QED
      BY <2>1 DEF fifo_mode
  <1> QED
    BY <1>2, <1>3, <1>4, <1>5, <1>6, <1>7, <1>8

-----------------------------------------------------------------------------
(* The guest *)

\* What a step of the guest has to show besides its access.
LEMMA Reassembled ==
    ASSUME SoundInv, NEW a, Allowed(a), Clock(a), cpu' \in CpuSet, Room',
           cpu'.playing \/ cpu'.pc = "enable" => fifo_mode(easc)'
    PROVE  SoundInv'
  <1>1. /\ easc' \in EascSet /\ ids' \in IdsSet /\ pvia' \in PviaSet
        /\ bus' \in [gap : Nat, capture : BOOLEAN]
    BY ClockStep
  <1>2. ~fifo_mode(easc)' => easc'.push = <<>> /\ \A c \in Channels : easc'.cap[c] = 0
    BY ClockStep
  <1>3. Drained' /\ Order' /\ Content' /\ ReadPort' /\ SoundExact'
    BY ClockStep
  <1>4. IrqTypes'
    BY <1>1 DEF IrqTypes
  <1>5. Mode'
    BY <1>2 DEF Mode
  <1> QED
    BY <1>3, <1>4, <1>5 DEF SoundInv

\* A step of the guest that does not fill.
LEMMA Handled ==
    ASSUME SoundInv, NEW a, Allowed(a), Clock(a), cpu' \in CpuSet, cpu'.pc # "fill",
           cpu'.pc \in {"poll", "wait"} => cpu'.left = 0 \/ cpu'.how = "full",
           cpu'.pc \notin {"poll", "wait"} => cpu'.left = 0,
           cpu'.playing \/ cpu'.pc = "enable" => fifo_mode(easc)'
    PROVE  SoundInv'
  <1>1. \A c \in Channels : easc'.cap[c] + Pending(c)' <= SIZE
    BY LevelStep DEF Clock
  <1>2. Room'
    BY <1>1 DEF Room
  <1> QED
    BY <1>2, Reassembled

\* Prepare, Start and Stop: the mode is the one the guest counts on.
LEMMA StartStopStep ==
    ASSUME SoundInv, Prepare \/ Start \/ Stop
    PROVE  SoundInv'
  <1>1. cpu \in CpuSet /\ easc.mode \in {"fifo", "hold"}
    BY DEF SoundInv, IrqTypes, EascSet, CpuSet
  <1>2. CASE Prepare
    <2> DEFINE a == IF fifo_mode(easc) THEN Plain("clear") ELSE [Plain("mode") EXCEPT !.val = "fifo"]
    <2>1. /\ Clock(a) /\ cpu' = [cpu EXCEPT !.pc = "enable"] /\ bus.gap = 0
          /\ cpu.pc = "idle"
      BY <1>2 DEF Prepare, Ready
    <2>2. a.op = (IF fifo_mode(easc) THEN "clear" ELSE "mode") /\ (~fifo_mode(easc) => a.val = "fifo")
      BY DEF Plain, Quiet
    <2> HIDE DEF a
    <2>3. Allowed(a)
      BY <1>1, <2>1, <2>2 DEF Allowed, fifo_mode
    <2>4. cpu' \in CpuSet /\ cpu'.pc = "enable" /\ cpu'.left = 0
      BY <1>1, <2>1 DEF CpuSet, SoundInv, Room
    <2>5. fifo_mode(easc)'
      <3>1. easc'.mode = (IF a.op = "mode" THEN a.val ELSE easc.mode)
        BY <2>1, SoundFields DEF Clock
      <3> QED
        BY <2>2, <3>1 DEF fifo_mode
    <2> QED
      BY <2>1, <2>3, <2>4, <2>5, Handled
  <1>3. CASE Start
    <2> DEFINE a == Flags("ier_set", {"asc"})
    <2>1. PICK how \in {"half", "full"} : cpu' = [cpu EXCEPT !.pc = "asc", !.playing = TRUE, !.how = how]
      BY <1>3 DEF Start
    <2>2. Clock(a) /\ bus.gap = 0 /\ cpu.pc = "enable"
      BY <1>3 DEF Start, Ready
    <2>3. a.op = "ier_set" /\ a.bits = {"asc"}
      BY DEF Flags, Quiet
    <2> HIDE DEF a
    <2>4. Allowed(a)
      BY <2>2, <2>3 DEF Allowed, Lines
    <2>5. cpu' \in CpuSet /\ cpu'.pc = "asc" /\ cpu'.left = 0
      BY <1>1, <2>1, <2>2 DEF CpuSet, SoundInv, Room
    <2>6. fifo_mode(easc)'
      BY <2>2, <2>3, <2>4, ClockStep DEF SoundInv, Mode
    <2> QED
      BY <2>2, <2>4, <2>5, <2>6, Handled
  <1>4. CASE Stop
    <2>1. PICK a \in {Flags("ier_clr", {"asc"}), [Plain("mode") EXCEPT !.val = "hold"]} : Clock(a)
      BY <1>4 DEF Stop
    <2>2. bus.gap = 0 /\ cpu.pc = "idle" /\ cpu.playing /\ cpu' = [cpu EXCEPT !.playing = FALSE]
      BY <1>4 DEF Stop, Ready
    <2>3. a.op = "ier_clr" \/ (a.op = "mode" /\ a.val = "hold")
      BY DEF Flags, Plain, Quiet
    <2>4. fifo_mode(easc)
      BY <2>2 DEF SoundInv, Mode
    <2>5. Allowed(a)
      BY <2>2, <2>3, <2>4 DEF Allowed, fifo_mode
    <2>6. cpu' \in CpuSet /\ cpu'.pc = "idle" /\ cpu'.left = 0 /\ ~cpu'.playing
      BY <1>1, <2>2 DEF CpuSet, SoundInv, Room
    <2> QED
      BY <2>1, <2>5, <2>6, Handled
  <1> QED
    BY <1>2, <1>3, <1>4

\* An access that is not for the FIFOs may be made at any time.
LEMMA Harmless ==
    ASSUME SoundInv, NEW a, a.op \notin {"mode", "push", "ier_set"}, a.op # "none" => bus.gap = 0,
           Clock(a)
    PROVE  Allowed(a) /\ (fifo_mode(easc)' <=> fifo_mode(easc))
  <1>1. Allowed(a)
    BY DEF Allowed
  <1> QED
    BY <1>1, ClockStep

\* The handlers of the interrupts up to the poll of the sound chip.
LEMMA HandlerStep ==
    ASSUME SoundInv, TakeVia1 \/ TakeVia2 \/ Ack \/ Serve \/ Poll \/ Return
    PROVE  SoundInv'
  <1>1. cpu \in CpuSet
    BY DEF SoundInv, IrqTypes
  <1>2. \E a : /\ a.op \notin {"mode", "push", "ier_set"} /\ (a.op # "none" => bus.gap = 0) /\ Clock(a)
    <2>1. CASE TakeVia1
      BY <2>1 DEF TakeVia1, Ready, Plain, Quiet
    <2>2. CASE TakeVia2
      BY <2>2 DEF TakeVia2, Ready, Plain, Quiet
    <2>3. CASE Ack
      <3>1. PICK s \in cpu.flags : Clock(Flags("ifr_wr", {s}))
        BY <2>3 DEF Ack
      <3>2. Flags("ifr_wr", {s}).op = "ifr_wr" /\ bus.gap = 0
        BY <2>3 DEF Ack, Ready, Flags, Quiet
      <3> QED
        BY <3>1, <3>2
    <2>4. CASE Serve
      <3>1. Plain(cpu.pc).op = cpu.pc /\ cpu.pc \in {"slot", "scsi"} /\ bus.gap = 0
        BY <2>4 DEF Serve, Ready, Plain, Quiet
      <3>2. Clock(Plain(cpu.pc))
        BY <2>4 DEF Serve
      <3> QED
        BY <3>1, <3>2
    <2>5. CASE Poll
      BY <2>5 DEF Poll, Ready, Plain, Quiet
    <2>6. CASE Return
      BY <2>6 DEF Return, Quiet
    <2> QED
      BY <2>1, <2>2, <2>3, <2>4, <2>5, <2>6
  <1>3. PICK a : a.op \notin {"mode", "push", "ier_set"} /\ (a.op # "none" => bus.gap = 0) /\ Clock(a)
    BY <1>2
  <1>4. Allowed(a) /\ (fifo_mode(easc)' <=> fifo_mode(easc))
    BY <1>3, Harmless
  <1>5. /\ cpu' \in CpuSet /\ cpu'.pc # "fill" /\ cpu'.pc # "enable"
        /\ cpu'.playing = cpu.playing /\ cpu'.left = cpu.left /\ cpu'.how = cpu.how
        /\ cpu'.pc = "wait" \/ (cpu'.pc \notin {"poll", "wait"} /\ cpu.pc \notin {"poll", "wait", "fill"})
        /\ cpu.pc \in {"poll", "asc"} \/ cpu'.pc # "wait"
    <2>1. CASE TakeVia1
      BY <1>1, <2>1 DEF TakeVia1, CpuSet
    <2>2. CASE TakeVia2
      <3>1. via2_ifr_r(pvia, lines) \cap pvia.via2_ier \subseteq {"slot", "scsi", "asc"}
        BY DEF SoundInv, IrqTypes, PviaSet, via2_ifr_r, lines
      <3>2. cpu' = [cpu EXCEPT !.pc = "ack", !.flags = via2_ifr_r(pvia, lines) \cap pvia.via2_ier]
            /\ cpu.pc = "idle"
        BY <2>2 DEF TakeVia2
      <3> QED
        BY <1>1, <3>1, <3>2 DEF CpuSet
    <2>3. CASE Ack
      <3>1. PICK s \in cpu.flags : cpu' = [cpu EXCEPT !.flags = @ \ {s}, !.pc = s]
        BY <2>3 DEF Ack
      <3>2. s \in {"slot", "scsi", "asc"} /\ cpu.pc = "ack" /\ cpu.flags \ {s} \subseteq {"slot", "scsi", "asc"}
        BY <1>1, <2>3 DEF Ack, CpuSet
      <3> QED
        BY <1>1, <3>1, <3>2 DEF CpuSet
    <2>4. CASE Serve
      BY <1>1, <2>4 DEF Serve, CpuSet
    <2>5. CASE Poll
      BY <1>1, <2>5 DEF Poll, CpuSet
    <2>6. CASE Return
      BY <1>1, <2>6 DEF Return, CpuSet
    <2> QED
      BY <2>1, <2>2, <2>3, <2>4, <2>5, <2>6
  <1>6. /\ cpu.pc \in {"poll", "wait"} => cpu.left = 0 \/ cpu.how = "full"
        /\ cpu.pc \notin {"poll", "wait", "fill"} => cpu.left = 0
        /\ cpu.playing => fifo_mode(easc)
    BY DEF SoundInv, Room, Mode
  <1> QED
    BY <1>3, <1>4, <1>5, <1>6, Handled

\* A clock without an access.
LEMMA QuietStep ==
    ASSUME SoundInv, Clock(Quiet)
    PROVE  /\ Allowed(Quiet) /\ (fifo_mode(easc)' <=> fifo_mode(easc))
           /\ \A c \in Channels :
                 /\ easc'.cap[c] + Pending(c)' <= easc.cap[c] + Pending(c)
                 /\ easc'.cap[c] + Pending(c)' <= SIZE
                 /\ easc.cap[c] \in Nat /\ Pending(c) \in Nat
                 /\ easc'.cap[c] \in Nat /\ Pending(c)' \in Nat
  <1>1. Quiet.op = "none"
    BY DEF Quiet
  <1>2. Allowed(Quiet) /\ (fifo_mode(easc)' <=> fifo_mode(easc))
    BY <1>1, Harmless
  <1>3. Sound(Quiet)
    BY DEF Clock
  <1>4. ASSUME NEW c \in Channels
        PROVE  /\ easc'.cap[c] + Pending(c)' <= SIZE
               /\ ~(Quiet.op = "push" /\ Quiet.ch = c) =>
                     easc'.cap[c] + Pending(c)' <= easc.cap[c] + Pending(c)
               /\ easc.cap[c] \in Nat /\ Pending(c) \in Nat
               /\ easc'.cap[c] \in Nat /\ Pending(c)' \in Nat
    BY <1>2, <1>3, LevelStep
  <1> QED
    BY <1>1, <1>2, <1>4

\* Half a FIFO or one sample: Portion.
LEMMA Portions ==
    ASSUME cpu \in CpuSet
    PROVE  /\ Portion \in Nat /\ Portion > 0 /\ Portion <= HALF
           /\ cpu.how = "full" => Portion = 1
  BY Sizes DEF Portion, CpuSet

\* The guest waits, or the bus is not ready.
LEMMA IdleStep ==
    ASSUME SoundInv, Idle
    PROVE  SoundInv'
  <1>1. Clock(Quiet) /\ cpu' = cpu
    BY DEF Idle
  <1>2. cpu \in CpuSet
    BY DEF SoundInv, IrqTypes
  <1>3. cpu.playing \/ cpu.pc = "enable" => fifo_mode(easc)'
    BY <1>1, QuietStep DEF SoundInv, Mode
  <1>4. Portion' = Portion /\ Filling' = Filling
    BY <1>1 DEF Portion, Filling
  <1>5. ASSUME cpu.pc = "fill", NEW c \in cpu.chans
        PROVE  easc'.cap[c] + Pending(c)' + (IF c = Filling THEN cpu.left ELSE Portion) <= SIZE
    <2> DEFINE n == IF c = Filling THEN cpu.left ELSE Portion
    <2>1. c \in Channels /\ n \in Nat
      BY <1>2, Portions DEF CpuSet
    <2>2. easc.cap[c] + Pending(c) + n <= SIZE
      BY <1>5 DEF SoundInv, Room
    <2>3. /\ easc'.cap[c] + Pending(c)' <= easc.cap[c] + Pending(c)
          /\ easc.cap[c] \in Nat /\ Pending(c) \in Nat /\ easc'.cap[c] \in Nat /\ Pending(c)' \in Nat
      BY <1>1, <2>1, QuietStep
    <2> HIDE DEF n
    <2>4. easc'.cap[c] + Pending(c)' + n <= SIZE
      BY <2>1, <2>2, <2>3, Sizes
    <2> QED
      BY <2>4 DEF n
  <1>6. \A c \in Channels : easc'.cap[c] + Pending(c)' <= SIZE
    BY <1>1, QuietStep
  <1>7. Room'
    <2>1. /\ cpu.pc = "fill" => cpu.playing /\ cpu.chans # {} /\ cpu.left > 0
          /\ cpu.pc \in {"poll", "wait"} => cpu.left = 0 \/ cpu.how = "full"
          /\ cpu.pc \notin {"poll", "wait", "fill"} => cpu.left = 0
      BY DEF SoundInv, Room
    <2>2. cpu.pc = "fill" =>
            \A c \in cpu.chans :
               easc'.cap[c] + Pending(c)' + (IF c = Filling THEN cpu.left ELSE Portion) <= SIZE
      BY <1>5
    <2> QED
      BY <1>1, <1>4, <1>6, <2>1, <2>2 DEF Room
  <1> QED
    BY <1>1, <1>2, <1>3, <1>7, QuietStep, Reassembled

\* The guest has the status: a FIFO that it finds under half has room for a half, and one
\* that is not full for one sample, whatever is still on its way.
LEMMA CapturedStep ==
    ASSUME SoundInv, Captured
    PROVE  SoundInv'
  <1> DEFINE stat == fifo_stat(easc)
             want == (IF cpu.left = 0 THEN stat.half \cap Played ELSE Played) \ stat.full
  <1>1. Clock(Quiet) /\ bus.capture /\ cpu.pc = "wait"
    BY DEF Captured
  <1>2. \/ /\ cpu.playing /\ want # {}
           /\ cpu' = [cpu EXCEPT !.pc = "fill", !.chans = want, !.left = Portion]
        \/ /\ ~cpu.playing \/ want = {}
           /\ cpu' = [cpu EXCEPT !.pc = "ack", !.left = 0]
        \/ /\ cpu.playing
           /\ cpu' = [cpu EXCEPT !.pc = "ack", !.left = 0, !.playing = FALSE]
    BY DEF Captured
  <1>3. cpu \in CpuSet
    BY DEF SoundInv, IrqTypes
  <1>4. cpu.playing => fifo_mode(easc)'
    BY <1>1, QuietStep DEF SoundInv, Mode
  <1>5. CASE /\ cpu.playing /\ want # {}
             /\ cpu' = [cpu EXCEPT !.pc = "fill", !.chans = want, !.left = Portion]
    <2>1. want \subseteq Channels
      BY DEF Played, fifo_stat, Channels
    <2>2. ASSUME NEW c \in want
          PROVE  easc'.cap[c] + Pending(c)' + Portion <= SIZE
      <3>1. c \in Channels
        BY <2>1
      <3>2. Pending(c) = 0
        BY <1>1 DEF SoundInv, Drained, Pending
      <3>3. /\ easc'.cap[c] + Pending(c)' <= easc.cap[c] + Pending(c)
            /\ easc.cap[c] \in Nat /\ easc'.cap[c] \in Nat /\ Pending(c)' \in Nat
        BY <1>1, <3>1, QuietStep
      <3>4. easc.cap[c] + Portion <= SIZE
        <4>1. CASE cpu.left = 0
          <5>1. easc.cap[c] < HALF
            BY <2>2, <4>1 DEF fifo_stat
          <5> QED
            BY <1>3, <3>3, <5>1, Portions, Sizes
        <4>2. CASE cpu.left # 0
          <5>1. cpu.how = "full"
            BY <1>1, <4>2 DEF SoundInv, Room
          <5>2. c \notin stat.full
            BY <2>2
          <5>3. ~(easc.cap[c] >= SIZE - 1)
            BY <3>1, <5>2 DEF fifo_stat
          <5> QED
            BY <1>3, <3>3, <5>1, <5>3, Portions, Sizes
        <4> QED
          BY <4>1, <4>2
      <3>5. Portion \in Nat
        BY <1>3, Portions
      <3>6. ASSUME NEW x \in Nat, NEW y \in Nat, NEW z \in Nat, NEW p \in Nat, NEW o,
                   y + z <= x + o, o = 0, x + p <= SIZE
            PROVE  y + z + p <= SIZE
        BY <3>6, Sizes
      <3> QED
        BY <3>2, <3>3, <3>4, <3>5, <3>6
    <2> HIDE DEF want
    <2>3. Portion \in Nat /\ Portion > 0
      BY <1>3, Portions
    <2>4. /\ cpu' \in CpuSet /\ cpu'.pc = "fill" /\ cpu'.chans = want /\ cpu'.left = Portion
          /\ cpu'.playing /\ cpu'.how = cpu.how
      BY <1>3, <1>5, <2>1, <2>3 DEF CpuSet
    <2>5. Portion' = Portion
      BY <2>4 DEF Portion
    <2>6. \A c \in Channels : easc'.cap[c] + Pending(c)' <= SIZE
      BY <1>1, QuietStep
    <2>7. Room'
      <3>1. ASSUME NEW c \in cpu'.chans
            PROVE  easc'.cap[c] + Pending(c)' + (IF c = Filling' THEN cpu'.left ELSE Portion') <= SIZE
        BY <2>2, <2>4, <2>5
      <3> QED
        BY <1>5, <2>3, <2>4, <2>6, <3>1 DEF Room
    <2> QED
      BY <1>1, <1>4, <1>5, <2>4, <2>7, QuietStep, Reassembled
  <1>6. CASE cpu' = [cpu EXCEPT !.pc = "ack", !.left = 0]
    <2>1. cpu' \in CpuSet /\ cpu'.pc = "ack" /\ cpu'.left = 0 /\ cpu'.playing = cpu.playing
      BY <1>3, <1>6 DEF CpuSet
    <2> QED
      BY <1>1, <1>4, <2>1, QuietStep, Handled
  <1>7. CASE cpu' = [cpu EXCEPT !.pc = "ack", !.left = 0, !.playing = FALSE]
    <2>1. cpu' \in CpuSet /\ cpu'.pc = "ack" /\ cpu'.left = 0 /\ ~cpu'.playing
      BY <1>3, <1>7 DEF CpuSet
    <2> QED
      BY <1>1, <2>1, QuietStep, Handled
  <1> QED
    BY <1>2, <1>5, <1>6, <1>7

\* A longword of samples goes into the FIFO that the guest fills: Fill.
LEMMA FillStep ==
    ASSUME SoundInv, Fill
    PROVE  SoundInv'
  <1>ch. PICK c : c = CHOOSE d \in cpu.chans : d = "A" \/ "A" \notin cpu.chans
    OBVIOUS
  <1>nr. PICK n : n = IF cpu.left < LANES THEN cpu.left ELSE LANES
    OBVIOUS
  <1> DEFINE a == Samples(c, n)
  <1>1. cpu \in CpuSet /\ cpu.chans \subseteq Channels /\ cpu.left \in Nat /\ cpu.how \in {"half", "full"}
    BY DEF SoundInv, IrqTypes, CpuSet
  <1>2. cpu.pc = "fill" /\ bus.gap = 0 /\ Clock(a)
    BY <1>ch, <1>nr DEF Fill, Ready
  <1>3. cpu' = IF cpu.left > n THEN [cpu EXCEPT !.left = @ - n]
               ELSE IF cpu.chans # {c} THEN [cpu EXCEPT !.left = Portion, !.chans = @ \ {c}]
               ELSE [cpu EXCEPT !.left = IF cpu.how = "half" THEN 0 ELSE 1,
                                !.chans = {}, !.pc = "poll"]
    BY <1>ch, <1>nr DEF Fill
  <1>4. cpu.playing /\ cpu.chans # {} /\ cpu.left > 0
    BY <1>2 DEF SoundInv, Room
  <1>5. c = Filling /\ c \in cpu.chans
    <2>1. \E d \in cpu.chans : d = "A" \/ "A" \notin cpu.chans
      BY <1>4
    <2>2. c \in cpu.chans /\ (c = "A" \/ "A" \notin cpu.chans)
      BY <1>ch, <2>1
    <2> QED
      BY <1>1, <2>2 DEF Filling, Channels
  <1>6. n \in Nat /\ n <= cpu.left /\ n <= LANES /\ n > 0
    BY <1>1, <1>4, <1>nr, Sizes
  <1>7. ids.wr[c] \in 0..(2 * SIZE - 1) /\ c \in Channels
    BY <1>1, <1>5 DEF SoundInv, IrqTypes, IdsSet, Number
  <1>8. /\ a.op = "push" /\ a.ch = c
        /\ a.data = [j \in 1..n |-> (ids.wr[c] + j - 1) % (2 * SIZE)]
    BY DEF Samples, Quiet
  <1> HIDE DEF a
  <1>9. a.data \in Seq(Number) /\ Len(a.data) = n
    <2>1. \A j \in 1..n : (ids.wr[c] + j - 1) % (2 * SIZE) \in Number
      BY <1>6, <1>7, Sizes DEF Number
    <2> QED
      BY <1>6, <1>8, <2>1
  <1>10. \A k \in 1..n : a.data[k] = Ahead(2 * SIZE, ids.wr[c], k - 1)
    <2> SUFFICES ASSUME NEW k \in 1..n PROVE a.data[k] = Ahead(2 * SIZE, ids.wr[c], k - 1)
      OBVIOUS
    <2>1. a.data[k] = (ids.wr[c] + k - 1) % (2 * SIZE)
      BY <1>8
    <2>2. ids.wr[c] + k - 1 = ids.wr[c] + (k - 1)
      BY <1>6, <1>7
    <2> QED
      BY <2>1, <2>2 DEF Ahead
  <1>11. Portion \in Nat /\ Portion > 0
    BY <1>1, Portions
  <1>12. \A d \in Channels : easc.cap[d] \in Nat /\ Pending(d) \in Nat
    BY Sizes DEF SoundInv, IrqTypes, EascSet, Pending
  <1>13. \A d \in cpu.chans :
            easc.cap[d] + Pending(d) + (IF d = c THEN cpu.left ELSE Portion) <= SIZE
    BY <1>2, <1>5 DEF SoundInv, Room
  <1>14. easc.cap[c] + Pending(c) + cpu.left <= SIZE
    BY <1>5, <1>13
  <1>15. Allowed(a)
    <2>1. fifo_mode(easc)
      BY <1>4 DEF SoundInv, Mode
    <2>2. easc.cap[c] + Pending(c) + n <= SIZE
      BY <1>1, <1>6, <1>7, <1>12, <1>14, Sizes
    <2>3. n <= GAP
      BY <1>6, Sizes
    <2> QED
      BY <1>2, <1>7, <1>8, <1>9, <1>10, <2>1, <2>2, <2>3 DEF Allowed
  <1>16. fifo_mode(easc)'
    BY <1>2, <1>4, <1>8, <1>15, ClockStep DEF SoundInv, Mode
  <1>17. ASSUME NEW d \in Channels
         PROVE  /\ easc'.cap[d] + Pending(d)' <= SIZE
                /\ d = c => easc'.cap[d] + Pending(d)' <= easc.cap[d] + Pending(d) + n
                /\ d # c => easc'.cap[d] + Pending(d)' <= easc.cap[d] + Pending(d)
                /\ easc'.cap[d] \in Nat /\ Pending(d)' \in Nat
    <2>1. Sound(a)
      BY <1>2 DEF Clock
    <2> QED
      BY <1>8, <1>9, <1>15, <2>1, LevelStep
  <1>18. ASSUME NEW d \in cpu.chans, d # c
         PROVE  easc'.cap[d] + Pending(d)' + Portion <= SIZE
    <2>1. d \in Channels /\ easc.cap[d] + Pending(d) + Portion <= SIZE
      BY <1>1, <1>13, <1>18
    <2>2. /\ easc'.cap[d] + Pending(d)' <= easc.cap[d] + Pending(d)
          /\ easc'.cap[d] \in Nat /\ Pending(d)' \in Nat
          /\ easc.cap[d] \in Nat /\ Pending(d) \in Nat
      BY <1>12, <1>17, <1>18, <2>1
    <2> QED
      BY <1>11, <2>1, <2>2, Sizes
  <1>19. CASE cpu.left > n
    <2>1. cpu' = [cpu EXCEPT !.left = @ - n]
      BY <1>3, <1>19
    <2>2. cpu.left - n \in Nat /\ cpu.left - n > 0
      BY <1>1, <1>6, <1>19
    <2>3. /\ cpu' \in CpuSet /\ cpu'.pc = "fill" /\ cpu'.chans = cpu.chans /\ cpu'.left = cpu.left - n
          /\ cpu'.playing /\ cpu'.how = cpu.how
      BY <1>1, <1>2, <1>4, <2>1, <2>2 DEF CpuSet
    <2>4. Portion' = Portion /\ Filling' = c
      BY <1>5, <2>3 DEF Portion, Filling
    <2>5. easc'.cap[c] + Pending(c)' + (cpu.left - n) <= SIZE
      <3>1. ASSUME NEW x \in Nat, NEW y \in Nat, NEW x2 \in Nat, NEW y2 \in Nat, NEW l \in Nat,
                   x + y + l <= SIZE, x2 + y2 <= x + y + n, l > n
            PROVE  x2 + y2 + (l - n) <= SIZE
        BY <1>6, <3>1, Sizes
      <3> QED
        <4>1. /\ easc'.cap[c] + Pending(c)' <= easc.cap[c] + Pending(c) + n
              /\ easc'.cap[c] \in Nat /\ Pending(c)' \in Nat
              /\ easc.cap[c] \in Nat /\ Pending(c) \in Nat
          BY <1>7, <1>12, <1>17
        <4> QED
          BY <1>1, <1>14, <1>19, <3>1, <4>1
    <2>6. Room'
      <3>1. ASSUME NEW d \in cpu'.chans
            PROVE  easc'.cap[d] + Pending(d)' + (IF d = Filling' THEN cpu'.left ELSE Portion') <= SIZE
        <4>1. CASE d = c
          BY <2>3, <2>4, <2>5, <4>1
        <4>2. CASE d # c
          BY <1>18, <2>3, <2>4, <4>2
        <4> QED
          BY <4>1, <4>2
      <3> QED
        BY <1>4, <1>17, <2>2, <2>3, <3>1 DEF Room
    <2> QED
      BY <1>2, <1>15, <1>16, <2>3, <2>6, Reassembled
  <1>20. CASE ~(cpu.left > n) /\ cpu.chans # {c}
    <2>1. cpu' = [cpu EXCEPT !.left = Portion, !.chans = @ \ {c}]
      BY <1>3, <1>20
    <2>2. /\ cpu' \in CpuSet /\ cpu'.pc = "fill" /\ cpu'.chans = cpu.chans \ {c} /\ cpu'.left = Portion
          /\ cpu'.playing /\ cpu'.how = cpu.how
      BY <1>1, <1>2, <1>4, <1>11, <2>1 DEF CpuSet
    <2>3. Portion' = Portion /\ cpu'.chans # {}
      BY <1>5, <1>20, <2>2 DEF Portion
    <2>4. Room'
      <3>1. ASSUME NEW d \in cpu'.chans
            PROVE  easc'.cap[d] + Pending(d)' + (IF d = Filling' THEN cpu'.left ELSE Portion') <= SIZE
        BY <1>18, <2>2, <2>3
      <3> QED
        BY <1>11, <1>17, <2>2, <2>3, <3>1 DEF Room
    <2> QED
      BY <1>2, <1>15, <1>16, <2>2, <2>4, Reassembled
  <1>21. CASE ~(cpu.left > n) /\ cpu.chans = {c}
    <2>1. cpu' = [cpu EXCEPT !.left = IF cpu.how = "half" THEN 0 ELSE 1, !.chans = {}, !.pc = "poll"]
      BY <1>3, <1>21
    <2>2. /\ cpu' \in CpuSet /\ cpu'.pc = "poll" /\ cpu'.how = cpu.how
          /\ cpu'.left = 0 \/ cpu'.how = "full"
      BY <1>1, <2>1 DEF CpuSet
    <2> QED
      BY <1>2, <1>15, <1>16, <2>2, Handled
  <1> QED
    BY <1>19, <1>20, <1>21

\* The machine starts with empty FIFOs.
LEMMA SoundStart == Init => SoundInv
  <1> SUFFICES ASSUME Init PROVE SoundInv
    OBVIOUS
  <1>1. easc = EascInit /\ cpu = CpuInit /\ bus = [gap |-> 0, capture |-> FALSE]
        /\ ids = [wr |-> [c \in Channels |-> 0], rd |-> [c \in Channels |-> 0], new |-> {}, bad |-> {}]
        /\ pvia = [PviaInit EXCEPT !.via2_ier = {"scsi", "slot"}]
    BY DEF Init
  <1>2. /\ easc.mode = "hold" /\ easc.push = <<>> /\ easc.push_to = "A" /\ easc.sdiv = 0
        /\ easc.irq_r = FALSE
        /\ easc.wrptr = [c \in Channels |-> 0] /\ easc.rdptr = [c \in Channels |-> 0]
        /\ easc.cap = [c \in Channels |-> 0]
        /\ easc.mem = [c \in Channels |-> [j \in Cell |-> Silence]]
        /\ easc.q_b = [c \in Channels |-> Silence]
    BY <1>1 DEF EascInit, Cell
  <1>3. easc \in EascSet
    <2>1. 0 \in Cell /\ 0 \in 0..SIZE /\ 0 \in 0..(SAMPLE_DIV - 1) /\ Silence \in Sample
      BY Sizes DEF Cell, Sample
    <2>2. <<>> \in Seq(Number) /\ "A" \in Channels
      BY DEF Channels
    <2> QED
      BY <1>1, <2>1, <2>2 DEF EascInit, EascSet, Cell
  <1>4. ids \in IdsSet
    <2>1. 0 \in Number
      BY Sizes DEF Number
    <2> QED
      BY <1>1, <2>1 DEF IdsSet
  <1>5. cpu \in CpuSet /\ cpu.pc = "idle" /\ ~cpu.playing /\ cpu.left = 0
    BY <1>1 DEF CpuInit, CpuSet
  <1>6. pvia \in PviaSet /\ bus \in [gap : Nat, capture : BOOLEAN]
    BY <1>1 DEF PviaInit, PviaSet, Lines
  <1>7. IrqTypes
    BY <1>3, <1>4, <1>5, <1>6 DEF IrqTypes
  <1>8. Mode
    BY <1>2, <1>5 DEF Mode
  <1>9. Drained
    BY <1>1, <1>2 DEF Drained
  <1>10. \A c \in Channels : easc.cap[c] = 0 /\ Pending(c) = 0
    BY <1>2 DEF Pending
  <1>11. Room
    <2>1. \A c \in Channels : easc.cap[c] + Pending(c) <= SIZE
      BY <1>10, Sizes
    <2> QED
      BY <1>5, <2>1 DEF Room
  <1>12. Order
    <2>1. Ahead(SIZE, 0, 0) = 0 /\ Ahead(2 * SIZE, 0, 0) = 0
      BY Sizes, RingStay
    <2> QED
      BY <1>1, <1>2, <1>10, <2>1 DEF Order
  <1>13. Content
    <2>1. ASSUME NEW c \in Channels, NEW j \in Cell PROVE ~(j < easc.cap[c])
      BY <1>10, Sizes DEF Cell
    <2>2. 1..Len(easc.push) = {}
      BY <1>2
    <2> QED
      BY <2>1, <2>2 DEF Content
  <1>14. ReadPort /\ SoundExact
    BY <1>1, <1>2 DEF ReadPort, SoundExact
  <1> QED
    BY <1>7, <1>8, <1>9, <1>11, <1>12, <1>13, <1>14 DEF SoundInv

\* Nothing changes.
LEMMA SoundStutter == SoundInv /\ UNCHANGED vars => SoundInv'
  BY DEF vars, SoundInv, IrqTypes, Mode, Drained, Room, Order, Content, ReadPort, SoundExact,
         Pending, Filling, Portion, fifo_mode

\* Every step of the machine keeps the sound's invariant.
LEMMA SoundStep == SoundInv /\ [Next]_vars => SoundInv'
  BY StartStopStep, HandlerStep, IdleStep, CapturedStep, FillStep, SoundStutter DEF Next, CpuStep

\* The pointers, the levels, the cells and the lanes on their way agree at all times.
THEOREM SoundInvariant == Spec => []SoundInv
  BY SoundStart, SoundStep, PTL DEF Spec

\* Every sample is played once and in its order, for every FIFO size, sample rate and bus
\* speed, in mono and in stereo: the FIFOs of easc.sv.
THEOREM SoundPlayed == Spec => []SoundExact
  <1>1. SoundInv => SoundExact
    BY DEF SoundInv
  <1> QED
    BY <1>1, SoundInvariant, PTL

-----------------------------------------------------------------------------
(* Edges of the interrupt lines *)

\* The lines that the pseudo-VIA watches.
Watched == {"asc", "slot", "scsi"}

\* A clock without a write of the flags latches a line that rises and keeps the flag of one
\* that stays up: EdgeLatch.
LEMMA Latched ==
    ASSUME NEW a, Pvia(a), a.op # "ifr_wr", NEW s \in lines, s \notin pvia.d \/ s \in pvia.via2_ifr
    PROVE  s \in pvia'.via2_ifr
  BY DEF Pvia, PviaCycle, via2_ifr_next, EdgeLatch, rises, falls

\* The guest that has acknowledged a line and is not served yet stays where it is, or serves
\* the line, which then falls: Serve and Poll.
LEMMA Served ==
    ASSUME IrqTypes, Next, NEW s \in Watched, s \in lines, s \in lines',
           cpu.pc = s \/ (s = "asc" /\ cpu.pc = "poll")
    PROVE  cpu' = cpu
  <1>1. Serve => FALSE
    <2> SUFFICES ASSUME Serve PROVE FALSE
      OBVIOUS
    <2>1. Clock(Plain(cpu.pc)) /\ cpu.pc \in {"slot", "scsi"} /\ cpu.pc = s
      BY DEF Serve, Watched
    <2>2. Plain(s).op = s
      BY DEF Plain, Quiet
    <2>3. CASE s = "slot"
      <3>1. vbl' = FALSE
        BY <2>1, <2>2, <2>3 DEF Clock, Video
      <3> QED
        BY <2>3, <3>1 DEF lines
    <2>4. CASE s = "scsi"
      <3>1. PICK up \in SUBSET ((External \ {"vbl"}) \ ext) : ext' = (ext \ {"scsi"}) \cup up
        BY <2>1, <2>2, <2>4 DEF Clock, Outside
      <3>2. "scsi" \in ext
        BY <2>4 DEF lines
      <3>3. "scsi" \notin ext'
        BY <3>1, <3>2
      <3> QED
        BY <2>4, <3>3 DEF lines
    <2> QED
      BY <2>1, <2>3, <2>4
  <1>2. Poll => FALSE
    <2> SUFFICES ASSUME Poll PROVE FALSE
      OBVIOUS
    <2>1. Clock(Plain("status")) /\ s = "asc"
      BY DEF Poll, Watched
    <2>2. Plain("status").op = "status" /\ Sound(Plain("status"))
      BY <2>1 DEF Plain, Quiet, Clock
    <2>3. easc'.irq_r = irq_next(easc, Plain("status"))
      BY <2>2, SoundFields
    <2>4. ~easc'.irq_r
      BY <2>2, <2>3 DEF irq_next
    <2> QED
      BY <2>1, <2>4 DEF lines
  <1>3. cpu.pc \notin {"idle", "enable", "ack", "wait", "fill"}
    BY DEF Watched
  <1>4. Idle
    BY <1>1, <1>2, <1>3 DEF Next, CpuStep, Prepare, Start, Stop, TakeVia1, TakeVia2, Ack, Captured,
                            Fill, Return
  <1> QED
    BY <1>4 DEF Idle

\* A step of the machine keeps what is owed to a line, if no edge falls into a flag write.
LEMMA EdgeStep ==
    ASSUME Coincide = FALSE, IrqTypes, EdgeKept, Next
    PROVE  EdgeKept'
  <1> SUFFICES ASSUME NEW s, s \in lines', s \in pvia'.d PROVE Owed(s)'
    BY DEF EdgeKept
  <1>1. lines \subseteq Watched /\ lines' \subseteq Watched
    BY DEF lines, Watched
  <1>2. ASSUME Ack PROVE Owed(s)'
    <2>1. PICK f \in cpu.flags : /\ Clock(Flags("ifr_wr", {f}))
                                 /\ cpu' = [cpu EXCEPT !.flags = @ \ {f}, !.pc = f]
      BY <1>2 DEF Ack
    <2> DEFINE a == Flags("ifr_wr", {f})
    <2>2. a.op = "ifr_wr" /\ a.bits = {f} /\ cpu.pc = "ack"
      BY <1>2 DEF Flags, Quiet, Ack
    <2>3. Pvia(a)
      BY <2>1 DEF Clock
    <2> HIDE DEF a
    <2>4. lines = pvia.d /\ pvia' = PviaCycle(pvia, lines, a)
      BY <2>2, <2>3 DEF Pvia
    <2>5. pvia'.d = lines /\ pvia'.via2_ifr = pvia.via2_ifr \ {f}
      BY <2>2, <2>4 DEF PviaCycle, via2_ifr_next
    <2>6. s \in Watched /\ Owed(s)
      BY <1>1, <2>4, <2>5 DEF EdgeKept
    <2>7. s \in pvia.via2_ifr
      BY <2>2, <2>6 DEF Owed, Watched
    <2>8. cpu'.pc = f
      BY <2>1 DEF IrqTypes, CpuSet
    <2> QED
      BY <2>5, <2>7, <2>8 DEF Owed
  <1>3. ASSUME ~Ack PROVE Owed(s)'
    <2>1. \E a : a.op # "ifr_wr" /\ Pvia(a)
      <3>1. CASE Prepare
        <4>1. /\ Plain("clear").op = "clear" /\ [Plain("mode") EXCEPT !.val = "fifo"].op = "mode"
          BY DEF Plain, Quiet
        <4> QED
          BY <3>1, <4>1 DEF Prepare, Clock
      <3>2. CASE Start
        <4>1. Flags("ier_set", {"asc"}).op = "ier_set"
          BY DEF Flags, Quiet
        <4> QED
          BY <3>2, <4>1 DEF Start, Clock
      <3>3. CASE Stop
        <4>1. /\ Flags("ier_clr", {"asc"}).op = "ier_clr"
              /\ [Plain("mode") EXCEPT !.val = "hold"].op = "mode"
          BY DEF Flags, Plain, Quiet
        <4>2. PICK a \in {Flags("ier_clr", {"asc"}), [Plain("mode") EXCEPT !.val = "hold"]} : Clock(a)
          BY <3>3 DEF Stop
        <4> QED
          BY <4>1, <4>2 DEF Clock
      <3>4. CASE TakeVia1 \/ TakeVia2 \/ Serve \/ Poll
        <4>1. \A o : Plain(o).op = o
          BY DEF Plain, Quiet
        <4>2. \E o \in {"via1", "ifr_rd", "slot", "scsi", "status"} : Pvia(Plain(o))
          BY <3>4 DEF TakeVia1, TakeVia2, Serve, Poll, Clock
        <4> QED
          BY <4>1, <4>2
      <3>5. CASE Captured \/ Return \/ Idle
        <4>1. Quiet.op = "none"
          BY DEF Quiet
        <4> QED
          BY <3>5, <4>1 DEF Captured, Return, Idle, Clock
      <3>6. CASE Fill
        <4>1. \A c, n : Samples(c, n).op = "push"
          BY DEF Samples, Quiet
        <4> QED
          BY <3>6, <4>1 DEF Fill, Clock
      <3> QED
        BY <1>3, <3>1, <3>2, <3>3, <3>4, <3>5, <3>6 DEF Next, CpuStep
    <2>2. PICK a : a.op # "ifr_wr" /\ Pvia(a)
      BY <2>1
    <2>3. s \in lines
      BY <2>2 DEF Pvia, PviaCycle
    <2>4. CASE s \notin pvia.d \/ s \in pvia.via2_ifr
      BY <2>2, <2>3, <2>4, Latched DEF Owed
    <2>5. CASE s \in pvia.d /\ s \notin pvia.via2_ifr
      <3>1. cpu.pc = s \/ (s = "asc" /\ cpu.pc = "poll")
        BY <2>3, <2>5 DEF EdgeKept, Owed
      <3>2. cpu' = cpu
        BY <1>1, <2>3, <3>1, Served
      <3> QED
        BY <3>1, <3>2 DEF Owed
    <2> QED
      BY <2>4, <2>5
  <1> QED
    BY <1>2, <1>3

\* As long as no write of the flags falls into the clock of an edge, no interrupt is lost:
\* a line that is up has its flag, or the guest is on its way to serve it, whatever rises
\* together and whatever order the guest serves them in (iosb.sv, via2_ifr).
THEOREM EdgesKept ==
    ASSUME Coincide = FALSE
    PROVE  Spec => []EdgeKept
  <1>1. Init => EdgeKept
    BY DEF Init, PviaInit, EdgeKept
  <1>2. EdgeKept /\ SoundInv /\ [Next]_vars => EdgeKept'
    <2>1. EdgeKept /\ UNCHANGED vars => EdgeKept'
      BY DEF vars, EdgeKept, Owed, lines
    <2>2. EdgeKept /\ SoundInv /\ Next => EdgeKept'
      BY EdgeStep DEF SoundInv
    <2> QED
      BY <2>1, <2>2
  <1> QED
    BY <1>1, <1>2, SoundInvariant, PTL DEF Spec


=============================================================================
