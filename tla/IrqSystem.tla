----------------------------- MODULE IrqSystem ------------------------------
(***************************************************************************)
(* The interrupt side of the machine: the sound chip (Easc), the vertical   *)
(* blank of dafb.sv, the SCSI chip's line, the pseudo-VIA that latches them *)
(* and a guest (external: CPU and its software) that plays a sound and      *)
(* serves interrupts, all on the same clock.  A step is one clock: the      *)
(* chips do what their code says, the guest and the outside world choose.   *)
(*                                                                          *)
(* The guest's handler acknowledges a flag before it serves the device, and *)
(* refills a FIFO by halves, or sample by sample until it reads full, when  *)
(* the status says it is under half.                                        *)
(***************************************************************************)
EXTENDS Easc, PseudoVia, FiniteSets

CONSTANTS
    GAP,       \* clocks from one access of the IOSB to the next, at least (4)
    External,  \* the lines that rise from outside: "scsi", "vbl", "via1"
    Coincide   \* a flag write may fall into the clock of an edge

ASSUME GuestAssumption ==
    /\ GAP \in Nat /\ GAP >= LANES
    /\ External \subseteq {"scsi", "vbl", "via1"} /\ Coincide \in BOOLEAN

VARIABLES
    easc,   \* the sound chip
    pvia,   \* the pseudo-VIA
    vbl,    \* DAFB int_status, its interrupt enabled
    ext,    \* the external level lines that are up
    bus,    \* clocks until the next access, and the sound chip's read cycle
    cpu,    \* the guest
    ids     \* per FIFO: number of the next sample to write, of the next to play

vars == <<easc, pvia, vbl, ext, bus, cpu, ids>>

Played == IF Stereo THEN Channels ELSE {"A"}

lines ==
    (IF easc.irq_r THEN {"asc"} ELSE {}) \cup (IF vbl THEN {"slot"} ELSE {})
        \cup (ext \cap {"scsi"})

Level == ipl(FALSE, via2_active(pvia), "via1" \in ext)

-----------------------------------------------------------------------------
(* The guest's state and its accesses *)

CpuInit == [pc |-> "idle", playing |-> FALSE, flags |-> {}, chans |-> {}, left |-> 0, how |-> "half"]

Ready == bus.gap = 0 /\ ~bus.capture

\* Half a FIFO in longwords, or one sample and another look at the full flags.
Portion == IF cpu.how = "half" THEN HALF ELSE 1

Quiet == [op |-> "none", bits |-> {}, ch |-> "A", data |-> <<>>, val |-> ""]

Flags(op, bits) == [Quiet EXCEPT !.op = op, !.bits = bits]

Plain(op) == [Quiet EXCEPT !.op = op]

Samples(c, n) ==
    [Quiet EXCEPT !.op = "push", !.ch = c,
                  !.data = [j \in 1..n |-> (ids.wr[c] + j - 1) % (2 * SIZE)]]

-----------------------------------------------------------------------------
(* The clocked logic *)

Pvia(a) ==
    /\ (a.op = "ifr_wr" /\ ~Coincide) => lines = pvia.d
    /\ pvia' = PviaCycle(pvia, lines, a)

\* A cell outside the FIFO holds no sample of this sound: which old one is all the same.
Forget(e) ==
    [e EXCEPT !.mem = [c \in Channels |-> [j \in 0..(SIZE - 1) |->
        IF (j - e.rdptr[c]) % SIZE < e.cap[c] THEN e.mem[c][j] ELSE Silence]]]

Sound(a) ==
    /\ \E e \in {EascCycle(easc, a, race) : race \in BOOLEAN} : easc' = Forget(e)
    /\ LET next(n) == (n + 1) % (2 * SIZE)
           clr == fifo_clear(easc, a)
           off(c) == c \in out_l(easc) \cup out_r(easc) /\ easc.q_b[c] # ids.rd[c]
       IN  ids' = [wr |-> [c \in Channels |->
                            IF clr THEN 0
                            ELSE IF a.op = "push" /\ a.ch = c
                            THEN (ids.wr[c] + Len(a.data)) % (2 * SIZE) ELSE ids.wr[c]],
                   rd |-> [c \in Channels |->
                            IF clr THEN 0 ELSE IF pop(easc, c) THEN next(ids.rd[c]) ELSE ids.rd[c]],
                   new |-> {c \in Channels : crowds(easc, c)},
                   bad |-> {c \in Channels : off(c) /\ c \notin ids.new}]

\* The blank sets the status, the clear of the same clock comes later and wins.
Video(a) ==
    \E start \in {FALSE, "vbl" \in External} :
        vbl' = (a.op # "slot" /\ (vbl \/ start))

Outside(a) ==
    \E up \in SUBSET ((External \ {"vbl"}) \ ext) :
        ext' = (ext \ {a.op}) \cup up

Bus(a) ==
    bus' = [gap |-> IF a.op = "none" THEN (IF bus.gap > 0 THEN bus.gap - 1 ELSE 0)
                    ELSE IF a.op = "status" THEN GAP ELSE GAP - 1,
            capture |-> a.op = "status"]

Clock(a) == Pvia(a) /\ Sound(a) /\ Video(a) /\ Outside(a) /\ Bus(a)

-----------------------------------------------------------------------------
(* The guest: each of its steps is a clock with an access on the bus, or with none *)

\* Start: select FIFO mode, or clear the FIFOs when it is selected; then enable the
\* interrupt and fill.
Prepare ==
    /\ Ready /\ cpu.pc = "idle" /\ ~cpu.playing /\ Level = 0
    /\ Clock(IF fifo_mode(easc) THEN Plain("clear") ELSE [Plain("mode") EXCEPT !.val = "fifo"])
    /\ cpu' = [cpu EXCEPT !.pc = "enable"]

Start ==
    /\ Ready /\ cpu.pc = "enable"
    /\ Clock(Flags("ier_set", {"asc"}))
    /\ \E how \in {"half", "full"} :
          cpu' = [cpu EXCEPT !.pc = "asc", !.playing = TRUE, !.how = how]

\* Stop in the middle of a sound: the interrupt is disabled or the mode is left.
Stop ==
    /\ Ready /\ cpu.pc = "idle" /\ cpu.playing /\ Level = 0
    /\ \E a \in {Flags("ier_clr", {"asc"}), [Plain("mode") EXCEPT !.val = "hold"]} : Clock(a)
    /\ cpu' = [cpu EXCEPT !.playing = FALSE]

TakeVia1 ==
    /\ Ready /\ cpu.pc = "idle" /\ Level = 1
    /\ Clock(Plain("via1"))
    /\ UNCHANGED cpu

TakeVia2 ==
    /\ Ready /\ cpu.pc = "idle" /\ Level = 2
    /\ Clock(Plain("ifr_rd"))
    /\ cpu' = [cpu EXCEPT !.pc = "ack", !.flags = via2_ifr_r(pvia, lines) \cap pvia.via2_ier]

Ack ==
    /\ Ready /\ cpu.pc = "ack"
    /\ \E s \in cpu.flags :
          /\ Clock(Flags("ifr_wr", {s}))
          /\ cpu' = [cpu EXCEPT !.flags = @ \ {s}, !.pc = s]

Serve ==
    /\ Ready /\ cpu.pc \in {"slot", "scsi"}
    /\ Clock(Plain(cpu.pc))
    /\ cpu' = [cpu EXCEPT !.pc = "ack"]

Poll ==
    /\ Ready /\ cpu.pc \in {"asc", "poll"}
    /\ Clock(Plain("status"))
    /\ cpu' = [cpu EXCEPT !.pc = "wait"]

\* A_ASC: the status of this clock, one after the strobe, is what the guest gets.  The
\* sound may be at its end: the chip stays in FIFO mode with its interrupt enabled.
Captured ==
    /\ bus.capture /\ cpu.pc = "wait"
    /\ Clock(Quiet)
    /\ LET stat == fifo_stat(easc)
           want == (IF cpu.left = 0 THEN stat.half \cap Played ELSE Played) \ stat.full
       IN  \/ /\ cpu.playing /\ want # {}
              /\ cpu' = [cpu EXCEPT !.pc = "fill", !.chans = want, !.left = Portion]
           \/ /\ ~cpu.playing \/ want = {}
              /\ cpu' = [cpu EXCEPT !.pc = "ack", !.left = 0]
           \/ /\ cpu.playing
              /\ cpu' = [cpu EXCEPT !.pc = "ack", !.left = 0, !.playing = FALSE]

Fill ==
    /\ Ready /\ cpu.pc = "fill"
    /\ LET c == CHOOSE c \in cpu.chans : c = "A" \/ "A" \notin cpu.chans
           n == IF cpu.left < LANES THEN cpu.left ELSE LANES
       IN  /\ Clock(Samples(c, n))
           /\ cpu' = IF cpu.left > n THEN [cpu EXCEPT !.left = @ - n]
                     ELSE IF cpu.chans # {c} THEN [cpu EXCEPT !.left = Portion, !.chans = @ \ {c}]
                     ELSE [cpu EXCEPT !.left = IF cpu.how = "half" THEN 0 ELSE 1,
                                      !.chans = {}, !.pc = "poll"]

Return ==
    /\ cpu.pc = "ack" /\ cpu.flags = {}
    /\ Clock(Quiet)
    /\ cpu' = [cpu EXCEPT !.pc = "idle"]

\* The read cycle of the sound chip is not the guest's to delay, and its refill loop
\* runs at the bus's speed: accesses are GAP clocks apart, ticks SAMPLE_DIV.
Idle ==
    /\ ~bus.capture /\ (Ready => cpu.pc \notin {"poll", "fill"})
    /\ Clock(Quiet)
    /\ UNCHANGED cpu

CpuStep ==
    Start \/ TakeVia1 \/ TakeVia2 \/ Ack \/ Serve \/ Poll \/ Captured \/ Fill \/ Return

Init ==
    /\ easc = EascInit
    /\ pvia = [PviaInit EXCEPT !.via2_ier = {"scsi", "slot"}]
    /\ vbl = FALSE /\ ext = {}
    /\ bus = [gap |-> 0, capture |-> FALSE]
    /\ cpu = CpuInit
    /\ ids = [wr |-> [c \in Channels |-> 0], rd |-> [c \in Channels |-> 0], new |-> {}, bad |-> {}]

Next == CpuStep \/ Prepare \/ Stop \/ Idle

Spec == Init /\ [][Next]_vars

\* The clock runs and the guest goes on; nothing makes it start or stop a sound.
FairSpec == Spec /\ WF_vars(Idle) /\ WF_vars(CpuStep)

-----------------------------------------------------------------------------
(* Properties *)

\* Every sample the guest writes is played, once and in its order, whatever falls
\* together: the lanes of one write still draining at the next, pushes and pops in
\* one clock, a status read.  Only when a push went into the longword of the read
\* pointer in the clock before the tick may the read port, a clock behind, miss it
\* (easc.sv:154-157, 345-362, 390-401).
SoundExact == ids.bad = {}

\* An interrupt line that rose and was not served has its flag set, or the guest has
\* acknowledged the flag and is on its way: "interrupt line edges latch into the
\* pseudo-VIA IFR" (iosb.sv:1029).
Owed(s) ==
    s \in pvia.via2_ifr \/ cpu.pc = s \/ (s = "asc" /\ cpu.pc = "poll")

EdgeKept == \A s \in (lines \cap pvia.d) : Owed(s)

\* A sound goes on: an empty FIFO is refilled as long as the guest wants to play.
SoundGoesOn == \A c \in Played :
    (cpu.playing /\ easc.cap[c] = 0) ~> (easc.cap[c] > 0 \/ ~cpu.playing)

\* A vertical blank is served, however many of them are lost to the clear of the one
\* before (dafb.sv:118-121, 171).
VblServed == vbl ~> ~vbl

\* "an interrupt storm ... hangs the machine" (easc.sv:409-413): when the video is
\* quiet and the guest has nothing to play, a sound chip left in FIFO mode does not
\* keep the lower level of VIA1 from its turn.
NoStorm ==
    <>[](~vbl /\ "scsi" \notin ext /\ ~cpu.playing) => ("via1" \in ext ~> "via1" \notin ext)

=============================================================================
