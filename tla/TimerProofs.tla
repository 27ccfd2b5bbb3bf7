----------------------------- MODULE TimerProofs -----------------------------
(***************************************************************************)
(* Sleep and the tick counter, and the way an interrupt takes to its       *)
(* handler, for any delays, any frequencies, any width of the counter and  *)
(* any number of keys.                                                     *)
(***************************************************************************)
EXTENDS Timer, StackLemmas

----------------------------------------------------------------------------
(***************************************************************************)
(* Why they hold.  ChipsInv and BootInv: where idt_init and                *)
(* kernel_main are, and what that says of the 8259s, of the requests they  *)
(* still hold and of the PIT.                                              *)
(***************************************************************************)
ChipsInv ==
    /\ pics.master.due = IF step \in {2, 3} THEN 2
                         ELSE IF step \in {4, 5} THEN 3
                         ELSE IF step \in {6, 7} THEN 4 ELSE 0
    /\ pics.slave.due = IF step \in {3, 4} THEN 2
                        ELSE IF step \in {5, 6} THEN 3
                        ELSE IF step \in {7, 8} THEN 4 ELSE 0
    /\ pics.master.base = IF step <= 3 THEN 8 ELSE 32
    /\ pics.slave.base = IF step <= 4 THEN 112 ELSE 40
    /\ pics.master.imr = IF step <= 9 THEN {} ELSE 2 .. 7
    /\ pics.slave.imr = IF step <= 10 THEN {} ELSE 0 .. 7

BootInv ==
    /\ boot # "stopped"
    /\ boot = "idt" <=> step <= LastStep
    /\ boot \in {"idt", "timer"} => target_freq = 100 /\ reload = MaxReload
    /\ boot \in {"task", "idle"} => reload = Send(PIT_BASE_FREQUENCY \div target_freq)
    /\ boot # "idle" => running = "main" /\ sleeps["background"] = <<>>
    /\ boot = "idt" => sleeps["main"] = <<>>
    /\ boot # "idt" /\ Pending(pics) # {} => boot = "timer" /\ sleeps["main"] = <<>>

(***************************************************************************)
(* A call of sleep: only the last one on the stack that runs is in hlt,    *)
(* and only if that stack ran in this tick; a call that nothing            *)
(* interrupted is the last one on its stack; the ticks it counts really    *)
(* passed.                                                                 *)
(***************************************************************************)
CallInv(s, i) ==
    LET call == sleeps[s][i]
    IN  /\ call.ticks_to_wait = ToTicks(call.ms)
        /\ call.pc = "halted" => s = running /\ ran /\ i = Len(sleeps[s])
        /\ call.alone => i = Len(sleeps[s])
        /\ call.set => boot \in {"task", "idle"}
        /\ TooLong(call) \/ call.counted >= Since(call) * reload

CallsInv == \A s \in Stacks : \A i \in DOMAIN sleeps[s] : CallInv(s, i)

(***************************************************************************)
(* Of the three ticks that a call may be late, those it still needs: one   *)
(* until its stack runs, or two if that has had its step in this tick, and *)
(* two more if it is on the way into hlt.                                  *)
(***************************************************************************)
Needs(s, call) ==
    (IF call.pc = "hlt" THEN 2 ELSE 0)
    + (IF running # s THEN 1 ELSE IF ran THEN 2 ELSE 0)

OnTime(s, i) ==
    LET call == sleeps[s][i]
    IN  call.alone /\ call.set =>
            /\ call.counted = Since(call) * reload
            /\ Since(call) + Needs(s, call) <= call.ticks_to_wait + 3

OnTimeInv == \A s \in Stacks : \A i \in DOMAIN sleeps[s] : OnTime(s, i)

TimerInv == TypeOK /\ ChipsInv /\ BootInv /\ CallsInv

----------------------------------------------------------------------------
(***************************************************************************)
(* What the time a sleep takes depends on: the frequency divides the       *)
(* milliseconds of a second and its divisor fits the two bytes, no sleep   *)
(* is so long that the cycles cut from the divisor add up to a             *)
(* millisecond, and the counter does not wrap within three ticks of its    *)
(* end.  At 100 Hz, which is what kernel.c asks for, this holds up to 12   *)
(* seconds.                                                                *)
(***************************************************************************)
RatesFit ==
    /\ \A frequency \in Frequencies \cup {100} :
          /\ 1000 % frequency = 0 /\ frequency >= 19
          /\ \A ms \in Delays \cup {Pause} :
                /\ (frequency - 1) * (ms + 1) < PIT_BASE_FREQUENCY
                /\ ms \div (1000 \div frequency) + 3 < Modulus
    /\ 4 < Modulus

\* Numbers that are out of range by at most one modulus wrap once.
LEMMA SmallMod ==
    ASSUME NEW x \in Int
    PROVE  /\ x \in 0 .. Modulus - 1 => x % Modulus = x
           /\ x \in Modulus .. 2 * Modulus - 1 => x % Modulus = x - Modulus
           /\ x < 0 /\ x + Modulus >= 0 => x % Modulus = x + Modulus
  BY ModulusAssumption

\* The next value of the counter, and how far it is from an earlier one.
LEMMA CounterSteps ==
    ASSUME NEW t \in 0 .. Modulus - 1, NEW b \in 0 .. Modulus - 1
    PROVE  /\ (t + 1) % Modulus \in 0 .. Modulus - 1
           /\ (t - b) % Modulus \in 0 .. Modulus - 1
           /\ t = b => (t - b) % Modulus = 0
           /\ (((t + 1) % Modulus) - b) % Modulus
                 = IF (t - b) % Modulus = Modulus - 1 THEN 0 ELSE ((t - b) % Modulus) + 1
  BY SmallMod, ModulusAssumption, TicksAssumption

\* The two bytes hold every divisor below 2^16.
LEMMA SendIs ==
    ASSUME NEW d \in Nat
    PROVE  /\ Send(d) \in 1 .. MaxReload
           /\ d > 0 /\ d < MaxReload => Send(d) = d
<1>1. PICK low \in Nat : low = d % 256 /\ low < 256
  OBVIOUS
<1>2. PICK high \in Nat : high = (d \div 256) % 256 /\ high < 256
  OBVIOUS
<1>3. ASSUME d > 0, d < MaxReload
      PROVE  low + 256 * high = d
  <2>1. d \div 256 \in Nat /\ d \div 256 < 256
    BY <1>3 DEF MaxReload
  <2>2. high = d \div 256
    BY <1>2, <2>1
  <2>3. d = 256 * (d \div 256) + (d % 256)
    OBVIOUS
  <2> QED
    BY <1>1, <2>2, <2>3
<1>4. MaxReload \in Nat /\ low + 256 * high < MaxReload
  BY <1>1, <1>2 DEF MaxReload
<1>5. Send(d) = IF low + 256 * high = 0 THEN MaxReload ELSE low + 256 * high
  BY <1>1, <1>2 DEF Send, Count
<1> QED
  BY <1>3, <1>4, <1>5

\* A tick has cycles and milliseconds, a second no more cycles than it has.
PeriodFits(f) ==
    /\ PIT_BASE_FREQUENCY \div f \in Nat \ {0}
    /\ f * (PIT_BASE_FREQUENCY \div f) <= PIT_BASE_FREQUENCY
    /\ f * (PIT_BASE_FREQUENCY \div f) > PIT_BASE_FREQUENCY - f
    /\ f >= 19 => PIT_BASE_FREQUENCY \div f < MaxReload
    /\ 1000 \div f \in Nat \ {0}

\* The frequencies that timer_init is given, and the one before it.
IsRate(f) == f \in Nat /\ 1 <= f /\ f <= 1000

\* All of them are.
LEMMA RatesAre == \A f \in Frequencies \cup {100} : IsRate(f)
<1>1. \A f \in Frequencies : IsRate(f)
  BY FrequenciesAssumption DEF IsRate
<1>2. IsRate(100)
  BY DEF IsRate
<1> QED
  BY <1>1, <1>2

\* So it is at every frequency of 1 to 1000 Hz.
LEMMA PeriodIs ==
    ASSUME NEW f, IsRate(f)
    PROVE  PeriodFits(f)
<1> USE DEF IsRate
<1>1. 1000 \div f \in Nat \ {0}
  OBVIOUS
<1>2. f >= 19 => PIT_BASE_FREQUENCY \div f < MaxReload
  BY DEF PIT_BASE_FREQUENCY, MaxReload
<1>3. /\ PIT_BASE_FREQUENCY \div f \in Nat \ {0}
      /\ f * (PIT_BASE_FREQUENCY \div f) <= PIT_BASE_FREQUENCY
      /\ f * (PIT_BASE_FREQUENCY \div f) > PIT_BASE_FREQUENCY - f
  BY DEF PIT_BASE_FREQUENCY
<1> QED
  BY <1>1, <1>2, <1>3 DEF PeriodFits

\* What the PIT counts from at most is a number; which one, the steps below need not know.
LEMMA MaxReloadNat == MaxReload \in Nat
  BY DEF MaxReload

\* What the PIT counts down from is a number of cycles.
LEMMA ReloadNat ==
    ASSUME NEW r \in 1 .. MaxReload
    PROVE  r \in Nat /\ 0 * r = 0
<1>1. r \in Nat
  BY MaxReloadNat
<1> QED
  BY <1>1

\* The masks of pic_remap close every line but the first two of the master.
LEMMA Weights ==
    /\ Bits(252) = 2 .. 7
    /\ Bits(255) = 0 .. 7
  BY DEF Bits

\* What pic_remap sends to which 8259 at which step of idt_init.
LEMMA Bytes ==
    /\ DOMAIN pic_remap = 1 .. 10
    /\ Len(pic_remap) = 10
    /\ pic_remap[1] = <<"master", "command", 17>>
    /\ pic_remap[2] = <<"slave", "command", 17>>
    /\ pic_remap[3] = <<"master", "data", 32>>
    /\ pic_remap[4] = <<"slave", "data", 40>>
    /\ pic_remap[5] = <<"master", "data", 4>>
    /\ pic_remap[6] = <<"slave", "data", 2>>
    /\ pic_remap[7] = <<"master", "data", 1>>
    /\ pic_remap[8] = <<"slave", "data", 1>>
    /\ pic_remap[9] = <<"master", "data", 252>>
    /\ pic_remap[10] = <<"slave", "data", 255>>
  BY DEF pic_remap, pic_remap_NoMask

----------------------------------------------------------------------------
(* The 8259s                                                               *)

\* The 8259s as the BIOS leaves them: their bases, and no line masked.
LEMMA BiosChips ==
    /\ BiosPics \in [{"master", "slave"} -> PicType]
    /\ BiosPics.master.due = 0 /\ BiosPics.slave.due = 0
    /\ BiosPics.master.base = 8 /\ BiosPics.slave.base = 112
    /\ BiosPics.master.imr = {} /\ BiosPics.slave.imr = {}
  BY DEF BiosPics, PicType

\* A chip as ChipsInv describes it.
ChipIs(pic, due, base, imr) ==
    pic \in PicType /\ pic.due = due /\ pic.base = base /\ pic.imr = imr

\* What the bytes that idt_init sends do to a chip.
LEMMA ToldIs ==
    ASSUME NEW pic \in PicType, NEW port \in {"command", "data"},
           NEW byte \in {17, 32, 40, 4, 2, 1, 252, 255},
           NEW q, q = Told(pic, port, byte)
    PROVE  /\ port = "command" => ChipIs(q, 2, pic.base, {})
           /\ port = "data" /\ pic.due = 2 /\ byte \in {32, 40}
                 => ChipIs(q, 3, byte, pic.imr)
           /\ port = "data" /\ pic.due = 3 => ChipIs(q, 4, pic.base, pic.imr)
           /\ port = "data" /\ pic.due = 4 => ChipIs(q, 0, pic.base, pic.imr)
           /\ port = "data" /\ pic.due = 0 => ChipIs(q, 0, pic.base, Bits(byte))
<1>1. ASSUME port = "command"
      PROVE  ChipIs(q, 2, pic.base, {})
  <2>1. PICK none \in SUBSET (0 .. 7) : none = {}
    OBVIOUS
  <2>2. ChipIs(q, 2, pic.base, none)
    BY <1>1, <2>1 DEF Told, ChipIs, PicType
  <2> QED
    BY <2>1, <2>2
<1>2. ASSUME port = "data", pic.due = 2, byte \in {32, 40}
      PROVE  ChipIs(q, 3, byte, pic.imr)
  <2>1. byte - (byte % 8) = byte /\ byte \in {8, 112, 32, 40}
    BY <1>2
  <2> QED
    <3>1. q = [pic EXCEPT !.due = 3, !.base = byte]
      BY <1>2, <2>1 DEF Told
    <3>2. byte \in {8, 112, 32, 40}
      BY <2>1
    <3>3. q.due = 3 /\ q.base = byte /\ q.imr = pic.imr
      BY <3>1 DEF PicType
    <3>4. q \in PicType
      <4>1. PICK r \in PicType : r = [pic EXCEPT !.due = 3]
        BY DEF PicType
      <4>2. q = [r EXCEPT !.base = byte]
        BY <3>1, <4>1
      <4> QED
        BY <3>2, <4>2 DEF PicType
    <3> QED
      BY <3>3, <3>4 DEF ChipIs
<1>3. ASSUME port = "data", pic.due = 3
      PROVE  ChipIs(q, 4, pic.base, pic.imr)
  <2>1. q = [pic EXCEPT !.due = 4]
    BY <1>3 DEF Told
  <2> QED
    BY <2>1 DEF ChipIs, PicType
<1>4. ASSUME port = "data", pic.due = 4
      PROVE  ChipIs(q, 0, pic.base, pic.imr)
  <2>1. q = [pic EXCEPT !.due = 0]
    BY <1>4 DEF Told
  <2> QED
    BY <2>1 DEF ChipIs, PicType
<1>5. ASSUME port = "data", pic.due = 0
      PROVE  ChipIs(q, 0, pic.base, Bits(byte))
  <2>1. Bits(byte) \in SUBSET (0 .. 7)
    BY DEF Bits
  <2>2. PICK mask \in SUBSET (0 .. 7) : mask = Bits(byte)
    BY <2>1
  <2>3. q = [pic EXCEPT !.imr = mask]
    BY <1>5, <2>2 DEF Told
  <2>4. ChipIs(q, 0, pic.base, mask)
    BY <1>5, <2>3 DEF ChipIs, PicType
  <2> QED
    BY <2>2, <2>4
<1> QED
  BY <1>1, <1>2, <1>3, <1>4, <1>5

\* A byte for one chip leaves the other alone.
LEMMA OneChip ==
    ASSUME NEW p \in [{"master", "slave"} -> PicType], NEW c \in {"master", "slave"},
           NEW x \in PicType, NEW q, q = [p EXCEPT ![c] = x]
    PROVE  /\ q \in [{"master", "slave"} -> PicType]
           /\ c = "master" => q.master = x /\ q.slave = p.slave
           /\ c = "slave" => q.slave = x /\ q.master = p.master
  OBVIOUS

\* A step of idt_init leaves the chips as the next step finds them.
LEMMA ChipsStep ==
    ASSUME NEW n \in 0 .. 13, step = n, pics \in [{"master", "slave"} -> PicType], ChipsInv,
           step' = n + 1, pics' = AfterStep(n, pics)
    PROVE  pics' \in [{"master", "slave"} -> PicType] /\ ChipsInv'
<1>1. pics.master \in PicType /\ pics.slave \in PicType
  OBVIOUS
<1>2. CASE n \notin 1 .. 10
  <2>1. pics' = pics
    BY <1>2, Bytes DEF AfterStep
  <2> QED
    BY <1>2, <2>1 DEF ChipsInv
<1>3. ASSUME NEW chip \in {"master", "slave"}, NEW port \in {"command", "data"},
             NEW byte \in {17, 32, 40, 4, 2, 1, 252, 255},
             n \in 1 .. 10, pic_remap[n] = <<chip, port, byte>>
      PROVE  \E x : /\ x = Told(pics[chip], port, byte)
                     /\ pics' = [pics EXCEPT ![chip] = x]
  <2>1. n \in DOMAIN pic_remap
    BY <1>3, Bytes
  <2>2. AfterStep(n, pics) =
            [pics EXCEPT ![pic_remap[n][1]] = Told(@, pic_remap[n][2], pic_remap[n][3])]
    BY <2>1 DEF AfterStep
  <2>3. pic_remap[n][1] = chip /\ pic_remap[n][2] = port /\ pic_remap[n][3] = byte
    BY <1>3
  <2>4. pics' = [pics EXCEPT ![chip] = Told(pics[chip], port, byte)]
    BY <2>2, <2>3
  <2> QED
    BY <2>4
<1>4. CASE n = 1
  <2>1. pic_remap[1] = <<"master", "command", 17>>
    BY Bytes
  <2>2. PICK x : x = Told(pics.master, "command", 17) /\ pics' = [pics EXCEPT !["master"] = x]
    BY <1>3, <1>4, <2>1
  <2>3. ChipIs(x, 2, pics.master.base, {})
    BY <1>1, <2>2, ToldIs
  <2>4. /\ pics' \in [{"master", "slave"} -> PicType]
        /\ pics'.master = x /\ pics'.slave = pics.slave
    BY <2>2, <2>3, OneChip DEF ChipIs
  <2> QED
    BY <1>4, <2>3, <2>4 DEF ChipsInv, ChipIs
<1>5. CASE n = 2
  <2>1. pic_remap[2] = <<"slave", "command", 17>>
    BY Bytes
  <2>2. PICK x : x = Told(pics.slave, "command", 17) /\ pics' = [pics EXCEPT !["slave"] = x]
    BY <1>3, <1>5, <2>1
  <2>3. ChipIs(x, 2, pics.slave.base, {})
    BY <1>1, <2>2, ToldIs
  <2>4. /\ pics' \in [{"master", "slave"} -> PicType]
        /\ pics'.slave = x /\ pics'.master = pics.master
    BY <2>2, <2>3, OneChip DEF ChipIs
  <2> QED
    BY <1>5, <2>3, <2>4 DEF ChipsInv, ChipIs
<1>6. CASE n = 3
  <2>1. pic_remap[3] = <<"master", "data", 32>>
    BY Bytes
  <2>2. PICK x : x = Told(pics.master, "data", 32) /\ pics' = [pics EXCEPT !["master"] = x]
    BY <1>3, <1>6, <2>1
  <2>3. ChipIs(x, 3, 32, pics.master.imr)
    <3>1. pics.master.due = 2
      BY <1>6 DEF ChipsInv
    <3> QED
      BY <1>1, <2>2, <3>1, ToldIs
  <2>4. /\ pics' \in [{"master", "slave"} -> PicType]
        /\ pics'.master = x /\ pics'.slave = pics.slave
    BY <2>2, <2>3, OneChip DEF ChipIs
  <2> QED
    BY <1>6, <2>3, <2>4 DEF ChipsInv, ChipIs
<1>7. CASE n = 4
  <2>1. pic_remap[4] = <<"slave", "data", 40>>
    BY Bytes
  <2>2. PICK x : x = Told(pics.slave, "data", 40) /\ pics' = [pics EXCEPT !["slave"] = x]
    BY <1>3, <1>7, <2>1
  <2>3. ChipIs(x, 3, 40, pics.slave.imr)
    <3>1. pics.slave.due = 2
      BY <1>7 DEF ChipsInv
    <3> QED
      BY <1>1, <2>2, <3>1, ToldIs
  <2>4. /\ pics' \in [{"master", "slave"} -> PicType]
        /\ pics'.slave = x /\ pics'.master = pics.master
    BY <2>2, <2>3, OneChip DEF ChipIs
  <2> QED
    BY <1>7, <2>3, <2>4 DEF ChipsInv, ChipIs
<1>8. CASE n = 5
  <2>1. pic_remap[5] = <<"master", "data", 4>>
    BY Bytes
  <2>2. PICK x : x = Told(pics.master, "data", 4) /\ pics' = [pics EXCEPT !["master"] = x]
    BY <1>3, <1>8, <2>1
  <2>3. ChipIs(x, 4, pics.master.base, pics.master.imr)
    <3>1. pics.master.due = 3
      BY <1>8 DEF ChipsInv
    <3> QED
      BY <1>1, <2>2, <3>1, ToldIs
  <2>4. /\ pics' \in [{"master", "slave"} -> PicType]
        /\ pics'.master = x /\ pics'.slave = pics.slave
    BY <2>2, <2>3, OneChip DEF ChipIs
  <2> QED
    BY <1>8, <2>3, <2>4 DEF ChipsInv, ChipIs
<1>9. CASE n = 6
  <2>1. pic_remap[6] = <<"slave", "data", 2>>
    BY Bytes
  <2>2. PICK x : x = Told(pics.slave, "data", 2) /\ pics' = [pics EXCEPT !["slave"] = x]
    BY <1>3, <1>9, <2>1
  <2>3. ChipIs(x, 4, pics.slave.base, pics.slave.imr)
    <3>1. pics.slave.due = 3
      BY <1>9 DEF ChipsInv
    <3> QED
      BY <1>1, <2>2, <3>1, ToldIs
  <2>4. /\ pics' \in [{"master", "slave"} -> PicType]
        /\ pics'.slave = x /\ pics'.master = pics.master
    BY <2>2, <2>3, OneChip DEF ChipIs
  <2> QED
    BY <1>9, <2>3, <2>4 DEF ChipsInv, ChipIs
<1>10. CASE n = 7
  <2>1. pic_remap[7] = <<"master", "data", 1>>
    BY Bytes
  <2>2. PICK x : x = Told(pics.master, "data", 1) /\ pics' = [pics EXCEPT !["master"] = x]
    BY <1>3, <1>10, <2>1
  <2>3. ChipIs(x, 0, pics.master.base, pics.master.imr)
    <3>1. pics.master.due = 4
      BY <1>10 DEF ChipsInv
    <3> QED
      BY <1>1, <2>2, <3>1, ToldIs
  <2>4. /\ pics' \in [{"master", "slave"} -> PicType]
        /\ pics'.master = x /\ pics'.slave = pics.slave
    BY <2>2, <2>3, OneChip DEF ChipIs
  <2> QED
    BY <1>10, <2>3, <2>4 DEF ChipsInv, ChipIs
<1>11. CASE n = 8
  <2>1. pic_remap[8] = <<"slave", "data", 1>>
    BY Bytes
  <2>2. PICK x : x = Told(pics.slave, "data", 1) /\ pics' = [pics EXCEPT !["slave"] = x]
    BY <1>3, <1>11, <2>1
  <2>3. ChipIs(x, 0, pics.slave.base, pics.slave.imr)
    <3>1. pics.slave.due = 4
      BY <1>11 DEF ChipsInv
    <3> QED
      BY <1>1, <2>2, <3>1, ToldIs
  <2>4. /\ pics' \in [{"master", "slave"} -> PicType]
        /\ pics'.slave = x /\ pics'.master = pics.master
    BY <2>2, <2>3, OneChip DEF ChipIs
  <2> QED
    BY <1>11, <2>3, <2>4 DEF ChipsInv, ChipIs
<1>12. CASE n = 9
  <2>1. pic_remap[9] = <<"master", "data", 252>>
    BY Bytes
  <2>2. PICK x : x = Told(pics.master, "data", 252) /\ pics' = [pics EXCEPT !["master"] = x]
    BY <1>3, <1>12, <2>1
  <2>3. ChipIs(x, 0, pics.master.base, 2 .. 7)
    <3>1. pics.master.due = 0
      BY <1>12 DEF ChipsInv
    <3> QED
      BY <1>1, <2>2, <3>1, ToldIs, Weights
  <2>4. /\ pics' \in [{"master", "slave"} -> PicType]
        /\ pics'.master = x /\ pics'.slave = pics.slave
    BY <2>2, <2>3, OneChip DEF ChipIs
  <2> QED
    BY <1>12, <2>3, <2>4 DEF ChipsInv, ChipIs
<1>13. CASE n = 10
  <2>1. pic_remap[10] = <<"slave", "data", 255>>
    BY Bytes
  <2>2. PICK x : x = Told(pics.slave, "data", 255) /\ pics' = [pics EXCEPT !["slave"] = x]
    BY <1>3, <1>13, <2>1
  <2>3. ChipIs(x, 0, pics.slave.base, 0 .. 7)
    <3>1. pics.slave.due = 0
      BY <1>13 DEF ChipsInv
    <3> QED
      BY <1>1, <2>2, <3>1, ToldIs, Weights
  <2>4. /\ pics' \in [{"master", "slave"} -> PicType]
        /\ pics'.slave = x /\ pics'.master = pics.master
    BY <2>2, <2>3, OneChip DEF ChipIs
  <2> QED
    BY <1>13, <2>3, <2>4 DEF ChipsInv, ChipIs
<1> QED
  BY <1>2, <1>4, <1>5, <1>6, <1>7, <1>8, <1>9, <1>10, <1>11, <1>12, <1>13

\* A request, or the answer to it, changes no more than the requests.
LEMMA RequestsOnly ==
    ASSUME NEW p \in [{"master", "slave"} -> PicType], NEW line \in Lines,
           NEW q, q = Requests(p, line) \/ q = Acknowledged(p, line)
    PROVE  /\ q \in [{"master", "slave"} -> PicType]
           /\ q.master.due = p.master.due /\ q.slave.due = p.slave.due
           /\ q.master.base = p.master.base /\ q.slave.base = p.slave.base
           /\ q.master.imr = p.master.imr /\ q.slave.imr = p.slave.imr
           /\ q = Acknowledged(p, line) => Pending(q) \subseteq Pending(p)
<1>1. line % 8 \in 0 .. 7 /\ Chip(line) \in {"master", "slave"}
  BY DEF Lines, Chip
<1> DEFINE c == Chip(line)
<1>2. PICK R \in SUBSET (0 .. 7) :
          /\ q = [p EXCEPT ![c].irr = R]
          /\ q = Acknowledged(p, line) => R \subseteq p[c].irr
  <2>1. p[c].irr \in SUBSET (0 .. 7)
    BY <1>1 DEF PicType
  <2>2. CASE q = Acknowledged(p, line)
    BY <2>1, <2>2 DEF Acknowledged
  <2>3. CASE q # Acknowledged(p, line)
    BY <1>1, <2>1, <2>3 DEF Requests
  <2> QED
    BY <2>2, <2>3
<1> HIDE DEF c
<1>3. c \in {"master", "slave"}
  BY <1>1 DEF c
<1>4. /\ q \in [{"master", "slave"} -> PicType]
      /\ \A d \in {"master", "slave"} :
            /\ q[d].due = p[d].due /\ q[d].base = p[d].base /\ q[d].imr = p[d].imr
            /\ q[d].irr = IF d = c THEN R ELSE p[d].irr
  BY <1>2, <1>3 DEF PicType
<1>5. ASSUME q = Acknowledged(p, line)
      PROVE  Pending(q) \subseteq Pending(p)
  <2>1. \A l \in Lines : Chip(l) \in {"master", "slave"}
    BY DEF Chip
  <2> QED
    BY <1>2, <1>4, <1>5, <2>1 DEF Pending, Unmasked
<1> QED
  BY <1>4, <1>5

\* The whole ticks of a sleep of ms, what is left over, and a millisecond more are
\* longer than ms, and the ticks alone are not.
LEMMA TicksFit ==
    ASSUME RatesFit, NEW f \in Frequencies \cup {100}, NEW ms \in Delays \cup {Pause},
           NEW n, n = ms \div (1000 \div f),
           NEW d, d = PIT_BASE_FREQUENCY \div f
    PROVE  /\ n \in Nat /\ d \in Nat \ {0}
           /\ ms % (1000 \div f) \in Nat
           /\ n * (1000 * d) + ((ms % (1000 \div f)) + 1) * PIT_BASE_FREQUENCY
                 > ms * PIT_BASE_FREQUENCY
           /\ n * (1000 * d) <= ms * PIT_BASE_FREQUENCY
<1> DEFINE k == 1000 \div f
<1>1. f \in Nat /\ 19 <= f /\ f <= 1000 /\ IsRate(f) /\ ms \in Nat
  BY RatesAre, DelaysAssumption DEF RatesFit, IsRate
<1>2. f * k = 1000 /\ k \in Nat \ {0}
  <2>1. 1000 % f = 0
    BY DEF RatesFit
  <2> QED
    BY <1>1, <2>1
<1> DEFINE r == ms % k
<1>3. n \in Nat /\ r \in Nat /\ n * k + r = ms
  <2> HIDE DEF k
  <2>1. n = ms \div k
    BY DEF k
  <2>2. n \in Nat /\ ms % k \in Nat /\ k * n + (ms % k) = ms
    BY <1>1, <1>2, <2>1
  <2>3. k * n = n * k
    BY <1>2, <2>2
  <2> QED
    BY <2>2, <2>3
<1>4. d \in Nat \ {0} /\ f * d <= PIT_BASE_FREQUENCY /\ f * d > PIT_BASE_FREQUENCY - f
  <2>1. IsRate(f)
    BY <1>1
  <2>2. /\ PIT_BASE_FREQUENCY \div f \in Nat \ {0}
        /\ f * (PIT_BASE_FREQUENCY \div f) <= PIT_BASE_FREQUENCY
        /\ f * (PIT_BASE_FREQUENCY \div f) > PIT_BASE_FREQUENCY - f
    <3>1. PeriodFits(f)
      BY <2>1, PeriodIs
    <3> QED
      BY <3>1 DEF PeriodFits
  <2> HIDE DEF k
  <2> QED
    BY <2>2, Zenon
<1>5. (f - 1) * (ms + 1) < PIT_BASE_FREQUENCY
  BY DEF RatesFit
<1> HIDE DEF k, r
<1> DEFINE e == f * d
<1>6. e \in Nat /\ e <= PIT_BASE_FREQUENCY /\ e + f - 1 >= PIT_BASE_FREQUENCY
  BY <1>1, <1>4 DEF PIT_BASE_FREQUENCY
<1>7. n * (1000 * d) = (n * k) * e
  <2>1. 1000 * d = k * e
    BY <1>1, <1>2, <1>4
  <2> HIDE DEF e
  <2>2. n * (k * e) = (n * k) * e
    BY <1>2, <1>3, <1>6
  <2> QED
    BY <2>1, <2>2
<1> HIDE DEF e
<1>8. (n * k) * e <= ms * PIT_BASE_FREQUENCY
  <2>1. (n * k) * e <= ms * e
    <3>1. PICK q \in Nat : q = n * k /\ q <= ms
      BY <1>2, <1>3
    <3>2. q * e <= ms * e
      BY <1>1, <1>6, <3>1
    <3> QED
      BY <3>1, <3>2
  <2>2. ms * e <= ms * PIT_BASE_FREQUENCY
    BY <1>1, <1>6 DEF PIT_BASE_FREQUENCY
  <2> QED
    BY <1>1, <1>2, <1>3, <1>6, <2>1, <2>2 DEF PIT_BASE_FREQUENCY
<1>9. (n * k) * e + (r + 1) * PIT_BASE_FREQUENCY > ms * PIT_BASE_FREQUENCY
  <2>1. PICK q \in Nat, p \in Nat : q = n * k /\ q + r = ms /\ p = PIT_BASE_FREQUENCY
    BY <1>2, <1>3 DEF PIT_BASE_FREQUENCY
  <2>2. PICK g \in Nat : g = f - 1 /\ p <= e + g /\ g * (ms + 1) < p
    BY <1>1, <1>5, <1>6, <2>1
  <2>3. q * p <= q * e + q * g
    <3>1. q * p <= q * (e + g)
      BY <1>6, <2>1, <2>2
    <3> QED
      BY <1>6, <3>1
  <2>4. q * g < p
    <3>1. q * g <= (ms + 1) * g
      BY <1>1, <1>3, <2>1, <2>2
    <3>2. (ms + 1) * g = g * (ms + 1)
      BY <1>1
    <3> QED
      BY <1>1, <2>1, <2>2, <3>1, <3>2
  <2>5. /\ (r + 1) * p = r * p + p
        /\ ms * p = q * p + r * p
    BY <1>3, <2>1
  <2>6. PICK a \in Nat, b \in Nat, c \in Nat, h \in Nat :
            a = q * p /\ b = q * e /\ c = r * p /\ h = q * g
    BY <1>3, <1>6
  <2>7. b + (c + p) > a + c
    BY <2>1, <2>3, <2>4, <2>6
  <2>8. (n * k) * e = b /\ (r + 1) * p = c + p /\ ms * p = a + c
    BY <2>1, <2>5, <2>6
  <2> QED
    BY <2>1, <2>7, <2>8
<1>10. r = ms % (1000 \div f)
  BY DEF r, k
<1> QED
  BY <1>3, <1>4, <1>7, <1>8, <1>9, <1>10

----------------------------------------------------------------------------
(* Where kernel_main is                                                    *)

\* With no call of sleep open there is nothing to say of one.
LEMMA NoCalls ==
    ASSUME sleeps' \in [Stacks -> Seq(CallType)],
           sleeps'["main"] = <<>>, sleeps'["background"] = <<>>
    PROVE  CallsInv' /\ OnTimeInv'
<1>1. \A s \in Stacks : sleeps'[s] = <<>> /\ DOMAIN sleeps'[s] = {}
  BY DEF Stacks
<1> QED
  BY <1>1 DEF CallsInv, OnTimeInv

\* Once idt_init is done, no line but the first two is heard.
LEMMA TwoLines ==
    ASSUME TypeOK, ChipsInv, step > LastStep, NEW line \in Lines, Unmasked(pics, line)
    PROVE  /\ line \in {0, 1}
           /\ line = 0 => Handler(step, pics, line) = "irq0_handler"
           /\ line = 1 => Handler(step, pics, line) = "irq1_handler"
<1>1. step = 14 /\ LastStep = 13
  BY Bytes DEF TypeOK, LastStep
<1>2. /\ pics.master.base = 32 /\ pics.master.imr = 2 .. 7 /\ pics.slave.imr = 0 .. 7
  BY <1>1 DEF ChipsInv
<1>3. line \in 0 .. 15
  BY DEF Lines
<1>4. line < 8
  <2> SUFFICES ASSUME line >= 8 PROVE FALSE
    BY <1>3
  <2>1. Chip(line) = "slave" /\ line % 8 \in 0 .. 7
    BY <1>3 DEF Chip
  <2> QED
    BY <1>2, <2>1 DEF Unmasked
<1>5. Chip(line) = "master" /\ line % 8 = line
  BY <1>3, <1>4 DEF Chip
<1>6. line \in {0, 1}
  BY <1>2, <1>3, <1>4, <1>5 DEF Unmasked
<1>7. Vector(pics, line) = 32 + line
  BY <1>2, <1>5 DEF Vector
<1>8. /\ Gate(step, 32) = "irq0_handler" /\ Gate(step, 33) = "irq1_handler"
  BY <1>1, Bytes DEF Gate
<1> QED
  BY <1>6, <1>7, <1>8 DEF Handler

\* The request that the CPU is given is one that is pending and not masked.
LEMMA HighestIsPending ==
    ASSUME TypeOK, ChipsInv, step > LastStep, Pending(pics) # {}
    PROVE  Highest(pics) \in Pending(pics)
<1>1. Pending(pics) \subseteq {0, 1}
  BY TwoLines DEF Pending
<1>2. \E l \in Pending(pics) : \A k \in Pending(pics) : Priority(l) <= Priority(k)
  <2>1. Priority(0) = 0 /\ Priority(1) = 8
    BY DEF Priority, Chip
  <2>2. CASE 0 \in Pending(pics)
    BY <1>1, <2>1, <2>2
  <2>3. CASE 0 \notin Pending(pics)
    BY <1>1, <2>1, <2>3
  <2> QED
    BY <2>2, <2>3
<1> QED
  BY <1>2 DEF Highest

\* The steps of kernel_main and of idt_init find no call of sleep open.
LEMMA BootSteps ==
    ASSUME TimerInv, IdtInit \/ Request \/ Serve \/ TimerInit \/ CreateTask
    PROVE  TimerInv' /\ OnTimeInv'
<1> USE DEF TimerInv
<1>1. sleeps' = sleeps
  BY DEF IdtInit, Request, Serve, TimerInit, CreateTask
<1>2. LastStep = 13
  BY Bytes DEF LastStep
<1>3. sleeps["main"] = <<>> /\ sleeps["background"] = <<>>
  BY DEF BootInv, IdtInit, Request, Serve, TimerInit, CreateTask, InMain
<1>4. CallsInv' /\ OnTimeInv'
  BY <1>1, <1>3, NoCalls DEF TypeOK
<1>5. CASE IdtInit
  <2>1. step \in 0 .. 13
    BY <1>2, <1>5 DEF IdtInit, BootInv, TypeOK
  <2>2. pics' \in [{"master", "slave"} -> PicType] /\ ChipsInv'
    BY <1>5, <2>1, ChipsStep DEF IdtInit, TypeOK
  <2>3. TypeOK'
    BY <1>2, <1>5, <2>1, <2>2 DEF IdtInit, TypeOK
  <2>4. ASSUME boot' # "idt"
        PROVE  Pending(pics') # {} => boot' = "timer" /\ sleeps'["main"] = <<>>
    BY <1>3, <1>5, <2>4 DEF IdtInit
  <2>5. BootInv'
    BY <1>2, <1>3, <1>5, <2>1, <2>4 DEF IdtInit, BootInv
  <2> QED
    BY <1>4, <2>2, <2>3, <2>5
<1>6. CASE Request
  <2>1. PICK line \in Lines : pics' = Requests(pics, line)
    BY <1>6, DevicesAssumption DEF Request
  <2>2. /\ pics' \in [{"master", "slave"} -> PicType]
        /\ ChipsInv'
    <3>1. pics \in [{"master", "slave"} -> PicType] /\ step' = step
      BY <1>6 DEF Request, TypeOK
    <3>2. PICK q \in [{"master", "slave"} -> PicType] :
              /\ q = pics'
              /\ q.master.due = pics.master.due /\ q.slave.due = pics.slave.due
              /\ q.master.base = pics.master.base /\ q.slave.base = pics.slave.base
              /\ q.master.imr = pics.master.imr /\ q.slave.imr = pics.slave.imr
      BY <2>1, <3>1, RequestsOnly
    <3> QED
      BY <3>1, <3>2 DEF ChipsInv
  <2>3. TypeOK'
    BY <1>6, <2>2 DEF Request, TypeOK
  <2>4. BootInv'
    BY <1>6 DEF Request, BootInv
  <2> QED
    BY <1>4, <2>2, <2>3, <2>4
<1>7. CASE Serve
  <2>1. boot = "timer" /\ step > LastStep
    BY <1>2, <1>7 DEF Serve, BootInv, TypeOK
  <2>2. PICK line \in Pending(pics) : line = Highest(pics)
    BY <1>7, <2>1, HighestIsPending DEF Serve
  <2>3. line \in Lines /\ Unmasked(pics, line) /\ pics' = Acknowledged(pics, line)
    BY <1>7, <2>2 DEF Serve, Pending
  <2>4. Handler(step, pics, line) \in {"irq0_handler", "irq1_handler"}
    BY <2>1, <2>3, TwoLines
  <2>5. boot' = boot /\ ticks' \in {ticks, (ticks + 1) % Modulus}
    BY <1>7, <2>2, <2>4 DEF Serve
  <2>6. /\ pics' \in [{"master", "slave"} -> PicType]
        /\ ChipsInv'
        /\ Pending(pics') \subseteq Pending(pics)
    BY <1>7, <2>3, RequestsOnly, SMTT(30) DEF Serve, TypeOK, ChipsInv
  <2>7. ticks' \in 0 .. Modulus - 1
    <3>1. ticks \in 0 .. Modulus - 1
      BY DEF TypeOK
    <3>2. (ticks + 1) % Modulus \in 0 .. Modulus - 1
      BY <3>1, CounterSteps
    <3> QED
      BY <2>5, <3>1, <3>2
  <2>8. TypeOK'
    BY <1>7, <2>5, <2>6, <2>7 DEF Serve, TypeOK
  <2>9. BootInv'
    BY <1>3, <1>7, <2>1, <2>5 DEF Serve, BootInv
  <2> QED
    BY <1>4, <2>6, <2>8, <2>9
<1>8. CASE TimerInit
  <2>1. PICK frequency \in Frequencies :
            /\ target_freq' = frequency
            /\ reload' = Send(PIT_BASE_FREQUENCY \div frequency)
    BY <1>8 DEF TimerInit
  <2>2. PIT_BASE_FREQUENCY \div frequency \in Nat
    <3>1. IsRate(frequency)
      BY RatesAre
    <3>2. PeriodFits(frequency)
      BY <3>1, PeriodIs
    <3> QED
      BY <3>2 DEF PeriodFits
  <2>3. reload' \in 1 .. MaxReload
    BY <2>1, <2>2, SendIs
  <2>4. TypeOK'
    BY <1>8, <2>1, <2>3 DEF TimerInit, lines, TypeOK
  <2>5. ChipsInv'
    BY <1>8 DEF TimerInit, lines, ChipsInv
  <2>6. BootInv'
    BY <1>3, <1>8, <2>1 DEF TimerInit, InMain, lines, BootInv
  <2> QED
    BY <1>4, <2>4, <2>5, <2>6
<1>9. CASE CreateTask
  <2>1. TypeOK' /\ ChipsInv'
    BY <1>9 DEF CreateTask, lines, TypeOK, ChipsInv
  <2>2. BootInv'
    BY <1>3, <1>9 DEF CreateTask, InMain, lines, BootInv
  <2> QED
    BY <1>4, <2>1, <2>2
<1> QED
  BY <1>5, <1>6, <1>7, <1>8, <1>9

----------------------------------------------------------------------------
(* The calls of sleep                                                      *)

\* A call that is open has a record, in the order of a stack.
LEMMA OpenCall ==
    ASSUME TypeOK, NEW s \in Stacks
    PROVE  /\ sleeps[s] \in Seq(CallType) /\ Len(sleeps[s]) \in Nat
           /\ DOMAIN sleeps[s] = 1 .. Len(sleeps[s])
           /\ \A i \in DOMAIN sleeps[s] : sleeps[s][i] \in CallType
           /\ sleeps[s] # <<>> => /\ Len(sleeps[s]) \in DOMAIN sleeps[s]
                                 /\ Last(sleeps[s]) = sleeps[s][Len(sleeps[s])]
<1>1. sleeps[s] \in Seq(CallType)
  BY DEF TypeOK
<1> QED
  BY <1>1, StackElements DEF Last

\* Calls that change where they are stay a stack of the same height.
LEMMA MapCalls ==
    ASSUME NEW q \in Seq(CallType), NEW r, r = [i \in DOMAIN q |-> r[i]],
           \A i \in DOMAIN q : r[i] \in CallType
    PROVE  r \in Seq(CallType) /\ DOMAIN r = DOMAIN q /\ Len(r) = Len(q)
<1>1. PICK n \in Nat : n = Len(q) /\ DOMAIN q = 1 .. n
  BY StackElements
<1>2. r \in [1 .. n -> CallType]
  BY <1>1
<1>3. r \in Seq(CallType)
  BY <1>2, SeqDef
<1>4. Len(r) \in Nat /\ DOMAIN r = 1 .. Len(r) /\ DOMAIN r = 1 .. n
  BY <1>2, <1>3, LenProperties
<1>5. Len(r) = n
  <2>1. PICK k \in Nat : k = Len(r)
    BY <1>4
  <2>2. 1 .. k = 1 .. n
    BY <1>4, <2>1
  <2>3. (k >= 1 => k \in 1 .. n) /\ (n >= 1 => n \in 1 .. k)
    BY <2>2
  <2> QED
    BY <2>1, <2>3
<1> QED
  BY <1>1, <1>3, <1>4, <1>5

\* What an interrupt makes of a call that it finds.
LEMMA WokenIs ==
    ASSUME NEW call \in CallType, NEW w, w = Woken(call)
    PROVE  /\ w \in CallType
           /\ w.pc = IF call.pc = "halted" THEN "check" ELSE call.pc
           /\ w.ms = call.ms /\ w.ticks_to_wait = call.ticks_to_wait
           /\ w.start_ticks = call.start_ticks /\ w.counted = call.counted
           /\ w.alone = call.alone /\ w.set = call.set
  BY DEF Woken, CallType

\* What a tick adds to what was counted since a call.
LEMMA CountsIs ==
    ASSUME TypeOK, NEW call \in CallType, NEW w, w = Counts(call)
    PROVE  /\ w \in CallType
           /\ w.counted = IF TooLong(call) THEN call.counted ELSE call.counted + reload
           /\ w.ms = call.ms /\ w.ticks_to_wait = call.ticks_to_wait
           /\ w.start_ticks = call.start_ticks /\ w.pc = call.pc
           /\ w.alone = call.alone /\ w.set = call.set
<1>1. reload \in Nat
  <2>1. reload \in 1 .. MaxReload
    BY DEF TypeOK
  <2> QED
    BY <2>1, ReloadNat
<1> QED
  BY <1>1 DEF Counts, CallType

\* How far the counter is from where a call began.
LEMMA SinceIs ==
    ASSUME TypeOK, NEW call \in CallType
    PROVE  Since(call) \in Nat /\ Since(call) < Modulus
<1>1. ticks \in 0 .. Modulus - 1 /\ call.start_ticks \in 0 .. Modulus - 1
  BY DEF TypeOK, CallType
<1>2. Since(call) \in 0 .. Modulus - 1
  BY <1>1, CounterSteps DEF Since
<1> QED
  BY <1>2, ModulusAssumption

\* A sleep asks for a tick at least, and for no more than the counter holds.
LEMMA ToTicksIs ==
    ASSUME TypeOK, NEW ms \in Delays \cup {Pause}
    PROVE  /\ ToTicks(ms) \in 1 .. Modulus - 1
           /\ RatesFit => ToTicks(ms) + 3 < Modulus
           /\ ms \div (1000 \div target_freq) \in Nat
           /\ ToTicks(ms) >= ms \div (1000 \div target_freq)
           /\ ToTicks(ms) = 1 \/ ToTicks(ms) = ms \div (1000 \div target_freq)
<1>1. target_freq \in Frequencies \cup {100} /\ IsRate(target_freq) /\ ms \in Nat
  BY RatesAre, DelaysAssumption DEF TypeOK
<1>2. 1000 \div target_freq \in Nat \ {0}
  <2>1. PeriodFits(target_freq)
    BY <1>1, PeriodIs
  <2> QED
    BY <2>1 DEF PeriodFits
<1>3. PICK k \in Nat \ {0} : k = 1000 \div target_freq
  BY <1>2
<1>4. PICK n \in Nat : n = ms \div k
  BY <1>1
<1>5. ToTicks(ms) = IF n = 0 THEN 1 ELSE n
  BY <1>3, <1>4 DEF ToTicks
<1>6. n < Modulus /\ Modulus > 1 /\ Modulus \in Nat
  BY <1>1, <1>3, <1>4, TicksAssumption, ModulusAssumption
<1>7. RatesFit => n + 3 < Modulus /\ 4 < Modulus
  BY <1>1, <1>3, <1>4 DEF RatesFit
<1> QED
  BY <1>3, <1>4, <1>5, <1>6, <1>7

\* The PIT is never faster than the rate that the conversion assumes.
LEMMA ReloadIs ==
    ASSUME RatesFit, TypeOK, BootInv
    PROVE  /\ reload \in Nat
           /\ PIT_BASE_FREQUENCY \div target_freq \in Nat \ {0}
           /\ reload >= PIT_BASE_FREQUENCY \div target_freq
           /\ boot \in {"task", "idle"} => reload = PIT_BASE_FREQUENCY \div target_freq
<1>1. IsRate(target_freq) /\ target_freq >= 19
  BY RatesAre DEF TypeOK, RatesFit
<1>2. PICK d \in Nat \ {0} : d = PIT_BASE_FREQUENCY \div target_freq /\ d < MaxReload
  <2>1. /\ PIT_BASE_FREQUENCY \div target_freq \in Nat \ {0}
        /\ PIT_BASE_FREQUENCY \div target_freq < MaxReload
    <3>1. PeriodFits(target_freq)
      BY <1>1, PeriodIs
    <3> QED
      BY <1>1, <3>1 DEF PeriodFits
  <2> QED
    BY <2>1
<1>3. Send(d) = d
  BY <1>2, SendIs
<1>4. MaxReload \in Nat
  BY DEF MaxReload
<1> QED
  BY <1>2, <1>3, <1>4 DEF BootInv, TypeOK

\* Three ticks late is not too long, where the PIT runs at that rate.
LEMMA NotTooLong ==
    ASSUME RatesFit, TypeOK, NEW call \in CallType, call.ticks_to_wait = ToTicks(call.ms),
           reload = PIT_BASE_FREQUENCY \div target_freq,
           NEW e \in Nat, call.counted = e * reload, e <= call.ticks_to_wait + 3
    PROVE  ~TooLong(call)
<1>0. PICK ms \in Delays \cup {Pause} : ms = call.ms
  BY DEF CallType
<1>1. /\ target_freq \in Frequencies \cup {100} /\ IsRate(target_freq)
      /\ ms \in Nat
  BY RatesAre, DelaysAssumption DEF TypeOK
<1>2. PICK n \in Nat : n = ms \div (1000 \div target_freq)
  BY <1>1, ToTicksIs
<1>3. reload \in Nat \ {0} /\ n * (1000 * reload) <= ms * PIT_BASE_FREQUENCY
  BY <1>1, <1>2, TicksFit
<1>4. PICK N \in Nat : N = call.ticks_to_wait /\ (N = 1 \/ N = n)
  BY <1>0, <1>2, ToTicksIs DEF CallType
<1>5. PICK P \in Nat : P = 1000 * reload
  BY <1>3
<1>6. PICK A \in Nat : A = ms * PIT_BASE_FREQUENCY
  BY <1>1 DEF PIT_BASE_FREQUENCY
<1>7. AtMost(call) = e * P + P /\ Period = P
  <2>1. Period = P
    BY <1>5 DEF Period
  <2>2. 1000 * (e * reload) = e * P
    BY <1>3, <1>5
  <2>3. PICK y \in Nat : y = e * reload
    BY <1>3
  <2>4. AtLeast(call) = 1000 * (y - reload)
    BY <2>3 DEF AtLeast
  <2>5. AtLeast(call) = e * P - P
    BY <1>3, <1>5, <2>2, <2>3, <2>4
  <2> QED
    BY <1>5, <2>1, <2>5 DEF AtMost
<1>8. e * P <= N * P + 3 * P
  <2>1. e <= N + 3
    BY <1>4
  <2>2. e * P <= (N + 3) * P
    BY <2>1
  <2>3. (N + 3) * P = N * P + 3 * P
    OBVIOUS
  <2> QED
    BY <2>2, <2>3
<1>9. PICK M \in Nat : M = Longer(A, P) /\ M >= A /\ M >= P
  BY DEF Longer
<1>10. N * P <= M
  BY <1>3, <1>4, <1>5, <1>6, <1>9
<1>11. TooLong(call) <=> e * P + P > M + 4 * P
  <2>1. Asked(call) = A
    BY <1>0, <1>6 DEF Asked
  <2> QED
    BY <1>7, <1>9, <2>1 DEF TooLong
<1>12. PICK x \in Nat, y \in Nat : x = e * P /\ y = N * P
  OBVIOUS
<1> QED
  BY <1>8, <1>10, <1>11, <1>12

\* A call goes on, with the time it has slept and the counter as they were.
LEMMA CallStays ==
    ASSUME NEW s \in Stacks, NEW i, NEW j, CallInv(s, i),
           NEW c, NEW d, c = sleeps[s][i], d = sleeps'[s][j],
           UNCHANGED <<ticks, target_freq, reload, boot>>,
           d.ms = c.ms, d.ticks_to_wait = c.ticks_to_wait, d.start_ticks = c.start_ticks,
           d.counted = c.counted, d.set = c.set,
           d.pc = "halted" => s = running' /\ ran' /\ j = Len(sleeps'[s]),
           d.alone => j = Len(sleeps'[s])
    PROVE  CallInv(s, j)'
<1>1. /\ c.ticks_to_wait = ToTicks(c.ms)
      /\ c.set => boot \in {"task", "idle"}
      /\ TooLong(c) \/ c.counted >= Since(c) * reload
  BY DEF CallInv
<1>2. d.ticks_to_wait = ToTicks(d.ms)'
  BY <1>1 DEF ToTicks
<1>3. TooLong(c) => TooLong(d)'
  BY DEF TooLong, AtMost, AtLeast, Asked, Period
<1>4. Since(d)' = Since(c)
  BY DEF Since
<1>5. TooLong(d)' \/ d.counted >= (Since(d) * reload)'
  BY <1>1, <1>3, <1>4
<1> QED
  BY <1>1, <1>2, <1>5 DEF CallInv

\* Call c of stack s has become d without a tick, and needs no more than it has left.
GoesOn(s, c, d) ==
    /\ UNCHANGED <<ticks, reload>>
    /\ d.ticks_to_wait = c.ticks_to_wait /\ d.start_ticks = c.start_ticks
    /\ d.counted = c.counted /\ d.set = c.set /\ (d.alone => c.alone)
    /\ d.alone /\ d.set => Since(c) + Needs(s, d)' <= c.ticks_to_wait + 3

\* So does what it has left of the three ticks, unless it is on its way to hlt.
LEMMA OnTimeStays ==
    ASSUME NEW s \in Stacks, NEW i, NEW j, OnTime(s, i),
           NEW c, NEW d, c = sleeps[s][i], d = sleeps'[s][j], GoesOn(s, c, d)
    PROVE  OnTime(s, j)'
<1> USE DEF GoesOn
<1>1. Since(d)' = Since(c)
  BY DEF Since
<1>2. d.alone /\ d.set => d.counted = Since(c) * reload
  BY DEF OnTime
<1>3. d.alone /\ d.set => d.counted = (Since(d) * reload)'
  BY <1>1, <1>2
<1>4. d.alone /\ d.set => (Since(d) + Needs(s, d) <= d.ticks_to_wait + 3)'
  BY <1>1
<1> QED
  BY <1>3, <1>4 DEF OnTime

\* A call on a stack that does not run keeps what is true of it.
LEMMA OtherStack ==
    ASSUME NEW s \in Stacks, NEW i, CallInv(s, i), s # running,
           UNCHANGED <<ticks, target_freq, reload, boot, running>>,
           sleeps'[s] = sleeps[s]
    PROVE  CallInv(s, i)' /\ (OnTime(s, i) => OnTime(s, i)')
<1>1. PICK c : c = sleeps[s][i] /\ c = sleeps'[s][i]
  OBVIOUS
<1>2. c.pc # "halted" /\ (c.alone => i = Len(sleeps'[s]))
  BY <1>1 DEF CallInv
<1>3. CallInv(s, i)'
  BY <1>1, <1>2, CallStays
<1>4. ASSUME OnTime(s, i)
      PROVE  OnTime(s, i)'
  <2>1. c.alone /\ c.set => Since(c) + Needs(s, c) <= c.ticks_to_wait + 3
    BY <1>1, <1>4 DEF OnTime
  <2>2. Needs(s, c)' = Needs(s, c)
    BY DEF Needs
  <2>3. c.alone /\ c.set => Since(c) + Needs(s, c)' <= c.ticks_to_wait + 3
    BY <2>1, <2>2
  <2>4. GoesOn(s, c, c)
    BY <2>3 DEF GoesOn
  <2> QED
    BY <1>1, <1>4, <2>4, OnTimeStays
<1> QED
  BY <1>3, <1>4

\* After idt_init the lines, and how far kernel_main is, stay.
LEMMA LinesStay ==
    ASSUME TimerInv, boot # "idt", Pending(pics) = {},
           UNCHANGED <<step, pics, target_freq, reload, boot>>,
           boot # "idle" => running' = "main" /\ sleeps'["background"] = <<>>
    PROVE  ChipsInv' /\ BootInv'
<1>1. ChipsInv'
  BY DEF TimerInv, ChipsInv
<1>2. BootInv'
  BY DEF TimerInv, BootInv
<1> QED
  BY <1>1, <1>2

\* Where a call of sleep may be: the timer runs, the requests from before are
\* answered, and before the background task is there only kernel_main sleeps.
LEMMA WhereItSleeps ==
    ASSUME TimerInv, Now # <<>> \/ running = "background"
    PROVE  boot # "idt" /\ Pending(pics) = {} /\ boot # "stopped"
<1>1. running \in {"main", "background"}
  BY DEF TimerInv, TypeOK, Stacks
<1> QED
  BY <1>1 DEF TimerInv, BootInv, Now

\* A key, which ends the hlt of the stack it arrives on, keeps both invariants.
LEMMA KeyStep ==
    ASSUME TimerInv, Key
    PROVE  TimerInv' /\ (OnTimeInv => OnTimeInv')
<1>1. /\ running \in Stacks /\ boot # "idt" /\ Pending(pics) = {}
      /\ UNCHANGED <<step, pics, ticks, target_freq, reload, boot, running, ran>>
      /\ sleeps \in [Stacks -> Seq(CallType)] /\ TypeOK
      /\ keys' \in 0 .. MaxKeys
  BY KeysAssumption DEF TimerInv, TypeOK, Key, Heard, lines
<1>2. PICK r : /\ r = [i \in DOMAIN sleeps[running] |-> Woken(sleeps[running][i])]
               /\ sleeps' = [sleeps EXCEPT ![running] = r]
  BY <1>1 DEF Key
<1>3. \A i \in DOMAIN sleeps[running] :
          r[i] = Woken(sleeps[running][i]) /\ sleeps[running][i] \in CallType
  BY <1>1, <1>2, OpenCall
<1>4. r \in Seq(CallType) /\ DOMAIN r = DOMAIN sleeps[running] /\ Len(r) = Len(sleeps[running])
  <2>1. r = [i \in DOMAIN sleeps[running] |-> r[i]]
    BY <1>2
  <2>2. \A i \in DOMAIN sleeps[running] : r[i] \in CallType
    BY <1>3, WokenIs
  <2> QED
    BY <1>1, <2>1, <2>2, MapCalls
<1>5. /\ sleeps' \in [Stacks -> Seq(CallType)] /\ sleeps'[running] = r
      /\ \A s \in Stacks \ {running} : sleeps'[s] = sleeps[s]
  BY <1>1, <1>2, <1>4
<1>6. TypeOK'
  BY <1>1, <1>5 DEF TypeOK
<1>7. ChipsInv' /\ BootInv'
  <2>1. boot # "idle" => running' = "main" /\ sleeps'["background"] = <<>>
    BY <1>1, <1>5 DEF TimerInv, BootInv, Stacks
  <2> QED
    BY <1>1, <2>1, LinesStay
<1>8. ASSUME NEW s \in Stacks, NEW i \in DOMAIN sleeps'[s]
      PROVE  CallInv(s, i)' /\ (OnTime(s, i) => OnTime(s, i)') /\ i \in DOMAIN sleeps[s]
  <2>1. i \in DOMAIN sleeps[s]
    BY <1>4, <1>5
  <2>2. CallInv(s, i)
    BY <2>1 DEF TimerInv, CallsInv
  <2>3. CASE s # running
    BY <1>1, <1>5, <2>1, <2>2, <2>3, OtherStack
  <2>4. CASE s = running
    <3>1. PICK c \in CallType, d \in CallType :
              c = sleeps[s][i] /\ d = sleeps'[s][i] /\ d = Woken(c)
      BY <1>3, <1>5, <2>1, <2>4, WokenIs
    <3>2. /\ d.pc = IF c.pc = "halted" THEN "check" ELSE c.pc
          /\ d.ms = c.ms /\ d.ticks_to_wait = c.ticks_to_wait
          /\ d.start_ticks = c.start_ticks /\ d.counted = c.counted
          /\ d.alone = c.alone /\ d.set = c.set
      BY <3>1, WokenIs
    <3>3. d.alone => i = Len(sleeps'[s])
      BY <1>4, <1>5, <2>2, <2>4, <3>1, <3>2 DEF CallInv
    <3>4. CallInv(s, i)'
      <4>1. d.pc = "halted" => s = running' /\ ran' /\ i = Len(sleeps'[s])
        BY <3>2
      <4>2. UNCHANGED <<ticks, target_freq, reload, boot>>
        BY <1>1
      <4>3. c = sleeps[s][i] /\ d = sleeps'[s][i]
        BY <3>1
      <4> QED
        BY <2>2, <3>2, <3>3, <4>1, <4>2, <4>3, CallStays
    <3>5. ASSUME OnTime(s, i)
          PROVE  OnTime(s, i)'
      <4>1. c.alone /\ c.set => Since(c) + Needs(s, c) <= c.ticks_to_wait + 3
        BY <3>1, <3>5 DEF OnTime
      <4>2. Needs(s, d)' = Needs(s, c)
        BY <1>1, <3>2 DEF Needs
      <4>3. d.alone /\ d.set => Since(c) + Needs(s, d)' <= c.ticks_to_wait + 3
        BY <3>2, <4>1, <4>2
      <4>4. UNCHANGED <<ticks, reload>>
        BY <1>1
      <4>5. c = sleeps[s][i] /\ d = sleeps'[s][i]
        BY <3>1
      <4>6. /\ d.ticks_to_wait = c.ticks_to_wait /\ d.start_ticks = c.start_ticks
            /\ d.counted = c.counted /\ d.set = c.set /\ (d.alone => c.alone)
        BY <3>2
      <4>7. GoesOn(s, c, d)
        BY <4>3, <4>4, <4>6 DEF GoesOn
      <4> QED
        BY <3>5, <4>5, <4>7, OnTimeStays
    <3> QED
      BY <2>1, <3>4, <3>5
  <2> QED
    BY <2>3, <2>4
<1>9. CallsInv' /\ (OnTimeInv => OnTimeInv')
  BY <1>8 DEF CallsInv, OnTimeInv
<1> QED
  BY <1>6, <1>7, <1>9 DEF TimerInv

\* A call of sleep begins, on top of what the stack is at.
LEMMA PushStep ==
    ASSUME TimerInv, NEW ms \in Delays \cup {Pause}, Sleep(ms),
           boot \notin {"idt", "stopped"}, Pending(pics) = {},
           UNCHANGED <<step, pics, ticks, target_freq, reload, boot, running>>,
           ran' \in BOOLEAN, keys' \in 0 .. MaxKeys
    PROVE  TimerInv' /\ (OnTimeInv => OnTimeInv')
<1>1. /\ running \in Stacks /\ boot \in {"timer", "task", "idle"}
      /\ sleeps \in [Stacks -> Seq(CallType)] /\ TypeOK
  BY DEF TimerInv, TypeOK
<1>2. PICK r : r = [i \in DOMAIN sleeps[running] |->
                        [Woken(sleeps[running][i]) EXCEPT !.alone = FALSE]]
  OBVIOUS
<1>3. PICK new : new = [ms |-> ms, ticks_to_wait |-> ToTicks(ms), start_ticks |-> ticks,
                        pc |-> "check", counted |-> 0, alone |-> TRUE, set |-> boot # "timer"]
  OBVIOUS
<1>4. sleeps' = [sleeps EXCEPT ![running] = Append(r, new)]
  BY <1>2, <1>3 DEF Sleep
<1>5. new \in CallType
  <2>1. ToTicks(ms) \in 1 .. Modulus - 1 /\ ticks \in 0 .. Modulus - 1
    BY <1>1, ToTicksIs DEF TypeOK
  <2> QED
    BY <1>3, <2>1 DEF CallType
<1>6. ASSUME NEW i \in DOMAIN sleeps[running]
      PROVE  /\ r[i] \in CallType /\ ~r[i].alone
             /\ r[i].pc = IF sleeps[running][i].pc = "halted" THEN "check"
                          ELSE sleeps[running][i].pc
             /\ r[i].ms = sleeps[running][i].ms
             /\ r[i].ticks_to_wait = sleeps[running][i].ticks_to_wait
             /\ r[i].start_ticks = sleeps[running][i].start_ticks
             /\ r[i].counted = sleeps[running][i].counted
             /\ r[i].set = sleeps[running][i].set
  <2>1. PICK c \in CallType : c = sleeps[running][i]
    BY <1>1, OpenCall
  <2>2. PICK w \in CallType : w = Woken(c)
    BY WokenIs
  <2>3. r[i] = [w EXCEPT !.alone = FALSE]
    BY <1>2, <2>1, <2>2
  <2>4. /\ r[i] \in CallType /\ ~r[i].alone /\ r[i].pc = w.pc /\ r[i].ms = w.ms
        /\ r[i].ticks_to_wait = w.ticks_to_wait /\ r[i].start_ticks = w.start_ticks
        /\ r[i].counted = w.counted /\ r[i].set = w.set
    BY <2>3 DEF CallType
  <2> QED
    BY <2>1, <2>2, <2>4, WokenIs
<1>7. r \in Seq(CallType) /\ DOMAIN r = DOMAIN sleeps[running] /\ Len(r) = Len(sleeps[running])
  <2>1. r = [i \in DOMAIN sleeps[running] |-> r[i]]
    BY <1>2
  <2> QED
    BY <1>1, <1>6, <2>1, MapCalls
<1>8. PICK n \in Nat : n = Len(r) /\ DOMAIN r = 1 .. n
  BY <1>7, StackElements
<1>9. PICK q \in Seq(CallType) : /\ q = Append(r, new) /\ Len(q) = n + 1
                                  /\ DOMAIN q = 1 .. n + 1 /\ q[n + 1] = new
                                  /\ \A i \in 1 .. n : q[i] = r[i]
  <2>1. PICK q \in Seq(CallType) : q = Append(r, new)
    BY <1>5, <1>7, AppendProperties
  <2>2. /\ Len(q) = Len(r) + 1 /\ q[Len(r) + 1] = new
        /\ \A i \in 1 .. Len(r) : q[i] = r[i]
    BY <1>5, <1>7, <2>1, AppendProperties
  <2>3. DOMAIN q = 1 .. Len(q)
    BY <2>1, LenProperties
  <2> QED
    BY <1>8, <2>1, <2>2, <2>3
<1>10. /\ sleeps' \in [Stacks -> Seq(CallType)] /\ sleeps'[running] = q
       /\ \A s \in Stacks \ {running} : sleeps'[s] = sleeps[s]
  BY <1>1, <1>4, <1>9
<1>11. TypeOK'
  BY <1>1, <1>10 DEF TypeOK
<1>12. ChipsInv' /\ BootInv'
  <2>1. boot # "idle" => running' = "main" /\ sleeps'["background"] = <<>>
    BY <1>1, <1>10 DEF TimerInv, BootInv, Stacks
  <2> QED
    BY <1>1, <2>1, LinesStay
<1>13. ASSUME NEW s \in Stacks, NEW i \in DOMAIN sleeps'[s]
       PROVE  /\ CallInv(s, i)'
              /\ OnTime(s, i)' \/ (i \in DOMAIN sleeps[s] /\ (OnTime(s, i) => OnTime(s, i)'))
  <2>1. CASE s # running
    <3>1. i \in DOMAIN sleeps[s] /\ sleeps'[s] = sleeps[s]
      BY <1>10, <2>1
    <3>2. CallInv(s, i)
      BY <3>1 DEF TimerInv, CallsInv
    <3> QED
      BY <2>1, <3>1, <3>2, OtherStack
  <2>2. CASE s = running /\ i \in 1 .. n
    <3>1. /\ i \in DOMAIN sleeps[running] /\ sleeps'[s][i] = r[i]
      BY <1>7, <1>8, <1>9, <1>10, <2>2
    <3>2. CallInv(s, i)
      BY <2>2, <3>1 DEF TimerInv, CallsInv
    <3>3. PICK c, d : /\ c = sleeps[s][i] /\ d = sleeps'[s][i] /\ ~d.alone
                      /\ d.pc # "halted"
                      /\ d.ms = c.ms /\ d.ticks_to_wait = c.ticks_to_wait
                      /\ d.start_ticks = c.start_ticks /\ d.counted = c.counted
                      /\ d.set = c.set
      BY <1>6, <2>2, <3>1
    <3>4. CallInv(s, i)'
      BY <3>2, <3>3, CallStays
    <3>5. OnTime(s, i)'
      BY <3>3 DEF OnTime
    <3> QED
      BY <3>4, <3>5
  <2>3. CASE s = running /\ i = n + 1
    <3>1. sleeps'[s][i] = new /\ i = Len(sleeps'[s])
      BY <1>9, <1>10, <2>3
    <3>2. Since(new)' = 0
      <4>1. ticks \in 0 .. Modulus - 1
        BY <1>1 DEF TypeOK
      <4>2. (ticks - ticks) % Modulus = 0
        BY <4>1, CounterSteps
      <4> QED
        BY <1>3, <4>2 DEF Since
    <3>3. reload' \in Nat /\ 0 * reload' = 0
      <4>1. reload' \in 1 .. MaxReload
        BY <1>11 DEF TypeOK
      <4> QED
        BY <4>1, ReloadNat
    <3>4. new.ticks_to_wait = ToTicks(new.ms)'
      BY <1>3 DEF ToTicks
    <3>5. new.set => boot' \in {"task", "idle"}
      BY <1>1, <1>3
    <3>6. CallInv(s, i)'
      BY <1>3, <3>1, <3>2, <3>3, <3>4, <3>5 DEF CallInv
    <3>7. Needs(s, new)' \in 0 .. 2
      BY <1>1, <1>3, <2>3 DEF Needs
    <3>8. new.ticks_to_wait \in Nat
      BY <1>5, ModulusAssumption DEF CallType
    <3>9. Since(new)' + Needs(s, new)' <= new.ticks_to_wait + 3
      BY <3>2, <3>7, <3>8
    <3>10. OnTime(s, i)'
      BY <1>3, <3>1, <3>2, <3>3, <3>9 DEF OnTime
    <3> QED
      BY <3>6, <3>10
  <2> QED
    BY <1>9, <1>10, <2>1, <2>2, <2>3
<1>14. CallsInv' /\ (OnTimeInv => OnTimeInv')
  BY <1>13 DEF CallsInv, OnTimeInv
<1> QED
  BY <1>11, <1>12, <1>14 DEF TimerInv

\* A look at ticks, and the hlt that follows it, keep both invariants.
LEMMA GoesStep ==
    ASSUME TimerInv, Check \/ Hlt
    PROVE  TimerInv' /\ (OnTimeInv => OnTimeInv')
<1>1. /\ running \in Stacks /\ Now # <<>> /\ ran' = TRUE
      /\ UNCHANGED <<step, pics, ticks, target_freq, reload, boot, running, keys>>
      /\ sleeps \in [Stacks -> Seq(CallType)] /\ TypeOK
  BY DEF TimerInv, TypeOK, Check, Hlt, Step, lines
<1>2. PICK q \in Seq(CallType) : q = sleeps[running] /\ q # <<>>
  BY <1>1 DEF Now
<1>3. PICK n \in Nat \ {0} : n = Len(q) /\ DOMAIN q = 1 .. n
  BY <1>2, StackElements
<1>4. PICK c \in CallType : c = q[n] /\ c = Top
  BY <1>2, <1>3, StackElements DEF Top, Now, Last
<1>5. PICK pc \in {"hlt", "halted"} :
          /\ sleeps' = [sleeps EXCEPT ![running] = Append(Front(q), [c EXCEPT !.pc = pc])]
          /\ pc = "hlt" => c.pc = "check" /\ Since(c) < c.ticks_to_wait
          /\ pc = "halted" => c.pc = "hlt"
  BY <1>2, <1>4 DEF Check, Hlt, Goes, Waits, Elapsed
<1>6. PICK d \in CallType : /\ d = [c EXCEPT !.pc = pc]
                             /\ d.pc = pc /\ d.ms = c.ms
                             /\ d.ticks_to_wait = c.ticks_to_wait
                             /\ d.start_ticks = c.start_ticks /\ d.counted = c.counted
                             /\ d.alone = c.alone /\ d.set = c.set
  <2>1. [c EXCEPT !.pc = pc] \in CallType
    BY DEF CallType
  <2> QED
    BY <2>1 DEF CallType
<1>7. PICK r \in Seq(CallType) : /\ r = Append(Front(q), d) /\ DOMAIN r = 1 .. n /\ r[n] = d
                                  /\ \A i \in 1 .. n - 1 : r[i] = q[i]
  <2>1. PICK r \in Seq(CallType) : r = Append(Front(q), d)
    BY <1>2, <1>6, StackReplace
  <2>2. /\ DOMAIN r = DOMAIN q /\ r[n] = d
        /\ \A i \in DOMAIN q \ {n} : r[i] = q[i]
    BY <1>2, <1>3, <1>6, <2>1, StackReplace
  <2>3. \A i \in 1 .. n - 1 : i \in DOMAIN q \ {n}
    BY <1>3
  <2> QED
    BY <1>3, <2>1, <2>2, <2>3
<1>8. Len(r) = n
  <2>1. Len(Front(q)) = n - 1 /\ Front(q) \in Seq(CallType)
    BY <1>2, <1>3, FrontElements
  <2> QED
    BY <1>3, <1>7, <2>1, AppendProperties
<1>9. /\ sleeps' \in [Stacks -> Seq(CallType)] /\ sleeps'[running] = r
      /\ \A s \in Stacks \ {running} : sleeps'[s] = sleeps[s]
  BY <1>1, <1>5, <1>6, <1>7
<1>10. TypeOK'
  BY <1>1, <1>9 DEF TypeOK
<1>11. ChipsInv' /\ BootInv'
  <2>1. boot # "idle" => running' = "main" /\ sleeps'["background"] = <<>>
    BY <1>1, <1>9 DEF TimerInv, BootInv, Stacks
  <2>2. boot # "idt" /\ Pending(pics) = {}
    BY <1>1, WhereItSleeps
  <2> QED
    BY <1>1, <2>1, <2>2, LinesStay
<1>12. ASSUME NEW s \in Stacks, NEW i \in DOMAIN sleeps'[s]
       PROVE  CallInv(s, i)' /\ (OnTime(s, i) => OnTime(s, i)') /\ i \in DOMAIN sleeps[s]
  <2>1. i \in DOMAIN sleeps[s]
    BY <1>2, <1>3, <1>7, <1>9
  <2>2. CallInv(s, i)
    BY <2>1 DEF TimerInv, CallsInv
  <2>3. CASE s # running
    BY <1>1, <1>9, <2>1, <2>2, <2>3, OtherStack
  <2>4. CASE s = running /\ i # n
    <3>1. PICK e : e = sleeps[s][i] /\ e = sleeps'[s][i]
      BY <1>2, <1>3, <1>7, <1>9, <2>1, <2>4
    <3>2. ~e.alone /\ e.pc # "halted"
      <4>1. i # Len(sleeps[s])
        BY <1>2, <1>3, <2>4
      <4>2. e.alone \in BOOLEAN
        BY <1>1, <2>1, <3>1, OpenCall DEF CallType
      <4> QED
        BY <2>2, <3>1, <4>1, <4>2 DEF CallInv
    <3>3. CallInv(s, i)'
      BY <1>1, <2>2, <3>1, <3>2, CallStays
    <3>4. OnTime(s, i)'
      BY <3>1, <3>2 DEF OnTime
    <3> QED
      BY <2>1, <3>3, <3>4
  <2>5. CASE s = running /\ i = n
    <3>1. c = sleeps[s][i] /\ d = sleeps'[s][i] /\ i = Len(sleeps'[s])
      BY <1>2, <1>4, <1>7, <1>8, <1>9, <2>5
    <3>2. CallInv(s, i)'
      <4>1. d.pc = "halted" => s = running' /\ ran' /\ i = Len(sleeps'[s])
        BY <1>1, <2>5, <3>1
      <4>2. UNCHANGED <<ticks, target_freq, reload, boot>>
        BY <1>1
      <4>3. d.alone => i = Len(sleeps'[s])
        BY <3>1
      <4>4. /\ d.ms = c.ms /\ d.ticks_to_wait = c.ticks_to_wait
            /\ d.start_ticks = c.start_ticks /\ d.counted = c.counted /\ d.set = c.set
        BY <1>6
      <4> QED
        BY <2>2, <3>1, <4>1, <4>2, <4>3, <4>4, CallStays
    <3>3. ASSUME OnTime(s, i)
          PROVE  OnTime(s, i)'
      <4>1. c.alone /\ c.set => Since(c) + Needs(s, c) <= c.ticks_to_wait + 3
        BY <3>1, <3>3 DEF OnTime
      <4>2. Since(c) \in Nat /\ c.ticks_to_wait \in Nat
        BY <1>1, SinceIs, ModulusAssumption DEF CallType
      <4>5. UNCHANGED <<ticks, reload>>
        BY <1>1
      <4>6. c = sleeps[s][i] /\ d = sleeps'[s][i]
        BY <3>1
      <4>7. /\ d.ticks_to_wait = c.ticks_to_wait /\ d.start_ticks = c.start_ticks
            /\ d.counted = c.counted /\ d.set = c.set /\ (d.alone => c.alone)
        BY <1>6
      <4>3. CASE pc = "hlt"
        <5>1. Needs(s, d)' = 4
          BY <1>1, <1>6, <2>5, <4>3 DEF Needs
        <5>2. Since(c) < c.ticks_to_wait
          BY <1>5, <4>3
        <5>3. d.alone /\ d.set => Since(c) + Needs(s, d)' <= c.ticks_to_wait + 3
          BY <4>2, <5>1, <5>2
        <5>4. GoesOn(s, c, d)
          BY <4>5, <4>6, <4>7, <5>3 DEF GoesOn
        <5> QED
          BY <3>3, <4>6, <5>4, OnTimeStays
      <4>4. CASE pc = "halted"
        <5>1. Needs(s, d)' = 2 /\ Needs(s, c) \in {2, 4}
          BY <1>1, <1>5, <1>6, <2>5, <4>4 DEF Needs, TypeOK
        <5>2. d.alone /\ d.set => Since(c) + Needs(s, d)' <= c.ticks_to_wait + 3
          BY <1>6, <4>1, <4>2, <5>1
        <5>3. GoesOn(s, c, d)
          BY <4>5, <4>6, <4>7, <5>2 DEF GoesOn
        <5> QED
          BY <3>3, <4>6, <5>3, OnTimeStays
      <4> QED
        BY <4>3, <4>4
    <3> QED
      BY <2>1, <3>2, <3>3
  <2> QED
    BY <2>3, <2>4, <2>5
<1>13. CallsInv' /\ (OnTimeInv => OnTimeInv')
  BY <1>12 DEF CallsInv, OnTimeInv
<1> QED
  BY <1>10, <1>11, <1>13 DEF TimerInv

\* A call of sleep returns to what it interrupted.
LEMMA PopStep ==
    ASSUME TimerInv, WakeUp
    PROVE  TimerInv' /\ (OnTimeInv => OnTimeInv')
<1>1. /\ running \in Stacks /\ Now # <<>> /\ ran' = TRUE
      /\ UNCHANGED <<step, pics, ticks, target_freq, reload, boot, running, keys>>
      /\ sleeps \in [Stacks -> Seq(CallType)] /\ TypeOK
  BY DEF TimerInv, TypeOK, WakeUp, Step, lines
<1>2. PICK q \in Seq(CallType) : q = sleeps[running] /\ q # <<>>
  BY <1>1 DEF Now
<1>3. PICK n \in Nat \ {0} : n = Len(q) /\ DOMAIN q = 1 .. n
  BY <1>2, StackElements
<1>4. PICK r \in Seq(CallType) : r = Front(q) /\ DOMAIN r = 1 .. n - 1
  BY <1>2, <1>3, StackPop
<1>5. \A i \in 1 .. n - 1 : r[i] = q[i]
  BY <1>2, <1>3, <1>4, FrontElements
<1>6. /\ sleeps' \in [Stacks -> Seq(CallType)] /\ sleeps'[running] = r
      /\ \A s \in Stacks \ {running} : sleeps'[s] = sleeps[s]
  <2>1. sleeps' = [sleeps EXCEPT ![running] = r]
    BY <1>2, <1>4 DEF WakeUp
  <2> QED
    BY <1>1, <1>4, <2>1
<1>7. TypeOK'
  BY <1>1, <1>6 DEF TypeOK
<1>8. ChipsInv' /\ BootInv'
  <2>1. boot # "idle" => running' = "main" /\ sleeps'["background"] = <<>>
    BY <1>1, <1>6 DEF TimerInv, BootInv, Stacks
  <2>2. boot # "idt" /\ Pending(pics) = {}
    BY <1>1, WhereItSleeps
  <2> QED
    BY <1>1, <2>1, <2>2, LinesStay
<1>9. ASSUME NEW s \in Stacks, NEW i \in DOMAIN sleeps'[s]
      PROVE  CallInv(s, i)' /\ (OnTime(s, i) => OnTime(s, i)') /\ i \in DOMAIN sleeps[s]
  <2>1. CASE s # running
    <3>1. i \in DOMAIN sleeps[s] /\ sleeps'[s] = sleeps[s]
      BY <1>6, <2>1
    <3>2. CallInv(s, i)
      BY <3>1 DEF TimerInv, CallsInv
    <3> QED
      BY <1>1, <2>1, <3>1, <3>2, OtherStack
  <2>2. CASE s = running
    <3>1. i \in 1 .. n - 1 /\ i # n /\ i \in DOMAIN sleeps[s]
      BY <1>2, <1>3, <1>4, <1>6, <2>2
    <3>2. PICK e : e = sleeps[s][i] /\ e = sleeps'[s][i]
      BY <1>2, <1>5, <1>6, <2>2, <3>1
    <3>3. CallInv(s, i)
      BY <3>1 DEF TimerInv, CallsInv
    <3>4. ~e.alone /\ e.pc # "halted"
      <4>1. i # Len(sleeps[s])
        BY <1>2, <1>3, <2>2, <3>1
      <4>2. e.alone \in BOOLEAN
        BY <1>1, <3>1, <3>2, OpenCall DEF CallType
      <4> QED
        BY <3>2, <3>3, <4>1, <4>2 DEF CallInv
    <3>5. CallInv(s, i)'
      BY <1>1, <3>2, <3>3, <3>4, CallStays
    <3>6. OnTime(s, i)'
      BY <3>2, <3>4 DEF OnTime
    <3> QED
      BY <3>1, <3>5, <3>6
  <2> QED
    BY <2>1, <2>2
<1>10. CallsInv' /\ (OnTimeInv => OnTimeInv')
  BY <1>9 DEF CallsInv, OnTimeInv
<1> QED
  BY <1>7, <1>8, <1>10 DEF TimerInv

\* One tick of the counter, and of the cycles, for a call.
LEMMA SinceSteps ==
    ASSUME TypeOK, NEW c \in CallType, ticks' = (ticks + 1) % Modulus, reload' = reload
    PROVE  /\ Since(c)' = IF Since(c) = Modulus - 1 THEN 0 ELSE Since(c) + 1
           /\ Since(c) \in Nat /\ reload \in Nat
           /\ (Since(c) + 1) * reload = Since(c) * reload + reload
           /\ Since(c) * reload \in Nat /\ 0 * reload = 0
<1>1. ticks \in 0 .. Modulus - 1 /\ c.start_ticks \in 0 .. Modulus - 1
  BY DEF TypeOK, CallType
<1>2. PICK e \in Nat : e = Since(c) /\ e < Modulus
  BY SinceIs
<1>3. Since(c)' = IF e = Modulus - 1 THEN 0 ELSE e + 1
  BY <1>1, <1>2, CounterSteps DEF Since
<1>4. reload \in Nat
  <2>1. reload \in 1 .. MaxReload
    BY DEF TypeOK
  <2> QED
    BY <2>1, ReloadNat
<1>5. (e + 1) * reload = e * reload + reload /\ e * reload \in Nat /\ 0 * reload = 0
  BY <1>2, <1>4
<1> QED
  BY <1>2, <1>3, <1>4, <1>5

\* A tick wakes every call, and the other stack runs.
LEMMA TickStep ==
    ASSUME TimerInv, Tick
    PROVE  TimerInv' /\ (RatesFit /\ OnTimeInv => OnTimeInv')
<1>1. /\ running \in Stacks /\ boot # "idt" /\ Pending(pics) = {} /\ ran' = FALSE
      /\ UNCHANGED <<step, pics, target_freq, reload, boot, keys>>
      /\ ticks' = (ticks + 1) % Modulus
      /\ sleeps \in [Stacks -> Seq(CallType)] /\ TypeOK
  BY DEF TimerInv, TypeOK, Tick, Heard, lines
<1>2. ASSUME NEW s \in Stacks
      PROVE  /\ sleeps'[s] = [i \in DOMAIN sleeps[s] |-> sleeps'[s][i]]
             /\ \A i \in DOMAIN sleeps[s] : sleeps'[s][i] = Counts(Woken(sleeps[s][i]))
  BY DEF Tick
<1>3. ASSUME NEW s \in Stacks, NEW i \in DOMAIN sleeps[s]
      PROVE  \E c \in CallType, d \in CallType :
                /\ c = sleeps[s][i] /\ d = sleeps'[s][i]
                /\ d.pc = IF c.pc = "halted" THEN "check" ELSE c.pc
                /\ d.counted = IF TooLong(c) THEN c.counted ELSE c.counted + reload
                /\ d.ms = c.ms /\ d.ticks_to_wait = c.ticks_to_wait
                /\ d.start_ticks = c.start_ticks
                /\ d.alone = c.alone /\ d.set = c.set
  <2>1. PICK c \in CallType : c = sleeps[s][i]
    BY <1>1, OpenCall
  <2>2. PICK w \in CallType : w = Woken(c)
    BY WokenIs
  <2>3. TooLong(w) <=> TooLong(c)
    BY <2>2, WokenIs DEF TooLong, AtMost, AtLeast, Asked
  <2>4. PICK d \in CallType : d = Counts(w)
    BY <1>1, CountsIs
  <2>5. d = sleeps'[s][i]
    BY <1>2, <2>1, <2>2, <2>4
  <2>6. /\ w.pc = IF c.pc = "halted" THEN "check" ELSE c.pc
        /\ w.ms = c.ms /\ w.ticks_to_wait = c.ticks_to_wait
        /\ w.start_ticks = c.start_ticks /\ w.counted = c.counted
        /\ w.alone = c.alone /\ w.set = c.set
    BY <2>2, WokenIs
  <2>7. /\ d.counted = IF TooLong(w) THEN w.counted ELSE w.counted + reload
        /\ d.ms = w.ms /\ d.ticks_to_wait = w.ticks_to_wait
        /\ d.start_ticks = w.start_ticks /\ d.pc = w.pc
        /\ d.alone = w.alone /\ d.set = w.set
    BY <1>1, <2>4, CountsIs
  <2> QED
    BY <2>1, <2>3, <2>5, <2>6, <2>7
<1>4. ASSUME NEW s \in Stacks
      PROVE  /\ sleeps'[s] \in Seq(CallType) /\ DOMAIN sleeps'[s] = DOMAIN sleeps[s]
             /\ Len(sleeps'[s]) = Len(sleeps[s])
  <2>1. \A i \in DOMAIN sleeps[s] : sleeps'[s][i] \in CallType
    BY <1>3
  <2> QED
    BY <1>1, <1>2, <2>1, MapCalls
<1>5. sleeps' \in [Stacks -> Seq(CallType)]
  <2>1. sleeps' = [s \in Stacks |-> sleeps'[s]]
    BY DEF Tick
  <2> QED
    BY <1>4, <2>1
<1>6. TypeOK'
  <2>1. ticks' \in 0 .. Modulus - 1
    BY <1>1, CounterSteps DEF TypeOK
  <2>2. running' \in Stacks
    BY <1>1 DEF Tick, Other, Stacks
  <2> QED
    BY <1>1, <1>5, <2>1, <2>2 DEF TypeOK
<1>7. ChipsInv' /\ BootInv'
  <2>1. boot # "idle" => running' = "main" /\ sleeps'["background"] = <<>>
    <3>1. ASSUME sleeps["background"] = <<>>
          PROVE  sleeps'["background"] = <<>>
      <4>1. "background" \in Stacks /\ DOMAIN sleeps["background"] = {}
        BY <3>1 DEF Stacks
      <4>2. DOMAIN sleeps'["background"] = {} /\ sleeps'["background"] \in Seq(CallType)
        BY <1>4, <4>1
      <4> QED
        BY <4>2, StackElements
    <3> QED
      BY <3>1 DEF TimerInv, BootInv, Tick
  <2> QED
    BY <1>1, <2>1, LinesStay
<1>8. ASSUME NEW s \in Stacks, NEW i \in DOMAIN sleeps'[s]
      PROVE  CallInv(s, i)'
  <2>1. i \in DOMAIN sleeps[s]
    BY <1>4
  <2>2. PICK c \in CallType, d \in CallType :
                /\ c = sleeps[s][i] /\ d = sleeps'[s][i]
                /\ d.pc = IF c.pc = "halted" THEN "check" ELSE c.pc
                /\ d.counted = IF TooLong(c) THEN c.counted ELSE c.counted + reload
                /\ d.ms = c.ms /\ d.ticks_to_wait = c.ticks_to_wait
                /\ d.start_ticks = c.start_ticks
                /\ d.alone = c.alone /\ d.set = c.set
    BY <1>3, <2>1
  <2>3. /\ c.ticks_to_wait = ToTicks(c.ms)
        /\ c.alone => i = Len(sleeps[s])
        /\ c.set => boot \in {"task", "idle"}
        /\ TooLong(c) \/ c.counted >= Since(c) * reload
    BY <2>1, <2>2 DEF TimerInv, CallsInv, CallInv
  <2>4. d.ticks_to_wait = ToTicks(d.ms)'
    BY <1>1, <2>2, <2>3 DEF ToTicks
  <2>5. TooLong(d)' \/ d.counted >= (Since(d) * reload)'
    <3>1. CASE TooLong(c)
      <4>1. d.counted = c.counted
        BY <2>2, <3>1
      <4>2. TooLong(d)'
        BY <1>1, <2>2, <3>1, <4>1 DEF TooLong, AtMost, AtLeast, Asked, Period
      <4> QED
        BY <4>2
    <3>2. CASE ~TooLong(c)
      <4>1. Since(d)' = Since(c)'
        BY <2>2 DEF Since
      <4>2. /\ Since(c)' = IF Since(c) = Modulus - 1 THEN 0 ELSE Since(c) + 1
            /\ Since(c) \in Nat /\ reload \in Nat
            /\ (Since(c) + 1) * reload = Since(c) * reload + reload
            /\ Since(c) * reload \in Nat /\ 0 * reload = 0
        BY <1>1, SinceSteps
      <4>3. d.counted = c.counted + reload /\ c.counted >= Since(c) * reload /\ c.counted \in Nat
        BY <2>2, <2>3, <3>2 DEF CallType
      <4>4. PICK x \in Nat : x = Since(c) * reload
        BY <4>2
      <4>5. Since(d)' * reload \in {0, x + reload}
        BY <4>1, <4>2, <4>4
      <4>6. d.counted >= Since(d)' * reload
        BY <4>2, <4>3, <4>4, <4>5
      <4> QED
        BY <1>1, <4>6
    <3> QED
      BY <3>1, <3>2
  <2>6. d.alone => i = Len(sleeps'[s])
    BY <1>4, <2>2, <2>3
  <2>7. d.set => boot' \in {"task", "idle"}
    BY <1>1, <2>2, <2>3
  <2>8. d.pc # "halted"
    BY <2>2
  <2> QED
    BY <2>2, <2>4, <2>5, <2>6, <2>7, <2>8 DEF CallInv
<1>9. ASSUME RatesFit, NEW s \in Stacks, NEW i \in DOMAIN sleeps'[s], OnTime(s, i)
      PROVE  OnTime(s, i)'
  <2>1. i \in DOMAIN sleeps[s] /\ CallInv(s, i)
    BY <1>4, <1>9 DEF TimerInv, CallsInv
  <2>2. PICK c \in CallType, d \in CallType :
                /\ c = sleeps[s][i] /\ d = sleeps'[s][i]
                /\ d.pc = IF c.pc = "halted" THEN "check" ELSE c.pc
                /\ d.counted = IF TooLong(c) THEN c.counted ELSE c.counted + reload
                /\ d.ms = c.ms /\ d.ticks_to_wait = c.ticks_to_wait
                /\ d.start_ticks = c.start_ticks
                /\ d.alone = c.alone /\ d.set = c.set
    BY <1>3, <2>1
  <2> SUFFICES ASSUME d.alone, d.set
               PROVE  OnTime(s, i)'
    BY <2>2 DEF OnTime
  <2>3. /\ c.alone /\ c.set /\ c.counted = Since(c) * reload
        /\ Since(c) + Needs(s, c) <= c.ticks_to_wait + 3
    BY <1>9, <2>2 DEF OnTime
  <2>4. /\ c.ticks_to_wait = ToTicks(c.ms) /\ i = Len(sleeps[s])
        /\ boot \in {"task", "idle"} /\ (c.pc = "halted" => ran)
    BY <2>1, <2>2, <2>3 DEF CallInv
  <2>5. PICK e \in Nat : e = Since(c)
    BY <1>1, SinceIs
  <2>6. PICK N \in Nat : N = c.ticks_to_wait /\ N + 3 < Modulus
    <3>1. c.ms \in Delays \cup {Pause} /\ c.ticks_to_wait \in Nat
      BY ModulusAssumption DEF CallType
    <3> QED
      BY <1>1, <1>9, <2>4, <3>1, ToTicksIs
  <2>7. PICK x \in Nat, y \in Nat : /\ x = Needs(s, c) /\ y = Needs(s, d)' /\ y + 1 <= x
    <3>1. CASE s = running
      <4>1. ran
        <5>1. Now # <<>> /\ Top = c
          <6>1. sleeps[s] \in Seq(CallType) /\ sleeps[s] # <<>>
            BY <1>1, <2>1, OpenCall
          <6> QED
            BY <2>2, <2>4, <3>1, <6>1 DEF Now, Top, Last
        <5>2. c.pc # "halted" => AtWork
          BY <5>1 DEF AtWork
        <5> QED
          BY <2>4, <5>2 DEF Tick, Due
      <4>2. Needs(s, c) = (IF c.pc = "hlt" THEN 2 ELSE 0) + 2
        BY <3>1, <4>1 DEF Needs
      <4>3. Needs(s, d)' \in {(IF c.pc = "hlt" THEN 2 ELSE 0),
                             (IF c.pc = "hlt" THEN 2 ELSE 0) + 1}
        BY <1>1, <2>2 DEF Needs
      <4> QED
        BY <4>2, <4>3
    <3>2. CASE s # running
      <4>1. running' = s
        <5>1. sleeps[s] # <<>>
          BY <2>1
        <5>2. boot = "idle"
          BY <1>1, <3>2, <5>1 DEF TimerInv, BootInv, Stacks
        <5> QED
          BY <1>1, <3>2, <5>2 DEF Tick, Other, Stacks
      <4>2. Needs(s, c) = (IF c.pc = "hlt" THEN 2 ELSE 0) + 1
        BY <3>2 DEF Needs
      <4>3. Needs(s, d)' = (IF c.pc = "hlt" THEN 2 ELSE 0)
        BY <1>1, <2>2, <4>1 DEF Needs
      <4> QED
        BY <4>2, <4>3
    <3> QED
      BY <3>1, <3>2
  <2>8. e + x <= N + 3
    BY <2>3, <2>5, <2>6, <2>7
  <2>9. Since(d)' = e + 1
    <3>1. Since(d)' = Since(c)'
      BY <2>2 DEF Since
    <3>2. Since(c)' = IF Since(c) = Modulus - 1 THEN 0 ELSE Since(c) + 1
      BY <1>1, SinceSteps
    <3>3. e # Modulus - 1
      BY <2>6, <2>7, <2>8, ModulusAssumption
    <3> QED
      BY <2>5, <3>1, <3>2, <3>3
  <2>10. ~TooLong(c)
    <3>1. reload = PIT_BASE_FREQUENCY \div target_freq
      BY <1>1, <1>9, <2>4, ReloadIs DEF TimerInv
    <3>2. e <= c.ticks_to_wait + 3 /\ c.counted = e * reload
      BY <2>3, <2>5, <2>6, <2>7, <2>8
    <3> QED
      BY <1>1, <1>9, <2>4, <3>1, <3>2, NotTooLong
  <2>11. d.counted = Since(d)' * reload
    <3>1. (Since(c) + 1) * reload = Since(c) * reload + reload
      BY <1>1, SinceSteps
    <3> QED
      BY <2>2, <2>3, <2>5, <2>9, <2>10, <3>1
  <2>12. Since(d)' + Needs(s, d)' <= d.ticks_to_wait + 3
    BY <2>2, <2>6, <2>7, <2>8, <2>9
  <2> QED
    BY <1>1, <2>2, <2>11, <2>12 DEF OnTime
<1>10. CallsInv' /\ (RatesFit /\ OnTimeInv => OnTimeInv')
  BY <1>4, <1>8, <1>9 DEF CallsInv, OnTimeInv
<1> QED
  BY <1>6, <1>7, <1>10 DEF TimerInv

----------------------------------------------------------------------------
(* The theorems                                                            *)

\* The state in which kernel_main calls idt_init.
LEMMA InitiallyInv == Init => TimerInv /\ OnTimeInv
<1> SUFFICES ASSUME Init
             PROVE  TimerInv /\ OnTimeInv
  OBVIOUS
<1>1. LastStep = 13
  BY Bytes DEF LastStep
<1>2. sleeps \in [Stacks -> Seq(CallType)] /\ \A s \in Stacks : sleeps[s] = <<>>
  BY EmptySeq DEF Init
<1>3. TypeOK
  <2>1. reload \in 1 .. MaxReload
    BY DEF Init, MaxReload
  <2>2. step \in 0 .. LastStep + 1
    BY <1>1 DEF Init
  <2>3. ticks \in 0 .. Modulus - 1 /\ keys \in 0 .. MaxKeys
    BY ModulusAssumption, KeysAssumption DEF Init
  <2>4. pics \in [{"master", "slave"} -> PicType]
    BY BiosChips DEF Init
  <2>5. /\ target_freq \in Frequencies \cup {100} /\ ran \in BOOLEAN
        /\ boot \in {"idt", "timer", "task", "idle", "stopped"} /\ running \in Stacks
    BY DEF Init, Stacks
  <2> QED
    BY <1>2, <2>1, <2>2, <2>3, <2>4, <2>5 DEF TypeOK
<1>4. ChipsInv
  BY BiosChips DEF Init, ChipsInv
<1>5. BootInv
  BY <1>1, <1>2 DEF Init, BootInv, Stacks
<1>6. CallsInv /\ OnTimeInv
  <2>1. \A s \in Stacks : DOMAIN sleeps[s] = {}
    BY <1>2
  <2> QED
    BY <2>1 DEF CallsInv, OnTimeInv
<1> QED
  BY <1>3, <1>4, <1>5, <1>6 DEF TimerInv

\* Every step keeps both; the second where the rates fit.
LEMMA NextInv ==
    TimerInv /\ [Next]_vars => TimerInv' /\ (RatesFit /\ OnTimeInv => OnTimeInv')
<1> SUFFICES ASSUME TimerInv, [Next]_vars
             PROVE  TimerInv' /\ (RatesFit /\ OnTimeInv => OnTimeInv')
  OBVIOUS
<1>1. CASE IdtInit \/ Request \/ Serve \/ TimerInit \/ CreateTask
  BY <1>1, BootSteps
<1>2. CASE Tick
  BY <1>2, TickStep
<1>3. CASE Key
  BY <1>3, KeyStep
<1>4. CASE TestDelay
  <2>1. PICK ms \in Delays \cup {Pause} : Sleep(ms)
    BY <1>4 DEF TestDelay
  <2>2. /\ boot \notin {"idt", "stopped"} /\ Pending(pics) = {}
        /\ UNCHANGED <<step, pics, ticks, target_freq, reload, boot, running>>
        /\ ran' \in BOOLEAN /\ keys' \in 0 .. MaxKeys
    BY <1>4, KeysAssumption DEF TestDelay, Heard, lines, TimerInv, TypeOK
  <2> QED
    BY <2>1, <2>2, PushStep
<1>5. CASE BackgroundTask
  <2>1. running = "background" /\ Sleep(Pause)
    BY <1>5 DEF BackgroundTask, Step, AtWork
  <2>2. boot \notin {"idt", "stopped"} /\ Pending(pics) = {}
    BY <2>1, WhereItSleeps
  <2>3. /\ UNCHANGED <<step, pics, ticks, target_freq, reload, boot, running>>
        /\ ran' \in BOOLEAN /\ keys' \in 0 .. MaxKeys
    BY <1>5 DEF BackgroundTask, Step, lines, TimerInv, TypeOK
  <2> QED
    BY <2>1, <2>2, <2>3, PushStep
<1>6. CASE Check \/ Hlt
  BY <1>6, GoesStep
<1>7. CASE WakeUp
  BY <1>7, PopStep
<1>8. CASE UNCHANGED vars
  <2> USE <1>8 DEF vars, lines
  <2>1. TypeOK' /\ ChipsInv' /\ BootInv'
    BY DEF TimerInv, TypeOK, ChipsInv, BootInv
  <2>2. CallsInv'
    BY DEF TimerInv, CallsInv, CallInv, ToTicks, TooLong, AtMost, AtLeast, Asked, Period, Since
  <2>3. OnTimeInv => OnTimeInv'
    BY DEF OnTimeInv, OnTime, Since, Needs
  <2> QED
    BY <2>1, <2>2, <2>3 DEF TimerInv
<1> QED
  BY <1>1, <1>2, <1>3, <1>4, <1>5, <1>6, <1>7, <1>8 DEF Next

(***************************************************************************)
(* Where idt_init and kernel_main are, the 8259s and the calls of sleep    *)
(* agree in every state, for any rates.                                    *)
(***************************************************************************)
THEOREM TimerInvariant == Spec => []TimerInv
<1>1. Init => TimerInv
  BY InitiallyInv
<1>2. TimerInv /\ [Next]_vars => TimerInv'
  BY NextInv
<1> QED
  BY <1>1, <1>2, PTL DEF Spec

(***************************************************************************)
(* The counter, the calls of sleep and the 8259s keep their types; a sleep *)
(* waits for a tick at least and for no more than the counter can count.   *)
(***************************************************************************)
THEOREM TimerTypeCorrect == Spec => []TypeOK
<1>1. TimerInv => TypeOK
  BY DEF TimerInv
<1> QED
  BY <1>1, TimerInvariant, PTL

\* After idt_init, what is requested and not masked is for a handler of ours.
LEMMA InvHandlers == TimerInv => InterruptsHaveHandlers
<1> SUFFICES ASSUME TimerInv, boot # "idt", NEW line \in Lines, Unmasked(pics, line)
             PROVE  <<line, Handler(step, pics, line)>> \in
                        {<<0, "irq0_handler">>, <<1, "irq1_handler">>}
  BY DEF InterruptsHaveHandlers
<1>1. TypeOK /\ ChipsInv /\ step > LastStep
  <2>1. LastStep = 13
    BY Bytes DEF LastStep
  <2> QED
    BY <2>1 DEF TimerInv, BootInv, TypeOK
<1> QED
  BY <1>1, TwoLines

(***************************************************************************)
(* Whatever the devices requested before sti, and whenever, no interrupt   *)
(* is taken that has no handler: pic_remap leaves two lines, at vectors    *)
(* that no exception uses.                                                 *)
(***************************************************************************)
THEOREM LinesHaveHandlers == Spec => []InterruptsHaveHandlers
BY TimerInvariant, InvHandlers, PTL

\* A call of sleep that returns lacks no more than it may, and is not too long if no
\* other call was open and the PIT was set.
LEMMA SleptAsAsked ==
    ASSUME RatesFit, TimerInv, OnTimeInv, WakeUp
    PROVE  /\ AtLeast(Top) + Lacks(Top) > Asked(Top)
           /\ Top.alone /\ Top.set => ~TooLong(Top)
<1>1. /\ running \in Stacks /\ sleeps[running] # <<>> /\ TypeOK /\ BootInv
  BY DEF TimerInv, TypeOK, WakeUp, Now
<1>2. PICK n : n \in DOMAIN sleeps[running] /\ Top = sleeps[running][n]
  BY <1>1, OpenCall DEF Top, Now
<1>3. PICK c \in CallType : c = Top /\ c = sleeps[running][n]
  BY <1>1, <1>2, OpenCall
<1>4. CallInv(running, n) /\ OnTime(running, n)
  BY <1>1, <1>2 DEF TimerInv, CallsInv, OnTimeInv
<1>5. /\ c.ticks_to_wait = ToTicks(c.ms) /\ (c.set => boot \in {"task", "idle"})
      /\ TooLong(c) \/ c.counted >= Since(c) * reload
  BY <1>3, <1>4 DEF CallInv
<1>6. PICK e \in Nat : e = Since(c)
  BY <1>1, SinceIs
<1>7. PICK N \in Nat : N = c.ticks_to_wait /\ e >= N
  <2>1. c.ticks_to_wait \in Nat
    BY ModulusAssumption DEF CallType
  <2>2. ~(Since(c) < c.ticks_to_wait)
    BY <1>3 DEF WakeUp, Waits, Elapsed
  <2> QED
    BY <1>6, <2>1, <2>2
<1>8. PICK ms \in Delays \cup {Pause} : ms = c.ms
  BY DEF CallType
<1>9. ms \in Nat /\ target_freq \in Frequencies \cup {100}
  BY <1>1, DelaysAssumption DEF TypeOK
<1>10. PICK k \in Nat : k = ms \div (1000 \div target_freq) /\ N >= k
  BY <1>1, <1>5, <1>7, <1>8, ToTicksIs
<1>11. PICK d \in Nat \ {0} : d = PIT_BASE_FREQUENCY \div target_freq
  BY <1>1, ReloadIs
<1>12. PICK r \in Nat : /\ r = (ms % (1000 \div target_freq)) + 1
                         /\ k * (1000 * d) + r * PIT_BASE_FREQUENCY > ms * PIT_BASE_FREQUENCY
  BY <1>8, <1>9, <1>10, <1>11, TicksFit
<1>13. PICK A \in Nat, R \in Nat : A = ms * PIT_BASE_FREQUENCY /\ R = r * PIT_BASE_FREQUENCY
  BY <1>9 DEF PIT_BASE_FREQUENCY
<1>14. Asked(c) = A /\ Period = 1000 * d /\ Lacks(c) = 1000 * d + R
  <2>1. Asked(c) = A
    BY <1>8, <1>13 DEF Asked
  <2>2. Period = 1000 * d
    BY <1>11 DEF Period
  <2>3. Lacks(c) = 1000 * d + R
    BY <1>8, <1>12, <1>13, <2>2 DEF Lacks
  <2> QED
    BY <2>1, <2>2, <2>3
<1>15. PICK x \in Nat : x = reload /\ x >= d
  BY <1>1, <1>11, ReloadIs
<1>16. AtLeast(c) + Lacks(c) > Asked(c)
  <2>1. PICK m \in Nat : m = c.counted /\ AtLeast(c) = 1000 * (m - x)
    BY <1>15 DEF CallType, AtLeast
  <2>2. CASE TooLong(c)
    <3>1. Longer(A, 1000 * d) >= A /\ Longer(A, 1000 * d) \in Nat
      BY DEF Longer
    <3>2. 1000 * (m - x) + 2 * (1000 * d) > Longer(A, 1000 * d) + 4 * (1000 * d)
      BY <1>14, <2>1, <2>2 DEF TooLong, AtMost
    <3> QED
      BY <1>13, <1>14, <2>1, <3>1, <3>2
  <2>3. CASE ~TooLong(c)
    <3>1. m >= e * x
      BY <1>5, <1>6, <1>15, <2>1, <2>3
    <3>2. PICK i \in Nat : e = i + 1 /\ k <= i + 1
      <4>1. e >= 1 /\ k <= e
        BY <1>3, <1>7, <1>10 DEF CallType
      <4>2. e - 1 \in Nat /\ e = (e - 1) + 1
        BY <4>1
      <4> QED
        BY <4>1, <4>2
    <3>3. e * x = i * x + x
      BY <3>2
    <3>4. i * x >= i * d
      BY <1>15, <3>2
    <3>5. k * d <= i * d + d
      <4>1. k * d <= (i + 1) * d
        BY <1>11, <3>2
      <4> QED
        BY <1>11, <4>1
    <3>6. PICK y \in Nat, z \in Nat, w \in Nat : y = i * x /\ z = i * d /\ w = k * d
      BY <1>11
    <3>7. m - x >= z /\ w <= z + d
      BY <3>1, <3>3, <3>4, <3>5, <3>6
    <3>8. k * (1000 * d) = 1000 * w
      BY <1>11, <3>6
    <3>9. 1000 * w + R > A
      BY <1>12, <1>13, <3>8
    <3> QED
      BY <1>11, <1>13, <1>14, <2>1, <3>7, <3>9
  <2> QED
    BY <2>2, <2>3
<1>17. ASSUME c.alone, c.set
       PROVE  ~TooLong(c)
  <2>1. c.counted = Since(c) * reload /\ Since(c) + Needs(running, c) <= c.ticks_to_wait + 3
    BY <1>3, <1>4, <1>17 DEF OnTime
  <2>2. Needs(running, c) \in Nat
    BY DEF Needs
  <2>3. c.counted = e * reload /\ e <= c.ticks_to_wait + 3
    BY <1>6, <1>7, <2>1, <2>2
  <2>4. reload = PIT_BASE_FREQUENCY \div target_freq
    BY <1>1, <1>5, <1>17, ReloadIs
  <2> QED
    BY <1>1, <1>5, <2>3, <2>4, NotTooLong
<1> QED
  BY <1>3, <1>16, <1>17

(***************************************************************************)
(* Where the rates fit, no sleep lacks more of the time it was asked for   *)
(* than a tick, the milliseconds that are no whole tick and one more,      *)
(* whatever wakes it, interrupts it or wraps; and one that nothing         *)
(* interrupts, begun after timer_init, ends less than four ticks after     *)
(* that time, or after one tick.                                           *)
(***************************************************************************)
THEOREM SleepsOnTime ==
    ASSUME RatesFit
    PROVE  Spec => SleepsAsAsked
<1>1. Init => TimerInv /\ OnTimeInv
  BY InitiallyInv
<1>2. TimerInv /\ OnTimeInv /\ [Next]_vars => TimerInv' /\ OnTimeInv'
  BY NextInv
<1>3. TimerInv /\ OnTimeInv =>
          [WakeUp => /\ AtLeast(Top) + Lacks(Top) > Asked(Top)
                     /\ Top.alone /\ Top.set => ~TooLong(Top)]_vars
  BY SleptAsAsked
<1> QED
  BY <1>1, <1>2, <1>3, PTL DEF Spec, SleepsAsAsked
=============================================================================
