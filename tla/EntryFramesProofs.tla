------------------------- MODULE EntryFramesProofs -------------------------
(***************************************************************************)
(* Proofs about modules Descriptors and EntryFrames, for any processes,    *)
(* any set of the interrupts the IDT has rows for and any addresses of the *)
(* stubs and of the TSS.  The invariant follows one entry through the      *)
(* kernel: what is on the stack at each of its stages, and that the table  *)
(* holds the registers of every process but the one that runs.             *)
(***************************************************************************)
EXTENDS EntryFrames, TLAPS, SequenceTheorems

RegNames == Stored \cup Segments \cup {"cs", "ss", "esp"}

-----------------------------------------------------------------------------
(* The invariant. *)

\* What is in registers and on the stack.
Word ==
  {<<p, f, v>> : p \in Procs \cup {"kernel"}, f \in Stored, v \in Versions \cup {"answer"}}
    \cup { <<"cpu", "err", 0>> } \cup Int \cup {"k1", "k2", "k3"}

EFTypes ==
  /\ regs \in [RegNames -> Word]
  /\ stack \in Seq(Word)
  /\ vector \in Vectors \cup {32}
  /\ cur \in Procs \cup {"kernel"}
  /\ table \in [Procs -> [Stored -> Word]]
  /\ last \in [Procs -> [Stored -> Word]]

\* A process that does not run has in the table what it was interrupted with.
TableInv == \A p \in Procs : p # cur => table[p] = last[p]

\* Registers of a process, and of kernel_main's last loop.
UserRegs == regs["cs"] = USER_CODE_SEL /\ \A f \in Segments \cup {"ss"} : regs[f] = USER_DATA_SEL
KernelWordsIn == \A f \in Stored : regs[f] = <<"kernel", f, 0>>
KernelRegs == regs["cs"] \in BootCs /\ KernelWordsIn

RunInv ==
  pc = "run" => IF cur = "kernel" THEN KernelRegs /\ stack = KernelWords ELSE UserRegs

\* What the processor has pushed.
Pushed(n, outer) ==
  (IF n \in ErrorVectors THEN << <<"cpu", "err", 0>> >> ELSE <<>>)
    \o <<regs["eip"], regs["cs"], regs["eflags"]>> \o outer

StubInv ==
  pc = "stub" =>
    IF cur = "kernel"
    THEN KernelRegs /\ vector \in 32 .. 47 /\ stack = Pushed(vector, KernelWords)
    ELSE /\ UserRegs /\ last[cur] = [f \in Stored |-> regs[f]]
         /\ stack = Pushed(vector, <<regs["useresp"], regs["ss"]>>)

\* What struct regs shows of a process, and of the loop.
UserFrame ==
  /\ Len(stack) >= 19
  /\ \A f \in Stored : Fits(f)
  /\ Field("cs") = USER_CODE_SEL /\ \A f \in Segments \cup {"ss"} : Field(f) = USER_DATA_SEL

KernelFrame ==
  /\ Len(stack) = 20 /\ stack[18] = "k1" /\ stack[19] = "k2" /\ stack[20] = "k3"
  /\ \A f \in General \cup {"eip", "eflags"} : Field(f) = <<"kernel", f, 0>>
  /\ Field("cs") \in BootCs
  /\ KernelWordsIn

FrameInv ==
  /\ pc \in {"handler", "fault"} /\ vector \notin {8, 17} => Field("int_no") = vector
  /\ pc = "handler" => vector >= 32 /\ (cur = "kernel" => vector # 128)
  /\ pc \in {"handler", "return"} => IF cur = "kernel" THEN KernelFrame ELSE UserFrame
  /\ pc = "fault" => cur # "kernel" /\ (vector \notin {8, 17} => UserFrame)
  /\ pc = "lost" => cur = "kernel" /\ regs["cs"] \in BootCs \ {KERNEL_CODE_SEL}

EFInv == EFTypes /\ TableInv /\ RunInv /\ StubInv /\ FrameInv

-----------------------------------------------------------------------------
(* The descriptor tables. *)

\* A gate leads to the stub it was set to.
LEMMA StubAddress ==
  ASSUME NEW n \in Vectors, NEW sel, NEW flags
  PROVE  OffsetOf(set_idt_row(Stub(n), sel, flags)) = Stub(n)
<1>1. PICK a \in Nat : a = Stub(n) /\ a \div 65536 < 65536
  BY EntryFramesAssumption
<1>2. (a % 65536) + 65536 * ((a \div 65536) % 65536) = a
  BY <1>1
<1> QED
  BY <1>1, <1>2 DEF OffsetOf, set_idt_row

\* The TSS is where its row says.
LEMMA TssAddress == BaseOf(gdt[5]) = TssEntry
<1>1. PICK a \in Nat : a = TssEntry /\ a \div 65536 < 65536
  BY EntryFramesAssumption
<1>2. (a % 65536) + 65536 * ((a \div 65536) % 256) + 16777216 * ((a \div 16777216) % 256) = a
  BY <1>1
<1> QED
  BY <1>1, <1>2 DEF BaseOf, gdt, set_gdt_row

\* The four segments.
LEMMA FlatRow ==
  ASSUME NEW access \in Nat
  PROVE  FlatSegment(access) =
           [limit_low |-> 65535, base_low |-> 0, base_middle |-> 0, base_high |-> 0,
            access |-> 147 + access, granularity |-> 12, limit_high |-> 15]
<1>1. PICK x \in Int : x = -1
  OBVIOUS
<1>2. x + 1 = 0
  BY <1>1
<1>3. x % 65536 = 65535 /\ x \div 65536 = x /\ x % 16 = 15
  BY <1>2
<1>4. 0 % 65536 = 0 /\ 0 \div 65536 = 0 /\ 0 \div 16777216 = 0 /\ 0 % 256 = 0
  OBVIOUS
<1>5. 128 + 16 + 2 + 1 + access = 147 + access
  OBVIOUS
<1>6. FlatSegment(access) = set_gdt_row(0, x, 147 + access, 12)
  BY <1>1, <1>5 DEF FlatSegment, GDT_ACCESS_PRESENT, GDT_ACCESS_CODEDATA, GDT_ACCESS_RW,
                    GDT_ACCESS_ACCESSED, Pages32Bit
<1> QED
  BY <1>3, <1>4, <1>6 DEF set_gdt_row

LEMMA Rows ==
  /\ IsCode(gdt[1]) /\ ~IsCode(gdt[2]) /\ IsCode(gdt[3]) /\ ~IsCode(gdt[4])
  /\ IsData(gdt[4]) /\ DplOf(gdt[1]) = 0 /\ DplOf(gdt[3]) = 3 /\ DplOf(gdt[4]) = 3
  /\ IsFlat(gdt[3]) /\ IsFlat(gdt[4]) /\ IsTss(gdt[5])
<1>1. /\ gdt[1] = FlatSegment(8) /\ gdt[2] = FlatSegment(0)
      /\ gdt[3] = FlatSegment(104) /\ gdt[4] = FlatSegment(96)
      /\ gdt[5].access = 137
  BY DEF gdt, set_gdt_row, GDT_ACCESS_PRESENT, GDT_ACCESS_DPL_USER, GDT_ACCESS_EXECUTABLE,
         GDT_ACCESS_ACCESSED
<1>2. /\ gdt[1].access = 155 /\ gdt[2].access = 147 /\ gdt[3].access = 251 /\ gdt[4].access = 243
  BY <1>1, FlatRow
<1>3. ASSUME NEW n \in {3, 4} PROVE IsFlat(gdt[n])
  <2>1. PICK a \in Nat : gdt[n] = FlatSegment(a)
    BY <1>1
  <2>2. PICK r : r = gdt[n]
    OBVIOUS
  <2>3. /\ r.limit_low = 65535 /\ r.base_low = 0 /\ r.base_middle = 0 /\ r.base_high = 0
        /\ r.granularity = 12 /\ r.limit_high = 15
    BY <2>1, <2>2, FlatRow
  <2> QED
    BY <2>2, <2>3 DEF IsFlat, BaseOf, LimitOf
<1>4. /\ IsCode(gdt[1]) /\ ~IsCode(gdt[2]) /\ IsCode(gdt[3]) /\ ~IsCode(gdt[4])
      /\ IsData(gdt[4])
  BY <1>2 DEF IsCode, IsData, IsSegment, GDT_ACCESS_PRESENT
<1>5. DplOf(gdt[1]) = 0 /\ DplOf(gdt[3]) = 3 /\ DplOf(gdt[4]) = 3
  BY <1>2 DEF DplOf
<1>6. IsTss(gdt[5])
  BY <1>1 DEF IsTss, GDT_ACCESS_PRESENT
<1> QED
  BY <1>3, <1>4, <1>5, <1>6

-----------------------------------------------------------------------------
(* struct regs, and the order of pushing and popping. *)

\* Where the fields are.
LEMMA SlotOf ==
  /\ Len(struct_regs) = 19
  /\ Slot("gs") = 1 /\ Slot("fs") = 2 /\ Slot("es") = 3 /\ Slot("ds") = 4
  /\ Slot("edi") = 5 /\ Slot("esi") = 6 /\ Slot("ebp") = 7 /\ Slot("ebx") = 9
  /\ Slot("edx") = 10 /\ Slot("ecx") = 11 /\ Slot("eax") = 12 /\ Slot("int_no") = 13
  /\ Slot("eip") = 15 /\ Slot("cs") = 16 /\ Slot("eflags") = 17 /\ Slot("useresp") = 18
  /\ Slot("ss") = 19
  BY DEF Slot, struct_regs

\* Two sequences in a row.
LEMMA Joined ==
  ASSUME NEW W, NEW s \in Seq(W), NEW t \in Seq(W)
  PROVE  /\ s \o t \in Seq(W) /\ Len(s \o t) = Len(s) + Len(t)
         /\ \A k \in 1 .. Len(s) : (s \o t)[k] = s[k]
         /\ \A k \in 1 .. Len(t) : (s \o t)[Len(s) + k] = t[k]
<1>1. /\ s \o t \in Seq(W) /\ Len(s \o t) = Len(s) + Len(t)
      /\ \A i \in 1 .. Len(s) + Len(t) : (s \o t)[i] = IF i <= Len(s) THEN s[i] ELSE t[i - Len(s)]
  BY ConcatProperties
<1>2. PICK u : u = s \o t
  OBVIOUS
<1>3. PICK l \in Nat, m \in Nat : l = Len(s) /\ m = Len(t)
  OBVIOUS
<1>4. \A i \in 1 .. l + m : u[i] = IF i <= l THEN s[i] ELSE t[i - l]
  BY <1>1, <1>2, <1>3
<1>5. \A k \in 1 .. l : u[k] = s[k]
  BY <1>4
<1>6. ASSUME NEW k \in 1 .. m PROVE u[l + k] = t[k]
  <2>1. l + k \in 1 .. l + m /\ ~(l + k <= l) /\ (l + k) - l = k
    OBVIOUS
  <2> QED
    BY <1>4, <2>1
<1> QED
  BY <1>1, <1>2, <1>3, <1>5, <1>6

PushA == <<"eax", "ecx", "edx", "ebx", "esp", "ebp", "esi", "edi">>

\* pusha.
LEMMA PushedAll ==
  ASSUME NEW W, NEW s \in Seq(W), regs \in [RegNames -> W]
  PROVE  LET t == Push(PushA, s)
         IN  /\ t \in Seq(W) /\ Len(t) = 8 + Len(s)
             /\ t[1] = regs["edi"] /\ t[2] = regs["esi"] /\ t[3] = regs["ebp"]
             /\ t[5] = regs["ebx"] /\ t[6] = regs["edx"] /\ t[7] = regs["ecx"] /\ t[8] = regs["eax"]
             /\ \A k \in 1 .. Len(s) : t[8 + k] = s[k]
<1>1. PICK r : r = Reverse([k \in DOMAIN PushA |-> regs[PushA[k]]])
  OBVIOUS
<1>2. DOMAIN PushA = 1 .. 8
  BY DEF PushA
<1>3. /\ r \in Seq(W) /\ Len(r) = 8
      /\ r[1] = regs["edi"] /\ r[2] = regs["esi"] /\ r[3] = regs["ebp"]
      /\ r[5] = regs["ebx"] /\ r[6] = regs["edx"] /\ r[7] = regs["ecx"] /\ r[8] = regs["eax"]
  BY <1>1, <1>2 DEF PushA, Reverse, RegNames, Stored, General
<1>4. Push(PushA, s) = r \o s
  BY <1>1 DEF Push
<1>5. PICK t : t = r \o s
  OBVIOUS
<1>6. /\ t \in Seq(W) /\ Len(t) = 8 + Len(s)
      /\ \A k \in 1 .. 8 : t[k] = r[k]
      /\ \A k \in 1 .. Len(s) : t[8 + k] = s[k]
  <2>1. /\ r \o s \in Seq(W) /\ Len(r \o s) = Len(r) + Len(s)
        /\ \A k \in 1 .. Len(r) : (r \o s)[k] = r[k]
        /\ \A k \in 1 .. Len(s) : (r \o s)[Len(r) + k] = s[k]
    <3>1. r \in Seq(W)
      BY <1>3
    <3> QED
      BY <3>1, Joined
  <2>2. Len(r) = 8
    BY <1>3
  <2> QED
    BY <1>5, <2>1, <2>2
<1> QED
  BY <1>3, <1>4, <1>5, <1>6, SMTT(40)

\* The segments, behind them.
LEMMA PushedSegments ==
  ASSUME NEW W, NEW s \in Seq(W), regs \in [RegNames -> W]
  PROVE  LET t == Push(SegmentPushes, s)
         IN  /\ t \in Seq(W) /\ Len(t) = 4 + Len(s)
             /\ t[1] = regs["gs"] /\ t[2] = regs["fs"] /\ t[3] = regs["es"] /\ t[4] = regs["ds"]
             /\ \A k \in 1 .. Len(s) : t[4 + k] = s[k]
<1>1. PICK r : r = Reverse([k \in DOMAIN SegmentPushes |-> regs[SegmentPushes[k]]])
  OBVIOUS
<1>2. DOMAIN SegmentPushes = 1 .. 4
  BY DEF SegmentPushes
<1>3. /\ r \in Seq(W) /\ Len(r) = 4
      /\ r[1] = regs["gs"] /\ r[2] = regs["fs"] /\ r[3] = regs["es"] /\ r[4] = regs["ds"]
  BY <1>1, <1>2 DEF SegmentPushes, Reverse, RegNames, Segments
<1>4. Push(SegmentPushes, s) = r \o s
  BY <1>1 DEF Push
<1>5. PICK t : t = r \o s
  OBVIOUS
<1>6. /\ t \in Seq(W) /\ Len(t) = 4 + Len(s)
      /\ \A k \in 1 .. 4 : t[k] = r[k]
      /\ \A k \in 1 .. Len(s) : t[4 + k] = s[k]
  <2>1. /\ r \o s \in Seq(W) /\ Len(r \o s) = Len(r) + Len(s)
        /\ \A k \in 1 .. Len(r) : (r \o s)[k] = r[k]
        /\ \A k \in 1 .. Len(s) : (r \o s)[Len(r) + k] = s[k]
    <3>1. r \in Seq(W)
      BY <1>3
    <3> QED
      BY <3>1, Joined
  <2>2. Len(r) = 4
    BY <1>3
  <2> QED
    BY <1>5, <2>1, <2>2
<1> QED
  BY <1>3, <1>4, <1>5, <1>6

\* The way back pops what was pushed where.
PoppedAt(f) == CHOOSE k \in DOMAIN Popped : Popped[k] = f

LEMMA PoppedSlots ==
  /\ FrameStart = 15
  /\ \A f \in General \cup Segments : (\E k \in DOMAIN Popped : Popped[k] = f) /\ PoppedAt(f) = Slot(f)
  /\ \A f \in {"eip", "cs", "eflags", "useresp", "ss", "esp"} : ~\E k \in DOMAIN Popped : Popped[k] = f
<1>1. Len(Popped) = 12 /\ DOMAIN Popped = 1 .. 12
  BY DEF Popped
<1>2. /\ PoppedAt("gs") = 1 /\ PoppedAt("fs") = 2 /\ PoppedAt("es") = 3 /\ PoppedAt("ds") = 4
      /\ PoppedAt("edi") = 5 /\ PoppedAt("esi") = 6 /\ PoppedAt("ebp") = 7 /\ PoppedAt("ebx") = 9
      /\ PoppedAt("edx") = 10 /\ PoppedAt("ecx") = 11 /\ PoppedAt("eax") = 12
  BY DEF PoppedAt, Popped
<1>3. /\ Popped[1] = "gs" /\ Popped[2] = "fs" /\ Popped[3] = "es" /\ Popped[4] = "ds"
      /\ Popped[5] = "edi" /\ Popped[6] = "esi" /\ Popped[7] = "ebp" /\ Popped[9] = "ebx"
      /\ Popped[10] = "edx" /\ Popped[11] = "ecx" /\ Popped[12] = "eax"
  BY DEF Popped
<1>4. \A f \in General \cup Segments : \E k \in DOMAIN Popped : Popped[k] = f
  BY <1>1, <1>3 DEF General, Segments
<1>5. \A f \in General \cup Segments : PoppedAt(f) = Slot(f)
  BY <1>2, SlotOf DEF General, Segments
<1>6. \A f \in {"eip", "cs", "eflags", "useresp", "ss", "esp"} : ~\E k \in DOMAIN Popped : Popped[k] = f
  BY DEF Popped
<1> QED
  BY <1>1, <1>4, <1>5, <1>6 DEF FrameStart

-----------------------------------------------------------------------------
(* The way in. *)

LEMMA Words ==
  /\ \A p \in Procs \cup {"kernel"}, f \in Stored, v \in Versions \cup {"answer"} : <<p, f, v>> \in Word
  /\ <<"cpu", "err", 0>> \in Word
  /\ \A n \in Int : n \in Word
  /\ "k1" \in Word /\ "k2" \in Word /\ "k3" \in Word
<1>1. \A p \in Procs \cup {"kernel"}, f \in Stored, v \in Versions \cup {"answer"} : <<p, f, v>> \in Word
  BY DEF Word
<1>2. <<"cpu", "err", 0>> \in Word
  BY DEF Word
<1>3. \A n \in Int : n \in Word
  BY DEF Word
<1>4. "k1" \in Word /\ "k2" \in Word /\ "k3" \in Word
  BY DEF Word
<1> QED
  BY <1>1, <1>2, <1>3, <1>4

LEMMA LoopWords ==
  KernelWords \in Seq(Word) /\ Len(KernelWords) = 3
  /\ KernelWords[1] = "k1" /\ KernelWords[2] = "k2" /\ KernelWords[3] = "k3"
  BY Words DEF KernelWords

LEMMA InitInv ==
  ASSUME EFInit
  PROVE  EFInv
<1>1. PICK cs \in BootCs :
        regs = [f \in RegNames |-> IF f \in Stored THEN <<"kernel", f, 0>>
                                   ELSE IF f = "cs" THEN cs ELSE KERNEL_DATA_SEL]
  BY DEF EFInit, RegNames
<1>2. cs \in Int
  BY EntryFramesAssumption
<1>3. \A f \in Stored : <<"kernel", f, 0>> \in Word
  BY Words, Zenon DEF Versions
<1>4. regs \in [RegNames -> Word]
  <2>1. cs \in Word /\ KERNEL_DATA_SEL \in Word
    BY <1>2, Words DEF KERNEL_DATA_SEL
  <2> QED
    BY <1>1, <1>3, <2>1
<1>5. table \in [Procs -> [Stored -> Word]] /\ last = table
  <2>1. \A p \in Procs : Context(p, 0) \in [Stored -> Word]
    BY Words, Zenon DEF Context, Versions
  <2> QED
    BY <2>1 DEF EFInit
<1>6. EFTypes
  BY <1>4, <1>5, LoopWords DEF EFInit, EFTypes
<1>7. KernelRegs
  <2>1. "cs" \in RegNames /\ "cs" \notin Stored
    BY DEF RegNames, Stored, General
  <2>2. Stored \subseteq RegNames
    BY DEF RegNames
  <2> QED
    BY <1>1, <2>1, <2>2 DEF KernelRegs, KernelWordsIn
<1> QED
  BY <1>5, <1>6, <1>7 DEF EFInit, EFInv, TableInv, RunInv, StubInv, FrameInv

\* What the processor pushes is a stack.
LEMMA PushedWords ==
  ASSUME regs \in [RegNames -> Word], NEW n, NEW outer \in Seq(Word)
  PROVE  /\ Pushed(n, outer) \in Seq(Word)
         /\ n \notin ErrorVectors =>
              /\ Len(Pushed(n, outer)) = 3 + Len(outer)
              /\ Pushed(n, outer)[1] = regs["eip"] /\ Pushed(n, outer)[2] = regs["cs"]
              /\ Pushed(n, outer)[3] = regs["eflags"]
              /\ \A k \in 1 .. Len(outer) : Pushed(n, outer)[3 + k] = outer[k]
         /\ n \in ErrorVectors =>
              /\ Len(Pushed(n, outer)) = 4 + Len(outer)
              /\ Pushed(n, outer)[2] = regs["eip"] /\ Pushed(n, outer)[3] = regs["cs"]
              /\ Pushed(n, outer)[4] = regs["eflags"]
              /\ \A k \in 1 .. Len(outer) : Pushed(n, outer)[4 + k] = outer[k]
<1>1. PICK a : a = IF n \in ErrorVectors THEN << <<"cpu", "err", 0>> >> ELSE <<>>
  OBVIOUS
<1>2. a \in Seq(Word) /\ Len(a) = IF n \in ErrorVectors THEN 1 ELSE 0
  <2>1. PICK e \in Word : e = <<"cpu", "err", 0>>
    BY Words
  <2>2. <<e>> \in Seq(Word) /\ Len(<<e>>) = 1
    OBVIOUS
  <2> QED
    BY <1>1, <2>1, <2>2
<1>3. PICK x \in Word, y \in Word, z \in Word :
        x = regs["eip"] /\ y = regs["cs"] /\ z = regs["eflags"]
  BY DEF RegNames, Stored
<1>4. PICK b \in Seq(Word) : b = <<x, y, z>> /\ Len(b) = 3 /\ b[1] = x /\ b[2] = y /\ b[3] = z
  <2>1. <<x, y, z>> \in Seq(Word) /\ Len(<<x, y, z>>) = 3
    OBVIOUS
  <2> QED
    BY <2>1
<1>5. PICK m \in Nat : m = Len(a) /\ m = IF n \in ErrorVectors THEN 1 ELSE 0
  BY <1>2
<1>6. PICK c \in Seq(Word) :
        /\ c = a \o b /\ Len(c) = m + 3
        /\ c[m + 1] = x /\ c[m + 2] = y /\ c[m + 3] = z
  <2>1. /\ a \o b \in Seq(Word) /\ Len(a \o b) = Len(a) + Len(b)
        /\ \A k \in 1 .. Len(b) : (a \o b)[Len(a) + k] = b[k]
    <3>1. a \in Seq(Word)
      BY <1>2
    <3> QED
      BY <3>1, Joined
  <2>2. 1 \in 1 .. Len(b) /\ 2 \in 1 .. Len(b) /\ 3 \in 1 .. Len(b)
    BY <1>4
  <2> QED
    BY <1>4, <1>5, <2>1, <2>2
<1>7. PICK d : d = Pushed(n, outer)
  OBVIOUS
<1>8. d = c \o outer
  BY <1>1, <1>3, <1>4, <1>6, <1>7 DEF Pushed
<1>9. /\ d \in Seq(Word) /\ Len(d) = m + 3 + Len(outer)
      /\ d[m + 1] = x /\ d[m + 2] = y /\ d[m + 3] = z
      /\ \A k \in 1 .. Len(outer) : d[m + 3 + k] = outer[k]
  <2>1. /\ c \o outer \in Seq(Word) /\ Len(c \o outer) = Len(c) + Len(outer)
        /\ \A k \in 1 .. Len(c) : (c \o outer)[k] = c[k]
        /\ \A k \in 1 .. Len(outer) : (c \o outer)[Len(c) + k] = outer[k]
    BY Joined
  <2>2. m + 1 \in 1 .. Len(c) /\ m + 2 \in 1 .. Len(c) /\ m + 3 \in 1 .. Len(c)
    BY <1>6
  <2> QED
    BY <1>6, <1>8, <2>1, <2>2
<1> QED
  BY <1>3, <1>5, <1>7, <1>9

\* The registers and words an interrupt finds are on the stack.
LEMMA InterruptInv ==
  ASSUME EFInv, NEW n \in Vectors, Interrupt(n)
  PROVE  EFInv'
<1>1. n \in Int /\ (n < 48 \/ n = 128)
  BY EntryFramesAssumption
<1>2. vector' = n
  <2>1. PICK k \in Vectors : OffsetOf(idt_row(n)) = Stub(k) /\ vector' = k
    BY DEF Interrupt
  <2>2. OffsetOf(idt_row(n)) = Stub(n)
    BY <1>1, StubAddress DEF idt_row
  <2> QED
    <3>1. Stub(n) = Stub(k) => n = k
      BY EntryFramesAssumption
    <3> QED
      BY <2>1, <2>2, <3>1
<1>3. /\ pc = "run" /\ pc' = "stub" /\ UNCHANGED <<regs, cur, table>>
      /\ stack' = Interrupted(n)
      /\ cur = "kernel" => n \in 32 .. 47
      /\ cur \in Procs => last' = [last EXCEPT ![cur] = [f \in Stored |-> regs[f]]]
      /\ cur = "kernel" => last' = last
  <2>1. n < 32 => Ring = 3
    BY DEF Interrupt
  <2>2. n = 128 => Ring = 3
    BY DEF Interrupt
  <2>3. cur = "kernel" => Ring = 0
    BY DEF Ring
  <2>4. cur \in Procs => Ring = 3
    BY EntryFramesAssumption DEF Ring
  <2>5. cur = "kernel" => n \in 32 .. 47
    BY <1>1, <2>1, <2>2, <2>3, EntryFramesAssumption
  <2> QED
    BY <2>3, <2>4, <2>5 DEF Interrupt
<1>4. EFTypes /\ RunInv /\ TableInv
  BY DEF EFInv
<1>5. CASE cur = "kernel"
  <2>1. KernelRegs /\ stack = KernelWords
    BY <1>3, <1>4, <1>5 DEF RunInv
  <2>2. stack' = Pushed(n, KernelWords)
    BY <1>2, <1>3, <1>5, <2>1 DEF Interrupted, Pushed, Ring, KernelWords
  <2>3. KernelRegs'
    BY <1>3, <2>1 DEF KernelRegs, KernelWordsIn
  <2>4. stack' \in Seq(Word)
    BY <1>4, <2>2, LoopWords, PushedWords DEF EFTypes
  <2>5. stack' = Pushed(vector, KernelWords)'
    BY <1>2, <1>3, <2>2 DEF Pushed, KernelWords
  <2> QED
    BY <1>2, <1>3, <1>4, <1>5, <2>3, <2>4, <2>5
       DEF EFInv, EFTypes, TableInv, RunInv, StubInv, FrameInv
<1>6. CASE cur \in Procs
  <2>1. UserRegs /\ cur # "kernel"
    BY <1>3, <1>4, <1>6, EntryFramesAssumption DEF RunInv
  <2>2. stack' = Pushed(n, <<regs["useresp"], regs["ss"]>>)
    BY <1>2, <1>3, <2>1 DEF Interrupted, Pushed, Ring
  <2>3. UserRegs'
    BY <1>3, <2>1 DEF UserRegs
  <2>4. stack' \in Seq(Word)
    <3>1. PICK x \in Word, y \in Word : x = regs["useresp"] /\ y = regs["ss"]
      BY <1>4 DEF EFTypes, RegNames, Stored
    <3>2. <<x, y>> \in Seq(Word)
      OBVIOUS
    <3> QED
      BY <1>4, <2>2, <3>1, <3>2, PushedWords DEF EFTypes
  <2>5. [f \in Stored |-> regs[f]] \in [Stored -> Word]
    BY <1>4 DEF EFTypes, RegNames
  <2>6. last' \in [Procs -> [Stored -> Word]] /\ last'[cur] = [f \in Stored |-> regs[f]]
        /\ \A p \in Procs : p # cur => last'[p] = last[p]
    <3>1. PICK d \in [Stored -> Word] : d = [f \in Stored |-> regs[f]]
      BY <2>5
    <3>2. last' = [last EXCEPT ![cur] = d] /\ last \in [Procs -> [Stored -> Word]]
      BY <1>3, <1>4, <1>6, <3>1 DEF EFTypes
    <3>3. /\ last' \in [Procs -> [Stored -> Word]] /\ last'[cur] = d
          /\ \A p \in Procs : p # cur => last'[p] = last[p]
      BY <1>6, <3>2
    <3> QED
      BY <3>1, <3>3, Zenon
  <2>7. TableInv'
    BY <1>3, <1>4, <2>6 DEF TableInv
  <2>8. EFTypes'
    BY <1>2, <1>3, <1>4, <2>4, <2>6 DEF EFTypes
  <2>9. StubInv'
    <3>1. stack' = Pushed(vector, <<regs["useresp"], regs["ss"]>>)'
      BY <1>2, <1>3, <2>2 DEF Pushed
    <3> QED
      BY <1>3, <2>1, <2>3, <2>6, <3>1 DEF StubInv
  <2> QED
    BY <1>3, <2>7, <2>8, <2>9 DEF EFInv, RunInv, FrameInv
<1> QED
  BY <1>4, <1>5, <1>6 DEF EFTypes

Stubbed(n, outer) == StubWords(n) \o Pushed(n, outer)

FrameOn(s, n, outer) ==
  /\ s \in Seq(Word) /\ Len(s) = 5 + Len(outer) /\ s[1] = n
  /\ s[3] = regs["eip"] /\ s[4] = regs["cs"] /\ s[5] = regs["eflags"]
  /\ \A k \in 1 .. Len(outer) : s[5 + k] = outer[k]

\* With the stub's words, the frame begins at the third for every vector but 8 and 17.
LEMMA StubbedWords ==
  ASSUME regs \in [RegNames -> Word], NEW n \in Int, n \notin {8, 17}, NEW outer \in Seq(Word),
         NEW s, s = Stubbed(n, outer)
  PROVE  FrameOn(s, n, outer)
<1>1. PICK q \in Seq(Word) : q = Pushed(n, outer)
  BY PushedWords
<1>2. n \in Word /\ 0 \in Word
  BY Words
<1>3. PICK l \in Nat : l = Len(outer)
  OBVIOUS
<1>4. CASE n \in 10 .. 14
  <2>1. n \in ErrorVectors
    BY <1>4 DEF ErrorVectors
  <2>2. /\ Len(q) = 4 + l /\ q[2] = regs["eip"] /\ q[3] = regs["cs"] /\ q[4] = regs["eflags"]
        /\ \A k \in 1 .. l : q[4 + k] = outer[k]
    BY <1>1, <1>3, <2>1, PushedWords
  <2>3. PICK w \in Seq(Word) : w = StubWords(n) /\ Len(w) = 1 /\ w[1] = n
    <3>1. <<n>> \in Seq(Word)
      BY <1>2
    <3> QED
      BY <1>4, <3>1 DEF StubWords
  <2>4. /\ w \o q \in Seq(Word) /\ Len(w \o q) = Len(w) + Len(q)
        /\ \A k \in 1 .. Len(w) : (w \o q)[k] = w[k]
        /\ \A k \in 1 .. Len(q) : (w \o q)[Len(w) + k] = q[k]
    BY Joined
  <2>5. s \in Seq(Word) /\ Len(s) = 5 + l /\ s[1] = n /\ \A k \in 1 .. 4 + l : s[1 + k] = q[k]
    BY <1>1, <2>2, <2>3, <2>4 DEF Stubbed
  <2>6. s[3] = q[2] /\ s[4] = q[3] /\ s[5] = q[4]
    <3>1. 2 \in 1 .. 4 + l /\ 3 \in 1 .. 4 + l /\ 4 \in 1 .. 4 + l
      OBVIOUS
    <3> QED
      BY <2>5, <3>1
  <2>7. ASSUME NEW k \in 1 .. l PROVE s[5 + k] = outer[k]
    <3>1. 4 + k \in 1 .. 4 + l /\ 1 + (4 + k) = 5 + k
      OBVIOUS
    <3> QED
      BY <2>2, <2>5, <3>1
  <2> QED
    BY <1>3, <2>2, <2>5, <2>6, <2>7 DEF FrameOn
<1>5. CASE n \notin 10 .. 14
  <2>1. n \notin ErrorVectors
    BY <1>5 DEF ErrorVectors
  <2>2. /\ Len(q) = 3 + l /\ q[1] = regs["eip"] /\ q[2] = regs["cs"] /\ q[3] = regs["eflags"]
        /\ \A k \in 1 .. l : q[3 + k] = outer[k]
    BY <1>1, <1>3, <2>1, PushedWords
  <2>3. PICK w \in Seq(Word) : w = StubWords(n) /\ Len(w) = 2 /\ w[1] = n
    <3>1. <<n, 0>> \in Seq(Word)
      BY <1>2
    <3> QED
      BY <1>5, <3>1 DEF StubWords
  <2>4. /\ w \o q \in Seq(Word) /\ Len(w \o q) = Len(w) + Len(q)
        /\ \A k \in 1 .. Len(w) : (w \o q)[k] = w[k]
        /\ \A k \in 1 .. Len(q) : (w \o q)[Len(w) + k] = q[k]
    BY Joined
  <2>5. s \in Seq(Word) /\ Len(s) = 5 + l /\ s[1] = n /\ \A k \in 1 .. 3 + l : s[2 + k] = q[k]
    BY <1>1, <2>2, <2>3, <2>4 DEF Stubbed
  <2>6. s[3] = q[1] /\ s[4] = q[2] /\ s[5] = q[3]
    <3>1. 1 \in 1 .. 3 + l /\ 2 \in 1 .. 3 + l /\ 3 \in 1 .. 3 + l
      OBVIOUS
    <3> QED
      BY <2>5, <3>1
  <2>7. ASSUME NEW k \in 1 .. l PROVE s[5 + k] = outer[k]
    <3>1. 3 + k \in 1 .. 3 + l /\ 2 + (3 + k) = 5 + k
      OBVIOUS
    <3> QED
      BY <2>2, <2>5, <3>1
  <2> QED
    BY <1>3, <2>2, <2>5, <2>6, <2>7 DEF FrameOn
<1> QED
  BY <1>4, <1>5

\* pusha and the segments on top of s.
LEMMA EnteredWords ==
  ASSUME regs \in [RegNames -> Word], NEW s \in Seq(Word),
         NEW t, t = Push(SegmentPushes, Push(PushA, s))
  PROVE  /\ t \in Seq(Word) /\ Len(t) = 12 + Len(s)
         /\ t[1] = regs["gs"] /\ t[2] = regs["fs"] /\ t[3] = regs["es"] /\ t[4] = regs["ds"]
         /\ t[5] = regs["edi"] /\ t[6] = regs["esi"] /\ t[7] = regs["ebp"]
         /\ t[9] = regs["ebx"] /\ t[10] = regs["edx"] /\ t[11] = regs["ecx"] /\ t[12] = regs["eax"]
         /\ \A k \in 1 .. Len(s) : t[12 + k] = s[k]
<1>1. PICK l \in Nat : l = Len(s)
  OBVIOUS
<1>2. PICK u \in Seq(Word) : u = Push(PushA, s)
  BY PushedAll
<1>3. /\ Len(u) = 8 + l
      /\ u[1] = regs["edi"] /\ u[2] = regs["esi"] /\ u[3] = regs["ebp"]
      /\ u[5] = regs["ebx"] /\ u[6] = regs["edx"] /\ u[7] = regs["ecx"] /\ u[8] = regs["eax"]
      /\ \A k \in 1 .. l : u[8 + k] = s[k]
  BY <1>1, <1>2, PushedAll
<1>4. /\ t \in Seq(Word) /\ Len(t) = 12 + l
      /\ t[1] = regs["gs"] /\ t[2] = regs["fs"] /\ t[3] = regs["es"] /\ t[4] = regs["ds"]
      /\ \A k \in 1 .. 8 + l : t[4 + k] = u[k]
  <2>1. /\ t \in Seq(Word) /\ Len(t) = 4 + Len(u)
        /\ t[1] = regs["gs"] /\ t[2] = regs["fs"] /\ t[3] = regs["es"] /\ t[4] = regs["ds"]
        /\ \A k \in 1 .. Len(u) : t[4 + k] = u[k]
    BY <1>2, PushedSegments
  <2> QED
    BY <1>3, <2>1
<1>5. /\ t[5] = u[1] /\ t[6] = u[2] /\ t[7] = u[3] /\ t[9] = u[5] /\ t[10] = u[6]
      /\ t[11] = u[7] /\ t[12] = u[8]
  BY <1>4
<1>6. ASSUME NEW k \in 1 .. l PROVE t[12 + k] = s[k]
  <2>1. 8 + k \in 1 .. 8 + l /\ 4 + (8 + k) = 12 + k
    OBVIOUS
  <2> QED
    BY <1>3, <1>4, <2>1
<1> QED
  BY <1>1, <1>3, <1>4, <1>5, <1>6

\* So a handler finds in struct regs what was interrupted.
LEMMA EnterKernelInv ==
  ASSUME EFInv, EnterKernel
  PROVE  EFInv'
<1>1. /\ EFTypes /\ TableInv /\ StubInv /\ pc = "stub" /\ UNCHANGED <<vector, cur, table, last>>
      /\ regs \in [RegNames -> Word] /\ stack \in Seq(Word) /\ vector \in Int
      /\ pc' = IF vector < 32 THEN "fault" ELSE "handler"
  <2>1. vector \in Int
    BY EntryFramesAssumption DEF EFInv, EFTypes
  <2> QED
    BY <2>1 DEF EFInv, EFTypes, EnterKernel
<1>2. PICK s : s = StubWords(vector) \o stack
  OBVIOUS
<1>3. s \in Seq(Word)
  <2>1. <<vector>> \in Seq(Word) /\ <<vector, 0>> \in Seq(Word)
    BY <1>1, Words
  <2>2. StubWords(vector) \in Seq(Word)
    BY <2>1 DEF StubWords
  <2> QED
    BY <1>1, <1>2, <2>2, Joined
<1>4. stack' = Push(SegmentPushes, Push(PushA, s))
  BY <1>2 DEF EnterKernel, PushA
<1>5. PICK t : t = stack'
  OBVIOUS
<1>6. /\ t \in Seq(Word) /\ Len(t) = 12 + Len(s)
      /\ t[1] = regs["gs"] /\ t[2] = regs["fs"] /\ t[3] = regs["es"] /\ t[4] = regs["ds"]
      /\ t[5] = regs["edi"] /\ t[6] = regs["esi"] /\ t[7] = regs["ebp"]
      /\ t[9] = regs["ebx"] /\ t[10] = regs["edx"] /\ t[11] = regs["ecx"] /\ t[12] = regs["eax"]
      /\ \A k \in 1 .. Len(s) : t[12 + k] = s[k]
  BY <1>1, <1>3, <1>4, <1>5, EnteredWords, ZenonT(40)
<1>7. /\ regs' \in [RegNames -> Word]
      /\ \A f \in Stored : regs'[f] = regs[f]
  <2>1. regs' = [f \in RegNames |-> IF f \in Segments THEN KERNEL_DATA_SEL ELSE regs[f]]
    BY <1>1 DEF EnterKernel
  <2>2. KERNEL_DATA_SEL \in Word
    BY Words DEF KERNEL_DATA_SEL
  <2>3. Stored \subseteq RegNames /\ \A f \in Stored : f \notin Segments
    BY DEF RegNames, Stored, General, Segments
  <2> QED
    BY <1>1, <2>1, <2>2, <2>3
<1>8. EFTypes' /\ TableInv'
  BY <1>1, <1>5, <1>6, <1>7 DEF EFTypes, TableInv
<1>9. CASE cur = "kernel"
  <2>1. KernelRegs /\ vector \in 32 .. 47 /\ stack = Pushed(vector, KernelWords)
    BY <1>1, <1>9 DEF StubInv
  <2>2. /\ Len(s) = 8 /\ s[1] = vector /\ s[3] = regs["eip"] /\ s[4] = regs["cs"] /\ s[5] = regs["eflags"]
        /\ \A k \in 1 .. 3 : s[5 + k] = KernelWords[k]
    <3>1. vector \notin {8, 17}
      BY <2>1
    <3>2. Len(KernelWords) = 3 /\ KernelWords \in Seq(Word)
      BY LoopWords
    <3>3. /\ Len(s) = 5 + Len(KernelWords) /\ s[1] = vector
          /\ s[3] = regs["eip"] /\ s[4] = regs["cs"] /\ s[5] = regs["eflags"]
          /\ \A k \in 1 .. Len(KernelWords) : s[5 + k] = KernelWords[k]
      <4>1. PICK n \in Int, o \in Seq(Word) : n = vector /\ o = KernelWords /\ n \notin {8, 17}
        BY <1>1, <3>1, <3>2
      <4>2. s = Stubbed(n, o) /\ regs \in [RegNames -> Word]
        BY <1>1, <1>2, <2>1, <4>1 DEF Stubbed
      <4>3. FrameOn(s, n, o)
        BY <4>1, <4>2, StubbedWords, Zenon
      <4> QED
        BY <4>1, <4>3 DEF FrameOn
    <3> QED
      BY <3>2, <3>3
  <2>3. /\ Len(t) = 20 /\ t[13] = vector /\ t[15] = regs["eip"] /\ t[16] = regs["cs"]
        /\ t[17] = regs["eflags"] /\ t[18] = "k1" /\ t[19] = "k2" /\ t[20] = "k3"
    <3>1. s[6] = KernelWords[1] /\ s[7] = KernelWords[2] /\ s[8] = KernelWords[3]
      BY <2>2
    <3>2. \A k \in 1 .. 8 : t[12 + k] = s[k]
      BY <1>6, <2>2
    <3>3. /\ t[13] = s[1] /\ t[15] = s[3] /\ t[16] = s[4] /\ t[17] = s[5] /\ t[18] = s[6]
          /\ t[19] = s[7] /\ t[20] = s[8]
      BY <3>2
    <3> QED
      BY <1>6, <2>2, <3>1, <3>3, LoopWords
  <2>4. \A f \in General \cup {"eip", "eflags"} : t[Slot(f)] = regs[f]
    BY <1>6, <2>3, SlotOf, SMTT(40) DEF General
  <2>5. KernelFrame'
    <3>1. \A f \in General \cup {"eip", "eflags"} : t[Slot(f)] = <<"kernel", f, 0>>
      BY <2>1, <2>4 DEF KernelRegs, KernelWordsIn, Stored
    <3>2. t[Slot("cs")] \in BootCs
      BY <2>1, <2>3, SlotOf DEF KernelRegs
    <3>3. KernelWordsIn'
      BY <1>7, <2>1 DEF KernelRegs, KernelWordsIn
    <3> QED
      BY <1>5, <2>3, <3>1, <3>2, <3>3 DEF KernelFrame, Field, Slot, struct_regs
  <2>6. Field("int_no")' = vector
    BY <1>5, <2>3, SlotOf DEF Field, Slot, struct_regs
  <2>7. FrameInv'
    BY <1>1, <1>9, <2>1, <2>5, <2>6 DEF FrameInv
  <2> QED
    BY <1>1, <1>8, <2>7 DEF EFInv, RunInv, StubInv
<1>10. CASE cur # "kernel"
  <2>1. /\ UserRegs /\ last[cur] = [f \in Stored |-> regs[f]]
        /\ stack = Pushed(vector, <<regs["useresp"], regs["ss"]>>)
    BY <1>1, <1>10 DEF StubInv
  <2>2. ASSUME vector \notin {8, 17} PROVE UserFrame' /\ Field("int_no")' = vector
    <3>1. PICK x \in Word, y \in Word : x = regs["useresp"] /\ y = regs["ss"]
      BY <1>1 DEF RegNames, Stored
    <3>2. PICK o \in Seq(Word) : o = <<x, y>> /\ Len(o) = 2 /\ o[1] = x /\ o[2] = y
      <4>1. <<x, y>> \in Seq(Word)
        OBVIOUS
      <4> QED
        BY <4>1
    <3>3. /\ Len(s) = 7 /\ s[1] = vector /\ s[3] = regs["eip"] /\ s[4] = regs["cs"]
          /\ s[5] = regs["eflags"] /\ \A k \in 1 .. 2 : s[5 + k] = o[k]
      <4>1. PICK n \in Int : n = vector /\ n \notin {8, 17}
        BY <1>1, <2>2
      <4>2. s = Stubbed(n, o) /\ regs \in [RegNames -> Word]
        BY <1>1, <1>2, <2>1, <3>1, <3>2, <4>1 DEF Stubbed
      <4>3. FrameOn(s, n, o)
        BY <4>1, <4>2, StubbedWords, Zenon
      <4> QED
        BY <3>2, <4>1, <4>3 DEF FrameOn
    <3>4. /\ Len(t) = 19 /\ t[13] = vector /\ t[15] = regs["eip"] /\ t[16] = regs["cs"]
          /\ t[17] = regs["eflags"] /\ t[18] = regs["useresp"] /\ t[19] = regs["ss"]
      <4>1. s[6] = regs["useresp"] /\ s[7] = regs["ss"]
        BY <3>1, <3>2, <3>3
      <4>2. \A k \in 1 .. 7 : t[12 + k] = s[k]
        BY <1>6, <3>3
      <4>3. /\ t[13] = s[1] /\ t[15] = s[3] /\ t[16] = s[4] /\ t[17] = s[5] /\ t[18] = s[6]
            /\ t[19] = s[7]
        BY <4>2
      <4> QED
        BY <1>6, <3>3, <4>1, <4>3
    <3>5. \A f \in Stored \cup Segments \cup {"cs", "ss"} : t[Slot(f)] = regs[f]
      BY <1>6, <3>4, SlotOf, SMTT(40) DEF Stored, General, Segments
    <3>6. \A f \in Stored : t[Slot(f)] = last'[cur'][f]
      BY <1>1, <2>1, <3>5
    <3>7. t[Slot("cs")] = USER_CODE_SEL /\ \A f \in Segments \cup {"ss"} : t[Slot(f)] = USER_DATA_SEL
      BY <2>1, <3>5 DEF UserRegs
    <3>8. UserFrame'
      BY <1>5, <3>4, <3>6, <3>7 DEF UserFrame, Fits, Field
    <3>9. Field("int_no")' = vector
      BY <1>5, <3>4, SlotOf DEF Field, Slot, struct_regs
    <3> QED
      BY <3>8, <3>9
  <2>3. FrameInv'
    <3>1. vector >= 32 => vector \notin {8, 17}
      OBVIOUS
    <3> QED
      BY <1>1, <1>10, <2>2, <3>1 DEF FrameInv
  <2> QED
    BY <1>1, <1>8, <2>3 DEF EFInv, RunInv, StubInv
<1> QED
  BY <1>9, <1>10

-----------------------------------------------------------------------------
(* The handler. *)

Saved == Stored \cup Segments \cup {"cs", "ss"}

\* A slot of struct regs is in the frame, and the field's own.
LEMMA Slots ==
  /\ \A f \in Saved : Slot(f) \in 1 .. 19 /\ struct_regs[Slot(f)] = f
  /\ \A k \in 1 .. 19 : Slot(struct_regs[k]) \in 1 .. 19
<1>1. \A f \in Saved : Slot(f) \in 1 .. 19
  BY SlotOf DEF Saved, Stored, General, Segments
<1>2. /\ struct_regs[1] = "gs" /\ struct_regs[2] = "fs" /\ struct_regs[3] = "es"
      /\ struct_regs[4] = "ds" /\ struct_regs[5] = "edi" /\ struct_regs[6] = "esi"
      /\ struct_regs[7] = "ebp" /\ struct_regs[9] = "ebx" /\ struct_regs[10] = "edx"
      /\ struct_regs[11] = "ecx" /\ struct_regs[12] = "eax" /\ struct_regs[15] = "eip"
      /\ struct_regs[16] = "cs" /\ struct_regs[17] = "eflags" /\ struct_regs[18] = "useresp"
      /\ struct_regs[19] = "ss"
  BY DEF struct_regs
<1>3. \A f \in Saved : struct_regs[Slot(f)] = f
  BY <1>2, SlotOf DEF Saved, Stored, General, Segments
<1>4. DOMAIN struct_regs = 1 .. 19
  BY DEF struct_regs
<1>5. ASSUME NEW k \in 1 .. 19 PROVE Slot(struct_regs[k]) \in 1 .. 19
  BY <1>4 DEF Slot
<1> QED
  BY <1>1, <1>3, <1>5

\* What switch_context leaves.
LEMMA Switched ==
  ASSUME NEW new
  PROVE  /\ \A f \in Stored : SwitchedField(f, new) = new[f]
         /\ \A f \in Segments \cup {"ss"} : SwitchedField(f, new) = USER_DATA_SEL
         /\ SwitchedField("cs", new) = USER_CODE_SEL
         /\ \A f : f \notin Stored => SwitchedField(f, new) \in {USER_DATA_SEL, USER_CODE_SEL, Field(f)}
<1>1. /\ \A f \in Stored : f \notin Segments \cup {"ss"} /\ f # "cs"
      /\ "cs" \notin Stored \cup Segments \cup {"ss"}
  BY DEF Stored, General, Segments
<1>2. \A f \in Stored : SwitchedField(f, new) = new[f]
  BY <1>1 DEF SwitchedField
<1>3. \A f \in Segments \cup {"ss"} : SwitchedField(f, new) = USER_DATA_SEL
  BY <1>1 DEF SwitchedField
<1>4. SwitchedField("cs", new) = USER_CODE_SEL
  BY <1>1 DEF SwitchedField
<1>5. ASSUME NEW f, f \notin Stored
      PROVE  SwitchedField(f, new) \in {USER_DATA_SEL, USER_CODE_SEL, Field(f)}
  <2>1. CASE f \in Segments \cup {"ss"}
    BY <1>3, <2>1
  <2>2. CASE f = "cs"
    BY <1>4, <2>2
  <2>3. CASE f \notin Segments \cup {"ss"} /\ f # "cs"
    BY <1>5, <2>3 DEF SwitchedField
  <2> QED
    BY <2>1, <2>2, <2>3
<1> QED
  BY <1>2, <1>3, <1>4, <1>5

\* A switch stores the one that runs and leaves the frame of the other.
LEMMA ScheduleInv ==
  ASSUME EFInv, pc = "handler", schedule, pc' = "return", UNCHANGED <<regs, vector>>
  PROVE  EFInv'
<1>1. EFTypes /\ TableInv /\ (IF cur = "kernel" THEN KernelFrame ELSE UserFrame)
  BY DEF EFInv, FrameInv
<1>2. PICK p \in Procs :
        /\ table' = IF cur \in Procs THEN [table EXCEPT ![cur] = store_registers] ELSE table
        /\ cur' = p
        /\ stack' = [k \in DOMAIN stack |-> IF k <= Len(struct_regs)
                                            THEN SwitchedField(struct_regs[k], table'[p]) ELSE stack[k]]
        /\ UNCHANGED last
  BY DEF schedule
<1>3. PICK l \in Nat : l = Len(stack) /\ l >= 19 /\ DOMAIN stack = 1 .. l
  <2>1. Len(stack) \in Nat /\ DOMAIN stack = 1 .. Len(stack)
    BY <1>1 DEF EFTypes
  <2>2. Len(stack) >= 19
    BY <1>1, <2>1 DEF KernelFrame, UserFrame
  <2> QED
    BY <2>1, <2>2
<1>4. ASSUME cur \in Procs PROVE store_registers = last[cur]
  <2>1. cur # "kernel"
    BY <1>4, EntryFramesAssumption
  <2>2. \A f \in Stored : Field(f) = last[cur][f]
    BY <1>1, <2>1 DEF UserFrame, Fits
  <2>3. last[cur] \in [Stored -> Word]
    BY <1>1, <1>4 DEF EFTypes
  <2> QED
    BY <2>2, <2>3 DEF store_registers
<1>5. table' \in [Procs -> [Stored -> Word]] /\ \A q \in Procs : table'[q] = last[q]
  <2>1. CASE cur \in Procs
    <3>1. table' = [table EXCEPT ![cur] = last[cur]]
      BY <1>2, <1>4, <2>1
    <3>2. last[cur] \in [Stored -> Word]
      BY <1>1, <2>1 DEF EFTypes
    <3> QED
      BY <1>1, <2>1, <3>1, <3>2 DEF EFTypes, TableInv
  <2>2. CASE cur \notin Procs
    BY <1>1, <1>2, <2>2 DEF EFTypes, TableInv
  <2> QED
    BY <2>1, <2>2
<1>6. PICK new \in [Stored -> Word] : new = table'[p] /\ new = last[p]
  BY <1>5
<1>7. PICK t : t = stack'
  OBVIOUS
<1>8. t = [k \in 1 .. l |-> IF k <= 19 THEN SwitchedField(struct_regs[k], new) ELSE stack[k]]
  BY <1>2, <1>3, <1>6, <1>7, SlotOf
<1>9. t \in Seq(Word) /\ Len(t) = l
  <2>1. ASSUME NEW k \in 1 .. l PROVE stack[k] \in Word
    BY <1>1, <1>3 DEF EFTypes
  <2>2. USER_DATA_SEL \in Word /\ USER_CODE_SEL \in Word
    BY Words DEF USER_DATA_SEL, USER_CODE_SEL
  <2>3. ASSUME NEW k \in 1 .. 19 PROVE SwitchedField(struct_regs[k], new) \in Word
    <3>1. PICK f : f = struct_regs[k]
      OBVIOUS
    <3>2. Field(f) \in Word
      <4>1. Slot(f) \in 1 .. 19
        BY <3>1, Slots
      <4>2. Slot(f) \in 1 .. l
        BY <1>3, <4>1
      <4> QED
        BY <2>1, <4>2 DEF Field
    <3>3. CASE f \in Stored
      BY <1>6, <3>1, <3>3, Switched
    <3>4. CASE f \notin Stored
      BY <2>2, <3>1, <3>2, <3>4, Switched
    <3> QED
      BY <3>3, <3>4
  <2>4. ASSUME NEW k \in 1 .. l
        PROVE  (IF k <= 19 THEN SwitchedField(struct_regs[k], new) ELSE stack[k]) \in Word
    BY <2>1, <2>3
  <2>5. t \in [1 .. l -> Word]
    BY <1>8, <2>4
  <2> QED
    BY <2>5
<1>10. \A f \in Saved : t[Slot(f)] = SwitchedField(f, new)
  <2>1. \A k \in 1 .. 19 : t[k] = SwitchedField(struct_regs[k], new)
    BY <1>3, <1>8
  <2> QED
    BY <2>1, Slots
<1>11. /\ \A f \in Stored : t[Slot(f)] = last[p][f]
       /\ t[Slot("cs")] = USER_CODE_SEL
       /\ \A f \in Segments \cup {"ss"} : t[Slot(f)] = USER_DATA_SEL
  <2>1. \A f \in Stored : t[Slot(f)] = last[p][f]
    BY <1>6, <1>10, Switched DEF Saved
  <2>2. t[Slot("cs")] = USER_CODE_SEL
    BY <1>10, Switched DEF Saved
  <2>3. \A f \in Segments \cup {"ss"} : t[Slot(f)] = USER_DATA_SEL
    BY <1>10, Switched DEF Saved
  <2> QED
    BY <2>1, <2>2, <2>3
<1>12. UserFrame'
  BY <1>2, <1>3, <1>7, <1>9, <1>11 DEF UserFrame, Fits, Field
<1>13. EFTypes' /\ TableInv'
  BY <1>1, <1>2, <1>5, <1>7, <1>9 DEF EFTypes, TableInv
<1>14. cur' # "kernel"
  BY <1>2, EntryFramesAssumption
<1> QED
  BY <1>12, <1>13, <1>14 DEF EFInv, RunInv, StubInv, FrameInv

\* An answer is in eax, on the stack and in the history.
LEMMA AnswerInv ==
  ASSUME EFInv, pc = "handler", Field("int_no") = 128, Answer, pc' = "return",
         UNCHANGED <<regs, vector>>
  PROVE  EFInv'
<1>1. EFTypes /\ TableInv /\ cur # "kernel" /\ cur \in Procs /\ UserFrame
  <2>1. vector >= 32 /\ (cur = "kernel" => vector # 128)
    BY DEF EFInv, FrameInv
  <2>2. vector \in Int
    BY EntryFramesAssumption DEF EFInv, EFTypes
  <2>3. vector \notin {8, 17}
    BY <2>1, <2>2
  <2>4. Field("int_no") = vector
    BY <2>3 DEF EFInv, FrameInv
  <2> QED
    BY <2>1, <2>4 DEF EFInv, EFTypes, FrameInv
<1>2. PICK w : w = <<cur, "eax", "answer">>
  OBVIOUS
<1>3. w \in Word
  BY <1>1, <1>2, Words, Zenon DEF Stored, General
<1>4. PICK t : t = stack'
  OBVIOUS
<1>5. t = [stack EXCEPT ![12] = w] /\ UNCHANGED <<cur, table>>
  BY <1>2, <1>4, SlotOf DEF Answer
<1>6. Len(stack) \in Nat /\ Len(stack) >= 19 /\ stack \in Seq(Word)
  BY <1>1 DEF EFTypes, UserFrame
<1>7. t \in Seq(Word) /\ Len(t) = Len(stack) /\ t[12] = w
      /\ \A k \in 1 .. 19 : k # 12 => t[k] = stack[k]
  BY <1>3, <1>5, <1>6
<1>8. PICK lc \in [Stored -> Word] : lc = last[cur]
  BY <1>1 DEF EFTypes
<1>9. PICK nl \in [Stored -> Word] : nl = [lc EXCEPT !["eax"] = w]
  BY <1>3
<1>10. last' = [last EXCEPT ![cur] = nl]
  BY <1>2, <1>8, <1>9 DEF Answer
<1>11. /\ last' \in [Procs -> [Stored -> Word]] /\ last'[cur] = nl
       /\ \A p \in Procs : p # cur => last'[p] = last[p]
  BY <1>1, <1>10 DEF EFTypes
<1>12. nl["eax"] = w /\ \A f \in Stored : f # "eax" => nl[f] = lc[f]
  BY <1>9 DEF Stored, General
<1>13. \A f \in Saved : f # "eax" => Slot(f) \in 1 .. 19 /\ Slot(f) # 12
  BY SlotOf DEF Saved, Stored, General, Segments
<1>14. ASSUME NEW f \in Saved, f # "eax" PROVE t[Slot(f)] = Field(f)
  <2>1. PICK k \in 1 .. 19 : k = Slot(f) /\ k # 12
    BY <1>13, <1>14
  <2>2. t[k] = stack[k]
    BY <1>7, <2>1
  <2> QED
    BY <2>1, <2>2 DEF Field
<1>15. ASSUME NEW f \in Stored PROVE t[Slot(f)] = last'[cur'][f]
  <2>1. CASE f = "eax"
    BY <1>5, <1>7, <1>11, <1>12, <2>1, SlotOf
  <2>2. CASE f # "eax"
    BY <1>1, <1>5, <1>8, <1>11, <1>12, <1>14, <2>2 DEF Saved, UserFrame, Fits
  <2> QED
    BY <2>1, <2>2
<1>16. t[Slot("cs")] = USER_CODE_SEL /\ \A f \in Segments \cup {"ss"} : t[Slot(f)] = USER_DATA_SEL
  <2>1. "cs" \in Saved /\ \A f \in Segments \cup {"ss"} : f \in Saved /\ f # "eax"
    BY DEF Saved, Segments
  <2> QED
    BY <1>1, <1>14, <2>1 DEF UserFrame
<1>17. UserFrame'
  BY <1>4, <1>6, <1>7, <1>15, <1>16 DEF UserFrame, Fits, Field
<1>18. EFTypes' /\ TableInv'
  BY <1>1, <1>4, <1>5, <1>7, <1>11 DEF EFTypes, TableInv
<1> QED
  BY <1>1, <1>5, <1>17, <1>18 DEF EFInv, RunInv, StubInv, FrameInv

LEMMA HandlerInv ==
  ASSUME EFInv, irq_handler
  PROVE  EFInv'
<1>1. pc = "handler" /\ pc' = "return" /\ UNCHANGED <<regs, vector>>
  BY DEF irq_handler
<1>2. CASE schedule
  BY <1>1, <1>2, ScheduleInv
<1>3. CASE Field("int_no") = 128 /\ Answer
  BY <1>1, <1>3, AnswerInv
<1>4. CASE UNCHANGED <<stack, last, cur, table>>
  <2>1. EFTypes' /\ TableInv'
    BY <1>1, <1>4 DEF EFInv, EFTypes, TableInv
  <2>2. IF cur' = "kernel" THEN KernelFrame' ELSE UserFrame'
    BY <1>1, <1>4 DEF EFInv, FrameInv, KernelFrame, KernelWordsIn, UserFrame, Fits, Field
  <2> QED
    BY <1>1, <2>1, <2>2 DEF EFInv, RunInv, StubInv, FrameInv
<1> QED
  BY <1>2, <1>3, <1>4 DEF irq_handler

-----------------------------------------------------------------------------
(* The way back. *)

ToUser(frame) == Rpl(frame[2]) = 3

\* What a register holds after the pops and an iret from the words in frame.
PopWord(f, frame) ==
  CASE \E k \in DOMAIN Popped : Popped[k] = f -> stack[PoppedAt(f)]
    [] f = "eip"                  -> frame[1]
    [] f = "cs"                   -> frame[2]
    [] f = "eflags"               -> frame[3]
    [] f = "useresp" /\ ToUser(frame) -> frame[4]
    [] f = "ss" /\ ToUser(frame)      -> frame[5]
    [] OTHER                      -> regs[f]

LEMMA PoppedWords ==
  ASSUME NEW frame
  PROVE  /\ \A f \in General \cup Segments : PopWord(f, frame) = Field(f)
         /\ PopWord("eip", frame) = frame[1]
         /\ PopWord("cs", frame) = frame[2]
         /\ PopWord("eflags", frame) = frame[3]
         /\ PopWord("useresp", frame) = IF ToUser(frame) THEN frame[4] ELSE regs["useresp"]
         /\ PopWord("ss", frame) = IF ToUser(frame) THEN frame[5] ELSE regs["ss"]
         /\ PopWord("esp", frame) = regs["esp"]
<1>1. ASSUME NEW f \in General \cup Segments PROVE PopWord(f, frame) = Field(f)
  <2>1. (\E k \in DOMAIN Popped : Popped[k] = f) /\ PoppedAt(f) = Slot(f)
    BY PoppedSlots
  <2>2. f \notin {"eip", "cs", "eflags", "useresp", "ss"}
    BY DEF General, Segments
  <2> QED
    BY <2>1, <2>2 DEF PopWord, Field
<1>2. ASSUME NEW f \in {"eip", "cs", "eflags", "useresp", "ss", "esp"}
      PROVE  ~\E k \in DOMAIN Popped : Popped[k] = f
  BY PoppedSlots
<1>3. PopWord("eip", frame) = frame[1]
  BY <1>2 DEF PopWord
<1>4. PopWord("cs", frame) = frame[2]
  BY <1>2 DEF PopWord
<1>5. PopWord("eflags", frame) = frame[3]
  BY <1>2 DEF PopWord
<1>6. PopWord("useresp", frame) = IF ToUser(frame) THEN frame[4] ELSE regs["useresp"]
  BY <1>2 DEF PopWord
<1>7. PopWord("ss", frame) = IF ToUser(frame) THEN frame[5] ELSE regs["ss"]
  BY <1>2 DEF PopWord
<1>8. PopWord("esp", frame) = regs["esp"]
  BY <1>2 DEF PopWord
<1> QED
  BY <1>1, <1>3, <1>4, <1>5, <1>6, <1>7, <1>8

\* What Return does, with the frame named.
LEMMA Returned ==
  ASSUME EFTypes, Return, Len(stack) >= 19
  PROVE  \E frame \in Seq(Word) :
           /\ Len(frame) = Len(stack) - 14
           /\ \A k \in 1 .. Len(stack) - 14 : frame[k] = stack[14 + k]
           /\ regs' = [f \in RegNames |-> PopWord(f, frame)]
           /\ stack' = SubSeq(frame, IF ToUser(frame) THEN 6 ELSE 4, Len(frame))
           /\ pc' = IF IsCode(RowOf(frame[2])) THEN "run" ELSE "lost"
           /\ UNCHANGED <<vector, cur, table, last>>
<1>1. PICK l \in Nat : l = Len(stack) /\ l >= 19 /\ \A k \in 1 .. l : stack[k] \in Word
  <2>1. Len(stack) \in Nat /\ \A k \in 1 .. Len(stack) : stack[k] \in Word
    BY DEF EFTypes
  <2> QED
    BY <2>1
<1>2. PICK frame : frame = SubSeq(stack, FrameStart, Len(stack))
  OBVIOUS
<1>3. frame = SubSeq(stack, 15, l)
  BY <1>1, <1>2, PoppedSlots
<1>4. /\ frame \in Seq(Word)
      /\ Len(frame) = IF 15 <= l THEN l - 15 + 1 ELSE 0
      /\ \A i \in 1 .. l - 15 + 1 : frame[i] = stack[15 + i - 1]
  <2>1. \A i \in 15 .. l : stack[i] \in Word
    BY <1>1
  <2> QED
    BY <1>3, <2>1, SubSeqProperties
<1>5. Len(frame) = l - 14
  BY <1>1, <1>4
<1>6. ASSUME NEW k \in 1 .. l - 14 PROVE frame[k] = stack[14 + k]
  <2>1. k \in 1 .. l - 15 + 1 /\ 15 + k - 1 = 14 + k
    OBVIOUS
  <2> QED
    BY <1>4, <2>1
<1>7. /\ regs' = [f \in DOMAIN regs |-> PopWord(f, SubSeq(stack, FrameStart, Len(stack)))]
      /\ stack' = SubSeq(SubSeq(stack, FrameStart, Len(stack)),
                         IF ToUser(SubSeq(stack, FrameStart, Len(stack))) THEN 6 ELSE 4,
                         Len(SubSeq(stack, FrameStart, Len(stack))))
      /\ pc' = IF IsCode(RowOf(SubSeq(stack, FrameStart, Len(stack))[2])) THEN "run" ELSE "lost"
      /\ UNCHANGED <<vector, cur, table, last>>
  BY Zenon DEF Return, PopWord, PoppedAt, ToUser
<1>8. /\ regs' = [f \in DOMAIN regs |-> PopWord(f, frame)]
      /\ stack' = SubSeq(frame, IF ToUser(frame) THEN 6 ELSE 4, Len(frame))
      /\ pc' = IF IsCode(RowOf(frame[2])) THEN "run" ELSE "lost"
      /\ UNCHANGED <<vector, cur, table, last>>
  BY <1>2, <1>7
<1>9. DOMAIN regs = RegNames
  BY DEF EFTypes
<1> QED
  BY <1>1, <1>4, <1>5, <1>6, <1>8, <1>9

\* A process goes on as it was interrupted.
LEMMA ReturnToProcess ==
  ASSUME EFInv, Return, cur \in Procs
  PROVE  EFInv' /\ \A f \in Stored : regs'[f] = last[cur][f]
<1>1. EFTypes /\ TableInv /\ UserFrame /\ cur # "kernel"
  BY EntryFramesAssumption, SMTT(40) DEF EFInv, FrameInv, Return
<1>2. PICK l \in Nat : l = Len(stack) /\ l >= 19
  BY <1>1 DEF EFTypes, UserFrame
<1>3. PICK frame \in Seq(Word) :
        /\ Len(frame) = Len(stack) - 14
        /\ \A k \in 1 .. Len(stack) - 14 : frame[k] = stack[14 + k]
        /\ regs' = [f \in RegNames |-> PopWord(f, frame)]
        /\ stack' = SubSeq(frame, IF ToUser(frame) THEN 6 ELSE 4, Len(frame))
        /\ pc' = IF IsCode(RowOf(frame[2])) THEN "run" ELSE "lost"
        /\ UNCHANGED <<vector, cur, table, last>>
  BY <1>1, <1>2, Returned
<1>4. /\ frame[1] = Field("eip") /\ frame[2] = Field("cs") /\ frame[3] = Field("eflags")
      /\ frame[4] = Field("useresp") /\ frame[5] = Field("ss")
  <2>1. \A k \in 1 .. 5 : frame[k] = stack[14 + k]
    BY <1>2, <1>3
  <2>2. /\ frame[1] = stack[15] /\ frame[2] = stack[16] /\ frame[3] = stack[17]
        /\ frame[4] = stack[18] /\ frame[5] = stack[19]
    BY <2>1
  <2> QED
    BY <2>2, SlotOf DEF Field
<1>5. frame[2] = 27
  BY <1>1, <1>4 DEF UserFrame, USER_CODE_SEL
<1>6. ToUser(frame) /\ pc' = "run"
  <2>1. 27 % 4 = 3 /\ 27 \div 8 = 3
    OBVIOUS
  <2> QED
    BY <1>3, <1>5, <2>1, Rows DEF Rpl, RowOf, ToUser
<1>7. ASSUME NEW f \in Saved PROVE PopWord(f, frame) = Field(f)
  <2>1. CASE f \in General \cup Segments
    BY <2>1, PoppedWords
  <2>2. CASE f \in {"eip", "eflags", "useresp", "cs", "ss"}
    BY <1>4, <1>6, <2>2, PoppedWords
  <2> QED
    BY <2>1, <2>2 DEF Saved, Stored
<1>8. Saved \subseteq RegNames /\ RegNames = Saved \cup {"esp"}
  BY DEF Saved, RegNames
<1>9. \A f \in Saved : regs'[f] = Field(f)
  BY <1>3, <1>7, <1>8
<1>10. \A f \in Stored : regs'[f] = last[cur][f]
  BY <1>1, <1>9 DEF Saved, UserFrame, Fits
<1>11. UserRegs'
  BY <1>1, <1>9 DEF Saved, UserFrame, UserRegs
<1>12. regs' \in [RegNames -> Word]
  <2>1. ASSUME NEW f \in Saved PROVE PopWord(f, frame) \in Word
    <3>1. PICK k \in 1 .. 19 : k = Slot(f)
      BY Slots
    <3>2. stack[k] \in Word
      BY <1>1, <1>2 DEF EFTypes
    <3> QED
      BY <1>7, <3>1, <3>2 DEF Field
  <2>2. PopWord("esp", frame) \in Word
    <3>1. regs["esp"] \in Word
      BY <1>1 DEF EFTypes, RegNames
    <3> QED
      BY <3>1, PoppedWords
  <2>3. \A f \in RegNames : PopWord(f, frame) \in Word
    BY <1>8, <2>1, <2>2
  <2> QED
    BY <1>3, <2>3
<1>13. stack' \in Seq(Word)
  <2>1. PICK m \in Nat : m = Len(frame) /\ \A k \in 6 .. m : frame[k] \in Word
    <3>1. Len(frame) \in Nat /\ \A k \in 1 .. Len(frame) : frame[k] \in Word
      OBVIOUS
    <3> QED
      BY <3>1
  <2>2. SubSeq(frame, 6, m) \in Seq(Word)
    BY <2>1, SubSeqProperties
  <2> QED
    BY <1>3, <1>6, <2>1, <2>2
<1>14. EFTypes' /\ TableInv'
  BY <1>1, <1>3, <1>12, <1>13 DEF EFTypes, TableInv
<1> QED
  BY <1>1, <1>3, <1>6, <1>10, <1>11, <1>14 DEF EFInv, RunInv, StubInv, FrameInv

\* The loop finds its words, or iret a data segment in the boot loader's cs.
LEMMA ReturnToLoop ==
  ASSUME EFInv, Return, cur = "kernel"
  PROVE  EFInv'
<1>1. EFTypes /\ TableInv /\ KernelFrame
  BY DEF EFInv, FrameInv, Return
<1>2. Len(stack) = 20 /\ Len(stack) >= 19
  <2>1. Len(stack) = 20
    BY <1>1 DEF KernelFrame
  <2> QED
    BY <2>1
<1>3. PICK frame \in Seq(Word) :
        /\ Len(frame) = Len(stack) - 14
        /\ \A k \in 1 .. Len(stack) - 14 : frame[k] = stack[14 + k]
        /\ regs' = [f \in RegNames |-> PopWord(f, frame)]
        /\ stack' = SubSeq(frame, IF ToUser(frame) THEN 6 ELSE 4, Len(frame))
        /\ pc' = IF IsCode(RowOf(frame[2])) THEN "run" ELSE "lost"
        /\ UNCHANGED <<vector, cur, table, last>>
  BY <1>1, <1>2, Returned
<1>4. /\ Len(frame) = 6
      /\ frame[1] = Field("eip") /\ frame[2] = Field("cs") /\ frame[3] = Field("eflags")
      /\ frame[4] = "k1" /\ frame[5] = "k2" /\ frame[6] = "k3"
  <2>1. Len(frame) = 6 /\ \A k \in 1 .. 6 : frame[k] = stack[14 + k]
    BY <1>2, <1>3
  <2>2. /\ frame[1] = stack[15] /\ frame[2] = stack[16] /\ frame[3] = stack[17]
        /\ frame[4] = stack[18] /\ frame[5] = stack[19] /\ frame[6] = stack[20]
    BY <2>1
  <2> QED
    BY <1>1, <2>1, <2>2, SlotOf DEF Field, KernelFrame
<1>5. PICK n \in 1 .. 4 : frame[2] = 8 * n /\ 8 * n \in BootCs
  <2>1. frame[2] \in BootCs
    BY <1>1, <1>4 DEF KernelFrame
  <2>2. BootCs \subseteq {8 * n : n \in 1 .. 4}
    BY EntryFramesAssumption
  <2>3. PICK n \in 1 .. 4 : frame[2] = 8 * n
    BY <2>1, <2>2, Zenon
  <2> QED
    BY <2>1, <2>3
<1>6. ~ToUser(frame) /\ RowOf(frame[2]) = gdt[n]
  <2>1. (8 * n) % 4 = 0 /\ (8 * n) \div 8 = n
    OBVIOUS
  <2> QED
    BY <1>5, <2>1 DEF Rpl, RowOf, ToUser
<1>7. /\ \A f \in General \cup Segments : PopWord(f, frame) = Field(f)
      /\ PopWord("eip", frame) = Field("eip")
      /\ PopWord("cs", frame) = Field("cs")
      /\ PopWord("eflags", frame) = Field("eflags")
      /\ \A f \in {"useresp", "ss", "esp"} : PopWord(f, frame) = regs[f]
  BY <1>4, <1>6, PoppedWords
<1>8. regs' \in [RegNames -> Word]
  <2>1. ASSUME NEW f \in Saved PROVE Field(f) \in Word
    <3>1. PICK k \in 1 .. 19 : k = Slot(f)
      BY Slots
    <3>2. stack[k] \in Word
      <4>1. k \in 1 .. Len(stack) /\ stack \in Seq(Word)
        BY <1>1, <1>2 DEF EFTypes
      <4> QED
        BY <4>1
    <3> QED
      BY <3>1, <3>2 DEF Field
  <2>2. \A f \in {"useresp", "ss", "esp"} : regs[f] \in Word
    BY <1>1 DEF EFTypes, RegNames, Stored
  <2>3. \A f \in RegNames : PopWord(f, frame) \in Word
    BY <1>7, <2>1, <2>2 DEF Saved, RegNames, Stored
  <2> QED
    BY <1>3, <2>3
<1>9. stack' = KernelWords
  <2>1. stack' = SubSeq(frame, 4, 6)
    BY <1>3, <1>4, <1>6
  <2>2. \A k \in 4 .. 6 : frame[k] \in Word
    <3>1. \A k \in 1 .. Len(frame) : frame[k] \in Word
      OBVIOUS
    <3> QED
      BY <1>4, <3>1
  <2>3. PICK u : u = SubSeq(frame, 4, 6)
    OBVIOUS
  <2>4. /\ u \in Seq(Word) /\ Len(u) = IF 4 <= 6 THEN 6 - 4 + 1 ELSE 0
        /\ \A i \in 1 .. 6 - 4 + 1 : u[i] = frame[4 + i - 1]
    BY <2>2, <2>3, SubSeqProperties
  <2>5. Len(u) = 3 /\ u[1] = frame[4] /\ u[2] = frame[5] /\ u[3] = frame[6]
    BY <2>4
  <2>6. KernelWords \in Seq(Word) /\ Len(KernelWords) = 3
        /\ \A i \in 1 .. 3 : u[i] = KernelWords[i]
    BY <1>4, <2>5, LoopWords
  <2>7. u = KernelWords
    BY <2>4, <2>5, <2>6, SeqEqual
  <2> QED
    BY <2>1, <2>3, <2>7
<1>10. EFTypes' /\ TableInv'
  BY <1>1, <1>3, <1>8, <1>9, LoopWords DEF EFTypes, TableInv
<1>11. KernelRegs'
  <2>1. "cs" \in RegNames /\ Stored \subseteq RegNames
    BY DEF RegNames
  <2>2. regs'["cs"] \in BootCs
    BY <1>1, <1>3, <1>7, <2>1 DEF KernelFrame
  <2>3. ASSUME NEW f \in Stored PROVE regs'[f] = <<"kernel", f, 0>>
    <3>1. regs'[f] = PopWord(f, frame)
      BY <1>3, <2>1
    <3>2. CASE f \in General \cup {"eip", "eflags"}
      BY <1>1, <1>7, <3>1, <3>2 DEF KernelFrame
    <3>3. CASE f = "useresp"
      BY <1>1, <1>7, <3>1, <3>3 DEF KernelFrame, KernelWordsIn
    <3> QED
      BY <3>2, <3>3 DEF Stored
  <2> QED
    BY <2>2, <2>3 DEF KernelRegs, KernelWordsIn
<1>12. pc' = "lost" => regs'["cs"] \in BootCs \ {KERNEL_CODE_SEL}
  <2>1. regs'["cs"] = 8 * n
    BY <1>3, <1>4, <1>5, <1>7 DEF RegNames
  <2>2. pc' = "lost" => n # 1
    BY <1>3, <1>6, Rows
  <2>3. n # 1 => 8 * n # 8
    OBVIOUS
  <2> QED
    BY <1>5, <2>1, <2>2, <2>3 DEF KERNEL_CODE_SEL
<1> QED
  BY <1>3, <1>9, <1>10, <1>11, <1>12 DEF EFInv, RunInv, StubInv, FrameInv

-----------------------------------------------------------------------------
(* The theorems. *)

LEMMA InstructionInv ==
  ASSUME EFInv, NEW p \in Procs, Instruction(p)
  PROVE  EFInv'
<1>1. /\ EFTypes /\ TableInv /\ UserRegs /\ cur = p /\ cur # "kernel" /\ pc = "run"
      /\ UNCHANGED <<stack, pc, vector, cur, table, last>>
  BY EntryFramesAssumption DEF EFInv, RunInv, Instruction
<1>2. PICK v \in Versions :
        regs' = [f \in RegNames |-> IF f \in Stored THEN Context(p, v)[f] ELSE regs[f]]
  BY <1>1 DEF Instruction, EFTypes
<1>3. \A f \in Stored : Context(p, v)[f] \in Word
  BY Words, Zenon DEF Context
<1>4. regs' \in [RegNames -> Word]
  BY <1>1, <1>2, <1>3 DEF EFTypes
<1>5. UserRegs'
  <2>1. \A f \in Segments \cup {"cs", "ss"} : f \in RegNames /\ f \notin Stored
    BY DEF RegNames, Stored, General, Segments
  <2> QED
    BY <1>1, <1>2, <2>1 DEF UserRegs
<1>6. EFTypes' /\ TableInv'
  BY <1>1, <1>4 DEF EFTypes, TableInv
<1> QED
  BY <1>1, <1>5, <1>6 DEF EFInv, RunInv, StubInv, FrameInv

LEMMA StutterInv ==
  ASSUME EFInv, UNCHANGED efvars
  PROVE  EFInv'
<1>1. UNCHANGED <<regs, stack, pc, vector, cur, table, last>>
  BY DEF efvars
<1>2. EFTypes' /\ TableInv'
  BY <1>1 DEF EFInv, EFTypes, TableInv
<1>3. RunInv'
  BY <1>1 DEF EFInv, RunInv, KernelRegs, KernelWordsIn, UserRegs
<1>4. StubInv'
  BY <1>1 DEF EFInv, StubInv, KernelRegs, KernelWordsIn, UserRegs, Pushed
<1>5. FrameInv'
  BY <1>1 DEF EFInv, FrameInv, KernelFrame, KernelWordsIn, UserFrame, Fits, Field
<1> QED
  BY <1>2, <1>3, <1>4, <1>5 DEF EFInv

\* The entry's invariant: at each stage the stack, the registers and the table
\* hold what isr.s, irq.s, irq_handler and the scheduler have left there.
THEOREM FramesInvariant == EFSpec => []EFInv
<1>1. EFInit => EFInv
  BY InitInv
<1>2. EFInv /\ [EFNext]_efvars => EFInv'
  <2>1. SUFFICES ASSUME EFInv, [EFNext]_efvars PROVE EFInv'
    OBVIOUS
  <2>2. ASSUME NEW n \in Vectors, Interrupt(n) PROVE EFInv'
    BY <2>1, <2>2, InterruptInv
  <2>3. CASE EnterKernel
    BY <2>1, <2>3, EnterKernelInv
  <2>4. CASE irq_handler
    BY <2>1, <2>4, HandlerInv
  <2>5. CASE Return
    <3>1. cur \in Procs \/ cur = "kernel"
      BY <2>1 DEF EFInv, EFTypes
    <3> QED
      BY <2>1, <2>5, <3>1, ReturnToProcess, ReturnToLoop
  <2>6. ASSUME NEW p \in Procs, Instruction(p) PROVE EFInv'
    BY <2>1, <2>6, InstructionInv
  <2>7. CASE UNCHANGED efvars
    BY <2>1, <2>7, StutterInv
  <2> QED
    BY <2>1, <2>2, <2>3, <2>4, <2>5, <2>6, <2>7 DEF EFNext
<1> QED
  BY <1>1, <1>2, PTL DEF EFSpec

\* A process runs on the flat segments of ring 3 that init_gdt sets up, and the
\* TSS is where its row says (gdt.c:80-121), for any addresses.
THEOREM SegmentsAreUser == EFSpec => []ProcessSegments
<1>1. EFInv => ProcessSegments
  <2>1. SUFFICES ASSUME EFInv, pc = "run", cur \in Procs
                 PROVE  ProcessSegments
    BY DEF ProcessSegments
  <2>2. UserRegs
    BY <2>1, EntryFramesAssumption DEF EFInv, RunInv
  <2>3. regs["cs"] = 27 /\ \A f \in Segments \cup {"ss"} : regs[f] = 35
    BY <2>2 DEF UserRegs, USER_CODE_SEL, USER_DATA_SEL
  <2>4. RowOf(27) = gdt[3] /\ RowOf(35) = gdt[4] /\ Rpl(27) = 3 /\ Rpl(35) = 3
    <3>1. 27 \div 8 = 3 /\ 35 \div 8 = 4 /\ 27 % 4 = 3 /\ 35 % 4 = 3
      OBVIOUS
    <3> QED
      BY <3>1 DEF RowOf, Rpl
  <2>5. IsCode(RowOf(regs["cs"])) /\ \A f \in Segments \cup {"ss"} : IsData(RowOf(regs[f]))
    BY <2>3, <2>4, Rows
  <2>6. ASSUME NEW f \in Segments \cup {"ss", "cs"}
        PROVE  IsFlat(RowOf(regs[f])) /\ DplOf(RowOf(regs[f])) = 3 /\ Rpl(regs[f]) = 3
    <3>1. regs[f] = 27 \/ regs[f] = 35
      BY <2>3
    <3> QED
      BY <2>4, <3>1, Rows
  <2> QED
    BY <2>5, <2>6, Rows, TssAddress DEF ProcessSegments
<1> QED
  BY <1>1, FramesInvariant, PTL

\* kernel_main's last loop finds its words and registers again after every
\* interrupt before the first switch, or iret refuses the boot loader's cs
\* (gdt.c:48, scheduler.c:48-55).
THEOREM LoopSurvives == EFSpec => []LoopResumes
<1>1. EFInv => LoopResumes
  BY DEF EFInv, RunInv, FrameInv, KernelRegs, KernelWordsIn, LoopResumes
<1> QED
  BY <1>1, FramesInvariant, PTL

\* What fault_handler and irq_handler read through struct regs is what was
\* interrupted, for every vector but 8 and 17 (isr.s:34-219, irq.s).
THEOREM HandlersReadTheFrame == EFSpec => []FrameFits
<1>1. EFInv => FrameFits
  <2>1. SUFFICES ASSUME EFInv, pc \in {"handler", "fault"}, cur \in Procs, vector \notin {8, 17}
                 PROVE  FrameFits
    BY DEF FrameFits
  <2>2. Field("int_no") = vector /\ UserFrame
    BY <2>1, EntryFramesAssumption DEF EFInv, FrameInv
  <2>3. Fits("eip") /\ \A f \in Stored : Fits(f)
    BY <2>2 DEF UserFrame, Stored
  <2> QED
    BY <2>2, <2>3 DEF FrameFits
<1> QED
  BY <1>1, FramesInvariant, PTL

\* A process goes on with the registers it was interrupted with, but for an answer
\* in eax, whatever switches and interrupts came between (scheduler.c:25-57).
THEOREM ProcessesResume == EFSpec => ResumesAsInterrupted
<1>1. EFInv /\ [EFNext]_efvars =>
        [pc = "return" /\ cur \in Procs => \A f \in Stored : regs'[f] = last[cur][f]]_efvars
  <2>1. SUFFICES ASSUME EFInv, EFNext, pc = "return", cur \in Procs
                 PROVE  \A f \in Stored : regs'[f] = last[cur][f]
    OBVIOUS
  <2>2. Return
    BY <2>1 DEF EFNext, Interrupt, EnterKernel, irq_handler, Instruction
  <2> QED
    BY <2>1, <2>2, ReturnToProcess
<1> QED
  BY <1>1, FramesInvariant, PTL DEF EFSpec, ResumesAsInterrupted
=============================================================================
