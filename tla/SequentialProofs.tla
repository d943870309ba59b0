-------------------------- MODULE SequentialProofs --------------------------
(***************************************************************************)
(* Proofs about the routines that run alone: the search for the ACPI root  *)
(* pointer (Rsdp), the shell's command line (Shell), the memory helpers    *)
(* (Memory) and the scan of the PCI buses with the search of the id        *)
(* database (Pci), for memories, buses, databases, blocks, arrays and      *)
(* lines of any size.  They share no state; each invariant says what the   *)
(* iterations so far have looked at or written.                            *)
(***************************************************************************)
EXTENDS Boot, Memory, Shell, TLAPS, SequenceTheorems, WellFoundedInduction, FiniteSetTheorems, FunctionTheorems

-----------------------------------------------------------------------------
(* The search for the root pointer. *)

\* Nothing below a is a root pointer.
NoneBelow(a) == \A b \in Addresses : b < a => ~validate(b)

RsdpInv ==
  /\ memory \in [Addresses -> Contents] /\ ebda \in Addresses
  /\ pc = "scan" => addr \in Addresses /\ NoneBelow(addr)
  /\ pc = "ebda" => NoneBelow(LIMIT + 1)
  /\ pc \in {"announced", "unsupported"} =>
       \/ NoneBelow(LIMIT + 1)
       \/ /\ ptr \in Addresses /\ validate(ptr) /\ NoneBelow(ptr)
          /\ pc = "unsupported" <=> Unsupported(ptr)

\* The scan has looked at every address below addr.
LEMMA ScanInv ==
  ASSUME RsdpInv, ScanStep
  PROVE  RsdpInv'
<1>1. /\ LIMIT \in Nat /\ Addresses = 0 .. LIMIT /\ addr \in Addresses /\ NoneBelow(addr)
      /\ UNCHANGED <<memory, ebda>> /\ ptr' = addr
  BY RsdpAssumption DEF RsdpInv, ScanStep, Addresses
<1>2. \A a : (validate(a)' <=> validate(a)) /\ (Unsupported(a)' <=> Unsupported(a))
  BY <1>1 DEF validate, Unsupported
<1>3. \A a : NoneBelow(a)' <=> NoneBelow(a)
  BY <1>2 DEF NoneBelow
<1>4. memory' \in [Addresses -> Contents] /\ ebda' \in Addresses
  BY <1>1 DEF RsdpInv
<1>5. CASE Unsupported(addr)
  <2>1. pc' = "unsupported" /\ validate(addr)
    BY <1>5 DEF ScanStep, Unsupported
  <2>2. ptr' \in Addresses /\ validate(ptr)' /\ NoneBelow(ptr)' /\ Unsupported(ptr)'
    BY <1>1, <1>2, <1>3, <1>5, <2>1 DEF validate, Unsupported, NoneBelow
  <2> QED
    BY <1>4, <2>1, <2>2 DEF RsdpInv
<1>6. CASE ~Unsupported(addr) /\ validate(addr)
  <2>1. pc' = "announced"
    BY <1>6 DEF ScanStep
  <2>2. ptr' \in Addresses /\ validate(ptr)' /\ NoneBelow(ptr)' /\ ~Unsupported(ptr)'
    BY <1>1, <1>2, <1>3, <1>6 DEF validate, Unsupported, NoneBelow
  <2> QED
    BY <1>4, <2>1, <2>2 DEF RsdpInv
<1>7. CASE ~validate(addr)
  <2>1. IF addr < LIMIT THEN pc' = "scan" /\ addr' = addr + 1 ELSE pc' = "ebda"
    BY <1>7 DEF ScanStep, ScanEnd, Unsupported
  <2>2. NoneBelow(addr + 1)
    BY <1>1, <1>7 DEF NoneBelow
  <2>3. CASE addr < LIMIT
    <3>1. addr' \in Addresses /\ NoneBelow(addr)'
      BY <1>1, <1>2, <2>1, <2>2, <2>3 DEF NoneBelow
    <3> QED
      BY <1>4, <2>1, <2>3, <3>1 DEF RsdpInv
  <2>4. CASE ~(addr < LIMIT)
    <3>1. addr = LIMIT
      BY <1>1, <2>4
    <3>2. NoneBelow(LIMIT + 1)'
      BY <1>3, <2>2, <3>1 DEF NoneBelow
    <3> QED
      BY <1>4, <2>1, <2>4, <3>2 DEF RsdpInv
  <2> QED
    BY <2>3, <2>4
<1> QED
  BY <1>5, <1>6, <1>7

\* There is nothing left for the second loop to find.
LEMMA EbdaInv ==
  ASSUME RsdpInv, EbdaStep
  PROVE  RsdpInv'
<1>1. /\ NoneBelow(LIMIT + 1) /\ memory \in [Addresses -> Contents] /\ ebda \in Addresses
      /\ UNCHANGED <<memory, ebda>>
  BY DEF RsdpInv, EbdaStep
<1>2. NoneBelow(LIMIT + 1)'
  BY <1>1 DEF NoneBelow, validate
<1>3. ~validate(ebda)
  BY <1>1, RsdpAssumption DEF NoneBelow, Addresses
<1>4. pc' \in {"announced", "ebda"}
  BY <1>3 DEF EbdaStep, Unsupported
<1> QED
  BY <1>1, <1>2, <1>4 DEF RsdpInv

\* find_rsdp ends at the lowest root pointer, if there is one below 1 MB, for every
\* memory of every size (rsdp.c:45-116).
THEOREM LowestFound == RsdpSpec => []EndsAtLowest
<1>1. ASSUME NEW m \in [Addresses -> Contents], NEW e \in Addresses, RsdpInit(m, e)
      PROVE  RsdpInv
  BY <1>1, RsdpAssumption DEF RsdpInit, RsdpInv, NoneBelow, Addresses
<1>2. RsdpInv /\ [RsdpNext]_rsdpvars => RsdpInv'
  <2>1. ASSUME RsdpInv, UNCHANGED rsdpvars PROVE RsdpInv'
    BY <2>1 DEF rsdpvars, RsdpInv, NoneBelow, validate, Unsupported
  <2> QED
    BY <2>1, ScanInv, EbdaInv DEF RsdpNext
<1>3. RsdpInv => EndsAtLowest
  <2> SUFFICES ASSUME RsdpInv PROVE EndsAtLowest
    OBVIOUS
  <2>1. Pointers = {a \in Addresses : validate(a)}
    BY DEF Pointers, validate
  <2>2. NoneBelow(LIMIT + 1) => Pointers = {}
    BY <2>1, RsdpAssumption DEF NoneBelow, Addresses
  <2>3. ASSUME pc \in {"announced", "unsupported"}, Pointers # {}
        PROVE  /\ ptr \in Pointers /\ \A a \in Pointers : ptr <= a
               /\ pc = "unsupported" <=> memory[ptr].revision = 2
    <3>1. /\ ptr \in Addresses /\ validate(ptr) /\ NoneBelow(ptr)
          /\ pc = "unsupported" <=> Unsupported(ptr)
      BY <2>2, <2>3 DEF RsdpInv
    <3>2. \A a \in Pointers : ptr <= a
      BY <2>1, <3>1, RsdpAssumption DEF NoneBelow, Addresses
    <3> QED
      BY <2>1, <3>1, <3>2 DEF Unsupported
  <2> QED
    BY <2>2, <2>3 DEF EndsAtLowest, RsdpInv
<1>4. (\E m \in [Addresses -> Contents], e \in Addresses : RsdpInit(m, e)) => RsdpInv
  BY <1>1
<1> QED
  BY <1>2, <1>3, <1>4, PTL DEF RsdpSpec

-----------------------------------------------------------------------------
(* The first one of something. *)

\* Every non-empty set of naturals has a least element.
LEMMA LeastNatural ==
  ASSUME NEW T \in SUBSET Nat, T # {}
  PROVE  \E n \in T : \A k \in T : n <= k
<1>1. PICK n \in T : \A k \in T : ~ (<<k, n>> \in OpToRel(<, Nat))
  BY WFMin, NatLessThanWellFounded, Zenon
<1>2. \A k \in T : ~ (k < n)
  BY <1>1, Zenon DEF OpToRel
<1> QED
  BY <1>2

-----------------------------------------------------------------------------
(* The shell's command line. *)

\* The characters typed are at the beginning of the array, whatever is behind.
ShellInv ==
  /\ command \in [0 .. MaxLine -> Chars]
  /\ i \in 0 .. MaxLine
  /\ typed \in Seq(Chars) /\ Len(typed) = i
  /\ entered \in Seq(Chars)
  /\ \A k \in 1 .. i : typed[k] = command[k - 1]
  /\ ~long => i < COMMAND_SIZE
  /\ RunsWhatWasTyped

\* Where the first NUL of array a is: n, with none before.
FirstNul(a, n) == a[n] = NUL /\ \A j \in 0 .. n - 1 : a[j] # NUL

\* n characters of line l come before its first NUL or its end.
TextEnds(l, n) == (n < Len(l) => l[n + 1] = NUL) /\ \A j \in 1 .. n : l[j] # NUL

\* A string that begins with the line and its 0 reads as the line's text.
LEMMA StringIsText ==
  ASSUME NEW m \in Nat, NEW a \in [0 .. m -> Chars], NEW l \in Seq(Chars),
         Len(l) <= m, a[Len(l)] = NUL, \A k \in 1 .. Len(l) : l[k] = a[k - 1], m = MaxLine
  PROVE  Str(a) = Text(l) /\ \E k \in 0 .. m : a[k] = NUL
<1>1. PICK N \in Nat : N = Len(l)
  OBVIOUS
<1>2. PICK n \in 0 .. N : FirstNul(a, n)
  <2>1. PICK T \in SUBSET Nat : T = {k \in 0 .. N : a[k] = NUL}
    <3>1. {k \in 0 .. N : a[k] = NUL} \in SUBSET Nat
      OBVIOUS
    <3> QED
      BY <3>1
  <2>2. N \in T
    BY <1>1, <2>1
  <2>3. PICK n \in T : \A k \in T : n <= k
    BY <2>2, LeastNatural
  <2>4. n \in 0 .. N /\ a[n] = NUL
    BY <2>1, <2>3
  <2>5. \A j \in 0 .. n - 1 : a[j] # NUL
    BY <2>1, <2>3, <2>4
  <2> QED
    BY <2>4, <2>5 DEF FirstNul
<1>3. n \in 0 .. m
  BY <1>1, <1>2
<1>4. \A k \in 0 .. m : FirstNul(a, k) => k = n
  BY <1>2, <1>3 DEF FirstNul
<1>5. (CHOOSE k \in 0 .. m : FirstNul(a, k)) = n
  BY <1>2, <1>3, <1>4
<1>6. Str(a) = [k \in 1 .. n |-> a[k - 1]]
  BY <1>5 DEF Str, FirstNul
<1>7. TextEnds(l, n)
  <2>1. n < N => l[n + 1] = NUL
    BY <1>1, <1>2 DEF FirstNul
  <2>2. \A j \in 1 .. n : l[j] # NUL
    BY <1>1, <1>2 DEF FirstNul
  <2> QED
    BY <1>1, <2>1, <2>2 DEF TextEnds
<1>8. \A k \in 0 .. N : TextEnds(l, k) => k = n
  BY <1>1, <1>2, <1>7 DEF TextEnds
<1>9. (CHOOSE k \in 0 .. Len(l) : TextEnds(l, k)) = n
  BY <1>1, <1>2, <1>7, <1>8
<1>10. Text(l) = SubSeq(l, 1, n)
  BY <1>9 DEF Text, TextEnds
<1>11. SubSeq(l, 1, n) = [k \in 1 .. n |-> a[k - 1]]
  <2>1. SubSeq(l, 1, n) = [k \in 1 .. n |-> l[k]]
    BY <1>1, <1>2
  <2> QED
    BY <1>1, <1>2, <2>1
<1> QED
  BY <1>3, <1>6, <1>10, <1>11, <1>2 DEF FirstNul

LEMMA KeyInv ==
  ASSUME ShellInv, NEW c \in Chars, Key(c)
  PROVE  ShellInv'
<1>1. PICK n \in Nat : n = i /\ n < MaxLine /\ n + 1 \in 0 .. MaxLine /\ n \in 0 .. MaxLine
  BY ShellAssumption DEF ShellInv, Key
<1>2. /\ command' = [command EXCEPT ![n] = c] /\ i' = n + 1 /\ typed' = Append(typed, c)
      /\ UNCHANGED <<ran, entered>>
  BY <1>1 DEF Key, Store
<1>3. command' \in [0 .. MaxLine -> Chars] /\ command'[n] = c
      /\ \A k \in 0 .. MaxLine : k # n => command'[k] = command[k]
  BY <1>1, <1>2 DEF ShellInv
<1>4. /\ typed' \in Seq(Chars) /\ Len(typed') = n + 1 /\ typed'[n + 1] = c
      /\ \A k \in 1 .. n : typed'[k] = typed[k]
  BY <1>1, <1>2 DEF ShellInv
<1>5. ASSUME NEW k \in 1 .. n + 1 PROVE typed'[k] = command'[k - 1]
  <2>1. CASE k = n + 1
    <3>1. k - 1 = n
      BY <2>1
    <3> QED
      BY <1>3, <1>4, <2>1, <3>1
  <2>2. CASE k \in 1 .. n
    <3>1. k - 1 \in 0 .. MaxLine /\ k - 1 # n
      BY <1>1, <2>2, ShellAssumption
    <3>2. typed[k] = command[k - 1]
      BY <1>1, <2>2 DEF ShellInv
    <3> QED
      BY <1>3, <1>4, <2>2, <3>1, <3>2
  <2> QED
    BY <2>1, <2>2
<1>6. RunsWhatWasTyped' /\ (~long' => n + 1 < COMMAND_SIZE)
  <2>1. /\ ~long' => ~long /\ ~(Len(typed') >= COMMAND_SIZE)
        /\ overrun' = (overrun \/ i >= COMMAND_SIZE)
    BY Zenon DEF Key, Store
  <2>2. ~long' => n + 1 < COMMAND_SIZE
    BY <1>1, <1>4, <2>1, ShellAssumption
  <2>3. ~long' => ~(i >= COMMAND_SIZE)
    BY <1>1, <2>2, ShellAssumption
  <2>4. RunsWhatWasTyped'
    BY <1>2, <2>1, <2>3, Zenon DEF ShellInv, RunsWhatWasTyped
  <2> QED
    BY <2>2, <2>4
<1> QED
  BY <1>1, <1>2, <1>3, <1>4, <1>5, <1>6 DEF ShellInv

LEMMA BackspaceInv ==
  ASSUME ShellInv, Backspace
  PROVE  ShellInv'
<1>1. PICK n \in Nat : n = i /\ n > 0 /\ n \in 0 .. MaxLine /\ n - 1 \in 0 .. MaxLine
  BY ShellAssumption DEF ShellInv, Backspace
<1>2. /\ command' = [command EXCEPT ![n] = NUL] /\ i' = n - 1 /\ typed' = Front(typed)
      /\ UNCHANGED <<ran, entered, long>>
  BY <1>1 DEF Backspace, Store
<1>3. /\ command' \in [0 .. MaxLine -> Chars]
      /\ \A k \in 0 .. MaxLine : k # n => command'[k] = command[k]
  BY <1>1, <1>2, ShellAssumption DEF ShellInv
<1>4. typed' \in Seq(Chars) /\ Len(typed') = n - 1 /\ \A k \in 1 .. n - 1 : typed'[k] = typed[k]
  <2>1. typed' = SubSeq(typed, 1, Len(typed) - 1) /\ typed \in Seq(Chars) /\ Len(typed) = n
    BY <1>1, <1>2 DEF Front, ShellInv
  <2> QED
    BY <1>1, <2>1
<1>5. ASSUME NEW k \in 1 .. n - 1 PROVE typed'[k] = command'[k - 1]
  <2>1. k - 1 \in 0 .. MaxLine /\ k - 1 # n
    BY <1>1, ShellAssumption
  <2>2. typed[k] = command[k - 1]
    BY <1>1 DEF ShellInv
  <2> QED
    BY <1>3, <1>4, <2>1, <2>2
<1>6. RunsWhatWasTyped' /\ (~long' => n - 1 < COMMAND_SIZE)
  <2>1. overrun' = (overrun \/ i >= COMMAND_SIZE)
    BY Zenon DEF Backspace, Store
  <2>2. ~long => ~(i >= COMMAND_SIZE) /\ n - 1 < COMMAND_SIZE
    BY <1>1, ShellAssumption DEF ShellInv
  <2>3. RunsWhatWasTyped'
    BY <1>2, <2>1, <2>2, Zenon DEF ShellInv, RunsWhatWasTyped
  <2> QED
    BY <1>2, <2>2, <2>3
<1> QED
  BY <1>1, <1>2, <1>3, <1>4, <1>5, <1>6 DEF ShellInv

LEMMA NewLineInv ==
  ASSUME ShellInv, NewLine
  PROVE  ShellInv'
<1>1. /\ command' = [command EXCEPT ![i] = NUL] /\ i' = 0 /\ typed' = <<>> /\ entered' = typed
      /\ i \in 0 .. MaxLine /\ Len(typed) = i /\ typed \in Seq(Chars) /\ MaxLine \in Nat
  BY ShellAssumption DEF ShellInv, NewLine, EndLine, Store
<1>2. PICK a \in [0 .. MaxLine -> Chars] :
        /\ a = command' /\ a[i] = NUL /\ \A k \in 0 .. MaxLine : k # i => a[k] = command[k]
  BY <1>1, ShellAssumption DEF ShellInv
<1>3. \A k \in 1 .. Len(typed) : typed[k] = a[k - 1]
  BY <1>1, <1>2 DEF ShellInv
<1>4. Str(a) = Text(typed) /\ \E k \in 0 .. MaxLine : a[k] = NUL
  <2>1. Len(typed) <= MaxLine /\ a[Len(typed)] = NUL
    BY <1>1, <1>2
  <2> QED
    BY <1>1, <1>2, <1>3, <2>1, StringIsText, SMTT(40)
<1>5. ran' = IF Text(typed) \in Commands THEN Text(typed) ELSE <<>>
  BY <1>2, <1>4, Zenon DEF NewLine
<1>6. RunsWhatWasTyped' /\ (~long' => 0 < COMMAND_SIZE)
  <2>1. overrun' = (overrun \/ i >= COMMAND_SIZE) /\ long' = long
    BY Zenon DEF NewLine, EndLine, Store
  <2>2. ~long => ~(i >= COMMAND_SIZE) /\ 0 < COMMAND_SIZE
    BY <1>1, ShellAssumption DEF ShellInv
  <2>3. RunsWhatWasTyped'
    BY <1>1, <1>5, <2>1, <2>2, Zenon DEF ShellInv, RunsWhatWasTyped
  <2> QED
    BY <2>1, <2>2, <2>3
<1> QED
  BY <1>1, <1>2, <1>6 DEF ShellInv

LEMMA ShellInductive == ShellSpec => []ShellInv
<1>1. ShellInit => ShellInv
  <2> SUFFICES ASSUME ShellInit PROVE ShellInv
    OBVIOUS
  <2>1. Text(<<>>) = <<>>
    <3>1. (CHOOSE k \in 0 .. Len(<<>>) : TextEnds(<<>>, k)) = 0
      BY DEF TextEnds
    <3> QED
      BY <3>1 DEF Text, TextEnds
  <2>2. RunsWhatWasTyped
    BY <2>1 DEF ShellInit, RunsWhatWasTyped
  <2> QED
    BY <2>2, ShellAssumption DEF ShellInit, ShellInv
<1>2. ShellInv /\ [ShellNext]_shellvars => ShellInv'
  <2>1. ASSUME ShellInv, UNCHANGED shellvars PROVE ShellInv'
    <3>1. UNCHANGED <<command, i, ran, typed, entered, overrun, long>>
      BY <2>1 DEF shellvars
    <3>2. RunsWhatWasTyped'
      BY <2>1, <3>1, Zenon DEF ShellInv, RunsWhatWasTyped
    <3> QED
      BY <2>1, <3>1, <3>2 DEF ShellInv
  <2> QED
    BY <2>1, KeyInv, BackspaceInv, NewLineInv DEF ShellNext
<1> QED
  BY <1>1, <1>2, PTL DEF ShellSpec

\* The shell runs the command that was typed, for an array and lines of any length
\* and whatever the array held before, and writes nothing behind the array, as long as
\* every line fits it with its 0 (test_processes.c:95-106).
THEOREM RunsTheLine == ShellSpec => []RunsWhatWasTyped
<1>1. ShellInv => RunsWhatWasTyped
  BY DEF ShellInv
<1> QED
  BY <1>1, ShellInductive, PTL

-----------------------------------------------------------------------------
(* The memory helpers. *)

Copying == op \in {"memset", "memcpy", "strncpy"}

MemTypes ==
  /\ mem \in [Cells -> Bytes] /\ before \in [Cells -> Bytes]
  /\ op \in {"memseq", "streq", "memset", "memcpy", "strncpy"}
  /\ src \in Cells /\ dst \in Cells /\ size \in Nat /\ pos \in Nat
  /\ running \in BOOLEAN
  /\ op # "streq" => dst + size <= SIZE /\ pos <= size
  /\ op \notin {"streq", "memset"} => src + size <= SIZE

\* There is a 0 at or behind p, from the beginning.
HasEnd(p) == \E k \in Cells : k >= p /\ before[k] = 0

\* What the comparisons have read is the same, and they end at the first
\* difference or at the end.
CompareInv ==
  ~Copying =>
    /\ mem = before
    /\ \A k \in 0 .. pos - 1 : Same(k)
    /\ op = "memseq" /\ ~running => \/ result = 1 /\ pos = size
                                    \/ result = 0 /\ pos < size /\ ~Same(pos)
    /\ op = "streq" =>
         /\ HasEnd(src) /\ HasEnd(dst)
         /\ \A k \in 0 .. pos - 1 : before[src + k] # 0
         /\ ~running => \/ result = 1 /\ before[src + pos] = 0 /\ Same(pos)
                        \/ result = 0 /\ ~Same(pos)

\* n bytes are written, the rest is as it was.
Done(n) ==
  \A k \in Cells :
    mem[k] = IF k \in dst .. dst + n - 1 THEN IF op = "memset" THEN 0 ELSE before[src + (k - dst)]
             ELSE before[k]

\* Copies go on to their size, or for strncpy through the first 0.
CopyInv ==
  Copying /\ (op = "memset" \/ CopiesForward) =>
    /\ op = "strncpy" => \A k \in 0 .. pos - 1 : before[src + k] # 0
    /\ running => Done(pos)
    /\ ~running => \/ pos = size /\ Done(pos)
                   \/ op = "strncpy" /\ pos < size /\ before[src + pos] = 0 /\ Done(pos + 1)

MemInv == MemTypes /\ CompareInv /\ CopyInv

\* The length of the string at p is the n with the first 0.
LEMMA StrLenIs ==
  ASSUME NEW p \in Int, NEW n \in 0 .. SIZE - 1, before[p + n] = 0,
         \A k \in 0 .. n - 1 : before[p + k] # 0
  PROVE  StrLen(p) = n
<1>1. SIZE \in Nat
  BY MemoryAssumption
<1>2. ASSUME NEW m \in 0 .. SIZE - 1, before[p + m] = 0, \A k \in 0 .. m - 1 : before[p + k] # 0
      PROVE  m = n
  <2>1. ~(m < n)
    BY <1>1, <1>2
  <2>2. ~(n < m)
    BY <1>1, <1>2
  <2> QED
    BY <1>1, <2>1, <2>2
<1>3. \E m \in 0 .. SIZE - 1 : before[p + m] = 0 /\ \A k \in 0 .. m - 1 : before[p + k] # 0
  OBVIOUS
<1> QED
  BY <1>2, <1>3, Zenon DEF StrLen

LEMMA StrLenOf ==
  ASSUME NEW p \in Cells, HasEnd(p)
  PROVE  /\ StrLen(p) \in Nat /\ p + StrLen(p) \in Cells /\ before[p + StrLen(p)] = 0
         /\ \A k \in 0 .. StrLen(p) - 1 : before[p + k] # 0
<1>1. SIZE \in Nat /\ Cells = 0 .. SIZE - 1 /\ p \in Nat
  BY MemoryAssumption DEF Cells
<1>2. PICK T \in SUBSET Nat : T = {n \in Nat : p + n \in Cells /\ before[p + n] = 0}
  <2>1. {n \in Nat : p + n \in Cells /\ before[p + n] = 0} \in SUBSET Nat
    OBVIOUS
  <2> QED
    BY <2>1
<1>3. T # {}
  <2>1. PICK k \in Cells : k >= p /\ before[k] = 0
    BY DEF HasEnd
  <2>2. k - p \in Nat /\ p + (k - p) = k
    BY <1>1, <2>1
  <2> QED
    BY <1>2, <2>1, <2>2
<1>4. PICK n \in T : \A k \in T : n <= k
  BY <1>3, LeastNatural
<1>5. n \in Nat /\ p + n \in Cells /\ before[p + n] = 0
  BY <1>2, <1>4
<1>6. ASSUME NEW k \in 0 .. n - 1 PROVE before[p + k] # 0
  <2>1. k \in Nat /\ p + k \in Cells /\ ~(n <= k)
    BY <1>1, <1>5
  <2> QED
    BY <1>2, <1>4, <2>1
<1>7. StrLen(p) = n
  <2>1. n \in 0 .. SIZE - 1
    BY <1>1, <1>5
  <2> QED
    <3>1. p \in Int /\ before[p + n] = 0 /\ \A k \in 0 .. n - 1 : before[p + k] # 0
      BY <1>1, <1>5, <1>6
    <3> QED
      BY <2>1, <3>1, StrLenIs, Zenon
<1> QED
  BY <1>5, <1>6, <1>7

\* The bytes a comparison is at are in memory.
LEMMA InMemory ==
  ASSUME MemTypes, op # "streq", pos < size
  PROVE  dst + pos \in Cells /\ (op # "memset" => src + pos \in Cells)
<1>1. SIZE \in Nat /\ Cells = 0 .. SIZE - 1 /\ src \in Nat /\ dst \in Nat /\ pos \in Nat /\ size \in Nat
  BY MemoryAssumption DEF Cells, MemTypes
<1>2. dst + size <= SIZE /\ (op # "memset" => src + size <= SIZE)
  BY DEF MemTypes
<1> QED
  BY <1>1, <1>2

\* One more byte is written.
LEMMA ByteWritten ==
  ASSUME MemTypes, Copying, op = "memset" \/ CopiesForward, NEW n, n = pos, n < size, Done(n),
         mem' = [mem EXCEPT ![dst + n] = IF op = "memset" THEN 0 ELSE mem[src + n]],
         UNCHANGED <<op, src, dst, size, before>>
  PROVE  Done(n + 1)' /\ (op # "memset" => mem[src + n] = before[src + n] /\ mem'[src + n] = before[src + n])
<1>1. /\ SIZE \in Nat /\ Cells = 0 .. SIZE - 1 /\ src \in Nat /\ dst \in Nat /\ n \in Nat /\ size \in Nat
      /\ dst + n \in Cells /\ (op # "memset" => src + n \in Cells) /\ mem \in [Cells -> Bytes]
  BY MemoryAssumption, InMemory DEF Cells, MemTypes, Copying
<1>2. op # "memset" => mem[src + n] = before[src + n]
  <2>1. SUFFICES ASSUME op # "memset" PROVE mem[src + n] = before[src + n]
    OBVIOUS
  <2>2. src + n \notin dst .. dst + n - 1
    BY <1>1, <2>1 DEF CopiesForward
  <2> QED
    BY <1>1, <2>1, <2>2 DEF Done
<1>3. PICK b : b = IF op = "memset" THEN 0 ELSE before[src + n]
  OBVIOUS
<1>4. mem' = [mem EXCEPT ![dst + n] = b]
  BY <1>2, <1>3
<1>5. ASSUME NEW k \in Cells
      PROVE  mem'[k] = IF k \in dst .. dst + (n + 1) - 1
                       THEN IF op = "memset" THEN 0 ELSE before[src + (k - dst)]
                       ELSE before[k]
  <2>1. CASE k = dst + n
    <3>1. k \in dst .. dst + (n + 1) - 1 /\ src + (k - dst) = src + n
      BY <1>1, <2>1
    <3>2. mem'[k] = b
      BY <1>1, <1>4, <2>1
    <3> QED
      BY <1>3, <3>1, <3>2
  <2>2. CASE k # dst + n
    <3>1. k \in dst .. dst + (n + 1) - 1 <=> k \in dst .. dst + n - 1
      BY <1>1, <2>2
    <3>2. mem'[k] = mem[k]
      BY <1>1, <1>4, <2>2
    <3> QED
      BY <3>1, <3>2 DEF Done
  <2> QED
    BY <2>1, <2>2
<1>6. Done(n + 1)'
  BY <1>5 DEF Done
<1>7. op # "memset" => mem'[src + n] = before[src + n]
  <2>1. CASE src = dst
    BY <1>1, <1>3, <1>4, <2>1
  <2>2. CASE src # dst
    BY <1>1, <1>2, <1>4, <2>2
  <2> QED
    BY <2>1, <2>2
<1> QED
  BY <1>2, <1>6, <1>7


\* The comparisons leave the memory alone and go on while bytes are the same.
LEMMA CompareStep ==
  ASSUME MemInv, running = TRUE, ~Copying, memseq \/ streq, UNCHANGED call
  PROVE  MemInv'
<1>1. /\ MemTypes /\ CompareInv /\ mem = before /\ UNCHANGED <<op, src, dst, size, before>>
      /\ ~(Copying)'
  BY DEF MemInv, CompareInv, call, Copying
<1>2. PICK n \in Nat : n = pos
  BY <1>1 DEF MemTypes
<1>3. \A k : Same(k)' <=> Same(k)
  BY <1>1 DEF Same
<1>4. CASE memseq
  <2>1. op = "memseq" /\ mem' = before
    BY <1>1, <1>4 DEF memseq, Return, Continue
  <2>2. CASE AtEnd
    <3>1. pos' = n /\ result' = 1 /\ running' = FALSE /\ n = size
      BY <1>1, <1>2, <1>4, <2>1, <2>2 DEF memseq, Return, AtEnd, MemTypes
    <3> QED
      BY <1>1, <1>2, <1>3, <2>1, <3>1 DEF MemInv, MemTypes, CompareInv, CopyInv, Same
  <2>3. CASE ~AtEnd /\ ~Same(n)
    <3>1. pos' = n /\ result' = 0 /\ running' = FALSE /\ n < size
      BY <1>1, <1>2, <1>4, <2>3 DEF memseq, Return, AtEnd, MemTypes, Same
    <3> QED
      BY <1>1, <1>2, <1>3, <2>1, <2>3, <3>1 DEF MemInv, MemTypes, CompareInv, CopyInv, Same
  <2>4. CASE ~AtEnd /\ Same(n)
    <3>1. pos' = n + 1 /\ running' = TRUE /\ n < size
      BY <1>1, <1>2, <1>4, <2>4 DEF memseq, Continue, AtEnd, MemTypes, Same
    <3>2. \A k \in 0 .. n : Same(k)
      BY <1>1, <1>2, <2>4 DEF CompareInv
    <3> QED
      BY <1>1, <1>2, <1>3, <2>1, <3>1, <3>2 DEF MemInv, MemTypes, CompareInv, CopyInv, Same
  <2> QED
    BY <2>2, <2>3, <2>4
<1>5. CASE streq
  <2>1. op = "streq" /\ mem' = before /\ HasEnd(src)' /\ HasEnd(dst)'
    BY <1>1, <1>5 DEF streq, Return, Continue, CompareInv, HasEnd
  <2>2. \A k \in 0 .. n - 1 : Same(k) /\ before[src + k] # 0
    BY <1>1, <1>2, <2>1 DEF CompareInv
  <2>3. CASE ~Same(n)
    <3>1. pos' = n /\ result' = 0 /\ running' = FALSE
      BY <1>1, <1>2, <1>5, <2>3 DEF streq, Return, Same
    <3> QED
      BY <1>1, <1>2, <1>3, <2>1, <2>2, <2>3, <3>1 DEF MemInv, MemTypes, CompareInv, CopyInv, Same
  <2>4. CASE Same(n) /\ before[src + n] = 0
    <3>1. pos' = n /\ result' = 1 /\ running' = FALSE
      BY <1>1, <1>2, <1>5, <2>4 DEF streq, Return, Same
    <3> QED
      BY <1>1, <1>2, <1>3, <2>1, <2>2, <2>4, <3>1 DEF MemInv, MemTypes, CompareInv, CopyInv, Same
  <2>5. CASE Same(n) /\ before[src + n] # 0
    <3>1. pos' = n + 1 /\ running' = TRUE
      BY <1>1, <1>2, <1>5, <2>5 DEF streq, Continue, Same
    <3>2. \A k \in 0 .. n : Same(k) /\ before[src + k] # 0
      BY <2>2, <2>5
    <3> QED
      BY <1>1, <1>2, <1>3, <2>1, <3>1, <3>2 DEF MemInv, MemTypes, CompareInv, CopyInv, Same
  <2> QED
    BY <2>3, <2>4, <2>5
<1> QED
  BY <1>4, <1>5

\* The loops that write write one byte, or end.
LEMMA CopyStep ==
  ASSUME MemInv, running = TRUE, memset \/ memcpy \/ strncpy, UNCHANGED call
  PROVE  MemInv'
<1>1. /\ MemTypes /\ CopyInv /\ Copying /\ (Copying)' /\ UNCHANGED <<op, src, dst, size, before>>
      /\ op # "streq"
  BY DEF MemInv, call, Copying, memset, memcpy, strncpy
<1>2. PICK n \in Nat : n = pos /\ n <= size
  BY <1>1 DEF MemTypes
<1>3. CompareInv'
  BY <1>1 DEF CompareInv
<1>4. CopiesForward' <=> CopiesForward
  BY <1>1 DEF CopiesForward
<1>5. PICK ok \in BOOLEAN : ok = (op = "memset" \/ CopiesForward)
  OBVIOUS
<1>6. ok => Done(n) /\ (op = "strncpy" => \A k \in 0 .. n - 1 : before[src + k] # 0)
  BY <1>1, <1>2, <1>5 DEF CopyInv
<1>7. CASE AtEnd
  <2>1. n = size /\ pos' = n /\ running' = FALSE /\ mem' = mem
    BY <1>1, <1>2, <1>7 DEF AtEnd, memset, memcpy, strncpy, Return, MemTypes
  <2>2. ok => Done(n)'
    BY <1>1, <1>6, <2>1 DEF Done
  <2>3. CopyInv'
    BY <1>1, <1>2, <1>4, <1>5, <1>6, <2>1, <2>2 DEF CopyInv, Done
  <2>4. MemTypes'
    BY <1>1, <1>2, <2>1 DEF MemTypes
  <2> QED
    BY <1>3, <2>3, <2>4 DEF MemInv
<1>8. CASE ~AtEnd
  <2>1. n < size /\ size \in Nat
    BY <1>1, <1>2, <1>8 DEF AtEnd, MemTypes
  <2>2. mem' = [mem EXCEPT ![dst + n] = IF op = "memset" THEN 0 ELSE mem[src + n]]
    BY <1>2, <1>8, Zenon DEF memset, memcpy, strncpy, Continue
  <2>3. mem' \in [Cells -> Bytes]
    <3>1. 0 \in Bytes /\ (op # "memset" => mem[src + n] \in Bytes) /\ mem \in [Cells -> Bytes]
      BY <1>1, <1>2, <2>1, InMemory, MemoryAssumption DEF MemTypes
    <3>2. PICK b \in Bytes : b = IF op = "memset" THEN 0 ELSE mem[src + n]
      BY <3>1
    <3> QED
      BY <2>2, <3>1, <3>2
  <2>4. ok => /\ Done(n + 1)'
              /\ op # "memset" => mem'[src + n] = before[src + n]
    BY <1>1, <1>2, <1>5, <1>6, <2>1, <2>2, ByteWritten
  <2>5. CASE pos' = n + 1 /\ running' = TRUE /\ (op = "strncpy" => mem'[src + n] # 0)
    <3>1. MemTypes'
      BY <1>1, <1>2, <2>1, <2>3, <2>5 DEF MemTypes
    <3>2. ok /\ op = "strncpy" => \A k \in 0 .. n : before[src + k] # 0
      BY <1>6, <2>4, <2>5
    <3>3. ok => Done(pos)'
      BY <2>4, <2>5 DEF Done
    <3>4. CopyInv'
      <4>1. ok /\ op' = "strncpy" => \A k \in 0 .. pos' - 1 : before'[src' + k] # 0
        BY <1>1, <2>5, <3>2
      <4>2. (op = "memset" \/ CopiesForward)' <=> ok
        BY <1>1, <1>4, <1>5
      <4> QED
        BY <2>5, <3>3, <4>1, <4>2 DEF CopyInv
    <3> QED
      BY <1>3, <3>1, <3>4 DEF MemInv
  <2>6. CASE pos' = n /\ running' = FALSE /\ op = "strncpy" /\ mem'[src + n] = 0
    <3>1. MemTypes'
      BY <1>1, <1>2, <2>3, <2>6 DEF MemTypes
    <3>2. ok => before[src + n] = 0
      BY <2>4, <2>6
    <3>3. ok => Done(pos + 1)'
      BY <2>4, <2>6 DEF Done
    <3>4. CopyInv'
      BY <1>1, <1>4, <1>5, <1>6, <2>1, <2>6, <3>2, <3>3 DEF CopyInv
    <3> QED
      BY <1>3, <3>1, <3>4 DEF MemInv
  <2> QED
    BY <1>2, <1>8, <2>5, <2>6 DEF memset, memcpy, strncpy, Continue, EndsString
<1> QED
  BY <1>7, <1>8


LEMMA MemInductive == MemSpec => []MemInv
<1>1. MemInit => MemInv
  <2> SUFFICES ASSUME MemInit PROVE MemInv
    OBVIOUS
  <2>1. SIZE \in Nat /\ Cells = 0 .. SIZE - 1 /\ SIZE # 0
    BY MemoryAssumption DEF Cells
  <2>2. MemTypes
    <3>1. src \in Cells /\ size \in Nat /\ pos = 0 /\ dst \in Cells
      BY <2>1 DEF MemInit
    <3>2. /\ op # "streq" => dst + size <= SIZE
          /\ op \notin {"streq", "memset"} => src + size <= SIZE
      BY DEF MemInit, Valid
    <3> QED
      BY <3>1, <3>2 DEF MemInit, MemTypes
  <2>3. CompareInv
    BY DEF MemInit, CompareInv, HasEnd, Terminated
  <2>4. CopyInv
    <3>1. dst \in Int /\ pos = 0 /\ running = TRUE
      BY <2>1 DEF MemInit
    <3>2. Done(0)
      BY <3>1 DEF MemInit, Done
    <3> QED
      BY <3>1, <3>2 DEF CopyInv
  <2> QED
    BY <2>2, <2>3, <2>4 DEF MemInv
<1>2. MemInv /\ [MemNext]_memvars => MemInv'
  <2> SUFFICES ASSUME MemInv, [MemNext]_memvars PROVE MemInv'
    OBVIOUS
  <2>1. CASE UNCHANGED memvars
    <3>1. UNCHANGED <<mem, op, src, dst, size, pos, result, running, before>>
      BY <2>1 DEF memvars
    <3>2. MemTypes' /\ CompareInv'
      BY <3>1 DEF MemInv, MemTypes, CompareInv, Copying, Same, HasEnd
    <3>3. CopyInv'
      BY <3>1 DEF MemInv, CopyInv, Copying, CopiesForward, Done
    <3> QED
      BY <3>2, <3>3 DEF MemInv
  <2>2. CASE MemNext
    <3>1. running = TRUE /\ UNCHANGED call
      BY <2>2 DEF MemNext, MemInv, MemTypes
    <3>2. CASE memseq \/ streq
      <4>1. ~Copying
        BY <3>2 DEF memseq, streq, Copying
      <4> QED
        BY <3>1, <3>2, <4>1, CompareStep
    <3>3. CASE memset \/ memcpy \/ strncpy
      BY <3>1, <3>3, CopyStep
    <3> QED
      BY <2>2, <3>2, <3>3 DEF MemNext
  <2> QED
    BY <2>1, <2>2
<1> QED
  BY <1>1, <1>2, PTL DEF MemSpec

\* memseq, streq, memset, memcpy and strncpy do what they are asked to do, on
\* blocks of any size, overlapping or not, as far as Helped says (memory.c:3-41).
THEOREM HelpersHelp == MemSpec => []Helped
<1>1. MemInv => Compared
  <2> SUFFICES ASSUME MemInv PROVE Compared
    OBVIOUS
  <2>1. MemTypes /\ CompareInv /\ pos \in Nat /\ size \in Nat
    BY DEF MemInv, MemTypes
  <2>2. ASSUME op = "memseq", ~running
        PROVE  result = 1 <=> \A k \in 0 .. size - 1 : Same(k)
    <3>1. /\ \A k \in 0 .. pos - 1 : Same(k)
          /\ (result = 1 /\ pos = size) \/ (result = 0 /\ pos < size /\ ~Same(pos))
      BY <2>1, <2>2 DEF CompareInv, Copying
    <3> QED
      BY <2>1, <3>1
  <2>3. ASSUME op = "streq"
        PROVE  /\ ~running => (result = 1 <=> /\ StrLen(src) = StrLen(dst)
                                              /\ \A k \in 0 .. StrLen(src) : Same(k))
               /\ pos <= StrLen(src) /\ pos <= StrLen(dst)
    <3>1. /\ HasEnd(src) /\ HasEnd(dst) /\ src \in Cells /\ dst \in Cells
          /\ \A k \in 0 .. pos - 1 : Same(k) /\ before[src + k] # 0
          /\ ~running => \/ result = 1 /\ before[src + pos] = 0 /\ Same(pos)
                         \/ result = 0 /\ ~Same(pos)
      BY <2>1, <2>3 DEF CompareInv, Copying, MemTypes
    <3>2. PICK m \in Nat : /\ m = StrLen(src) /\ before[src + m] = 0
                           /\ \A k \in 0 .. m - 1 : before[src + k] # 0
      BY <3>1, StrLenOf
    <3>3. PICK l \in Nat : /\ l = StrLen(dst) /\ before[dst + l] = 0
                           /\ \A k \in 0 .. l - 1 : before[dst + k] # 0
      BY <3>1, StrLenOf
    <3>4. \A k \in 0 .. pos - 1 : before[dst + k] # 0
      BY <3>1 DEF Same
    <3>5. pos <= m /\ pos <= l
      BY <2>1, <3>1, <3>2, <3>3, <3>4
    <3>6. before[src + pos] = 0 /\ Same(pos) => m = pos /\ l = pos
      BY <2>1, <3>2, <3>3, <3>5 DEF Same
    <3>7. ASSUME ~running
          PROVE  result = 1 <=> StrLen(src) = StrLen(dst) /\ \A k \in 0 .. StrLen(src) : Same(k)
      <4>1. CASE result = 1 /\ before[src + pos] = 0 /\ Same(pos)
        BY <2>1, <3>1, <3>2, <3>3, <3>6, <4>1
      <4>2. CASE result = 0 /\ ~Same(pos)
        BY <2>1, <3>2, <3>5, <4>2
      <4> QED
        BY <3>1, <3>7, <4>1, <4>2
    <3> QED
      BY <3>2, <3>3, <3>5, <3>7
  <2> QED
    BY <2>2, <2>3 DEF Compared
<1>2. MemInv => Copied
  <2> SUFFICES ASSUME MemInv, op \notin {"memseq", "streq"}, ~running, op = "memset" \/ CopiesForward
               PROVE  \A k \in Cells :
                        IF k \in Written
                        THEN IF op = "memset" THEN mem[k] = 0 ELSE mem[k] = before[src + (k - dst)]
                        ELSE mem[k] = before[k]
    BY DEF Copied
  <2>1. /\ op \in {"memset", "memcpy", "strncpy"} /\ pos \in Nat /\ size \in Nat /\ src \in Nat
        /\ dst \in Nat /\ SIZE \in Nat /\ (op # "memset" => src + size <= SIZE)
    BY MemoryAssumption DEF MemInv, MemTypes, Cells
  <2>2. /\ op = "strncpy" => \A k \in 0 .. pos - 1 : before[src + k] # 0
        /\ \/ pos = size /\ Done(pos)
           \/ op = "strncpy" /\ pos < size /\ before[src + pos] = 0 /\ Done(pos + 1)
    BY <2>1 DEF MemInv, CopyInv, Copying
  <2>3. ASSUME NEW n \in Nat, Done(n), Written = dst .. dst + n - 1
        PROVE  \A k \in Cells :
                 IF k \in Written
                 THEN IF op = "memset" THEN mem[k] = 0 ELSE mem[k] = before[src + (k - dst)]
                 ELSE mem[k] = before[k]
    BY <2>3 DEF Done
  <2>4. CASE pos = size /\ Done(pos)
    <3>1. op = "strncpy" => ~\E k \in 0 .. size - 1 : before[src + k] = 0
      BY <2>2, <2>4
    <3>2. Written = dst .. dst + size - 1
      BY <2>1, <3>1 DEF Written
    <3> QED
      BY <2>1, <2>3, <2>4, <3>2
  <2>5. CASE op = "strncpy" /\ pos < size /\ before[src + pos] = 0 /\ Done(pos + 1)
    <3>1. \E k \in 0 .. size - 1 : before[src + k] = 0
      BY <2>1, <2>5
    <3>2. StrLen(src) = pos
      <4>1. src \in Int /\ pos \in 0 .. SIZE - 1
        BY <2>1, <2>5
      <4> QED
        BY <2>2, <2>5, <4>1, StrLenIs
    <3>3. Written = dst .. dst + (pos + 1) - 1
      <4>1. dst + (1 + pos) - 1 = dst + (pos + 1) - 1
        BY <2>1
      <4> QED
        BY <2>5, <3>1, <3>2, <4>1 DEF Written
    <3> QED
      BY <2>1, <2>3, <2>5, <3>3
  <2> QED
    BY <2>2, <2>4, <2>5
<1>3. MemInv => Helped
  BY <1>1, <1>2 DEF Helped
<1> QED
  BY <1>3, MemInductive, PTL

-----------------------------------------------------------------------------
(* The addresses a device answers to. *)

\* The overlap of slot and bus: 1, 2, 4 or 8.
Overlap == SLOTS \div DEVICES

LEMMA Overlaps ==
  /\ BUSES \in Nat \ {0} /\ DEVICES \in Nat \ {0}
  /\ Overlap \in {1, 2, 4, 8} /\ SLOTS = Overlap * DEVICES /\ SLOTS \in Nat \ {0}
<1>1. PICK w \in {1, 2, 4, 8} : SLOTS = w * DEVICES
  BY PciAssumption
<1>2. DEVICES \in Nat \ {0} /\ BUSES \in Nat \ {0}
  BY PciAssumption
<1>3. ASSUME NEW v \in Nat, NEW e \in Nat \ {0}
      PROVE  (v * e) \div e = v
  <2>1. PICK q \in Int : q = (v * e) \div e
    OBVIOUS
  <2>2. PICK m \in Int : m = v * e
    OBVIOUS
  <2>3. e * q <= m /\ m < e * q + e
    BY <2>1, <2>2
  <2>4. e * (v - q) >= 0 /\ e * (v - q) < e
    BY <2>2, <2>3
  <2>5. ~(v - q >= 1)
    <3>1. ASSUME NEW z \in Nat \ {0} PROVE e * z >= e
      <4>1. PICK y \in Nat : z = y + 1
        <5>1. z - 1 \in Nat /\ z = (z - 1) + 1
          OBVIOUS
        <5> QED
          BY <5>1
      <4>2. e * z = e * y + e /\ e * y \in Nat
        BY <4>1
      <4> QED
        BY <4>2
    <3> QED
      BY <2>4, <3>1
  <2>6. ~(v - q <= -1)
    <3>1. ASSUME NEW z \in Nat \ {0} PROVE e * (-z) < 0
      <4>1. e * z \in Nat \ {0} /\ e * (-z) = -(e * z)
        OBVIOUS
      <4> QED
        BY <4>1
    <3>2. ASSUME v - q <= -1 PROVE FALSE
      <4>1. PICK z \in Nat \ {0} : v - q = -z
        <5>1. q - v \in Nat \ {0} /\ v - q = -(q - v)
          BY <3>2
        <5> QED
          BY <5>1
      <4> QED
        BY <2>4, <3>1, <4>1
    <3> QED
      BY <3>2
  <2> QED
    BY <2>1, <2>5, <2>6
<1>4. w * DEVICES \in Nat \ {0}
  BY <1>2
<1>5. Overlap = w
  BY <1>1, <1>2, <1>3 DEF Overlap
<1> QED
  BY <1>1, <1>2, <1>4, <1>5

\* The three low bits of a number.
Bits(n, q, x4, x2, x1) ==
  /\ n = 8 * q + 4 * x4 + 2 * x2 + x1
  /\ One(n, 4) <=> x4 = 1
  /\ One(n, 2) <=> x2 = 1
  /\ One(n, 1) <=> x1 = 1

LEMMA BitsOf ==
  ASSUME NEW n \in Nat
  PROVE  \E q \in Nat, x4, x2, x1 \in {0, 1} : Bits(n, q, x4, x2, x1)
<1>1. PICK q \in Nat, r \in 0 .. 7 : n = 8 * q + r
  <2>1. n \div 8 \in Nat /\ n % 8 \in 0 .. 7 /\ n = 8 * (n \div 8) + (n % 8)
    OBVIOUS
  <2> QED
    BY <2>1
<1>2. PICK x4, x2, x1 \in {0, 1} : r = 4 * x4 + 2 * x2 + x1
  <2>1. /\ r \div 4 \in {0, 1} /\ (r \div 2) % 2 \in {0, 1} /\ r % 2 \in {0, 1}
        /\ r = 4 * (r \div 4) + 2 * ((r \div 2) % 2) + (r % 2)
    OBVIOUS
  <2> QED
    BY <2>1
<1>3. (n \div 4) % 2 = x4
  BY <1>1, <1>2
<1>4. (n \div 2) % 2 = x2
  BY <1>1, <1>2
<1>5. (n \div 1) % 2 = x1
  BY <1>1, <1>2
<1> QED
  BY <1>1, <1>2, <1>3, <1>4, <1>5 DEF Bits, One

\* A way a bit of weight w of bus b comes about: 0, the bus has it as it is; 1, the
\* slot alone has it; 2, both have it.
Choice(b, w) == IF w < Overlap /\ One(b, w) THEN {0, 1, 2} ELSE {0}
Off(c, w) == IF c = 1 THEN w ELSE 0
On(c, w) == IF c = 0 THEN 0 ELSE w

BusLeft(b, c4, c2, c1) == b - (Off(c4, 4) + Off(c2, 2) + Off(c1, 1))
High(c4, c2, c1) == On(c4, 4) + On(c2, 2) + On(c1, 1)

\* Every choice is an address of the bus.
LEMMA ChoiceAddresses ==
  ASSUME NEW b \in Nat, NEW c4 \in Choice(b, 4), NEW c2 \in Choice(b, 2), NEW c1 \in Choice(b, 1)
  PROVE  /\ BusLeft(b, c4, c2, c1) \in 0 .. b /\ High(c4, c2, c1) \in 0 .. Overlap - 1
         /\ BusOr(BusLeft(b, c4, c2, c1), High(c4, c2, c1)) = b
<1>1. PICK q \in Nat, x4, x2, x1 \in {0, 1} : Bits(b, q, x4, x2, x1)
  BY BitsOf
<1>2. Overlap \in {1, 2, 4, 8}
  BY Overlaps
<1>3. /\ c4 \in {0, 1, 2} /\ (c4 # 0 => x4 = 1 /\ 4 < Overlap)
      /\ c2 \in {0, 1, 2} /\ (c2 # 0 => x2 = 1 /\ 2 < Overlap)
      /\ c1 \in {0, 1, 2} /\ (c1 # 0 => x1 = 1 /\ 1 < Overlap)
  BY <1>1 DEF Choice, Bits
<1>4. PICK y4, y2, y1 \in {0, 1} : /\ y4 = (IF c4 = 1 THEN 0 ELSE x4) /\ y2 = (IF c2 = 1 THEN 0 ELSE x2)
                                   /\ y1 = (IF c1 = 1 THEN 0 ELSE x1)
  OBVIOUS
<1>5. PICK z4, z2, z1 \in {0, 1} : /\ z4 = (IF c4 = 0 THEN 0 ELSE 1) /\ z2 = (IF c2 = 0 THEN 0 ELSE 1)
                                   /\ z1 = (IF c1 = 0 THEN 0 ELSE 1)
  OBVIOUS
<1>6. PICK x \in Nat, h \in Nat : x = BusLeft(b, c4, c2, c1) /\ h = High(c4, c2, c1)
                                 /\ x = 8 * q + 4 * y4 + 2 * y2 + y1 /\ h = 4 * z4 + 2 * z2 + z1
  <2>1. BusLeft(b, c4, c2, c1) = 8 * q + 4 * y4 + 2 * y2 + y1
    BY <1>1, <1>3, <1>4 DEF BusLeft, Off, Bits
  <2>2. High(c4, c2, c1) = 4 * z4 + 2 * z2 + z1
    BY <1>3, <1>5 DEF High, On
  <2> QED
    BY <2>1, <2>2
<1>7. x \in 0 .. b /\ h \in 0 .. Overlap - 1
  <2>1. x <= b
    BY <1>1, <1>4, <1>6 DEF Bits
  <2>2. h <= Overlap - 1
    BY <1>2, <1>3, <1>5, <1>6
  <2> QED
    BY <1>2, <2>1, <2>2
<1>8. (One(x, 4) <=> y4 = 1) /\ (One(x, 2) <=> y2 = 1) /\ (One(x, 1) <=> y1 = 1)
  BY <1>6 DEF One
<1>9. (One(h, 4) <=> z4 = 1) /\ (One(h, 2) <=> z2 = 1) /\ (One(h, 1) <=> z1 = 1)
  BY <1>6 DEF One
<1>10. BusOr(x, h) = b
  BY <1>1, <1>3, <1>4, <1>5, <1>6, <1>8, <1>9 DEF BusOr, Missing, Bits
<1> QED
  BY <1>6, <1>7, <1>10

\* Every address of the bus is a choice.
LEMMA AddressChosen ==
  ASSUME NEW b \in Nat, NEW x \in Nat, NEW h \in 0 .. Overlap - 1, BusOr(x, h) = b
  PROVE  \E c4 \in Choice(b, 4), c2 \in Choice(b, 2), c1 \in Choice(b, 1) :
           x = BusLeft(b, c4, c2, c1) /\ h = High(c4, c2, c1)
<1>1. PICK q \in Nat, x4, x2, x1 \in {0, 1} : Bits(x, q, x4, x2, x1)
  BY BitsOf
<1>2. Overlap \in {1, 2, 4, 8}
  BY Overlaps
<1>3. PICK p \in Nat, z4, z2, z1 \in {0, 1} : Bits(h, p, z4, z2, z1)
  BY <1>2, BitsOf
<1>4. p = 0 /\ (z4 = 1 => 4 < Overlap) /\ (z2 = 1 => 2 < Overlap) /\ (z1 = 1 => 1 < Overlap)
  BY <1>2, <1>3 DEF Bits
<1>5. PICK c4, c2, c1 \in {0, 1, 2} :
        /\ c4 = (IF z4 = 0 THEN 0 ELSE IF x4 = 0 THEN 1 ELSE 2)
        /\ c2 = (IF z2 = 0 THEN 0 ELSE IF x2 = 0 THEN 1 ELSE 2)
        /\ c1 = (IF z1 = 0 THEN 0 ELSE IF x1 = 0 THEN 1 ELSE 2)
  OBVIOUS
<1>6. PICK b4, b2, b1 \in {0, 1} : /\ b4 = (IF z4 = 0 THEN x4 ELSE 1) /\ b2 = (IF z2 = 0 THEN x2 ELSE 1)
                                   /\ b1 = (IF z1 = 0 THEN x1 ELSE 1)
  OBVIOUS
<1>7. b = 8 * q + 4 * b4 + 2 * b2 + b1
  BY <1>1, <1>3, <1>6 DEF BusOr, Missing, Bits
<1>8. (One(b, 4) <=> b4 = 1) /\ (One(b, 2) <=> b2 = 1) /\ (One(b, 1) <=> b1 = 1)
  BY <1>7 DEF One
<1>9. c4 \in Choice(b, 4) /\ c2 \in Choice(b, 2) /\ c1 \in Choice(b, 1)
  BY <1>4, <1>5, <1>6, <1>8 DEF Choice
<1>10. x = BusLeft(b, c4, c2, c1)
  BY <1>1, <1>5, <1>6, <1>7 DEF BusLeft, Off, Bits
<1>11. h = High(c4, c2, c1)
  BY <1>3, <1>4, <1>5 DEF High, On, Bits
<1> QED
  BY <1>9, <1>10, <1>11

SameAddress(b, c4, c2, c1, d4, d2, d1) ==
  BusLeft(b, c4, c2, c1) = BusLeft(b, d4, d2, d1) /\ High(c4, c2, c1) = High(d4, d2, d1)

\* Different choices are different addresses.
LEMMA ChoicesDiffer ==
  ASSUME NEW b \in Nat,
         NEW c4 \in Choice(b, 4), NEW c2 \in Choice(b, 2), NEW c1 \in Choice(b, 1),
         NEW d4 \in Choice(b, 4), NEW d2 \in Choice(b, 2), NEW d1 \in Choice(b, 1),
         SameAddress(b, c4, c2, c1, d4, d2, d1)
  PROVE  c4 = d4 /\ c2 = d2 /\ c1 = d1
<1>1. /\ c4 \in {0, 1, 2} /\ c2 \in {0, 1, 2} /\ c1 \in {0, 1, 2}
      /\ d4 \in {0, 1, 2} /\ d2 \in {0, 1, 2} /\ d1 \in {0, 1, 2}
  BY DEF Choice
<1>2. /\ Off(c4, 4) = Off(d4, 4) /\ Off(c2, 2) = Off(d2, 2) /\ Off(c1, 1) = Off(d1, 1)
  <2>1. Off(c4, 4) + Off(c2, 2) + Off(c1, 1) = Off(d4, 4) + Off(d2, 2) + Off(d1, 1)
    BY <1>1 DEF SameAddress, BusLeft, Off
  <2> QED
    BY <1>1, <2>1 DEF Off
<1>3. On(c4, 4) = On(d4, 4) /\ On(c2, 2) = On(d2, 2) /\ On(c1, 1) = On(d1, 1)
  BY <1>1 DEF SameAddress, High, On
<1> QED
  BY <1>1, <1>2, <1>3 DEF Off, On

\* A bijection from a finite set counts its image.
LEMMA Counted ==
  ASSUME NEW S, NEW T, NEW F \in [S -> T], IsFiniteSet(S),
         \A a, b \in S : F[a] = F[b] => a = b, \A t \in T : \E a \in S : F[a] = t
  PROVE  IsFiniteSet(T) /\ Cardinality(T) = Cardinality(S)
<1>1. F \in Bijection(S, T)
  BY Zenon DEF Bijection, Injection, Surjection, IsInjective
<1>2. ExistsBijection(S, T)
  BY <1>1, Zenon DEF ExistsBijection
<1> QED
  BY <1>2, FS_Bijection

\* A slot is the upper bits and the device in one way.
LEMMA SlotParts ==
  ASSUME NEW h \in 0 .. Overlap - 1, NEW d \in 0 .. DEVICES - 1
  PROVE  /\ h * DEVICES + d \in 0 .. SLOTS - 1
         /\ (h * DEVICES + d) \div DEVICES = h /\ (h * DEVICES + d) % DEVICES = d
<1>1. PICK e \in Nat \ {0} : e = DEVICES
  BY Overlaps
<1>2. PICK o \in {1, 2, 4, 8} : o = Overlap /\ SLOTS = o * e
  BY <1>1, Overlaps
<1>3. h \in Nat /\ d \in Nat /\ d < e /\ h <= o - 1
  BY <1>1, <1>2
<1>4. h * e \in Nat /\ h * e <= (o - 1) * e /\ (o - 1) * e + e = o * e
  BY <1>2, <1>3
<1>5. PICK s \in Nat : s = h * e + d
  BY <1>3, <1>4
<1>6. s \in 0 .. SLOTS - 1
  BY <1>2, <1>3, <1>4, <1>5
<1>7. PICK q \in Nat, r \in 0 .. e - 1 : q = s \div e /\ r = s % e /\ s = q * e + r
  <2>1. s \div e \in Nat /\ s % e \in 0 .. e - 1
    OBVIOUS
  <2>2. s = (s \div e) * e + (s % e)
    OBVIOUS
  <2> QED
    BY <2>1, <2>2
<1>8. q = h
  <2>1. ASSUME NEW x \in Nat, NEW y \in Nat, x < y PROVE x * e + e <= y * e
    <3>1. PICK z \in Nat : y = x + 1 + z
      <4>1. y - x - 1 \in Nat /\ y = x + 1 + (y - x - 1)
        BY <2>1
      <4> QED
        BY <4>1
    <3>2. y * e = x * e + e + z * e /\ z * e \in Nat
      BY <3>1
    <3> QED
      BY <3>2
  <2>2. q * e \in Nat
    OBVIOUS
  <2>3. ~(q < h)
    BY <1>3, <1>4, <1>5, <1>7, <2>1, <2>2
  <2>4. ~(h < q)
    BY <1>3, <1>4, <1>5, <1>7, <2>1, <2>2
  <2> QED
    BY <1>3, <2>3, <2>4
<1>9. r = d
  BY <1>3, <1>4, <1>5, <1>7, <1>8
<1> QED
  BY <1>1, <1>5, <1>6, <1>7, <1>8, <1>9

LEMMA SlotIs ==
  ASSUME NEW s \in 0 .. SLOTS - 1
  PROVE  /\ s \div DEVICES \in 0 .. Overlap - 1 /\ s % DEVICES \in 0 .. DEVICES - 1
         /\ s = (s \div DEVICES) * DEVICES + (s % DEVICES)
<1>1. PICK e \in Nat \ {0} : e = DEVICES
  BY Overlaps
<1>2. PICK o \in {1, 2, 4, 8} : o = Overlap /\ SLOTS = o * e
  BY <1>1, Overlaps
<1>3. s \in Nat /\ s < o * e
  BY <1>2, Overlaps
<1>4. s \div e \in Nat /\ s % e \in 0 .. e - 1
  BY <1>3
<1>5. s = (s \div e) * e + (s % e)
  BY <1>3
<1>6. PICK q \in Nat, r \in 0 .. e - 1 : q = s \div e /\ r = s % e
  BY <1>4
<1>7. q <= o - 1
  <2> SUFFICES ASSUME q >= o PROVE FALSE
    BY <1>2
  <2>1. PICK z \in Nat : q = o + z
    <3>1. q - o \in Nat /\ q = o + (q - o)
      BY <1>2
    <3> QED
      BY <3>1
  <2>2. q * e = o * e + z * e /\ z * e \in Nat
    BY <2>1
  <2> QED
    BY <1>2, <1>3, <1>5, <1>6, <2>2
<1> QED
  BY <1>1, <1>2, <1>5, <1>6, <1>7

\* The addresses a place answers to.
Answers(p) == {a \in (0 .. BUSES - 1) \X (0 .. SLOTS - 1) : AddressedPlace(a[1], a[2]) = p}

LEMMA ChoiceCount ==
  ASSUME NEW b, NEW w
  PROVE  IsFiniteSet(Choice(b, w)) /\ Cardinality(Choice(b, w)) = Ways(b, w)
<1>1. IsFiniteSet({0}) /\ Cardinality({0}) = 1
  BY FS_Singleton
<1>2. IsFiniteSet({0, 1, 2}) /\ Cardinality({0, 1, 2}) = 3
  <2>1. {0, 1, 2} = 0 .. 2
    OBVIOUS
  <2> QED
    <3>1. 0 \in Int /\ 2 \in Int /\ ~(0 > 2) /\ 2 - 0 + 1 = 3
      OBVIOUS
    <3>2. IsFiniteSet(0 .. 2) /\ Cardinality(0 .. 2) = IF 0 > 2 THEN 0 ELSE 2 - 0 + 1
      BY <3>1, FS_Interval, Zenon
    <3> QED
      BY <2>1, <3>1, <3>2
<1> QED
  BY <1>1, <1>2 DEF Choice, Ways, Overlap

\* As many as there are ways to split the ones of the bus number.
LEMMA AnswersCount ==
  ASSUME NEW p \in Places
  PROVE  IsFiniteSet(Answers(p)) /\ Cardinality(Answers(p)) = Aliases(p[1])
<1>1. PICK b \in 0 .. BUSES - 1, d \in 0 .. DEVICES - 1 : p = <<b, d>>
  BY DEF Places
<1>2. b \in Nat /\ BUSES \in Nat /\ b <= BUSES - 1
  BY Overlaps
<1>3. PICK C : C = Choice(b, 4) \X (Choice(b, 2) \X Choice(b, 1))
  OBVIOUS
<1>4. IsFiniteSet(C) /\ Cardinality(C) = Ways(b, 4) * (Ways(b, 2) * Ways(b, 1))
  <2>1. /\ IsFiniteSet(Choice(b, 2) \X Choice(b, 1))
        /\ Cardinality(Choice(b, 2) \X Choice(b, 1)) = Ways(b, 2) * Ways(b, 1)
    BY ChoiceCount, FS_Product
  <2> QED
    BY <1>3, <2>1, ChoiceCount, FS_Product
<1>5. PICK F : F = [t \in C |-> <<BusLeft(b, t[1], t[2][1], t[2][2]), High(t[1], t[2][1], t[2][2]) * DEVICES + d>>]
  OBVIOUS
<1>6. \A t \in C : t[1] \in Choice(b, 4) /\ t[2][1] \in Choice(b, 2) /\ t[2][2] \in Choice(b, 1)
  BY <1>3
<1>7. ASSUME NEW t \in C
      PROVE  F[t] \in Answers(p)
  <2>1. PICK c4 \in Choice(b, 4), c2 \in Choice(b, 2), c1 \in Choice(b, 1) : c4 = t[1] /\ c2 = t[2][1] /\ c1 = t[2][2]
    BY <1>6
  <2>2. PICK x \in 0 .. b, h \in 0 .. Overlap - 1 : /\ x = BusLeft(b, c4, c2, c1) /\ h = High(c4, c2, c1)
                                                   /\ BusOr(x, h) = b
    BY <1>2, ChoiceAddresses
  <2>3. PICK s \in 0 .. SLOTS - 1 : s = h * DEVICES + d /\ s \div DEVICES = h /\ s % DEVICES = d
    BY SlotParts
  <2>4. F[t] = <<x, s>>
    BY <1>5, <2>1, <2>2, <2>3
  <2>5. AddressedPlace(x, s) = p
    BY <1>1, <2>2, <2>3 DEF AddressedPlace
  <2>6. x \in 0 .. BUSES - 1
    BY <1>2
  <2> QED
    BY <2>4, <2>5, <2>6 DEF Answers
<1>8. ASSUME NEW t \in C, NEW u \in C, F[t] = F[u]
      PROVE  t = u
  <2>1. PICK c4 \in Choice(b, 4), c2 \in Choice(b, 2), c1 \in Choice(b, 1) : t = <<c4, <<c2, c1>>>>
    BY <1>3
  <2>2. PICK d4 \in Choice(b, 4), d2 \in Choice(b, 2), d1 \in Choice(b, 1) : u = <<d4, <<d2, d1>>>>
    BY <1>3
  <2>3. PICK h \in 0 .. Overlap - 1, g \in 0 .. Overlap - 1 : h = High(c4, c2, c1) /\ g = High(d4, d2, d1)
    BY <1>2, ChoiceAddresses
  <2>4. F[t] = <<BusLeft(b, c4, c2, c1), h * DEVICES + d>> /\ F[u] = <<BusLeft(b, d4, d2, d1), g * DEVICES + d>>
    BY <1>5, <2>1, <2>2, <2>3
  <2>5. BusLeft(b, c4, c2, c1) = BusLeft(b, d4, d2, d1) /\ h * DEVICES + d = g * DEVICES + d
    <3>1. PICK x, y, v, w : /\ x = BusLeft(b, c4, c2, c1) /\ v = BusLeft(b, d4, d2, d1)
                            /\ y = h * DEVICES + d /\ w = g * DEVICES + d
      BY Zenon
    <3>2. <<x, y>> = <<v, w>>
      BY <1>8, <2>4, <3>1, Zenon
    <3>3. x = v /\ y = w
      BY <3>2, Zenon
    <3> QED
      BY <3>1, <3>3, Zenon
  <2>6. h = g
    <3>1. (h * DEVICES + d) \div DEVICES = h /\ (g * DEVICES + d) \div DEVICES = g
      BY SlotParts
    <3> QED
      BY <2>5, <3>1
  <2>7. c4 = d4 /\ c2 = d2 /\ c1 = d1
    <3>1. High(c4, c2, c1) = High(d4, d2, d1)
      BY <2>3, <2>6
    <3>2. SameAddress(b, c4, c2, c1, d4, d2, d1)
      BY <2>5, <3>1, Zenon DEF SameAddress
    <3> QED
      BY <1>2, <3>2, ChoicesDiffer
  <2> QED
    BY <2>1, <2>2, <2>7
<1>9. ASSUME NEW a \in Answers(p)
      PROVE  \E t \in C : F[t] = a
  <2>1. PICK x \in 0 .. BUSES - 1, s \in 0 .. SLOTS - 1 : a = <<x, s>> /\ AddressedPlace(x, s) = p
    BY DEF Answers
  <2>2. PICK h \in 0 .. Overlap - 1 : h = s \div DEVICES /\ s = h * DEVICES + d /\ BusOr(x, h) = b
    <3>1. AddressedPlace(x, s) = <<BusOr(x, s \div DEVICES), s % DEVICES>>
      BY DEF AddressedPlace
    <3>2. BusOr(x, s \div DEVICES) = b /\ s % DEVICES = d
      BY <1>1, <2>1, <3>1
    <3> QED
      BY <3>2, SlotIs
  <2>3. x \in Nat
    BY <1>2
  <2>4. PICK c4 \in Choice(b, 4), c2 \in Choice(b, 2), c1 \in Choice(b, 1) :
          x = BusLeft(b, c4, c2, c1) /\ h = High(c4, c2, c1)
    BY <1>2, <2>2, <2>3, AddressChosen
  <2>5. <<c4, <<c2, c1>>>> \in C
    BY <1>3
  <2>6. F[<<c4, <<c2, c1>>>>] = <<x, s>>
    BY <1>5, <2>2, <2>4, <2>5
  <2> QED
    BY <2>1, <2>5, <2>6
<1>10. F \in [C -> Answers(p)]
  BY <1>5, <1>7
<1>11. IsFiniteSet(Answers(p)) /\ Cardinality(Answers(p)) = Cardinality(C)
  BY <1>4, <1>8, <1>9, <1>10, Counted, Zenon
<1>12. Ways(b, 4) * (Ways(b, 2) * Ways(b, 1)) = Aliases(b)
  BY DEF Aliases, Ways
<1> QED
  BY <1>1, <1>4, <1>11, <1>12

-----------------------------------------------------------------------------
(* The search of pci.ids, a line at a time. *)

\* The greatest element of a set of positions.
LEMMA MaxOfPositions ==
  ASSUME NEW m \in Nat, NEW S \in SUBSET (1 .. m), S # {}
  PROVE  Max(S) \in S /\ \A y \in S : Max(S) >= y
<1>1. PICK T \in SUBSET Nat : T = {n \in Nat : m - n \in S}
  <2>1. {n \in Nat : m - n \in S} \in SUBSET Nat
    OBVIOUS
  <2> QED
    BY <2>1
<1>2. T # {}
  <2>1. PICK y \in S : TRUE
    OBVIOUS
  <2>2. y \in 1 .. m
    OBVIOUS
  <2>3. m - y \in Nat /\ m - (m - y) = y
    BY <2>2
  <2> QED
    BY <1>1, <2>1, <2>3
<1>3. PICK n \in T : \A k \in T : n <= k
  BY <1>2, LeastNatural
<1>4. m - n \in S
  BY <1>1, <1>3
<1>5. ASSUME NEW y \in S PROVE m - n >= y
  <2>1. y \in 1 .. m
    OBVIOUS
  <2>2. m - y \in Nat /\ m - (m - y) = y /\ n \in Nat
    BY <2>1, <1>1, <1>3
  <2>3. m - y \in T
    BY <1>1, <2>2
  <2> QED
    BY <1>3, <2>1, <2>2, <2>3
<1>6. \E x \in S : \A y \in S : x >= y
  BY <1>4, <1>5
<1> QED
  BY <1>6 DEF Max

\* f is what FoldLeft iterates over the sets of positions up to m.
Iterates(f, b, db, v, d, m) ==
  f = [s \in SUBSET (1 .. m) |-> IF s = {} THEN b ELSE AfterLine(f[s \ {Max(s)}], db[Max(s)], v, d)]

Start == [ppss |-> PPSS_VENDOR, found |-> FALSE, names |-> Unnamed]

\* The state behind the last line.
LastState(b, db, v, d, n) == (CHOOSE f : Iterates(f, b, db, v, d, n))[1 .. n]

LEMMA FoldIterates ==
  ASSUME NEW v, NEW d, NEW n \in Nat, DOMAIN pci_ids = 1 .. n
  PROVE  pci_get_vendor_dev_name(v, d) =
           LET s == LastState(Start, pci_ids, v, d, n) IN IF s.found THEN s.names ELSE Unnamed
<1>1. FoldLeft(LAMBDA t, l : AfterLine(t, l, v, d), Start, pci_ids) = LastState(Start, pci_ids, v, d, n)
  BY Zenon DEF FoldLeft, MapThenFoldSet, Iterates, LastState
<1>2. FoldLeft(LAMBDA t, l : AfterLine(t, l, v, d), [ppss |-> PPSS_VENDOR, found |-> FALSE, names |-> Unnamed], pci_ids)
        = LastState(Start, pci_ids, v, d, n)
  BY <1>1, Zenon DEF Start
<1> QED
  BY <1>2, Zenon DEF pci_get_vendor_dev_name

LEMMA IterationExists ==
  ASSUME NEW b, NEW db, NEW v, NEW d, NEW n \in Nat
  PROVE  \E f : Iterates(f, b, db, v, d, n)
<1> SUFFICES ASSUME ~ \E f : Iterates(f, b, db, v, d, n)
             PROVE  FALSE
  OBVIOUS
<1>1. PICK T \in SUBSET Nat : T = {m \in Nat : ~ \E f : Iterates(f, b, db, v, d, m)}
  <2>1. {m \in Nat : ~ \E f : Iterates(f, b, db, v, d, m)} \in SUBSET Nat
    OBVIOUS
  <2> QED
    BY <2>1
<1>2. n \in T
  BY <1>1
<1>3. PICK m \in T : \A k \in T : m <= k
  BY <1>2, LeastNatural
<1>4. m # 0
  <2>1. SUBSET (1 .. 0) = {{}}
    <3>1. 1 .. 0 = {}
      OBVIOUS
    <3> QED
      BY <3>1
  <2>2. PICK g : g = [s \in {{}} |-> b]
    OBVIOUS
  <2>3. g = [s \in {{}} |-> IF s = {} THEN b ELSE AfterLine(g[s \ {Max(s)}], db[Max(s)], v, d)]
    BY <2>2
  <2>4. Iterates(g, b, db, v, d, 0)
    BY <2>1, <2>3 DEF Iterates
  <2> QED
    BY <1>1, <1>3, <2>4
<1>5. PICK p \in Nat : m = p + 1
  <2>1. m \in Nat /\ m - 1 \in Nat /\ m = (m - 1) + 1
    BY <1>1, <1>3, <1>4
  <2> QED
    BY <2>1
<1>6. PICK f : Iterates(f, b, db, v, d, p)
  <2>1. p \notin T
    BY <1>3, <1>5
  <2> QED
    BY <1>1, <2>1
<1>7. PICK g : g = [s \in SUBSET (1 .. p + 1) |->
                     IF p + 1 \in s THEN AfterLine(f[s \ {p + 1}], db[p + 1], v, d) ELSE f[s]]
  OBVIOUS
<1>8. ASSUME NEW s \in SUBSET (1 .. p + 1)
      PROVE  g[s] = IF s = {} THEN b ELSE AfterLine(g[s \ {Max(s)}], db[Max(s)], v, d)
  <2>1. CASE p + 1 \in s
    <3>1. Max(s) = p + 1
      <4>1. p + 1 \in Nat /\ s # {}
        BY <2>1
      <4>2. Max(s) \in s /\ \A y \in s : Max(s) >= y
        BY <4>1, MaxOfPositions
      <4>3. Max(s) \in 1 .. p + 1 /\ Max(s) >= p + 1
        BY <2>1, <4>2
      <4> QED
        BY <4>3
    <3>2. s \ {p + 1} \in SUBSET (1 .. p) /\ s \ {p + 1} \in SUBSET (1 .. p + 1)
      OBVIOUS
    <3>3. g[s \ {p + 1}] = f[s \ {p + 1}]
      BY <1>7, <3>2
    <3> QED
      BY <1>7, <2>1, <3>1, <3>3
  <2>2. CASE p + 1 \notin s
    <3>1. s \in SUBSET (1 .. p)
      BY <2>2
    <3>2. g[s] = f[s]
      BY <1>7, <2>2
    <3>3. f[s] = IF s = {} THEN b ELSE AfterLine(f[s \ {Max(s)}], db[Max(s)], v, d)
      BY <1>6, <3>1, Zenon DEF Iterates
    <3>4. s # {} => g[s \ {Max(s)}] = f[s \ {Max(s)}]
      <4>1. s \ {Max(s)} \in SUBSET (1 .. p + 1) /\ p + 1 \notin s \ {Max(s)}
        BY <2>2
      <4> QED
        BY <1>7, <4>1
    <3> QED
      BY <3>2, <3>3, <3>4
  <2> QED
    BY <2>1, <2>2
<1>9. g = [s \in SUBSET (1 .. p + 1) |-> g[s]]
  BY <1>7
<1>10. Iterates(g, b, db, v, d, p + 1)
  BY <1>8, <1>9 DEF Iterates
<1> QED
  BY <1>1, <1>3, <1>5, <1>10

\* The states of the search behind each line of db.
Reads(h, b, db, v, d, n) ==
  /\ h = [k \in 0 .. n |-> h[k]]
  /\ h[0] = b
  /\ \A k \in 1 .. n : h[k] = AfterLine(h[k - 1], db[k], v, d)

\* The search reads one line after the other.
LEMMA LinesFold ==
  ASSUME NEW b, NEW db, NEW v, NEW d, NEW n \in Nat, DOMAIN db = 1 .. n
  PROVE  \E h : Reads(h, b, db, v, d, n) /\ LastState(b, db, v, d, n) = h[n]
<1>1. PICK f : f = CHOOSE g : Iterates(g, b, db, v, d, n)
  OBVIOUS
<1>2. Iterates(f, b, db, v, d, n)
  BY <1>1, IterationExists, Zenon
<1>3. \A s \in SUBSET (1 .. n) : f[s] = IF s = {} THEN b ELSE AfterLine(f[s \ {Max(s)}], db[Max(s)], v, d)
  BY <1>2, Zenon DEF Iterates
<1>4. PICK h : h = [k \in 0 .. n |-> f[1 .. k]]
  OBVIOUS
<1>5. h[0] = b
  <2>1. 1 .. 0 = {} /\ {} \in SUBSET (1 .. n)
    OBVIOUS
  <2>2. f[{}] = b
    BY <1>3, <2>1
  <2> QED
    BY <1>4, <2>1, <2>2
<1>6. ASSUME NEW k \in 1 .. n PROVE h[k] = AfterLine(h[k - 1], db[k], v, d)
  <2>1. 1 .. k \in SUBSET (1 .. n) /\ k \in 1 .. k /\ 1 .. k # {}
    <3>1. \A j \in 1 .. k : j \in 1 .. n
      OBVIOUS
    <3>2. k \in 1 .. k
      OBVIOUS
    <3> QED
      BY <3>1, <3>2, Zenon
  <2>2. Max(1 .. k) = k
    <3>1. Max(1 .. k) \in 1 .. k /\ Max(1 .. k) >= k
      BY <2>1, MaxOfPositions
    <3> QED
      BY <3>1
  <2>3. (1 .. k) \ {k} = 1 .. k - 1
    OBVIOUS
  <2>4. f[1 .. k] = AfterLine(f[1 .. k - 1], db[k], v, d)
    BY <1>3, <2>1, <2>2, <2>3
  <2>5. h[k] = f[1 .. k] /\ h[k - 1] = f[1 .. k - 1]
    BY <1>4
  <2> QED
    BY <2>4, <2>5
<1>7. LastState(b, db, v, d, n) = h[n]
  <2>1. h[n] = f[1 .. n]
    BY <1>4
  <2> QED
    BY <1>1, <2>1 DEF LastState
<1>8. h = [k \in 0 .. n |-> h[k]]
  BY <1>4
<1>9. Reads(h, b, db, v, d, n)
  BY <1>5, <1>6, <1>8 DEF Reads
<1> QED
  BY <1>7, <1>9

VendorAt(v, k) == pci_ids[k].kind = "vendor" /\ pci_ids[k].id = v
DeviceAt(d, k) == pci_ids[k].kind \in {"device", "tabbed"} /\ pci_ids[k].id = d

\* Line h is the vendor's first, and l the device's first behind it.
FirstVendor(v, h) == VendorAt(v, h) /\ \A j \in 1 .. h - 1 : ~VendorAt(v, j)
FirstDevice(d, h, l) == h < l /\ DeviceAt(d, l) /\ \A j \in h + 1 .. l - 1 : ~DeviceAt(d, j)

SearchState(ppss, done, vendor, device) ==
  [ppss |-> ppss, found |-> done, names |-> [vendor_name |-> vendor, device_name |-> device]]

SeeksVendor(s, v, k) ==
  s = SearchState(PPSS_VENDOR, FALSE, "", "") /\ \A j \in 1 .. k : ~VendorAt(v, j)
SeeksDevice(s, v, d, k) ==
  \E h \in 1 .. k : /\ FirstVendor(v, h) /\ \A j \in h + 1 .. k : ~DeviceAt(d, j)
                    /\ s = SearchState(PPSS_DEVICE, FALSE, pci_ids[h].name, "")
HasBoth(s, v, d, k) ==
  \E h, l \in 1 .. k : /\ FirstVendor(v, h) /\ FirstDevice(d, h, l)
                       /\ s = SearchState(PPSS_DEVICE, TRUE, pci_ids[h].name, pci_ids[l].name)

\* Where the search is behind line k.
Searched(s, v, d, k) == SeeksVendor(s, v, k) \/ SeeksDevice(s, v, d, k) \/ HasBoth(s, v, d, k)

LEMMA OneMoreLine ==
  ASSUME NEW s, NEW v, NEW d, NEW k \in Nat \ {0}, Searched(s, v, d, k - 1)
  PROVE  Searched(AfterLine(s, pci_ids[k], v, d), v, d, k)
<1>1. k - 1 \in Nat /\ k \in 1 .. k /\ 1 .. k - 1 \subseteq 1 .. k /\ k - 1 + 1 = k
  OBVIOUS
<1>2. ASSUME NEW h \in Nat, h <= k - 1
      PROVE  h + 1 .. k = (h + 1 .. k - 1) \cup {k}
  BY <1>2
<1>3. PPSS_VENDOR # PPSS_DEVICE
  BY DEF PPSS_VENDOR, PPSS_DEVICE
<1>4. CASE SeeksVendor(s, v, k - 1)
  <2>1. s.ppss = PPSS_VENDOR /\ s.found = FALSE
    BY <1>4 DEF SeeksVendor, SearchState
  <2>2. Matches(s, pci_ids[k], v, d) <=> VendorAt(v, k)
    BY <2>1 DEF Matches, VendorAt
  <2>3. \A j \in 1 .. k - 1 : ~VendorAt(v, j)
    BY <1>4 DEF SeeksVendor
  <2>4. CASE VendorAt(v, k)
    <3>1. AfterLine(s, pci_ids[k], v, d) = [s EXCEPT !.ppss = PPSS_DEVICE, !.names.vendor_name = pci_ids[k].name]
      BY <2>1, <2>2, <2>4 DEF AfterLine
    <3>2. AfterLine(s, pci_ids[k], v, d) = SearchState(PPSS_DEVICE, FALSE, pci_ids[k].name, "")
      BY <1>4, <3>1 DEF SeeksVendor, SearchState
    <3>3. FirstVendor(v, k)
      BY <2>3, <2>4 DEF FirstVendor
    <3>4. \A j \in k + 1 .. k : ~DeviceAt(d, j)
      OBVIOUS
    <3> QED
      BY <1>1, <3>2, <3>3, <3>4 DEF Searched, SeeksDevice
  <2>5. CASE ~VendorAt(v, k)
    <3>1. AfterLine(s, pci_ids[k], v, d) = s
      BY <2>2, <2>5 DEF AfterLine
    <3>2. \A j \in 1 .. k : ~VendorAt(v, j)
      BY <2>3, <2>5
    <3> QED
      BY <1>4, <3>1, <3>2 DEF Searched, SeeksVendor
  <2> QED
    BY <2>4, <2>5
<1>5. CASE SeeksDevice(s, v, d, k - 1)
  <2>1. PICK h \in 1 .. k - 1 : /\ FirstVendor(v, h) /\ \A j \in h + 1 .. k - 1 : ~DeviceAt(d, j)
                                /\ s = SearchState(PPSS_DEVICE, FALSE, pci_ids[h].name, "")
    BY <1>5 DEF SeeksDevice
  <2>2. s.ppss = PPSS_DEVICE /\ s.found = FALSE
    BY <2>1 DEF SearchState
  <2>3. Matches(s, pci_ids[k], v, d) <=> DeviceAt(d, k)
    BY <1>3, <2>2 DEF Matches, DeviceAt
  <2>4. h \in 1 .. k /\ h < k
    OBVIOUS
  <2>5. CASE DeviceAt(d, k)
    <3>1. AfterLine(s, pci_ids[k], v, d) = [s EXCEPT !.found = TRUE, !.names.device_name = pci_ids[k].name]
      BY <1>3, <2>2, <2>3, <2>5 DEF AfterLine
    <3>2. AfterLine(s, pci_ids[k], v, d) = SearchState(PPSS_DEVICE, TRUE, pci_ids[h].name, pci_ids[k].name)
      BY <2>1, <3>1 DEF SearchState
    <3>3. FirstDevice(d, h, k)
      BY <2>1, <2>4, <2>5 DEF FirstDevice
    <3> QED
      BY <1>1, <2>1, <2>4, <3>2, <3>3 DEF Searched, HasBoth
  <2>6. CASE ~DeviceAt(d, k)
    <3>1. AfterLine(s, pci_ids[k], v, d) = s
      BY <2>3, <2>6 DEF AfterLine
    <3>2. \A j \in h + 1 .. k : ~DeviceAt(d, j)
      <4>1. h \in Nat /\ h <= k - 1
        OBVIOUS
      <4> QED
        <5>1. h + 1 .. k = (h + 1 .. k - 1) \cup {k}
          BY <1>2, <4>1
        <5> QED
          BY <2>1, <2>6, <5>1, Zenon
    <3> QED
      BY <2>1, <2>4, <3>1, <3>2 DEF Searched, SeeksDevice
  <2> QED
    BY <2>5, <2>6
<1>6. CASE HasBoth(s, v, d, k - 1)
  <2>1. s.found = TRUE
    BY <1>6 DEF HasBoth, SearchState
  <2>2. AfterLine(s, pci_ids[k], v, d) = s
    BY <2>1 DEF AfterLine
  <2>3. HasBoth(s, v, d, k)
    BY <1>1, <1>6 DEF HasBoth
  <2> QED
    BY <2>2, <2>3 DEF Searched
<1> QED
  BY <1>4, <1>5, <1>6 DEF Searched

\* What the search returns.
LEMMA SearchEnds ==
  ASSUME NEW v, NEW d, NEW n \in Nat, DOMAIN pci_ids = 1 .. n
  PROVE  \E s : /\ Searched(s, v, d, n)
                /\ pci_get_vendor_dev_name(v, d) = IF s.found THEN s.names ELSE Unnamed
<1>1. PICK R : Reads(R, Start, pci_ids, v, d, n) /\ LastState(Start, pci_ids, v, d, n) = R[n]
  BY LinesFold, Zenon
<1>2. \A k \in 0 .. n : Searched(R[k], v, d, k)
  <2> SUFFICES ASSUME NEW x \in 0 .. n, ~Searched(R[x], v, d, x)
               PROVE  FALSE
    OBVIOUS
  <2>1. PICK T \in SUBSET Nat : T = {k \in 0 .. n : ~Searched(R[k], v, d, k)}
    <3>1. {k \in 0 .. n : ~Searched(R[k], v, d, k)} \in SUBSET Nat
      OBVIOUS
    <3> QED
      BY <3>1
  <2>2. PICK k \in T : \A j \in T : k <= j
    BY <2>1, LeastNatural
  <2>3. k \in 0 .. n /\ ~Searched(R[k], v, d, k)
    BY <2>1, <2>2
  <2>4. CASE k = 0
    <3>1. R[0] = Start
      BY <1>1 DEF Reads
    <3>2. SeeksVendor(Start, v, 0)
      <4>1. \A j \in 1 .. 0 : ~VendorAt(v, j)
        OBVIOUS
      <4> QED
        BY <4>1, Zenon DEF SeeksVendor, Start, SearchState, Unnamed
    <3> QED
      BY <2>3, <2>4, <3>1, <3>2 DEF Searched
  <2>5. CASE k # 0
    <3>1. k \in 1 .. n /\ k - 1 \in 0 .. n /\ k \in Nat \ {0} /\ ~(k <= k - 1)
      BY <2>3, <2>5
    <3>2. Searched(R[k - 1], v, d, k - 1)
      BY <2>1, <2>2, <3>1
    <3>3. R[k] = AfterLine(R[k - 1], pci_ids[k], v, d)
      BY <1>1, <3>1 DEF Reads
    <3> QED
      BY <2>3, <3>1, <3>2, <3>3, OneMoreLine
  <2> QED
    BY <2>4, <2>5
<1>3. n \in 0 .. n
  OBVIOUS
<1>4. pci_get_vendor_dev_name(v, d) = IF R[n].found THEN R[n].names ELSE Unnamed
  BY <1>1, FoldIterates, Zenon
<1> QED
  BY <1>2, <1>3, <1>4

\* The names of an entry are those KnownDeviceNamed says.
NamedRight(v, d, names) ==
  /\ \A l \in DeviceLines(v, d), h \in VendorLines(v) :
       (\A c \in CommentedOut(v, d) : l < c) =>
         names = [vendor_name |-> pci_ids[h].name, device_name |-> pci_ids[l].name]
  /\ VendorLines(v) = {} => names.vendor_name = "Unknown Vendor"
  /\ IF LaterLines(v, d) = {} THEN names.device_name = "Unknown Device"
     ELSE \E l \in LaterLines(v, d) : names.device_name = pci_ids[l].name

Unknown == [vendor_name |-> "Unknown Vendor", device_name |-> "Unknown Device"]

ShownNames(v, d) ==
  IF pci_get_vendor_dev_name(v, d).vendor_name = "" THEN Unknown ELSE pci_get_vendor_dev_name(v, d)

LEMMA UnknownRight ==
  ASSUME NEW v, NEW d, LaterLines(v, d) = {}, VendorLines(v) = {} \/ DeviceLines(v, d) = {}
  PROVE  NamedRight(v, d, Unknown)
  BY Zenon DEF NamedRight, Unknown

LEMMA NoName == Unnamed.vendor_name = ""
  BY DEF Unnamed

LEMMA NamesFound ==
  ASSUME IdList(pci_ids), NEW v, NEW d
  PROVE  NamedRight(v, d, ShownNames(v, d))
<1>1. PICK n \in Nat : n = Len(pci_ids) /\ DOMAIN pci_ids = 1 .. n
  <2>1. pci_ids \in Seq(IdLines)
    BY DEF IdList
  <2> QED
    BY <2>1, LenProperties
<1>2. PICK s : /\ Searched(s, v, d, n)
               /\ pci_get_vendor_dev_name(v, d) = IF s.found THEN s.names ELSE Unnamed
  BY <1>1, SearchEnds
<1>3. \A k \in 1 .. n : k \in VendorLines(v) <=> VendorAt(v, k)
  BY <1>1 DEF VendorLines, VendorAt
<1>4. \A l \in 1 .. n : l \in LaterLines(v, d) <=> DeviceAt(d, l) /\ \E h \in VendorLines(v) : h < l
  BY <1>1 DEF LaterLines, DeviceAt
<1>5. /\ VendorLines(v) \subseteq 1 .. n /\ LaterLines(v, d) \subseteq 1 .. n
      /\ DeviceLines(v, d) \subseteq 1 .. n
  BY <1>1 DEF VendorLines, LaterLines, DeviceLines, Section
<1>6. ASSUME NEW l \in DeviceLines(v, d)
      PROVE  /\ DeviceAt(d, l)
             /\ \E h \in VendorLines(v) : /\ h < l
                                         /\ \A g \in 1 .. n : pci_ids[g].kind = "vendor" => ~(h < g /\ g <= l)
  BY <1>1 DEF DeviceLines, Section, VendorLines, DeviceAt
<1>7. \A h, g \in VendorLines(v) : h = g
  BY <1>1, Zenon DEF IdList, VendorLines
<1>8. \A h \in VendorLines(v) : pci_ids[h].name # ""
  BY <1>1, Zenon DEF IdList, VendorLines
<1>9. CASE SeeksVendor(s, v, n)
  <2>1. VendorLines(v) = {}
    BY <1>3, <1>5, <1>9 DEF SeeksVendor
  <2>2. ShownNames(v, d) = Unknown
    <3>1. ~s.found
      BY <1>9 DEF SeeksVendor, SearchState
    <3>2. pci_get_vendor_dev_name(v, d) = Unnamed
      BY <1>2, <3>1, Zenon
    <3> QED
      BY <3>2, NoName, Zenon DEF ShownNames
  <2>3. LaterLines(v, d) = {}
    BY <1>4, <1>5, <2>1
  <2> QED
    BY <2>1, <2>2, <2>3, UnknownRight, Zenon
<1>10. CASE SeeksDevice(s, v, d, n)
  <2>1. PICK h \in 1 .. n : /\ FirstVendor(v, h) /\ \A j \in h + 1 .. n : ~DeviceAt(d, j)
                            /\ s = SearchState(PPSS_DEVICE, FALSE, pci_ids[h].name, "")
    BY <1>10 DEF SeeksDevice
  <2>2. h \in VendorLines(v)
    BY <1>3, <2>1 DEF FirstVendor
  <2>3. ShownNames(v, d) = Unknown
    <3>1. ~s.found
      BY <2>1 DEF SearchState
    <3>2. pci_get_vendor_dev_name(v, d) = Unnamed
      BY <1>2, <3>1, Zenon
    <3> QED
      BY <3>2, NoName, Zenon DEF ShownNames
  <2>4. LaterLines(v, d) = {}
    <3> SUFFICES ASSUME NEW l \in LaterLines(v, d) PROVE FALSE
      OBVIOUS
    <3>1. l \in 1 .. n /\ DeviceAt(d, l) /\ h < l
      BY <1>4, <1>5, <1>7, <2>2
    <3>2. l \in h + 1 .. n
      BY <3>1
    <3> QED
      BY <2>1, <3>1, <3>2
  <2>5. DeviceLines(v, d) = {}
    <3> SUFFICES ASSUME NEW l \in DeviceLines(v, d) PROVE FALSE
      OBVIOUS
    <3>1. l \in LaterLines(v, d)
      BY <1>4, <1>5, <1>6
    <3> QED
      BY <2>4, <3>1
  <2> QED
    BY <2>2, <2>3, <2>4, <2>5, UnknownRight, Zenon
<1>11. CASE HasBoth(s, v, d, n)
  <2>1. PICK h, l \in 1 .. n : /\ FirstVendor(v, h) /\ FirstDevice(d, h, l)
                               /\ s = SearchState(PPSS_DEVICE, TRUE, pci_ids[h].name, pci_ids[l].name)
    BY <1>11 DEF HasBoth
  <2>2. h \in VendorLines(v)
    BY <1>3, <2>1 DEF FirstVendor
  <2>3. ShownNames(v, d) = [vendor_name |-> pci_ids[h].name, device_name |-> pci_ids[l].name]
    <3>1. s.found /\ s.names = [vendor_name |-> pci_ids[h].name, device_name |-> pci_ids[l].name]
      BY <2>1 DEF SearchState
    <3>2. pci_get_vendor_dev_name(v, d) = s.names
      BY <1>2, <3>1, Zenon
    <3>3. s.names.vendor_name # ""
      <4>1. PICK x, y, r : x = pci_ids[h].name /\ y = pci_ids[l].name /\ r = s.names
        BY Zenon
      <4>2. r = [vendor_name |-> x, device_name |-> y]
        BY <3>1, <4>1, Zenon
      <4>3. r.vendor_name = x
        BY <4>2
      <4> QED
        BY <1>8, <2>2, <4>1, <4>3, Zenon
    <3> QED
      BY <3>1, <3>2, <3>3, Zenon DEF ShownNames
  <2>4. h < l /\ DeviceAt(d, l) /\ l \in LaterLines(v, d)
    BY <1>4, <2>1, <2>2 DEF FirstDevice
  <2>5. ASSUME NEW m \in DeviceLines(v, d), \A c \in CommentedOut(v, d) : m < c
        PROVE  m = l
    <3>1. m \in 1 .. n /\ DeviceAt(d, m) /\ h < m /\ \A g \in 1 .. n : pci_ids[g].kind = "vendor" => ~(h < g /\ g <= m)
      BY <1>5, <1>6, <1>7, <2>2
    <3>2. ~(m < l)
      <4> SUFFICES ASSUME m < l PROVE FALSE
        OBVIOUS
      <4>1. m \in h + 1 .. l - 1
        BY <3>1
      <4> QED
        BY <2>1, <3>1, <4>1 DEF FirstDevice
    <3>3. ~(l < m)
      <4> SUFFICES ASSUME l < m PROVE FALSE
        OBVIOUS
      <4>0. pci_ids[l].kind = "device" /\ pci_ids[m].kind = "device"
        <5>1. pci_ids[l].kind # "tabbed"
          BY <2>4, <2>5, <3>1 DEF CommentedOut
        <5>2. pci_ids[m].kind = "device"
          BY DEF DeviceLines
        <5> QED
          BY <2>4, <5>1, <5>2 DEF DeviceAt
      <4>1. PICK g \in l .. m : pci_ids[g].kind = "vendor"
        BY <1>1, <2>4, <3>1, <4>0 DEF IdList, DeviceAt
      <4>2. g \in 1 .. n /\ h < g /\ g <= m
        BY <2>4, <3>1
      <4> QED
        BY <3>1, <4>1, <4>2
    <3> QED
      BY <3>1, <3>2, <3>3
  <2> QED
    <3>1. ASSUME NEW m \in DeviceLines(v, d), NEW g \in VendorLines(v),
                 \A c \in CommentedOut(v, d) : m < c
          PROVE  ShownNames(v, d) = [vendor_name |-> pci_ids[g].name, device_name |-> pci_ids[m].name]
      <4>1. m = l /\ g = h
        BY <1>7, <2>2, <2>5, <3>1, Zenon
      <4> QED
        BY <2>3, <4>1, Zenon
    <3>2. VendorLines(v) # {} /\ LaterLines(v, d) # {}
      BY <2>2, <2>4
    <3>3. \E m \in LaterLines(v, d) : ShownNames(v, d).device_name = pci_ids[m].name
      <4>1. ShownNames(v, d).device_name = pci_ids[l].name
        <5>1. PICK x, y, r : x = pci_ids[h].name /\ y = pci_ids[l].name /\ r = ShownNames(v, d)
          BY Zenon
        <5>2. r = [vendor_name |-> x, device_name |-> y]
          BY <2>3, <5>1, Zenon
        <5>3. r.device_name = y
          BY <5>2
        <5> QED
          BY <5>1, <5>3, Zenon
      <4> QED
        BY <2>4, <4>1, Zenon
    <3> QED
      BY <3>1, <3>2, <3>3, Zenon DEF NamedRight
<1> QED
  BY <1>2, <1>9, <1>10, <1>11 DEF Searched

-----------------------------------------------------------------------------
(* The scan. *)

\* The loops have been at slot s of bus b.
Scanned(b, s) == ~scanning \/ b < bus \/ (b = bus /\ s < slot)

Listed(b, s) == \E k \in DOMAIN reported : reported[k] = <<b, s>>

PciInv ==
  /\ DOMAIN machine \subseteq Places
  /\ \A p \in DOMAIN machine : machine[p].vendor # PCI_NO_VENDOR
  /\ IdList(pci_ids)
  /\ bus \in 0 .. BUSES - 1 /\ slot \in 0 .. SLOTS - 1 /\ scanning \in BOOLEAN
  /\ reported \in Seq((0 .. BUSES - 1) \X (0 .. SLOTS - 1))
  /\ \A j, k \in DOMAIN reported : reported[j] = reported[k] => j = k
  /\ \A b \in 0 .. BUSES - 1, s \in 0 .. SLOTS - 1 :
       Listed(b, s) <=> Scanned(b, s) /\ AddressedPlace(b, s) \in DOMAIN machine

\* The list has the entries reported, as far as it reaches.
ListInv ==
  /\ \E S : pci_devices_list \in Seq(S)
  /\ Len(pci_devices_list) = IF Len(reported) < PCI_MAX_DEVICES THEN Len(reported) ELSE PCI_MAX_DEVICES
  /\ list_overrun <=> Len(reported) > PCI_MAX_DEVICES
  /\ \A k \in DOMAIN pci_devices_list : pci_devices_list[k].ids = machine[PlaceOf(k)]

NamesInv ==
  /\ \E S : pci_devices_list \in Seq(S)
  /\ \A k \in DOMAIN pci_devices_list :
       NamedRight(pci_devices_list[k].ids.vendor, pci_devices_list[k].ids.device, pci_devices_list[k].names)

\* What is listed of a device that is there, and that nothing else is listed.
LEMMA DeviceRead ==
  ASSUME NEW b, NEW s
  PROVE  /\ AddressedPlace(b, s) \notin DOMAIN machine => pci_get_device(b, s).ids.vendor = PCI_NO_VENDOR
         /\ AddressedPlace(b, s) \in DOMAIN machine => pci_get_device(b, s).ids = machine[AddressedPlace(b, s)]
         /\ pci_get_device(b, s).ids.vendor # PCI_NO_VENDOR =>
              pci_get_device(b, s).names = ShownNames(pci_get_device(b, s).ids.vendor, pci_get_device(b, s).ids.device)
<1>1. PICK ids : ids = pci_read_config(b, s)
  BY Zenon
<1>2. PICK names : names = IF ids.vendor = PCI_NO_VENDOR THEN Unnamed
                           ELSE pci_get_vendor_dev_name(ids.vendor, ids.device)
  BY Zenon
<1>3. PICK shown : shown = IF names.vendor_name = "" THEN Unknown ELSE names
  BY Zenon
<1>4. PICK dev : dev = [ids |-> ids, names |-> shown]
  BY Zenon
<1>5. dev.ids = ids /\ dev.names = shown
  BY <1>4
<1>6. pci_get_device(b, s) = dev
  BY <1>1, <1>2, <1>3, <1>4, Zenon DEF pci_get_device, Unknown
<1>7. AddressedPlace(b, s) \notin DOMAIN machine => ids.vendor = PCI_NO_VENDOR
  <2>1. PICK none : none = [vendor |-> PCI_NO_VENDOR, device |-> PCI_NO_VENDOR]
    BY Zenon
  <2>2. none.vendor = PCI_NO_VENDOR
    BY <2>1
  <2> QED
    BY <1>1, <2>1, <2>2, Zenon DEF pci_read_config
<1>8. AddressedPlace(b, s) \in DOMAIN machine => ids = machine[AddressedPlace(b, s)]
  BY <1>1, Zenon DEF pci_read_config
<1>9. ids.vendor # PCI_NO_VENDOR => shown = ShownNames(ids.vendor, ids.device)
  BY <1>2, <1>3, Zenon DEF ShownNames
<1> QED
  BY <1>5, <1>6, <1>7, <1>8, <1>9, Zenon

LEMMA SmallRest ==
  ASSUME NEW n \in Nat \ {0}, NEW a \in 0 .. n - 1
  PROVE  a % n = a
<1>1. PICK q \in Int, r \in 0 .. n - 1 : r = a % n /\ a = n * q + r
  <2>1. a \div n \in Int /\ a % n \in 0 .. n - 1
    OBVIOUS
  <2>2. a = n * (a \div n) + (a % n)
    OBVIOUS
  <2> QED
    BY <2>1, <2>2
<1>2. a - r < n /\ a - r > -n /\ a - r = n * q
  BY <1>1
<1>3. ~(q >= 1)
  <2> SUFFICES ASSUME q >= 1 PROVE FALSE
    OBVIOUS
  <2>1. PICK z \in Nat : q = 1 + z
    <3>1. q - 1 \in Nat /\ q = 1 + (q - 1)
      OBVIOUS
    <3> QED
      BY <3>1
  <2>2. n * q = n + n * z /\ n * z \in Nat
    BY <2>1
  <2> QED
    BY <1>2, <2>2
<1>4. ~(q <= -1)
  <2> SUFFICES ASSUME q <= -1 PROVE FALSE
    OBVIOUS
  <2>1. PICK z \in Nat : q = -1 - z
    <3>1. -1 - q \in Nat /\ q = -1 - (-1 - q)
      OBVIOUS
    <3> QED
      BY <3>1
  <2>2. n * q = -n - n * z /\ n * z \in Nat
    BY <2>1
  <2> QED
    BY <1>2, <2>2
<1>5. q = 0
  BY <1>3, <1>4
<1> QED
  BY <1>1, <1>5

\* The next slot is the only one scanned now and not before.
LEMMA ScanMoves ==
  ASSUME Probe, bus \in 0 .. BUSES - 1, slot \in 0 .. SLOTS - 1,
         NEW b \in 0 .. BUSES - 1, NEW s \in 0 .. SLOTS - 1
  PROVE  Scanned(b, s)' <=> Scanned(b, s) \/ (b = bus /\ s = slot)
<1>1. BUSES \in Nat \ {0} /\ SLOTS \in Nat \ {0}
  BY Overlaps
<1>2. scanning /\ slot' = (IF LastSlot(slot) THEN 0 ELSE (slot + 1) % SLOTS)
      /\ bus' = (IF LastSlot(slot) /\ bus < BUSES - 1 THEN bus + 1 ELSE bus)
      /\ scanning' = ~(LastSlot(slot) /\ bus = BUSES - 1)
  BY Zenon DEF Probe
<1>3. LastSlot(slot) <=> slot = SLOTS - 1
  BY DEF LastSlot
<1>4. CASE slot = SLOTS - 1
  <2>1. slot' = 0
    BY <1>2, <1>3, <1>4
  <2>2. CASE bus = BUSES - 1
    <3>1. scanning' = FALSE
      BY <1>2, <1>3, <1>4, <2>2
    <3>2. b < bus \/ (b = bus /\ s < slot) \/ (b = bus /\ s = slot)
      BY <1>1, <1>4, <2>2
    <3> QED
      BY <3>1, <3>2 DEF Scanned
  <2>3. CASE bus # BUSES - 1
    <3>1. scanning' = TRUE /\ bus' = bus + 1
      <4>1. scanning' = TRUE
        BY <1>2, <2>3, Zenon
      <4>2. bus < BUSES - 1
        BY <1>1, <2>3
      <4> QED
        BY <1>2, <1>3, <1>4, <4>1, <4>2
    <3>2. (b < bus + 1 \/ (b = bus + 1 /\ s < 0)) <=> b < bus \/ (b = bus /\ s < slot) \/ (b = bus /\ s = slot)
      BY <1>1, <1>4
    <3> QED
      BY <1>2, <2>1, <3>1, <3>2 DEF Scanned
  <2> QED
    BY <2>2, <2>3
<1>5. CASE slot # SLOTS - 1
  <2>1. slot + 1 \in 0 .. SLOTS - 1
    BY <1>1, <1>5
  <2>2. (slot + 1) % SLOTS = slot + 1
    BY <1>1, <2>1, SmallRest
  <2>3. slot' = slot + 1 /\ bus' = bus /\ scanning' = TRUE
    BY <1>2, <1>3, <1>5, <2>2
  <2>4. (b < bus \/ (b = bus /\ s < slot + 1)) <=> b < bus \/ (b = bus /\ s < slot) \/ (b = bus /\ s = slot)
    BY <1>1
  <2> QED
    BY <1>2, <2>3, <2>4 DEF Scanned
<1> QED
  BY <1>4, <1>5

LEMMA ProbeMoves ==
  ASSUME Probe, bus \in 0 .. BUSES - 1, slot \in 0 .. SLOTS - 1
  PROVE  bus' \in 0 .. BUSES - 1 /\ slot' \in 0 .. SLOTS - 1 /\ scanning' \in BOOLEAN
<1>1. BUSES \in Nat \ {0} /\ SLOTS \in Nat \ {0}
  BY Overlaps
<1>2. (slot + 1) % SLOTS \in 0 .. SLOTS - 1
  BY <1>1
<1>3. bus' \in 0 .. BUSES - 1 /\ slot' \in 0 .. SLOTS - 1
  BY <1>1, <1>2 DEF Probe
<1>4. scanning' \in BOOLEAN
  BY Zenon DEF Probe
<1> QED
  BY <1>3, <1>4

\* One iteration lists the slot it looks at if a device answers there.
LEMMA ProbeLists ==
  ASSUME PciInv, Probe
  PROVE  PciInv'
<1>1. PICK A : A = (0 .. BUSES - 1) \X (0 .. SLOTS - 1)
  BY Zenon
<1>2. PICK at : at = <<bus, slot>>
  BY Zenon
<1>3. /\ bus \in 0 .. BUSES - 1 /\ slot \in 0 .. SLOTS - 1 /\ at \in A /\ reported \in Seq(A)
      /\ Len(reported) \in Nat /\ DOMAIN reported = 1 .. Len(reported)
      /\ \A j, k \in DOMAIN reported : reported[j] = reported[k] => j = k
      /\ \A b \in 0 .. BUSES - 1, s \in 0 .. SLOTS - 1 :
           Listed(b, s) <=> Scanned(b, s) /\ AddressedPlace(b, s) \in DOMAIN machine
  BY <1>1, <1>2 DEF PciInv
<1>4. machine' = machine /\ pci_ids' = pci_ids
  BY DEF Probe
<1>5. /\ (DOMAIN machine \subseteq Places)' /\ (\A p \in DOMAIN machine : machine[p].vendor # PCI_NO_VENDOR)'
      /\ IdList(pci_ids)'
  <2>1. Places' = Places
    BY DEF Places
  <2>2. (DOMAIN machine \subseteq Places)' /\ (\A p \in DOMAIN machine : machine[p].vendor # PCI_NO_VENDOR)'
    BY <1>4, <2>1 DEF PciInv
  <2>3. IdList(pci_ids)'
    BY <1>4 DEF PciInv
  <2> QED
    BY <2>2, <2>3
<1>6. bus' \in 0 .. BUSES - 1 /\ slot' \in 0 .. SLOTS - 1 /\ scanning' \in BOOLEAN
  BY <1>3, ProbeMoves
<1>7. ~Scanned(bus, slot)
  <2>1. scanning /\ BUSES \in Nat /\ SLOTS \in Nat
    BY Overlaps DEF Probe
  <2> QED
    BY <1>3, <2>1 DEF Scanned
<1>8. \A b \in 0 .. BUSES - 1, s \in 0 .. SLOTS - 1 : Scanned(b, s)' <=> Scanned(b, s) \/ <<b, s>> = at
  <2>1. ASSUME NEW b \in 0 .. BUSES - 1, NEW s \in 0 .. SLOTS - 1
        PROVE  Scanned(b, s)' <=> Scanned(b, s) \/ <<b, s>> = at
    <3>1. <<b, s>> = at <=> b = bus /\ s = slot
      BY <1>2
    <3> QED
      BY <1>3, <3>1, ScanMoves
  <2> QED
    BY <2>1
<1>9. \A b, s : AddressedPlace(b, s)' = AddressedPlace(b, s)
  BY DEF AddressedPlace, BusOr, Missing, One
<1>10. /\ reported' = (IF AddressedPlace(bus, slot) \in DOMAIN machine THEN Append(reported, at) ELSE reported)
  <2>1. pci_get_device(bus, slot).ids.vendor # PCI_NO_VENDOR <=> AddressedPlace(bus, slot) \in DOMAIN machine
    <3>1. PICK p, dev : p = AddressedPlace(bus, slot) /\ dev = pci_get_device(bus, slot)
      BY Zenon
    <3>2. (p \notin DOMAIN machine => dev.ids.vendor = PCI_NO_VENDOR) /\ (p \in DOMAIN machine => dev.ids = machine[p])
      BY <3>1, DeviceRead, Zenon
    <3>3. p \in DOMAIN machine => machine[p].vendor # PCI_NO_VENDOR
      BY DEF PciInv
    <3>4. dev.ids.vendor # PCI_NO_VENDOR <=> p \in DOMAIN machine
      BY <3>2, <3>3, Zenon
    <3> QED
      BY <3>1, <3>4, Zenon
  <2> QED
    BY <1>2, <2>1, Zenon DEF Probe
<1>11. CASE AddressedPlace(bus, slot) \in DOMAIN machine
  <2>1. reported' = Append(reported, at)
    BY <1>10, <1>11
  <2>2. PICK n \in Nat : n = Len(reported) /\ DOMAIN reported = 1 .. n
    BY <1>3
  <2>3. /\ reported' \in Seq(A) /\ DOMAIN reported' = 1 .. n + 1
        /\ reported'[n + 1] = at /\ \A k \in 1 .. n : reported'[k] = reported[k]
    BY <1>3, <2>1, <2>2
  <2>4. \A k \in 1 .. n + 1 : k = n + 1 \/ k \in 1 .. n
    OBVIOUS
  <2>5. \A b, s : Listed(b, s)' <=> Listed(b, s) \/ <<b, s>> = at
    <3>1. n + 1 \in 1 .. n + 1 /\ 1 .. n \subseteq 1 .. n + 1
      OBVIOUS
    <3> QED
      BY <2>2, <2>3, <2>4, <3>1 DEF Listed
  <2>6. ~Listed(bus, slot)
    BY <1>3, <1>7
  <2>7. \A k \in 1 .. n : reported[k] # at
    BY <1>2, <2>2, <2>6 DEF Listed
  <2>8. \A j, k \in DOMAIN reported' : reported'[j] = reported'[k] => j = k
    BY <1>3, <2>2, <2>3, <2>4, <2>7
  <2>9. ASSUME NEW b \in 0 .. BUSES - 1, NEW s \in 0 .. SLOTS - 1
        PROVE  Listed(b, s)' <=> Scanned(b, s)' /\ AddressedPlace(b, s)' \in DOMAIN machine'
    <3>1. CASE <<b, s>> = at
      <4>1. b = bus /\ s = slot
        BY <1>2, <3>1
      <4> QED
        BY <1>4, <1>8, <1>9, <1>11, <2>5, <3>1, <4>1
    <3>2. CASE <<b, s>> # at
      BY <1>3, <1>4, <1>8, <1>9, <2>5, <3>2
    <3> QED
      BY <3>1, <3>2
  <2> QED
    BY <1>1, <1>5, <1>6, <2>3, <2>8, <2>9 DEF PciInv
<1>12. CASE AddressedPlace(bus, slot) \notin DOMAIN machine
  <2>1. reported' = reported
    BY <1>10, <1>12
  <2>2. \A b, s : Listed(b, s)' <=> Listed(b, s)
    BY <2>1 DEF Listed
  <2>3. ASSUME NEW b \in 0 .. BUSES - 1, NEW s \in 0 .. SLOTS - 1
        PROVE  Listed(b, s)' <=> Scanned(b, s)' /\ AddressedPlace(b, s)' \in DOMAIN machine'
    <3>1. CASE <<b, s>> = at
      <4>1. b = bus /\ s = slot
        BY <1>2, <3>1
      <4> QED
        BY <1>3, <1>4, <1>7, <1>9, <1>12, <2>2, <4>1
    <3>2. CASE <<b, s>> # at
      BY <1>3, <1>4, <1>8, <1>9, <2>2, <3>2
    <3> QED
      BY <3>1, <3>2
  <2> QED
    BY <1>1, <1>3, <1>5, <1>6, <2>1, <2>3 DEF PciInv
<1> QED
  BY <1>11, <1>12

\* It gives the entry its names.
LEMMA ProbeNames ==
  ASSUME PciInv, NamesInv, Probe
  PROVE  NamesInv'
<1>1. PICK S : pci_devices_list \in Seq(S)
  BY DEF NamesInv
<1>2. PICK dev : dev = pci_get_device(bus, slot)
  BY Zenon
<1>3. PICK T : T = S \cup {dev}
  BY Zenon
<1>4. pci_ids' = pci_ids
  BY DEF Probe
<1>5. \A v, d, names : NamedRight(v, d, names)' <=> NamedRight(v, d, names)
  BY <1>4 DEF NamedRight, DeviceLines, VendorLines, LaterLines, CommentedOut, Section
<1>6. PICK L : L = pci_devices_list
  BY Zenon
<1>7. PICK n \in Nat : n = Len(L) /\ DOMAIN L = 1 .. n
  BY <1>1, <1>6
<1>8. \A k \in 1 .. n : NamedRight(L[k].ids.vendor, L[k].ids.device, L[k].names)
  BY <1>6, <1>7 DEF NamesInv
<1>9. CASE dev.ids.vendor # PCI_NO_VENDOR /\ Len(reported) < PCI_MAX_DEVICES
  <2>1. pci_devices_list' = Append(L, dev)
    BY <1>2, <1>6, <1>9, Zenon DEF Probe, WriteEntry
  <2>2. L \in Seq(T) /\ dev \in T
    BY <1>1, <1>3, <1>6
  <2>3. PICK M : M = Append(L, dev)
    BY Zenon
  <2>4. M \in Seq(T) /\ DOMAIN M = 1 .. n + 1 /\ M[n + 1] = dev /\ \A k \in 1 .. n : M[k] = L[k]
    BY <1>7, <2>2, <2>3
  <2>5. NamedRight(dev.ids.vendor, dev.ids.device, dev.names)
    <3>1. dev.names = ShownNames(dev.ids.vendor, dev.ids.device)
      BY <1>2, <1>9, DeviceRead, Zenon
    <3>2. IdList(pci_ids)
      BY DEF PciInv
    <3> QED
      BY <3>1, <3>2, NamesFound
  <2>6. \A k \in 1 .. n + 1 : k = n + 1 \/ k \in 1 .. n
    OBVIOUS
  <2>7. \A k \in DOMAIN M : NamedRight(M[k].ids.vendor, M[k].ids.device, M[k].names)
    BY <1>8, <2>4, <2>5, <2>6, Zenon
  <2> QED
    BY <1>5, <2>1, <2>3, <2>4, <2>7, Zenon DEF NamesInv
<1>10. CASE ~(dev.ids.vendor # PCI_NO_VENDOR /\ Len(reported) < PCI_MAX_DEVICES)
  <2>1. pci_devices_list' = L
    BY <1>2, <1>6, <1>10, Zenon DEF Probe, WriteEntry
  <2> QED
    BY <1>1, <1>5, <1>6, <1>7, <1>8, <2>1, Zenon DEF NamesInv
<1> QED
  BY <1>9, <1>10

\* It writes the entry if it fits.
LEMMA ProbeWrites ==
  ASSUME PciInv, ListInv, Probe
  PROVE  ListInv'
<1>1. PICK S : pci_devices_list \in Seq(S)
  BY DEF ListInv
<1>2. PICK dev, at, L, M : /\ dev = pci_get_device(bus, slot) /\ at = <<bus, slot>>
                           /\ L = pci_devices_list /\ M = PCI_MAX_DEVICES
  BY Zenon
<1>3. PICK n \in Nat, m \in Nat : n = Len(reported) /\ m = Len(L)
  <2>1. Len(reported) \in Nat /\ Len(L) \in Nat
    BY <1>1, <1>2 DEF PciInv
  <2> QED
    BY <2>1
<1>4. /\ DOMAIN reported = 1 .. n /\ DOMAIN L = 1 .. m /\ M \in Nat
      /\ m = (IF n < M THEN n ELSE M) /\ (list_overrun <=> n > M)
      /\ \A k \in 1 .. m : L[k].ids = machine[AddressedPlace(reported[k][1], reported[k][2])]
  <2>1. DOMAIN reported = 1 .. n /\ DOMAIN L = 1 .. m
    BY <1>1, <1>2, <1>3 DEF PciInv
  <2>2. M \in Nat
    BY <1>2, PciAssumption, Zenon
  <2>3. m = (IF n < M THEN n ELSE M) /\ (list_overrun <=> n > M)
    BY <1>2, <1>3, Zenon DEF ListInv
  <2>4. \A k \in 1 .. m : L[k].ids = machine[AddressedPlace(reported[k][1], reported[k][2])]
    BY <1>2, <2>1, Zenon DEF ListInv, PlaceOf
  <2> QED
    BY <2>1, <2>2, <2>3, <2>4, Zenon
<1>5. machine' = machine
  BY DEF Probe
<1>6. \A b, s : AddressedPlace(b, s)' = AddressedPlace(b, s)
  BY DEF AddressedPlace, BusOr, Missing, One
<1>7. CASE dev.ids.vendor = PCI_NO_VENDOR
  <2>1. pci_devices_list' = pci_devices_list /\ list_overrun' = list_overrun /\ reported' = reported
    BY <1>2, <1>7, Zenon DEF Probe
  <2> QED
    BY <1>5, <1>6, <2>1 DEF ListInv, PlaceOf
<1>8. CASE dev.ids.vendor # PCI_NO_VENDOR
  <2>1. reported' = Append(reported, at)
    BY <1>2, <1>8, Zenon DEF Probe
  <2>2. /\ Len(reported') = n + 1 /\ reported'[n + 1] = at
        /\ \A k \in 1 .. n : reported'[k] = reported[k]
    <3>1. PICK A : A = (0 .. BUSES - 1) \X (0 .. SLOTS - 1)
      BY Zenon
    <3>2. at \in A /\ reported \in Seq(A)
      BY <1>2, <3>1 DEF PciInv
    <3> QED
      BY <1>3, <2>1, <3>2
  <2>3. CASE n < M
    <3>1. pci_devices_list' = Append(L, dev) /\ list_overrun' = list_overrun
      BY <1>2, <1>3, <1>8, <2>3, Zenon DEF Probe, WriteEntry
    <3>2. PICK T : T = S \cup {dev}
      BY Zenon
    <3>3. L \in Seq(T) /\ dev \in T
      BY <1>1, <1>2, <3>2
    <3>4. PICK K : K = Append(L, dev)
      BY Zenon
    <3>5. /\ K \in Seq(T) /\ Len(K) = m + 1 /\ DOMAIN K = 1 .. m + 1 /\ K[m + 1] = dev
          /\ \A k \in 1 .. m : K[k] = L[k]
      BY <1>3, <3>3, <3>4
    <3>6. dev.ids = machine[AddressedPlace(bus, slot)]
      BY <1>2, <1>8, DeviceRead, Zenon
    <3>7. m = n /\ n + 1 <= M /\ ~(n > M) /\ ~(n + 1 > M)
      BY <1>4, <2>3
    <3>8. ASSUME NEW k \in 1 .. m + 1
          PROVE  K[k].ids = machine[AddressedPlace(reported'[k][1], reported'[k][2])]
      <4>1. CASE k = m + 1
        <5>1. reported'[k] = <<bus, slot>>
          BY <1>2, <2>2, <3>7, <4>1
        <5>2. reported'[k][1] = bus /\ reported'[k][2] = slot
          BY <5>1
        <5> QED
          BY <3>5, <3>6, <4>1, <5>2, Zenon
      <4>2. CASE k \in 1 .. m
        BY <1>4, <2>2, <3>5, <3>7, <4>2
      <4> QED
        BY <4>1, <4>2
    <3>9. Len(K) = IF Len(reported') < M THEN Len(reported') ELSE M
      BY <1>4, <2>2, <3>5, <3>7
    <3>10. pci_devices_list' = K /\ (list_overrun' <=> Len(reported') > M)
      BY <1>4, <2>2, <3>1, <3>4, <3>7
    <3>11. \A k \in DOMAIN K : K[k].ids = machine'[PlaceOf(k)']
      BY <1>5, <1>6, <3>5, <3>8 DEF PlaceOf
    <3>12. \E U : K \in Seq(U)
      BY <3>5, Zenon
    <3> QED
      BY <1>2, <3>9, <3>10, <3>11, <3>12 DEF ListInv
  <2>4. CASE ~(n < M)
    <3>1. pci_devices_list' = L /\ list_overrun' = TRUE
      BY <1>2, <1>3, <1>8, <2>4, Zenon DEF Probe, WriteEntry
    <3>2. n + 1 > M /\ ~(n + 1 < M) /\ m = M /\ \A k \in 1 .. m : k \in 1 .. n
      BY <1>4, <2>4
    <3>3. \A k \in 1 .. m : L[k].ids = machine'[PlaceOf(k)']
      BY <1>4, <1>5, <1>6, <2>2, <3>2 DEF PlaceOf
    <3> QED
      BY <1>1, <1>2, <1>3, <1>4, <2>2, <3>1, <3>2, <3>3 DEF ListInv
  <2> QED
    BY <2>3, <2>4
<1> QED
  BY <1>7, <1>8

\* An entry that was not written behind the list is in it.
LEMMA ListIsReport ==
  ASSUME PciInv, ListInv, ~list_overrun
  PROVE  DOMAIN pci_devices_list = DOMAIN reported
<1>1. /\ Len(reported) \in Nat /\ DOMAIN reported = 1 .. Len(reported)
  BY DEF PciInv
<1>2. DOMAIN pci_devices_list = 1 .. Len(pci_devices_list)
  BY DEF ListInv
<1>3. Len(pci_devices_list) = Len(reported)
  <2>1. PCI_MAX_DEVICES \in Nat
    BY PciAssumption, Zenon
  <2>2. /\ Len(pci_devices_list) = IF Len(reported) < PCI_MAX_DEVICES THEN Len(reported) ELSE PCI_MAX_DEVICES
        /\ ~(Len(reported) > PCI_MAX_DEVICES)
    BY Zenon DEF ListInv
  <2>3. ASSUME NEW l, NEW n \in Nat, NEW M \in Nat, l = IF n < M THEN n ELSE M, ~(n > M)
        PROVE  l = n
    BY <2>3
  <2> QED
    BY <1>1, <2>1, <2>2, <2>3, Zenon
<1> QED
  BY <1>1, <1>2, <1>3

\* When the scan is over, what is reported are the addresses of the devices.
LEMMA ReportedAre ==
  ASSUME PciInv, ~scanning
  PROVE  \E n \in Nat :
           /\ n = Len(reported) /\ DOMAIN reported = 1 .. n
           /\ \A k \in 1 .. n : /\ PlaceOf(k) \in DOMAIN machine /\ PlaceOf(k) \in Places
                                /\ reported[k] \in Answers(PlaceOf(k))
           /\ \A p \in DOMAIN machine : \A a \in Answers(p) : \E k \in 1 .. n : reported[k] = a /\ PlaceOf(k) = p
<1>1. PICK n \in Nat : n = Len(reported) /\ DOMAIN reported = 1 .. n
  <2>1. reported \in Seq((0 .. BUSES - 1) \X (0 .. SLOTS - 1))
    BY DEF PciInv
  <2>2. Len(reported) \in Nat /\ DOMAIN reported = 1 .. Len(reported)
    BY <2>1
  <2> QED
    BY <2>2
<1>2. \A b \in 0 .. BUSES - 1, s \in 0 .. SLOTS - 1 : Listed(b, s) <=> AddressedPlace(b, s) \in DOMAIN machine
  BY DEF PciInv, Scanned
<1>3. ASSUME NEW k \in 1 .. n
      PROVE  /\ PlaceOf(k) \in DOMAIN machine /\ PlaceOf(k) \in Places
             /\ reported[k] \in Answers(PlaceOf(k))
  <2>1. PICK b \in 0 .. BUSES - 1, s \in 0 .. SLOTS - 1 : reported[k] = <<b, s>>
    BY <1>1 DEF PciInv
  <2>2. PlaceOf(k) = AddressedPlace(b, s)
    BY <2>1 DEF PlaceOf
  <2>3. Listed(b, s)
    BY <1>1, <2>1 DEF Listed
  <2>4. PlaceOf(k) \in DOMAIN machine /\ PlaceOf(k) \in Places
    BY <1>2, <2>2, <2>3 DEF PciInv
  <2> QED
    BY <2>1, <2>2, <2>4 DEF Answers
<1>4. ASSUME NEW p \in DOMAIN machine, NEW a \in Answers(p)
      PROVE  \E k \in 1 .. n : reported[k] = a /\ PlaceOf(k) = p
  <2>1. PICK b \in 0 .. BUSES - 1, s \in 0 .. SLOTS - 1 : a = <<b, s>> /\ AddressedPlace(b, s) = p
    BY DEF Answers
  <2>2. PICK k \in DOMAIN reported : reported[k] = <<b, s>>
    BY <1>2, <2>1 DEF Listed
  <2> QED
    BY <1>1, <2>1, <2>2 DEF PlaceOf
<1> QED
  BY <1>1, <1>3, <1>4

\* The entries of a place are as many as its addresses.
LEMMA ListedCount ==
  ASSUME PciInv, ~scanning, NEW p \in Places
  PROVE  Cardinality({k \in DOMAIN reported : PlaceOf(k) = p})
           = IF p \in DOMAIN machine THEN Aliases(p[1]) ELSE 0
<1>1. PICK K : K = {k \in DOMAIN reported : PlaceOf(k) = p}
  BY Zenon
<1>2. PICK n \in Nat :
        /\ DOMAIN reported = 1 .. n
        /\ \A k \in 1 .. n : PlaceOf(k) \in DOMAIN machine /\ reported[k] \in Answers(PlaceOf(k))
        /\ p \in DOMAIN machine => \A a \in Answers(p) : \E k \in 1 .. n : reported[k] = a /\ PlaceOf(k) = p
  BY ReportedAre
<1>3. CASE p \notin DOMAIN machine
  <2>1. K = {}
    BY <1>1, <1>2, <1>3
  <2> QED
    BY <1>1, <1>3, <2>1, FS_EmptySet
<1>4. CASE p \in DOMAIN machine
  <2>1. IsFiniteSet(K)
    <3>1. IsFiniteSet(1 .. n)
      BY FS_Interval
    <3>2. K \in SUBSET (1 .. n)
      BY <1>1, <1>2
    <3> QED
      BY <3>1, <3>2, FS_Subset
  <2>2. PICK F : F = [k \in K |-> reported[k]]
    BY Zenon
  <2>3. F \in [K -> Answers(p)]
    <3>1. \A k \in K : reported[k] \in Answers(p)
      BY <1>1, <1>2
    <3> QED
      BY <2>2, <3>1
  <2>4. \A j, k \in K : F[j] = F[k] => j = k
    BY <1>1, <2>2 DEF PciInv
  <2>5. \A a \in Answers(p) : \E k \in K : F[k] = a
    BY <1>1, <1>2, <1>4, <2>2
  <2>6. Cardinality(Answers(p)) = Cardinality(K)
    BY <2>1, <2>3, <2>4, <2>5, Counted, Zenon
  <2> QED
    BY <1>1, <1>4, <2>6, AnswersCount
<1> QED
  BY <1>3, <1>4

\* A numbering of the addresses of a place.
Numbering(p) == CHOOSE g : g \in Bijection(Answers(p), 1 .. Aliases(p[1]))

LEMMA Numbered ==
  ASSUME NEW p \in Places
  PROVE  /\ \A a \in Answers(p) : Numbering(p)[a] \in 1 .. Aliases(p[1])
         /\ \A a, b \in Answers(p) : Numbering(p)[a] = Numbering(p)[b] => a = b
         /\ \A j \in 1 .. Aliases(p[1]) : \E a \in Answers(p) : Numbering(p)[a] = j
<1>1. PICK S, T : S = Answers(p) /\ T = 1 .. Aliases(p[1])
  BY Zenon
<1>2. ExistsBijection(S, T)
  <2>1. IsFiniteSet(S) /\ Cardinality(S) = Aliases(p[1])
    BY <1>1, AnswersCount
  <2>2. ExistsBijection(T, S)
    BY <1>1, <2>1, FS_CardinalityType
  <2> QED
    BY <2>2, Fun_ExistsBijSymmetric
<1>3. PICK g : g = Numbering(p) /\ g \in Bijection(S, T)
  <2>1. \E g : g \in Bijection(S, T)
    BY <1>2, Zenon DEF ExistsBijection
  <2> QED
    BY <1>1, <2>1, Zenon DEF Numbering
<1>4. /\ \A a \in S : g[a] \in T
      /\ \A a, b \in S : g[a] = g[b] => a = b
      /\ \A j \in T : \E a \in S : g[a] = j
  BY <1>3, Zenon DEF Bijection, Injection, Surjection, IsInjective
<1> QED
  BY <1>1, <1>3, <1>4, Zenon

\* As many entries are reported as the devices of the machine need.
LEMMA EntriesCount ==
  ASSUME PciInv, ~scanning
  PROVE  Cardinality(Entries) = Len(reported)
<1>1. PICK n \in Nat :
           /\ n = Len(reported) /\ DOMAIN reported = 1 .. n
           /\ \A k \in 1 .. n : /\ PlaceOf(k) \in DOMAIN machine /\ PlaceOf(k) \in Places
                                /\ reported[k] \in Answers(PlaceOf(k))
           /\ \A p \in DOMAIN machine : \A a \in Answers(p) : \E k \in 1 .. n : reported[k] = a /\ PlaceOf(k) = p
  BY ReportedAre
<1>2. \A p \in DOMAIN machine : p \in Places
  BY DEF PciInv
<1>3. \A b : Aliases(b) \in 1 .. 27
  BY DEF Aliases, Ways
<1>4. PICK F : F = [k \in 1 .. n |-> <<PlaceOf(k), Numbering(PlaceOf(k))[reported[k]]>>]
  BY Zenon
<1>5. ASSUME NEW k \in 1 .. n
      PROVE  F[k] \in Entries
  <2>1. \E p \in DOMAIN machine : \E j \in 1 .. Aliases(p[1]) : F[k] = <<p, j>>
    <3>1. Numbering(PlaceOf(k))[reported[k]] \in 1 .. Aliases(PlaceOf(k)[1])
      BY <1>1, Numbered
    <3> QED
      BY <1>1, <1>4, <3>1
  <2>2. PICK p \in DOMAIN machine : \E j \in 1 .. Aliases(p[1]) : F[k] = <<p, j>>
    BY <2>1
  <2>3. PICK j \in 1 .. Aliases(p[1]) : F[k] = <<p, j>>
    BY <2>2
  <2>4. Aliases(p[1]) \in 1 .. 27
    BY <1>3
  <2>5. j \in 1 .. 27 /\ j <= Aliases(p[1])
    BY <2>4
  <2> QED
    BY <2>3, <2>5 DEF Entries
<1>6. ASSUME NEW j \in 1 .. n, NEW k \in 1 .. n, F[j] = F[k]
      PROVE  j = k
  <2>1. PICK p, q, x, y : /\ p = PlaceOf(j) /\ x = Numbering(PlaceOf(j))[reported[j]]
                          /\ q = PlaceOf(k) /\ y = Numbering(PlaceOf(k))[reported[k]]
    BY Zenon
  <2>2. <<p, x>> = <<q, y>>
    BY <1>4, <1>6, <2>1
  <2>3. p = q /\ x = y
    BY <2>2, Zenon
  <2>4. reported[j] = reported[k]
    <3>1. p \in Places /\ reported[j] \in Answers(p) /\ reported[k] \in Answers(p)
          /\ Numbering(p)[reported[j]] = Numbering(p)[reported[k]]
      BY <1>1, <2>1, <2>3, Zenon
    <3> QED
      BY <3>1, Numbered, Zenon
  <2> QED
    BY <1>1, <2>4 DEF PciInv
<1>7. ASSUME NEW e \in Entries
      PROVE  \E k \in 1 .. n : F[k] = e
  <2>1. PICK p \in DOMAIN machine, j \in 1 .. 27 : e = <<p, j>> /\ j <= Aliases(p[1])
    BY DEF Entries
  <2>2. j \in 1 .. Aliases(p[1])
    <3>1. Aliases(p[1]) \in 1 .. 27
      BY <1>3
    <3> QED
      BY <2>1, <3>1
  <2>3. PICK a \in Answers(p) : Numbering(p)[a] = j
    BY <1>2, <2>2, Numbered, Zenon
  <2>4. PICK k \in 1 .. n : reported[k] = a /\ PlaceOf(k) = p
    BY <1>1
  <2>5. F[k] = <<p, j>>
    BY <1>4, <2>3, <2>4
  <2> QED
    BY <2>1, <2>5
<1>8. F \in [1 .. n -> Entries]
  BY <1>4, <1>5
<1>9. IsFiniteSet(1 .. n) /\ Cardinality(1 .. n) = n
  <2>1. 1 \in Int /\ n \in Int /\ (IF 1 > n THEN 0 ELSE n - 1 + 1) = n
    OBVIOUS
  <2>2. IsFiniteSet(1 .. n) /\ Cardinality(1 .. n) = IF 1 > n THEN 0 ELSE n - 1 + 1
    BY <2>1, FS_Interval, Zenon
  <2> QED
    BY <2>1, <2>2
<1>10. Cardinality(Entries) = Cardinality(1 .. n)
  BY <1>6, <1>7, <1>8, <1>9, Counted, Zenon
<1> QED
  BY <1>1, <1>9, <1>10

LEMMA BootInductive == BootSpec => [](PciInv /\ ListInv /\ NamesInv)
<1>1. BootInit => PciInv /\ ListInv /\ NamesInv
  <2> SUFFICES ASSUME NEW h \in Hardware, PciInit(h.machine, h.pci_ids)
               PROVE  PciInv /\ ListInv /\ NamesInv
    BY DEF BootInit
  <2>1. machine = h.machine /\ pci_ids = h.pci_ids /\ bus = 0 /\ slot = 0 /\ scanning = TRUE
        /\ pci_devices_list = <<>> /\ reported = <<>> /\ list_overrun = FALSE
    BY Zenon DEF PciInit
  <2>2. /\ DOMAIN machine \subseteq Places /\ \A p \in DOMAIN machine : machine[p].vendor # PCI_NO_VENDOR
        /\ IdList(pci_ids)
    BY <2>1, BootAssumption, Zenon
  <2>3. BUSES \in Nat \ {0} /\ SLOTS \in Nat \ {0}
    BY Overlaps
  <2>4. reported \in Seq((0 .. BUSES - 1) \X (0 .. SLOTS - 1)) /\ DOMAIN reported = {}
    BY <2>1
  <2>5. DOMAIN pci_devices_list = {} /\ pci_devices_list \in Seq({})
    BY <2>1
  <2>6. bus \in 0 .. BUSES - 1 /\ slot \in 0 .. SLOTS - 1
    BY <2>1, <2>3
  <2>7. \A b \in 0 .. BUSES - 1, s \in 0 .. SLOTS - 1 : ~Listed(b, s) /\ ~Scanned(b, s)
    <3>1. \A b \in 0 .. BUSES - 1, s \in 0 .. SLOTS - 1 : ~(b < 0) /\ ~(s < 0)
      BY <2>3
    <3> QED
      BY <2>1, <2>4, <3>1 DEF Listed, Scanned
  <2>8. PciInv
    BY <2>1, <2>2, <2>4, <2>6, <2>7, Zenon DEF PciInv
  <2>9. NamesInv
    BY <2>5, Zenon DEF NamesInv
  <2>10. ListInv
    <3>1. Len(pci_devices_list) = 0 /\ Len(reported) = 0 /\ PCI_MAX_DEVICES \in Nat
      BY <2>1, PciAssumption
    <3>2. \E S : pci_devices_list \in Seq(S)
      BY <2>5, Zenon
    <3> QED
      BY <2>1, <2>5, <3>1, <3>2 DEF ListInv
  <2> QED
    BY <2>8, <2>9, <2>10
<1>2. PciInv /\ ListInv /\ NamesInv /\ [BootNext]_bootvars => (PciInv /\ ListInv /\ NamesInv)'
  <2> SUFFICES ASSUME PciInv, ListInv, NamesInv, [BootNext]_bootvars
               PROVE  (PciInv /\ ListInv /\ NamesInv)'
    OBVIOUS
  <2>1. CASE Probe
    BY <2>1, ProbeLists, ProbeWrites, ProbeNames
  <2>2. CASE UNCHANGED pcivars
    <3>1. /\ machine' = machine /\ pci_ids' = pci_ids /\ bus' = bus /\ slot' = slot /\ scanning' = scanning
          /\ pci_devices_list' = pci_devices_list /\ reported' = reported /\ list_overrun' = list_overrun
      BY <2>2 DEF pcivars
    <3>2. PciInv'
      <4>1. \A b, s : (Listed(b, s)' <=> Listed(b, s)) /\ (Scanned(b, s)' <=> Scanned(b, s))
        BY <3>1 DEF Listed, Scanned
      <4>2. Places' = Places
        BY DEF Places
      <4>3. \A b, s : AddressedPlace(b, s)' = AddressedPlace(b, s)
        BY DEF AddressedPlace, BusOr, Missing, One
      <4>4. (DOMAIN machine \subseteq Places)' /\ (\A p \in DOMAIN machine : machine[p].vendor # PCI_NO_VENDOR)'
        BY <3>1, <4>2 DEF PciInv
      <4>5. IdList(pci_ids)'
        BY <3>1 DEF PciInv
      <4>6. bus' \in 0 .. BUSES - 1 /\ slot' \in 0 .. SLOTS - 1 /\ scanning' \in BOOLEAN
        BY <3>1 DEF PciInv
      <4>7. /\ reported' \in Seq((0 .. BUSES - 1) \X (0 .. SLOTS - 1))
            /\ \A j, k \in DOMAIN reported' : reported'[j] = reported'[k] => j = k
        BY <3>1 DEF PciInv
      <4>8. \A b \in 0 .. BUSES - 1, s \in 0 .. SLOTS - 1 :
              Listed(b, s)' <=> Scanned(b, s)' /\ AddressedPlace(b, s)' \in DOMAIN machine'
        BY <3>1, <4>1, <4>3 DEF PciInv
      <4> QED
        BY <4>4, <4>5, <4>6, <4>7, <4>8, Zenon DEF PciInv
    <3>3. NamesInv'
      <4>1. \A v, d, names : NamedRight(v, d, names)' <=> NamedRight(v, d, names)
        BY <3>1 DEF NamedRight, DeviceLines, VendorLines, LaterLines, CommentedOut, Section
      <4> QED
        BY <3>1, <4>1, Zenon DEF NamesInv
    <3>4. ListInv'
      BY <3>1 DEF ListInv, PlaceOf, AddressedPlace, BusOr, Missing, One
    <3> QED
      BY <3>2, <3>3, <3>4
  <2> QED
    BY <2>1, <2>2 DEF BootNext, bootvars
<1> QED
  BY <1>1, <1>2, PTL DEF BootSpec

\* For a list of any size and a machine with any buses, devices and ids: the scan
\* writes behind the list exactly when the devices need more entries than it has, and
\* otherwise lists every device, as often as the overlap of slot and bus makes it
\* answer (pci.c:13-20, 187-206).
THEOREM ScanComplete == BootSpec => []EveryDeviceListed
<1>1. PciInv /\ ListInv /\ NamesInv => EveryDeviceListed
  <2> SUFFICES ASSUME PciInv, ListInv, ~scanning PROVE EveryDeviceListed
    BY DEF EveryDeviceListed
  <2>1. list_overrun <=> Cardinality(Entries) > PCI_MAX_DEVICES
    BY EntriesCount DEF ListInv
  <2>2. ASSUME ~list_overrun, NEW p \in Places
        PROVE  Cardinality({k \in DOMAIN pci_devices_list : PlaceOf(k) = p})
                 = IF p \in DOMAIN machine THEN Aliases(p[1]) ELSE 0
    <3>1. DOMAIN pci_devices_list = DOMAIN reported
      BY <2>2, ListIsReport
    <3> QED
      BY <3>1, ListedCount
  <2> QED
    BY <2>1, <2>2 DEF EveryDeviceListed, ListInv
<1> QED
  BY <1>1, BootInductive, PTL

\* Whatever well-formed database there is, comments with ids in them included, a device
\* it has gets its own names unless one of its lines that is commented out comes first,
\* and one it has not is unknown or is named after a later line (pci.c:47-158).
THEOREM NamesComplete == BootSpec => []KnownDeviceNamed
<1>1. PciInv /\ ListInv /\ NamesInv => KnownDeviceNamed
  BY Zenon DEF NamesInv, NamedRight, KnownDeviceNamed
<1> QED
  BY <1>1, BootInductive, PTL
=============================================================================
