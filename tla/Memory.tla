------------------------------- MODULE Memory -------------------------------
(***************************************************************************)
(* The loops of kernel/memory/memory.c on a memory they share with their   *)
(* callers: any two pointers, which may overlap.  Bytes are small numbers, *)
(* 0 ends a string.  One step is one iteration.                            *)
(***************************************************************************)
EXTENDS Integers

CONSTANTS
  SIZE,   \* bytes of memory
  Bytes   \* values of a byte

Cells == 0 .. SIZE - 1

ASSUME MemoryAssumption == SIZE \in Nat \ {0} /\ 0 \in Bytes /\ Bytes \subseteq Nat

VARIABLES
  mem,      \* the memory
  op,       \* the function called
  src, dst, \* its pointers; ptr and ptr2, str and str2
  size,     \* its size or len
  pos,      \* its i
  result,   \* what memseq and streq return; 2 before
  running,
  before    \* history: the memory when it was called

memvars == <<mem, op, src, dst, size, pos, result, running, before>>
call == <<op, src, dst, size, before>>

Return(r) == running' = FALSE /\ result' = r /\ UNCHANGED <<mem, pos>>
Continue == pos' = pos + 1 /\ UNCHANGED <<result, running>>

\* Mutation: the last byte is left out.
AtEnd_short == pos + 1 >= size

\* The loop condition i < size fails.
AtEnd == pos >= size

\* The caller gives pointers to size bytes each.
Valid == IF op = "memset" THEN dst + size <= SIZE ELSE src + size <= SIZE /\ dst + size <= SIZE

memseq ==
  /\ op = "memseq"
  /\ IF AtEnd THEN Return(1)
     ELSE IF mem[src + pos] # mem[dst + pos] THEN Return(0)
     ELSE Continue /\ UNCHANGED mem

streq ==
  /\ op = "streq"
  /\ IF mem[src + pos] # mem[dst + pos] THEN Return(0)
     ELSE IF mem[src + pos] = 0 /\ mem[dst + pos] = 0 THEN Return(1)
     ELSE Continue /\ UNCHANGED mem

\* memset's data is 0 where the kernel calls it.
memset ==
  /\ op = "memset"
  /\ IF AtEnd THEN Return(2) ELSE mem' = [mem EXCEPT ![dst + pos] = 0] /\ Continue

memcpy ==
  /\ op = "memcpy"
  /\ IF AtEnd THEN Return(2) ELSE mem' = [mem EXCEPT ![dst + pos] = mem[src + pos]] /\ Continue

EndsString(c) == c = 0

strncpy ==
  /\ op = "strncpy"
  /\ IF AtEnd THEN Return(2)
     ELSE /\ mem' = [mem EXCEPT ![dst + pos] = mem[src + pos]]
          /\ IF EndsString(mem'[src + pos]) THEN running' = FALSE /\ UNCHANGED <<pos, result>> ELSE Continue

\* There is a 0 at or behind a string's pointer.
Terminated(p) == \E k \in Cells : k >= p /\ mem[k] = 0

MemInit ==
  /\ mem \in [Cells -> Bytes] /\ before = mem
  /\ op \in {"memseq", "streq", "memset", "memcpy", "strncpy"}
  /\ src \in (IF op = "memset" THEN {0} ELSE Cells) /\ dst \in Cells
  /\ size \in (IF op = "streq" THEN {0} ELSE 0 .. SIZE)
  /\ Valid /\ (op = "streq" => Terminated(src) /\ Terminated(dst))
  /\ pos = 0 /\ result = 2 /\ running = TRUE

MemNext == running /\ (memseq \/ streq \/ memset \/ memcpy \/ strncpy) /\ UNCHANGED call

MemSpec == MemInit /\ [][MemNext]_memvars

-----------------------------------------------------------------------------
(* Properties. *)

Same(k) == before[src + k] = before[dst + k]

\* The length of the string at p.
StrLen(p) == CHOOSE n \in 0 .. SIZE - 1 : before[p + n] = 0 /\ \A k \in 0 .. n - 1 : before[p + k] # 0

\* memseq's and streq's answer, and how far streq reads.
Compared ==
  /\ op = "memseq" /\ ~running => (result = 1 <=> \A k \in 0 .. size - 1 : Same(k))
  /\ op = "streq" =>
       /\ ~running => (result = 1 <=> StrLen(src) = StrLen(dst) /\ \A k \in 0 .. StrLen(src) : Same(k))
       /\ pos <= StrLen(src) /\ pos <= StrLen(dst)

\* memcpy and strncpy go upwards: the copy is the source as it was, unless the
\* destination begins inside it.
CopiesForward == dst <= src \/ src + size <= dst

Written == dst .. dst + (IF op \in {"memset", "memcpy"} THEN size
                         ELSE IF \E k \in 0 .. size - 1 : before[src + k] = 0
                              THEN 1 + StrLen(src) ELSE size) - 1

\* The memory behind memset, memcpy and strncpy.
Copied ==
  op \notin {"memseq", "streq"} /\ ~running =>
    \A k \in Cells :
      IF k \in Written
      THEN IF op = "memset" THEN mem[k] = 0 ELSE CopiesForward => mem[k] = before[src + (k - dst)]
      ELSE CopiesForward \/ op = "memset" => mem[k] = before[k]

\* memseq answers whether the blocks are the same and streq whether the strings
\* are, the one not reading behind its length and the other not behind the end of
\* the shorter string; memset, memcpy and strncpy write the bytes they are asked
\* for and no others, strncpy stopping behind the 0 and leaving a string of size
\* bytes or more without one (memory.c:3-41).
Helped == Compared /\ Copied
=============================================================================
