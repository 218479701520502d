----------------------------- MODULE PipeProofs -----------------------------
(***************************************************************************)
(* Theorems about Pipe for every set of processes, size of the ring and    *)
(* counts of the calls: the bytes are conserved and keep their order as    *)
(* long as no copy sleeps, nobody sleeps on while there is something for   *)
(* him to do, and a call falls short only when nobody is at the other end. *)
(***************************************************************************)
EXTENDS Pipe, SequenceTheorems, FiniteSetTheorems, TLAPS

----------------------------------------------------------------------------
\* The invariant.

\* The inode's count is that of the open files, a process that does not exist yet has
\* none, and a call goes on with its end open.
Open(e) == IF \E t \in Task : e \in holds[t] THEN 1 ELSE 0
EndsHeld ==
    /\ i_count = Open("read") + Open("write")
    /\ \A t \in Task : /\ t \notin born => holds[t] = {}
                       /\ task[t].at \in {"read", "read_sleep", "read_copy"} => "read" \in holds[t]
                       /\ task[t].at \in {"write", "write_sleep", "write_copy"} => "write" \in holds[t]

\* A copy that sleeps is of a chunk of the page; who has the processor is in a loop.
Copying ==
    /\ \A t \in Task : task[t].at \in {"read_copy", "write_copy"} =>
          faults # 0 /\ task[t].from + task[t].chars <= PAGE_SIZE
    /\ cpu # None => task[cpu].at \in {"read", "write"}

\* Until a copy has slept, the ring holds from its tail on the bytes that come next.
Slot(k) == IF tail + k < PAGE_SIZE THEN tail + k ELSE tail + k - PAGE_SIZE
Ordered == faults = 0 => InOrder /\ \A k \in 0 .. Size - 1 : page[Slot(k)] = Len(got) + k + 1

Conserved == BytesConserved /\ IsFiniteSet(InFlight)

\* The halves of NobodySleepsOn; a reader that runs has still to wake the writers, and a
\* writer the readers.
ReadersServed == read_wait.waiting # {} /\ ~read_wait.signalled =>
                    Size = 0 \/ \E t \in Task : task[t].at = "write_copy"
WritersServed == write_wait.waiting # {} /\ ~write_wait.signalled =>
                    Room = 0 \/ \E t \in Task : task[t].at = "read_copy"
Served == /\ cpu = None \/ task[cpu].at = "read" => ReadersServed
          /\ cpu = None \/ task[cpu].at = "write" => WritersServed

Inv == TypeOK /\ EndsHeld /\ Copying /\ Conserved /\ Ordered /\ Served

----------------------------------------------------------------------------
\* The ring.

\* The remainder of a number below twice the divisor.
LEMMA Wrapped ==
    ASSUME NEW x \in 0 .. 2 * PAGE_SIZE - 1
    PROVE  x % PAGE_SIZE = IF x < PAGE_SIZE THEN x ELSE x - PAGE_SIZE
<1>0. PICK P \in Nat \ {0, 1} : P = PAGE_SIZE
  BY PageAssumption
<1>1. x \in Int /\ 0 <= x /\ x < 2 * P
  BY <1>0
<1>2. x = P * (x \div P) + (x % P) /\ (x % P) \in 0 .. P - 1 /\ (x \div P) \in Int
  BY <1>0, <1>1
<1>3. PICK q \in Int, m \in 0 .. P - 1 : q = x \div P /\ m = x % P
  BY <1>2
<1>4. x = P * q + m
  BY <1>2, <1>3
<1>5. q \in {0, 1}
  <2>1. ASSUME q <= -1 PROVE FALSE
    <3>1. P * q <= P * (-1)
      BY <1>0, <2>1
    <3> QED
      BY <1>0, <1>1, <1>4, <3>1
  <2>2. ASSUME q >= 2 PROVE FALSE
    <3>1. P * q >= P * 2
      BY <1>0, <2>2
    <3> QED
      BY <1>0, <1>1, <1>4, <3>1
  <2> QED
    BY <2>1, <2>2
<1>6. x < P => q = 0
  BY <1>0, <1>1, <1>4, <1>5
<1>7. ~(x < P) => q = 1
  BY <1>0, <1>1, <1>4, <1>5
<1> QED
  BY <1>0, <1>1, <1>3, <1>4, <1>5, <1>6, <1>7

\* What is in the ring, and the room that is left.
LEMMA SizeIs ==
    ASSUME NEW h \in 0 .. PAGE_SIZE - 1, NEW t \in 0 .. PAGE_SIZE - 1
    PROVE  /\ (PAGE_SIZE + h - t) % PAGE_SIZE = IF h >= t THEN h - t ELSE PAGE_SIZE + h - t
           /\ (PAGE_SIZE + h - t) % PAGE_SIZE \in 0 .. PAGE_SIZE - 1
<1>0. PAGE_SIZE \in Nat \ {0, 1}
  BY PageAssumption
<1>1. PAGE_SIZE + h - t \in 0 .. 2 * PAGE_SIZE - 1
  BY <1>0
<1>2. PICK x \in 0 .. 2 * PAGE_SIZE - 1 : x = PAGE_SIZE + h - t
  BY <1>1
<1>3. x % PAGE_SIZE = IF x < PAGE_SIZE THEN x ELSE x - PAGE_SIZE
  BY Wrapped
<1>4. (PAGE_SIZE + h - t) % PAGE_SIZE = x % PAGE_SIZE
  BY <1>2
<1>5. x % PAGE_SIZE = (IF h >= t THEN h - t ELSE PAGE_SIZE + h - t) /\ x % PAGE_SIZE \in 0 .. PAGE_SIZE - 1
  BY <1>0, <1>2, <1>3
<1> QED
  BY <1>4, <1>5

\* The head or the tail moves by a chunk that does not go past the end of the page.
LEMMA MovedOn ==
    ASSUME NEW i \in 0 .. PAGE_SIZE - 1, NEW n \in 1 .. PAGE_SIZE - i
    PROVE  /\ (i + n) % PAGE_SIZE = IF i + n = PAGE_SIZE THEN 0 ELSE i + n
           /\ (i + n) % PAGE_SIZE \in 0 .. PAGE_SIZE - 1
<1>0. PAGE_SIZE \in Nat \ {0, 1}
  BY PageAssumption
<1>1. i + n \in 0 .. 2 * PAGE_SIZE - 1
  BY <1>0
<1> QED
  BY <1>0, <1>1, Wrapped

\* The chunk of a reader.
LEMMA ReadCharsFit ==
    ASSUME TypeOK, NEW t \in Task, task[t].count > 0, Size # 0
    PROVE  /\ ReadChars(t) \in 1 .. PAGE_SIZE - 1 /\ ReadChars(t) \in 1 .. PAGE_SIZE - tail
           /\ ReadChars(t) <= Size /\ ReadChars(t) <= task[t].count
<1>1. PAGE_SIZE \in Nat \ {0, 1} /\ head \in 0 .. PAGE_SIZE - 1 /\ tail \in 0 .. PAGE_SIZE - 1
      /\ task[t].count \in Nat
  BY PageAssumption DEF TypeOK
<1>2. Size \in 0 .. PAGE_SIZE - 1
  BY <1>1, SizeIs DEF Size
<1> QED
  BY <1>1, <1>2 DEF ReadChars, Least

\* The chunk of a writer.
LEMMA WriteCharsFit ==
    ASSUME TypeOK, NEW t \in Task, task[t].count > 0, Room # 0
    PROVE  /\ WriteChars(t) \in 1 .. PAGE_SIZE - 1 /\ WriteChars(t) \in 1 .. PAGE_SIZE - head
           /\ WriteChars(t) <= PAGE_SIZE - 1 - Size /\ WriteChars(t) <= task[t].count
<1>1. PAGE_SIZE \in Nat \ {0, 1} /\ head \in 0 .. PAGE_SIZE - 1 /\ tail \in 0 .. PAGE_SIZE - 1
      /\ task[t].count \in Nat
  BY PageAssumption DEF TypeOK
<1>2. Size \in 0 .. PAGE_SIZE - 1
  BY <1>1, SizeIs DEF Size
<1> QED
  BY <1>1, <1>2 DEF WriteChars, Least, Room

\* A reader takes n bytes from the ring: what was at k + n is at k.
LEMMA TailMoves ==
    ASSUME TypeOK, NEW n \in 1 .. PAGE_SIZE - tail, n <= Size, head' = head,
           tail' = (tail + n) % PAGE_SIZE
    PROVE  /\ tail' \in 0 .. PAGE_SIZE - 1 /\ Size \in 0 .. PAGE_SIZE - 1 /\ Size' = Size - n
           /\ \A k \in 0 .. Size' - 1 : Slot(k)' = Slot(k + n)
           /\ \A k \in 1 .. n : Slot(k - 1) = tail + k - 1
<1>1. PAGE_SIZE \in Nat \ {0, 1} /\ head \in 0 .. PAGE_SIZE - 1 /\ tail \in 0 .. PAGE_SIZE - 1
  BY PageAssumption DEF TypeOK
<1>2. tail' \in 0 .. PAGE_SIZE - 1 /\ tail' = IF tail + n = PAGE_SIZE THEN 0 ELSE tail + n
  BY <1>1, MovedOn
<1>3. Size = (IF head >= tail THEN head - tail ELSE PAGE_SIZE + head - tail) /\ Size \in 0 .. PAGE_SIZE - 1
  BY <1>1, SizeIs DEF Size
<1>4. Size' = IF head >= tail' THEN head - tail' ELSE PAGE_SIZE + head - tail'
  BY <1>1, <1>2, SizeIs DEF Size
<1>5. Size' = Size - n
  BY <1>1, <1>2, <1>3, <1>4
<1>6. \A k \in 0 .. Size' - 1 : Slot(k)' = Slot(k + n)
  BY <1>1, <1>2, <1>3, <1>5 DEF Slot
<1>7. \A k \in 1 .. n : Slot(k - 1) = tail + k - 1
  BY <1>1 DEF Slot
<1> QED
  BY <1>2, <1>3, <1>5, <1>6, <1>7

\* A writer makes room for n bytes behind those in the ring.
LEMMA HeadMoves ==
    ASSUME TypeOK, NEW n \in 1 .. PAGE_SIZE - head, n <= PAGE_SIZE - 1 - Size, tail' = tail,
           head' = (head + n) % PAGE_SIZE
    PROVE  /\ head' \in 0 .. PAGE_SIZE - 1 /\ Size \in 0 .. PAGE_SIZE - 1 /\ Size' = Size + n
           /\ \A k \in 0 .. Size' - 1 :
                 /\ Slot(k)' = Slot(k) /\ Slot(k) \in 0 .. PAGE_SIZE - 1
                 /\ k < Size => Slot(k) \notin head .. head + n - 1
                 /\ k >= Size => Slot(k) \in head .. head + n - 1 /\ Slot(k) - head = k - Size
<1>1. PAGE_SIZE \in Nat \ {0, 1} /\ head \in 0 .. PAGE_SIZE - 1 /\ tail \in 0 .. PAGE_SIZE - 1
  BY PageAssumption DEF TypeOK
<1>2. head' \in 0 .. PAGE_SIZE - 1 /\ head' = IF head + n = PAGE_SIZE THEN 0 ELSE head + n
  BY <1>1, MovedOn
<1>3. Size = (IF head >= tail THEN head - tail ELSE PAGE_SIZE + head - tail) /\ Size \in 0 .. PAGE_SIZE - 1
  BY <1>1, SizeIs DEF Size
<1>4. Size' = IF head' >= tail THEN head' - tail ELSE PAGE_SIZE + head' - tail
  BY <1>1, <1>2, SizeIs DEF Size
<1>5. Size' = Size + n
  BY <1>1, <1>2, <1>3, <1>4
<1>6. ASSUME NEW k \in 0 .. Size' - 1
      PROVE  /\ Slot(k)' = Slot(k) /\ Slot(k) \in 0 .. PAGE_SIZE - 1
             /\ k < Size => Slot(k) \notin head .. head + n - 1
             /\ k >= Size => Slot(k) \in head .. head + n - 1 /\ Slot(k) - head = k - Size
  BY <1>1, <1>3, <1>5 DEF Slot
<1> QED
  BY <1>2, <1>3, <1>5, <1>6

----------------------------------------------------------------------------
\* The steps.

\* From l to m a task returns to its caller, or stays in the call that it is in.
Sides(l, m) ==
    \/ m.at = "user"
    \/ l.at \in {"read", "read_sleep", "read_copy"} /\ m.at \in {"read", "read_sleep", "read_copy"}
    \/ l.at \in {"write", "write_sleep", "write_copy"} /\ m.at \in {"write", "write_sleep", "write_copy"}

\* Where a task may be; a step of t moves no other task.
Local == [at : Place, count : Nat, done : Nat, chars : 0 .. PAGE_SIZE - 1, from : 0 .. PAGE_SIZE - 1]
Moves(t) == \E m \in Local : task' = [task EXCEPT ![t] = m] /\ Sides(task[t], m)

\* What a chunk in the loop changes.
LEMMA Chunked ==
    ASSUME NEW l \in Local, NEW n \in Nat, n <= l.count
    PROVE  /\ AfterChunk(l, n) \in Local
           /\ AfterChunk(l, n).at = l.at /\ AfterChunk(l, n).count = l.count - n
<1>1. l.count \in Nat /\ l.done \in Nat
  BY DEF Local
<1>2. PICK c \in Nat : c = l.count - n
  BY <1>1
<1>3. PICK d \in Nat : d = l.done + n
  BY <1>1
<1>4. AfterChunk(l, n) = [l EXCEPT !.count = c, !.done = d]
  BY <1>2, <1>3 DEF AfterChunk
<1>5. /\ [l EXCEPT !.count = c, !.done = d] \in Local /\ [l EXCEPT !.count = c, !.done = d].at = l.at
      /\ [l EXCEPT !.count = c, !.done = d].count = c
  BY DEF Local
<1> QED
  BY <1>2, <1>4, <1>5

\* A step in the kernel is of one task, and leaves the open files alone.
LEMMA KernelStepMoves ==
    ASSUME TypeOK, NEW t \in Task, KernelStep(t)
    PROVE  /\ i_count' = i_count /\ holds' = holds /\ born' = born
           /\ Moves(t) /\ cpu' \in {t, None}
<1>0. /\ task \in [Task -> Local] /\ PAGE_SIZE \in Nat \ {0, 1} /\ 0 \in 0 .. PAGE_SIZE - 1
      /\ head \in 0 .. PAGE_SIZE - 1 /\ tail \in 0 .. PAGE_SIZE - 1 /\ sent \in Nat
  BY PageAssumption DEF TypeOK, Local
<1>1. i_count' = i_count /\ holds' = holds /\ born' = born
  BY DEF KernelStep, ReadEmpty, ReadWakes, ReadChunk, ReadChunkFaults, ReadCopies, ReadDone,
         WriteFull, WriteWakes, WriteChunk, WriteChunkFaults, WriteCopies, WriteDone, ends
<1>i. Idle \in Local /\ Idle.at = "user"
  BY <1>0 DEF Idle, Local, Place
<1>l. PICK l \in Local : l = task[t]
  BY <1>0
<1>m. ASSUME NEW m \in Local, task' = [task EXCEPT ![t] = m], Sides(l, m) PROVE Moves(t)
  BY <1>l, <1>m DEF Moves
<1>2. ASSUME ReadEmpty(t) PROVE Moves(t) /\ cpu' \in {t, None}
  <2>1. CASE Returns(t)
    BY <2>1, <1>i, <1>m DEF Sides, Returns
  <2>2. CASE Sleeps(t, "read_sleep")
    <3>r. [l EXCEPT !.at = "read_sleep"] \in Local /\ [l EXCEPT !.at = "read_sleep"].at = "read_sleep"
      BY DEF Local, Place
    <3>1. PICK m \in Local : m = [l EXCEPT !.at = "read_sleep"] /\ m.at = "read_sleep"
      BY <3>r
    <3>2. task' = [task EXCEPT ![t] = m] /\ cpu' = None /\ l.at = "read"
      BY <1>2, <1>l, <2>2, <3>1 DEF ReadEmpty, Sleeps, Running
    <3> QED
      BY <1>m, <3>1, <3>2 DEF Sides
  <2> QED
    BY <1>2, <2>1, <2>2 DEF ReadEmpty
<1>3. ASSUME ReadWakes(t) PROVE Moves(t) /\ cpu' \in {t, None}
  <2>r. [l EXCEPT !.at = "read"] \in Local /\ [l EXCEPT !.at = "read"].at = "read"
    BY <1>0 DEF Local, Place
  <2>1. PICK m \in Local : m = [l EXCEPT !.at = "read"] /\ m.at = "read"
    BY <2>r
  <2>2. task' = [task EXCEPT ![t] = m] /\ cpu' = t /\ l.at = "read_sleep"
    BY <1>3, <1>l, <2>1 DEF ReadWakes, Goes
  <2> QED
    BY <1>m, <2>1, <2>2 DEF Sides
<1>4. ASSUME ReadChunk(t) PROVE Moves(t) /\ cpu' \in {t, None}
  <2>0. Running(t, "read") /\ task[t].count > 0 /\ Size # 0
    BY <1>4 DEF ReadChunk
  <2>1. PICK n \in 1 .. PAGE_SIZE - 1 : n = ReadChars(t) /\ n <= l.count
    BY <1>l, <2>0, ReadCharsFit
  <2>r. AfterChunk(l, n) \in Local /\ AfterChunk(l, n).at = l.at
    BY <2>1, Chunked
  <2>2. PICK m \in Local : m = AfterChunk(l, n) /\ m.at = l.at
    BY <2>r
  <2>3. task' = [task EXCEPT ![t] = m] /\ cpu' = t /\ l.at = "read"
    BY <1>4, <1>l, <2>0, <2>1, <2>2 DEF ReadChunk, Goes, Running
  <2> QED
    BY <1>m, <2>2, <2>3 DEF Sides
<1>5. ASSUME ReadChunkFaults(t) PROVE Moves(t) /\ cpu' \in {t, None}
  <2>0. Running(t, "read") /\ task[t].count > 0 /\ Size # 0
    BY <1>5 DEF ReadChunkFaults
  <2>1. PICK n \in 1 .. PAGE_SIZE - 1 : n = ReadChars(t) /\ n <= l.count
    BY <1>l, <2>0, ReadCharsFit
  <2>a. PICK a \in Local : a = AfterChunk(l, n)
    BY <2>1, Chunked
  <2>b. n \in 0 .. PAGE_SIZE - 1 /\ "read_copy" \in Place
    BY <1>0, <2>1 DEF Place
  <2>r. /\ [a EXCEPT !.at = "read_copy", !.chars = n, !.from = tail] \in Local
        /\ [a EXCEPT !.at = "read_copy", !.chars = n, !.from = tail].at = "read_copy"
    BY <1>0, <2>b DEF Local
  <2>2. PICK m \in Local : m = [a EXCEPT !.at = "read_copy", !.chars = n, !.from = tail] /\ m.at = "read_copy"
    BY <2>r
  <2>3. task' = [task EXCEPT ![t] = m] /\ cpu' = None /\ l.at = "read"
    BY <1>5, <1>0, <1>l, <2>0, <2>1, <2>a, <2>2 DEF ReadChunkFaults, Running
  <2> QED
    BY <1>m, <2>2, <2>3 DEF Sides
<1>6. ASSUME ReadCopies(t) PROVE Moves(t) /\ cpu' \in {t, None}
  <2>r. /\ [l EXCEPT !.at = "read", !.chars = 0, !.from = 0] \in Local
        /\ [l EXCEPT !.at = "read", !.chars = 0, !.from = 0].at = "read"
    BY <1>0 DEF Local, Place
  <2>1. PICK m \in Local : m = [l EXCEPT !.at = "read", !.chars = 0, !.from = 0] /\ m.at = "read"
    BY <2>r
  <2>2. task' = [task EXCEPT ![t] = m] /\ cpu' = t /\ l.at = "read_copy"
    BY <1>6, <1>l, <2>1 DEF ReadCopies, Goes
  <2> QED
    BY <1>m, <2>1, <2>2 DEF Sides
<1>7. ASSUME ReadDone(t) PROVE Moves(t) /\ cpu' \in {t, None}
  <2>1. task' = [task EXCEPT ![t] = Idle] /\ cpu' = None
    BY <1>7 DEF ReadDone, Returns
  <2> QED
    BY <2>1, <1>i, <1>m DEF Sides
<1>8. ASSUME WriteFull(t) PROVE Moves(t) /\ cpu' \in {t, None}
  <2>1. CASE Returns(t)
    BY <2>1, <1>i, <1>m DEF Sides, Returns
  <2>2. CASE Sleeps(t, "write_sleep")
    <3>r. [l EXCEPT !.at = "write_sleep"] \in Local /\ [l EXCEPT !.at = "write_sleep"].at = "write_sleep"
      BY DEF Local, Place
    <3>1. PICK m \in Local : m = [l EXCEPT !.at = "write_sleep"] /\ m.at = "write_sleep"
      BY <3>r
    <3>2. task' = [task EXCEPT ![t] = m] /\ cpu' = None /\ l.at = "write"
      BY <1>8, <1>l, <2>2, <3>1 DEF WriteFull, Sleeps, Running
    <3> QED
      BY <1>m, <3>1, <3>2 DEF Sides
  <2> QED
    BY <1>8, <2>1, <2>2 DEF WriteFull
<1>9. ASSUME WriteWakes(t) PROVE Moves(t) /\ cpu' \in {t, None}
  <2>r. [l EXCEPT !.at = "write"] \in Local /\ [l EXCEPT !.at = "write"].at = "write"
    BY <1>0 DEF Local, Place
  <2>1. PICK m \in Local : m = [l EXCEPT !.at = "write"] /\ m.at = "write"
    BY <2>r
  <2>2. task' = [task EXCEPT ![t] = m] /\ cpu' = t /\ l.at = "write_sleep"
    BY <1>9, <1>l, <2>1 DEF WriteWakes, Goes
  <2> QED
    BY <1>m, <2>1, <2>2 DEF Sides
<1>10. ASSUME WriteChunk(t) PROVE Moves(t) /\ cpu' \in {t, None}
  <2>0. Running(t, "write") /\ task[t].count > 0 /\ Room # 0
    BY <1>10 DEF WriteChunk
  <2>1. PICK n \in 1 .. PAGE_SIZE - 1 : n = WriteChars(t) /\ n <= l.count
    BY <1>l, <2>0, WriteCharsFit
  <2>r. AfterChunk(l, n) \in Local /\ AfterChunk(l, n).at = l.at
    BY <2>1, Chunked
  <2>2. PICK m \in Local : m = AfterChunk(l, n) /\ m.at = l.at
    BY <2>r
  <2>3. task' = [task EXCEPT ![t] = m] /\ cpu' = t /\ l.at = "write"
    BY <1>10, <1>l, <2>0, <2>1, <2>2 DEF WriteChunk, Goes, Running
  <2> QED
    BY <1>m, <2>2, <2>3 DEF Sides
<1>11. ASSUME WriteChunkFaults(t) PROVE Moves(t) /\ cpu' \in {t, None}
  <2>0. Running(t, "write") /\ task[t].count > 0 /\ Room # 0
    BY <1>11 DEF WriteChunkFaults
  <2>1. PICK n \in 1 .. PAGE_SIZE - 1 : n = WriteChars(t) /\ n <= l.count
    BY <1>l, <2>0, WriteCharsFit
  <2>2. PICK c \in Nat : c = l.count - n
    BY <2>1 DEF Local
  <2>3. PICK d \in Nat : d = sent + 1
    BY <1>0
  <2>b. n \in 0 .. PAGE_SIZE - 1 /\ "write_copy" \in Place
    BY <1>0, <2>1 DEF Place
  <2>4. /\ [l EXCEPT !.at = "write_copy", !.count = c, !.done = d, !.chars = n, !.from = head] \in Local
        /\ [l EXCEPT !.at = "write_copy", !.count = c, !.done = d, !.chars = n, !.from = head].at = "write_copy"
    BY <1>0, <2>b DEF Local
  <2>5. PICK m \in Local : /\ m = [l EXCEPT !.at = "write_copy", !.count = c, !.done = d, !.chars = n, !.from = head]
                           /\ m.at = "write_copy"
    BY <2>4
  <2>6. task' = [task EXCEPT ![t] = [l EXCEPT !.at = "write_copy", !.count = l.count - n, !.done = sent + 1,
                                             !.chars = n, !.from = head]]
    <3>1. task' = [task EXCEPT ![t] = [task[t] EXCEPT !.at = "write_copy",
                        !.count = task[t].count - WriteChars(t), !.done = sent + 1,
                        !.chars = WriteChars(t), !.from = head]]
      BY <1>11, <1>0 DEF WriteChunkFaults
    <3> QED
      BY <3>1, <1>l, <2>1
  <2>7. task' = [task EXCEPT ![t] = m] /\ cpu' = None /\ l.at = "write"
    BY <1>11, <1>l, <2>0, <2>2, <2>3, <2>5, <2>6 DEF WriteChunkFaults, Running
  <2> QED
    BY <1>m, <2>5, <2>7 DEF Sides
<1>12. ASSUME WriteCopies(t) PROVE Moves(t) /\ cpu' \in {t, None}
  <2>r. /\ [l EXCEPT !.at = "write", !.chars = 0, !.from = 0] \in Local
        /\ [l EXCEPT !.at = "write", !.chars = 0, !.from = 0].at = "write"
    BY <1>0 DEF Local, Place
  <2>1. PICK m \in Local : m = [l EXCEPT !.at = "write", !.chars = 0, !.from = 0] /\ m.at = "write"
    BY <2>r
  <2>2. task' = [task EXCEPT ![t] = m] /\ cpu' = t /\ l.at = "write_copy"
    BY <1>12, <1>l, <2>1 DEF WriteCopies, Goes
  <2> QED
    BY <1>m, <2>1, <2>2 DEF Sides
<1>13. ASSUME WriteDone(t) PROVE Moves(t) /\ cpu' \in {t, None}
  <2>1. task' = [task EXCEPT ![t] = Idle] /\ cpu' = None
    BY <1>13 DEF WriteDone, Returns
  <2> QED
    BY <2>1, <1>i, <1>m DEF Sides
<1> QED
  BY <1>1, <1>2, <1>3, <1>4, <1>5, <1>6, <1>7, <1>8, <1>9, <1>10, <1>11, <1>12, <1>13 DEF KernelStep

\* The inode's count stays that of the open files, over forks and closes.
LEMMA EndsKept ==
    ASSUME TypeOK, EndsHeld, [Next]_vars
    PROVE  EndsHeld' /\ i_count' \in 0 .. 2
<1>0. task \in [Task -> [at : Place, count : Nat, done : Nat,
                         chars : 0 .. PAGE_SIZE - 1, from : 0 .. PAGE_SIZE - 1]]
      /\ holds \in [Task -> SUBSET End] /\ i_count \in 0 .. 2
  BY DEF TypeOK
<1>1. ASSUME NEW t \in Task, NEW u \in Task, Fork(t, u) PROVE EndsHeld'
  <2>1. /\ t \in born /\ u \notin born /\ born' = born \cup {u} /\ i_count' = i_count /\ task' = task
        /\ holds' = [holds EXCEPT ![u] = holds[t]] /\ holds[u] = {}
    BY <1>1 DEF Fork, EndsHeld
  <2>2. \A x \in Task : holds'[x] = IF x = u THEN holds[t] ELSE holds[x]
    BY <1>0, <2>1
  <2>3. \A e \in End : (\E x \in Task : e \in holds'[x]) <=> \E x \in Task : e \in holds[x]
    BY <2>1, <2>2
  <2>4. Open("read")' = Open("read") /\ Open("write")' = Open("write")
    BY <2>3 DEF Open, End
  <2>5. \A x \in Task : holds[x] \subseteq holds'[x]
    BY <2>1, <2>2
  <2>6. \A x \in Task : x \notin born' => holds'[x] = {}
    BY <2>1, <2>2 DEF EndsHeld
  <2> QED
    BY <2>1, <2>4, <2>5, <2>6 DEF EndsHeld
<1>2. ASSUME NEW t \in Task, NEW e \in End, Close(t, e) PROVE EndsHeld'
  <2>1. /\ task[t].at = "user" /\ e \in holds[t] /\ born' = born /\ task' = task
        /\ holds' = [holds EXCEPT ![t] = @ \ {e}]
        /\ i_count' = IF \E u \in Task \ {t} : e \in holds[u] THEN i_count ELSE i_count - 1
    BY <1>2 DEF Close
  <2>2. \A x \in Task : holds'[x] = IF x = t THEN holds[t] \ {e} ELSE holds[x]
    BY <1>0, <2>1
  <2>3. \A d \in End : d # e => ((\E x \in Task : d \in holds'[x]) <=> \E x \in Task : d \in holds[x])
    BY <2>2
  <2>4. (\E x \in Task : e \in holds'[x]) <=> \E u \in Task \ {t} : e \in holds[u]
    BY <2>2
  <2>5. \A d \in End : d # e => Open(d)' = Open(d)
    BY <2>3 DEF Open
  <2>6. Open(e) = 1 /\ Open(e)' = IF \E u \in Task \ {t} : e \in holds[u] THEN 1 ELSE 0
    BY <2>1, <2>4 DEF Open
  <2>7. i_count' = Open("read")' + Open("write")'
    <3>1. \A d \in End : Open(d) \in Nat
      BY DEF Open
    <3>2. CASE e = "read"
      BY <2>1, <2>5, <2>6, <3>1, <3>2 DEF EndsHeld, End
    <3>3. CASE e = "write"
      BY <2>1, <2>5, <2>6, <3>1, <3>3 DEF EndsHeld, End
    <3> QED
      BY <3>2, <3>3 DEF End
  <2>8. ASSUME NEW x \in Task
        PROVE  /\ x \notin born' => holds'[x] = {}
               /\ task'[x].at \in {"read", "read_sleep", "read_copy"} => "read" \in holds'[x]
               /\ task'[x].at \in {"write", "write_sleep", "write_copy"} => "write" \in holds'[x]
    BY <2>1, <2>2 DEF EndsHeld
  <2> QED
    BY <2>7, <2>8 DEF EndsHeld
<1>3. ASSUME i_count' = i_count, holds' = holds, born' = born,
             \A x \in Task : task'[x] = task[x] \/ Sides(task[x], task'[x])
                             \/ (task'[x].at = "read" /\ "read" \in holds[x])
                             \/ (task'[x].at = "write" /\ "write" \in holds[x])
      PROVE  EndsHeld'
  BY <1>3 DEF EndsHeld, Sides, Open
<1>4. ASSUME NEW t \in Task, KernelStep(t) PROVE EndsHeld'
  <2>1. PICK m \in Local : task' = [task EXCEPT ![t] = m] /\ Sides(task[t], m)
    BY <1>4, KernelStepMoves DEF Moves
  <2>2. \A x \in Task : task'[x] = IF x = t THEN m ELSE task[x]
    BY <1>0, <2>1
  <2> QED
    BY <1>3, <1>4, <2>1, <2>2, KernelStepMoves
<1>5. ASSUME NEW t \in Task, Signal(t) PROVE EndsHeld'
  BY <1>3, <1>5 DEF Signal, ends
<1>6. ASSUME NEW t \in Task, NEW n \in Counts, Read(t, n) \/ Write(t, n) PROVE EndsHeld'
  <2>1. i_count' = i_count /\ holds' = holds /\ born' = born
    BY <1>6 DEF Read, Write, ends
  <2>2. CASE Read(t, n)
    <3>1. \A x \in Task : x # t => task'[x] = task[x]
      BY <1>0, <2>2 DEF Read, Goes
    <3>2. task'[t].at = "read" /\ "read" \in holds[t]
      BY <1>0, <2>2 DEF Read, Goes, Idle
    <3> QED
      BY <1>3, <2>1, <3>1, <3>2
  <2>3. CASE Write(t, n)
    <3>1. \A x \in Task : x # t => task'[x] = task[x]
      BY <1>0, <2>3 DEF Write, Goes
    <3>2. task'[t].at = "write" /\ "write" \in holds[t]
      BY <1>0, <2>3 DEF Write, Goes, Idle
    <3> QED
      BY <1>3, <2>1, <3>1, <3>2
  <2> QED
    BY <1>6, <2>2, <2>3
<1>7. ASSUME UNCHANGED vars PROVE EndsHeld'
  BY <1>3, <1>7 DEF vars, ends
<1>8. EndsHeld'
  BY <1>1, <1>2, <1>4, <1>5, <1>6, <1>7 DEF Next
<1>9. Open("read")' \in {0, 1} /\ Open("write")' \in {0, 1}
  BY DEF Open
<1>10. i_count' = Open("read")' + Open("write")'
  BY <1>8 DEF EndsHeld
<1> QED
  BY <1>8, <1>9, <1>10

----------------------------------------------------------------------------
\* The values stay in their sets.

\* What a chunk copies.
LEMMA BytesAre ==
    ASSUME page \in [0 .. PAGE_SIZE - 1 -> Nat], NEW i \in 0 .. PAGE_SIZE - 1, NEW n \in Nat, i + n <= PAGE_SIZE
    PROVE  /\ Bytes(i, n) \in Seq(Nat) /\ Len(Bytes(i, n)) = n
           /\ \A k \in 1 .. n : Bytes(i, n)[k] = page[i + k - 1]
<1>1. PAGE_SIZE \in Nat
  BY PageAssumption
<1>2. \A k \in 1 .. n : i + k - 1 \in 0 .. PAGE_SIZE - 1
  BY <1>1
<1>3. \A k \in 1 .. n : page[i + k - 1] \in Nat
  BY <1>2
<1> QED
  BY <1>3 DEF Bytes

\* The ring after a chunk was copied to it.
LEMMA FilledIs ==
    ASSUME page \in [0 .. PAGE_SIZE - 1 -> Nat], NEW i \in 0 .. PAGE_SIZE - 1, NEW n \in Nat, NEW s \in Nat
    PROVE  Filled(i, n, s) \in [0 .. PAGE_SIZE - 1 -> Nat]
<1>1. PAGE_SIZE \in Nat /\ DOMAIN page = 0 .. PAGE_SIZE - 1
  BY PageAssumption
<1>2. \A k \in 0 .. PAGE_SIZE - 1 : (IF k \in i .. i + n - 1 THEN s + (k - i) ELSE page[k]) \in Nat
  BY <1>1
<1> QED
  BY <1>1, <1>2 DEF Filled

\* The wait queues stay queues of tasks.
LEMMA QueuesStay ==
    ASSUME NEW w \in QueueOf(Task), NEW t \in Task
    PROVE  Woken(w) \in QueueOf(Task) /\ Joined(w, t) \in QueueOf(Task) /\ Left(w, t) \in QueueOf(Task)
BY DEF QueueOf, Woken, Joined, Left

\* The part of TypeOK about the ring.
RingTyped ==
    /\ head \in 0 .. PAGE_SIZE - 1 /\ tail \in 0 .. PAGE_SIZE - 1
    /\ page \in [0 .. PAGE_SIZE - 1 -> Nat]
    /\ sent \in Nat /\ got \in Seq(Nat) /\ faults \in 0 .. MaxFaults

\* Neither head nor tail leaves the page, and what is in the ring are numbers of bytes.
LEMMA RingStays ==
    ASSUME TypeOK, Copying, NEW t \in Task, KernelStep(t)
    PROVE  RingTyped'
<1>0. RingTyped /\ PAGE_SIZE \in Nat \ {0, 1} /\ MaxFaults \in Nat /\ task \in [Task -> Local]
  BY PageAssumption, CountsAssumption DEF TypeOK, RingTyped, Local
<1>1. ASSUME UNCHANGED <<ring, faults>> PROVE RingTyped'
  BY <1>0, <1>1 DEF RingTyped, ring
<1>2. ASSUME ReadEmpty(t) \/ ReadWakes(t) \/ ReadDone(t) \/ WriteFull(t) \/ WriteWakes(t) \/ WriteDone(t)
      PROVE  RingTyped'
  BY <1>1, <1>2 DEF ReadEmpty, ReadWakes, ReadDone, WriteFull, WriteWakes, WriteDone
<1>3. ASSUME ReadChunk(t) PROVE RingTyped'
  <2>1. PICK n \in 1 .. PAGE_SIZE - tail : n = ReadChars(t)
    BY <1>3, ReadCharsFit DEF ReadChunk
  <2>2. tail' \in 0 .. PAGE_SIZE - 1
    BY <1>0, <1>3, <2>1, MovedOn DEF ReadChunk, RingTyped
  <2>3. Bytes(tail, n) \in Seq(Nat)
    BY <1>0, <2>1, BytesAre DEF RingTyped
  <2>4. got' \in Seq(Nat)
    BY <1>0, <1>3, <2>1, <2>3, ConcatProperties DEF ReadChunk, RingTyped
  <2> QED
    BY <1>0, <1>3, <2>2, <2>4 DEF ReadChunk, RingTyped
<1>4. ASSUME ReadChunkFaults(t) PROVE RingTyped'
  <2>1. PICK n \in 1 .. PAGE_SIZE - tail : n = ReadChars(t)
    BY <1>4, ReadCharsFit DEF ReadChunkFaults
  <2>2. tail' \in 0 .. PAGE_SIZE - 1
    BY <1>0, <1>4, <2>1, MovedOn DEF ReadChunkFaults, RingTyped
  <2>3. faults' \in 0 .. MaxFaults
    BY <1>0, <1>4 DEF ReadChunkFaults, RingTyped
  <2> QED
    BY <1>0, <1>4, <2>2, <2>3 DEF ReadChunkFaults, RingTyped
<1>5. ASSUME ReadCopies(t) PROVE RingTyped'
  <2>1. PICK i \in 0 .. PAGE_SIZE - 1, n \in 0 .. PAGE_SIZE - 1 :
          i = task[t].from /\ n = task[t].chars /\ i + n <= PAGE_SIZE
    BY <1>0, <1>5 DEF ReadCopies, Copying, Local
  <2>a. i \in 0 .. PAGE_SIZE - 1 /\ n \in Nat
    BY <1>0
  <2>2. Bytes(i, n) \in Seq(Nat)
    BY <1>0, <2>1, <2>a, BytesAre DEF RingTyped
  <2>3. got' \in Seq(Nat)
    BY <1>0, <1>5, <2>1, <2>2, ConcatProperties DEF ReadCopies, RingTyped
  <2> QED
    BY <1>0, <1>5, <2>3 DEF ReadCopies, RingTyped
<1>6. ASSUME WriteChunk(t) PROVE RingTyped'
  <2>1. PICK n \in 1 .. PAGE_SIZE - head : n = WriteChars(t)
    BY <1>6, WriteCharsFit DEF WriteChunk
  <2>2. head' \in 0 .. PAGE_SIZE - 1
    BY <1>0, <1>6, <2>1, MovedOn DEF WriteChunk, RingTyped
  <2>a. n \in Nat /\ sent \in Nat /\ sent' = sent + n
    BY <1>6, <2>1, <1>0 DEF WriteChunk, RingTyped
  <2>3. sent' \in Nat /\ n \in Nat /\ sent + 1 \in Nat
    BY <2>a
  <2>4. page' \in [0 .. PAGE_SIZE - 1 -> Nat]
    BY <1>0, <1>6, <2>1, <2>3, FilledIs DEF WriteChunk, RingTyped
  <2> QED
    BY <1>0, <1>6, <2>2, <2>3, <2>4 DEF WriteChunk, RingTyped
<1>7. ASSUME WriteChunkFaults(t) PROVE RingTyped'
  <2>1. PICK n \in 1 .. PAGE_SIZE - head : n = WriteChars(t)
    BY <1>7, WriteCharsFit DEF WriteChunkFaults
  <2>2. head' \in 0 .. PAGE_SIZE - 1
    BY <1>0, <1>7, <2>1, MovedOn DEF WriteChunkFaults, RingTyped
  <2>a. n \in Nat /\ sent \in Nat /\ sent' = sent + n
    BY <1>7, <2>1, <1>0 DEF WriteChunkFaults, RingTyped
  <2>b. faults \in 0 .. MaxFaults /\ faults < MaxFaults /\ faults' = faults + 1
    BY <1>7, <1>0 DEF WriteChunkFaults, RingTyped
  <2>c. faults' \in 0 .. MaxFaults
    BY <2>b, CountsAssumption
  <2>3. sent' \in Nat /\ faults' \in 0 .. MaxFaults
    BY <2>a, <2>c
  <2> QED
    BY <1>0, <1>7, <2>2, <2>3 DEF WriteChunkFaults, RingTyped
<1>8. ASSUME WriteCopies(t) PROVE RingTyped'
  <2>1. /\ task[t].from \in 0 .. PAGE_SIZE - 1 /\ task[t].chars \in Nat /\ task[t].done \in Nat
    BY <1>0 DEF Local
  <2>2. page' \in [0 .. PAGE_SIZE - 1 -> Nat]
    BY <1>0, <1>8, <2>1, FilledIs DEF WriteCopies, RingTyped
  <2> QED
    BY <1>0, <1>8, <2>2 DEF WriteCopies, RingTyped
<1> QED
  BY <1>2, <1>3, <1>4, <1>5, <1>6, <1>7, <1>8 DEF KernelStep

\* The type invariant is kept.
LEMMA TypeKept ==
    ASSUME TypeOK, EndsHeld, Copying, [Next]_vars
    PROVE  TypeOK'
<1>0. /\ task \in [Task -> Local] /\ cpu \in Task \cup {None}
      /\ read_wait \in QueueOf(Task) /\ write_wait \in QueueOf(Task)
      /\ holds \in [Task -> SUBSET End] /\ born \subseteq Task /\ signal \subseteq Task /\ RingTyped
  BY DEF TypeOK, Local, RingTyped
<1> DEFINE ProcsTyped == /\ task \in [Task -> Local] /\ cpu \in Task \cup {None}
                         /\ holds \in [Task -> SUBSET End] /\ born \subseteq Task /\ signal \subseteq Task
           QueuesTyped == read_wait \in QueueOf(Task) /\ write_wait \in QueueOf(Task)
<1>1. i_count' \in 0 .. 2
  BY EndsKept
<1>2. ASSUME UNCHANGED <<ring, faults>> PROVE RingTyped'
  BY <1>0, <1>2 DEF RingTyped, ring
<1>3. ASSUME NEW t \in Task, NEW u \in Task, Fork(t, u) PROVE RingTyped' /\ ProcsTyped' /\ QueuesTyped'
  BY <1>0, <1>2, <1>3 DEF Fork, queues
<1>4. ASSUME NEW t \in Task, NEW e \in End, Close(t, e) PROVE RingTyped' /\ ProcsTyped' /\ QueuesTyped'
  <2>1. holds[t] \ {e} \in SUBSET End
    BY <1>0
  <2> QED
    BY <1>0, <1>2, <1>4, <2>1 DEF Close, queues
<1>5. ASSUME NEW t \in Task, Signal(t) PROVE RingTyped' /\ ProcsTyped' /\ QueuesTyped'
  BY <1>0, <1>2, <1>5, QueuesStay DEF Signal, ends
<1>6. ASSUME NEW t \in Task, NEW n \in Counts, Read(t, n) \/ Write(t, n)
      PROVE  RingTyped' /\ ProcsTyped' /\ QueuesTyped'
  <2>1. n \in Nat /\ 0 \in 0 .. PAGE_SIZE - 1
    BY CountsAssumption, PageAssumption
  <2>2. \A p \in Place : [Idle EXCEPT !.at = p, !.count = n] \in Local
    BY <2>1 DEF Local, Idle
  <2>3. \E p \in Place : Goes(t, [Idle EXCEPT !.at = p, !.count = n])
    BY <1>6 DEF Read, Write, Place
  <2>4. PICK m \in Local : task' = [task EXCEPT ![t] = m] /\ cpu' = t
    BY <2>2, <2>3 DEF Goes
  <2>5. UNCHANGED <<ring, ends, queues, signal, faults>>
    BY <1>6 DEF Read, Write
  <2> QED
    BY <1>0, <1>2, <2>4, <2>5 DEF ends, queues
<1>7. ASSUME NEW t \in Task, KernelStep(t) PROVE RingTyped' /\ ProcsTyped' /\ QueuesTyped'
  <2>1. RingTyped'
    BY <1>7, RingStays
  <2>2. /\ holds' = holds /\ born' = born /\ cpu' \in {t, None}
        /\ \E m \in Local : task' = [task EXCEPT ![t] = m]
    BY <1>7, KernelStepMoves DEF Moves
  <2>3. signal' = signal \/ signal' = signal \cup {t}
    BY <1>7 DEF KernelStep, ReadEmpty, ReadWakes, ReadChunk, ReadChunkFaults, ReadCopies, ReadDone,
         WriteFull, WriteWakes, WriteChunk, WriteChunkFaults, WriteCopies, WriteDone
  <2>4. read_wait' \in {read_wait, Woken(read_wait), Joined(read_wait, t), Left(read_wait, t)}
    BY <1>7 DEF KernelStep, ReadEmpty, ReadWakes, ReadChunk, ReadChunkFaults, ReadCopies, ReadDone,
         WriteFull, WriteWakes, WriteChunk, WriteChunkFaults, WriteCopies, WriteDone, queues
  <2>5. write_wait' \in {write_wait, Woken(write_wait), Joined(write_wait, t), Left(write_wait, t)}
    BY <1>7 DEF KernelStep, ReadEmpty, ReadWakes, ReadChunk, ReadChunkFaults, ReadCopies, ReadDone,
         WriteFull, WriteWakes, WriteChunk, WriteChunkFaults, WriteCopies, WriteDone, queues
  <2>6. QueuesTyped'
    BY <1>0, <2>4, <2>5, QueuesStay
  <2> QED
    BY <1>0, <2>1, <2>2, <2>3, <2>6
<1>8. ASSUME UNCHANGED vars PROVE RingTyped' /\ ProcsTyped' /\ QueuesTyped'
  BY <1>0, <1>2, <1>8 DEF vars, ends, queues
<1>9. RingTyped' /\ ProcsTyped' /\ QueuesTyped'
  BY <1>3, <1>4, <1>5, <1>6, <1>7, <1>8 DEF Next
<1> QED
  BY <1>1, <1>9 DEF TypeOK, RingTyped, Local

----------------------------------------------------------------------------
\* The copies.

\* A chunk that is copied after the fault is still one within the page.
LEMMA CopyingKept ==
    ASSUME TypeOK, Copying, [Next]_vars
    PROVE  Copying'
<1>0. /\ task \in [Task -> Local] /\ PAGE_SIZE \in Nat \ {0, 1} /\ faults \in Nat /\ None \notin Task
      /\ head \in 0 .. PAGE_SIZE - 1 /\ tail \in 0 .. PAGE_SIZE - 1 /\ cpu \in Task \cup {None}
  BY PageAssumption, CountsAssumption, CreatorAssumption DEF TypeOK, Local
<1> DEFINE Fits(l) == faults' # 0 /\ l.from + l.chars <= PAGE_SIZE
\* One task moves on, and what it does next is safe.
<1>1. ASSUME NEW t \in Task, NEW m \in Local, task' = [task EXCEPT ![t] = m], faults' = faults \/ faults' = faults + 1,
             m.at \in {"read_copy", "write_copy"} => Fits(m),
             cpu' = None \/ (cpu' = t /\ m.at \in {"read", "write"})
      PROVE  Copying'
  <2>1. \A x \in Task : task'[x] = IF x = t THEN m ELSE task[x]
    BY <1>0, <1>1
  <2>2. faults # 0 => faults' # 0
    BY <1>0, <1>1
  <2> QED
    BY <1>1, <2>1, <2>2 DEF Copying
<1>2. ASSUME task' = task, faults' = faults, cpu' = cpu PROVE Copying'
  BY <1>2 DEF Copying
<1>3. ASSUME NEW t \in Task, NEW u \in Task, Fork(t, u) PROVE Copying'
  BY <1>2, <1>3 DEF Fork
<1>4. ASSUME NEW t \in Task, NEW e \in End, Close(t, e) PROVE Copying'
  BY <1>2, <1>4 DEF Close
<1>5. ASSUME NEW t \in Task, Signal(t) PROVE Copying'
  BY <1>2, <1>5 DEF Signal
<1>6. ASSUME NEW t \in Task, NEW n \in Counts, Read(t, n) \/ Write(t, n) PROVE Copying'
  <2>1. n \in Nat /\ 0 \in 0 .. PAGE_SIZE - 1
    BY CountsAssumption, <1>0
  <2>2. \A p \in Place : /\ [Idle EXCEPT !.at = p, !.count = n] \in Local
                         /\ [Idle EXCEPT !.at = p, !.count = n].at = p
    BY <2>1 DEF Local, Idle
  <2>3. \E p \in {"read", "write"} : Goes(t, [Idle EXCEPT !.at = p, !.count = n])
    BY <1>6 DEF Read, Write
  <2>a. PICK p \in {"read", "write"} : Goes(t, [Idle EXCEPT !.at = p, !.count = n])
    BY <2>3
  <2>b. PICK m \in Local : m = [Idle EXCEPT !.at = p, !.count = n] /\ m.at = p
    BY <2>2 DEF Place
  <2>4. task' = [task EXCEPT ![t] = m] /\ cpu' = t /\ m.at \in {"read", "write"}
    BY <2>a, <2>b DEF Goes
  <2>5. faults' = faults
    BY <1>6 DEF Read, Write
  <2> QED
    BY <1>1, <2>4, <2>5
<1>7. ASSUME NEW t \in Task, KernelStep(t) PROVE Copying'
  <2>1. PICK m \in Local : task' = [task EXCEPT ![t] = m]
    BY <1>7, KernelStepMoves DEF Moves
  <2>2. task'[t] = m
    BY <1>0, <2>1
  <2>i. Idle.at = "user"
    BY DEF Idle
  <2>3. ASSUME Returns(t) \/ Sleeps(t, "read_sleep") \/ Sleeps(t, "write_sleep"), faults' = faults PROVE Copying'
    <3>1. cpu' = None
      BY <2>3 DEF Returns, Sleeps
    <3>2. m.at \in {"user", "read_sleep", "write_sleep"}
      BY <1>0, <2>2, <2>3, <2>i DEF Returns, Sleeps, Local
    <3> QED
      BY <1>1, <2>1, <2>3, <3>1, <3>2
  <2>4. ASSUME ReadEmpty(t) \/ ReadDone(t) \/ WriteFull(t) \/ WriteDone(t) PROVE Copying'
    BY <2>3, <2>4 DEF ReadEmpty, ReadDone, WriteFull, WriteDone
  <2>5. ASSUME NEW l, Goes(t, l), l.at \in {"read", "write"}, faults' = faults PROVE Copying'
    BY <1>0, <1>1, <2>1, <2>2, <2>5 DEF Goes
  <2>6. ASSUME ReadWakes(t) \/ ReadCopies(t) \/ WriteWakes(t) \/ WriteCopies(t) PROVE Copying'
    <3>1. faults' = faults /\ task[t] \in Local
      BY <1>0, <2>6 DEF ReadWakes, ReadCopies, WriteWakes, WriteCopies
    <3>2. CASE ReadWakes(t)
      BY <2>5, <3>1, <3>2 DEF ReadWakes, Local
    <3>3. CASE ReadCopies(t)
      BY <2>5, <3>1, <3>3 DEF ReadCopies, Local
    <3>4. CASE WriteWakes(t)
      BY <2>5, <3>1, <3>4 DEF WriteWakes, Local
    <3>5. CASE WriteCopies(t)
      BY <2>5, <3>1, <3>5 DEF WriteCopies, Local
    <3> QED
      BY <2>6, <3>2, <3>3, <3>4, <3>5
  <2>7. ASSUME ReadChunk(t) PROVE Copying'
    <3>1. /\ Goes(t, AfterChunk(task[t], ReadChars(t))) /\ task[t].at = "read" /\ faults' = faults
          /\ ReadChars(t) \in 1 .. PAGE_SIZE - 1 /\ ReadChars(t) <= task[t].count
      BY <2>7, ReadCharsFit DEF ReadChunk, Running
    <3>2. AfterChunk(task[t], ReadChars(t)).at = "read"
      BY <1>0, <3>1, Chunked
    <3> QED
      BY <2>5, <3>1, <3>2
  <2>8. ASSUME WriteChunk(t) PROVE Copying'
    <3>1. /\ Goes(t, AfterChunk(task[t], WriteChars(t))) /\ task[t].at = "write" /\ faults' = faults
          /\ WriteChars(t) \in 1 .. PAGE_SIZE - 1 /\ WriteChars(t) <= task[t].count
      BY <2>8, WriteCharsFit DEF WriteChunk, Running
    <3>2. AfterChunk(task[t], WriteChars(t)).at = "write"
      BY <1>0, <3>1, Chunked
    <3> QED
      BY <2>5, <3>1, <3>2
  <2>9. ASSUME ReadChunkFaults(t) PROVE Copying'
    <3>1. PICK n \in 1 .. PAGE_SIZE - tail : n = ReadChars(t) /\ n <= task[t].count
      BY <2>9, ReadCharsFit DEF ReadChunkFaults
    <3>2. PICK a \in Local : a = AfterChunk(task[t], n)
      BY <1>0, <3>1, Chunked
    <3>3. task' = [task EXCEPT ![t] = [a EXCEPT !.at = "read_copy", !.chars = n, !.from = tail]]
          /\ cpu' = None /\ faults' = faults + 1
      BY <1>0, <2>9, <3>1, <3>2 DEF ReadChunkFaults
    <3>4. m.from = tail /\ m.chars = n
      BY <1>0, <2>2, <3>3 DEF Local
    <3>5. faults' # 0 /\ m.from + m.chars <= PAGE_SIZE
      BY <1>0, <3>1, <3>3, <3>4
    <3> QED
      BY <1>1, <2>1, <3>3, <3>5
  <2>10. ASSUME WriteChunkFaults(t) PROVE Copying'
    <3>1. PICK n \in 1 .. PAGE_SIZE - head : n = WriteChars(t)
      BY <2>10, WriteCharsFit DEF WriteChunkFaults
    <3>2. task' = [task EXCEPT ![t] = [task[t] EXCEPT !.at = "write_copy",
                        !.count = task[t].count - WriteChars(t), !.done = sent + 1,
                        !.chars = WriteChars(t), !.from = head]]
          /\ cpu' = None /\ faults' = faults + 1
      BY <1>0, <2>10 DEF WriteChunkFaults
    <3>3. m.from = head /\ m.chars = n
      BY <1>0, <2>2, <3>1, <3>2 DEF Local
    <3>4. faults' # 0 /\ m.from + m.chars <= PAGE_SIZE
      BY <1>0, <3>1, <3>2, <3>3
    <3> QED
      BY <1>1, <2>1, <3>2, <3>4
  <2> QED
    BY <1>7, <2>4, <2>6, <2>7, <2>8, <2>9, <2>10 DEF KernelStep
<1>8. ASSUME UNCHANGED vars PROVE Copying'
  BY <1>2, <1>8 DEF vars
<1> QED
  BY <1>3, <1>4, <1>5, <1>6, <1>7, <1>8 DEF Next

----------------------------------------------------------------------------
\* The bytes.

\* A step that leaves the ring alone and is not about a copy of a reader.
Aside(t) == /\ UNCHANGED <<ring, faults>>
            /\ \A x \in Task : x # t => task'[x] = task[x]
            /\ task[t].at # "read_copy" /\ task'[t].at # "read_copy"

\* Every step in the kernel moves a chunk, ends a copy, or is aside.
LEMMA StepsAside ==
    ASSUME TypeOK, NEW t \in Task, KernelStep(t)
    PROVE  \/ ReadChunk(t) \/ ReadChunkFaults(t) \/ ReadCopies(t)
           \/ WriteChunk(t) \/ WriteChunkFaults(t) \/ WriteCopies(t) \/ Aside(t)
<1>0. task \in [Task -> Local] /\ Idle.at = "user"
  BY DEF TypeOK, Local, Idle
<1>1. PICK m \in Local : task' = [task EXCEPT ![t] = m]
  BY KernelStepMoves DEF Moves
<1>2. task'[t] = m /\ \A x \in Task : x # t => task'[x] = task[x]
  BY <1>0, <1>1
<1>3. ASSUME ReadEmpty(t) \/ ReadDone(t) \/ WriteFull(t) \/ WriteDone(t) PROVE Aside(t)
  <2>1. UNCHANGED <<ring, faults>> /\ task[t].at \in {"read", "write"}
    BY <1>3 DEF ReadEmpty, ReadDone, WriteFull, WriteDone, Running
  <2>2. Returns(t) \/ Sleeps(t, "read_sleep") \/ Sleeps(t, "write_sleep")
    BY <1>3 DEF ReadEmpty, ReadDone, WriteFull, WriteDone
  <2>3. task'[t].at \in {"user", "read_sleep", "write_sleep"}
    BY <1>0, <2>2 DEF Returns, Sleeps, Local
  <2> QED
    BY <1>2, <2>1, <2>3 DEF Aside
<1>4. ASSUME ReadWakes(t) \/ WriteWakes(t) PROVE Aside(t)
  <2>1. UNCHANGED <<ring, faults>> /\ task[t].at \in {"read_sleep", "write_sleep"}
    BY <1>4 DEF ReadWakes, WriteWakes
  <2>2. task'[t].at \in {"read", "write"}
    BY <1>0, <1>4 DEF ReadWakes, WriteWakes, Goes, Local
  <2> QED
    BY <1>2, <2>1, <2>2 DEF Aside
<1> QED
  BY <1>3, <1>4 DEF KernelStep

\* Only a reader that comes to a copy or leaves it changes the bytes on their way.
LEMMA FlightStays ==
    ASSUME NEW t \in Task, \A x \in Task : x # t => task'[x] = task[x],
           task[t].at # "read_copy", task'[t].at # "read_copy"
    PROVE  InFlight' = InFlight
<1>1. \A c \in Task \X (1 .. PAGE_SIZE) :
        (task'[c[1]].at = "read_copy" /\ c[2] <= task'[c[1]].chars)
        <=> (task[c[1]].at = "read_copy" /\ c[2] <= task[c[1]].chars)
  <2>1. TAKE c \in Task \X (1 .. PAGE_SIZE)
  <2>2. c[1] \in Task
    OBVIOUS
  <2> QED
    BY <2>2
<1> QED
  BY <1>1 DEF InFlight

\* The bytes of one reader.
LEMMA FlightOf ==
    ASSUME NEW t \in Task, NEW n \in 0 .. PAGE_SIZE
    PROVE  IsFiniteSet({t} \X (1 .. n)) /\ Cardinality({t} \X (1 .. n)) = n
<1>1. n \in Nat
  BY PageAssumption
<1>2. IsFiniteSet(1 .. n) /\ Cardinality(1 .. n) = n
  BY <1>1, FS_Interval
<1>3. IsFiniteSet({t}) /\ Cardinality({t}) = 1
  BY FS_Singleton
<1>4. IsFiniteSet({t} \X (1 .. n)) /\ Cardinality({t} \X (1 .. n)) = Cardinality({t}) * Cardinality(1 .. n)
  BY <1>2, <1>3, FS_Product
<1> QED
  BY <1>1, <1>2, <1>3, <1>4

\* A reader that comes to a copy or leaves it.
LEMMA FlightJoined ==
    ASSUME NEW A, NEW B, NEW t \in Task, NEW n \in 0 .. PAGE_SIZE, IsFiniteSet(A),
           B = A \cup ({t} \X (1 .. n)), \A c \in A : c[1] # t
    PROVE  IsFiniteSet(B) /\ Cardinality(B) = Cardinality(A) + n
<1>1. IsFiniteSet({t} \X (1 .. n)) /\ Cardinality({t} \X (1 .. n)) = n
  BY FlightOf
<1>2. A \cap ({t} \X (1 .. n)) = {}
  <2>1. ASSUME NEW c \in A, c \in {t} \X (1 .. n) PROVE FALSE
    BY <2>1
  <2> QED
    BY <2>1
<1>3. Cardinality(B) = Cardinality(A) + Cardinality({t} \X (1 .. n)) - Cardinality({}) /\ IsFiniteSet(B)
  BY <1>1, <1>2, FS_Union
<1>4. Cardinality({}) = 0 /\ Cardinality(A) \in Nat /\ n \in Nat
  BY FS_EmptySet, FS_CardinalityType, PageAssumption
<1> QED
  BY <1>1, <1>3, <1>4

\* No step loses a byte or counts it twice.
LEMMA ConservedKept ==
    ASSUME TypeOK, Copying, Conserved, [Next]_vars
    PROVE  Conserved'
<1>0. /\ task \in [Task -> Local] /\ PAGE_SIZE \in Nat \ {0, 1} /\ got \in Seq(Nat) /\ sent \in Nat
      /\ head \in 0 .. PAGE_SIZE - 1 /\ tail \in 0 .. PAGE_SIZE - 1 /\ RingTyped
      /\ Len(got) \in Nat /\ Size \in 0 .. PAGE_SIZE - 1
      /\ IsFiniteSet(InFlight) /\ Cardinality(InFlight) \in Nat
      /\ sent = Len(got) + Size + Cardinality(InFlight)
  BY PageAssumption, SizeIs, FS_CardinalityType, LenProperties
     DEF TypeOK, Local, Conserved, BytesConserved, Size, RingTyped
<1>1. ASSUME UNCHANGED ring, InFlight' = InFlight PROVE Conserved'
  <2>1. Size' = Size
    BY <1>1 DEF ring, Size
  <2> QED
    BY <1>0, <1>1, <2>1 DEF ring, Conserved, BytesConserved
<1>2. ASSUME UNCHANGED ring, task' = task PROVE Conserved'
  BY <1>1, <1>2 DEF InFlight
<1>3. ASSUME NEW t \in Task, NEW u \in Task, Fork(t, u) PROVE Conserved'
  BY <1>2, <1>3 DEF Fork
<1>4. ASSUME NEW t \in Task, NEW e \in End, Close(t, e) PROVE Conserved'
  BY <1>2, <1>4 DEF Close
<1>5. ASSUME NEW t \in Task, Signal(t) PROVE Conserved'
  BY <1>2, <1>5 DEF Signal
<1>6. ASSUME NEW t \in Task, NEW n \in Counts, Read(t, n) \/ Write(t, n) PROVE Conserved'
  <2>1. task[t].at = "user" /\ UNCHANGED ring
    BY <1>6 DEF Read, Write
  <2>2. task'[t].at \in {"read", "write"} /\ \A x \in Task : x # t => task'[x] = task[x]
    BY <1>0, <1>6 DEF Read, Write, Goes, Idle
  <2> QED
    BY <1>1, <2>1, <2>2, FlightStays
<1>7. ASSUME NEW t \in Task, KernelStep(t) PROVE Conserved'
  <2>1. ASSUME Aside(t) PROVE Conserved'
    BY <1>1, <2>1, FlightStays DEF Aside
  <2>2. ASSUME ReadChunk(t) \/ WriteChunk(t) PROVE Conserved'
    <3>1. task[t].at \in {"read", "write"} /\ \A x \in Task : x # t => task'[x] = task[x]
      BY <1>0, <2>2 DEF ReadChunk, WriteChunk, Running, Goes
    <3>2. task'[t].at # "read_copy"
      <4>1. CASE ReadChunk(t)
        <5>1. PICK n \in Nat : n = ReadChars(t) /\ n <= task[t].count
          BY <4>1, ReadCharsFit DEF ReadChunk
        <5>2. AfterChunk(task[t], n).at = task[t].at /\ task'[t] = AfterChunk(task[t], n)
          BY <1>0, <4>1, <5>1, Chunked DEF ReadChunk, Goes
        <5> QED
          BY <3>1, <5>2
      <4>2. CASE WriteChunk(t)
        <5>1. PICK n \in Nat : n = WriteChars(t) /\ n <= task[t].count
          BY <4>2, WriteCharsFit DEF WriteChunk
        <5>2. AfterChunk(task[t], n).at = task[t].at /\ task'[t] = AfterChunk(task[t], n)
          BY <1>0, <4>2, <5>1, Chunked DEF WriteChunk, Goes
        <5> QED
          BY <3>1, <5>2
      <4> QED
        BY <2>2, <4>1, <4>2
    <3>3. InFlight' = InFlight
      BY <3>1, <3>2, FlightStays
    <3>4. CASE ReadChunk(t)
      <4>1. PICK n \in 1 .. PAGE_SIZE - tail : n = ReadChars(t) /\ n <= Size
        BY <3>4, ReadCharsFit DEF ReadChunk
      <4>2. head' = head /\ tail' = (tail + n) % PAGE_SIZE /\ got' = got \o Bytes(tail, n) /\ sent' = sent
        BY <3>4, <4>1 DEF ReadChunk
      <4>3. Size' = Size - n
        BY <4>1, <4>2, TailMoves
      <4>a. n \in Nat /\ tail + n <= PAGE_SIZE
        BY <1>0, <4>1
      <4>b. Bytes(tail, n) \in Seq(Nat) /\ Len(Bytes(tail, n)) = n
        BY <1>0, <4>a, BytesAre DEF RingTyped
      <4>4. Len(got') = Len(got) + n
        BY <1>0, <4>2, <4>b, ConcatProperties
      <4>5. sent' = Len(got') + Size' + Cardinality(InFlight')
        BY <1>0, <3>3, <4>2, <4>3, <4>4, <4>a
      <4> QED
        BY <1>0, <3>3, <4>5 DEF Conserved, BytesConserved
    <3>5. CASE WriteChunk(t)
      <4>1. PICK n \in 1 .. PAGE_SIZE - head : n = WriteChars(t) /\ n <= PAGE_SIZE - 1 - Size
        BY <3>5, WriteCharsFit DEF WriteChunk
      <4>2. tail' = tail /\ head' = (head + n) % PAGE_SIZE /\ got' = got /\ sent' = sent + n
        BY <3>5, <4>1 DEF WriteChunk
      <4>3. Size' = Size + n
        BY <4>1, <4>2, HeadMoves
      <4>a. n \in Nat
        BY <1>0, <4>1
      <4>5. sent' = Len(got') + Size' + Cardinality(InFlight')
        BY <1>0, <3>3, <4>2, <4>3, <4>a
      <4> QED
        BY <1>0, <3>3, <4>5 DEF Conserved, BytesConserved
    <3> QED
      BY <2>2, <3>4, <3>5
  <2>3. ASSUME WriteChunkFaults(t) PROVE Conserved'
    <3>1. task[t].at = "write" /\ \A x \in Task : x # t => task'[x] = task[x]
      BY <1>0, <2>3 DEF WriteChunkFaults, Running
    <3>2. task'[t].at = "write_copy"
      BY <1>0, <2>3 DEF WriteChunkFaults, Local
    <3>3. InFlight' = InFlight
      BY <3>1, <3>2, FlightStays
    <3>4. PICK n \in 1 .. PAGE_SIZE - head : n = WriteChars(t) /\ n <= PAGE_SIZE - 1 - Size
      BY <2>3, WriteCharsFit DEF WriteChunkFaults
    <3>5. tail' = tail /\ head' = (head + n) % PAGE_SIZE /\ got' = got /\ sent' = sent + n
      BY <2>3, <3>4 DEF WriteChunkFaults
    <3>6. Size' = Size + n
      BY <3>4, <3>5, HeadMoves
    <3>7. n \in Nat
      BY <1>0, <3>4
    <3>8. sent' = Len(got') + Size' + Cardinality(InFlight')
      BY <1>0, <3>3, <3>5, <3>6, <3>7
    <3> QED
      BY <1>0, <3>3, <3>8 DEF Conserved, BytesConserved
  <2>4. ASSUME WriteCopies(t) PROVE Conserved'
    <3>1. task[t].at = "write_copy" /\ \A x \in Task : x # t => task'[x] = task[x]
      BY <1>0, <2>4 DEF WriteCopies, Goes
    <3>2. task'[t].at = "write"
      BY <1>0, <2>4 DEF WriteCopies, Goes, Local
    <3>3. InFlight' = InFlight
      BY <3>1, <3>2, FlightStays
    <3>4. UNCHANGED <<head, tail, sent, got>>
      BY <2>4 DEF WriteCopies
    <3>5. Size' = Size
      BY <3>4 DEF Size
    <3> QED
      BY <1>0, <3>3, <3>4, <3>5 DEF Conserved, BytesConserved
  <2>5. ASSUME ReadChunkFaults(t) PROVE Conserved'
    <3>1. PICK n \in 1 .. PAGE_SIZE - tail : n = ReadChars(t) /\ n <= Size /\ n <= task[t].count
      BY <2>5, ReadCharsFit DEF ReadChunkFaults
    <3>2. head' = head /\ tail' = (tail + n) % PAGE_SIZE /\ got' = got /\ sent' = sent
      BY <2>5, <3>1 DEF ReadChunkFaults
    <3>3. Size' = Size - n
      BY <3>1, <3>2, TailMoves
    <3>4. PICK a \in Local : a = AfterChunk(task[t], n)
      BY <1>0, <3>1, Chunked
    <3>5. task' = [task EXCEPT ![t] = [a EXCEPT !.at = "read_copy", !.chars = n, !.from = tail]]
      BY <1>0, <2>5, <3>1, <3>4 DEF ReadChunkFaults
    <3>6. /\ task[t].at = "read" /\ task'[t].at = "read_copy" /\ task'[t].chars = n
          /\ \A x \in Task : x # t => task'[x] = task[x]
      <4>1. task[t].at = "read"
        BY <2>5 DEF ReadChunkFaults, Running
      <4>2. \A x \in Task : x # t => task'[x] = task[x]
        BY <1>0, <3>5
      <4>3. task'[t] = [a EXCEPT !.at = "read_copy", !.chars = n, !.from = tail]
        BY <1>0, <3>5
      <4>4. task'[t].at = "read_copy" /\ task'[t].chars = n
        BY <4>3 DEF Local
      <4> QED
        BY <4>1, <4>2, <4>4
    <3>7. n \in 0 .. PAGE_SIZE /\ n \in Nat
      BY <1>0, <3>1
    <3>8. InFlight' = InFlight \cup ({t} \X (1 .. n))
      <4>1. ASSUME NEW c \in Task \X (1 .. PAGE_SIZE)
            PROVE  (task'[c[1]].at = "read_copy" /\ c[2] <= task'[c[1]].chars)
                   <=> (c \in InFlight \/ c \in {t} \X (1 .. n))
        <5>1. c[1] \in Task /\ c[2] \in 1 .. PAGE_SIZE /\ c = <<c[1], c[2]>>
          OBVIOUS
        <5>2. c \in {t} \X (1 .. n) <=> c[1] = t /\ c[2] \in 1 .. n
          BY <5>1
        <5>3. CASE c[1] = t
          BY <1>0, <3>6, <3>7, <5>1, <5>2, <5>3 DEF InFlight
        <5>4. CASE c[1] # t
          BY <3>6, <5>1, <5>2, <5>4 DEF InFlight
        <5> QED
          BY <5>3, <5>4
      <4>2. {t} \X (1 .. n) \subseteq Task \X (1 .. PAGE_SIZE)
        BY <1>0, <3>7
      <4> QED
        BY <4>1, <4>2 DEF InFlight
    <3>9. \A c \in InFlight : c[1] # t
      BY <3>6 DEF InFlight
    <3>10. IsFiniteSet(InFlight') /\ Cardinality(InFlight') = Cardinality(InFlight) + n
      <4>1. PICK A, B : A = InFlight /\ B = InFlight'
        OBVIOUS
      <4>2. IsFiniteSet(A) /\ B = A \cup ({t} \X (1 .. n)) /\ \A c \in A : c[1] # t
        BY <1>0, <3>8, <3>9, <4>1
      <4>3. IsFiniteSet(B) /\ Cardinality(B) = Cardinality(A) + n
        BY <3>7, <4>2, FlightJoined
      <4> QED
        BY <4>1, <4>3
    <3>11. sent' = Len(got') + Size' + Cardinality(InFlight')
      BY <1>0, <3>2, <3>3, <3>7, <3>10
    <3> QED
      BY <3>10, <3>11 DEF Conserved, BytesConserved
  <2>6. ASSUME ReadCopies(t) PROVE Conserved'
    <3>1. PICK i \in 0 .. PAGE_SIZE - 1, n \in 0 .. PAGE_SIZE - 1 :
            i = task[t].from /\ n = task[t].chars /\ i + n <= PAGE_SIZE
      BY <1>0, <2>6 DEF ReadCopies, Copying, Local
    <3>2. head' = head /\ tail' = tail /\ sent' = sent /\ got' = got \o Bytes(i, n)
      BY <2>6, <3>1 DEF ReadCopies
    <3>3. Size' = Size
      BY <3>2 DEF Size
    <3>4. n \in 0 .. PAGE_SIZE /\ n \in Nat
      BY <1>0
    <3>a. Bytes(i, n) \in Seq(Nat) /\ Len(Bytes(i, n)) = n
      BY <1>0, <3>1, <3>4, BytesAre DEF RingTyped
    <3>5. Len(got') = Len(got) + n
      BY <1>0, <3>2, <3>a, ConcatProperties
    <3>6. /\ task[t].at = "read_copy" /\ task'[t].at = "read"
          /\ \A x \in Task : x # t => task'[x] = task[x]
      BY <1>0, <2>6 DEF ReadCopies, Goes, Local
    <3>7. InFlight = InFlight' \cup ({t} \X (1 .. n))
      <4>1. ASSUME NEW c \in Task \X (1 .. PAGE_SIZE)
            PROVE  (task[c[1]].at = "read_copy" /\ c[2] <= task[c[1]].chars)
                   <=> (c \in InFlight' \/ c \in {t} \X (1 .. n))
        <5>1. c[1] \in Task /\ c[2] \in 1 .. PAGE_SIZE /\ c = <<c[1], c[2]>>
          OBVIOUS
        <5>2. c \in {t} \X (1 .. n) <=> c[1] = t /\ c[2] \in 1 .. n
          BY <5>1
        <5>3. CASE c[1] = t
          BY <1>0, <3>1, <3>4, <3>6, <5>1, <5>2, <5>3 DEF InFlight
        <5>4. CASE c[1] # t
          BY <3>6, <5>1, <5>2, <5>4 DEF InFlight
        <5> QED
          BY <5>3, <5>4
      <4>2. {t} \X (1 .. n) \subseteq Task \X (1 .. PAGE_SIZE)
        BY <1>0, <3>4
      <4> QED
        BY <4>1, <4>2 DEF InFlight
    <3>8. \A c \in InFlight' : c[1] # t
      BY <3>6 DEF InFlight
    <3>9. IsFiniteSet(InFlight')
      BY <1>0, <3>7, FS_Subset
    <3>10. Cardinality(InFlight) = Cardinality(InFlight') + n
      BY <3>4, <3>7, <3>8, <3>9, FlightJoined
    <3>11. Cardinality(InFlight') \in Nat
      BY <3>9, FS_CardinalityType
    <3>12. sent' = Len(got') + Size' + Cardinality(InFlight')
      BY <1>0, <3>2, <3>3, <3>4, <3>5, <3>10, <3>11
    <3> QED
      BY <3>9, <3>12 DEF Conserved, BytesConserved
  <2> QED
    BY <1>7, <2>1, <2>2, <2>3, <2>4, <2>5, <2>6, StepsAside
<1>8. ASSUME UNCHANGED vars PROVE Conserved'
  BY <1>2, <1>8 DEF vars
<1> QED
  BY <1>3, <1>4, <1>5, <1>6, <1>7, <1>8 DEF Next

----------------------------------------------------------------------------
\* The order.

\* As long as no copy sleeps, every chunk is appended where the one before ended.
LEMMA OrderedKept ==
    ASSUME TypeOK, Copying, Conserved, Ordered, [Next]_vars
    PROVE  Ordered'
<1>0. /\ task \in [Task -> Local] /\ PAGE_SIZE \in Nat \ {0, 1} /\ got \in Seq(Nat) /\ sent \in Nat
      /\ head \in 0 .. PAGE_SIZE - 1 /\ tail \in 0 .. PAGE_SIZE - 1
      /\ page \in [0 .. PAGE_SIZE - 1 -> Nat] /\ faults \in Nat
      /\ Len(got) \in Nat /\ Size \in 0 .. PAGE_SIZE - 1
  BY PageAssumption, CountsAssumption, SizeIs, LenProperties DEF TypeOK, Local, Size
<1>1. ASSUME UNCHANGED <<ring, faults>> PROVE Ordered'
  BY <1>1 DEF ring, Ordered, InOrder, Slot, Size
<1>2. ASSUME NEW t \in Task, KernelStep(t), faults' = 0 PROVE Ordered'
  <2>1. ~ReadChunkFaults(t) /\ ~WriteChunkFaults(t) /\ faults = 0
    <3>1. ~ReadChunkFaults(t) /\ ~WriteChunkFaults(t)
      BY <1>0, <1>2 DEF ReadChunkFaults, WriteChunkFaults
    <3>2. faults' = faults
      BY <1>2, <3>1 DEF KernelStep, ReadEmpty, ReadWakes, ReadChunk, ReadCopies, ReadDone,
         WriteFull, WriteWakes, WriteChunk, WriteCopies, WriteDone
    <3> QED
      BY <1>2, <3>1, <3>2
  <2>2. ~ReadCopies(t) /\ ~WriteCopies(t) /\ \A x \in Task : task[x].at # "read_copy"
    BY <2>1 DEF Copying, ReadCopies, WriteCopies
  <2>3. InOrder /\ \A k \in 0 .. Size - 1 : page[Slot(k)] = Len(got) + k + 1
    BY <2>1 DEF Ordered
  <2>4. CASE Aside(t)
    BY <1>1, <2>4 DEF Aside
  <2>5. CASE ReadChunk(t)
    <3>1. PICK n \in 1 .. PAGE_SIZE - tail : n = ReadChars(t) /\ n <= Size
      BY <2>5, ReadCharsFit DEF ReadChunk
    <3>2. head' = head /\ tail' = (tail + n) % PAGE_SIZE /\ got' = got \o Bytes(tail, n) /\ page' = page
      BY <2>5, <3>1 DEF ReadChunk
    <3>3. /\ Size' = Size - n
          /\ \A k \in 0 .. Size' - 1 : Slot(k)' = Slot(k + n)
          /\ \A k \in 1 .. n : Slot(k - 1) = tail + k - 1
      BY <3>1, <3>2, TailMoves
    <3>4. n \in Nat /\ n >= 1 /\ tail + n <= PAGE_SIZE
      BY <1>0, <3>1
    <3>5. Bytes(tail, n) \in Seq(Nat) /\ Len(Bytes(tail, n)) = n /\ \A k \in 1 .. n : Bytes(tail, n)[k] = page[tail + k - 1]
      BY <1>0, <3>4, BytesAre
    <3>a. PICK b \in Seq(Nat) : b = Bytes(tail, n)
      BY <3>5
    <3>b. Len(b) = n /\ (\A k \in 1 .. n : b[k] = page[tail + k - 1]) /\ got' = got \o b
      BY <3>2, <3>5, <3>a
    <3>c. PICK g \in Seq(Nat) : g = got
      BY <1>0
    <3>d. g \o b \in Seq(Nat) /\ Len(g \o b) = Len(g) + n
      BY <3>b, ConcatProperties
    <3>e. \A i \in 1 .. Len(g) + n : (g \o b)[i] = IF i <= Len(g) THEN g[i] ELSE b[i - Len(g)]
      BY <3>b, ConcatProperties
    <3>6. /\ got' \in Seq(Nat) /\ Len(got') = Len(got) + n
          /\ \A i \in 1 .. Len(got) + n : got'[i] = IF i <= Len(got) THEN got[i] ELSE b[i - Len(got)]
      <4>1. got' = g \o b
        BY <3>b, <3>c
      <4> QED
        BY <3>c, <3>d, <3>e, <4>1
    <3>7. \A i \in 1 .. Len(got') : got'[i] = i
      <4>1. TAKE i \in 1 .. Len(got')
      <4>a. Len(got) \in Nat /\ i \in Nat /\ i >= 1 /\ i <= Len(got) + n
        BY <1>0, <3>4, <3>6, <4>1
      <4>2. CASE i <= Len(got)
        BY <1>0, <2>3, <3>4, <3>6, <4>2 DEF InOrder
      <4>3. CASE ~(i <= Len(got))
        <5>a. PICK m \in Nat : m = Len(got)
          BY <4>a
        <5>b. i - m \in 1 .. n
          BY <3>4, <4>a, <4>3, <5>a
        <5>1. PICK k \in 1 .. n : k = i - Len(got)
          BY <5>a, <5>b
        <5>2. got'[i] = page[tail + k - 1]
          BY <1>0, <3>4, <3>b, <3>6, <4>3, <5>1
        <5>3. PICK j \in 0 .. Size - 1 : j = k - 1
          BY <1>0, <3>1, <3>4
        <5>4. Slot(j) = tail + k - 1
          BY <3>3, <5>3
        <5>5. page[Slot(j)] = Len(got) + j + 1
          BY <2>3
        <5>6. Len(got) + j + 1 = i
          BY <1>0, <3>4, <3>6, <5>1, <5>3
        <5> QED
          BY <5>2, <5>4, <5>5, <5>6
      <4> QED
        BY <4>2, <4>3
    <3>8. InOrder'
      <4>1. got' = [i \in 1 .. Len(got') |-> got'[i]]
        BY <3>6
      <4> QED
        BY <3>7, <4>1 DEF InOrder
    <3>9. ASSUME NEW k \in 0 .. Size' - 1 PROVE page'[Slot(k)'] = Len(got') + k + 1
      <4>1. k + n \in 0 .. Size - 1 /\ k \in Nat
        BY <1>0, <3>3, <3>4
      <4>2. PICK j \in 0 .. Size - 1 : j = k + n
        BY <4>1
      <4>3. page[Slot(j)] = Len(got) + j + 1
        BY <2>3
      <4>4. Slot(k)' = Slot(j)
        BY <3>3, <4>2
      <4>5. Len(got) + j + 1 = Len(got') + k + 1
        BY <1>0, <3>4, <3>6, <4>1, <4>2
      <4> QED
        BY <3>2, <4>3, <4>4, <4>5
    <3> QED
      BY <3>8, <3>9 DEF Ordered
  <2>6. CASE WriteChunk(t)
    <3>1. PICK n \in 1 .. PAGE_SIZE - head : n = WriteChars(t) /\ n <= PAGE_SIZE - 1 - Size
      BY <2>6, WriteCharsFit DEF WriteChunk
    <3>2. tail' = tail /\ head' = (head + n) % PAGE_SIZE /\ got' = got /\ page' = Filled(head, n, sent + 1)
      BY <2>6, <3>1 DEF WriteChunk
    <3>3. /\ Size' = Size + n
          /\ \A k \in 0 .. Size' - 1 :
                 /\ Slot(k)' = Slot(k) /\ Slot(k) \in 0 .. PAGE_SIZE - 1
                 /\ k < Size => Slot(k) \notin head .. head + n - 1
                 /\ k >= Size => Slot(k) \in head .. head + n - 1 /\ Slot(k) - head = k - Size
      BY <3>1, <3>2, HeadMoves
    <3>4. n \in Nat /\ n >= 1 /\ sent + 1 \in Nat
      BY <1>0, <3>1
    <3>5. \A k \in 0 .. PAGE_SIZE - 1 :
             page'[k] = IF k \in head .. head + n - 1 THEN sent + 1 + (k - head) ELSE page[k]
      <4>1. PICK s \in Nat : s = sent + 1
        BY <3>4
      <4>2. PICK i \in 0 .. PAGE_SIZE - 1, c \in Nat : i = head /\ c = n
        BY <1>0, <3>4
      <4>3. \A k \in 0 .. PAGE_SIZE - 1 :
               Filled(i, c, s)[k] = IF k \in i .. i + c - 1 THEN s + (k - i) ELSE page[k]
        <5>1. DOMAIN page = 0 .. PAGE_SIZE - 1
          BY <1>0
        <5> QED
          BY <5>1 DEF Filled
      <4> QED
        BY <3>2, <4>1, <4>2, <4>3
    <3>6. sent = Len(got) + Size
      <4>1. InFlight = {}
        <5>1. ASSUME NEW c \in InFlight PROVE FALSE
          <6>1. c \in Task \X (1 .. PAGE_SIZE) /\ task[c[1]].at = "read_copy"
            BY <5>1 DEF InFlight
          <6> QED
            BY <2>2, <6>1
        <5> QED
          BY <5>1
      <4>2. Cardinality(InFlight) = 0
        BY <4>1, FS_EmptySet
      <4> QED
        BY <1>0, <4>2 DEF Conserved, BytesConserved
    <3>7. ASSUME NEW k \in 0 .. Size' - 1 PROVE page'[Slot(k)'] = Len(got') + k + 1
      <4>1. k \in Nat /\ k < Size + n
        BY <1>0, <3>3, <3>4
      <4>2. page'[Slot(k)'] = IF k < Size THEN page[Slot(k)] ELSE sent + 1 + (k - Size)
        <5>1. PICK p \in 0 .. PAGE_SIZE - 1 : p = Slot(k) /\ p = Slot(k)'
          BY <3>3
        <5>2. /\ k < Size => p \notin head .. head + n - 1
              /\ k >= Size => p \in head .. head + n - 1 /\ p - head = k - Size
          BY <3>3, <5>1
        <5>3. page'[p] = IF p \in head .. head + n - 1 THEN sent + 1 + (p - head) ELSE page[p]
          BY <3>5
        <5>4. CASE k < Size
          BY <5>1, <5>2, <5>3, <5>4
        <5>5. CASE ~(k < Size)
          <6>1. k >= Size
            BY <1>0, <4>1, <5>5
          <6> QED
            BY <5>1, <5>2, <5>3, <5>5, <6>1
        <5> QED
          BY <5>4, <5>5
      <4>3. k < Size => page[Slot(k)] = Len(got) + k + 1
        BY <1>0, <2>3, <4>1
      <4> QED
        BY <1>0, <3>2, <3>6, <4>1, <4>2, <4>3
    <3>8. InOrder'
      BY <2>3, <3>2 DEF InOrder
    <3> QED
      BY <3>7, <3>8 DEF Ordered
  <2> QED
    BY <1>2, <2>1, <2>2, <2>4, <2>5, <2>6, StepsAside
<1>3. ASSUME NEW t \in Task, KernelStep(t) PROVE Ordered'
  BY <1>2, <1>3 DEF Ordered
<1>4. ASSUME NEW t \in Task, NEW u \in Task, Fork(t, u) PROVE Ordered'
  BY <1>1, <1>4 DEF Fork
<1>5. ASSUME NEW t \in Task, NEW e \in End, Close(t, e) PROVE Ordered'
  BY <1>1, <1>5 DEF Close
<1>6. ASSUME NEW t \in Task, Signal(t) PROVE Ordered'
  BY <1>1, <1>6 DEF Signal
<1>7. ASSUME NEW t \in Task, NEW n \in Counts, Read(t, n) \/ Write(t, n) PROVE Ordered'
  BY <1>1, <1>7 DEF Read, Write
<1>8. ASSUME UNCHANGED vars PROVE Ordered'
  BY <1>1, <1>8 DEF vars
<1> QED
  BY <1>3, <1>4, <1>5, <1>6, <1>7, <1>8 DEF Next

----------------------------------------------------------------------------
\* The sleepers.

\* What is in the ring, and the room.
LEMMA SizeRange ==
    ASSUME TypeOK
    PROVE  Size \in 0 .. PAGE_SIZE - 1 /\ Room = PAGE_SIZE - 1 - Size /\ PAGE_SIZE \in Nat \ {0, 1}
BY PageAssumption, SizeIs DEF TypeOK, Size, Room

\* Whoever sleeps on a queue that was woken, or left by one, has a wake-up on the way.
LEMMA QueueKept ==
    ASSUME NEW w \in QueueOf(Task), NEW t \in Task
    PROVE  /\ Woken(w).waiting # {} => Woken(w).signalled
           /\ Left(w, t).waiting # {} => Left(w, t).signalled
BY DEF QueueOf, Woken, Left

\* A reader that takes bytes makes no reader's wait wrong, and owes the writers a wake-up
\* until its call ends; a writer likewise.
LEMMA ServedKept ==
    ASSUME TypeOK, Copying, Served, [Next]_vars
    PROVE  Served'
<1>0. /\ task \in [Task -> Local] /\ cpu \in Task \cup {None} /\ None \notin Task
      /\ read_wait \in QueueOf(Task) /\ write_wait \in QueueOf(Task)
      /\ PAGE_SIZE \in Nat \ {0, 1}
      /\ Size \in 0 .. PAGE_SIZE - 1 /\ Room = PAGE_SIZE - 1 - Size
  BY SizeRange, CreatorAssumption DEF TypeOK, Local
<1>i. Idle.at = "user"
  BY DEF Idle
<1>a. UNCHANGED <<head, tail>> => Size' = Size /\ Room' = Room
  BY DEF Size, Room
\* A step of nobody's call that leaves the queues alone, or wakes one.
<1>1. ASSUME UNCHANGED <<ring, task, cpu, write_wait>>, read_wait' = read_wait \/ read_wait' = Woken(read_wait)
      PROVE  Served'
  <2>1. Size' = Size /\ Room' = Room
    BY <1>1, <1>a DEF ring
  <2>2. ReadersServed => ReadersServed'
    <3>1. CASE read_wait' = read_wait
      BY <1>1, <2>1, <3>1 DEF ReadersServed
    <3>2. CASE read_wait' = Woken(read_wait)
      BY <1>0, <3>2 DEF ReadersServed, Woken, QueueOf
    <3> QED
      BY <1>1, <3>1, <3>2
  <2>3. WritersServed => WritersServed'
    BY <1>1, <2>1 DEF WritersServed
  <2> QED
    BY <1>1, <2>2, <2>3 DEF Served
<1>2. ASSUME NEW t \in Task, NEW u \in Task, Fork(t, u) PROVE Served'
  BY <1>1, <1>2 DEF Fork, queues
<1>3. ASSUME NEW t \in Task, NEW e \in End, Close(t, e) PROVE Served'
  BY <1>1, <1>3 DEF Close, queues
<1>4. ASSUME NEW t \in Task, Signal(t) PROVE Served'
  BY <1>1, <1>4 DEF Signal
<1>5. ASSUME UNCHANGED vars PROVE Served'
  BY <1>1, <1>5 DEF vars, queues
\* A task of neither copy moves, and the ring and the queues stay.
<1>6. ASSUME NEW t \in Task, \A x \in Task : x # t => task'[x] = task[x],
             task[t].at \notin {"read_copy", "write_copy"}, UNCHANGED <<head, tail>>
      PROVE  /\ read_wait' = read_wait /\ ReadersServed => ReadersServed'
             /\ write_wait' = write_wait /\ WritersServed => WritersServed'
  <2>1. \A x \in Task : task[x].at \in {"read_copy", "write_copy"} => task'[x].at = task[x].at
    BY <1>6
  <2> QED
    BY <1>6, <1>a, <2>1 DEF ReadersServed, WritersServed
<1>7. ASSUME NEW t \in Task, NEW n \in Counts, Read(t, n) \/ Write(t, n) PROVE Served'
  <2>1. /\ task[t].at = "user" /\ UNCHANGED <<ring, queues>> /\ cpu = None
        /\ \A x \in Task : x # t => task'[x] = task[x]
    BY <1>0, <1>7 DEF Read, Write, Goes
  <2>2. ReadersServed' /\ WritersServed'
    BY <1>6, <2>1 DEF ring, queues, Served
  <2> QED
    BY <2>2 DEF Served
<1>8. ASSUME NEW t \in Task, KernelStep(t) PROVE Served'
  <2>1. PICK m \in Local : task' = [task EXCEPT ![t] = m]
    BY <1>8, KernelStepMoves DEF Moves
  <2>2. task'[t] = m /\ \A x \in Task : x # t => task'[x] = task[x]
    BY <1>0, <2>1
  <2>r. ASSUME read_wait' = Woken(read_wait) \/ read_wait' = Left(read_wait, t) PROVE ReadersServed'
    BY <1>0, <2>r, QueueKept DEF ReadersServed
  <2>w. ASSUME write_wait' = Woken(write_wait) \/ write_wait' = Left(write_wait, t) PROVE WritersServed'
    BY <1>0, <2>w, QueueKept DEF WritersServed
  <2>3. ASSUME ReadEmpty(t) PROVE Served'
    <3>1. task[t].at = "read" /\ cpu = t /\ UNCHANGED <<head, tail>> /\ Size = 0 /\ write_wait' = Woken(write_wait)
      BY <2>3 DEF ReadEmpty, Running, ring
    <3>2. Size' = 0
      BY <3>1, <1>a
    <3> QED
      BY <2>w, <3>1, <3>2 DEF Served, ReadersServed
  <2>4. ASSUME ReadDone(t) PROVE Served'
    <3>1. task[t].at = "read" /\ cpu = t /\ UNCHANGED <<head, tail, read_wait>> /\ write_wait' = Woken(write_wait)
      BY <2>4 DEF ReadDone, Running, ring
    <3>2. ReadersServed
      BY <1>0, <3>1 DEF Served
    <3>3. ReadersServed'
      BY <1>6, <2>2, <3>1, <3>2
    <3> QED
      BY <2>w, <3>1, <3>3 DEF Served
  <2>5. ASSUME WriteFull(t) PROVE Served'
    <3>1. task[t].at = "write" /\ cpu = t /\ UNCHANGED <<head, tail>> /\ Room = 0 /\ read_wait' = Woken(read_wait)
      BY <2>5 DEF WriteFull, Running, ring
    <3>2. Room' = 0
      BY <3>1, <1>a
    <3> QED
      BY <2>r, <3>1, <3>2 DEF Served, WritersServed
  <2>6. ASSUME WriteDone(t) PROVE Served'
    <3>1. task[t].at = "write" /\ cpu = t /\ UNCHANGED <<head, tail, write_wait>> /\ read_wait' = Woken(read_wait)
      BY <2>6 DEF WriteDone, Running, ring
    <3>2. WritersServed
      BY <1>0, <3>1 DEF Served
    <3>3. WritersServed'
      BY <1>6, <2>2, <3>1, <3>2
    <3> QED
      BY <2>r, <3>1, <3>3 DEF Served
  <2>7. ASSUME ReadWakes(t) PROVE Served'
    <3>1. /\ cpu = None /\ task[t].at = "read_sleep" /\ UNCHANGED <<head, tail, write_wait>>
          /\ read_wait' = Left(read_wait, t)
      BY <2>7 DEF ReadWakes, ring
    <3>2. WritersServed'
      BY <1>6, <2>2, <3>1 DEF Served
    <3> QED
      BY <2>r, <3>1, <3>2 DEF Served
  <2>8. ASSUME WriteWakes(t) PROVE Served'
    <3>1. /\ cpu = None /\ task[t].at = "write_sleep" /\ UNCHANGED <<head, tail, read_wait>>
          /\ write_wait' = Left(write_wait, t)
      BY <2>8 DEF WriteWakes, ring
    <3>2. ReadersServed'
      BY <1>6, <2>2, <3>1 DEF Served
    <3> QED
      BY <2>w, <3>1, <3>2 DEF Served
\* A reader takes a chunk: it owes the writers a wake-up, or copies.
  <2>9. ASSUME ReadChunk(t) \/ ReadChunkFaults(t) PROVE Served'
    <3>1. PICK n \in 1 .. PAGE_SIZE - tail : n = ReadChars(t) /\ n <= Size /\ n <= task[t].count
      BY <2>9, ReadCharsFit DEF ReadChunk, ReadChunkFaults
    <3>2. /\ task[t].at = "read" /\ cpu = t /\ UNCHANGED <<read_wait, write_wait>> /\ Size # 0
          /\ head' = head /\ tail' = (tail + n) % PAGE_SIZE
      BY <2>9, <3>1 DEF ReadChunk, ReadChunkFaults, Running, queues
    <3>3. ReadersServed
      BY <1>0, <3>2 DEF Served
    <3>4. \A x \in Task : task[x].at = "write_copy" => task'[x].at = "write_copy"
      BY <2>2, <3>2
    <3>5. ReadersServed'
      BY <3>2, <3>3, <3>4 DEF ReadersServed
    <3>6. CASE ReadChunk(t)
      <4>1. AfterChunk(task[t], n).at = task[t].at
        BY <1>0, <3>1, Chunked
      <4>2. task'[t] = AfterChunk(task[t], n) /\ cpu' = t
        BY <1>0, <3>1, <3>6 DEF ReadChunk, Goes
      <4> QED
        BY <1>0, <3>2, <3>5, <4>1, <4>2 DEF Served
    <3>7. CASE ReadChunkFaults(t)
      <4>1. PICK a \in Local : a = AfterChunk(task[t], n)
        BY <1>0, <3>1, Chunked
      <4>2. task' = [task EXCEPT ![t] = [a EXCEPT !.at = "read_copy", !.chars = n, !.from = tail]]
        BY <1>0, <3>1, <3>7, <4>1 DEF ReadChunkFaults
      <4>3. task'[t].at = "read_copy"
        BY <1>0, <4>2 DEF Local
      <4> QED
        BY <3>5, <4>3 DEF Served, WritersServed
    <3> QED
      BY <2>9, <3>6, <3>7
  <2>10. ASSUME WriteChunk(t) \/ WriteChunkFaults(t) PROVE Served'
    <3>1. PICK n \in 1 .. PAGE_SIZE - head : n = WriteChars(t) /\ n <= task[t].count
      BY <2>10, WriteCharsFit DEF WriteChunk, WriteChunkFaults
    <3>2. /\ task[t].at = "write" /\ cpu = t /\ UNCHANGED <<read_wait, write_wait>> /\ Room # 0
      BY <2>10, <3>1 DEF WriteChunk, WriteChunkFaults, Running, queues
    <3>3. WritersServed
      BY <1>0, <3>2 DEF Served
    <3>4. \A x \in Task : task[x].at = "read_copy" => task'[x].at = "read_copy"
      BY <2>2, <3>2
    <3>5. WritersServed'
      BY <3>2, <3>3, <3>4 DEF WritersServed
    <3>6. CASE WriteChunk(t)
      <4>1. AfterChunk(task[t], n).at = task[t].at
        BY <1>0, <3>1, Chunked
      <4>2. task'[t] = AfterChunk(task[t], n) /\ cpu' = t
        BY <1>0, <3>1, <3>6 DEF WriteChunk, Goes
      <4> QED
        BY <1>0, <3>2, <3>5, <4>1, <4>2 DEF Served
    <3>7. CASE WriteChunkFaults(t)
      <4>1. task'[t].at = "write_copy"
        BY <1>0, <3>7 DEF WriteChunkFaults, Local
      <4> QED
        BY <3>5, <4>1 DEF Served, ReadersServed
    <3> QED
      BY <2>10, <3>6, <3>7
\* A copy ends: whoever copied runs again, and owes the other side its wake-up.
  <2>11. ASSUME ReadCopies(t) PROVE Served'
    <3>1. task[t].at = "read_copy" /\ cpu = None /\ cpu' = t /\ UNCHANGED <<head, tail, read_wait>>
      BY <2>11 DEF ReadCopies, Goes, queues
    <3>2. task'[t].at = "read"
      BY <1>0, <2>11 DEF ReadCopies, Goes, Local
    <3>3. \A x \in Task : task[x].at = "write_copy" => task'[x].at = "write_copy"
      BY <2>2, <3>1
    <3>4. ReadersServed'
      BY <1>a, <3>1, <3>3 DEF Served, ReadersServed
    <3> QED
      BY <1>0, <3>1, <3>2, <3>4 DEF Served
  <2>12. ASSUME WriteCopies(t) PROVE Served'
    <3>1. task[t].at = "write_copy" /\ cpu = None /\ cpu' = t /\ UNCHANGED <<head, tail, write_wait>>
      BY <2>12 DEF WriteCopies, Goes, queues
    <3>2. task'[t].at = "write"
      BY <1>0, <2>12 DEF WriteCopies, Goes, Local
    <3>3. \A x \in Task : task[x].at = "read_copy" => task'[x].at = "read_copy"
      BY <2>2, <3>1
    <3>4. WritersServed'
      BY <1>a, <3>1, <3>3 DEF Served, WritersServed
    <3> QED
      BY <1>0, <3>1, <3>2, <3>4 DEF Served
  <2> QED
    BY <1>8, <2>3, <2>4, <2>5, <2>6, <2>7, <2>8, <2>9, <2>10, <2>11, <2>12 DEF KernelStep
<1> QED
  BY <1>2, <1>3, <1>4, <1>5, <1>7, <1>8 DEF Next

----------------------------------------------------------------------------
\* The theorems.

\* A new pipe satisfies the invariant.
LEMMA StartsSound == Init => Inv
<1> SUFFICES ASSUME Init PROVE Inv
  OBVIOUS
<1> USE DEF Init
<1>0. PAGE_SIZE \in Nat \ {0, 1} /\ 0 \in 0 .. PAGE_SIZE - 1 /\ MaxFaults \in Nat /\ Creator \in Task /\ None \notin Task
  BY PageAssumption, CountsAssumption, CreatorAssumption
<1>1. Idle \in Local /\ Idle.at = "user"
  BY <1>0 DEF Idle, Local, Place
<1>2. EmptyQueue \in QueueOf(Task) /\ EmptyQueue.waiting = {}
  BY DEF EmptyQueue, QueueOf
<1>3. page \in [0 .. PAGE_SIZE - 1 -> Nat]
  OBVIOUS
<1>4. holds \in [Task -> SUBSET End] /\ holds[Creator] = End /\ \A t \in Task : t # Creator => holds[t] = {}
  BY <1>0
<1>5. got \in Seq(Nat) /\ Len(got) = 0
  OBVIOUS
<1>6. TypeOK
  BY <1>0, <1>1, <1>2, <1>3, <1>4, <1>5 DEF TypeOK, Local
<1>7. \A t \in Task : task[t].at = "user"
  BY <1>1
<1>8. EndsHeld
  <2>1. "read" \in holds[Creator] /\ "write" \in holds[Creator]
    BY <1>4 DEF End
  <2>2. Open("read") = 1 /\ Open("write") = 1
    BY <1>0, <2>1 DEF Open
  <2> QED
    BY <1>4, <1>7, <2>2 DEF EndsHeld
<1>9. Copying
  BY <1>7 DEF Copying
<1>10. Size = 0
  <2>1. (PAGE_SIZE + 0 - 0) % PAGE_SIZE = IF 0 >= 0 THEN 0 - 0 ELSE PAGE_SIZE + 0 - 0
    BY <1>0, SizeIs
  <2> QED
    BY <2>1 DEF Size
<1>11. InFlight = {}
  <2>1. ASSUME NEW c \in InFlight PROVE FALSE
    <3>1. c \in Task \X (1 .. PAGE_SIZE) /\ task[c[1]].at = "read_copy"
      BY <2>1 DEF InFlight
    <3> QED
      BY <1>7, <3>1
  <2> QED
    BY <2>1
<1>12. Conserved
  BY <1>5, <1>10, <1>11, FS_EmptySet DEF Conserved, BytesConserved
<1>13. Ordered
  <2>1. got = [k \in 1 .. Len(got) |-> k]
    BY <1>5
  <2> QED
    BY <1>10, <2>1 DEF Ordered, InOrder
<1>14. Served
  BY <1>2 DEF Served, ReadersServed, WritersServed
<1> QED
  BY <1>6, <1>8, <1>9, <1>12, <1>13, <1>14 DEF Inv

\* Every step keeps it.
LEMMA StepsSound == Inv /\ [Next]_vars => Inv'
<1> SUFFICES ASSUME Inv, [Next]_vars PROVE Inv'
  OBVIOUS
<1>1. TypeOK /\ EndsHeld /\ Copying /\ Conserved /\ Ordered /\ Served
  BY DEF Inv
<1>2. TypeOK' /\ EndsHeld' /\ Copying' /\ Conserved'
  BY <1>1, TypeKept, EndsKept, CopyingKept, ConservedKept
<1>3. Ordered' /\ Served'
  BY <1>1, OrderedKept, ServedKept
<1> QED
  BY <1>2, <1>3 DEF Inv

\* The invariant holds in every state: the count is that of the ends that are open, the
\* copies stay within the page, the bytes are all there and in order, and a reader sleeps
\* in vain at most while a writer runs that has still to wake him, and the reverse
\* (pipe.c:11-68; fork.c, open.c and iput for the count).
THEOREM PipeInvariant == Spec => []Inv
<1>1. Init => Inv
  BY StartsSound
<1>2. Inv /\ [Next]_vars => Inv'
  BY StepsSound
<1> QED
  BY <1>1, <1>2, PTL DEF Spec

\* The pipe delivers, for every number of tasks, size of the ring, and number of
\* copies that fault: no byte is lost or counted twice, none is overtaken before a copy
\* has slept, and nobody sleeps on while the pipe has something for him and nobody is
\* on the way to tell him (PipeSound; pipe.c:11-68).
THEOREM PipeSoundTheorem == Spec => []PipeSound
<1>1. Inv => PipeSound
  BY DEF Inv, PipeSound, Stream, Conserved, Ordered, NobodySleepsOn, Served, ReadersServed, WritersServed
<1> QED
  BY <1>1, PipeInvariant, PTL

\* Who finds the count not two while his own end is open has nobody at the other end.
LEMMA OtherEndGone ==
    ASSUME EndsHeld, NEW t \in Task, i_count # 2
    PROVE  /\ "read" \in holds[t] => \A u \in Task : "write" \notin holds[u]
           /\ "write" \in holds[t] => \A u \in Task : "read" \notin holds[u]
<1>1. i_count = Open("read") + Open("write")
  BY DEF EndsHeld
<1>2. CASE "read" \in holds[t] /\ \E u \in Task : "write" \in holds[u]
  <2>1. Open("read") = 1 /\ Open("write") = 1
    BY <1>2 DEF Open
  <2> QED
    BY <1>1, <2>1
<1>3. CASE "write" \in holds[t] /\ \E u \in Task : "read" \in holds[u]
  <2>1. Open("read") = 1 /\ Open("write") = 1
    BY <1>3 DEF Open
  <2> QED
    BY <1>1, <2>1
<1> QED
  BY <1>2, <1>3

\* A read falls short only if nobody is left to write, or a signal is pending; a write
\* only if nobody is left to read: "are there any writers?" (pipe.c:16) and "no
\* readers" (pipe.c:45) are what the count tells (ShortCallsRight).
THEOREM ShortCallsRightTheorem == Spec => ShortCallsRight
<1> DEFINE Right(t) == \/ task[t].at = "read" /\ (t \in signal \/ \A u \in Task : "write" \notin holds[u])
                       \/ task[t].at = "write" /\ \A u \in Task : "read" \notin holds[u]
<1>1. ASSUME Inv, [Next]_vars PROVE [\A t \in Task : Short(t) => Right(t)]_vars
  <2> SUFFICES ASSUME ~UNCHANGED vars, NEW t \in Task, Short(t) PROVE Right(t)
    OBVIOUS
  <2>0. /\ task \in [Task -> Local] /\ EndsHeld /\ Copying /\ TypeOK /\ None \notin Task
        /\ task[t].count \in Nat
    BY <1>1, CreatorAssumption DEF Inv, TypeOK, Local
  <2>1. cpu = t /\ cpu' = None /\ task'[t].at = "user" /\ task[t].count > 0 /\ cpu # None
    BY <2>0 DEF Short
  <2>2. task[t].at \in {"read", "write"}
    BY <2>0, <2>1 DEF Copying
  <2>3. PICK x \in Task : KernelStep(x)
    BY <1>1, <2>1 DEF Next, Fork, Close, Signal, Read, Write
  <2>4. x = t
    <3>1. ASSUME x # t PROVE FALSE
      BY <2>1, <2>3, <3>1 DEF KernelStep, ReadEmpty, ReadWakes, ReadChunk, ReadChunkFaults, ReadCopies, ReadDone,
         WriteFull, WriteWakes, WriteChunk, WriteChunkFaults, WriteCopies, WriteDone, Running
    <3> QED
      BY <3>1
  <2>5. ~ReadWakes(t) /\ ~ReadCopies(t) /\ ~WriteWakes(t) /\ ~WriteCopies(t)
    BY <2>1 DEF ReadWakes, ReadCopies, WriteWakes, WriteCopies
  <2>6. ~ReadDone(t) /\ ~WriteDone(t)
    BY <2>0, <2>1 DEF ReadDone, WriteDone
  <2>7. ~ReadChunk(t) /\ ~WriteChunk(t)
    BY <2>0, <2>1 DEF ReadChunk, WriteChunk, Goes
  <2>8. ~ReadChunkFaults(t) /\ ~WriteChunkFaults(t)
    <3>1. ReadChunkFaults(t) => task'[t].at # "user"
      <4>1. ASSUME ReadChunkFaults(t) PROVE task'[t].at = "read_copy"
        <5>1. PICK n \in Nat : n = ReadChars(t) /\ n <= task[t].count
          BY <2>0, <4>1, ReadCharsFit DEF ReadChunkFaults
        <5>2. PICK a \in Local : a = AfterChunk(task[t], n)
          BY <2>0, <5>1, Chunked
        <5>3. task' = [task EXCEPT ![t] = [a EXCEPT !.at = "read_copy", !.chars = n, !.from = tail]]
          BY <2>0, <4>1, <5>1, <5>2 DEF ReadChunkFaults
        <5> QED
          BY <2>0, <5>3 DEF Local
      <4> QED
        BY <4>1
    <3>2. WriteChunkFaults(t) => task'[t].at # "user"
      BY <2>0 DEF WriteChunkFaults, Local
    <3> QED
      BY <2>1, <3>1, <3>2
  <2>9. ReadEmpty(t) \/ WriteFull(t)
    BY <2>3, <2>4, <2>5, <2>6, <2>7, <2>8 DEF KernelStep
  <2>10. CASE ReadEmpty(t)
    <3>1. task[t].at = "read" /\ "read" \in holds[t]
      BY <2>0, <2>10 DEF ReadEmpty, Running, EndsHeld
    <3>2. ~Sleeps(t, "read_sleep")
      BY <2>0, <2>1 DEF Sleeps, Local
    <3>3. i_count # 2 \/ t \in signal
      BY <2>10, <3>2 DEF ReadEmpty
    <3> QED
      BY <2>0, <3>1, <3>3, OtherEndGone
  <2>11. CASE WriteFull(t)
    <3>1. task[t].at = "write" /\ "write" \in holds[t]
      BY <2>0, <2>11 DEF WriteFull, Running, EndsHeld
    <3>2. ~Sleeps(t, "write_sleep")
      BY <2>0, <2>1 DEF Sleeps, Local
    <3>3. i_count # 2
      BY <2>11, <3>2 DEF WriteFull
    <3> QED
      BY <2>0, <3>1, <3>3, OtherEndGone
  <2> QED
    BY <2>9, <2>10, <2>11
<1>2. Inv /\ [Next]_vars => [\A t \in Task : Short(t) => Right(t)]_vars
  BY <1>1
<1> QED
  BY <1>2, PipeInvariant, PTL DEF Spec, ShortCallsRight
============================================================================
