----------------------------- MODULE PipeProofs -----------------------------
(* Proofs about pipes, for any number of processes, any size of the ring and   *)
(* any width of its counters: PipeInv is inductive (one lemma per action, one  *)
(* step per conjunct), and it implies that no wakeup is lost, that end of file *)
(* is final, and that the ring implements a queue of bytes.                    *)
EXTENDS Pipe, Integers, TLAPS

\* Counters taken modulo UINT, and indices modulo PIPESIZE, are in range.
LEMMA Modulo ==
  ASSUME NEW a \in Nat, NEW n \in Nat \ {0}
  PROVE  a % n \in 0 .. (n - 1)
OBVIOUS

\* The locals of a call keep their types.
LEMMA LocalsType ==
  ASSUME TypeOK, NEW p \in Proc, NEW e \in End, NEW n \in 0 .. MaxBytes, Locals(p, e, n)
  PROVE  /\ end' \in [Proc -> End]
         /\ left' \in [Proc -> 0 .. MaxBytes]
         /\ got' \in [Proc -> 0 .. MaxBytes]
<1>1. 0 \in 0 .. MaxBytes
  BY PipeAssumption
<1> QED BY <1>1 DEF TypeOK, Locals

\* So does the place of each process when some are woken.
LEMMA WakeType ==
  ASSUME TypeOK, NEW p \in Proc, NEW e, NEW l \in PCs, Wake(e, p, l)
  PROVE  pc' \in [Proc -> PCs]
<1>1. "acquire" \in PCs
  BY DEF PCs
<1> QED BY <1>1 DEF TypeOK, Wake

\* When the page is free, nobody is inside or can come back: this needs no step
\* of its own, it follows from the counting of ends.
LEMMA FreeIsLast ==
  TypeOK /\ MutualExclusion /\ EndsCounted => NoUseAfterFree
<1> SUFFICES ASSUME TypeOK, MutualExclusion, EndsCounted, freed
             PROVE  lock = Nobody /\ open = {} /\ \A p \in Proc : pc[p] = "user"
  BY DEF NoUseAfterFree
<1>1. readopen = 0 /\ writeopen = 0
  BY DEF EndsCounted
<1>2. \A p \in Proc, e \in End : <<p, e>> \notin open /\ ~(pc[p] = "close" /\ end[p] = e)
  BY <1>1 DEF EndsCounted, Referenced, End
<1>3. open = {}
  BY <1>2 DEF TypeOK
<1>4. \A p \in Proc : pc[p] = "user"
  BY <1>2 DEF TypeOK, EndsCounted, PCs, Inside
<1>5. lock = Nobody
  BY <1>4, Zenon DEF TypeOK, MutualExclusion
<1> QED BY <1>3, <1>4, <1>5

\* The same after a step.
LEMMA FreeIsLastPrimed ==
  TypeOK' /\ MutualExclusion' /\ EndsCounted' => NoUseAfterFree'
BY FreeIsLast, PTL

\* A step inside the pipe, of a process that has a reference, leaves the counting
\* of ends alone.
LEMMA EndsKept ==
  ASSUME EndsCounted,
         UNCHANGED <<open, readopen, writeopen, freed>>,
         \A q \in Proc : /\ pc'[q] = "close" <=> pc[q] = "close"
                         /\ pc[q] = "close" => end'[q] = end[q]
                         /\ pc'[q] \in Inside => <<q, end'[q]>> \in open
  PROVE  EndsCounted'
<1>1. (Referenced("r")' <=> Referenced("r")) /\ (Referenced("w")' <=> Referenced("w"))
  BY Zenon DEF Referenced
<1>2. (readopen' = 1 <=> Referenced("r")') /\ (writeopen' = 1 <=> Referenced("w")')
  BY <1>1 DEF EndsCounted
<1>3. \A q, r \in Proc : pc'[q] = "close" =>
          <<r, end'[q]>> \notin open' /\ (pc'[r] = "close" /\ end'[r] = end'[q] => r = q)
  BY Zenon DEF EndsCounted
<1>4. freed' => readopen' = 0 /\ writeopen' = 0
  BY DEF EndsCounted
<1> QED BY <1>2, <1>3, <1>4 DEF EndsCounted

\* Entering pipewrite() or piperead() keeps the invariant: the caller has a reference to its end.
LEMMA CallInv ==
  ASSUME PipeInv, NEW p \in Proc, NEW e \in End, NEW n \in 1 .. MaxBytes, Call(p, e, n)
  PROVE  PipeInv'
<1>1. TypeOK'
  <2>1. end' \in [Proc -> End] /\ left' \in [Proc -> 0 .. MaxBytes] /\ got' \in [Proc -> 0 .. MaxBytes]
    BY PipeAssumption, LocalsType DEF PipeInv, Call
  <2> QED BY <2>1, Zenon DEF PipeInv, TypeOK, PCs, Call, Goto, pipe
<1>2. MutualExclusion'
  BY DEF PipeInv, MutualExclusion, Call, Goto
<1>3. EndsCounted'
  <2>1. \A q \in Proc : /\ pc'[q] = "close" <=> pc[q] = "close"
                        /\ pc[q] = "close" => end'[q] = end[q]
                        /\ pc'[q] \in Inside => <<q, end'[q]>> \in open
    BY Zenon DEF PipeInv, TypeOK, EndsCounted, Call, Goto, Locals
  <2> QED BY <2>1, EndsKept DEF PipeInv, Call, pipe
<1>4. CallsCounted'
  BY DEF PipeInv, TypeOK, CallsCounted, Empty, Call, pipe, Goto, Locals
<1>5. SleepersWait'
  BY DEF PipeInv, SleepersWait, Empty, Full, Call, pipe, Goto, Locals
<1> QED BY <1>1, <1>2, <1>3, <1>4, <1>5, FreeIsLastPrimed DEF PipeInv

\* acquire() keeps the invariant.
LEMMA AcquireInv ==
  ASSUME PipeInv, NEW p \in Proc, Acquire(p)
  PROVE  PipeInv'
<1>1. TypeOK'
  BY DEF PipeInv, TypeOK, PCs, Acquire, pipe, Goto
<1>2. MutualExclusion'
  BY PipeAssumption DEF PipeInv, TypeOK, MutualExclusion, Acquire, Goto
<1>3. EndsCounted'
  <2>1. \A q \in Proc : /\ pc'[q] = "close" <=> pc[q] = "close"
                        /\ pc[q] = "close" => end'[q] = end[q]
                        /\ pc'[q] \in Inside => <<q, end'[q]>> \in open
    BY DEF PipeInv, EndsCounted, Inside, Acquire, Goto
  <2> QED BY <2>1, EndsKept DEF PipeInv, Acquire, pipe
<1>4. CallsCounted'
  BY DEF PipeInv, CallsCounted, Inside, Empty, Acquire, pipe, Goto
<1>5. SleepersWait'
  BY DEF PipeInv, SleepersWait, Empty, Full, Acquire, pipe, Goto
<1> QED BY <1>1, <1>2, <1>3, <1>4, <1>5, FreeIsLastPrimed DEF PipeInv

\* sleep() keeps the invariant: what it waits for has not changed since the test, under the lock.
LEMMA SleepInv ==
  ASSUME PipeInv, NEW p \in Proc, Sleep(p)
  PROVE  PipeInv'
<1>1. TypeOK'
  BY DEF PipeInv, TypeOK, PCs, Sleep, pipe, Goto
<1>2. MutualExclusion'
  BY PipeAssumption DEF PipeInv, TypeOK, MutualExclusion, Sleep, Goto
<1>3. EndsCounted'
  <2>1. \A q \in Proc : /\ pc'[q] = "close" <=> pc[q] = "close"
                        /\ pc[q] = "close" => end'[q] = end[q]
                        /\ pc'[q] \in Inside => <<q, end'[q]>> \in open
    BY DEF PipeInv, EndsCounted, Inside, Sleep, Goto
  <2> QED BY <2>1, EndsKept DEF PipeInv, Sleep, pipe
<1>4. CallsCounted'
  BY DEF PipeInv, CallsCounted, Inside, Empty, Sleep, pipe, Goto
<1>5. SleepersWait'
  BY DEF PipeInv, SleepersWait, Empty, Full, Sleep, pipe, Goto
<1> QED BY <1>1, <1>2, <1>3, <1>4, <1>5, FreeIsLastPrimed DEF PipeInv

\* pipewrite() at a full ring keeps the invariant: it wakes the readers, or is killed and leaves.
LEMMA WriteFullInv ==
  ASSUME PipeInv, NEW p \in Proc, WriteFull(p)
  PROVE  PipeInv'
<1>1. TypeOK'
  <2>1. CASE readopen = 0 \/ killed[p]
    <3>1. end' \in [Proc -> End] /\ left' \in [Proc -> 0 .. MaxBytes] /\ got' \in [Proc -> 0 .. MaxBytes]
      BY <2>1, PipeAssumption, LocalsType DEF PipeInv, WriteFull, Fail, Return, End
    <3> QED BY <2>1, <3>1, Zenon DEF PipeInv, TypeOK, PCs, WriteFull, Fail, Goto, pipe
  <2>2. CASE ~(readopen = 0 \/ killed[p])
    <3>1. pc' \in [Proc -> PCs]
      BY <2>2, WakeType DEF PipeInv, PCs, WriteFull
    <3> QED BY <2>2, <3>1 DEF PipeInv, TypeOK, WriteFull, pipe
  <2> QED BY <2>1, <2>2
<1>2. MutualExclusion'
  BY PipeAssumption DEF PipeInv, TypeOK, MutualExclusion, WriteFull, Wake, Goto, Fail
<1>3. EndsCounted'
  <2>1. \A q \in Proc : /\ pc'[q] = "close" <=> pc[q] = "close"
                        /\ pc[q] = "close" => end'[q] = end[q]
                        /\ pc'[q] \in Inside => <<q, end'[q]>> \in open
    BY DEF PipeInv, TypeOK, EndsCounted, Inside, WriteFull, Wake, Goto, Fail, Return, Locals
  <2> QED BY <2>1, EndsKept DEF PipeInv, WriteFull, pipe
<1>4. CallsCounted'
  BY PipeAssumption DEF PipeInv, TypeOK, MutualExclusion, CallsCounted, Inside, WriteFull, Wake, Goto, Fail, Return, Locals
<1>5. SleepersWait'
  <2>1. CASE readopen = 0 \/ killed[p]
    <3>1. \A q \in Proc : pc[q] = "asleep" => end[q] = "w" \/ killed[p]
      BY <2>1 DEF PipeInv, TypeOK, EndsCounted, Referenced, Inside, End
    <3>2. /\ \A q \in Proc \ {p} : pc'[q] = pc[q] /\ end'[q] = end[q]
          /\ pc[p] = "locked" /\ pc'[p] = "user"
          /\ (Empty' <=> Empty) /\ (Full' <=> Full) /\ UNCHANGED <<readopen, writeopen, killed>>
      BY <2>1 DEF PipeInv, TypeOK, WriteFull, pipe, Fail, Goto, Return, Locals, Empty, Full
    <3> QED BY <2>1, <3>1, <3>2 DEF PipeInv, SleepersWait
  <2>2. CASE ~(readopen = 0 \/ killed[p])
    BY <2>2 DEF PipeInv, TypeOK, SleepersWait, Empty, Full, WriteFull, pipe, Wake
  <2> QED BY <2>1, <2>2
<1> QED BY <1>1, <1>2, <1>3, <1>4, <1>5, FreeIsLastPrimed DEF PipeInv

\* Writing a byte keeps the invariant: a writer that is asleep excludes room for another.
LEMMA WriteByteInv ==
  ASSUME PipeInv, NEW p \in Proc, NEW b \in Byte, WriteByte(p, b)
  PROVE  PipeInv'
<1>1. TypeOK'
  <2>1. nwrite \in Nat /\ nwrite + 1 \in Nat
    BY PipeAssumption DEF PipeInv, TypeOK
  <2>2. nwrite' \in 0 .. (UINT - 1)
    BY <2>1, PipeAssumption, Modulo, Zenon DEF WriteByte
  <2>3. data' \in [0 .. (PIPESIZE - 1) -> Byte]
    BY Zenon DEF PipeInv, TypeOK, WriteByte
  <2>4. left' \in [Proc -> 0 .. MaxBytes]
    BY PipeAssumption DEF PipeInv, TypeOK, WriteByte
  <2> QED BY <2>2, <2>3, <2>4 DEF PipeInv, TypeOK, WriteByte
<1>2. MutualExclusion'
  BY DEF PipeInv, MutualExclusion, WriteByte
<1>3. EndsCounted'
  <2>1. \A q \in Proc : /\ pc'[q] = "close" <=> pc[q] = "close"
                        /\ pc[q] = "close" => end'[q] = end[q]
                        /\ pc'[q] \in Inside => <<q, end'[q]>> \in open
    BY DEF PipeInv, EndsCounted, WriteByte
  <2> QED BY <2>1, EndsKept DEF PipeInv, WriteByte
<1>4. CallsCounted'
  BY PipeAssumption DEF PipeInv, TypeOK, MutualExclusion, CallsCounted, WriteByte
<1>5. SleepersWait'
  BY DEF PipeInv, MutualExclusion, SleepersWait, WriteByte
<1> QED BY <1>1, <1>2, <1>3, <1>4, <1>5, FreeIsLastPrimed DEF PipeInv

\* The end of pipewrite() keeps the invariant: no reader is left asleep.
LEMMA WriteDoneInv ==
  ASSUME PipeInv, NEW p \in Proc, WriteDone(p)
  PROVE  PipeInv'
<1>1. TypeOK'
  <2>1. end' \in [Proc -> End] /\ left' \in [Proc -> 0 .. MaxBytes] /\ got' \in [Proc -> 0 .. MaxBytes]
    BY PipeAssumption, LocalsType DEF PipeInv, WriteDone, Return, End
  <2>2. pc' \in [Proc -> PCs]
    BY WakeType DEF PipeInv, PCs, WriteDone
  <2> QED BY <2>1, <2>2 DEF PipeInv, TypeOK, WriteDone, pipe
<1>2. MutualExclusion'
  BY PipeAssumption DEF PipeInv, MutualExclusion, WriteDone, Wake
<1>3. EndsCounted'
  <2>1. \A q \in Proc : /\ pc'[q] = "close" <=> pc[q] = "close"
                        /\ pc[q] = "close" => end'[q] = end[q]
                        /\ pc'[q] \in Inside => <<q, end'[q]>> \in open
    BY DEF PipeInv, EndsCounted, Inside, WriteDone, Wake, Return, Locals
  <2> QED BY <2>1, EndsKept DEF PipeInv, WriteDone, pipe
<1>4. CallsCounted'
  BY PipeAssumption DEF PipeInv, CallsCounted, Inside, Empty, WriteDone, pipe, Wake, Return, Locals
<1>5. SleepersWait'
  BY DEF PipeInv, SleepersWait, Empty, Full, WriteDone, pipe, Wake, Return, Locals
<1> QED BY <1>1, <1>2, <1>3, <1>4, <1>5, FreeIsLastPrimed DEF PipeInv

\* piperead() at an empty ring keeps the invariant.
LEMMA ReadEmptyInv ==
  ASSUME PipeInv, NEW p \in Proc, ReadEmpty(p)
  PROVE  PipeInv'
<1>1. TypeOK'
  <2>1. CASE killed[p]
    <3>1. end' \in [Proc -> End] /\ left' \in [Proc -> 0 .. MaxBytes] /\ got' \in [Proc -> 0 .. MaxBytes]
      BY <2>1, PipeAssumption, LocalsType DEF PipeInv, ReadEmpty, Fail, Return, End
    <3> QED BY <2>1, <3>1, Zenon DEF PipeInv, TypeOK, PCs, ReadEmpty, Fail, Goto, pipe
  <2>2. CASE ~killed[p]
    BY <2>2, Zenon DEF PipeInv, TypeOK, PCs, ReadEmpty, Goto, pipe
  <2> QED BY <2>1, <2>2
<1>2. MutualExclusion'
  BY PipeAssumption DEF PipeInv, TypeOK, MutualExclusion, ReadEmpty, Goto, Fail, Return, Locals
<1>3. EndsCounted'
  <2>1. \A q \in Proc \ {p} : pc'[q] = pc[q] /\ end'[q] = end[q]
    BY DEF PipeInv, TypeOK, ReadEmpty, Goto, Fail, Return, Locals
  <2>2. pc[p] = "locked" /\ pc'[p] \in {"user", "tosleep"} /\ (pc'[p] = "tosleep" => end'[p] = end[p])
    BY DEF PipeInv, TypeOK, ReadEmpty, Goto, Fail
  <2>3. \A q \in Proc : /\ pc'[q] = "close" <=> pc[q] = "close"
                        /\ pc[q] = "close" => end'[q] = end[q]
                        /\ pc'[q] \in Inside => <<q, end'[q]>> \in open
    BY <2>1, <2>2 DEF PipeInv, EndsCounted, Inside
  <2> QED BY <2>3, EndsKept DEF PipeInv, ReadEmpty, pipe
<1>4. CallsCounted'
  <2>1. CASE killed[p]
    <3>1. \A q \in Proc \ {p} : pc'[q] = pc[q] /\ end'[q] = end[q] /\ left'[q] = left[q] /\ got'[q] = got[q]
      BY <2>1 DEF PipeInv, TypeOK, ReadEmpty, Goto, Fail, Return, Locals
    <3>2. pc'[p] = "user" /\ left'[p] = 0 /\ got'[p] = 0
      BY <2>1 DEF PipeInv, TypeOK, ReadEmpty, Goto, Fail, Return, Locals
    <3>3. left'[p] + got'[p] <= MaxBytes
      BY <3>2, PipeAssumption
    <3> QED BY <3>1, <3>2, <3>3, SMTT(30) DEF PipeInv, CallsCounted, Inside, ReadEmpty
  <2>2. CASE ~killed[p]
    BY <2>2 DEF PipeInv, TypeOK, CallsCounted, Inside, ReadEmpty, Goto
  <2> QED BY <2>1, <2>2
<1>5. SleepersWait'
  BY DEF PipeInv, TypeOK, SleepersWait, Empty, Full, ReadEmpty, pipe, Goto, Fail, Return, Locals
<1> QED BY <1>1, <1>2, <1>3, <1>4, <1>5, FreeIsLastPrimed DEF PipeInv

\* Going on to the second loop of piperead() keeps the invariant.
LEMMA ReadStartInv ==
  ASSUME PipeInv, NEW p \in Proc, ReadStart(p)
  PROVE  PipeInv'
<1>1. TypeOK'
  BY DEF PipeInv, TypeOK, PCs, ReadStart, pipe, Goto
<1>2. MutualExclusion'
  BY DEF PipeInv, MutualExclusion, ReadStart, Goto
<1>3. EndsCounted'
  <2>1. \A q \in Proc : /\ pc'[q] = "close" <=> pc[q] = "close"
                        /\ pc[q] = "close" => end'[q] = end[q]
                        /\ pc'[q] \in Inside => <<q, end'[q]>> \in open
    BY DEF PipeInv, EndsCounted, Inside, ReadStart, Goto
  <2> QED BY <2>1, EndsKept DEF PipeInv, ReadStart, pipe
<1>4. CallsCounted'
  BY DEF PipeInv, TypeOK, CallsCounted, Inside, Empty, ReadStart, pipe, Goto
<1>5. SleepersWait'
  BY DEF PipeInv, SleepersWait, Full, ReadStart, pipe, Goto
<1> QED BY <1>1, <1>2, <1>3, <1>4, <1>5, FreeIsLastPrimed DEF PipeInv

\* Reading a byte keeps the invariant.
LEMMA ReadByteInv ==
  ASSUME PipeInv, NEW p \in Proc, ReadByte(p)
  PROVE  PipeInv'
<1>1. TypeOK'
  <2>1. nread' \in 0 .. (UINT - 1)
    BY PipeAssumption DEF PipeInv, TypeOK, ReadByte
  <2>2. left' \in [Proc -> 0 .. MaxBytes] /\ got' \in [Proc -> 0 .. MaxBytes]
    BY PipeAssumption, SMTT(60) DEF PipeInv, TypeOK, CallsCounted, ReadByte
  <2> QED BY <2>1, <2>2 DEF PipeInv, TypeOK, ReadByte
<1>2. MutualExclusion'
  BY DEF PipeInv, MutualExclusion, ReadByte
<1>3. EndsCounted'
  <2>1. \A q \in Proc : /\ pc'[q] = "close" <=> pc[q] = "close"
                        /\ pc[q] = "close" => end'[q] = end[q]
                        /\ pc'[q] \in Inside => <<q, end'[q]>> \in open
    BY DEF PipeInv, EndsCounted, ReadByte
  <2> QED BY <2>1, EndsKept DEF PipeInv, ReadByte
<1>4. CallsCounted'
  BY DEF PipeInv, TypeOK, MutualExclusion, CallsCounted, ReadByte
<1>5. SleepersWait'
  BY DEF PipeInv, MutualExclusion, SleepersWait, ReadByte
<1> QED BY <1>1, <1>2, <1>3, <1>4, <1>5, FreeIsLastPrimed DEF PipeInv

\* The end of piperead() keeps the invariant: no writer is left asleep.
LEMMA ReadDoneInv ==
  ASSUME PipeInv, NEW p \in Proc, ReadDone(p)
  PROVE  PipeInv'
<1>1. TypeOK'
  <2>1. end' \in [Proc -> End] /\ left' \in [Proc -> 0 .. MaxBytes] /\ got' \in [Proc -> 0 .. MaxBytes]
    BY PipeAssumption, LocalsType DEF PipeInv, ReadDone, Return, End
  <2>2. pc' \in [Proc -> PCs]
    BY WakeType DEF PipeInv, PCs, ReadDone
  <2> QED BY <2>1, <2>2 DEF PipeInv, TypeOK, ReadDone, pipe
<1>2. MutualExclusion'
  BY PipeAssumption DEF PipeInv, MutualExclusion, ReadDone, Wake
<1>3. EndsCounted'
  <2>1. \A q \in Proc : /\ pc'[q] = "close" <=> pc[q] = "close"
                        /\ pc[q] = "close" => end'[q] = end[q]
                        /\ pc'[q] \in Inside => <<q, end'[q]>> \in open
    BY DEF PipeInv, EndsCounted, Inside, ReadDone, Wake, Return, Locals
  <2> QED BY <2>1, EndsKept DEF PipeInv, ReadDone, pipe
<1>4. CallsCounted'
  BY PipeAssumption DEF PipeInv, TypeOK, CallsCounted, Inside, Empty, ReadDone, pipe, Wake, Return, Locals
<1>5. SleepersWait'
  BY DEF PipeInv, SleepersWait, Empty, Full, ReadDone, pipe, Wake, Return, Locals
<1> QED BY <1>1, <1>2, <1>3, <1>4, <1>5, FreeIsLastPrimed DEF PipeInv

\* fileclose() keeps the invariant: the last reference to an end is dropped by one process.
LEMMA CloseInv ==
  ASSUME PipeInv, NEW p \in Proc, NEW e \in End, Close(p, e)
  PROVE  PipeInv'
<1>1. TypeOK'
  <2>1. CASE \E q \in Proc : <<q, e>> \in open'
    BY <2>1, Zenon DEF PipeInv, TypeOK, Close, pipe
  <2>2. CASE ~\E q \in Proc : <<q, e>> \in open'
    <3>1. end' \in [Proc -> End] /\ left' \in [Proc -> 0 .. MaxBytes] /\ got' \in [Proc -> 0 .. MaxBytes]
      BY <2>2, PipeAssumption, LocalsType DEF PipeInv, Close
    <3> QED BY <2>2, <3>1, Zenon DEF PipeInv, TypeOK, PCs, Close, Goto, pipe
  <2> QED BY <2>1, <2>2
<1>2. MutualExclusion'
  BY DEF PipeInv, TypeOK, MutualExclusion, Close, pipe, Goto, Locals
<1>3. EndsCounted'
  <2>1. CASE \E q \in Proc : <<q, e>> \in open'
    <3>1. (Referenced("r")' <=> Referenced("r")) /\ (Referenced("w")' <=> Referenced("w"))
      BY <2>1, Zenon DEF Close, Referenced
    <3>2. (readopen' = 1 <=> Referenced("r")') /\ (writeopen' = 1 <=> Referenced("w")')
      BY <3>1 DEF PipeInv, EndsCounted, Close, pipe
    <3>3. \A q \in Proc : pc[q] \in Inside => <<q, end[q]>> \in open'
      BY DEF PipeInv, EndsCounted, Close, Inside
    <3>4. open' \subseteq open /\ UNCHANGED <<pc, end, freed, readopen, writeopen>>
      BY <2>1 DEF Close, pipe
    <3> QED BY <3>2, <3>3, <3>4 DEF PipeInv, EndsCounted
  <2>2. CASE ~\E q \in Proc : <<q, e>> \in open'
    <3>1. /\ pc' = [pc EXCEPT ![p] = "close"] /\ end' = [end EXCEPT ![p] = e]
          /\ open' = open \ {<<p, e>>} /\ <<p, e>> \in open /\ pc[p] = "user"
          /\ UNCHANGED <<freed, readopen, writeopen>>
      BY <2>2 DEF Close, Goto, Locals, pipe
    <3>2. (Referenced("r")' <=> Referenced("r")) /\ (Referenced("w")' <=> Referenced("w"))
      BY <3>1, Zenon DEF PipeInv, TypeOK, Referenced
    <3>3. (readopen' = 1 <=> Referenced("r")') /\ (writeopen' = 1 <=> Referenced("w")')
      BY <3>1, <3>2 DEF PipeInv, EndsCounted
    <3>4. \A q \in Proc : pc'[q] \in Inside => <<q, end'[q]>> \in open'
      BY <3>1 DEF PipeInv, EndsCounted, Inside
    <3>5. \A q, r \in Proc : pc'[q] = "close" =>
              <<r, end'[q]>> \notin open' /\ (pc'[r] = "close" /\ end'[r] = end'[q] => r = q)
      BY <2>2, <3>1 DEF PipeInv, TypeOK, EndsCounted
    <3> QED BY <3>1, <3>3, <3>4, <3>5 DEF PipeInv, EndsCounted
  <2> QED BY <2>1, <2>2
<1>4. CallsCounted'
  <2>1. CASE \E q \in Proc : <<q, e>> \in open'
    BY <2>1 DEF PipeInv, CallsCounted, Empty, Close, pipe
  <2>2. CASE ~\E q \in Proc : <<q, e>> \in open'
    <3>1. \A q \in Proc \ {p} : pc'[q] = pc[q] /\ end'[q] = end[q] /\ left'[q] = left[q] /\ got'[q] = got[q]
      BY <2>2 DEF PipeInv, TypeOK, Close, Goto, Locals
    <3>2. pc'[p] = "close" /\ left'[p] = 0 /\ got'[p] = 0
      BY <2>2 DEF PipeInv, TypeOK, Close, Goto, Locals
    <3>3. left'[p] + got'[p] <= MaxBytes
      BY <3>2, PipeAssumption
    <3> QED BY <3>1, <3>2, <3>3 DEF PipeInv, CallsCounted, Inside, Empty, Close, pipe
  <2> QED BY <2>1, <2>2
<1>5. SleepersWait'
  <2>1. CASE \E q \in Proc : <<q, e>> \in open'
    BY <2>1 DEF PipeInv, SleepersWait, Empty, Full, Close, pipe
  <2>2. CASE ~\E q \in Proc : <<q, e>> \in open'
    <3>1. /\ \A q \in Proc \ {p} : pc'[q] = pc[q] /\ end'[q] = end[q]
          /\ pc[p] = "user" /\ pc'[p] = "close"
          /\ (Empty' <=> Empty) /\ (Full' <=> Full) /\ UNCHANGED <<readopen, writeopen, killed>>
      BY <2>2 DEF PipeInv, TypeOK, Close, pipe, Goto, Locals, Empty, Full
    <3> QED BY <3>1 DEF PipeInv, SleepersWait
  <2> QED BY <2>1, <2>2
<1> QED BY <1>1, <1>2, <1>3, <1>4, <1>5, FreeIsLastPrimed DEF PipeInv

\* pipeclose() keeps the invariant: those who wait for the other end are woken.
LEMMA PipeCloseInv ==
  ASSUME PipeInv, NEW p \in Proc, PipeClose(p)
  PROVE  PipeInv'
<1>1. TypeOK'
  <2>1. end' \in [Proc -> End] /\ left' \in [Proc -> 0 .. MaxBytes] /\ got' \in [Proc -> 0 .. MaxBytes]
    BY PipeAssumption, LocalsType, SMTT(30) DEF PipeInv, PipeClose, Return, End
  <2>2. pc' \in [Proc -> PCs]
    BY WakeType DEF PipeInv, PCs, PipeClose
  <2>3. readopen' \in {0, 1} /\ writeopen' \in {0, 1} /\ freed' \in BOOLEAN
    BY DEF PipeInv, TypeOK, PipeClose
  <2> QED BY <2>1, <2>2, <2>3 DEF PipeInv, TypeOK, PipeClose
<1>2. MutualExclusion'
  BY DEF PipeInv, MutualExclusion, PipeClose, Wake
<1>3. EndsCounted'
  <2>1. /\ \A q \in Proc : pc'[q] = "close" <=> pc[q] = "close" /\ q # p
        /\ \A q \in Proc : pc'[q] \in Inside => pc[q] \in Inside
        /\ \A q \in Proc : q # p => end'[q] = end[q]
        /\ UNCHANGED open
    BY DEF PipeClose, Wake, Return, Locals, Inside
  <2>2. \A q \in Proc : <<q, end[p]>> \notin open /\ (pc'[q] = "close" => end'[q] # end[p])
    BY <2>1 DEF PipeInv, PipeClose, EndsCounted
  <2>3. /\ end[p] = "r" => readopen' = 0 /\ writeopen' = writeopen /\ ~Referenced("r")'
        /\ end[p] = "w" => writeopen' = 0 /\ readopen' = readopen /\ ~Referenced("w")'
    BY <2>1, <2>2, Zenon DEF PipeClose, Referenced
  <2>4. /\ end[p] = "r" => (Referenced("w")' <=> Referenced("w"))
        /\ end[p] = "w" => (Referenced("r")' <=> Referenced("r"))
    BY <2>1, Zenon DEF Referenced
  <2>8. (readopen' = 1 <=> Referenced("r")') /\ (writeopen' = 1 <=> Referenced("w")')
    BY <2>3, <2>4 DEF PipeInv, TypeOK, End, EndsCounted
  <2>5. \A q \in Proc : pc'[q] \in Inside => <<q, end'[q]>> \in open'
    BY <2>1, Zenon DEF PipeInv, PipeClose, EndsCounted
  <2>6. \A q, r \in Proc : pc'[q] = "close" =>
            <<r, end'[q]>> \notin open' /\ (pc'[r] = "close" /\ end'[r] = end'[q] => r = q)
    BY <2>1 DEF PipeInv, EndsCounted
  <2>7. freed' => readopen' = 0 /\ writeopen' = 0
    BY Zenon DEF PipeClose
  <2> QED BY <2>5, <2>6, <2>7, <2>8 DEF EndsCounted
<1>4. CallsCounted'
  BY PipeAssumption DEF PipeInv, TypeOK, CallsCounted, Inside, Empty, PipeClose, Wake, Return, Locals
<1>5. SleepersWait'
  <2>1. pc'[p] = "user" /\ \A q \in Proc : pc[q] \notin {"locked", "copy", "tosleep"}
    BY PipeAssumption DEF PipeInv, MutualExclusion, PipeClose, Wake
  <2>2. \A q \in Proc : pc'[q] = "asleep" => pc[q] = "asleep" /\ end[q] = end[p] /\ end'[q] = end[q]
    BY <2>1 DEF PipeInv, TypeOK, PipeClose, Wake, Return, Locals, End
  <2>3. \A q \in Proc : pc[q] = "asleep" => end[q] # end[p]
    BY Zenon DEF PipeInv, EndsCounted, Inside, PipeClose
  <2>4. \A q \in Proc : pc'[q] # "tosleep"
    BY <2>1 DEF PipeClose, Wake
  <2> QED BY <2>2, <2>3, <2>4 DEF SleepersWait
<1> QED BY <1>1, <1>2, <1>3, <1>4, <1>5, FreeIsLastPrimed DEF PipeInv

\* kill() keeps the invariant, without the lock.
LEMMA KillInv ==
  ASSUME PipeInv, NEW p \in Proc, Kill(p)
  PROVE  PipeInv'
<1>1. TypeOK'
  BY DEF PipeInv, TypeOK, PCs, Kill, pipe
<1>2. MutualExclusion'
  BY DEF PipeInv, MutualExclusion, Kill
<1>3. EndsCounted'
  <2>1. \A q \in Proc : /\ pc'[q] = "close" <=> pc[q] = "close"
                        /\ pc[q] = "close" => end'[q] = end[q]
                        /\ pc'[q] \in Inside => <<q, end'[q]>> \in open
    BY DEF PipeInv, EndsCounted, Inside, Kill
  <2> QED BY <2>1, EndsKept DEF PipeInv, Kill, pipe
<1>4. CallsCounted'
  BY DEF PipeInv, CallsCounted, Inside, Empty, Kill, pipe
<1>5. SleepersWait'
  BY DEF PipeInv, SleepersWait, Empty, Full, Kill, pipe
<1> QED BY <1>1, <1>2, <1>3, <1>4, <1>5, FreeIsLastPrimed DEF PipeInv

\* A new pipe satisfies the invariant.
LEMMA InitInv == Init => PipeInv
<1> SUFFICES ASSUME Init
             PROVE  PipeInv
  OBVIOUS
<1>1. TypeOK
  <2>1. 0 \in 0 .. (UINT - 1) /\ 0 \in 0 .. MaxBytes
    BY PipeAssumption
  <2> QED BY <2>1, Zenon DEF Init, TypeOK, End, PCs
<1>2. MutualExclusion
  BY PipeAssumption DEF Init, MutualExclusion
<1>3. Referenced("r") /\ Referenced("w")
  BY PipeAssumption DEF Init, Referenced, End
<1>4. EndsCounted
  BY <1>3 DEF Init, EndsCounted, Inside
<1>5. CallsCounted /\ SleepersWait
  BY PipeAssumption DEF Init, CallsCounted, SleepersWait, Inside
<1> QED BY <1>1, <1>2, <1>4, <1>5, FreeIsLast DEF PipeInv

\* Every step of every process keeps the invariant.
LEMMA NextInv == PipeInv /\ [Next]_vars => PipeInv'
<1> SUFFICES ASSUME PipeInv, [Next]_vars
             PROVE  PipeInv'
  OBVIOUS
<1>1. CASE UNCHANGED vars
  <2>1. TypeOK' /\ MutualExclusion' /\ NoUseAfterFree'
    BY <1>1 DEF vars, pipe, PipeInv, TypeOK, MutualExclusion, NoUseAfterFree
  <2>2. EndsCounted'
    BY <1>1 DEF vars, pipe, PipeInv, EndsCounted, Referenced
  <2>3. CallsCounted' /\ SleepersWait'
    BY <1>1 DEF vars, pipe, PipeInv, CallsCounted, SleepersWait, Empty, Full
  <2> QED BY <2>1, <2>2, <2>3 DEF PipeInv
<1>2. CASE Next
  <2>1. PICK p \in Proc : \/ \E e \in End, n \in 1 .. MaxBytes : Call(p, e, n)
                          \/ \E e \in End : Close(p, e)
                          \/ Step(p) \/ Kill(p)
    BY <1>2 DEF Next
  <2>2. CASE \E e \in End, n \in 1 .. MaxBytes : Call(p, e, n)
    BY <2>2, CallInv
  <2>3. CASE \E e \in End : Close(p, e)
    BY <2>3, CloseInv
  <2>4. CASE Step(p)
    BY <2>4, AcquireInv, SleepInv, WriteFullInv, WriteByteInv, WriteDoneInv,
       ReadEmptyInv, ReadStartInv, ReadByteInv, ReadDoneInv, PipeCloseInv DEF Step
  <2>5. CASE Kill(p)
    BY <2>5, KillInv
  <2> QED BY <2>1, <2>2, <2>3, <2>4, <2>5
<1> QED BY <1>1, <1>2

\* Whatever readers, writers, closes and kills do, and in whatever order, the page
\* of a pipe is used by one process at a time and never after it has been freed.
THEOREM PipeInvariant == Spec => []PipeInv
BY InitInv, NextInv, PTL DEF Spec

\* What the invariant says of sleepers while the lock is held becomes, when it is
\* free, that nobody sleeps through what it waits for (pipe.c:90, pipe.c:106).
THEOREM WakeupsNotLost == Spec => []NoLostWakeup
<1>1. PipeInv => NoLostWakeup
  BY PipeAssumption DEF PipeInv, TypeOK, End, MutualExclusion, SleepersWait, NoLostWakeup
<1> QED BY <1>1, PipeInvariant, PTL

\* piperead() returns 0 only when nobody can write any more and nothing is left.
THEOREM EndOfFile == Spec => EndOfFileIsFinal
<1> DEFINE Final(p) == pc[p] = "copy" /\ pc'[p] = "user" /\ got[p] = 0
                         => Stored = <<>> /\ open \cap (Proc \X {"w"}) = {}
<1>1. PipeInv /\ [Next]_vars => [\A p \in Proc : Final(p)]_vars
  <2> SUFFICES ASSUME PipeInv, Next, NEW p \in Proc, pc[p] = "copy", pc'[p] = "user", got[p] = 0
               PROVE  Stored = <<>> /\ open \cap (Proc \X {"w"}) = {}
    OBVIOUS
  <2>1. ReadDone(p)
    <3>1. PICK q \in Proc : \/ \E e \in End, n \in 1 .. MaxBytes : Call(q, e, n)
                            \/ \E e \in End : Close(q, e)
                            \/ Step(q) \/ Kill(q)
      BY DEF Next
    <3>2. ~\E e \in End, n \in 1 .. MaxBytes : Call(q, e, n)
      BY Zenon DEF PipeInv, TypeOK, Call, Goto
    <3>3. ~\E e \in End : Close(q, e)
      BY Zenon DEF PipeInv, TypeOK, Close, Goto
    <3>4. ~Kill(q)
      BY Zenon DEF PipeInv, TypeOK, Kill
    <3>5. ~Acquire(q) /\ ~Sleep(q) /\ ~WriteFull(q) /\ ~(\E b \in Byte : WriteByte(q, b)) /\ ~WriteDone(q)
      BY DEF PipeInv, TypeOK, Acquire, Sleep, WriteFull, WriteByte, WriteDone, Goto, Wake, Fail
    <3>6. ~ReadEmpty(q) /\ ~ReadStart(q) /\ ~ReadByte(q) /\ ~PipeClose(q)
      BY Zenon DEF PipeInv, TypeOK, ReadEmpty, ReadStart, ReadByte, PipeClose, Goto, Wake, Fail
    <3>7. ReadDone(q) => q = p
      BY DEF ReadDone, Wake
    <3> QED BY <3>1, <3>2, <3>3, <3>4, <3>5, <3>6, <3>7 DEF Step
  <2>2. Empty
    BY <2>1, SMTT(60) DEF PipeInv, TypeOK, CallsCounted, Inside, ReadDone
  <2>3. writeopen = 0
    BY <2>2 DEF PipeInv, CallsCounted
  <2>4. open \cap (Proc \X {"w"}) = {}
    BY <2>3 DEF PipeInv, EndsCounted, Referenced
  <2>5. Stored = <<>>
    BY <2>2, PipeAssumption DEF PipeInv, TypeOK, Empty, Stored, Stock
  <2> QED BY <2>4, <2>5
<1> QED BY <1>1, PipeInvariant, PTL DEF Spec, EndOfFileIsFinal
-----------------------------------------------------------------------------
(* The ring implements a first-in first-out queue of PIPESIZE bytes.         *)

\* No more than PIPESIZE bytes have been written and not yet read.
NoOverrun == Stock <= PIPESIZE

\* Remainders of numbers below twice the modulus, as counters and sums of a
\* counter and an offset into the ring are.
LEMMA ModOnce ==
  ASSUME NEW n \in Nat \ {0}, NEW a \in Nat, a < 2 * n
  PROVE  a % n = IF a < n THEN a ELSE a - n
<1>1. CASE a < n
  BY <1>1
<1>2. CASE a >= n
  BY <1>2
<1> QED BY <1>1, <1>2

\* The quotient and the remainder.
LEMMA DivMod ==
  ASSUME NEW n \in Nat \ {0}, NEW a \in Nat
  PROVE  a \div n \in Nat /\ a = n * (a \div n) + (a % n)
OBVIOUS

\* A multiple of n below n is zero.
LEMMA Multiple ==
  ASSUME NEW n \in Nat \ {0}, NEW m \in Int, NEW d \in Nat, d = n * m, d < n
  PROVE  d = 0
OBVIOUS

\* Two counters that are 0 < d < PIPESIZE apart, modulo UINT, have different
\* places in the ring, since PIPESIZE divides UINT.
LEMMA PlacesDiffer ==
  ASSUME NEW x \in 0 .. (UINT - 1), NEW d \in 1 .. (PIPESIZE - 1)
  PROVE  x % PIPESIZE # ((x + d) % UINT) % PIPESIZE
<1> DEFINE y == (x + d) % UINT
           i == x \div PIPESIZE
           j == y \div PIPESIZE
           k == UINT \div PIPESIZE
<1> SUFFICES ASSUME x % PIPESIZE = y % PIPESIZE
             PROVE  FALSE
  OBVIOUS
<1>1. /\ PIPESIZE \in Nat \ {0} /\ UINT \in Nat \ {0} /\ UINT > PIPESIZE
      /\ x \in Nat /\ x < UINT /\ d \in Nat /\ d < PIPESIZE /\ d # 0
  BY PipeAssumption
<1>2. y \in Nat /\ (y = x + d \/ y = x + d - UINT)
  <2>1. x + d \in Nat /\ x + d < 2 * UINT
    BY <1>1
  <2>2. y = IF x + d < UINT THEN x + d ELSE (x + d) - UINT
    BY ONLY <1>1, <2>1, ModOnce, Zenon
  <2> QED BY <1>1, <2>2
<1> HIDE DEF y
<1>3. i \in Nat /\ x = PIPESIZE * i + (x % PIPESIZE)
  BY <1>1, DivMod
<1>4. j \in Nat /\ y = PIPESIZE * j + (y % PIPESIZE)
  BY <1>1, <1>2, DivMod
<1>5. k \in Nat /\ UINT = PIPESIZE * k
  BY <1>1, DivMod, PipeAssumption
<1>6. x % PIPESIZE \in Nat
  BY <1>1
<1> HIDE DEF i, j, k
<1>7. CASE y = x + d
  <2>1. d = PIPESIZE * (j - i)
    BY <1>1, <1>3, <1>4, <1>6, <1>7
  <2> QED BY <1>1, <1>3, <1>4, <2>1, Multiple
<1>8. CASE y = x + d - UINT
  <2>1. d = PIPESIZE * (j - i + k)
    BY <1>1, <1>3, <1>4, <1>5, <1>6, <1>8
  <2> QED BY <1>1, <1>3, <1>4, <1>5, <2>1, Multiple
<1> QED BY <1>2, <1>7, <1>8

\* The number of bytes in the ring, by cases.
StockCases ==
    /\ nread \in Nat /\ nwrite \in Nat /\ nread < UINT /\ nwrite < UINT
    /\ Stock \in Nat /\ Stock < UINT
    /\ Stock = IF nwrite >= nread THEN nwrite - nread ELSE UINT + nwrite - nread

\* The contents of the ring are a sequence of bytes.
StoredBytes == Stored \in Seq(Byte) /\ Len(Stored) = Stock

\* The counters are in range, so that their difference is as above.
LEMMA StockIs ==
  TypeOK => StockCases
<1> HAVE TypeOK
<1>1. nread \in Nat /\ nwrite \in Nat /\ nread < UINT /\ nwrite < UINT /\ UINT \in Nat \ {0}
  BY PipeAssumption DEF TypeOK
<1>2. UINT + nwrite - nread \in Nat /\ UINT + nwrite - nread < 2 * UINT
  BY <1>1
<1>3. Stock = IF UINT + nwrite - nread < UINT THEN UINT + nwrite - nread
              ELSE (UINT + nwrite - nread) - UINT
  BY ONLY <1>1, <1>2, ModOnce, Zenon DEF Stock
<1> QED BY <1>1, <1>3 DEF StockCases

\* And so are the bytes between them.
LEMMA StoredIs ==
  TypeOK => StoredBytes
<1> HAVE TypeOK
<1>1. Stock \in Nat
  BY StockIs DEF StockCases
<1>2. \A i \in 1 .. Stock : data[((nread + i - 1) % UINT) % PIPESIZE] \in Byte
  <2> TAKE i \in 1 .. Stock
  <2>1. nread + i - 1 \in Nat
    BY StockIs, <1>1 DEF StockCases
  <2>2. (nread + i - 1) % UINT \in Nat
    BY <2>1, PipeAssumption
  <2>3. ((nread + i - 1) % UINT) % PIPESIZE \in 0 .. (PIPESIZE - 1)
    BY <2>2, Modulo, PipeAssumption, Zenon
  <2> QED BY <2>3 DEF TypeOK
<1> QED BY <1>1, <1>2 DEF Stored, StoredBytes

\* The same after a step.
LEMMA RingPrimed ==
  TypeOK' => StockCases' /\ StoredBytes'
BY StockIs, StoredIs, PTL

\* The step from a counter to the next one, or to one in the ring.
LEMMA CounterIs ==
  ASSUME NEW c \in Nat, c < UINT + UINT
  PROVE  c % UINT = IF c < UINT THEN c ELSE c - UINT
<1>1. CASE c < UINT
  BY <1>1, PipeAssumption
<1>2. CASE c >= UINT
  BY <1>2, PipeAssumption
<1> QED BY <1>1, <1>2, PipeAssumption

\* p->data[p->nwrite++ % PIPESIZE] = addr[i] puts the byte behind those stored:
\* there is room for it, and it takes the place of none of them.
LEMMA WriteByteQueues ==
  ASSUME PipeInv, NoOverrun, PipeInv', NEW p \in Proc, NEW b \in Byte, WriteByte(p, b)
  PROVE  NoOverrun' /\ BQ!Put(b)
<1>1. /\ TypeOK /\ TypeOK'
      /\ PIPESIZE \in Nat \ {0} /\ UINT \in Nat \ {0} /\ UINT > PIPESIZE
  BY PipeAssumption DEF PipeInv
<1>2. Stock < PIPESIZE
  <2>1. nwrite # (nread + PIPESIZE) % UINT
    BY DEF WriteByte, Full
  <2>2. nread + PIPESIZE \in Nat /\ nread + PIPESIZE < UINT + UINT
    BY <1>1, StockIs DEF StockCases
  <2>3. (nread + PIPESIZE) % UINT = IF nread + PIPESIZE < UINT THEN nread + PIPESIZE ELSE nread + PIPESIZE - UINT
    BY <1>1, <2>2, CounterIs, StockIs DEF StockCases
  <2> QED BY <1>1, <2>1, <2>3, StockIs DEF NoOverrun, StockCases
<1>3. nread' = nread /\ nwrite' = IF nwrite + 1 < UINT THEN nwrite + 1 ELSE 0
  <2>1. nread' = nread /\ nwrite' = (nwrite + 1) % UINT
    BY DEF WriteByte
  <2>2. nwrite + 1 \in Nat /\ nwrite + 1 < UINT + UINT
    BY <1>1, StockIs DEF StockCases
  <2>3. (nwrite + 1) % UINT = IF nwrite + 1 < UINT THEN nwrite + 1 ELSE nwrite + 1 - UINT
    BY <1>1, <2>2, CounterIs, StockIs DEF StockCases
  <2> QED BY <1>1, <2>1, <2>3, StockIs DEF StockCases
<1>4. Stock' = Stock + 1
  <2>1. Stock' = IF nwrite' >= nread' THEN nwrite' - nread' ELSE UINT + nwrite' - nread'
    BY <1>1, RingPrimed DEF StockCases
  <2> QED BY <1>1, <1>2, <1>3, <2>1, StockIs DEF StockCases
<1>5. NoOverrun'
  BY <1>1, <1>2, <1>4, StockIs DEF NoOverrun, StockCases
<1>6. writeopen = 1
  <2>1. <<p, "w">> \in open
    BY DEF WriteByte, PipeInv, EndsCounted, Inside
  <2> QED BY <2>1 DEF PipeInv, EndsCounted, Referenced
<1>7. data' = [data EXCEPT ![nwrite % PIPESIZE] = b] /\ UNCHANGED <<readopen, writeopen>>
  BY DEF WriteByte
<1>8. (nread + Stock) % UINT = nwrite
  <2>1. nread + Stock \in Nat /\ nread + Stock < UINT + UINT
    BY <1>1, StockIs DEF StockCases
  <2>2. (nread + Stock) % UINT = IF nread + Stock < UINT THEN nread + Stock ELSE nread + Stock - UINT
    BY <1>1, <2>1, CounterIs, StockIs DEF StockCases
  <2> QED BY <1>1, <2>2, StockIs DEF StockCases
<1>9. data'[nwrite % PIPESIZE] = b
  <2>1. nwrite % PIPESIZE \in 0 .. (PIPESIZE - 1)
    BY <1>1, StockIs, Modulo, Zenon DEF StockCases
  <2> QED BY <1>1, <1>7, <2>1 DEF TypeOK
<1>10. ASSUME NEW i \in 1 .. Stock
       PROVE  data'[((nread + i - 1) % UINT) % PIPESIZE] = data[((nread + i - 1) % UINT) % PIPESIZE]
  <2> DEFINE x == (nread + i - 1) % UINT
             d == Stock - (i - 1)
  <2>1. i \in Nat /\ 1 <= i /\ i <= Stock /\ Stock \in Nat
    BY StockIs, <1>1 DEF StockCases
  <2>2. x = IF nread + i - 1 < UINT THEN nread + i - 1 ELSE nread + i - 1 - UINT
    <3>1. nread + i - 1 \in Nat /\ nread + i - 1 < UINT + UINT
      BY <1>1, <1>2, <2>1, StockIs DEF StockCases
    <3> QED BY <1>1, <3>1, CounterIs, StockIs DEF StockCases
  <2> HIDE DEF x
  <2>3. x \in 0 .. (UINT - 1) /\ d \in 1 .. (PIPESIZE - 1)
    BY <1>1, <1>2, <2>1, <2>2, StockIs DEF StockCases
  <2>4. (x + d) % UINT = nwrite
    <3>1. x + d = nread + Stock \/ x + d = nread + Stock - UINT
      BY <1>1, <2>1, <2>2, StockIs DEF StockCases
    <3>2. x + d = nwrite \/ x + d = nwrite + UINT \/ x + d = nwrite - UINT
      BY <1>1, <3>1, StockIs DEF StockCases
    <3>3. x + d \in Nat /\ x \in Nat /\ d \in Nat /\ nwrite \in Nat /\ nwrite < UINT
      BY <1>1, <2>3, StockIs DEF StockCases
    <3> HIDE DEF d
    <3>4. x + d = nwrite \/ x + d = nwrite + UINT
      BY <1>1, <3>2, <3>3
    <3>5. x + d < UINT + UINT
      BY <1>1, <3>3, <3>4
    <3>6. (x + d) % UINT = IF x + d < UINT THEN x + d ELSE x + d - UINT
      BY <1>1, <3>3, <3>5, CounterIs
    <3> QED BY <1>1, <3>3, <3>4, <3>6
  <2>5. x % PIPESIZE # nwrite % PIPESIZE
    BY <2>3, <2>4, PlacesDiffer
  <2>6. x % PIPESIZE \in 0 .. (PIPESIZE - 1)
    BY <1>1, <2>3, Modulo
  <2>7. data'[x % PIPESIZE] = data[x % PIPESIZE]
    BY <1>1, <1>7, <2>5, <2>6 DEF TypeOK
  <2> QED BY <2>7 DEF x
<1>11. Stored' = Append(Stored, b)
  <2>1. Stored' = [i \in 1 .. Stock + 1 |-> data'[((nread + i - 1) % UINT) % PIPESIZE]]
    BY <1>3, <1>4 DEF Stored
  <2>2. Stored \in Seq(Byte) /\ Len(Stored) = Stock /\ Stock \in Nat
    BY <1>1, StoredIs, StockIs DEF StockCases, StoredBytes
  <2>3. ASSUME NEW i \in 1 .. Stock
        PROVE  Stored'[i] = Stored[i]
    <3>1. i \in 1 .. Stock + 1
      BY <2>2
    <3>2. Stored'[i] = data'[((nread + i - 1) % UINT) % PIPESIZE]
      BY <2>1, <3>1
    <3> QED BY <1>10, <3>2 DEF Stored
  <2>4. Stored'[Stock + 1] = b
    <3>1. nread + (Stock + 1) - 1 = nread + Stock
      BY <1>1, <2>2, StockIs DEF StockCases
    <3> QED BY <1>8, <1>9, <2>1, <2>2, <3>1
  <2>5. Stored' \in Seq(Byte) /\ Len(Stored') = Stock + 1
    BY <1>1, <1>4, RingPrimed DEF StockCases, StoredBytes
  <2> HIDE DEF Stored, Stock
  <2> QED BY <2>2, <2>3, <2>4, <2>5
<1>12. Len(Stored) < PIPESIZE
  BY <1>1, <1>2, StoredIs DEF StoredBytes
<1> QED BY <1>5, <1>6, <1>7, <1>11, <1>12 DEF BQ!Put

\* addr[i] = p->data[p->nread++ % PIPESIZE] takes the oldest byte and leaves the
\* others in their order.
LEMMA ReadByteQueues ==
  ASSUME PipeInv, NoOverrun, PipeInv', NEW p \in Proc, ReadByte(p)
  PROVE  NoOverrun' /\ BQ!Take
<1>1. /\ TypeOK /\ TypeOK'
      /\ PIPESIZE \in Nat \ {0} /\ UINT \in Nat \ {0} /\ UINT > PIPESIZE
  BY PipeAssumption DEF PipeInv
<1>2. Stock > 0
  BY <1>1, StockIs DEF StockCases, ReadByte, Empty
<1>3. nwrite' = nwrite /\ nread' = IF nread + 1 < UINT THEN nread + 1 ELSE 0
  <2>1. nwrite' = nwrite /\ nread' = (nread + 1) % UINT
    BY DEF ReadByte
  <2>2. nread + 1 \in Nat /\ nread + 1 < UINT + UINT
    BY <1>1, StockIs DEF StockCases
  <2>3. (nread + 1) % UINT = IF nread + 1 < UINT THEN nread + 1 ELSE nread + 1 - UINT
    BY <1>1, <2>2, CounterIs, StockIs DEF StockCases
  <2> QED BY <1>1, <2>1, <2>3, StockIs DEF StockCases
<1>4. Stock' = Stock - 1
  <2>1. Stock' = IF nwrite' >= nread' THEN nwrite' - nread' ELSE UINT + nwrite' - nread'
    BY <1>1, RingPrimed DEF StockCases
  <2> QED BY <1>1, <1>2, <1>3, <2>1, StockIs DEF StockCases
<1>5. NoOverrun'
  BY <1>1, <1>4, StockIs DEF NoOverrun, StockCases
<1>6. readopen = 1
  <2>1. end[p] = "r"
    BY DEF ReadByte, PipeInv, CallsCounted
  <2>2. <<p, "r">> \in open
    BY <2>1 DEF ReadByte, PipeInv, EndsCounted, Inside
  <2> QED BY <2>2 DEF PipeInv, EndsCounted, Referenced
<1>7. UNCHANGED <<data, readopen, writeopen>>
  BY DEF ReadByte
<1>8. ASSUME NEW i \in 1 .. Stock - 1
      PROVE  (nread' + i - 1) % UINT = (nread + (i + 1) - 1) % UINT
  <2>1. i \in Nat /\ 1 <= i /\ i <= Stock - 1 /\ Stock \in Nat /\ Stock < UINT
    BY <1>1, StockIs DEF StockCases
  <2>2. nread \in Nat /\ nread < UINT
    BY <1>1, StockIs DEF StockCases
  <2>3. PICK c \in Nat : c = nread' /\ c < UINT
    BY <1>1, RingPrimed DEF StockCases
  <2>4. c + i - 1 \in Nat /\ c + i - 1 < UINT + UINT
    <3>1. c \in Nat /\ c < UINT /\ UINT \in Nat
      BY <1>1, <2>3
    <3>2. i \in Nat /\ 1 <= i /\ i < UINT
      BY <1>1, <2>1
    <3> QED BY ONLY <3>1, <3>2
  <2>5. nread + (i + 1) - 1 \in Nat /\ nread + (i + 1) - 1 < UINT + UINT
    BY <1>1, <2>1, <2>2
  <2>6. (c + i - 1) % UINT = IF c + i - 1 < UINT THEN c + i - 1 ELSE c + i - 1 - UINT
    BY <1>1, <2>1, <2>4, CounterIs
  <2>7. (nread + (i + 1) - 1) % UINT
          = IF nread + (i + 1) - 1 < UINT THEN nread + (i + 1) - 1 ELSE nread + (i + 1) - 1 - UINT
    BY <1>1, <2>1, <2>2, <2>5, CounterIs
  <2>8. (c + i - 1) % UINT = (nread + (i + 1) - 1) % UINT
    BY <1>1, <1>3, <2>1, <2>2, <2>3, <2>6, <2>7
  <2> QED BY <2>3, <2>8
<1>9. Stored' = Tail(Stored)
  <2>1. Stored \in Seq(Byte) /\ Len(Stored) = Stock /\ Stock \in Nat
    BY <1>1, StoredIs, StockIs DEF StoredBytes, StockCases
  <2>2. Stored' \in Seq(Byte) /\ Len(Stored') = Stock - 1
    BY <1>1, <1>4, RingPrimed DEF StoredBytes
  <2>3. ASSUME NEW i \in 1 .. Stock - 1
        PROVE  Stored'[i] = Stored[i + 1]
    <3>1. Stored'[i] = data[((nread' + i - 1) % UINT) % PIPESIZE]
      BY <1>4, <1>7 DEF Stored
    <3>2. i + 1 \in 1 .. Stock
      BY <2>1
    <3>3. Stored[i + 1] = data[((nread + (i + 1) - 1) % UINT) % PIPESIZE]
      BY <3>2 DEF Stored
    <3> QED BY <1>8, <3>1, <3>3
  <2> QED BY <1>2, <2>1, <2>2, <2>3
<1>10. Stored # <<>>
  BY <1>1, <1>2, StoredIs DEF StoredBytes
<1> QED BY <1>5, <1>6, <1>7, <1>9, <1>10 DEF BQ!Take

\* pipeclose() closes one end and keeps what is stored.
LEMMA PipeCloseCloses ==
  ASSUME PipeInv, NEW p \in Proc, PipeClose(p)
  PROVE  UNCHANGED <<data, nread, nwrite>> /\ (BQ!CloseRead \/ BQ!CloseWrite)
<1>1. UNCHANGED <<data, nread, nwrite>>
  BY DEF PipeClose
<1>2. Stored' = Stored
  BY <1>1 DEF Stored, Stock
<1>3. CASE end[p] = "w"
  <2>1. writeopen = 1
    BY <1>3 DEF PipeClose, PipeInv, EndsCounted, Referenced
  <2> QED BY <1>1, <1>2, <1>3, <2>1 DEF PipeClose, BQ!CloseWrite
<1>4. CASE end[p] # "w"
  <2>1. end[p] = "r"
    BY <1>4 DEF PipeInv, TypeOK, End
  <2>2. readopen = 1
    BY <2>1 DEF PipeClose, PipeInv, EndsCounted, Referenced
  <2> QED BY <1>1, <1>2, <1>4, <2>2 DEF PipeClose, BQ!CloseRead
<1> QED BY <1>3, <1>4

\* Every step is one of the queue, or none.
LEMMA StepQueues ==
  ASSUME PipeInv, NoOverrun, PipeInv', [Next]_vars
  PROVE  NoOverrun' /\ [BQ!Next]_(BQ!vars)
<1>1. ASSUME UNCHANGED pipe
      PROVE  NoOverrun' /\ UNCHANGED BQ!vars
  BY <1>1 DEF pipe, NoOverrun, Stock, Stored, BQ!vars
<1>2. CASE UNCHANGED vars
  BY <1>1, <1>2 DEF vars
<1>3. ASSUME NEW p \in Proc, NEW b \in Byte, WriteByte(p, b)
      PROVE  NoOverrun' /\ BQ!Next
  BY <1>3, WriteByteQueues DEF BQ!Next
<1>4. ASSUME NEW p \in Proc, ReadByte(p)
      PROVE  NoOverrun' /\ BQ!Next
  BY <1>4, ReadByteQueues DEF BQ!Next
<1>5. ASSUME NEW p \in Proc, PipeClose(p)
      PROVE  NoOverrun' /\ BQ!Next
  BY <1>5, PipeCloseCloses DEF BQ!Next, NoOverrun, Stock
<1>6. ASSUME NEW p \in Proc, Kill(p) \/ (\E e \in End : Close(p, e))
                             \/ \E e \in End, n \in 1 .. MaxBytes : Call(p, e, n)
      PROVE  UNCHANGED pipe
  BY <1>6, Zenon DEF Kill, Close, Call
<1>7. ASSUME NEW p \in Proc, Acquire(p) \/ Sleep(p) \/ WriteFull(p) \/ WriteDone(p)
                             \/ ReadEmpty(p) \/ ReadStart(p) \/ ReadDone(p)
      PROVE  UNCHANGED pipe
  BY <1>7 DEF Acquire, Sleep, WriteFull, WriteDone, ReadEmpty, ReadStart, ReadDone
<1>8. CASE Next
  BY <1>1, <1>3, <1>4, <1>5, <1>6, <1>7, <1>8 DEF Next, Step
<1> QED BY <1>2, <1>8

\* The ring implements a first-in first-out queue of at most PIPESIZE bytes,
\* however often the counters wrap (pipe.c:92, pipe.c:115).
THEOREM RingIsQueue == Spec => IsByteQueue
<1>1. Init => NoOverrun /\ BQ!Init
  <2> SUFFICES ASSUME Init
               PROVE  NoOverrun /\ BQ!Init
    OBVIOUS
  <2>1. TypeOK
    BY InitInv DEF PipeInv
  <2>2. Stock = 0
    BY <2>1, StockIs DEF StockCases, Init
  <2>3. Stored = <<>>
    BY <2>1, <2>2, StoredIs DEF StoredBytes
  <2> QED BY <2>2, <2>3, PipeAssumption DEF Init, NoOverrun, BQ!Init
<1>2. PipeInv /\ NoOverrun /\ PipeInv' /\ [Next]_vars => NoOverrun' /\ [BQ!Next]_(BQ!vars)
  BY StepQueues
<1> QED BY <1>1, <1>2, PipeInvariant, PTL DEF Spec, IsByteQueue, BQ!Spec

=============================================================================
