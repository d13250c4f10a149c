----------------------------- MODULE ProcProofs -----------------------------
(* Proofs about the process table, for any number of slots and CPUs: ProcInv   *)
(* is inductive.  The lemma of an action first states what the action finds    *)
(* and what it changes, slot by slot, and then takes each conjunct that reads  *)
(* what it changed.                                                            *)
EXTENDS Proc, TLAPS

\* What variables name are slots.
Names ==
    /\ initproc \in Slots /\ 0 \notin Slots /\ Scheduler \notin Slots
    /\ Slots \cup {0} \subseteq 0 .. NPROC /\ NoCPU \notin CPU
    /\ \A x \in Slots : np[x] # 0 => np[x] \in Slots
    /\ \A x \in Slots : parent[x] # 0 => parent[x] \in Slots
    /\ \A d \in CPU : on[d] # Scheduler => on[d] \in Slots

\* CPU c, and no other, executes the RUNNING process s on its stack.
Alone(c, s) ==
    /\ on[c] = s /\ state[s] = "RUNNING" /\ stack[s] = 1
    /\ \A d \in CPU : on[d] = s => d = c
    /\ pc[s] \notin {"alloc", "copy", "ready"} => np[s] = 0

\* fork() in s fills a slot that nobody else touches.
Fills(s) ==
    /\ np[s] \in Slots \ {s, initproc}
    /\ state[np[s]] = "EMBRYO" /\ pc[np[s]] = "forkret" /\ np[np[s]] = 0
    /\ \A x \in Slots : parent[x] # np[s]
    /\ \A x \in Slots : np[x] = np[s] => x = s
    /\ \A d \in CPU : on[d] # np[s]

\* The slots that variables name.
LEMMA Named ==
  ASSUME TypeOK
  PROVE  Names
<1>1. /\ initproc \in Slots /\ 0 \notin Slots /\ Scheduler \notin Slots
      /\ Slots \cup {0} \subseteq 0 .. NPROC /\ NoCPU \notin CPU
  BY ProcAssumption DEF Slots, initproc
<1>2. /\ \A x \in Slots : np[x] # 0 => np[x] \in Slots
      /\ \A x \in Slots : parent[x] # 0 => parent[x] \in Slots
  <2>1. \A n \in 0 .. NPROC : n # 0 => n \in Slots
    BY ProcAssumption DEF Slots
  <2> QED BY <2>1, Zenon DEF TypeOK
<1>3. \A d \in CPU : on[d] # Scheduler => on[d] \in Slots
  BY Zenon DEF TypeOK
<1> QED BY <1>1, <1>2, <1>3, Zenon DEF Names

\* A slot that is free, being filled or a zombie is nobody's parent.
LEMMA NobodysParent ==
  ASSUME ProcInv, NEW t \in Slots, state[t] \in {"UNUSED", "EMBRYO", "ZOMBIE"}
  PROVE  \A x \in Slots : parent[x] # t
<1> SUFFICES ASSUME NEW x \in Slots PROVE parent[x] # t
  BY Zenon
<1>1. CASE state[x] = "UNUSED"
  BY <1>1 DEF ProcInv, UnusedIsClean, Slots
<1>2. CASE state[x] = "EMBRYO"
  <2>1. PICK y \in Slots : np[y] = x
    BY <1>2, Zenon DEF ProcInv, EmbryoIsPrivate
  <2>2. pc[y] \in {"alloc", "copy", "ready"} /\ x # 0
    BY <2>1 DEF ProcInv, PlaceOfState, Slots
  <2>3. state[y] \in {"RUNNABLE", "RUNNING"}
    BY <2>2, Zenon DEF ProcInv, PlaceOfState, TypeOK, States
  <2>4. parent[x] \in {0, y}
    BY <2>1, <2>2, Zenon DEF ProcInv, SlotOwns
  <2> QED BY <2>3, <2>4 DEF Slots
<1>3. CASE state[x] \notin {"UNUSED", "EMBRYO"}
  <2>1. CASE x = initproc
    BY <2>1 DEF ProcInv, InitLives, Slots
  <2>2. CASE x # initproc
    BY <1>3, <2>2, Zenon DEF ProcInv, ParentIsAlive
  <2> QED BY <2>1, <2>2, Zenon
<1> QED BY <1>1, <1>2, <1>3, Zenon

\* What fork() has in its hands is a slot that nobody else touches.
LEMMA ForkSlot ==
  ASSUME ProcInv, NEW s \in Slots, pc[s] \in {"alloc", "copy", "ready"}
  PROVE  Fills(s)
<1>1. np[s] # 0 /\ state[s] \in {"RUNNABLE", "RUNNING"}
  BY Zenon DEF ProcInv, PlaceOfState, TypeOK, States
<1>2. np[s] \in Slots /\ state[np[s]] = "EMBRYO"
  BY <1>1 DEF ProcInv, EmbryoIsPrivate, TypeOK, Slots
<1>3. pc[np[s]] = "forkret" /\ np[np[s]] = 0
  BY <1>2, Zenon DEF ProcInv, PlaceOfState
<1>4. np[s] # initproc
  BY <1>2, Zenon DEF ProcInv, InitLives
<1>5. \A x \in Slots : np[x] = np[s] => x = s
  BY <1>1, Zenon DEF ProcInv, EmbryoIsPrivate
<1>6. \A c \in CPU : on[c] # np[s]
  BY <1>2, ProcAssumption DEF ProcInv, LockAcrossSched, Slots
<1>7. \A x \in Slots : parent[x] # np[s]
  BY <1>2, NobodysParent, Zenon
<1>8. np[s] # s
  BY <1>1, <1>2, Zenon
<1> QED BY <1>2, <1>3, <1>4, <1>5, <1>6, <1>7, <1>8, Zenon DEF Fills

\* A step that changes nothing keeps the invariant.
LEMMA Stutter ==
  ASSUME ProcInv, UNCHANGED vars
  PROVE  ProcInv'
  BY DEF ProcInv, TypeOK, StackIsOwned, RunningIsOnCPU, EmbryoIsPrivate, UnusedIsClean, ParentIsAlive,
         NoMissedExit, Children, PlaceOfState, LockAcrossSched, SlotOwns, InitLives, vars, shared

\* A panic changes nothing else and keeps the invariant.
LEMMA InitExitsInv ==
  ASSUME ProcInv, NEW c \in CPU, InitExits(c)
  PROVE  ProcInv'
  BY DEF InitExits, ProcInv, TypeOK, StackIsOwned, RunningIsOnCPU, EmbryoIsPrivate, UnusedIsClean,
         ParentIsAlive, NoMissedExit, Children, PlaceOfState, LockAcrossSched, SlotOwns, InitLives

\* A CPU that executes a RUNNING process executes it alone.
LEMMA RunsAlone ==
  ASSUME ProcInv, NEW c \in CPU, NEW s \in Slots, Runs(c, s)
  PROVE  Alone(c, s)
<1>1. on[c] = s /\ state[s] = "RUNNING" /\ s # Scheduler
  BY ProcAssumption DEF Runs, Slots
<1>2. stack[s] = 1 /\ \A d \in CPU : on[d] = s => d = c
  BY <1>1, Zenon DEF ProcInv, StackIsOwned
<1>3. pc[s] \notin {"alloc", "copy", "ready"} => np[s] = 0
  BY Zenon DEF ProcInv, PlaceOfState
<1> QED BY <1>1, <1>2, <1>3, Zenon DEF Alone

\* The end of the scheduler's loop keeps the invariant: nobody is in sched() on
\* another CPU.
LEMMA SchedulerReleaseInv ==
  ASSUME ProcInv, NEW c \in CPU, SchedulerRelease(c)
  PROVE  ProcInv'
<1>1. Names
  BY Named, Zenon DEF ProcInv
<1>2. TypeOK'
  BY <1>1, Zenon DEF ProcInv, TypeOK, SchedulerRelease, shared
<1>3. /\ on[c] = Scheduler /\ lock = c
      /\ lock' = NoCPU
      /\ UNCHANGED <<state, pid, parent, killed, chan, stack, on, pc, np>>
  BY Zenon DEF SchedulerRelease
<1>4. StackIsOwned'
  BY <1>3, Zenon DEF ProcInv, StackIsOwned
<1>5. RunningIsOnCPU'
  BY <1>3, Zenon DEF ProcInv, RunningIsOnCPU
<1>6. EmbryoIsPrivate'
  BY <1>3, Zenon DEF ProcInv, EmbryoIsPrivate
<1>7. UnusedIsClean'
  BY <1>3, Zenon DEF ProcInv, UnusedIsClean
<1>8. ParentIsAlive'
  BY <1>3, Zenon DEF ProcInv, ParentIsAlive
<1>9. NoMissedExit'
  BY <1>3, Zenon DEF ProcInv, NoMissedExit, Children
<1>10. PlaceOfState'
  BY <1>3, Zenon DEF ProcInv, PlaceOfState
<1>11. LockAcrossSched'
  BY <1>3, Zenon DEF ProcInv, LockAcrossSched
<1>12. SlotOwns'
  BY <1>3, Zenon DEF ProcInv, SlotOwns
<1>13. InitLives'
  BY <1>3, Zenon DEF ProcInv, InitLives
<1> QED BY <1>2, <1>4, <1>5, <1>6, <1>7, <1>8, <1>9, <1>10, <1>11, <1>12, <1>13, Zenon DEF ProcInv

\* The scheduler's choice keeps the invariant: a RUNNABLE process is on no CPU while
\* ptable.lock is not another CPU's.
LEMMA RunInv ==
  ASSUME ProcInv, NEW c \in CPU, NEW s \in Slots, Run(c, s)
  PROVE  ProcInv'
<1>1. Names
  BY Named, Zenon DEF ProcInv
<1>2. TypeOK'
  BY <1>1, Zenon DEF ProcInv, TypeOK, Run, shared, States
<1>3. /\ on[c] = Scheduler /\ state[s] = "RUNNABLE" /\ lock \in {NoCPU, c}
      /\ state'[s] = "RUNNING"
      /\ \A x \in Slots \ {s} : state'[x] = state[x]
      /\ on'[c] = s
      /\ \A x \in CPU \ {c} : on'[x] = on[x]
      /\ lock' = c
      /\ UNCHANGED <<pid, parent, killed, chan, stack, pc, np>>
  BY Zenon DEF ProcInv, TypeOK, Run
<1>4. StackIsOwned'
  BY <1>3, <1>1 DEF ProcInv, StackIsOwned, SlotOwns, RunningIsOnCPU, Names
<1>5. RunningIsOnCPU'
  BY <1>3, <1>1 DEF ProcInv, RunningIsOnCPU, Names
<1>6. EmbryoIsPrivate'
  BY <1>3, <1>1 DEF ProcInv, EmbryoIsPrivate, Names
<1>7. UnusedIsClean'
  BY <1>3, Zenon DEF ProcInv, UnusedIsClean
<1>8. ParentIsAlive'
  BY <1>3, Zenon DEF ProcInv, ParentIsAlive
<1>9. NoMissedExit'
  BY <1>3 DEF ProcInv, NoMissedExit, Children
<1>10. PlaceOfState'
  BY <1>3 DEF ProcInv, PlaceOfState
<1>11. LockAcrossSched'
  BY <1>3, <1>1 DEF ProcInv, LockAcrossSched, Names
<1>12. SlotOwns'
  BY <1>3, Zenon DEF ProcInv, SlotOwns
<1>13. InitLives'
  BY <1>3, <1>1, Zenon DEF ProcInv, InitLives, Names
<1> QED BY <1>2, <1>4, <1>5, <1>6, <1>7, <1>8, <1>9, <1>10, <1>11, <1>12, <1>13, Zenon DEF ProcInv

\* The switch to the scheduler keeps the invariant.
LEMMA SchedInv ==
  ASSUME ProcInv, NEW c \in CPU, NEW s \in Slots, Sched(c, s)
  PROVE  ProcInv'
<1>1. Names
  BY Named, Zenon DEF ProcInv
<1>2. TypeOK'
  BY <1>1, Zenon DEF ProcInv, TypeOK, Sched, shared
<1>3. /\ on[c] = s /\ state[s] # "RUNNING"
      /\ on'[c] = Scheduler
      /\ \A x \in CPU \ {c} : on'[x] = on[x]
      /\ UNCHANGED <<state, pid, parent, killed, chan, stack, lock, pc, np>>
  BY Zenon DEF ProcInv, TypeOK, Sched
<1>4. StackIsOwned'
  BY <1>3 DEF ProcInv, StackIsOwned
<1>5. RunningIsOnCPU'
  BY <1>3 DEF ProcInv, RunningIsOnCPU
<1>6. EmbryoIsPrivate'
  BY <1>3 DEF ProcInv, EmbryoIsPrivate
<1>7. UnusedIsClean'
  BY <1>3, Zenon DEF ProcInv, UnusedIsClean
<1>8. ParentIsAlive'
  BY <1>3, Zenon DEF ProcInv, ParentIsAlive
<1>9. NoMissedExit'
  BY <1>3 DEF ProcInv, NoMissedExit, Children
<1>10. PlaceOfState'
  BY <1>3, Zenon DEF ProcInv, PlaceOfState
<1>11. LockAcrossSched'
  BY <1>3, Zenon DEF ProcInv, LockAcrossSched
<1>12. SlotOwns'
  BY <1>3, Zenon DEF ProcInv, SlotOwns
<1>13. InitLives'
  BY <1>3, Zenon DEF ProcInv, InitLives
<1> QED BY <1>2, <1>4, <1>5, <1>6, <1>7, <1>8, <1>9, <1>10, <1>11, <1>12, <1>13, Zenon DEF ProcInv

\* yield() keeps the invariant, up to its sched().
LEMMA YieldInv ==
  ASSUME ProcInv, NEW c \in CPU, NEW s \in Slots, Yield(c, s)
  PROVE  ProcInv'
<1>1. Names
  BY Named, Zenon DEF ProcInv
<1>2. Alone(c, s)
  <2>1. Runs(c, s)
    BY Zenon DEF Yield
  <2> QED BY <2>1, RunsAlone, Zenon
<1>3. TypeOK'
  BY <1>2, Zenon DEF ProcInv, TypeOK, Yield, shared, States
<1>4. /\ pc[s] \in {"user", "alloc", "copy", "ready"} /\ lock = NoCPU
      /\ state'[s] = "RUNNABLE"
      /\ \A x \in Slots \ {s} : state'[x] = state[x]
      /\ lock' = c
      /\ UNCHANGED <<pid, parent, killed, chan, stack, on, pc, np>>
  BY <1>2, Zenon DEF ProcInv, TypeOK, Yield, Preemptible
<1>5. StackIsOwned'
  BY <1>4, Zenon DEF ProcInv, StackIsOwned
<1>6. RunningIsOnCPU'
  BY <1>4, <1>1, <1>2 DEF ProcInv, RunningIsOnCPU, Names, Alone
<1>7. EmbryoIsPrivate'
  BY <1>4, <1>1, <1>2 DEF ProcInv, EmbryoIsPrivate, Names, Alone
<1>8. UnusedIsClean'
  BY <1>4, Zenon DEF ProcInv, UnusedIsClean
<1>9. ParentIsAlive'
  BY <1>4, <1>2, Zenon DEF ProcInv, ParentIsAlive, Alone
<1>10. NoMissedExit'
  BY <1>4 DEF ProcInv, NoMissedExit, Children
<1>11. PlaceOfState'
  BY <1>4 DEF ProcInv, PlaceOfState
<1>12. LockAcrossSched'
  BY <1>4, <1>1, <1>2 DEF ProcInv, LockAcrossSched, Names, Alone
<1>13. SlotOwns'
  BY <1>4, <1>2 DEF ProcInv, SlotOwns, Alone
<1>14. InitLives'
  BY <1>4, <1>1, Zenon DEF ProcInv, InitLives, Names
<1> QED BY <1>3, <1>5, <1>6, <1>7, <1>8, <1>9, <1>10, <1>11, <1>12, <1>13, <1>14, Zenon DEF ProcInv

\* The return from sched(), or the start at forkret(), keeps the invariant: the lock
\* that is released is this CPU's.
LEMMA ResumeInv ==
  ASSUME ProcInv, NEW c \in CPU, NEW s \in Slots, Resume(c, s)
  PROVE  ProcInv'
<1>1. Names
  BY Named, Zenon DEF ProcInv
<1>2. Alone(c, s)
  <2>1. Runs(c, s)
    BY Zenon DEF Resume
  <2> QED BY <2>1, RunsAlone, Zenon
<1>3. TypeOK'
  BY <1>2, Zenon DEF ProcInv, TypeOK, Resume, shared, PCs
<1>4. /\ lock = c /\ pc[s] \in {"user", "alloc", "copy", "ready", "forkret"}
      /\ pc'[s] = IF pc[s] = "forkret" THEN "user" ELSE pc[s]
      /\ \A x \in Slots \ {s} : pc'[x] = pc[x]
      /\ lock' = NoCPU
      /\ UNCHANGED <<state, pid, parent, killed, chan, stack, on, np>>
  BY <1>2, Zenon DEF ProcInv, TypeOK, Resume, Preemptible
<1>5. StackIsOwned'
  BY <1>4, Zenon DEF ProcInv, StackIsOwned
<1>6. RunningIsOnCPU'
  BY <1>4, <1>1, <1>2 DEF ProcInv, RunningIsOnCPU, LockAcrossSched, Names, Alone
<1>7. EmbryoIsPrivate'
  BY <1>4, Zenon DEF ProcInv, EmbryoIsPrivate
<1>8. UnusedIsClean'
  BY <1>4, Zenon DEF ProcInv, UnusedIsClean
<1>9. ParentIsAlive'
  BY <1>4, Zenon DEF ProcInv, ParentIsAlive
<1>10. NoMissedExit'
  BY <1>4, Zenon DEF ProcInv, NoMissedExit, Children
<1>11. PlaceOfState'
  BY <1>4, <1>2 DEF ProcInv, PlaceOfState, Alone
<1>12. LockAcrossSched'
  BY <1>4, <1>1, <1>2 DEF ProcInv, LockAcrossSched, Names, Alone
<1>13. SlotOwns'
  BY <1>4 DEF ProcInv, SlotOwns
<1>14. InitLives'
  BY <1>4, Zenon DEF ProcInv, InitLives
<1> QED BY <1>3, <1>5, <1>6, <1>7, <1>8, <1>9, <1>10, <1>11, <1>12, <1>13, <1>14, Zenon DEF ProcInv

\* allocproc() keeps the invariant: the slot that it marks is nobody's.
LEMMA ForkAllocInv ==
  ASSUME ProcInv, NEW c \in CPU, NEW s \in Slots, ForkAlloc(c, s)
  PROVE  ProcInv'
<1>1. Names
  BY Named, Zenon DEF ProcInv
<1>2. Alone(c, s)
  <2>1. Runs(c, s)
    BY Zenon DEF ForkAlloc
  <2> QED BY <2>1, RunsAlone, Zenon
<1>3. PICK t \in Slots :
          /\ state[t] = "UNUSED"
          /\ state' = [state EXCEPT ![t] = "EMBRYO"]
          /\ pid' = [pid EXCEPT ![t] = nextpid]
          /\ np' = [np EXCEPT ![s] = t]
  BY Zenon DEF ForkAlloc
<1>4. \A x \in Slots : parent[x] # t
  BY <1>3, NobodysParent, Zenon
<1>5. \A d \in CPU : on[d] # t
  BY <1>3, <1>1, Zenon DEF ProcInv, LockAcrossSched, Names
<1>6. nextpid \in 0 .. MaxPid /\ nextpid' \in 2 .. MaxPid
  BY ProcAssumption DEF ProcInv, TypeOK, ForkAlloc
<1>7. TypeOK'
  BY <1>1, <1>6 DEF ProcInv, TypeOK, ForkAlloc, States, PCs, Names
<1>8. /\ pc[s] = "user" /\ lock = NoCPU /\ state[t] = "UNUSED"
      /\ state'[t] = "EMBRYO"
      /\ \A x \in Slots \ {t} : state'[x] = state[x]
      /\ pid'[t] = nextpid
      /\ \A x \in Slots \ {t} : pid'[x] = pid[x]
      /\ np'[s] = t
      /\ \A x \in Slots \ {s} : np'[x] = np[x]
      /\ pc'[s] = "alloc"
      /\ \A x \in Slots \ {s} : pc'[x] = pc[x]
      /\ UNCHANGED <<parent, killed, chan, stack, on, lock>>
  BY <1>3 DEF ProcInv, TypeOK, ForkAlloc
<1>9. StackIsOwned'
  BY <1>8, Zenon DEF ProcInv, StackIsOwned
<1>10. RunningIsOnCPU'
  BY <1>8, <1>1 DEF ProcInv, RunningIsOnCPU, Names
<1>11. EmbryoIsPrivate'
  BY <1>8, <1>1, <1>2 DEF ProcInv, EmbryoIsPrivate, Names, Alone
<1>12. UnusedIsClean'
  BY <1>8, Zenon DEF ProcInv, UnusedIsClean
<1>13. ParentIsAlive'
  BY <1>8, Zenon DEF ProcInv, ParentIsAlive
<1>14. NoMissedExit'
  BY <1>8 DEF ProcInv, NoMissedExit, Children
<1>15. PlaceOfState'
  BY <1>8, <1>1 DEF ProcInv, PlaceOfState, Names
<1>16. LockAcrossSched'
  BY <1>8, <1>1 DEF ProcInv, LockAcrossSched, Names
<1>17. SlotOwns'
  BY <1>8 DEF ProcInv, SlotOwns, UnusedIsClean
<1>18. InitLives'
  BY <1>8, <1>1, Zenon DEF ProcInv, InitLives, Names
<1> QED BY <1>7, <1>9, <1>10, <1>11, <1>12, <1>13, <1>14, <1>15, <1>16, <1>17, <1>18, Zenon DEF ProcInv

\* The new kernel stack keeps the invariant, without the lock.
LEMMA ForkStackInv ==
  ASSUME ProcInv, NEW c \in CPU, NEW s \in Slots, ForkStack(c, s)
  PROVE  ProcInv'
<1>1. Names
  BY Named, Zenon DEF ProcInv
<1>2. Alone(c, s)
  <2>1. Runs(c, s)
    BY Zenon DEF ForkStack, Goes
  <2> QED BY <2>1, RunsAlone, Zenon
<1>3. Fills(s)
  <2>1. pc[s] \in {"alloc", "copy", "ready"}
    BY Zenon DEF ForkStack
  <2> QED BY <2>1, ForkSlot, Zenon
<1>4. stack' = [stack EXCEPT ![np[s]] = 1]
  <2>1. stack[np[s]] = 0
    BY Zenon DEF ProcInv, SlotOwns, ForkStack
  <2> QED BY <2>1 DEF ForkStack
<1>5. TypeOK'
  BY <1>4, Zenon DEF ProcInv, TypeOK, ForkStack, shared, PCs
<1>6. /\ pc[s] = "alloc"
      /\ stack'[np[s]] = 1
      /\ \A x \in Slots \ {np[s]} : stack'[x] = stack[x]
      /\ pc'[s] = "copy" /\ pc'[np[s]] = "forkret"
      /\ \A x \in Slots \ {s, np[s]} : pc'[x] = pc[x]
      /\ UNCHANGED <<state, pid, parent, killed, chan, on, lock, np>>
  BY <1>3, <1>4 DEF ProcInv, TypeOK, ForkStack, Fills
<1>7. StackIsOwned'
  BY <1>6, <1>1, Zenon DEF ProcInv, StackIsOwned, Names
<1>8. RunningIsOnCPU'
  BY <1>6, Zenon DEF ProcInv, RunningIsOnCPU
<1>9. EmbryoIsPrivate'
  BY <1>6, Zenon DEF ProcInv, EmbryoIsPrivate
<1>10. UnusedIsClean'
  BY <1>6, <1>3 DEF ProcInv, UnusedIsClean, Fills
<1>11. ParentIsAlive'
  BY <1>6, Zenon DEF ProcInv, ParentIsAlive
<1>12. NoMissedExit'
  BY <1>6, Zenon DEF ProcInv, NoMissedExit, Children
<1>13. PlaceOfState'
  BY <1>6, <1>3 DEF ProcInv, PlaceOfState, Fills
<1>14. LockAcrossSched'
  BY <1>6, <1>1, <1>3, Zenon DEF ProcInv, LockAcrossSched, Names, Fills
<1>15. SlotOwns'
  BY <1>6, <1>1, <1>3 DEF ProcInv, SlotOwns, PlaceOfState, Names, Fills
<1>16. InitLives'
  BY <1>6, Zenon DEF ProcInv, InitLives
<1> QED BY <1>5, <1>7, <1>8, <1>9, <1>10, <1>11, <1>12, <1>13, <1>14, <1>15, <1>16, Zenon DEF ProcInv

\* fork() without a stack keeps the invariant: the slot goes back empty.
LEMMA ForkStackFailsInv ==
  ASSUME ProcInv, NEW c \in CPU, NEW s \in Slots, ForkStackFails(c, s)
  PROVE  ProcInv'
<1>1. Names
  BY Named, Zenon DEF ProcInv
<1>2. Alone(c, s)
  <2>1. Runs(c, s)
    BY Zenon DEF ForkStackFails, Goes
  <2> QED BY <2>1, RunsAlone, Zenon
<1>3. Fills(s)
  <2>1. pc[s] \in {"alloc", "copy", "ready"}
    BY Zenon DEF ForkStackFails
  <2> QED BY <2>1, ForkSlot, Zenon
<1>4. TypeOK'
  BY <1>3, Zenon DEF ProcInv, TypeOK, ForkStackFails, shared, Abandon, States, PCs, Fills
<1>5. /\ pc[s] = "alloc"
      /\ state'[np[s]] = "UNUSED"
      /\ \A x \in Slots \ {np[s]} : state'[x] = state[x]
      /\ np'[s] = 0
      /\ \A x \in Slots \ {s} : np'[x] = np[x]
      /\ pc'[s] = "user"
      /\ \A x \in Slots \ {s} : pc'[x] = pc[x]
      /\ UNCHANGED <<pid, parent, killed, chan, stack, on, lock>>
  BY <1>3, Zenon DEF ProcInv, TypeOK, ForkStackFails, Abandon, Fills
<1>6. StackIsOwned'
  BY <1>5, Zenon DEF ProcInv, StackIsOwned
<1>7. RunningIsOnCPU'
  BY <1>5, <1>1, <1>3 DEF ProcInv, RunningIsOnCPU, Names, Fills
<1>8. EmbryoIsPrivate'
  BY <1>5, <1>1, <1>3 DEF ProcInv, EmbryoIsPrivate, Names, Fills
<1>9. UnusedIsClean'
  BY <1>5 DEF ProcInv, UnusedIsClean, SlotOwns
<1>10. ParentIsAlive'
  BY <1>5, <1>3, Zenon DEF ProcInv, ParentIsAlive, Fills
<1>11. NoMissedExit'
  BY <1>5 DEF ProcInv, NoMissedExit, Children
<1>12. PlaceOfState'
  BY <1>5, <1>3 DEF ProcInv, PlaceOfState, Fills
<1>13. LockAcrossSched'
  BY <1>5, <1>1, <1>3 DEF ProcInv, LockAcrossSched, Names, Fills
<1>14. SlotOwns'
  BY <1>5 DEF ProcInv, SlotOwns
<1>15. InitLives'
  BY <1>5, <1>1, <1>3, Zenon DEF ProcInv, InitLives, Names, Fills
<1> QED BY <1>4, <1>6, <1>7, <1>8, <1>9, <1>10, <1>11, <1>12, <1>13, <1>14, <1>15, Zenon DEF ProcInv

\* The new parent keeps the invariant, without the lock.
LEMMA ForkCopyInv ==
  ASSUME ProcInv, NEW c \in CPU, NEW s \in Slots, ForkCopy(c, s)
  PROVE  ProcInv'
<1>1. Names
  BY Named, Zenon DEF ProcInv
<1>2. Alone(c, s)
  <2>1. Runs(c, s)
    BY Zenon DEF ForkCopy, Goes
  <2> QED BY <2>1, RunsAlone, Zenon
<1>3. Fills(s)
  <2>1. pc[s] \in {"alloc", "copy", "ready"}
    BY Zenon DEF ForkCopy
  <2> QED BY <2>1, ForkSlot, Zenon
<1>4. TypeOK'
  BY <1>1, Zenon DEF ProcInv, TypeOK, ForkCopy, shared, PCs, Names
<1>5. /\ pc[s] = "copy"
      /\ parent'[np[s]] = s
      /\ \A x \in Slots \ {np[s]} : parent'[x] = parent[x]
      /\ pc'[s] = "ready"
      /\ \A x \in Slots \ {s} : pc'[x] = pc[x]
      /\ UNCHANGED <<state, pid, killed, chan, stack, on, lock, np>>
  BY <1>3 DEF ProcInv, TypeOK, ForkCopy, Fills
<1>6. StackIsOwned'
  BY <1>5, Zenon DEF ProcInv, StackIsOwned
<1>7. RunningIsOnCPU'
  BY <1>5, Zenon DEF ProcInv, RunningIsOnCPU
<1>8. EmbryoIsPrivate'
  BY <1>5 DEF ProcInv, EmbryoIsPrivate
<1>9. UnusedIsClean'
  BY <1>5, <1>3, Zenon DEF ProcInv, UnusedIsClean, Fills
<1>10. ParentIsAlive'
  BY <1>5, <1>3, Zenon DEF ProcInv, ParentIsAlive, Fills
<1>11. NoMissedExit'
  BY <1>5, <1>1, <1>3 DEF ProcInv, NoMissedExit, SlotOwns, Children, Names, Fills
<1>12. PlaceOfState'
  BY <1>5, Zenon DEF ProcInv, PlaceOfState, Names
<1>13. LockAcrossSched'
  BY <1>5, <1>1 DEF ProcInv, LockAcrossSched, Names
<1>14. SlotOwns'
  BY <1>5, <1>1, <1>3 DEF ProcInv, SlotOwns, PlaceOfState, Names, Fills
<1>15. InitLives'
  BY <1>5, <1>1, <1>3 DEF ProcInv, InitLives, Names, Fills
<1> QED BY <1>4, <1>6, <1>7, <1>8, <1>9, <1>10, <1>11, <1>12, <1>13, <1>14, <1>15, Zenon DEF ProcInv

\* fork() without memory keeps the invariant: slot and stack go back.
LEMMA ForkCopyFailsInv ==
  ASSUME ProcInv, NEW c \in CPU, NEW s \in Slots, ForkCopyFails(c, s)
  PROVE  ProcInv'
<1>1. Names
  BY Named, Zenon DEF ProcInv
<1>2. Alone(c, s)
  <2>1. Runs(c, s)
    BY Zenon DEF ForkCopyFails, Goes
  <2> QED BY <2>1, RunsAlone, Zenon
<1>3. Fills(s)
  <2>1. pc[s] \in {"alloc", "copy", "ready"}
    BY Zenon DEF ForkCopyFails
  <2> QED BY <2>1, ForkSlot, Zenon
<1>4. stack' = [stack EXCEPT ![np[s]] = 0]
  <2>1. stack[np[s]] = 1
    BY Zenon DEF ProcInv, SlotOwns, ForkCopyFails
  <2> QED BY <2>1 DEF ForkCopyFails
<1>5. TypeOK'
  BY <1>3, <1>4, Zenon DEF ProcInv, TypeOK, ForkCopyFails, shared, Abandon, States, PCs, Fills
<1>6. /\ pc[s] = "copy"
      /\ stack'[np[s]] = 0
      /\ \A x \in Slots \ {np[s]} : stack'[x] = stack[x]
      /\ state'[np[s]] = "UNUSED"
      /\ \A x \in Slots \ {np[s]} : state'[x] = state[x]
      /\ np'[s] = 0
      /\ \A x \in Slots \ {s} : np'[x] = np[x]
      /\ pc'[s] = "user"
      /\ \A x \in Slots \ {s} : pc'[x] = pc[x]
      /\ UNCHANGED <<pid, parent, killed, chan, on, lock>>
  BY <1>3, <1>4 DEF ProcInv, TypeOK, ForkCopyFails, Abandon, Fills
<1>7. StackIsOwned'
  BY <1>6, <1>1, <1>3 DEF ProcInv, StackIsOwned, Names, Fills
<1>8. RunningIsOnCPU'
  BY <1>6, <1>1, <1>3 DEF ProcInv, RunningIsOnCPU, Names, Fills
<1>9. EmbryoIsPrivate'
  BY <1>6, <1>1, <1>3 DEF ProcInv, EmbryoIsPrivate, Names, Fills
<1>10. UnusedIsClean'
  BY <1>6 DEF ProcInv, UnusedIsClean, SlotOwns
<1>11. ParentIsAlive'
  BY <1>6, <1>3, Zenon DEF ProcInv, ParentIsAlive, Fills
<1>12. NoMissedExit'
  BY <1>6 DEF ProcInv, NoMissedExit, Children
<1>13. PlaceOfState'
  BY <1>6, <1>3 DEF ProcInv, PlaceOfState, Fills
<1>14. LockAcrossSched'
  BY <1>6, <1>1, <1>3 DEF ProcInv, LockAcrossSched, Names, Fills
<1>15. SlotOwns'
  BY <1>6, <1>1, <1>3 DEF ProcInv, SlotOwns, PlaceOfState, Names, Fills
<1>16. InitLives'
  BY <1>6, <1>1, <1>3, Zenon DEF ProcInv, InitLives, Names, Fills
<1> QED BY <1>5, <1>7, <1>8, <1>9, <1>10, <1>11, <1>12, <1>13, <1>14, <1>15, <1>16, Zenon DEF ProcInv

\* The end of fork() keeps the invariant: the slot becomes a process at one stroke.
LEMMA ForkDoneInv ==
  ASSUME ProcInv, NEW c \in CPU, NEW s \in Slots, ForkDone(c, s)
  PROVE  ProcInv'
<1>1. Names
  BY Named, Zenon DEF ProcInv
<1>2. Alone(c, s)
  <2>1. Runs(c, s)
    BY Zenon DEF ForkDone, Goes
  <2> QED BY <2>1, RunsAlone, Zenon
<1>3. Fills(s)
  <2>1. pc[s] \in {"alloc", "copy", "ready"}
    BY Zenon DEF ForkDone
  <2> QED BY <2>1, ForkSlot, Zenon
<1>4. TypeOK'
  BY <1>3, Zenon DEF ProcInv, TypeOK, ForkDone, shared, States, PCs, Fills
<1>5. /\ pc[s] = "ready"
      /\ state'[np[s]] = "RUNNABLE"
      /\ \A x \in Slots \ {np[s]} : state'[x] = state[x]
      /\ np'[s] = 0
      /\ \A x \in Slots \ {s} : np'[x] = np[x]
      /\ pc'[s] = "user"
      /\ \A x \in Slots \ {s} : pc'[x] = pc[x]
      /\ UNCHANGED <<pid, parent, killed, chan, stack, on, lock>>
  BY <1>3 DEF ProcInv, TypeOK, ForkDone, Fills
<1>6. StackIsOwned'
  BY <1>5, Zenon DEF ProcInv, StackIsOwned
<1>7. RunningIsOnCPU'
  BY <1>5, <1>1, <1>3 DEF ProcInv, RunningIsOnCPU, Names, Fills
<1>8. EmbryoIsPrivate'
  BY <1>5, <1>1 DEF ProcInv, EmbryoIsPrivate, Names
<1>9. UnusedIsClean'
  BY <1>5, Zenon DEF ProcInv, UnusedIsClean
<1>10. ParentIsAlive'
  BY <1>5, <1>2, <1>3 DEF ProcInv, ParentIsAlive, SlotOwns, InitLives, initproc, Alone, Fills
<1>11. NoMissedExit'
  BY <1>5 DEF ProcInv, NoMissedExit, Children
<1>12. PlaceOfState'
  BY <1>5, <1>1, <1>2, <1>3 DEF ProcInv, PlaceOfState, Names, Alone, Fills
<1>13. LockAcrossSched'
  BY <1>5, <1>1, <1>2, <1>3 DEF ProcInv, LockAcrossSched, StackIsOwned, RunningIsOnCPU, Names, Fills
<1>14. SlotOwns'
  BY <1>5 DEF ProcInv, SlotOwns
<1>15. InitLives'
  BY <1>5, <1>1, <1>3, Zenon DEF ProcInv, InitLives, Names, Fills
<1> QED BY <1>4, <1>6, <1>7, <1>8, <1>9, <1>10, <1>11, <1>12, <1>13, <1>14, <1>15, Zenon DEF ProcInv

\* exit() keeps the invariant: its children get another parent, and who has to be
\* woken is.
LEMMA ExitInv ==
  ASSUME ProcInv, NEW c \in CPU, NEW s \in Slots, Exit(c, s)
  PROVE  ProcInv'
<1>1. Names
  BY Named, Zenon DEF ProcInv
<1>2. Alone(c, s)
  <2>1. Runs(c, s)
    BY Zenon DEF Exit
  <2> QED BY <2>1, RunsAlone, Zenon
<1>3. TypeOK'
  BY <1>1, Zenon DEF ProcInv, TypeOK, Exit, shared, States, PCs, Names
<1>4. /\ pc[s] = "user" /\ lock = NoCPU /\ s # initproc
      /\ pc'[s] = "exit"
      /\ \A x \in Slots \ {s} : pc'[x] = pc[x]
      /\ lock' = c
      /\ state'[s] = "ZOMBIE"
      /\ \A x \in Slots \ {s} : \/ state'[x] = state[x]
                                \/ state[x] = "SLEEPING" /\ state'[x] = "RUNNABLE"
      /\ \A x \in Slots \ {s} : state[x] = "SLEEPING" /\ chan[x] = parent[s] => state'[x] = "RUNNABLE"
      /\ \A x \in Slots \ {s}, y \in Slots :
            parent[y] = s /\ state[y] = "ZOMBIE" /\ state[x] = "SLEEPING" /\ chan[x] = initproc
                => state'[x] = "RUNNABLE"
      /\ \A x \in Slots : parent'[x] = IF parent[x] = s THEN initproc ELSE parent[x]
      /\ UNCHANGED <<pid, killed, chan, stack, on, np>>
  BY <1>2 DEF ProcInv, TypeOK, Exit, Children, Asleep
<1>5. StackIsOwned'
  BY <1>4, Zenon DEF ProcInv, StackIsOwned
<1>6. RunningIsOnCPU'
  BY <1>4, <1>1, <1>2 DEF ProcInv, RunningIsOnCPU, StackIsOwned, Names, Alone
<1>7. EmbryoIsPrivate'
  BY <1>4, <1>1 DEF ProcInv, EmbryoIsPrivate, PlaceOfState, Names
<1>8. UnusedIsClean'
  BY <1>4, <1>1 DEF ProcInv, UnusedIsClean, Names
<1>9. ParentIsAlive'
  BY <1>4, <1>1, <1>2 DEF ProcInv, ParentIsAlive, PlaceOfState, InitLives, Names
<1>10. NoMissedExit'
  <2> SUFFICES ASSUME NEW x \in Slots, state'[x] = "SLEEPING"
               PROVE  /\ killed'[x] = 0
                      /\ \E y \in Slots : parent'[y] = x
                      /\ \A y \in Slots : parent'[y] = x => state'[y] # "ZOMBIE"
    BY Zenon DEF NoMissedExit, Children
  <2>1. x # s /\ state[x] = "SLEEPING" /\ chan[x] = x
    BY <1>4 DEF ProcInv, PlaceOfState
  <2>2. killed'[x] = 0
    BY <1>4, Zenon DEF ProcInv, NoMissedExit
  <2>3. \E y \in Slots : parent'[y] = x
    BY <1>4 DEF ProcInv, NoMissedExit, Children
  <2>4. ASSUME NEW y \in Slots, parent'[y] = x, state'[y] = "ZOMBIE"
        PROVE  FALSE
    <3>1. CASE y = s
      BY <3>1, <2>1, <2>4, <1>4 DEF ProcInv, InitLives
    <3>2. CASE y # s /\ parent[y] = x
      BY <3>2, <2>4, <1>4 DEF ProcInv, NoMissedExit, Children
    <3>3. CASE y # s /\ parent[y] = s
      BY <3>3, <2>1, <2>4, <1>4
    <3> QED BY <3>1, <3>2, <3>3, <2>4, <1>4, Zenon
  <2> QED BY <2>2, <2>3, <2>4, Zenon
<1>11. PlaceOfState'
  BY <1>4 DEF ProcInv, PlaceOfState, Alone
<1>12. LockAcrossSched'
  BY <1>4, <1>1, <1>2 DEF ProcInv, LockAcrossSched, Names, Alone
<1>13. SlotOwns'
  BY <1>4, <1>1 DEF ProcInv, SlotOwns, PlaceOfState, Names
<1>14. InitLives'
  BY <1>4, <1>1 DEF ProcInv, InitLives, Names
<1> QED BY <1>3, <1>5, <1>6, <1>7, <1>8, <1>9, <1>10, <1>11, <1>12, <1>13, <1>14, Zenon DEF ProcInv

\* wait() keeps the invariant when it frees a zombie: the zombie is on no CPU.
LEMMA WaitReapInv ==
  ASSUME ProcInv, NEW c \in CPU, NEW s \in Slots, WaitReap(c, s)
  PROVE  ProcInv'
<1>1. Names
  BY Named, Zenon DEF ProcInv
<1>2. Alone(c, s)
  <2>1. Runs(c, s)
    BY Zenon DEF WaitReap, Scanning
  <2> QED BY <2>1, RunsAlone, Zenon
<1>3. PICK t \in Slots :
          /\ state[t] = "ZOMBIE" /\ parent[t] = s
          /\ state' = [state EXCEPT ![t] = "UNUSED"]
          /\ stack' = [stack EXCEPT ![t] = @ - 1]
          /\ pid' = [pid EXCEPT ![t] = 0]
          /\ parent' = [parent EXCEPT ![t] = 0]
          /\ killed' = [killed EXCEPT ![t] = 0]
          /\ pc' = [pc EXCEPT ![s] = "user", ![t] = "forkret"]
  BY Zenon DEF WaitReap, Children
<1>4. \A x \in Slots : parent[x] # t
  BY <1>3, NobodysParent, Zenon
<1>5. t # s /\ stack[t] = 1 /\ np[t] = 0 /\ pc[t] = "exit"
  BY <1>2, <1>3 DEF ProcInv, SlotOwns, PlaceOfState, Alone
<1>6. \A d \in CPU : on[d] # t
  BY <1>2, <1>5, <1>3, <1>1, ProcAssumption DEF ProcInv, Scanning, WaitReap, RunningIsOnCPU, Names, Alone
<1>7. stack' = [stack EXCEPT ![t] = 0] /\ 0 \in 0 .. MaxPid
  BY <1>5, <1>3, ProcAssumption DEF ProcInv
<1>8. TypeOK'
  BY <1>4, <1>5, <1>3, <1>7 DEF ProcInv, TypeOK, WaitReap, shared, States, PCs
<1>9. /\ ((pc[s] = "user" /\ lock = NoCPU) \/ (pc[s] = "wait" /\ lock = c)) /\ state[t] = "ZOMBIE" /\ parent[t] = s
      /\ state'[t] = "UNUSED"
      /\ \A x \in Slots \ {t} : state'[x] = state[x]
      /\ stack'[t] = 0
      /\ \A x \in Slots \ {t} : stack'[x] = stack[x]
      /\ pid'[t] = 0
      /\ \A x \in Slots \ {t} : pid'[x] = pid[x]
      /\ parent'[t] = 0
      /\ \A x \in Slots \ {t} : parent'[x] = parent[x]
      /\ killed'[t] = 0
      /\ \A x \in Slots \ {t} : killed'[x] = killed[x]
      /\ pc'[s] = "user" /\ pc'[t] = "forkret"
      /\ \A x \in Slots \ {s, t} : pc'[x] = pc[x]
      /\ chan'[s] = 0
      /\ \A x \in Slots \ {s} : chan'[x] = chan[x]
      /\ lock' = NoCPU
      /\ UNCHANGED <<on, np>>
  BY <1>3, <1>7 DEF ProcInv, TypeOK, WaitReap, Scanning
<1>10. StackIsOwned'
  BY <1>9, <1>1, <1>6 DEF ProcInv, StackIsOwned, Names
<1>11. RunningIsOnCPU'
  BY <1>9, <1>1, <1>2 DEF ProcInv, RunningIsOnCPU, Names, Alone
<1>12. EmbryoIsPrivate'
  BY <1>9, <1>1, <1>2 DEF ProcInv, EmbryoIsPrivate, Names
<1>13. UnusedIsClean'
  BY <1>9 DEF ProcInv, UnusedIsClean
<1>14. ParentIsAlive'
  BY <1>9, <1>4, <1>5 DEF ProcInv, ParentIsAlive
<1>15. NoMissedExit'
  BY <1>9 DEF ProcInv, NoMissedExit, Children
<1>16. PlaceOfState'
  BY <1>9, <1>2 DEF ProcInv, PlaceOfState, Alone
<1>17. LockAcrossSched'
  BY <1>9, <1>1, <1>2, <1>6 DEF ProcInv, LockAcrossSched, Names, Alone
<1>18. SlotOwns'
  BY <1>9, <1>1 DEF ProcInv, SlotOwns, PlaceOfState, Names
<1>19. InitLives'
  BY <1>9, <1>1 DEF ProcInv, InitLives, Names, Alone
<1> QED BY <1>8, <1>10, <1>11, <1>12, <1>13, <1>14, <1>15, <1>16, <1>17, <1>18, <1>19, Zenon DEF ProcInv

\* wait() keeps the invariant when it fails.
LEMMA WaitFailsInv ==
  ASSUME ProcInv, NEW c \in CPU, NEW s \in Slots, WaitFails(c, s)
  PROVE  ProcInv'
<1>1. Names
  BY Named, Zenon DEF ProcInv
<1>2. Alone(c, s)
  <2>1. Runs(c, s)
    BY Zenon DEF WaitFails, Scanning
  <2> QED BY <2>1, RunsAlone, Zenon
<1>3. TypeOK'
  BY <1>1, <1>2, Zenon DEF ProcInv, TypeOK, WaitFails, shared, Scanning, States, PCs, Names, Alone
<1>4. /\ ((pc[s] = "user" /\ lock = NoCPU) \/ (pc[s] = "wait" /\ lock = c))
      /\ pc'[s] = "user"
      /\ \A x \in Slots \ {s} : pc'[x] = pc[x]
      /\ chan'[s] = 0
      /\ \A x \in Slots \ {s} : chan'[x] = chan[x]
      /\ lock' = NoCPU
      /\ UNCHANGED <<state, pid, parent, killed, stack, on, np>>
  BY <1>2, Zenon DEF ProcInv, TypeOK, WaitFails, Scanning
<1>5. StackIsOwned'
  BY <1>4, Zenon DEF ProcInv, StackIsOwned
<1>6. RunningIsOnCPU'
  BY <1>4, <1>2 DEF ProcInv, RunningIsOnCPU, Alone
<1>7. EmbryoIsPrivate'
  BY <1>4, Zenon DEF ProcInv, EmbryoIsPrivate
<1>8. UnusedIsClean'
  BY <1>4, Zenon DEF ProcInv, UnusedIsClean
<1>9. ParentIsAlive'
  BY <1>4, Zenon DEF ProcInv, ParentIsAlive
<1>10. NoMissedExit'
  BY <1>4, Zenon DEF ProcInv, NoMissedExit, Children
<1>11. PlaceOfState'
  BY <1>4, <1>2 DEF ProcInv, PlaceOfState, Alone
<1>12. LockAcrossSched'
  BY <1>4, <1>1, <1>2 DEF ProcInv, LockAcrossSched, StackIsOwned, PlaceOfState, Names, Alone
<1>13. SlotOwns'
  BY <1>4, <1>1 DEF ProcInv, SlotOwns
<1>14. InitLives'
  BY <1>4, Zenon DEF ProcInv, InitLives
<1> QED BY <1>3, <1>5, <1>6, <1>7, <1>8, <1>9, <1>10, <1>11, <1>12, <1>13, <1>14, Zenon DEF ProcInv

\* wait() keeps the invariant when it sleeps: no child is a zombie, and none becomes
\* one before.
LEMMA WaitSleepInv ==
  ASSUME ProcInv, NEW c \in CPU, NEW s \in Slots, WaitSleep(c, s)
  PROVE  ProcInv'
<1>1. Names
  BY Named, Zenon DEF ProcInv
<1>2. Alone(c, s)
  <2>1. Runs(c, s)
    BY Zenon DEF WaitSleep, Scanning
  <2> QED BY <2>1, RunsAlone, Zenon
<1>3. TypeOK'
  BY <1>1, Zenon DEF ProcInv, TypeOK, WaitSleep, shared, Scanning, States, PCs, Names
<1>4. /\ ((pc[s] = "user" /\ lock = NoCPU) \/ (pc[s] = "wait" /\ lock = c)) /\ killed[s] = 0 /\ Children(s) # {}
      /\ \A t \in Children(s) : state[t] # "ZOMBIE"
      /\ state'[s] = "SLEEPING"
      /\ \A x \in Slots \ {s} : state'[x] = state[x]
      /\ pc'[s] = "wait"
      /\ \A x \in Slots \ {s} : pc'[x] = pc[x]
      /\ chan'[s] = s
      /\ \A x \in Slots \ {s} : chan'[x] = chan[x]
      /\ lock' = c
      /\ UNCHANGED <<pid, parent, killed, stack, on, np>>
  BY <1>2, Zenon DEF ProcInv, TypeOK, WaitSleep, Scanning
<1>5. StackIsOwned'
  BY <1>4, Zenon DEF ProcInv, StackIsOwned
<1>6. RunningIsOnCPU'
  BY <1>4, <1>1, <1>2 DEF ProcInv, RunningIsOnCPU, Names, Alone
<1>7. EmbryoIsPrivate'
  BY <1>4, <1>1 DEF ProcInv, EmbryoIsPrivate, PlaceOfState, Names
<1>8. UnusedIsClean'
  BY <1>4, Zenon DEF ProcInv, UnusedIsClean
<1>9. ParentIsAlive'
  BY <1>4 DEF ProcInv, ParentIsAlive, PlaceOfState, InitLives, initproc, Names, Alone
<1>10. NoMissedExit'
  <2>1. \A x \in Slots : Children(x)' = Children(x)
    BY <1>4, Zenon DEF Children
  <2> QED BY <1>4, <2>1 DEF ProcInv, NoMissedExit, Children
<1>11. PlaceOfState'
  BY <1>4 DEF ProcInv, PlaceOfState
<1>12. LockAcrossSched'
  BY <1>4, <1>1, <1>2 DEF ProcInv, LockAcrossSched, Names, Alone
<1>13. SlotOwns'
  BY <1>4 DEF ProcInv, SlotOwns, PlaceOfState, UnusedIsClean
<1>14. InitLives'
  BY <1>4, <1>1, Zenon DEF ProcInv, InitLives, Names
<1> QED BY <1>3, <1>5, <1>6, <1>7, <1>8, <1>9, <1>10, <1>11, <1>12, <1>13, <1>14, Zenon DEF ProcInv

\* kill() keeps the invariant: a process it finds asleep is woken.
LEMMA KillInv ==
  ASSUME ProcInv, NEW c \in CPU, NEW s \in Slots, NEW n \in 0 .. (MaxPid - 1), Kill(c, s, n)
  PROVE  ProcInv'
<1>1. Names
  BY Named, Zenon DEF ProcInv
<1>2. Alone(c, s)
  <2>1. Runs(c, s)
    BY Zenon DEF Kill
  <2> QED BY <2>1, RunsAlone, Zenon
<1> SUFFICES ASSUME vars' # vars
             PROVE  ProcInv'
  BY Stutter, Zenon
<1>3. PICK t \in Slots :
          /\ killed' = [killed EXCEPT ![t] = 1]
          /\ state' = [state EXCEPT ![t] = IF @ = "SLEEPING" THEN "RUNNABLE" ELSE @]
  BY Zenon DEF Kill, vars
<1>4. TypeOK'
  BY <1>3, Zenon DEF ProcInv, TypeOK, Kill, shared, States
<1>5. /\ killed'[t] = 1 /\ state'[t] = IF state[t] = "SLEEPING" THEN "RUNNABLE" ELSE state[t]
      /\ \A x \in Slots \ {t} : killed'[x] = killed[x] /\ state'[x] = state[x]
      /\ UNCHANGED <<pid, parent, chan, stack, on, lock, pc, np>>
  BY <1>3 DEF ProcInv, TypeOK, Kill
<1>6. StackIsOwned'
  BY <1>5, Zenon DEF ProcInv, StackIsOwned
<1>7. RunningIsOnCPU'
  BY <1>5, <1>1 DEF ProcInv, RunningIsOnCPU, Names
<1>8. EmbryoIsPrivate'
  BY <1>5, <1>1 DEF ProcInv, EmbryoIsPrivate, Names
<1>9. UnusedIsClean'
  BY <1>5, Zenon DEF ProcInv, UnusedIsClean
<1>10. ParentIsAlive'
  BY <1>5, Zenon DEF ProcInv, ParentIsAlive
<1>11. NoMissedExit'
  <2>1. \A x \in Slots : Children(x)' = Children(x)
    BY <1>5, Zenon DEF Children
  <2>2. \A x \in Slots : state'[x] = "SLEEPING" => x # t /\ state[x] = "SLEEPING" /\ killed'[x] = killed[x]
    BY <1>5, Zenon
  <2>3. \A y \in Slots : state'[y] = "ZOMBIE" => state[y] = "ZOMBIE"
    BY <1>5, Zenon
  <2>4. \A x : Children(x) \subseteq Slots
    BY Zenon DEF Children
  <2>5. ASSUME NEW x \in Slots, state'[x] = "SLEEPING"
        PROVE  killed'[x] = 0 /\ Children(x)' # {} /\ \A y \in Children(x)' : state'[y] # "ZOMBIE"
    <3>1. killed[x] = 0 /\ Children(x) # {} /\ \A y \in Children(x) : state[y] # "ZOMBIE"
      BY <2>2, <2>5, Zenon DEF ProcInv, NoMissedExit
    <3>2. Children(x)' = Children(x) /\ killed'[x] = killed[x]
      BY <2>1, <2>2, <2>5, Zenon
    <3> QED BY <2>3, <2>4, <3>1, <3>2, Zenon
  <2> QED BY <2>5, Zenon DEF NoMissedExit
<1>12. PlaceOfState'
  BY <1>5 DEF ProcInv, PlaceOfState
<1>13. LockAcrossSched'
  BY <1>5, <1>1 DEF ProcInv, LockAcrossSched, Names
<1>14. SlotOwns'
  BY <1>5 DEF ProcInv, SlotOwns, UnusedIsClean
<1>15. InitLives'
  BY <1>5, <1>1, Zenon DEF ProcInv, InitLives, Names
<1> QED BY <1>4, <1>6, <1>7, <1>8, <1>9, <1>10, <1>11, <1>12, <1>13, <1>14, <1>15, Zenon DEF ProcInv

\* The table that userinit() leaves satisfies the invariant.
LEMMA InitInv ==
  ASSUME Init
  PROVE  ProcInv
<1>1. TypeOK
  <2>1. initproc \in Slots /\ 0 \in 0 .. NPROC /\ 0 \in 0 .. MaxPid /\ 1 \in 0 .. MaxPid /\ 2 \in 2 .. MaxPid
    BY ProcAssumption DEF Slots, initproc
  <2> QED BY <2>1, Zenon DEF Init, TypeOK, States, PCs
<1>2. /\ initproc \in Slots /\ 0 \notin Slots
      /\ \A s \in Slots : /\ state[s] = IF s = initproc THEN "RUNNABLE" ELSE "UNUSED"
                          /\ stack[s] = IF s = initproc THEN 1 ELSE 0
                          /\ parent[s] = 0 /\ np[s] = 0 /\ pc[s] = "forkret"
      /\ \A c \in CPU : on[c] = Scheduler
  BY ProcAssumption DEF Init, Slots, initproc
<1>3. StackIsOwned /\ RunningIsOnCPU /\ LockAcrossSched
  BY <1>2, Zenon DEF StackIsOwned, RunningIsOnCPU, LockAcrossSched
<1>4. EmbryoIsPrivate /\ UnusedIsClean /\ ParentIsAlive /\ NoMissedExit
  BY <1>2, Zenon DEF EmbryoIsPrivate, UnusedIsClean, ParentIsAlive, NoMissedExit
<1>5. PlaceOfState /\ SlotOwns /\ InitLives
  BY <1>2, Zenon DEF PlaceOfState, SlotOwns, InitLives
<1> QED BY <1>1, <1>3, <1>4, <1>5, Zenon DEF ProcInv

\* Every step of every CPU keeps the invariant.
LEMMA NextInv ==
  ASSUME ProcInv, [Next]_vars
  PROVE  ProcInv'
<1>1. CASE UNCHANGED vars
  BY <1>1, Stutter, Zenon
<1>2. CASE Next
  <2>1. PICK c \in CPU :
          \/ SchedulerRelease(c) \/ InitExits(c)
          \/ \E s \in Slots :
                \/ Run(c, s) \/ Sched(c, s) \/ Yield(c, s) \/ Resume(c, s)
                \/ ForkAlloc(c, s) \/ Fork(c, s) \/ Exit(c, s) \/ Wait(c, s)
                \/ \E n \in 0 .. (MaxPid - 1) : Kill(c, s, n)
    BY <1>2, Zenon DEF Next
  <2>2. CASE SchedulerRelease(c) \/ InitExits(c)
    BY <2>2, SchedulerReleaseInv, InitExitsInv, Zenon
  <2>3. ASSUME NEW s \in Slots, Run(c, s) \/ Sched(c, s) \/ Yield(c, s) \/ Resume(c, s)
        PROVE  ProcInv'
    BY <2>3, RunInv, SchedInv, YieldInv, ResumeInv, Zenon
  <2>4. ASSUME NEW s \in Slots, ForkAlloc(c, s) \/ Fork(c, s)
        PROVE  ProcInv'
    BY <2>4, ForkAllocInv, ForkStackInv, ForkStackFailsInv, ForkCopyInv, ForkCopyFailsInv, ForkDoneInv, Zenon
       DEF Fork
  <2>5. ASSUME NEW s \in Slots, Exit(c, s) \/ Wait(c, s)
        PROVE  ProcInv'
    BY <2>5, ExitInv, WaitReapInv, WaitFailsInv, WaitSleepInv, Zenon DEF Wait
  <2>6. ASSUME NEW s \in Slots, NEW n \in 0 .. (MaxPid - 1), Kill(c, s, n)
        PROVE  ProcInv'
    BY <2>6, KillInv, Zenon
  <2> QED BY <2>1, <2>2, <2>3, <2>4, <2>5, <2>6, Zenon
<1> QED BY <1>1, <1>2, Zenon

\* For any size of the process table and any number of CPUs, in every order of the
\* steps of fork(), exit(), wait(), kill(), yield() and the schedulers: a process
\* runs on one CPU and on its own stack, a slot in the hands of fork() is nobody
\* else's, a free one is empty.
THEOREM ProcInvariant == Spec => []ProcInv
<1>1. Init => ProcInv
  BY InitInv, Zenon
<1>2. ProcInv /\ [Next]_vars => ProcInv'
  BY NextInv, Zenon
<1> QED BY <1>1, <1>2, PTL DEF Spec

\* exit() never leaves a process without a parent that can reap it.
THEOREM ParentsLive == Spec => []ParentIsAlive
<1>1. ProcInv => ParentIsAlive
  BY Zenon DEF ProcInv
<1> QED BY <1>1, ProcInvariant, PTL

\* Nobody sleeps through the exit of a child in wait(): the wakeups of exit() and
\* kill() meet every sleeper, whoever inherits the zombie.
THEOREM ExitsNotMissed == Spec => []NoMissedExit
<1>1. ProcInv => NoMissedExit
  BY Zenon DEF ProcInv
<1> QED BY <1>1, ProcInvariant, PTL

=============================================================================
