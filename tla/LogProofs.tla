------------------------------ MODULE LogProofs ------------------------------
(* Proofs about the write-ahead log, for any number of processes, of blocks and *)
(* of log slots: LogInv is inductive (one lemma per action, one step per       *)
(* conjunct), and under it every step is a step of TransDisk or a stutter.     *)
EXTENDS Log, TLAPS

\* read_head() keeps the invariant: the header copied from the disk is well formed.
LEMMA ReadHeadInv ==
  ASSUME LogInv, ReadHead
  PROVE  LogInv'
<1>1. TypeOK'
  BY LogAssumption DEF LogInv, TypeOK, ReadHead, memory
<1>2. OneTransaction'
  BY Zenon DEF LogInv, OneTransaction, ReadHead, memory, Owners
<1>3. NoDuplicates'
  BY Zenon DEF LogInv, NoDuplicates, ReadHead
<1>4. HeaderWhenCommitting'
  BY Zenon DEF HeaderWhenCommitting, ReadHead
<1>5. HeaderEmptyOutside'
  BY Zenon DEF HeaderEmptyOutside, ReadHead
<1>6. QuietRecovery'
  BY Zenon DEF LogInv, QuietRecovery, ReadHead, memory
<1>7. Installed'
  BY DEF Installed, ReadHead
<1>8. LoggedIsPinned'
  BY Zenon DEF LoggedIsPinned, ReadHead
<1>9. CleanIsCurrent'
  BY Zenon DEF LogInv, QuietRecovery, CleanIsCurrent, ReadHead, memory
<1>10. HeldIsCached'
  BY Zenon DEF LogInv, HeldIsCached, ReadHead, memory
<1> QED BY <1>1, <1>2, <1>3, <1>4, <1>5, <1>6, <1>7, <1>8, <1>9, <1>10, Zenon DEF LogInv

\* A round of install_trans() during recover_from_log() keeps the invariant.
LEMMA RecoverInstallInv ==
  ASSUME LogInv, RecoverInstall
  PROVE  LogInv'
<1>1. TypeOK'
  BY LogAssumption DEF LogInv, TypeOK, RecoverInstall, InstallBlock, Slots
<1>2. OneTransaction'
  BY Zenon DEF LogInv, OneTransaction, RecoverInstall, InstallBlock, Owners
<1>3. NoDuplicates'
  BY Zenon DEF LogInv, NoDuplicates, RecoverInstall, InstallBlock
<1>4. HeaderWhenCommitting'
  BY Zenon DEF LogInv, HeaderWhenCommitting, RecoverInstall, InstallBlock
<1>5. HeaderEmptyOutside'
  BY Zenon DEF HeaderEmptyOutside, RecoverInstall, InstallBlock
<1>6. QuietRecovery'
  BY Zenon DEF LogInv, QuietRecovery, RecoverInstall, InstallBlock
<1>7. Installed'
  BY DEF LogInv, TypeOK, NoDuplicates, Installed, RecoverInstall, InstallBlock, Installing
<1>8. LoggedIsPinned'
  BY Zenon DEF LoggedIsPinned, RecoverInstall, InstallBlock
<1>9. CleanIsCurrent'
  BY Zenon DEF LogInv, TypeOK, CleanIsCurrent, RecoverInstall, InstallBlock
<1>10. HeldIsCached'
  BY LogAssumption DEF LogInv, TypeOK, HeldIsCached, RecoverInstall, InstallBlock, Slots
<1> QED BY <1>1, <1>2, <1>3, <1>4, <1>5, <1>6, <1>7, <1>8, <1>9, <1>10, Zenon DEF LogInv

\* Erasing the header at the end of recover_from_log() keeps the invariant.
LEMMA RecoverEraseInv ==
  ASSUME LogInv, RecoverErase
  PROVE  LogInv'
<1>1. TypeOK'
  BY LogAssumption DEF LogInv, TypeOK, RecoverErase, EraseHead, memory
<1>2. OneTransaction'
  BY Zenon DEF LogInv, OneTransaction, RecoverErase, EraseHead, memory, Owners
<1>3. NoDuplicates'
  BY DEF NoDuplicates, RecoverErase, EraseHead
<1>4. HeaderWhenCommitting'
  BY Zenon DEF HeaderWhenCommitting, RecoverErase, EraseHead
<1>5. HeaderEmptyOutside'
  BY Zenon DEF HeaderEmptyOutside, RecoverErase, EraseHead
<1>6. QuietRecovery'
  BY Zenon DEF QuietRecovery, RecoverErase
<1>7. Installed'
  BY Zenon DEF LogInv, QuietRecovery, Installed, RecoverErase, Installing
<1>8. LoggedIsPinned'
  BY DEF LoggedIsPinned, RecoverErase, EraseHead
<1>9. CleanIsCurrent'
  BY Zenon DEF LogInv, QuietRecovery, CleanIsCurrent, RecoverErase, EraseHead, memory
<1>10. HeldIsCached'
  BY Zenon DEF LogInv, HeldIsCached, RecoverErase, EraseHead, memory
<1> QED BY <1>1, <1>2, <1>3, <1>4, <1>5, <1>6, <1>7, <1>8, <1>9, <1>10, Zenon DEF LogInv

\* begin_trans() keeps the invariant: it enters only when log.busy is clear.
LEMMA BeginTransInv ==
  ASSUME LogInv, NEW p \in Proc, BeginTrans(p)
  PROVE  LogInv'
<1>1. TypeOK'
  BY Zenon DEF LogInv, TypeOK, BeginTrans, PCs
<1>2. OneTransaction'
  BY DEF LogInv, TypeOK, OneTransaction, BeginTrans, InTrans, Owners
<1>3. NoDuplicates'
  BY Zenon DEF LogInv, NoDuplicates, BeginTrans
<1>4. HeaderWhenCommitting'
  BY Zenon DEF LogInv, TypeOK, HeaderWhenCommitting, BeginTrans
<1>5. HeaderEmptyOutside'
  BY Zenon DEF LogInv, TypeOK, HeaderEmptyOutside, BeginTrans
<1>6. QuietRecovery'
  BY Zenon DEF QuietRecovery, BeginTrans
<1>7. Installed'
  BY Zenon DEF LogInv, TypeOK, Installed, BeginTrans, Installing
<1>8. LoggedIsPinned'
  BY DEF LogInv, TypeOK, LoggedIsPinned, BeginTrans, Installing
<1>9. CleanIsCurrent'
  BY Zenon DEF LogInv, CleanIsCurrent, BeginTrans
<1>10. HeldIsCached'
  BY DEF LogInv, TypeOK, HeldIsCached, BeginTrans
<1> QED BY <1>1, <1>2, <1>3, <1>4, <1>5, <1>6, <1>7, <1>8, <1>9, <1>10, Zenon DEF LogInv

\* Changing a block of the buffer cache inside a transaction keeps the invariant.
LEMMA ModifyInv ==
  ASSUME LogInv, NEW p \in Proc, NEW b \in Block, NEW d \in Data, Modify(p, b, d)
  PROVE  LogInv'
<1>1. TypeOK'
  BY Zenon DEF LogInv, TypeOK, Modify, PCs
<1>2. OneTransaction'
  BY DEF LogInv, OneTransaction, Modify, InTrans, Owners
<1>3. NoDuplicates'
  BY Zenon DEF LogInv, NoDuplicates, Modify
<1>4. HeaderWhenCommitting'
  BY DEF LogInv, HeaderWhenCommitting, Modify
<1>5. HeaderEmptyOutside'
  BY DEF HeaderEmptyOutside, Modify
<1>6. QuietRecovery'
  BY Zenon DEF QuietRecovery, Modify
<1>7. Installed'
  BY DEF LogInv, Installed, Modify, Installing
<1>8. LoggedIsPinned'
  <2>1. SUFFICES ASSUME NEW i \in 1 .. Len(lh), ~(Installing' /\ i < tail)
                 PROVE  /\ lh[i] \in dirty
                        /\ cache'[lh[i]] # NoData
                        /\ (\A q \in Proc : held'[q] # lh[i]) => cache'[lh[i]] = dlog[i]
    BY DEF LoggedIsPinned, Modify
  <2>2. sys = "up" /\ lh[i] \in Block /\ held'[p] = b /\ ~Installing
    BY DEF LogInv, TypeOK, OneTransaction, Owners, InTrans, Modify, Installing
  <2>3. held[p] = NoBlock /\ (\A q \in Proc : q # p => held'[q] = held[q])
    BY Zenon DEF LogInv, TypeOK, HeldIsCached, Modify
  <2>4. /\ lh[i] \in dirty
        /\ cache[lh[i]] # NoData
        /\ (\A q \in Proc : held[q] # lh[i]) => cache[lh[i]] = dlog[i]
    BY <2>2, Zenon DEF LogInv, LoggedIsPinned
  <2>5. CASE lh[i] = b
    BY <2>2, <2>4, <2>5, LogAssumption, Zenon DEF LogInv, TypeOK, Modify
  <2>6. CASE lh[i] # b
    <3>1. cache'[lh[i]] = cache[lh[i]]
      BY <2>2, <2>6, Zenon DEF LogInv, TypeOK, Modify
    <3> QED BY <2>2, <2>3, <2>4, <2>6, <3>1, LogAssumption, Zenon
  <2> QED BY <2>5, <2>6, Zenon
<1>9. CleanIsCurrent'
  BY LogAssumption DEF LogInv, TypeOK, CleanIsCurrent, HeldIsCached, Modify
<1>10. HeldIsCached'
  BY LogAssumption, Zenon DEF LogInv, TypeOK, HeldIsCached, Modify
<1> QED BY <1>1, <1>2, <1>3, <1>4, <1>5, <1>6, <1>7, <1>8, <1>9, <1>10, Zenon DEF LogInv

\* log_write() keeps the invariant: with absorption or with a fresh slot, the slot
\* it writes is the one of the block, and the other slots keep theirs.
LEMMA LogWriteInv ==
  ASSUME LogInv, NEW p \in Proc, LogWrite(p)
  PROVE  LogInv'
<1> DEFINE b == held[p]  s == SlotFor(b)
<1>a. b \in Block /\ cache[b] \in Data /\ Len(lh) < NLog - 1 /\ Len(lh) \in Nat /\ lh \in Seq(Block)
  BY LogAssumption DEF LogInv, TypeOK, HeldIsCached, LogWrite, LogWritePanics
<1>b. \/ s \in 1 .. Len(lh) /\ lh[s] = b /\ lh' = lh
      \/ s = Len(lh) + 1 /\ (\A i \in 1 .. Len(lh) : lh[i] # b) /\ lh' = Append(lh, b)
  BY DEF SlotFor, LogWrite
<1>c. s \in Slots /\ dlog' = [dlog EXCEPT ![s] = cache[b]] /\ dirty' = dirty \cup {b}
  BY <1>a, <1>b, LogAssumption DEF LogWrite, Slots
<1> HIDE DEF s
<1>1. TypeOK'
  <2>1. lh' \in Seq(Block) /\ Len(lh') \in 0 .. (NLog - 1)
    <3>1. Append(lh, b) \in Seq(Block) /\ Len(Append(lh, b)) = Len(lh) + 1
      BY <1>a
    <3> QED BY <1>a, <1>b, <3>1, LogAssumption
  <2>2. dlog' \in [Slots -> Data] /\ dirty' \in SUBSET Block
    BY <1>a, <1>c, Zenon DEF LogInv, TypeOK
  <2> QED BY <2>1, <2>2, Zenon DEF LogInv, TypeOK, LogWrite, PCs
<1>2. OneTransaction'
  BY DEF LogInv, OneTransaction, LogWrite, InTrans, Owners
<1>3. NoDuplicates'
  BY <1>b DEF LogInv, NoDuplicates, LogWrite
<1>4. HeaderWhenCommitting'
  BY DEF LogInv, OneTransaction, HeaderWhenCommitting, LogWrite, InTrans, Owners
<1>5. HeaderEmptyOutside'
  BY DEF HeaderEmptyOutside, LogWrite
<1>6. QuietRecovery'
  BY Zenon DEF QuietRecovery, LogWrite
<1>7. Installed'
  BY DEF LogInv, OneTransaction, Installed, LogWrite, InTrans, Owners, Installing
<1>8. LoggedIsPinned'
  <2>1. sys = "up" /\ ~Installing /\ (\A q \in Proc : q # p => held[q] = NoBlock)
    BY DEF LogInv, TypeOK, OneTransaction, HeldIsCached, LogWrite, Owners, InTrans, Installing
  <2>2. SUFFICES ASSUME NEW i \in 1 .. Len(lh')
                 PROVE  /\ lh'[i] \in dirty' /\ cache'[lh'[i]] # NoData
                        /\ (\A q \in Proc : held'[q] # lh'[i]) => cache'[lh'[i]] = dlog'[i]
    BY Zenon DEF LoggedIsPinned
  <2>3. cache' = cache /\ (\A q \in Proc : held'[q] = NoBlock)
    BY <2>1, Zenon DEF LogInv, TypeOK, LogWrite
  <2>4. CASE i = s
    <3>1. lh'[i] = b /\ dlog'[i] = cache[b]
      BY <1>b, <1>c, <2>4 DEF LogInv, TypeOK
    <3> QED BY <1>a, <1>c, <2>3, <3>1, LogAssumption, Zenon
  <2>5. CASE i # s
    <3>1. i \in 1 .. Len(lh) /\ lh'[i] = lh[i] /\ lh[i] # b /\ dlog'[i] = dlog[i]
      BY <1>b, <1>c, <2>5 DEF LogInv, NoDuplicates
    <3> QED BY <1>c, <2>1, <2>3, <3>1, Zenon DEF LogInv, LoggedIsPinned
  <2> QED BY <2>4, <2>5, Zenon
<1>9. CleanIsCurrent'
  BY <1>b DEF LogInv, CleanIsCurrent, LogWrite
<1>10. HeldIsCached'
  BY Zenon DEF LogInv, TypeOK, HeldIsCached, LogWrite
<1> QED BY <1>1, <1>2, <1>3, <1>4, <1>5, <1>6, <1>7, <1>8, <1>9, <1>10, Zenon DEF LogInv

\* A panic in log_write() keeps the invariant: nothing reaches the disk.
LEMMA LogPanicInv ==
  ASSUME LogInv, NEW p \in Proc, LogPanic(p)
  PROVE  LogInv'
<1>1. TypeOK'
  BY Zenon DEF LogInv, TypeOK, LogPanic, memory
<1>2. OneTransaction'
  BY Zenon DEF LogInv, OneTransaction, LogPanic, memory, Owners
<1>3. NoDuplicates'
  BY DEF LogInv, NoDuplicates, LogPanic
<1>4. HeaderWhenCommitting'
  BY Zenon DEF LogInv, OneTransaction, HeaderWhenCommitting, LogPanic, InTrans, Owners
<1>5. HeaderEmptyOutside'
  BY Zenon DEF HeaderEmptyOutside, LogPanic
<1>6. QuietRecovery'
  BY Zenon DEF QuietRecovery, LogPanic
<1>7. Installed'
  BY Zenon DEF LogInv, OneTransaction, Installed, LogPanic, InTrans, Owners, Installing
<1>8. LoggedIsPinned'
  BY Zenon DEF LoggedIsPinned, LogPanic
<1>9. CleanIsCurrent'
  BY Zenon DEF LogInv, CleanIsCurrent, LogPanic, memory
<1>10. HeldIsCached'
  BY Zenon DEF LogInv, HeldIsCached, LogPanic, memory
<1> QED BY <1>1, <1>2, <1>3, <1>4, <1>5, <1>6, <1>7, <1>8, <1>9, <1>10, Zenon DEF LogInv

\* commit_trans() up to the write of the header keeps the invariant.
LEMMA CommitTransInv ==
  ASSUME LogInv, NEW p \in Proc, CommitTrans(p)
  PROVE  LogInv'
<1>1. TypeOK'
  BY LogAssumption DEF LogInv, TypeOK, CommitTrans, memory, PCs
<1>2. OneTransaction'
  BY DEF LogInv, TypeOK, OneTransaction, CommitTrans, memory, InTrans, Owners
<1>3. NoDuplicates'
  BY Zenon DEF LogInv, NoDuplicates, CommitTrans
<1>4. HeaderWhenCommitting'
  BY Zenon DEF LogInv, TypeOK, HeaderWhenCommitting, CommitTrans
<1>5. HeaderEmptyOutside'
  BY DEF LogInv, TypeOK, HeaderEmptyOutside, CommitTrans
<1>6. QuietRecovery'
  BY Zenon DEF QuietRecovery, CommitTrans
<1>7. Installed'
  BY DEF LogInv, TypeOK, Installed, CommitTrans, Installing
<1>8. LoggedIsPinned'
  BY DEF LogInv, OneTransaction, LoggedIsPinned, CommitTrans, memory, InTrans, Owners, Installing
<1>9. CleanIsCurrent'
  BY Zenon DEF LogInv, CleanIsCurrent, CommitTrans, memory
<1>10. HeldIsCached'
  BY Zenon DEF LogInv, TypeOK, HeldIsCached, CommitTrans, memory
<1> QED BY <1>1, <1>2, <1>3, <1>4, <1>5, <1>6, <1>7, <1>8, <1>9, <1>10, Zenon DEF LogInv

\* A round of install_trans() during commit_trans() keeps the invariant.
LEMMA CommitInstallInv ==
  ASSUME LogInv, NEW p \in Proc, CommitInstall(p)
  PROVE  LogInv'
<1>1. TypeOK'
  BY LogAssumption DEF LogInv, TypeOK, CommitInstall, InstallBlock, Slots
<1>2. OneTransaction'
  BY Zenon DEF LogInv, OneTransaction, CommitInstall, InstallBlock, Owners
<1>3. NoDuplicates'
  BY Zenon DEF LogInv, NoDuplicates, CommitInstall, InstallBlock
<1>4. HeaderWhenCommitting'
  BY Zenon DEF LogInv, HeaderWhenCommitting, CommitInstall, InstallBlock
<1>5. HeaderEmptyOutside'
  BY Zenon DEF HeaderEmptyOutside, CommitInstall, InstallBlock
<1>6. QuietRecovery'
  BY Zenon DEF QuietRecovery, CommitInstall, InstallBlock
<1>7. Installed'
  BY DEF LogInv, TypeOK, Installed, LoggedIsPinned, CommitInstall, InstallBlock, Installing
<1>8. LoggedIsPinned'
  BY DEF LogInv, TypeOK, OneTransaction, NoDuplicates, LoggedIsPinned, CommitInstall, InstallBlock, Installing
<1>9. CleanIsCurrent'
  BY Zenon DEF LogInv, TypeOK, CleanIsCurrent, CommitInstall, InstallBlock
<1>10. HeldIsCached'
  BY LogAssumption DEF LogInv, TypeOK, HeldIsCached, CommitInstall, InstallBlock, Slots
<1> QED BY <1>1, <1>2, <1>3, <1>4, <1>5, <1>6, <1>7, <1>8, <1>9, <1>10, Zenon DEF LogInv

\* Erasing the header at the end of commit_trans() keeps the invariant.
LEMMA CommitEraseInv ==
  ASSUME LogInv, NEW p \in Proc, CommitErase(p)
  PROVE  LogInv'
<1>1. TypeOK'
  BY LogAssumption DEF LogInv, TypeOK, CommitErase, EraseHead, memory, PCs
<1>2. OneTransaction'
  BY DEF LogInv, OneTransaction, CommitErase, EraseHead, memory, InTrans, Owners
<1>3. NoDuplicates'
  BY DEF NoDuplicates, CommitErase, EraseHead
<1>4. HeaderWhenCommitting'
  BY Zenon DEF HeaderWhenCommitting, CommitErase, EraseHead
<1>5. HeaderEmptyOutside'
  BY Zenon DEF HeaderEmptyOutside, CommitErase, EraseHead
<1>6. QuietRecovery'
  BY Zenon DEF QuietRecovery, CommitErase
<1>7. Installed'
  BY DEF LogInv, TypeOK, OneTransaction, Installed, CommitErase, InTrans, Owners, Installing
<1>8. LoggedIsPinned'
  BY DEF LoggedIsPinned, CommitErase, EraseHead
<1>9. CleanIsCurrent'
  BY DEF LogInv, TypeOK, Installed, CleanIsCurrent, HeldIsCached, CommitErase, EraseHead, memory, Installing
<1>10. HeldIsCached'
  BY DEF LogInv, HeldIsCached, CommitErase, EraseHead, memory
<1> QED BY <1>1, <1>2, <1>3, <1>4, <1>5, <1>6, <1>7, <1>8, <1>9, <1>10, Zenon DEF LogInv

\* Clearing log.busy and waking the sleepers in commit_trans() keeps the invariant.
LEMMA CommitEndInv ==
  ASSUME LogInv, NEW p \in Proc, CommitEnd(p)
  PROVE  LogInv'
<1>1. TypeOK'
  BY Zenon DEF LogInv, TypeOK, CommitEnd, PCs
<1>2. OneTransaction'
  BY Zenon DEF LogInv, OneTransaction, CommitEnd, InTrans, Owners
<1>3. NoDuplicates'
  BY Zenon DEF LogInv, NoDuplicates, CommitEnd
<1>4. HeaderWhenCommitting'
  BY Zenon DEF LogInv, HeaderWhenCommitting, CommitEnd
<1>5. HeaderEmptyOutside'
  BY Zenon DEF LogInv, HeaderEmptyOutside, CommitEnd
<1>6. QuietRecovery'
  BY Zenon DEF QuietRecovery, CommitEnd
<1>7. Installed'
  BY Zenon DEF LogInv, Installed, CommitEnd, Installing
<1>8. LoggedIsPinned'
  BY Zenon DEF LogInv, LoggedIsPinned, CommitEnd, Installing
<1>9. CleanIsCurrent'
  BY Zenon DEF LogInv, CleanIsCurrent, CommitEnd
<1>10. HeldIsCached'
  BY Zenon DEF LogInv, HeldIsCached, CommitEnd
<1> QED BY <1>1, <1>2, <1>3, <1>4, <1>5, <1>6, <1>7, <1>8, <1>9, <1>10, Zenon DEF LogInv

\* Reading a block into the buffer cache keeps the invariant.
LEMMA LoadInv ==
  ASSUME LogInv, NEW b \in Block, Load(b)
  PROVE  LogInv'
<1>1. TypeOK'
  BY Zenon DEF LogInv, TypeOK, Load
<1>2. OneTransaction'
  BY Zenon DEF LogInv, OneTransaction, Load, Owners
<1>3. NoDuplicates'
  BY Zenon DEF LogInv, NoDuplicates, Load
<1>4. HeaderWhenCommitting'
  BY Zenon DEF LogInv, HeaderWhenCommitting, Load
<1>5. HeaderEmptyOutside'
  BY Zenon DEF LogInv, HeaderEmptyOutside, Load
<1>6. QuietRecovery'
  BY Zenon DEF LogInv, QuietRecovery, Load
<1>7. Installed'
  BY Zenon DEF LogInv, Installed, Load, Installing
<1>8. LoggedIsPinned'
  BY LogAssumption DEF LogInv, TypeOK, LoggedIsPinned, Load, Installing
<1>9. CleanIsCurrent'
  BY LogAssumption, Zenon DEF LogInv, TypeOK, CleanIsCurrent, Load
<1>10. HeldIsCached'
  BY LogAssumption, Zenon DEF LogInv, TypeOK, HeldIsCached, Load
<1> QED BY <1>1, <1>2, <1>3, <1>4, <1>5, <1>6, <1>7, <1>8, <1>9, <1>10, Zenon DEF LogInv

\* bget() recycling a buffer keeps the invariant: it never takes a pinned one.
LEMMA RecycleInv ==
  ASSUME LogInv, NEW b \in Block, Recycle(b)
  PROVE  LogInv'
<1>1. TypeOK'
  BY Zenon DEF LogInv, TypeOK, Recycle
<1>2. OneTransaction'
  BY Zenon DEF LogInv, OneTransaction, Recycle, Owners
<1>3. NoDuplicates'
  BY Zenon DEF LogInv, NoDuplicates, Recycle
<1>4. HeaderWhenCommitting'
  BY Zenon DEF LogInv, HeaderWhenCommitting, Recycle
<1>5. HeaderEmptyOutside'
  BY Zenon DEF LogInv, HeaderEmptyOutside, Recycle
<1>6. QuietRecovery'
  BY Zenon DEF LogInv, QuietRecovery, Recycle
<1>7. Installed'
  BY Zenon DEF LogInv, Installed, Recycle, Installing
<1>8. LoggedIsPinned'
  BY LogAssumption DEF LogInv, TypeOK, LoggedIsPinned, Recycle, Installing
<1>9. CleanIsCurrent'
  BY LogAssumption, Zenon DEF LogInv, TypeOK, CleanIsCurrent, Recycle
<1>10. HeldIsCached'
  BY LogAssumption, Zenon DEF LogInv, TypeOK, HeldIsCached, Recycle
<1> QED BY <1>1, <1>2, <1>3, <1>4, <1>5, <1>6, <1>7, <1>8, <1>9, <1>10, Zenon DEF LogInv

\* A power failure at any moment keeps the invariant.
LEMMA CrashInv ==
  ASSUME LogInv, Crash
  PROVE  LogInv'
<1>1. TypeOK'
  BY LogAssumption DEF LogInv, TypeOK, Crash, PCs
<1>2. OneTransaction'
  BY Zenon DEF OneTransaction, Crash, Owners, InTrans
<1>3. NoDuplicates'
  BY DEF LogInv, NoDuplicates, Crash
<1>4. HeaderWhenCommitting'
  BY Zenon DEF HeaderWhenCommitting, Crash
<1>5. HeaderEmptyOutside'
  BY Zenon DEF HeaderEmptyOutside, Crash
<1>6. QuietRecovery'
  BY Zenon DEF QuietRecovery, Crash
<1>7. Installed'
  BY Zenon DEF Installed, Crash, Installing
<1>8. LoggedIsPinned'
  BY Zenon DEF LoggedIsPinned, Crash
<1>9. CleanIsCurrent'
  BY Zenon DEF CleanIsCurrent, Crash
<1>10. HeldIsCached'
  BY Zenon DEF HeldIsCached, Crash
<1> QED BY <1>1, <1>2, <1>3, <1>4, <1>5, <1>6, <1>7, <1>8, <1>9, <1>10, Zenon DEF LogInv

\* What recover_from_log() would leave in a home block: the log block of the slot
\* that names it, and the block itself when no slot does.
LEMMA HomeOfRecovered ==
  ASSUME LogInv
  PROVE  /\ \A i \in 1 .. Len(dhead) : Recovered[dhead[i]] = dlog[i]
         /\ \A b \in Block : (\A i \in 1 .. Len(dhead) : dhead[i] # b) => Recovered[b] = disk[b]
         /\ Recovered = [b \in Block |-> Recovered[b]]
<1>1. ASSUME NEW i \in 1 .. Len(dhead) PROVE Recovered[dhead[i]] = dlog[i]
  <2>1. dhead[i] \in Block
    BY DEF LogInv, TypeOK
  <2>2. (CHOOSE j \in 1 .. Len(dhead) : dhead[j] = dhead[i]) = i
    BY Zenon DEF LogInv, NoDuplicates
  <2> QED BY <2>1, <2>2, Zenon DEF Recovered
<1> QED BY <1>1, Zenon DEF Recovered

\* With no transaction in progress bread() returns what recovery would restore.
LEMMA QuietVisible ==
  ASSUME LogInv, sys = "up", dhead = <<>>, lh = <<>>, \A p \in Proc : held[p] = NoBlock
  PROVE  Visible = Recovered
BY LogAssumption, HomeOfRecovered DEF LogInv, TypeOK, CleanIsCurrent, Visible, Recovered

\* Before the commit point the log holds what bread() returns for every block the
\* transaction changed, and the disk for every other.
LEMMA LoggedVisible ==
  ASSUME LogInv, NEW p \in Proc, sys = "up", pc[p] = "in"
  PROVE  /\ \A i \in 1 .. Len(lh) : Visible[lh[i]] = dlog[i]
         /\ \A b \in Block : (\A i \in 1 .. Len(lh) : lh[i] # b) => Visible[b] = disk[b]
<1>1. ~Installing /\ (\A q \in Proc : held[q] = NoBlock)
  BY DEF LogInv, TypeOK, OneTransaction, Owners, InTrans, Installing, HeldIsCached
<1>2. ASSUME NEW i \in 1 .. Len(lh) PROVE Visible[lh[i]] = dlog[i]
  BY <1>1, LogAssumption DEF LogInv, TypeOK, LoggedIsPinned, Visible
<1>3. ASSUME NEW b \in Block, \A i \in 1 .. Len(lh) : lh[i] # b
      PROVE  Visible[b] = disk[b]
  BY <1>1, <1>3, LogAssumption, Zenon DEF LogInv, TypeOK, CleanIsCurrent, Visible
<1> QED BY <1>2, <1>3, Zenon

\* A change of home blocks that the header names is invisible after recovery.
LEMMA RecoveredStable ==
  ASSUME LogInv, LogInv', dhead' = dhead, dlog' = dlog,
         \A b \in Block : (\A i \in 1 .. Len(dhead) : dhead[i] # b) => disk'[b] = disk[b]
  PROVE  Recovered' = Recovered
BY Zenon DEF Recovered

\* install_trans() does not change what recovery would restore: it can be cut
\* short and repeated.
LEMMA InstallKeepsRecovered ==
  ASSUME LogInv, LogInv', InstallBlock, dhead = lh
  PROVE  Recovered' = Recovered
<1>1. tail \in 1 .. Len(dhead) /\ disk' = [disk EXCEPT ![dhead[tail]] = dlog[tail]]
  BY LogAssumption DEF LogInv, TypeOK, InstallBlock
<1>2. ASSUME NEW b \in Block, \A i \in 1 .. Len(dhead) : dhead[i] # b
      PROVE  disk'[b] = disk[b]
  BY <1>1, <1>2, Zenon DEF LogInv, TypeOK
<1>3. dhead' = dhead /\ dlog' = dlog
  BY Zenon DEF InstallBlock
<1> QED BY <1>2, <1>3, RecoveredStable, Zenon

\* When install_trans() is over, erasing the header does not change what recovery
\* would restore.
LEMMA EraseKeepsRecovered ==
  ASSUME LogInv, EraseHead, Installing, dhead = lh
  PROVE  Recovered = disk /\ Recovered' = disk
<1>1. \A i \in 1 .. Len(dhead) : disk[dhead[i]] = dlog[i]
  BY DEF LogInv, TypeOK, Installed, EraseHead
<1>2. ASSUME NEW b \in Block PROVE Recovered[b] = disk[b]
  <2>1. CASE \E i \in 1 .. Len(dhead) : dhead[i] = b
    BY <1>1, <2>1, HomeOfRecovered
  <2>2. CASE \A i \in 1 .. Len(dhead) : dhead[i] # b
    BY <2>2, HomeOfRecovered, Zenon
  <2> QED BY <2>1, <2>2, Zenon
<1>3. disk = [b \in Block |-> disk[b]]
  BY Zenon DEF LogInv, TypeOK
<1>4. Recovered = disk
  BY <1>2, <1>3, HomeOfRecovered, Zenon
<1>5. dhead' = <<>> /\ disk' = disk /\ dlog' = dlog
  BY Zenon DEF EraseHead
<1>6. Recovered' = [b \in Block |-> disk[b]]
  BY <1>5 DEF Recovered
<1> QED BY <1>3, <1>4, <1>6, Zenon

\* Every step of log.c is a step of the transactional disk or changes none of it.
LEMMA RefineStep ==
  ASSUME LogInv, LogInv', Next
  PROVE  TD!Next \/ UNCHANGED <<Visible, Recovered, Owners>>
<1>1. CASE ReadHead
  BY <1>1, Zenon DEF ReadHead, memory, Visible, Recovered, Owners
<1>2. CASE RecoverInstall
  <2>1. Recovered' = Recovered
    BY <1>2, InstallKeepsRecovered, Zenon DEF RecoverInstall, LogInv, HeaderWhenCommitting
  <2> QED BY <1>2, <2>1, Zenon DEF RecoverInstall, InstallBlock, Visible, Owners
<1>3. CASE RecoverErase
  <2>1. Recovered = disk /\ Recovered' = disk
    BY <1>3, EraseKeepsRecovered, Zenon DEF RecoverErase, LogInv, HeaderWhenCommitting, Installing
  <2>3. Visible' = disk
    BY <1>3, LogAssumption DEF RecoverErase, EraseHead, memory, Visible, LogInv, TypeOK, QuietRecovery, CleanIsCurrent, HeldIsCached
  <2> QED BY <1>3, <2>1, <2>3, Zenon DEF RecoverErase, Visible, Owners
<1>4. ASSUME NEW p \in Proc, BeginTrans(p)
      PROVE  TD!Next \/ UNCHANGED <<Visible, Recovered, Owners>>
  <2>1. UNCHANGED <<Visible, Recovered>>
    BY <1>4, Zenon DEF BeginTrans, Visible, Recovered
  <2>2. CASE busy # 0
    BY <1>4, <2>1, <2>2, Zenon DEF BeginTrans, Owners, InTrans, LogInv, TypeOK
  <2>3. CASE busy = 0
    <3>1. Owners = {} /\ Owners' = {p}
      BY <1>4, <2>3 DEF BeginTrans, Owners, InTrans, LogInv, TypeOK, OneTransaction
    <3>2. Visible = Recovered
      BY <1>4, <3>1, QuietVisible, Zenon DEF BeginTrans, Owners, InTrans, LogInv, TypeOK, HeaderWhenCommitting, HeaderEmptyOutside, HeldIsCached
    <3> QED BY <2>1, <3>1, <3>2, Zenon DEF TD!Next, TD!Begin
  <2> QED BY <2>2, <2>3, Zenon
<1>5. ASSUME NEW p \in Proc, NEW b \in Block, NEW d \in Data, Modify(p, b, d)
      PROVE  TD!Next
  <2>1. Visible' = [Visible EXCEPT ![b] = d]
    BY <1>5, LogAssumption, Zenon DEF Modify, Visible, LogInv, TypeOK
  <2>2. Recovered' = Recovered
    BY <1>5, Zenon DEF Modify, Recovered
  <2>3. Owners = {p} /\ Owners' = {p}
    BY <1>5 DEF Modify, Owners, InTrans, LogInv, TypeOK, OneTransaction
  <2> QED BY <2>1, <2>2, <2>3, Zenon DEF TD!Next, TD!Write
<1>6. ASSUME NEW p \in Proc, LogWrite(p)
      PROVE  UNCHANGED <<Visible, Recovered, Owners>>
  <2>1. dhead = <<>>
    BY <1>6 DEF LogWrite, Owners, InTrans, LogInv, TypeOK, OneTransaction, HeaderWhenCommitting
  <2> QED BY <1>6, <2>1 DEF LogWrite, Visible, Recovered, Owners, InTrans, LogInv, TypeOK
<1>7. ASSUME NEW p \in Proc, LogPanic(p)
      PROVE  UNCHANGED <<Visible, Recovered, Owners>>
  BY <1>7, Zenon DEF LogPanic, memory, Visible, Recovered, Owners
<1>8. ASSUME NEW p \in Proc, CommitTrans(p)
      PROVE  TD!Next \/ UNCHANGED <<Visible, Recovered, Owners>>
  <2>a. Visible' = Visible
    BY <1>8, Zenon DEF CommitTrans, memory, Visible
  <2>b. Owners = {p} /\ Owners' = {p}
    BY <1>8 DEF CommitTrans, Owners, InTrans, LogInv, TypeOK, OneTransaction
  <2>1. Owners = {p} /\ Owners' = {p} /\ Visible' = Visible
    BY <2>a, <2>b, Zenon
  <2>2. CASE Len(lh) > 0
    <3>1. Visible' = Recovered'
      <4>1. dhead' = lh /\ dlog' = dlog /\ disk' = disk
        BY <1>8, <2>2, Zenon DEF CommitTrans
      <4>2. \A b \in Block : Recovered'[b] = Visible[b]
        <5>1. /\ \A i \in 1 .. Len(lh) : Visible[lh[i]] = dlog[i]
              /\ \A b \in Block : (\A i \in 1 .. Len(lh) : lh[i] # b) => Visible[b] = disk[b]
          BY <1>8, LoggedVisible, Zenon DEF CommitTrans
        <5>2. ASSUME NEW b \in Block
              PROVE  Recovered'[b] = Visible[b]
          <6>1. Recovered'[b] = IF \E i \in 1 .. Len(lh) : lh[i] = b
                                THEN dlog[CHOOSE i \in 1 .. Len(lh) : lh[i] = b] ELSE disk[b]
            BY <4>1, Zenon DEF Recovered
          <6>2. CASE \E i \in 1 .. Len(lh) : lh[i] = b
            <7> DEFINE j == CHOOSE i \in 1 .. Len(lh) : lh[i] = b
            <7>1. j \in 1 .. Len(lh) /\ lh[j] = b
              BY <6>2, Zenon
            <7> HIDE DEF j
            <7>2. Visible[b] = dlog[j]
              BY <5>1, <7>1, Zenon
            <7> QED BY <6>1, <6>2, <7>2, Zenon DEF j
          <6>3. CASE ~\E i \in 1 .. Len(lh) : lh[i] = b
            BY <5>1, <6>1, <6>3, Zenon
          <6> QED BY <6>2, <6>3, Zenon
        <5> QED BY <5>2, Zenon
      <4>3. Visible = [b \in Block |-> Visible[b]]
        BY <1>8, Zenon DEF CommitTrans, Visible
      <4>4. Recovered' = [b \in Block |-> Recovered'[b]]
        BY Zenon DEF Recovered
      <4> QED BY <2>1, <4>2, <4>3, <4>4, Zenon
    <3> QED BY <2>1, <3>1, Zenon DEF TD!Next, TD!Commit
  <2>3. CASE ~(Len(lh) > 0)
    BY <1>8, <2>1, <2>3, Zenon DEF CommitTrans, Recovered
  <2> QED BY <2>2, <2>3, Zenon
<1>9. ASSUME NEW p \in Proc, CommitInstall(p)
      PROVE  UNCHANGED <<Visible, Recovered, Owners>>
  <2>1. Recovered' = Recovered
    BY <1>9, InstallKeepsRecovered, Zenon DEF CommitInstall, LogInv, HeaderWhenCommitting
  <2>2. Visible' = Visible
    <3>a. \A q \in Proc : held[q] = NoBlock
      <4>1. pc[p] = "install"
        BY <1>9, Zenon DEF CommitInstall
      <4>2. \A q \in Proc : pc[q] # "held"
        BY <4>1, Zenon DEF LogInv, OneTransaction, Owners, InTrans
      <4> QED BY <4>2, Zenon DEF LogInv, HeldIsCached
    <3>b. tail \in 1 .. Len(lh) /\ tail \in Slots /\ lh[tail] \in Block
      BY <1>9, LogAssumption DEF CommitInstall, InstallBlock, LogInv, TypeOK, Slots
    <3>1. cache[lh[tail]] = dlog[tail] /\ lh[tail] \in Block /\ dlog[tail] # NoData
      <4>1. sys = "up" /\ dlog[tail] \in Data /\ lh[tail] # NoBlock
        BY <1>9, <3>b, LogAssumption, Zenon DEF CommitInstall, LogInv, TypeOK
      <4>2. cache[lh[tail]] = dlog[tail]
        BY <3>a, <3>b, <4>1 DEF LogInv, LoggedIsPinned
      <4> QED BY <3>b, <4>1, <4>2, LogAssumption, Zenon
    <3>2. /\ sys = "up" /\ sys' = "up"
          /\ disk' = [disk EXCEPT ![lh[tail]] = dlog[tail]]
          /\ cache' = [cache EXCEPT ![lh[tail]] = dlog[tail]]
      BY <1>9, Zenon DEF CommitInstall, InstallBlock
    <3>3. disk \in [Block -> Data] /\ cache \in [Block -> Data \cup {NoData}]
      BY Zenon DEF LogInv, TypeOK
    <3> QED BY <3>1, <3>2, <3>3, Zenon DEF Visible
  <2> QED BY <1>9, <2>1, <2>2, Zenon DEF CommitInstall, InstallBlock, Owners
<1>10. ASSUME NEW p \in Proc, CommitErase(p)
      PROVE  UNCHANGED <<Visible, Recovered, Owners>>
  <2>1. Recovered = disk /\ Recovered' = disk
    BY <1>10, EraseKeepsRecovered, Zenon DEF CommitErase, LogInv, HeaderWhenCommitting, Installing
  <2>2. Visible' = Visible
    BY <1>10, Zenon DEF CommitErase, EraseHead, memory, Visible
  <2>3. Owners' = Owners
    BY <1>10, Zenon DEF CommitErase, Owners, InTrans, LogInv, TypeOK
  <2> QED BY <2>1, <2>2, <2>3, Zenon
<1>11. ASSUME NEW p \in Proc, CommitEnd(p)
      PROVE  TD!Next
  <2>1. UNCHANGED <<Visible, Recovered>>
    BY <1>11, Zenon DEF CommitEnd, Visible, Recovered
  <2>2. Owners = {p} /\ Owners' = {}
    BY <1>11 DEF CommitEnd, Owners, InTrans, LogInv, TypeOK, OneTransaction
  <2>3. Visible = Recovered
    BY <1>11, <2>2, QuietVisible, Zenon DEF CommitEnd, Owners, InTrans, LogInv, TypeOK, HeaderWhenCommitting, HeaderEmptyOutside, HeldIsCached
  <2> QED BY <2>1, <2>2, <2>3, Zenon DEF TD!Next, TD!End
<1>12. ASSUME NEW b \in Block, Load(b) \/ Recycle(b)
      PROVE  UNCHANGED <<Visible, Recovered, Owners>>
  <2>1. Visible' = Visible
    <3>1. CASE Load(b)
      BY <3>1, LogAssumption DEF Load, Visible, LogInv, TypeOK
    <3>2. CASE Recycle(b)
      <4>1. cache[b] = disk[b]
        BY <3>2, Zenon DEF Recycle, LogInv, CleanIsCurrent
      <4> QED BY <3>2, <4>1, LogAssumption DEF Recycle, Visible, LogInv, TypeOK
    <3> QED BY <1>12, <3>1, <3>2, Zenon
  <2> QED BY <1>12, <2>1 DEF Load, Recycle, Recovered, Owners
<1>13. CASE Crash
  BY <1>13, Zenon DEF Crash, Visible, Recovered, Owners, InTrans, TD!Next, TD!Fail
<1> QED BY <1>1, <1>2, <1>3, <1>4, <1>5, <1>6, <1>7, <1>8, <1>9, <1>10, <1>11, <1>12, <1>13, Zenon
        DEF Next, Recover, Commit

\* A freshly booted machine with an empty log satisfies the invariant.
LEMMA InitLogInv ==
  ASSUME Init
  PROVE  LogInv
<1>1. TypeOK
  BY LogAssumption DEF Init, TypeOK, Slots, PCs
<1>2. OneTransaction
  BY Zenon DEF Init, OneTransaction, Owners, InTrans
<1>3. NoDuplicates
  BY DEF Init, NoDuplicates
<1>4. HeaderWhenCommitting
  BY Zenon DEF Init, HeaderWhenCommitting
<1>5. HeaderEmptyOutside
  BY Zenon DEF Init, HeaderEmptyOutside
<1>6. QuietRecovery
  BY Zenon DEF Init, QuietRecovery
<1>7. Installed
  BY Zenon DEF Init, Installed, Installing
<1>8. LoggedIsPinned
  BY Zenon DEF Init, LoggedIsPinned, Installing
<1>9. CleanIsCurrent
  BY Zenon DEF Init, CleanIsCurrent
<1>10. HeldIsCached
  BY Zenon DEF Init, HeldIsCached
<1> QED BY <1>1, <1>2, <1>3, <1>4, <1>5, <1>6, <1>7, <1>8, <1>9, <1>10, Zenon DEF LogInv

\* A step that changes none of the state of log.c keeps the invariant.
LEMMA StutterLogInv ==
  ASSUME LogInv, UNCHANGED vars
  PROVE  LogInv'
<1>1. TypeOK'
  BY Zenon DEF LogInv, vars, TypeOK
<1>2. OneTransaction'
  BY Zenon DEF LogInv, vars, OneTransaction, Owners
<1>3. NoDuplicates'
  BY DEF LogInv, vars, NoDuplicates
<1>4. HeaderWhenCommitting'
  BY Zenon DEF LogInv, vars, HeaderWhenCommitting
<1>5. HeaderEmptyOutside'
  BY Zenon DEF LogInv, vars, HeaderEmptyOutside
<1>6. QuietRecovery'
  BY Zenon DEF LogInv, vars, QuietRecovery
<1>7. Installed'
  BY Zenon DEF LogInv, vars, Installed, Installing
<1>8. LoggedIsPinned'
  BY DEF LogInv, vars, LoggedIsPinned, Installing
<1>9. CleanIsCurrent'
  BY Zenon DEF LogInv, vars, CleanIsCurrent
<1>10. HeldIsCached'
  BY Zenon DEF LogInv, vars, HeldIsCached
<1> QED BY <1>1, <1>2, <1>3, <1>4, <1>5, <1>6, <1>7, <1>8, <1>9, <1>10, Zenon DEF LogInv

\* Every step keeps the invariant.
LEMMA NextLogInv ==
  ASSUME LogInv, [Next]_vars
  PROVE  LogInv'
<1>1. CASE UNCHANGED vars
  BY <1>1, StutterLogInv, Zenon
<1>2. CASE Recover
  BY <1>2, ReadHeadInv, RecoverInstallInv, RecoverEraseInv, Zenon DEF Recover
<1>3. ASSUME NEW p \in Proc, NEW b \in Block, NEW d \in Data, Modify(p, b, d)
      PROVE  LogInv'
  BY <1>3, ModifyInv, Zenon
<1>4. ASSUME NEW p \in Proc, BeginTrans(p) \/ LogWrite(p) \/ LogPanic(p)
      PROVE  LogInv'
  BY <1>4, BeginTransInv, LogWriteInv, LogPanicInv, Zenon
<1>5. ASSUME NEW p \in Proc, CommitTrans(p) \/ Commit(p)
      PROVE  LogInv'
  BY <1>5, CommitTransInv, CommitInstallInv, CommitEraseInv, CommitEndInv, Zenon DEF Commit
<1>6. ASSUME NEW b \in Block, Load(b) \/ Recycle(b)
      PROVE  LogInv'
  BY <1>6, LoadInv, RecycleInv, Zenon
<1>7. CASE Crash
  BY <1>7, CrashInv, Zenon
<1> QED BY <1>1, <1>2, <1>3, <1>4, <1>5, <1>6, <1>7, Zenon DEF Next

\* LogInv holds in every state that log.c reaches, power failures included, for
\* any number of processes, blocks and log slots.
THEOREM LogInvariant == Spec => []LogInv
<1>1. Init => LogInv
  BY InitLogInv, Zenon
<1>2. LogInv /\ [Next]_vars => LogInv'
  BY NextLogInv, Zenon
<1> QED BY <1>1, <1>2, PTL DEF Spec

\* log.c implements the transactional disk: its transactions are atomic, isolated
\* and durable across power failures at any point of commit or of recovery.
THEOREM LogImplementsTransDisk == Spec => AtomicTransactions
<1>1. Init => TD!Init
  <2>1. ASSUME Init PROVE Recovered = disk /\ Visible = Recovered /\ Owners = {} /\ disk \in [Block -> Data]
    BY <2>1 DEF Init, Recovered, Visible, Owners, InTrans
  <2> QED BY <2>1, Zenon DEF TD!Init
<1>2. LogInv /\ LogInv' /\ [Next]_vars => [TD!Next]_(TD!vars)
  <2>1. CASE UNCHANGED vars
    BY <2>1, Zenon DEF vars, TD!vars, Visible, Recovered, Owners
  <2>2. ASSUME LogInv, LogInv', Next PROVE [TD!Next]_(TD!vars)
    BY <2>2, RefineStep, Zenon DEF TD!vars
  <2> QED BY <2>1, <2>2, Zenon
<1> QED BY <1>1, <1>2, LogInvariant, PTL DEF Spec, AtomicTransactions, TD!Spec
====
