---------------------------- MODULE StoreProofs ------------------------------
(***************************************************************************)
(* The store of Store.tla implements the atomic store, for any number of   *)
(* writers, readers and stops, and keeps what callers were told.           *)
(*                                                                         *)
(* Why a View may go on using its pointer: the object it got is the root   *)
(* of this run of the process or the copy of a transaction that is over,   *)
(* and nobody writes to either.  Why the rename may stand for the whole    *)
(* transaction: until then the file holds what the memory held when the    *)
(* lock was taken, and the copy is that data with the transaction applied. *)
(***************************************************************************)
EXTENDS Store, TLAPS

USE NamesAssumption

WriterStates == Holders \cup {"idle", "waiting", "done", "failed", "killed"}
ReaderStates == {"idle", "waiting", "viewing", "using", "done", "killed"}

\* The copy of a transaction, and the files, as far as it has come.
Progress(w) ==
  /\ pc[w] = "begin" => heap[w] = heap[live]
  /\ pc[w] = "half" => heap[w] = PutBooking(heap[live], w)
  /\ pc[w] \in {"save", "writing", "written", "renamed"} =>
       heap[w] = Transaction(heap[live], w)
  /\ pc[w] = "written" => tmp = WholeFile(heap[w])
  /\ pc[w] = "renamed" => path = WholeFile(heap[w])

\* Nobody writes to this object while the process runs.
Settled(o) == o = Root \/ (o \in Writers /\ pc[o] = "done")

Linked ==
  /\ heap = [o \in Objects |-> heap[o]]
  /\ \A w \in Writers : pc[w] \in WriterStates
  /\ \A r \in Readers : pc[r] \in ReaderStates
  /\ \A w \in Writers : Progress(w)
  /\ (up /\ \A w \in Writers : pc[w] # "renamed") => Loaded = heap[live]
  /\ Settled(live)
  /\ \A r \in Readers : pc[r] \in {"viewing", "using"} => Settled(got[r])
  /\ ~up => \A p \in Procs : ~Running(p)

StoreInv == StoreOK /\ Linked

\* A fresh process with no file satisfies it.
LEMMA InvInit == Init => StoreInv
<1> SUFFICES ASSUME Init PROVE StoreInv
  OBVIOUS
<1>1. Loaded = NewData
  BY DEF Init, Loaded, NoFile
<1>2. heap = [o \in Objects |-> NewData] /\ live = Root /\ Root \in Objects
  BY DEF Init, Objects
<1>3. StoreOK
  BY <1>2, StopsAssumption DEF Init, StoreOK, Procs, Objects, Holders, NoFile
<1>4. Linked
  BY <1>1, <1>2 DEF Init, Linked, Progress, Settled, Procs, WriterStates, ReaderStates
<1> QED
  BY <1>3, <1>4 DEF StoreInv

\* A goroutine arrives: nothing but its program counter changes.
LEMMA InvArrive ==
  ASSUME StoreInv, NEW p \in Procs, Arrive(p)
  PROVE  StoreInv'
<1>1. UNCHANGED <<life, memory, writer, readers, files>> /\ up
  BY DEF Arrive
<1>2. pc[p] = "idle" /\ pc' = [pc EXCEPT ![p] = "waiting"]
  BY DEF Arrive, Goto
<1>3. StoreOK'
  BY <1>1, <1>2 DEF StoreInv, StoreOK, Procs, Holders, life, memory, files
<1>4. \A u \in Writers : Progress(u)'
  BY <1>1, <1>2 DEF StoreInv, StoreOK, Linked, Progress, Procs, memory, files
<1>5. Linked'
  BY <1>1, <1>2, <1>4
     DEF StoreInv, StoreOK, Linked, Settled, Loaded, Procs, WriterStates, ReaderStates, life,
         memory, files
<1> QED
  BY <1>3, <1>5 DEF StoreInv

\* Whoever has the lock is the only writer at work.
LEMMA OneWriter ==
  ASSUME StoreInv, NEW w \in Writers, pc[w] \in Holders
  PROVE  \A u \in Writers \ {w} : pc[u] \notin Holders
BY DEF StoreInv, StoreOK

\* A writer at work disturbs nobody: it writes to its own copy only, which is not
\* the live data, nor what any reader has got.
LEMMA WriterWorks ==
  ASSUME StoreInv, NEW w \in Writers, NEW there \in WriterStates \ {"done", "renamed"},
         \A u \in Writers \ {w} : pc[u] \notin Holders,
         pc[w] \notin {"done", "renamed"}, pc' = [pc EXCEPT ![w] = there],
         heap' = [heap EXCEPT ![w] = heap'[w]], up,
         UNCHANGED <<life, live, got, path>>,
         Progress(w)'
  PROVE  Linked'
<1>1. live # w /\ live \in Objects /\ heap'[live] = heap[live]
  BY DEF StoreInv, StoreOK, Linked, Settled, Objects
<1>2. pc \in [Procs -> Holders \cup
                {"idle", "waiting", "viewing", "using", "done", "failed", "killed"}]
  BY DEF StoreInv, StoreOK
<1>3. \A p \in Procs : p # w => pc'[p] = pc[p]
  BY <1>2
<1>4. \A u \in Writers : Progress(u)'
  BY <1>3 DEF Progress, Procs, Holders
<1>5. heap' = [o \in Objects |-> heap'[o]]
  BY DEF StoreInv, Linked
<1>6. /\ \A u \in Writers : pc'[u] \in WriterStates
      /\ \A r \in Readers : pc'[r] \in ReaderStates
  BY <1>2, <1>3 DEF StoreInv, Linked, Procs
<1>7. \A u \in Writers : pc[u] # "renamed"
  BY DEF Holders
<1>8. Loaded' = Loaded /\ Loaded = heap[live]
  BY <1>7 DEF StoreInv, Linked, Loaded
<1>9. /\ Settled(live)'
      /\ \A r \in Readers : pc'[r] \in {"viewing", "using"} => Settled(got[r])'
  BY <1>3 DEF StoreInv, Linked, Settled, Procs
<1> QED
  BY <1>1, <1>4, <1>5, <1>6, <1>8, <1>9 DEF Linked, life

\* The lock is taken and the live data copied: nobody reads, nobody writes.
LEMMA InvLock ==
  ASSUME StoreInv, NEW w \in Writers, Lock(w)
  PROVE  StoreInv'
<1>1. /\ writer = Nobody /\ readers = {} /\ writer' = w
      /\ heap' = [heap EXCEPT ![w] = heap[live]]
      /\ UNCHANGED <<life, live, readers, got, files>>
  BY DEF Lock, WorkOf
<1>2. pc[w] = "waiting" /\ pc' = [pc EXCEPT ![w] = "begin"]
  BY DEF Lock, Goto
<1>3. StoreOK'
  BY <1>1, <1>2 DEF StoreInv, StoreOK, Procs, Holders, life, files
<1>4. up /\ \A u \in Writers : pc[u] \notin Holders
  BY <1>1, <1>2 DEF StoreInv, StoreOK, Linked, Running, Procs
<1>5. live # w /\ pc'[w] = "begin" /\ heap'[w] = heap[live] /\ heap'[live] = heap[live]
  BY <1>1, <1>2 DEF StoreInv, StoreOK, Linked, Settled, Procs, Objects
<1>6. Progress(w)'
  BY <1>1, <1>5 DEF Progress
<1>7. Linked'
  BY <1>1, <1>2, <1>4, <1>5, <1>6, WriterWorks DEF WriterStates, Holders, files
<1> QED
  BY <1>3, <1>7 DEF StoreInv

\* The first half of the transaction, on the private copy.
LEMMA InvDoPutBooking ==
  ASSUME StoreInv, NEW w \in Writers, DoPutBooking(w)
  PROVE  StoreInv'
<1>1. /\ heap' = [heap EXCEPT ![w] = PutBooking(heap[w], w)]
      /\ UNCHANGED <<life, live, writer, readers, got, files>>
  BY DEF DoPutBooking, WorkOf
<1>2. pc[w] = "begin" /\ pc' = [pc EXCEPT ![w] = "half"]
  BY DEF DoPutBooking, Goto
<1>3. StoreOK'
  BY <1>1, <1>2 DEF StoreInv, StoreOK, Procs, Holders, life, files
<1>4. up /\ live # w
  BY <1>2 DEF StoreInv, Linked, Running, Procs, Settled
<1>5. pc'[w] = "half" /\ heap'[w] = PutBooking(heap[w], w) /\ heap'[live] = heap[live]
  BY <1>1, <1>2, <1>4 DEF StoreInv, StoreOK, Linked, Procs, Objects
<1>6. Progress(w)'
  BY <1>1, <1>2, <1>5 DEF StoreInv, Linked, Progress
<1>7. Linked'
  BY <1>1, <1>2, <1>4, <1>5, <1>6, OneWriter, WriterWorks DEF WriterStates, Holders, files
<1> QED
  BY <1>3, <1>7 DEF StoreInv

\* The second half.
LEMMA InvDoPutDeposit ==
  ASSUME StoreInv, NEW w \in Writers, DoPutDeposit(w)
  PROVE  StoreInv'
<1>1. /\ heap' = [heap EXCEPT ![w] = PutDeposit(heap[w], w)]
      /\ UNCHANGED <<life, live, writer, readers, got, files>>
  BY DEF DoPutDeposit, WorkOf
<1>2. pc[w] = "half" /\ pc' = [pc EXCEPT ![w] = "save"]
  BY DEF DoPutDeposit, Goto
<1>3. StoreOK'
  BY <1>1, <1>2 DEF StoreInv, StoreOK, Procs, Holders, life, files
<1>4. up /\ live # w
  BY <1>2 DEF StoreInv, Linked, Running, Procs, Settled
<1>5. pc'[w] = "save" /\ heap'[w] = PutDeposit(heap[w], w) /\ heap'[live] = heap[live]
  BY <1>1, <1>2, <1>4 DEF StoreInv, StoreOK, Linked, Procs, Objects
<1>6. Progress(w)'
  BY <1>1, <1>2, <1>5 DEF StoreInv, Linked, Progress, Transaction
<1>7. Linked'
  BY <1>1, <1>2, <1>4, <1>5, <1>6, OneWriter, WriterWorks DEF WriterStates, Holders, files
<1> QED
  BY <1>3, <1>7 DEF StoreInv

\* Only the temporary file is ever torn.
LEMMA InvOpenTmp ==
  ASSUME StoreInv, NEW w \in Writers, OpenTmp(w)
  PROVE  StoreInv'
<1>1. UNCHANGED <<life, memory, writer, readers, path>>
  BY DEF OpenTmp
<1>2. pc[w] = "save" /\ pc' = [pc EXCEPT ![w] = "writing"]
  BY DEF OpenTmp, Goto
<1>3. StoreOK'
  BY <1>1, <1>2 DEF StoreInv, StoreOK, Procs, Holders, life, memory
<1>4. up /\ pc'[w] = "writing"
  BY <1>2 DEF StoreInv, StoreOK, Linked, Running, Procs
<1>5. heap' = [heap EXCEPT ![w] = heap'[w]]
  BY <1>1 DEF StoreInv, Linked, memory
<1>6. Progress(w)'
  BY <1>1, <1>2, <1>4 DEF StoreInv, Linked, Progress, memory
<1>7. Linked'
  BY <1>1, <1>2, <1>4, <1>5, <1>6, OneWriter, WriterWorks DEF WriterStates, Holders, memory
<1> QED
  BY <1>3, <1>7 DEF StoreInv

\* The temporary file holds the whole copy.
LEMMA InvWriteTmp ==
  ASSUME StoreInv, NEW w \in Writers, WriteTmp(w)
  PROVE  StoreInv'
<1>1. /\ tmp' = WholeFile(heap[w])
      /\ UNCHANGED <<life, memory, writer, readers, path>>
  BY DEF WriteTmp, WorkOf
<1>2. pc[w] = "writing" /\ pc' = [pc EXCEPT ![w] = "written"]
  BY DEF WriteTmp, Goto
<1>3. StoreOK'
  BY <1>1, <1>2 DEF StoreInv, StoreOK, Procs, Holders, life, memory
<1>4. up /\ pc'[w] = "written"
  BY <1>2 DEF StoreInv, StoreOK, Linked, Running, Procs
<1>5. heap' = [heap EXCEPT ![w] = heap'[w]]
  BY <1>1 DEF StoreInv, Linked, memory
<1>6. Progress(w)'
  BY <1>1, <1>2, <1>4 DEF StoreInv, Linked, Progress, memory
<1>7. Linked'
  BY <1>1, <1>2, <1>4, <1>5, <1>6, OneWriter, WriterWorks DEF WriterStates, Holders, memory
<1> QED
  BY <1>3, <1>7 DEF StoreInv

\* The file becomes the copy, before the memory does.
LEMMA InvRename ==
  ASSUME StoreInv, NEW w \in Writers, Rename(w)
  PROVE  StoreInv'
<1>1. /\ path' = tmp
      /\ UNCHANGED <<life, memory, writer, readers>>
  BY DEF Rename
<1>2. pc[w] = "written" /\ pc' = [pc EXCEPT ![w] = "renamed"]
  BY DEF Rename, Goto
<1>3. path' = WholeFile(heap[w]) /\ path'.holds = "whole"
  BY <1>1, <1>2 DEF StoreInv, Linked, Progress, WholeFile
<1>4. StoreOK'
  BY <1>1, <1>2, <1>3 DEF StoreInv, StoreOK, Procs, Holders, life, memory
<1>5. pc'[w] = "renamed" /\ \A p \in Procs : p # w => pc'[p] = pc[p]
  BY <1>2 DEF StoreInv, StoreOK, Procs
<1>6. \A u \in Writers : Progress(u)'
  BY <1>1, <1>2, <1>3, <1>5, OneWriter
     DEF StoreInv, Linked, Progress, Procs, Holders, memory
<1>7. up' /\ up /\ heap' = heap /\ live' = live /\ got' = got
  BY <1>1, <1>2 DEF StoreInv, Linked, Running, Procs, life, memory
<1>8. /\ Settled(live)'
      /\ \A r \in Readers : pc'[r] \in {"viewing", "using"} => Settled(got[r])'
  BY <1>2, <1>5, <1>7 DEF StoreInv, Linked, Settled, Procs
<1>9. Linked'
  BY <1>5, <1>6, <1>7, <1>8 DEF StoreInv, Linked, Procs, WriterStates, Holders
<1> QED
  BY <1>4, <1>9 DEF StoreInv

\* The memory follows the file; the copy is settled from here on.
LEMMA InvPublish ==
  ASSUME StoreInv, NEW w \in Writers, Publish(w)
  PROVE  StoreInv'
<1>1. /\ live' = w /\ writer' = Nobody
      /\ UNCHANGED <<life, heap, readers, got, files>>
  BY DEF Publish, WorkOf
<1>2. pc[w] = "renamed" /\ pc' = [pc EXCEPT ![w] = "done"]
  BY DEF Publish, Goto
<1>3. StoreOK'
  BY <1>1, <1>2 DEF StoreInv, StoreOK, Procs, Objects, Holders, life, files
<1>4. pc'[w] = "done" /\ \A p \in Procs : p # w => pc'[p] = pc[p]
  BY <1>2 DEF StoreInv, StoreOK, Procs
<1>5. \A u \in Writers : Progress(u)'
  BY <1>2, <1>4, OneWriter DEF Progress, Procs, Holders
<1>6. Loaded' = heap'[live']
  BY <1>1, <1>2 DEF StoreInv, Linked, Progress, Loaded, WholeFile, files
<1>7. Linked'
  BY <1>1, <1>2, <1>4, <1>5, <1>6
     DEF StoreInv, Linked, Settled, Running, Procs, WriterStates, life
<1> QED
  BY <1>3, <1>7 DEF StoreInv

\* A failed transaction gives the lock back and leaves live data and file alone.
LEMMA InvFail ==
  ASSUME StoreInv, NEW w \in Writers, Fail(w)
  PROVE  StoreInv'
<1>1. /\ writer' = Nobody
      /\ UNCHANGED <<life, memory, readers, files>>
  BY DEF Fail
<1>2. /\ pc[w] \in {"begin", "half", "save", "writing", "written"}
      /\ pc' = [pc EXCEPT ![w] = "failed"]
  BY DEF Fail, Goto
<1>3. StoreOK'
  BY <1>1, <1>2 DEF StoreInv, StoreOK, Procs, Holders, life, memory, files
<1>4. up /\ pc'[w] = "failed"
  BY <1>2 DEF StoreInv, StoreOK, Linked, Running, Procs
<1>5. heap' = [heap EXCEPT ![w] = heap'[w]]
  BY <1>1 DEF StoreInv, Linked, memory
<1>6. Progress(w)'
  BY <1>4 DEF Progress
<1>7. Linked'
  BY <1>1, <1>2, <1>4, <1>5, <1>6, OneWriter, WriterWorks
     DEF WriterStates, Holders, memory, files
<1> QED
  BY <1>3, <1>7 DEF StoreInv

\* A reader disturbs nobody.
LEMMA ReaderMoves ==
  ASSUME StoreInv, NEW r \in Readers, NEW there \in ReaderStates,
         pc' = [pc EXCEPT ![r] = there], up,
         UNCHANGED <<life, heap, live, files>>,
         \A q \in Readers \ {r} : got'[q] = got[q],
         there \in {"viewing", "using"} => Settled(got'[r])
  PROVE  Linked'
<1>1. /\ \A p \in Procs : p # r => pc'[p] = pc[p]
      /\ pc'[r] = there
  BY DEF StoreInv, StoreOK, Procs
<1>2. \A w \in Writers : pc'[w] = pc[w]
  BY <1>1 DEF Procs
<1>3. \A u \in Writers : Progress(u)'
  BY <1>2 DEF StoreInv, Linked, Progress, files
<1>4. /\ Settled(live)'
      /\ \A q \in Readers : pc'[q] \in {"viewing", "using"} => Settled(got'[q])
  BY <1>1, <1>2 DEF StoreInv, Linked, Settled, Procs
<1>5. \A q \in Readers : pc'[q] \in {"viewing", "using"} => Settled(got[q])'
  BY <1>2, <1>4 DEF Settled
<1>6. Loaded' = Loaded
  BY DEF Loaded, files
<1> QED
  BY <1>1, <1>2, <1>3, <1>4, <1>5, <1>6 DEF StoreInv, Linked, Procs, life

\* A reader takes the pointer to the live data.
LEMMA InvRLock ==
  ASSUME StoreInv, NEW r \in Readers, RLock(r)
  PROVE  StoreInv'
<1>1. /\ writer = Nobody /\ readers' = readers \cup {r}
      /\ got' = [got EXCEPT ![r] = live]
      /\ UNCHANGED <<life, heap, live, writer, files>>
  BY DEF RLock
<1>2. pc[r] = "waiting" /\ pc' = [pc EXCEPT ![r] = "viewing"]
  BY DEF RLock, Goto
<1>3. StoreOK'
  BY <1>1, <1>2 DEF StoreInv, StoreOK, Procs, Holders, life, files
<1>4. up
  BY <1>2 DEF StoreInv, Linked, Running, Procs
<1>5. Settled(got'[r]) /\ \A q \in Readers \ {r} : got'[q] = got[q]
  BY <1>1 DEF StoreInv, StoreOK, Linked
<1>6. Linked'
  BY <1>1, <1>2, <1>4, <1>5, ReaderMoves DEF ReaderStates
<1> QED
  BY <1>3, <1>6 DEF StoreInv

\* It gives the lock back and keeps the pointer.
LEMMA InvRUnlock ==
  ASSUME StoreInv, NEW r \in Readers, RUnlock(r)
  PROVE  StoreInv'
<1>1. /\ readers' = readers \ {r}
      /\ UNCHANGED <<life, memory, writer, files>>
  BY DEF RUnlock
<1>2. pc[r] = "viewing" /\ pc' = [pc EXCEPT ![r] = "using"]
  BY DEF RUnlock, Goto
<1>3. StoreOK'
  BY <1>1, <1>2 DEF StoreInv, StoreOK, Procs, Holders, life, memory, files
<1>4. up
  BY <1>2 DEF StoreInv, Linked, Running, Procs
<1>5. Settled(got'[r]) /\ got' = got
  BY <1>1, <1>2 DEF StoreInv, Linked, memory
<1>6. Linked'
  BY <1>1, <1>2, <1>4, <1>5, ReaderMoves DEF ReaderStates, memory
<1> QED
  BY <1>3, <1>6 DEF StoreInv

\* It has done with the data.
LEMMA InvFinish ==
  ASSUME StoreInv, NEW r \in Readers, Finish(r)
  PROVE  StoreInv'
<1>1. UNCHANGED <<life, memory, writer, readers, files>>
  BY DEF Finish
<1>2. pc[r] = "using" /\ pc' = [pc EXCEPT ![r] = "done"]
  BY DEF Finish, Goto
<1>3. StoreOK'
  BY <1>1, <1>2 DEF StoreInv, StoreOK, Procs, Holders, life, memory, files
<1>4. up
  BY <1>2 DEF StoreInv, Linked, Running, Procs
<1>5. Linked'
  BY <1>1, <1>2, <1>4, ReaderMoves DEF ReaderStates, memory
<1> QED
  BY <1>3, <1>5 DEF StoreInv

\* The process stops: the lock is gone with it, the files stay.
LEMMA InvStop ==
  ASSUME StoreInv, StopProcess
  PROVE  StoreInv'
<1>1. /\ up' = FALSE /\ stops' = stops + 1 /\ stops < MaxStops
      /\ writer' = Nobody /\ readers' = {}
      /\ UNCHANGED <<memory, files>>
  BY DEF StopProcess
<1>2. pc' = [p \in Procs |-> IF Running(p) THEN "killed" ELSE pc[p]]
  BY DEF StopProcess
<1>3. \A w \in Writers : pc'[w] \in {"idle", "done", "failed", "killed"}
  BY <1>2 DEF StoreInv, Linked, Running, Procs
<1>4. \A r \in Readers : pc'[r] \in {"idle", "done", "killed"}
  BY <1>2 DEF StoreInv, Linked, ReaderStates, Running, Procs
<1>5. \A w \in Writers : pc[w] = "done" => pc'[w] = "done"
  BY <1>2 DEF Running, Procs
<1>6. stops' \in 0..MaxStops
  BY <1>1, StopsAssumption DEF StoreInv, StoreOK
<1>7. StoreOK'
  <2>1. pc' \in [Procs -> Holders \cup
                   {"idle", "waiting", "viewing", "using", "done", "failed", "killed"}]
    BY <1>2 DEF StoreInv, StoreOK
  <2> QED
    BY <1>1, <1>3, <1>4, <1>6, <2>1 DEF StoreInv, StoreOK, Objects, Holders, memory, files
<1>8. \A p \in Procs : ~Running(p)'
  BY <1>3, <1>4 DEF Running, Procs
<1>9. Linked'
  BY <1>1, <1>3, <1>4, <1>5, <1>8
     DEF StoreInv, Linked, Progress, Settled, WriterStates, ReaderStates, memory, files
<1> QED
  BY <1>7, <1>9 DEF StoreInv

\* It starts again with what the file holds: nobody runs who could be disturbed.
LEMMA InvStart ==
  ASSUME StoreInv, Start
  PROVE  StoreInv'
<1>1. /\ ~up /\ up' = TRUE
      /\ heap' = [heap EXCEPT ![Root] = Loaded] /\ live' = Root
      /\ UNCHANGED <<stops, pc, writer, readers, got, files>>
  BY DEF Start
<1>2. /\ \A w \in Writers : pc[w] \in {"idle", "done", "failed", "killed"}
      /\ \A r \in Readers : pc[r] \in {"idle", "done", "failed", "killed"}
  BY <1>1 DEF StoreInv, Linked, Running, Procs
<1>3. heap'[Root] = Loaded /\ Loaded' = Loaded /\ DOMAIN heap' = Objects
  BY <1>1 DEF StoreInv, Linked, Objects, Loaded, files
<1>4. StoreOK'
  BY <1>1 DEF StoreInv, StoreOK, Objects, files
<1>5. heap' = [o \in Objects |-> heap'[o]]
  BY <1>1 DEF StoreInv, Linked, Objects
<1>6. Linked'
  BY <1>1, <1>2, <1>3, <1>5
     DEF StoreInv, Linked, Progress, Settled, WriterStates, ReaderStates, files
<1> QED
  BY <1>4, <1>6 DEF StoreInv

\* One step of the store.
LEMMA InvStep == StoreInv /\ [Next]_vars => StoreInv'
<1> SUFFICES ASSUME StoreInv, [Next]_vars
             PROVE  StoreInv'
  OBVIOUS
<1>1. CASE \E p \in Procs : Arrive(p)
  BY <1>1, InvArrive
<1>2. ASSUME NEW w \in Writers, MutateStep(w)
      PROVE  StoreInv'
  BY <1>2, InvLock, InvDoPutBooking, InvDoPutDeposit, InvOpenTmp, InvWriteTmp, InvRename,
     InvPublish, InvFail DEF MutateStep
<1>3. ASSUME NEW r \in Readers, ViewStep(r)
      PROVE  StoreInv'
  BY <1>3, InvRLock, InvRUnlock, InvFinish DEF ViewStep
<1>4. CASE StopProcess
  BY <1>4, InvStop
<1>5. CASE Start
  BY <1>5, InvStart
<1>6. CASE UNCHANGED vars
  BY <1>6 DEF vars, StoreInv, StoreOK, Linked, Progress, Settled, Running, Loaded
<1> QED
  BY <1>1, <1>2, <1>3, <1>4, <1>5, <1>6 DEF Next

\* It holds of the store at all times, with crashes at any point.
THEOREM Invariance == Spec => []StoreInv
<1> QED
  BY InvInit, InvStep, PTL DEF Spec

\* In every state of the store the lock excludes writers from readers and from
\* each other, and the file is one the process can be started from.
THEOREM StoreIsSound == Spec => []StoreOK
<1>1. StoreInv => StoreOK
  BY DEF StoreInv
<1> QED
  BY <1>1, Invariance, PTL

------------------------------------------------------------------------------
(* The refinement. *)

\* Initial states map to initial states.
LEMMA RefineInit == Init => AS!Init
<1> SUFFICES ASSUME Init PROVE AS!Init
  OBVIOUS
<1>1. Loaded = NewData
  BY DEF Init, Loaded, NoFile
<1>2. /\ \A w \in Writers : OutcomeOf(w) = "open"
      /\ \A r \in Readers : SeenBy(r) = Unread
  BY DEF Init, OutcomeOf, SeenBy, Procs
<1> QED
  BY <1>1, <1>2 DEF AS!Init, AS!NewData, NewData

\* What the abstract store sees of a step: the file, the outcomes, the views.
SameOutcomes == \A w \in Writers : OutcomeOf(w)' = OutcomeOf(w)
SameViews    == \A r \in Readers : SeenBy(r)' = SeenBy(r)

\* A step that leaves all three alone is a stutter.
LEMMA Stutters ==
  ASSUME Loaded' = Loaded, SameOutcomes, SameViews
  PROVE  UNCHANGED AS!vars
BY DEF SameOutcomes, SameViews, AS!vars

\* Nobody's view changes while the object behind it is left alone: that is all
\* a writer's step can do to it.
LEMMA ViewsSettled ==
  ASSUME StoreInv, NEW w \in Writers, pc[w] \notin {"done"},
         \A r \in Readers : pc'[r] = pc[r],
         got' = got,
         \A o \in Objects : o # w => heap'[o] = heap[o]
  PROVE  SameViews
BY DEF StoreInv, StoreOK, Linked, Settled, SameViews, SeenBy, Objects

\* Every step of a writer but the rename, the publication and the failure.
LEMMA RefineWork ==
  ASSUME StoreInv, NEW w \in Writers,
         Lock(w) \/ DoPutBooking(w) \/ DoPutDeposit(w) \/ OpenTmp(w) \/ WriteTmp(w)
  PROVE  UNCHANGED AS!vars
<1>1. path' = path /\ got' = got
  BY DEF Lock, DoPutBooking, DoPutDeposit, OpenTmp, WriteTmp, files, memory
<1>2. \A o \in Objects : o # w => heap'[o] = heap[o]
  BY DEF Lock, DoPutBooking, DoPutDeposit, OpenTmp, WriteTmp, memory, WorkOf, StoreInv, Linked
<1>3. PICK there \in {"begin", "half", "save", "writing", "written"} :
        pc' = [pc EXCEPT ![w] = there]
  BY DEF Lock, DoPutBooking, DoPutDeposit, OpenTmp, WriteTmp, Goto
<1>4. pc[w] \in {"waiting", "begin", "half", "save", "writing"}
  BY DEF Lock, DoPutBooking, DoPutDeposit, OpenTmp, WriteTmp, Goto
<1>5. \A p \in Procs : p # w => pc'[p] = pc[p]
  BY <1>3 DEF StoreInv, StoreOK
<1>6. pc'[w] \in {"begin", "half", "save", "writing", "written"}
  BY <1>3 DEF StoreInv, StoreOK, Procs
<1>7. SameOutcomes
  BY <1>4, <1>5, <1>6 DEF SameOutcomes, OutcomeOf, Procs
<1>8. SameViews
  BY <1>1, <1>2, <1>4, <1>5, ViewsSettled, NamesAssumption DEF Procs
<1>9. Loaded' = Loaded
  BY <1>1 DEF Loaded
<1> QED
  BY <1>7, <1>8, <1>9, Stutters

\* The rename commits.
LEMMA RefineRename ==
  ASSUME StoreInv, NEW w \in Writers, Rename(w)
  PROVE  AS!Commit(w)
<1>1. path' = tmp /\ UNCHANGED <<heap, live, got, up>>
  BY DEF Rename, memory, life
<1>2. pc[w] = "written" /\ pc' = [pc EXCEPT ![w] = "renamed"]
  BY DEF Rename, Goto
<1>3. /\ \A p \in Procs : p # w => pc'[p] = pc[p]
      /\ pc'[w] = "renamed"
  BY <1>2 DEF StoreInv, StoreOK, Procs
<1>4. up /\ \A v \in Writers : pc[v] # "renamed"
  BY <1>2 DEF StoreInv, StoreOK, Linked, Running, Procs, Holders
<1>5. Loaded = heap[live]
  BY <1>4 DEF StoreInv, Linked
<1>6. tmp = WholeFile(heap[w]) /\ heap[w] = Transaction(heap[live], w)
  BY <1>2 DEF StoreInv, Linked, Progress
<1>7. Loaded' = Transaction(Loaded, w)
  BY <1>1, <1>5, <1>6 DEF Loaded, WholeFile
<1>8. OutcomeOf(w) = "open" /\ OutcomeOf(w)' = "applied"
  BY <1>2, <1>3 DEF OutcomeOf
<1>9. \A v \in Writers : v # w => OutcomeOf(v)' = OutcomeOf(v)
  BY <1>3 DEF OutcomeOf, Procs
<1>10. SameViews
  BY <1>1, <1>2, <1>3, ViewsSettled, NamesAssumption DEF Procs
<1>11. AS!Transaction(Loaded, w) = Transaction(Loaded, w)
  BY DEF AS!Transaction, AS!PutDeposit, AS!PutBooking, AS!NextID, AS!PutEntity,
         Transaction, PutDeposit, PutBooking, NextID, PutEntity
<1> QED
  BY <1>7, <1>8, <1>9, <1>10, <1>11 DEF AS!Commit, SameViews

\* The publication answers.
LEMMA RefinePublish ==
  ASSUME StoreInv, NEW w \in Writers, Publish(w)
  PROVE  AS!Answer(w)
<1>1. UNCHANGED <<path, heap, got>>
  BY DEF Publish, files
<1>2. pc[w] = "renamed" /\ pc' = [pc EXCEPT ![w] = "done"]
  BY DEF Publish, Goto
<1>3. /\ \A p \in Procs : p # w => pc'[p] = pc[p]
      /\ pc'[w] = "done"
  BY <1>2 DEF StoreInv, StoreOK, Procs
<1>4. Loaded' = Loaded
  BY <1>1 DEF Loaded
<1>5. OutcomeOf(w) = "applied" /\ OutcomeOf(w)' = "answered"
  BY <1>2, <1>3 DEF OutcomeOf
<1>6. \A v \in Writers : v # w => OutcomeOf(v)' = OutcomeOf(v)
  BY <1>3 DEF OutcomeOf, Procs
<1>7. SameViews
  BY <1>1, <1>2, <1>3, ViewsSettled, NamesAssumption DEF Procs
<1> QED
  BY <1>4, <1>5, <1>6, <1>7 DEF AS!Answer, SameViews

\* A failure refuses, and has changed nothing the abstract store can see.
LEMMA RefineFail ==
  ASSUME StoreInv, NEW w \in Writers, Fail(w)
  PROVE  AS!Refuse(w)
<1>1. UNCHANGED <<path, heap, got>>
  BY DEF Fail, files, memory
<1>2. /\ pc[w] \in {"begin", "half", "save", "writing", "written"}
      /\ pc' = [pc EXCEPT ![w] = "failed"]
  BY DEF Fail, Goto
<1>3. /\ \A p \in Procs : p # w => pc'[p] = pc[p]
      /\ pc'[w] = "failed"
  BY <1>2 DEF StoreInv, StoreOK, Procs
<1>4. Loaded' = Loaded
  BY <1>1 DEF Loaded
<1>5. OutcomeOf(w) = "open" /\ OutcomeOf(w)' = "refused"
  BY <1>2, <1>3 DEF OutcomeOf
<1>6. \A v \in Writers : v # w => OutcomeOf(v)' = OutcomeOf(v)
  BY <1>3 DEF OutcomeOf, Procs
<1>7. SameViews
  BY <1>1, <1>2, <1>3, ViewsSettled, NamesAssumption DEF Procs
<1> QED
  BY <1>4, <1>5, <1>6, <1>7 DEF AS!Refuse, SameViews

\* A View reads when it takes the lock: no rename is waiting to be published.
LEMMA RefineView ==
  ASSUME StoreInv, NEW r \in Readers, ViewStep(r)
  PROVE  [AS!Next]_AS!vars
<1>1. /\ UNCHANGED <<path, heap, live, up>>
      /\ \A q \in Readers : q # r => got'[q] = got[q]
  BY DEF ViewStep, RLock, RUnlock, Finish, files, memory, life, StoreInv, StoreOK
<1>2. \A p \in Procs : p # r => pc'[p] = pc[p]
  BY DEF ViewStep, RLock, RUnlock, Finish, Goto, StoreInv, StoreOK
<1>3. Loaded' = Loaded
  BY <1>1 DEF Loaded
<1>4. SameOutcomes
  BY <1>2, NamesAssumption DEF SameOutcomes, OutcomeOf, Procs
<1>5. \A q \in Readers : q # r => SeenBy(q)' = SeenBy(q)
  BY <1>1, <1>2 DEF SeenBy, Procs
<1>6. CASE RLock(r)
  <2>1. pc[r] = "waiting" /\ pc'[r] = "viewing" /\ got'[r] = live /\ writer = Nobody
    BY <1>6 DEF RLock, Goto, StoreInv, StoreOK, Procs
  <2>2. up /\ \A w \in Writers : pc[w] # "renamed"
    BY <2>1, NamesAssumption DEF StoreInv, StoreOK, Linked, Running, Procs, Holders
  <2>3. SeenBy(r) = Unread /\ SeenBy(r)' = Loaded
    BY <2>1, <2>2, <1>1 DEF SeenBy, StoreInv, Linked
  <2>4. AS!Read(r)
    BY <2>3, <1>3, <1>4, <1>5 DEF AS!Read, SameOutcomes
  <2> QED
    BY <2>4 DEF AS!Next
<1>7. CASE RUnlock(r)
  <2>1. pc[r] = "viewing" /\ pc'[r] = "using" /\ got' = got
    BY <1>7 DEF RUnlock, Goto, StoreInv, StoreOK, Procs, memory
  <2>2. SameViews
    BY <2>1, <1>1, <1>5 DEF SameViews, SeenBy
  <2> QED
    BY <2>2, <1>3, <1>4, Stutters
<1>8. CASE Finish(r)
  <2>1. pc'[r] = "done"
    BY <1>8 DEF Finish, Goto, StoreInv, StoreOK, Procs
  <2>2. SeenBy(r)' = Unread
    BY <2>1 DEF SeenBy
  <2>3. AS!Finish(r)
    BY <2>2, <1>3, <1>4, <1>5 DEF AS!Finish, SameOutcomes
  <2> QED
    BY <2>3 DEF AS!Next
<1> QED
  BY <1>6, <1>7, <1>8 DEF ViewStep

\* A stop of the process cuts off the calls that are running.
LEMMA RefineStop ==
  ASSUME StoreInv, StopProcess
  PROVE  AS!Stop
<1> DEFINE cutWriters == {w \in Writers : Running(w)}
           cutReaders == {r \in Readers : Running(r)}
<1>1. UNCHANGED <<path, heap, got>>
  BY DEF StopProcess, memory, files
<1>2. pc' = [p \in Procs |-> IF Running(p) THEN "killed" ELSE pc[p]]
  BY DEF StopProcess
<1>3. Loaded' = Loaded
  BY <1>1 DEF Loaded
<1>4. \A w \in Writers : OutcomeOf(w)' = IF w \in cutWriters THEN "unknown" ELSE OutcomeOf(w)
  BY <1>2 DEF OutcomeOf, Procs
<1>5. \A w \in cutWriters : OutcomeOf(w) \in {"open", "applied"}
  BY DEF Running, OutcomeOf
<1>6. \A w \in Writers : OutcomeOf(w) = "applied" => w \in cutWriters
  BY DEF Running, OutcomeOf
<1>7. \A r \in Readers : SeenBy(r)' = IF r \in cutReaders THEN Unread ELSE SeenBy(r)
  BY <1>1, <1>2 DEF SeenBy, Procs
<1>8. /\ cutWriters \in SUBSET {w \in Writers : OutcomeOf(w) \in {"open", "applied"}}
      /\ cutReaders \in SUBSET Readers
  BY <1>5
<1> HIDE DEF cutWriters, cutReaders
<1> QED
  BY <1>3, <1>4, <1>6, <1>7, <1>8 DEF AS!Stop

\* A start finds the database where the stop left it.
LEMMA RefineStart ==
  ASSUME StoreInv, Start
  PROVE  UNCHANGED AS!vars
<1>1. ~up /\ UNCHANGED <<pc, path>>
  BY DEF Start, files
<1>2. \A r \in Readers : pc[r] \notin {"viewing", "using"}
  BY <1>1 DEF StoreInv, Linked, Running, Procs
<1>3. Loaded' = Loaded /\ SameOutcomes /\ SameViews
  BY <1>1, <1>2 DEF Loaded, SameOutcomes, OutcomeOf, SameViews, SeenBy
<1> QED
  BY <1>3, Stutters

\* An arrival is invisible.
LEMMA RefineArrive ==
  ASSUME StoreInv, NEW p \in Procs, Arrive(p)
  PROVE  UNCHANGED AS!vars
<1>1. UNCHANGED <<path, heap, got>>
  BY DEF Arrive, memory, files
<1>2. pc[p] = "idle" /\ pc'[p] = "waiting"
  BY DEF Arrive, Goto, StoreInv, StoreOK
<1>3. \A q \in Procs : q # p => pc'[q] = pc[q]
  BY DEF Arrive, Goto, StoreInv, StoreOK
<1>4. Loaded' = Loaded
  BY <1>1 DEF Loaded
<1>5. SameOutcomes
  BY <1>2, <1>3 DEF SameOutcomes, OutcomeOf, Procs
<1>6. SameViews
  BY <1>1, <1>2, <1>3 DEF SameViews, SeenBy, Procs
<1> QED
  BY <1>4, <1>5, <1>6, Stutters

\* Every step maps to a step of the atomic store or to a stutter.
LEMMA RefineStep == StoreInv /\ [Next]_vars => [AS!Next]_AS!vars
<1> SUFFICES ASSUME StoreInv, [Next]_vars
             PROVE  [AS!Next]_AS!vars
  OBVIOUS
<1>1. CASE \E p \in Procs : Arrive(p)
  BY <1>1, RefineArrive
<1>2. ASSUME NEW w \in Writers, MutateStep(w)
      PROVE  [AS!Next]_AS!vars
  <2>1. CASE Rename(w)
    BY <2>1, RefineRename DEF AS!Next
  <2>2. CASE Publish(w)
    BY <2>2, RefinePublish DEF AS!Next
  <2>3. CASE Fail(w)
    BY <2>3, RefineFail DEF AS!Next
  <2> QED
    BY <1>2, <2>1, <2>2, <2>3, RefineWork DEF MutateStep
<1>3. ASSUME NEW r \in Readers, ViewStep(r)
      PROVE  [AS!Next]_AS!vars
  BY <1>3, RefineView
<1>4. CASE StopProcess
  BY <1>4, RefineStop DEF AS!Next
<1>5. CASE Start
  BY <1>5, RefineStart
<1>6. CASE UNCHANGED vars
  <2>1. Loaded' = Loaded /\ SameOutcomes /\ SameViews
    BY <1>6 DEF vars, Loaded, SameOutcomes, OutcomeOf, SameViews, SeenBy
  <2> QED
    BY <2>1, Stutters
<1> QED
  BY <1>1, <1>2, <1>3, <1>4, <1>5, <1>6 DEF Next

\* The store implements the atomic store: transactions take effect at once, in
\* the file and for every View, whatever fails and whenever the process stops.
THEOREM StoreIsAtomic == Spec => ImplementsAtomicStore
<1> QED
  BY RefineInit, RefineStep, Invariance, PTL DEF Spec, AS!Spec, ImplementsAtomicStore

------------------------------------------------------------------------------
(* What callers were told, carried over from the atomic store. *)

P == INSTANCE AtomicStoreProofs WITH
       db      <- Loaded,
       outcome <- [w \in Writers |-> OutcomeOf(w)],
       seen    <- [r \in Readers |-> SeenBy(r)]

\* The ledger of the atomic store read in the states of the store.
LEMMA LedgerSays == P!Ledger => OutcomesAreKept
BY DEF P!Ledger, P!Holdings, P!Owns, Owns, OutcomesAreKept, OutcomeOf

\* An answered transaction is in the file under one id of its own, a refused one
\* nowhere, an interrupted one whole or not at all, at every moment and after
\* any number of restarts.
THEOREM OutcomesHold == Spec => []OutcomesAreKept
<1>1. Init => P!Ledger
  BY RefineInit, P!LedgerInit DEF AS!Init, P!Init, AS!NewData, P!NewData
<1>2. P!Ledger /\ [AS!Next]_AS!vars => P!Ledger'
  <2>1. [AS!Next]_AS!vars => [P!Next]_P!vars
    BY DEF AS!Next, AS!vars, AS!Commit, AS!Answer, AS!Refuse, AS!Read, AS!Finish, AS!Stop,
           AS!Transaction, AS!PutDeposit, AS!PutBooking, AS!NextID, AS!PutEntity,
           P!Next, P!vars, P!Commit, P!Answer, P!Refuse, P!Read, P!Finish, P!Stop,
           P!Transaction, P!PutDeposit, P!PutBooking, P!NextID, P!PutEntity
  <2> QED
    BY <2>1, P!LedgerStep
<1> QED
  BY <1>1, <1>2, RefineStep, Invariance, LedgerSays, PTL DEF Spec
==============================================================================
