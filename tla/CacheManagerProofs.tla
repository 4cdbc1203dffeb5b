------------------------- MODULE CacheManagerProofs -------------------------
(***************************************************************************)
(* Proofs about CacheManager and the Downloads below it, for all objects,  *)
(* processes, tasks, versions of the server, retries, limits and budgets.  *)
(***************************************************************************)
EXTENDS CacheManager, SequenceTheorems, TLAPS

Running == {"attempt", "sent", "stream", "verify"}

\* A task that downloads holds the lock of its destination.
Held(t) == pc[t] \in Holding => lock[ObjectOf[t]] = t

\* What a task knows of the part file behind its lock.
Parts(t) ==
    LET file == part[ObjectOf[t]] IN
    /\ pc[t] = "sent" /\ existing[t] > 0 => file # NoFile /\ existing[t] = Len(file)
    /\ pc[t] \in {"stream", "publish"} => file # NoFile
    /\ pc[t] = "publish" => Verified(ObjectOf[t], file)
    /\ pc[t] = "stream" /\ t \notin spoiled =>
         /\ Len(file) + Len(stream[t]) = Chunks[Wanted]
         /\ \A i \in 1 .. Len(stream[t]) : stream[t][i] = Wanted

\* An attempt that began without a part file has nothing but what the server answers now.
Clean(t) ==
    LET file == part[ObjectOf[t]] IN
    /\ pc[t] = "attempt" => file = NoFile
    /\ pc[t] = "sent" => existing[t] = 0
    /\ pc[t] = "stream" /\ t \notin spoiled => \A i \in 1 .. Len(file) : file[i] = Wanted
    /\ pc[t] = "verify" /\ t \notin spoiled => file = Body(Wanted)

\* The attempts that failed without a fault are never two in a row, and after the last of
\* them the part file is gone.
Retry(t) ==
    /\ pc[t] \in Waiting \cup {"probe"} => attempt[t] = 0 /\ faults[t] = 0
    /\ pc[t] \in Running =>
         /\ faults[t] <= attempt[t]
         /\ t \notin cancelled => /\ attempt[t] <= 2 * faults[t] + 1
                                  /\ attempt[t] = 2 * faults[t] + 1 => Clean(t)
    /\ pc[t] = "failed" /\ t \notin cancelled => 2 * faults[t] >= Retries

\* An installation that does not download has no download of its own running.
Batch(p) ==
    /\ ipc[p] # "download" => \A t \in TasksOf(p) : pc[t] \in Ended \cup {"idle"}
    /\ ipc[p] = "managed_gone" => refs[p] = NoFile

\* A prune that has looked at an instance has seen the references that stay.
Scanned ==
    /\ \A r \in stable : r[2] \in Listed(refs[r[1]])
    /\ prune.step = "scan" => \A r \in stable : r[1] \notin prune.toScan => r[2] \in prune.referenced
    /\ prune.step = "remove" => \A r \in stable : r[2] \notin prune.objects

IInv ==
    /\ TypeOK
    /\ \A t \in Task : Held(t) /\ Parts(t) /\ Retry(t)
    /\ \A p \in Process : Batch(p)
    /\ Scanned

-----------------------------------------------------------------------------
(***************************************************************************)
(* Files as sequences of chunks.                                           *)
(***************************************************************************)
LEMMA Bodies ==
    ASSUME NEW v \in Version
    PROVE  /\ Body(v) \in Chunk /\ Body(v) # NoFile
           /\ Len(Body(v)) = Chunks[v] /\ Chunks[v] \in Nat \ {0}
           /\ \A i \in 1 .. Chunks[v] : Body(v)[i] = v
<1>1. Chunks[v] \in Nat \ {0}
  BY DownloadAssumption
<1>2. Body(v) \in Seq(Version) /\ Len(Body(v)) = Chunks[v]
  BY <1>1 DEF Body
<1> QED BY <1>1, <1>2, DownloadAssumption DEF Body, Chunk

\* The rest of a body, from the chunk a range request asks for.
LEMMA Rests ==
    ASSUME NEW v \in Version, NEW n \in Nat, n < Chunks[v]
    PROVE  /\ SubSeq(Body(v), n + 1, Len(Body(v))) \in Chunk
           /\ Len(SubSeq(Body(v), n + 1, Len(Body(v)))) = Chunks[v] - n
           /\ \A i \in 1 .. Chunks[v] - n : SubSeq(Body(v), n + 1, Len(Body(v)))[i] = v
<1>1. /\ Len(Body(v)) = Chunks[v] /\ Chunks[v] \in Nat
      /\ \A i \in n + 1 .. Chunks[v] : Body(v)[i] = v
  BY Bodies
<1>2. \A i \in n + 1 .. Chunks[v] : Body(v)[i] \in Version
  BY <1>1
<1>3. n + 1 \in Int /\ Chunks[v] \in Int
  BY <1>1
<1>4. /\ SubSeq(Body(v), n + 1, Chunks[v]) \in Seq(Version)
      /\ Len(SubSeq(Body(v), n + 1, Chunks[v]))
           = IF n + 1 <= Chunks[v] THEN Chunks[v] - (n + 1) + 1 ELSE 0
      /\ \A i \in 1 .. Chunks[v] - (n + 1) + 1 :
           SubSeq(Body(v), n + 1, Chunks[v])[i] = Body(v)[n + 1 + i - 1]
  BY <1>2, <1>3, SubSeqProperties
<1>5. Len(SubSeq(Body(v), n + 1, Chunks[v])) = Chunks[v] - n
  BY <1>1, <1>4
<1>6. ASSUME NEW i \in 1 .. Chunks[v] - n
      PROVE  SubSeq(Body(v), n + 1, Chunks[v])[i] = v
  <2>1. i \in 1 .. Chunks[v] - (n + 1) + 1 /\ n + 1 + i - 1 \in n + 1 .. Chunks[v]
    BY <1>1
  <2> QED BY <1>1, <1>4, <2>1
<1> QED BY <1>1, <1>4, <1>5, <1>6 DEF Chunk

LEMMA Leftovers ==
    ASSUME NEW v \in Version, NEW f \in Leftover(v)
    PROVE  f \in Chunk
<1>1. PICK n \in 0 .. Chunks[v] : f = SubSeq(Body(v), 1, n)
  BY DEF Leftover
<1>2. Chunks[v] \in Nat /\ \A i \in 1 .. Chunks[v] : Body(v)[i] \in Version
  BY Bodies
<1>3. n \in Int /\ 1 \in Int /\ \A i \in 1 .. n : Body(v)[i] \in Version
  BY <1>2
<1> QED BY <1>1, <1>3, SubSeqProperties DEF Chunk

\* A file with as many chunks of the wanted version as it has.
LEMMA WholeFile ==
    ASSUME NEW f \in Chunk, Len(f) = Chunks[Wanted], \A i \in 1 .. Len(f) : f[i] = Wanted
    PROVE  f = Body(Wanted)
<1>1. Wanted \in Version
  BY DownloadAssumption
<1>2. /\ Body(Wanted) \in Seq(Version) /\ Len(Body(Wanted)) = Chunks[Wanted]
      /\ \A i \in 1 .. Chunks[Wanted] : Body(Wanted)[i] = Wanted
  BY <1>1, Bodies DEF Chunk
<1> QED BY <1>2, SeqEqual DEF Chunk

LEMMA WantedVerifies == \A o \in Object : Verified(o, Body(Wanted))
BY Bodies, DownloadAssumption DEF Verified

-----------------------------------------------------------------------------
(***************************************************************************)
(* A step of one task and the others.                                      *)
(***************************************************************************)
DlInv == DlTypeOK /\ \A t \in Task : Held(t) /\ Parts(t) /\ Retry(t)

\* A step leaves a task and, while it holds its lock, its part file alone.
Spares(u) ==
    /\ pc'[u] = pc[u] /\ attempt'[u] = attempt[u] /\ existing'[u] = existing[u]
    /\ stream'[u] = stream[u] /\ faults'[u] = faults[u]
    /\ (u \in spoiled') = (u \in spoiled)
    /\ u \in cancelled => u \in cancelled'
    /\ pc[u] \in Holding => /\ lock'[ObjectOf[u]] = u
                            /\ part'[ObjectOf[u]] = part[ObjectOf[u]]

LEMMA SparedKept ==
    ASSUME DlInv, NEW u \in Task, Spares(u)
    PROVE  Held(u)' /\ Parts(u)' /\ Retry(u)'
<1>1. Held(u) /\ Parts(u) /\ Retry(u)
  BY DEF DlInv
<1>2. Held(u)'
  BY <1>1 DEF Spares, Held
<1>3. Parts(u)'
  BY <1>1 DEF Spares, Parts, Holding
<1>4. pc[u] \in Running /\ Clean(u) => Clean(u)'
  BY DEF Spares, Clean, Running, Holding
<1>5. Retry(u)'
  BY <1>1, <1>4 DEF Spares, Retry
<1> QED BY <1>2, <1>3, <1>5

\* A step of t that changes no more than t's own state, the lock and the part file of its
\* destination.
Own(t) ==
    /\ \A u \in Task \ {t} :
         /\ pc'[u] = pc[u] /\ attempt'[u] = attempt[u] /\ existing'[u] = existing[u]
         /\ stream'[u] = stream[u] /\ faults'[u] = faults[u]
         /\ (u \in spoiled') = (u \in spoiled)
    /\ cancelled' = cancelled
    /\ \A o \in Object \ {ObjectOf[t]} : lock'[o] = lock[o] /\ part'[o] = part[o]

LEMMA OthersKept ==
    ASSUME DlInv, NEW t \in Task, Own(t), lock[ObjectOf[t]] \in {t, None}, NEW u \in Task \ {t}
    PROVE  Held(u)' /\ Parts(u)' /\ Retry(u)'
<1>1. pc[u] \in Holding => ObjectOf[u] \in Object \ {ObjectOf[t]}
  BY DownloadAssumption DEF DlInv, Held
<1>2. Spares(u)
  BY <1>1 DEF Own, Spares, DlInv, Held
<1> QED BY <1>2, SparedKept

LEMMA OwnStep ==
    ASSUME DlInv, NEW t \in Task, Own(t), lock[ObjectOf[t]] \in {t, None}, DlTypeOK',
           Held(t)', Parts(t)', Retry(t)'
    PROVE  DlInv'
BY OthersKept DEF DlInv

-----------------------------------------------------------------------------
(***************************************************************************)
(* The steps of a download.                                                *)
(***************************************************************************)
\* download returns, and drops its lock.
LEMMA ReturnKeeps ==
    ASSUME DlInv, NEW t \in Task, pc[t] \in Holding, NEW outcome \in Ended, Return(t, outcome),
           outcome # "failed", UNCHANGED <<server, attempt, existing, cancelled, spoiled, faults>>,
           dest' \in [Object -> File], part' \in [Object -> File],
           \A o \in Object \ {ObjectOf[t]} : part'[o] = part[o]
    PROVE  DlInv'
<1>0. DlTypeOK /\ lock[ObjectOf[t]] = t /\ ObjectOf[t] \in Object
  BY DownloadAssumption DEF DlInv, Held
<1>1. /\ pc' \in [Task -> Step] /\ pc'[t] = outcome /\ \A u \in Task \ {t} : pc'[u] = pc[u]
      /\ lock' \in [Object -> Task \cup {None}]
      /\ \A o \in Object \ {ObjectOf[t]} : lock'[o] = lock[o]
  BY <1>0 DEF Return, Goto, DlTypeOK, Step
<1>2. stream' \in [Task -> Chunk] /\ \A u \in Task \ {t} : stream'[u] = stream[u]
  BY <1>0 DEF Return, DlTypeOK, Chunk
<1>3. Own(t)
  BY <1>1, <1>2 DEF Own
<1>4. DlTypeOK'
  BY <1>0, <1>1, <1>2 DEF DlTypeOK
<1>5. Held(t)' /\ Parts(t)' /\ Retry(t)'
  BY <1>1 DEF Held, Parts, Retry, Running, Holding, Ended, Waiting
<1> QED BY <1>0, <1>3, <1>4, <1>5, OwnStep

\* An attempt fails: by a fault that is counted, after a cancellation, or because of a part
\* file that is now gone.
LEMMA FailKeeps ==
    ASSUME DlInv, NEW t \in Task, pc[t] \in Running, NEW fault \in BOOLEAN, FailAttempt(t, fault),
           UNCHANGED <<server, dest, existing, cancelled>>,
           part' \in [Object -> File], \A o \in Object \ {ObjectOf[t]} : part'[o] = part[o],
           \/ fault \/ t \in spoiled \/ t \in cancelled
           \/ part'[ObjectOf[t]] = NoFile /\ attempt[t] # 2 * faults[t] + 1
    PROVE  DlInv'
<1>0. /\ DlTypeOK /\ lock[ObjectOf[t]] = t /\ ObjectOf[t] \in Object /\ Retry(t)
      /\ Retries \in Nat
  BY DownloadAssumption, SMTT(30) DEF DlInv, Held, Running, Holding
<1>1. /\ attempt[t] \in 0 .. Retries /\ faults[t] \in 0 .. Retries + 1 /\ faults[t] <= attempt[t]
      /\ t \notin cancelled => attempt[t] <= 2 * faults[t] + 1
  BY <1>0 DEF DlTypeOK, Retry
<1>2. /\ spoiled' \subseteq Task /\ \A u \in Task \ {t} : (u \in spoiled') = (u \in spoiled)
  BY <1>0 DEF FailAttempt, CountFault, DlTypeOK
<1>3. /\ fault \/ t \in spoiled => faults' = [faults EXCEPT ![t] = faults[t] + 1]
      /\ ~ (fault \/ t \in spoiled) => faults' = faults
  BY DEF FailAttempt, CountFault
<1>4. /\ faults' \in [Task -> 0 .. Retries + 1] /\ \A u \in Task \ {t} : faults'[u] = faults[u]
      /\ fault \/ t \in spoiled => faults'[t] = faults[t] + 1
      /\ ~ (fault \/ t \in spoiled) => faults'[t] = faults[t]
  BY <1>0, <1>1, <1>3 DEF DlTypeOK
<1>5. t \notin cancelled =>
        \/ faults'[t] = faults[t] + 1
        \/ faults'[t] = faults[t] /\ part'[ObjectOf[t]] = NoFile /\ attempt[t] <= 2 * faults[t]
  BY <1>1, <1>4
<1>6. stream' \in [Task -> Chunk] /\ \A u \in Task \ {t} : stream'[u] = stream[u]
  <2>1. stream' = [stream EXCEPT ![t] = <<>>]
    BY DEF FailAttempt, Return
  <2> QED BY <1>0, <2>1 DEF DlTypeOK, Chunk
<1>7. CASE /\ attempt[t] < Retries /\ attempt' = [attempt EXCEPT ![t] = @ + 1]
           /\ Goto(t, "attempt") /\ lock' = lock
  <2>1. /\ pc' \in [Task -> Step] /\ pc'[t] = "attempt" /\ \A u \in Task \ {t} : pc'[u] = pc[u]
        /\ attempt' \in [Task -> 0 .. Retries] /\ attempt'[t] = attempt[t] + 1
        /\ \A u \in Task \ {t} : attempt'[u] = attempt[u]
    BY <1>0, <1>1, <1>7 DEF Goto, DlTypeOK, Step, Holding
  <2>2. Own(t)
    BY <1>2, <1>4, <1>6, <1>7, <2>1 DEF Own
  <2>3. DlTypeOK'
    BY <1>0, <1>2, <1>4, <1>6, <1>7, <2>1 DEF DlTypeOK
  <2>4. Held(t)' /\ Parts(t)'
    BY <1>0, <1>7, <2>1 DEF Held, Parts
  <2>5. /\ faults'[t] <= attempt'[t]
        /\ t \notin cancelled' => /\ attempt'[t] <= 2 * faults'[t] + 1
                                  /\ attempt'[t] = 2 * faults'[t] + 1 => part'[ObjectOf[t]] = NoFile
    BY <1>1, <1>4, <1>5, <2>1
  <2>6. Retry(t)'
    BY <2>1, <2>5 DEF Retry, Clean, Running, Waiting
  <2> QED BY <1>0, <2>2, <2>3, <2>4, <2>6, OwnStep
<1>8. CASE attempt[t] = Retries /\ Return(t, "failed") /\ attempt' = attempt
  <2>1. /\ pc' \in [Task -> Step] /\ pc'[t] = "failed" /\ \A u \in Task \ {t} : pc'[u] = pc[u]
        /\ lock' \in [Object -> Task \cup {None}]
        /\ \A o \in Object \ {ObjectOf[t]} : lock'[o] = lock[o]
    BY <1>0, <1>8 DEF Return, Goto, DlTypeOK, Step, Ended
  <2>2. Own(t)
    BY <1>2, <1>4, <1>6, <1>8, <2>1 DEF Own
  <2>3. DlTypeOK'
    BY <1>0, <1>2, <1>4, <1>6, <1>8, <2>1 DEF DlTypeOK
  <2>4. t \notin cancelled' => 2 * faults'[t] >= Retries
    BY <1>0, <1>1, <1>4, <1>5, <1>8
  <2>5. Held(t)' /\ Parts(t)' /\ Retry(t)'
    BY <2>1, <2>4 DEF Held, Parts, Retry, Running, Holding, Waiting
  <2> QED BY <1>0, <2>2, <2>3, <2>5, OwnStep
<1> QED BY <1>7, <1>8 DEF FailAttempt

LEMMA BeginKeeps ==
    ASSUME DlInv, NEW t \in Task, Begin(t)
    PROVE  DlInv'
<1>1. DlTypeOK /\ Retry(t) /\ pc[t] = "idle"
  BY DEF DlInv, Begin
<1>2. pc' \in [Task -> Step] /\ pc'[t] = "lock" /\ \A u \in Task \ {t} : pc'[u] = pc[u]
  BY <1>1 DEF Begin, Goto, DlTypeOK, Step, Waiting
<1>3. DlTypeOK'
  BY <1>1, <1>2 DEF DlTypeOK, Begin
<1>4. Held(t)' /\ Parts(t)' /\ Retry(t)'
  BY <1>1, <1>2 DEF Begin, Held, Parts, Retry, Running, Holding, Waiting
<1>5. ASSUME NEW u \in Task \ {t} PROVE Held(u)' /\ Parts(u)' /\ Retry(u)'
  <2>1. Spares(u)
    BY <1>2 DEF Spares, Begin, DlInv, Held
  <2> QED BY <2>1, SparedKept
<1> QED BY <1>3, <1>4, <1>5 DEF DlInv

LEMMA BusyKeeps ==
    ASSUME DlInv, NEW t \in Task, Busy(t)
    PROVE  DlInv'
<1>1. DlTypeOK /\ Retry(t) /\ pc[t] = "lock"
  BY DEF DlInv, Busy
<1>2. pc' \in [Task -> Step] /\ pc'[t] = "busy" /\ \A u \in Task \ {t} : pc'[u] = pc[u]
  BY <1>1 DEF Busy, Goto, DlTypeOK, Step, Ended
<1>3. DlTypeOK'
  BY <1>1, <1>2 DEF DlTypeOK, Busy
<1>4. Held(t)' /\ Parts(t)' /\ Retry(t)'
  BY <1>1, <1>2 DEF Busy, Held, Parts, Retry, Running, Holding, Waiting
<1>5. ASSUME NEW u \in Task \ {t} PROVE Held(u)' /\ Parts(u)' /\ Retry(u)'
  <2>1. Spares(u)
    BY <1>2 DEF Spares, Busy, DlInv, Held
  <2> QED BY <2>1, SparedKept
<1> QED BY <1>3, <1>4, <1>5 DEF DlInv

LEMMA AcquireKeeps ==
    ASSUME DlInv, NEW t \in Task, Acquire(t)
    PROVE  DlInv'
<1>1. DlTypeOK /\ Retry(t) /\ pc[t] = "lock" /\ lock[ObjectOf[t]] = None /\ ObjectOf[t] \in Object
  BY DownloadAssumption DEF DlInv, Acquire
<1>2. /\ pc' \in [Task -> Step] /\ pc'[t] = "probe" /\ \A u \in Task \ {t} : pc'[u] = pc[u]
      /\ lock' \in [Object -> Task \cup {None}] /\ lock'[ObjectOf[t]] = t
      /\ \A o \in Object \ {ObjectOf[t]} : lock'[o] = lock[o]
  BY <1>1 DEF Acquire, Goto, DlTypeOK, Step, Holding
<1>3. DlTypeOK'
  BY <1>1, <1>2 DEF DlTypeOK, Acquire
<1>4. Held(t)' /\ Parts(t)' /\ Retry(t)'
  BY <1>1, <1>2 DEF Acquire, Held, Parts, Retry, Running, Holding, Waiting
<1>5. Own(t)
  BY <1>2 DEF Own, Acquire
<1> QED BY <1>1, <1>3, <1>4, <1>5, OwnStep

\* A step that goes on under the lock, and changes neither attempt nor faults.
LEMMA GoOn ==
    ASSUME DlInv, NEW t \in Task, pc[t] \in Holding, NEW step \in Holding, Goto(t, step),
           UNCHANGED <<server, lock, attempt, cancelled, faults>>,
           dest' \in [Object -> File], part' \in [Object -> File],
           \A o \in Object \ {ObjectOf[t]} : part'[o] = part[o],
           existing' \in [Task -> Nat], \A u \in Task \ {t} : existing'[u] = existing[u],
           stream' \in [Task -> Chunk], \A u \in Task \ {t} : stream'[u] = stream[u],
           spoiled' \subseteq Task, \A u \in Task \ {t} : (u \in spoiled') = (u \in spoiled),
           Parts(t)', Retry(t)'
    PROVE  DlInv' 
<1>0. DlTypeOK /\ lock[ObjectOf[t]] = t
  BY DEF DlInv, Held
<1>1. pc' \in [Task -> Step] /\ pc'[t] = step /\ \A u \in Task \ {t} : pc'[u] = pc[u]
  BY <1>0 DEF Goto, DlTypeOK, Step
<1>2. Own(t)
  BY <1>1 DEF Own
<1>3. DlTypeOK'
  BY <1>0, <1>1 DEF DlTypeOK
<1>4. Held(t)'
  BY <1>0, <1>1 DEF Held
<1> QED BY <1>0, <1>2, <1>3, <1>4, OwnStep

LEMMA ProbeKeeps ==
    ASSUME DlInv, NEW t \in Task, Probe(t)
    PROVE  DlInv'
<1>0. /\ DlTypeOK /\ pc[t] = "probe" /\ pc[t] \in Holding /\ ObjectOf[t] \in Object /\ Retry(t)
      /\ UNCHANGED <<server, part, attempt, existing, cancelled, spoiled, faults>>
  BY DownloadAssumption DEF DlInv, Probe, Holding
<1>1. CASE Return(t, "reused") /\ dest' = dest
  BY <1>0, <1>1, ReturnKeeps DEF DlTypeOK, Ended
<1>2. CASE /\ dest' = [dest EXCEPT ![ObjectOf[t]] = NoFile] /\ Goto(t, "attempt")
           /\ UNCHANGED <<lock, stream>>
  <2>1. dest' \in [Object -> File] /\ part' \in [Object -> File] /\ existing' \in [Task -> Nat]
    BY <1>0, <1>2 DEF DlTypeOK, File
  <2>2. pc'[t] = "attempt" /\ attempt[t] = 0 /\ faults[t] = 0
    BY <1>0, <1>2 DEF Goto, DlTypeOK, Retry
  <2>3. Parts(t)'
    BY <2>2 DEF Parts
  <2>4. Retry(t)'
    BY <1>0, <2>2 DEF Retry, Waiting
  <2>5. "attempt" \in Holding /\ stream' \in [Task -> Chunk] /\ spoiled' \subseteq Task
    BY <1>0, <1>2 DEF Holding, DlTypeOK
  <2> QED BY <1>0, <1>2, <2>1, <2>3, <2>4, <2>5, GoOn
<1> QED BY <1>1, <1>2 DEF Probe

LEMMA RecoverLocalKeeps ==
    ASSUME DlInv, NEW t \in Task, RecoverLocal(t)
    PROVE  DlInv'
<1>0. /\ DlTypeOK /\ pc[t] = "probe" /\ pc[t] \in Holding /\ ObjectOf[t] \in Object
      /\ UNCHANGED <<server, part, attempt, existing, cancelled, spoiled, faults>>
  BY DownloadAssumption DEF DlInv, RecoverLocal, Holding
<1>1. CASE Return(t, "unrecovered") /\ dest' = dest
  BY <1>0, <1>1, ReturnKeeps DEF DlTypeOK, Ended
<1>2. CASE /\ Verified(ObjectOf[t], part[ObjectOf[t]])
           /\ dest' = [dest EXCEPT ![ObjectOf[t]] = NoFile] /\ Goto(t, "publish")
           /\ UNCHANGED <<lock, stream>>
  <2>1. dest' \in [Object -> File] /\ part' \in [Object -> File] /\ existing' \in [Task -> Nat]
    BY <1>0, <1>2 DEF DlTypeOK, File
  <2>2. pc'[t] = "publish"
    BY <1>0, <1>2 DEF Goto, DlTypeOK
  <2>3. Parts(t)'
    BY <1>0, <1>2, <2>2 DEF Parts, Verified
  <2>4. Retry(t)'
    BY <2>2 DEF Retry, Running, Waiting
  <2>5. "publish" \in Holding /\ stream' \in [Task -> Chunk] /\ spoiled' \subseteq Task
    BY <1>0, <1>2 DEF Holding, DlTypeOK
  <2> QED BY <1>0, <1>2, <2>1, <2>3, <2>4, <2>5, GoOn
<1> QED BY <1>1, <1>2 DEF RecoverLocal

LEMMA RefuseKeeps ==
    ASSUME DlInv, NEW t \in Task, Refuse(t)
    PROVE  DlInv'
<1>0. DlTypeOK /\ pc[t] \in Holding /\ "refused" \in Ended
  BY DEF DlInv, Refuse, Holding, Ended
<1> QED BY <1>0, ReturnKeeps DEF Refuse, DlTypeOK

LEMMA AttemptKeeps ==
    ASSUME DlInv, NEW t \in Task, Attempt(t)
    PROVE  DlInv'
<1>0. /\ DlTypeOK /\ pc[t] = "attempt" /\ pc[t] \in Holding /\ ObjectOf[t] \in Object /\ Retry(t)
      /\ UNCHANGED <<server, dest, part, attempt, cancelled, spoiled, faults>>
  BY DownloadAssumption DEF DlInv, Attempt, Holding
<1>1. CASE Return(t, "cancelled") /\ existing' = existing
  BY <1>0, <1>1, ReturnKeeps DEF DlTypeOK, Ended
<1>2. CASE /\ existing' = [existing EXCEPT ![t] = IF part[ObjectOf[t]] = NoFile THEN 0
                                                  ELSE Len(part[ObjectOf[t]])]
           /\ Goto(t, "sent") /\ UNCHANGED <<lock, stream>>
  <2>1. part[ObjectOf[t]] # NoFile => Len(part[ObjectOf[t]]) \in Nat
    BY <1>0 DEF DlTypeOK, File, Chunk
  <2>2. /\ existing' \in [Task -> Nat] /\ \A u \in Task \ {t} : existing'[u] = existing[u]
        /\ part[ObjectOf[t]] = NoFile => existing'[t] = 0
        /\ part[ObjectOf[t]] # NoFile => existing'[t] = Len(part[ObjectOf[t]])
    BY <1>0, <1>2, <2>1 DEF DlTypeOK
  <2>3. pc'[t] = "sent"
    BY <1>0, <1>2 DEF Goto, DlTypeOK
  <2>4. Parts(t)'
    BY <1>0, <2>2, <2>3 DEF Parts
  <2>5. Clean(t) => Clean(t)'
    BY <1>0, <2>2, <2>3 DEF Clean
  <2>6. Retry(t)'
    BY <1>0, <2>3, <2>5 DEF Retry, Running, Waiting
  <2>7. /\ "sent" \in Holding /\ stream' \in [Task -> Chunk] /\ spoiled' \subseteq Task
        /\ dest' \in [Object -> File] /\ part' \in [Object -> File]
    BY <1>0, <1>2 DEF Holding, DlTypeOK
  <2> QED BY <1>0, <1>2, <2>2, <2>4, <2>6, <2>7, GoOn
<1> QED BY <1>1, <1>2 DEF Attempt

LEMMA FaultKeeps ==
    ASSUME DlInv, NEW t \in Task, RequestFails(t) \/ StreamBreaks(t)
    PROVE  DlInv'
<1>0. DlTypeOK /\ pc[t] \in Running /\ TRUE \in BOOLEAN
  BY DEF DlInv, RequestFails, StreamBreaks, Running
<1> QED BY <1>0, FailKeeps DEF RequestFails, StreamBreaks, DlTypeOK

LEMMA RangeKeeps ==
    ASSUME DlInv, NEW t \in Task, RangeNotSatisfiable(t)
    PROVE  DlInv'
<1>0. /\ DlTypeOK /\ pc[t] = "sent" /\ pc[t] \in Holding /\ ObjectOf[t] \in Object /\ Retry(t)
      /\ existing[t] > 0 /\ existing[t] \in Nat
      /\ UNCHANGED <<server, dest, part, lock, attempt, existing, stream, cancelled, faults>>
  BY DownloadAssumption DEF DlInv, DlTypeOK, RangeNotSatisfiable, Answered, Holding
<1>1. spoiled' \subseteq Task /\ \A u \in Task \ {t} : (u \in spoiled') = (u \in spoiled)
  BY <1>0 DEF RangeNotSatisfiable, Answered, DlTypeOK
<1>2. pc'[t] = "verify"
  BY <1>0 DEF RangeNotSatisfiable, Goto, DlTypeOK
<1>3. Parts(t)'
  BY <1>2 DEF Parts
<1>4. ~ Clean(t)
  BY <1>0 DEF Clean
<1>5. Retry(t)'
  BY <1>0, <1>2, <1>4 DEF Retry, Running, Waiting
<1>6. "verify" \in Holding /\ DlTypeOK
  BY <1>0 DEF Holding
<1> QED BY <1>0, <1>1, <1>3, <1>5, <1>6, GoOn DEF RangeNotSatisfiable, DlTypeOK

\* The body is the object the server has: a wanted one fits behind the part file.
LEMMA RespondKeeps ==
    ASSUME DlInv, NEW t \in Task, Respond(t)
    PROVE  DlInv'
<1> DEFINE o == ObjectOf[t]
           v == server[o]
<1>0. /\ DlTypeOK /\ pc[t] = "sent" /\ pc[t] \in Holding /\ ObjectOf[t] \in Object /\ Retry(t)
      /\ Parts(t) /\ existing[t] \in Nat /\ v \in Version
      /\ UNCHANGED <<server, dest, lock, attempt, existing, cancelled, faults>>
  BY DownloadAssumption DEF DlInv, DlTypeOK, Respond, Answered, Holding
<1>1. /\ spoiled' \subseteq Task /\ \A u \in Task \ {t} : (u \in spoiled') = (u \in spoiled)
      /\ t \notin spoiled' => v = Wanted
  BY <1>0 DEF Respond, Answered, DlTypeOK
<1>2. pc'[t] = "stream"
  BY <1>0 DEF Respond, Goto, DlTypeOK
<1>3. /\ Body(v) \in Chunk /\ Len(Body(v)) = Chunks[v] /\ Chunks[v] \in Nat
      /\ \A i \in 1 .. Chunks[v] : Body(v)[i] = v
  BY <1>0, Bodies
<1>4. "stream" \in Holding /\ dest' \in [Object -> File] /\ existing' \in [Task -> Nat]
  BY <1>0 DEF Holding, DlTypeOK
<1>5. CASE /\ existing[t] > 0 /\ existing[t] < Len(Body(v)) /\ part' = part
           /\ stream' = [stream EXCEPT ![t] = SubSeq(Body(v), existing[t] + 1, Len(Body(v)))]
  <2> DEFINE rest == SubSeq(Body(v), existing[t] + 1, Len(Body(v)))
  <2>1. /\ rest \in Chunk /\ Len(rest) = Chunks[v] - existing[t]
        /\ \A i \in 1 .. Chunks[v] - existing[t] : rest[i] = v
    BY <1>0, <1>3, <1>5, Rests
  <2> HIDE DEF rest
  <2>2. /\ stream' \in [Task -> Chunk] /\ stream'[t] = rest
        /\ \A u \in Task \ {t} : stream'[u] = stream[u]
    BY <1>0, <1>5, <2>1 DEF DlTypeOK, rest
  <2>3. part[o] # NoFile /\ Len(part[o]) = existing[t]
    BY <1>0, <1>5 DEF Parts
  <2>4. t \notin spoiled' => /\ Len(part[o]) + Len(rest) = Chunks[Wanted]
                             /\ \A i \in 1 .. Len(rest) : rest[i] = Wanted
    BY <1>0, <1>1, <1>3, <2>1, <2>3
  <2>5. Parts(t)'
    BY <1>2, <1>5, <2>2, <2>3, <2>4 DEF Parts
  <2>6. ~ Clean(t)
    BY <1>0, <1>5 DEF Clean
  <2>7. Retry(t)'
    BY <1>0, <1>2, <2>6 DEF Retry, Running, Waiting
  <2>8. part' \in [Object -> File]
    BY <1>0, <1>5 DEF DlTypeOK
  <2> QED BY <1>0, <1>1, <1>4, <1>5, <2>2, <2>5, <2>7, <2>8, GoOn DEF Respond
<1>6. CASE stream' = [stream EXCEPT ![t] = Body(v)] /\ part' = [part EXCEPT ![o] = <<>>]
  <2>1. /\ stream' \in [Task -> Chunk] /\ stream'[t] = Body(v)
        /\ \A u \in Task \ {t} : stream'[u] = stream[u]
    BY <1>0, <1>3, <1>6 DEF DlTypeOK
  <2>2. /\ <<>> \in Chunk /\ <<>> # NoFile /\ Len(<<>>) = 0
    <3>1. <<>> \in Seq(Version) /\ Len(<<>>) = 0
      OBVIOUS
    <3> QED BY <3>1, DownloadAssumption DEF Chunk
  <2>3. /\ part' \in [Object -> File] /\ part'[o] = <<>>
        /\ \A p \in Object \ {o} : part'[p] = part[p]
    BY <1>0, <1>6, <2>2 DEF DlTypeOK, File
  <2>4. Parts(t)'
    BY <1>0, <1>1, <1>2, <1>3, <2>1, <2>2, <2>3 DEF Parts
  <2>5. Clean(t)'
    BY <1>2, <2>2, <2>3 DEF Clean
  <2>6. Retry(t)'
    BY <1>0, <1>2, <2>5 DEF Retry, Running, Waiting
  <2> QED BY <1>0, <1>1, <1>4, <2>1, <2>3, <2>4, <2>6, GoOn DEF Respond
<1> QED BY <1>5, <1>6 DEF Respond

LEMMA WriteChunkKeeps ==
    ASSUME DlInv, NEW t \in Task, WriteChunk(t)
    PROVE  DlInv'
<1> DEFINE o == ObjectOf[t]
<1>0. /\ DlTypeOK /\ pc[t] = "stream" /\ pc[t] \in Holding /\ pc[t] \in Running
      /\ ObjectOf[t] \in Object /\ Retry(t) /\ Parts(t)
      /\ stream[t] # <<>> /\ UNCHANGED <<server, dest, existing, cancelled>>
  BY DownloadAssumption DEF DlInv, WriteChunk, Holding, Running
<1>1. part[o] \in Chunk /\ part[o] # NoFile /\ stream[t] \in Chunk /\ stream[t] # <<>>
  BY <1>0 DEF DlTypeOK, File, Parts
<1>2. /\ Head(stream[t]) \in Version /\ Tail(stream[t]) \in Chunk
      /\ Len(Tail(stream[t])) = Len(stream[t]) - 1 /\ Len(stream[t]) \in Nat \ {0} /\ Len(part[o]) \in Nat
      /\ \A i \in 1 .. Len(Tail(stream[t])) : Tail(stream[t])[i] = stream[t][i + 1]
      /\ Head(stream[t]) = stream[t][1]
  BY <1>1 DEF Chunk
<1>3. CASE /\ part' = [part EXCEPT ![o] = Append(part[o], Head(stream[t]))]
           /\ stream' = [stream EXCEPT ![t] = Tail(stream[t])]
           /\ UNCHANGED <<pc, lock, attempt, spoiled, faults>>
  <2> DEFINE new == Append(part[o], Head(stream[t]))
  <2>1. /\ new \in Chunk /\ Len(new) = Len(part[o]) + 1
        /\ \A i \in 1 .. Len(part[o]) : new[i] = part[o][i]
        /\ new[Len(part[o]) + 1] = Head(stream[t])
    BY <1>1, <1>2, AppendProperties DEF Chunk
  <2> HIDE DEF new
  <2>2. /\ part' \in [Object -> File] /\ part'[o] = new
        /\ \A p \in Object \ {o} : part'[p] = part[p]
    BY <1>0, <1>3, <2>1 DEF DlTypeOK, File, new
  <2>9. new # NoFile
    BY <2>1, DownloadAssumption DEF Chunk
  <2>3. /\ stream' \in [Task -> Chunk] /\ stream'[t] = Tail(stream[t])
        /\ \A u \in Task \ {t} : stream'[u] = stream[u]
    BY <1>0, <1>2, <1>3 DEF DlTypeOK
  <2>4. t \notin spoiled =>
          /\ Len(new) + Len(Tail(stream[t])) = Chunks[Wanted]
          /\ \A i \in 1 .. Len(Tail(stream[t])) : Tail(stream[t])[i] = Wanted
          /\ Head(stream[t]) = Wanted
    <3>1. t \notin spoiled => /\ Len(part[o]) + Len(stream[t]) = Chunks[Wanted]
                              /\ \A i \in 1 .. Len(stream[t]) : stream[t][i] = Wanted
      BY <1>0 DEF Parts
    <3>2. ASSUME t \notin spoiled, NEW i \in 1 .. Len(Tail(stream[t]))
          PROVE  Tail(stream[t])[i] = Wanted
      <4>1. i + 1 \in 1 .. Len(stream[t])
        BY <1>2
      <4> QED BY <1>2, <3>1, <3>2, <4>1
    <3>3. t \notin spoiled => Head(stream[t]) = Wanted
      <4>1. 1 \in 1 .. Len(stream[t])
        BY <1>2
      <4> QED BY <1>2, <3>1, <4>1
    <3>4. t \notin spoiled => Len(new) + Len(Tail(stream[t])) = Chunks[Wanted]
      <4>1. Len(new) + Len(Tail(stream[t])) = Len(part[o]) + Len(stream[t])
        <5>1. Len(new) = Len(part[o]) + 1
          BY <2>1
        <5>2. Len(Tail(stream[t])) = Len(stream[t]) - 1
          BY <1>2
        <5>3. (Len(part[o]) + 1) + (Len(stream[t]) - 1) = Len(part[o]) + Len(stream[t])
          <6>1. Len(part[o]) \in Nat /\ Len(stream[t]) \in Nat
            BY <1>2
          <6>2. \A x, y \in Nat : (x + 1) + (y - 1) = x + y
            OBVIOUS
          <6> QED BY <6>1, <6>2
        <5> QED BY <5>1, <5>2, <5>3, Zenon
      <4> QED BY <3>1, <4>1
    <3> QED BY <3>2, <3>3, <3>4
  <2>5. Parts(t)'
    BY <1>0, <1>3, <2>2, <2>3, <2>4, <2>9 DEF Parts
  <2>6. Clean(t) => Clean(t)'
    <3>1. t \notin spoiled /\ (\A i \in 1 .. Len(part[o]) : part[o][i] = Wanted)
            => \A i \in 1 .. Len(new) : new[i] = Wanted
      BY <1>2, <2>1, <2>4, SMTT(30)
    <3> QED BY <1>0, <1>3, <2>2, <3>1 DEF Clean
  <2>7. Retry(t)'
    BY <1>0, <1>3, <2>6 DEF Retry
  <2>8. /\ Goto(t, "stream") /\ "stream" \in Holding /\ dest' \in [Object -> File]
        /\ existing' \in [Task -> Nat] /\ spoiled' \subseteq Task
    BY <1>0, <1>3 DEF Goto, DlTypeOK
  <2> QED BY <1>0, <1>3, <2>2, <2>3, <2>5, <2>7, <2>8, GoOn
<1>4. CASE /\ t \in cancelled \/ Len(part[o]) >= MaxFileSize
           /\ FailAttempt(t, FALSE) /\ part' = part
  <2>1. t \in spoiled \/ t \in cancelled
    <3>1. t \notin spoiled => Len(part[o]) + Len(stream[t]) = Chunks[Wanted]
      BY <1>0 DEF Parts
    <3>2. Chunks[Wanted] <= MaxFileSize /\ Chunks[Wanted] \in Nat /\ MaxFileSize \in Nat
      BY DownloadAssumption
    <3>3. Len(part[o]) >= MaxFileSize => Len(part[o]) + Len(stream[t]) # Chunks[Wanted]
      <4> SUFFICES ASSUME NEW x \in Nat, NEW y \in Nat \ {0}, NEW k \in Nat, NEW m \in Nat,
                          k <= m, x >= m
                   PROVE  x + y # k
        BY <1>2, <3>2
      <4> QED OBVIOUS
    <3> QED BY <1>4, <3>1, <3>3
  <2>2. part' \in [Object -> File] /\ FALSE \in BOOLEAN
    BY <1>0, <1>4 DEF DlTypeOK
  <2> QED BY <1>0, <1>4, <2>1, <2>2, FailKeeps
<1> QED BY <1>3, <1>4 DEF WriteChunk

LEMMA StreamEndsKeeps ==
    ASSUME DlInv, NEW t \in Task, StreamEnds(t)
    PROVE  DlInv'
<1> DEFINE o == ObjectOf[t]
<1>0. /\ DlTypeOK /\ pc[t] = "stream" /\ pc[t] \in Holding /\ ObjectOf[t] \in Object /\ Retry(t)
      /\ Parts(t) /\ stream[t] = <<>>
      /\ UNCHANGED <<server, dest, part, lock, attempt, existing, stream, cancelled, spoiled, faults>>
  BY DownloadAssumption DEF DlInv, StreamEnds, Holding
<1>1. pc'[t] = "verify" /\ "verify" \in Holding
  BY <1>0 DEF StreamEnds, Goto, DlTypeOK, Holding
<1>2. Parts(t)'
  BY <1>1 DEF Parts
<1>3. Clean(t) => Clean(t)'
  <2>1. part[o] \in Chunk
    BY <1>0 DEF DlTypeOK, File, Parts
  <2>2. t \notin spoiled => Len(part[o]) = Chunks[Wanted]
    <3>1. t \notin spoiled => Len(part[o]) + Len(stream[t]) = Chunks[Wanted]
      BY <1>0 DEF Parts
    <3>2. Len(part[o]) \in Nat /\ Len(stream[t]) = 0
      BY <1>0, <2>1 DEF Chunk
    <3> QED BY <3>1, <3>2
  <2>3. t \notin spoiled /\ (\A i \in 1 .. Len(part[o]) : part[o][i] = Wanted) => part[o] = Body(Wanted)
    BY <2>1, <2>2, WholeFile
  <2> QED BY <1>0, <1>1, <2>3 DEF Clean
<1>4. Retry(t)'
  BY <1>0, <1>1, <1>3 DEF Retry, Running, Waiting
<1> QED BY <1>0, <1>1, <1>2, <1>4, GoOn DEF StreamEnds, DlTypeOK

LEMMA VerifyKeeps ==
    ASSUME DlInv, NEW t \in Task, VerifyPart(t)
    PROVE  DlInv'
<1> DEFINE o == ObjectOf[t]
<1>0. /\ DlTypeOK /\ pc[t] = "verify" /\ pc[t] \in Holding /\ pc[t] \in Running
      /\ ObjectOf[t] \in Object /\ Retry(t) /\ UNCHANGED <<server, dest, existing, cancelled>>
  BY DownloadAssumption DEF DlInv, VerifyPart, Holding, Running
<1>1. CASE /\ Verified(o, part[o]) /\ Goto(t, "publish")
           /\ UNCHANGED <<part, lock, attempt, stream, spoiled, faults>>
  <2>1. pc'[t] = "publish" /\ "publish" \in Holding
    BY <1>0, <1>1 DEF Goto, DlTypeOK, Holding
  <2>2. Parts(t)'
    BY <1>1, <2>1 DEF Parts, Verified
  <2>3. Retry(t)'
    BY <2>1 DEF Retry, Running, Waiting
  <2> QED BY <1>0, <1>1, <2>1, <2>2, <2>3, GoOn DEF DlTypeOK
<1>2. CASE /\ ~ Verified(o, part[o]) /\ part' = [part EXCEPT ![o] = NoFile]
           /\ FailAttempt(t, FALSE)
  <2>1. part' \in [Object -> File] /\ part'[o] = NoFile /\ \A p \in Object \ {o} : part'[p] = part[p]
    BY <1>0, <1>2 DEF DlTypeOK, File
  <2>2. t \notin spoiled => ~ Clean(t)
    BY <1>0, <1>2, WantedVerifies DEF Clean
  <2>3. t \in spoiled \/ t \in cancelled \/ attempt[t] # 2 * faults[t] + 1
    BY <1>0, <2>2 DEF Retry
  <2>4. FALSE \in BOOLEAN
    OBVIOUS
  <2> QED BY <1>0, <1>2, <2>1, <2>3, <2>4, FailKeeps
<1> QED BY <1>1, <1>2 DEF VerifyPart

LEMMA PublishKeeps ==
    ASSUME DlInv, NEW t \in Task, Publish(t)
    PROVE  DlInv'
<1>0. /\ DlTypeOK /\ pc[t] \in Holding /\ "done" \in Ended /\ ObjectOf[t] \in Object
  BY DownloadAssumption DEF DlInv, Publish, Holding, Ended
<1>1. /\ dest' \in [Object -> File] /\ part' \in [Object -> File]
      /\ \A o \in Object \ {ObjectOf[t]} : part'[o] = part[o]
  BY <1>0 DEF Publish, DlTypeOK, File
<1> QED BY <1>0, <1>1, ReturnKeeps DEF Publish

LEMMA TaskKeeps ==
    ASSUME DlInv, NEW t \in Task, TaskStep(t)
    PROVE  DlInv'
BY AcquireKeeps, BusyKeeps, ProbeKeeps, RecoverLocalKeeps, RefuseKeeps, AttemptKeeps, FaultKeeps, RangeKeeps,
   RespondKeeps, WriteChunkKeeps, StreamEndsKeeps, VerifyKeeps, PublishKeeps DEF TaskStep

-----------------------------------------------------------------------------
(***************************************************************************)
(* The cache around the downloads.                                         *)
(***************************************************************************)
Prunes == [step : PruneStep, indexed : SUBSET Object, toScan : SUBSET Process,
           referenced : SUBSET Object, objects : SUBSET Object, parts : SUBSET Object,
           tmps : SUBSET Writer, removed : SUBSET Object]

CacheTypes ==
    /\ ipc \in [Process -> InstallStep]
    /\ rounds \in [Process -> Nat]
    /\ budget \in [Event -> Nat]
    /\ refs \in [Process -> Listing]
    /\ index \in Listing
    /\ tmp \in [Writer -> Listing]
    /\ idxLock \in Writer \cup {None}
    /\ prune \in Prunes
    /\ stable \subseteq Process \X Object

Batches == \A p \in Process : Batch(p)

LEMMA InvParts == IInv => DlInv /\ CacheTypes /\ Batches /\ Scanned
BY DEF IInv, DlInv, TypeOK, CacheTypes, Batches, Prunes

LEMMA InvMade ==
    ASSUME DlInv', CacheTypes', Batches', Scanned'
    PROVE  IInv'
BY DEF IInv, DlInv, TypeOK, CacheTypes, Batches, Prunes

LEMMA ListedType == \A l \in Listing : Listed(l) \in SUBSET Object
BY DEF Listing, Listed

LEMMA NoPruneType == NoPrune \in Prunes /\ NoPrune.step = "idle"
BY DEF NoPrune, Prunes, PruneStep

LEMMA PlanType == \A p \in Process : PlanOf(p) \in Listing /\ TasksOf(p) \subseteq Task
BY DownloadAssumption DEF PlanOf, TasksOf, Listing

LEMMA SpendType ==
    ASSUME CacheTypes, NEW e \in Event, Spend(e)
    PROVE  budget' \in [Event -> Nat]
BY DEF CacheTypes, Spend

\* No task and no part file in use is touched.
LEMMA DlSpared ==
    ASSUME DlInv, DlTypeOK', \A u \in Task : Spares(u)
    PROVE  DlInv'
BY SparedKept DEF DlInv

LEMMA DlSame ==
    ASSUME DlInv, UNCHANGED dlVars
    PROVE  DlInv' /\ pc' = pc
<1>1. DlTypeOK'
  BY DEF DlInv, DlTypeOK, dlVars
<1>2. \A u \in Task : Spares(u)
  BY DEF DlInv, Held, Spares, dlVars
<1> QED BY <1>1, <1>2, DlSpared DEF dlVars

LEMMA BatchSame ==
    ASSUME NEW q \in Process, Batch(q), ipc'[q] = ipc[q], refs'[q] = refs[q],
           \A t \in TasksOf(q) : pc'[t] = pc[t]
    PROVE  Batch(q)'
BY DEF Batch, TasksOf

LEMMA ScannedSame ==
    ASSUME Scanned, UNCHANGED <<refs, prune, stable>>
    PROVE  Scanned'
BY DEF Scanned

\* An installation moves on and leaves the prune alone; its own batch is at its place.
LEMMA InstallMoves ==
    ASSUME IInv, NEW p \in Process, NEW step \in InstallStep, InstallGoto(p, step), DlInv',
           UNCHANGED <<rounds, prune, stable>>, \A t \in TasksOf(p) : pc'[t] = pc[t],
           \A q \in Process \ {p} : \A t \in TasksOf(q) : pc'[t] = pc[t],
           budget' \in [Event -> Nat], refs' = refs, index' \in Listing, tmp' \in [Writer -> Listing],
           idxLock' \in Writer \cup {None},
           step # "download" => \A t \in TasksOf(p) : pc[t] \in Ended \cup {"idle"},
           step # "managed_gone"
    PROVE  IInv'
<1>1. DlInv /\ CacheTypes /\ Batches /\ Scanned
  BY InvParts
<1>2. ipc' \in [Process -> InstallStep] /\ ipc'[p] = step /\ \A q \in Process \ {p} : ipc'[q] = ipc[q]
  BY <1>1 DEF InstallGoto, CacheTypes
<1>3. CacheTypes'
  BY <1>1, <1>2 DEF CacheTypes
<1>4. Batch(p)'
  BY <1>2 DEF Batch, TasksOf
<1>5. \A q \in Process \ {p} : Batch(q)'
  BY <1>1, <1>2, BatchSame DEF Batches
<1>6. Batches'
  BY <1>4, <1>5 DEF Batches
<1> QED BY <1>1, <1>3, <1>6, ScannedSame, InvMade

LEMMA StartInstallKeeps ==
    ASSUME IInv, NEW p \in Process, StartInstall(p)
    PROVE  IInv'
<1>1. DlInv /\ CacheTypes /\ Batches /\ Scanned
  BY InvParts
<1>2. \A t \in TasksOf(p) : pc[t] \in Ended \cup {"idle"}
  BY <1>1 DEF StartInstall, Batches, Batch
<1>3. DlTypeOK'
  <2>1. /\ pc' \in [Task -> Step] /\ attempt' \in [Task -> 0 .. Retries]
        /\ faults' \in [Task -> 0 .. Retries + 1]
    BY <1>1, DownloadAssumption DEF StartInstall, DlInv, DlTypeOK, Step, Waiting
  <2>2. cancelled' \subseteq Task /\ spoiled' \subseteq Task
    BY <1>1 DEF StartInstall, DlInv, DlTypeOK
  <2> QED BY <1>1, <2>1, <2>2 DEF StartInstall, DlInv, DlTypeOK
<1>4. ASSUME NEW u \in Task PROVE Held(u)' /\ Parts(u)' /\ Retry(u)'
  <2>1. CASE u \in TasksOf(p)
    <3>1. pc'[u] = "idle" /\ attempt'[u] = 0 /\ faults'[u] = 0
      BY <2>1 DEF StartInstall
    <3> QED BY <3>1 DEF Held, Parts, Retry, Holding, Running, Waiting
  <2>2. CASE u \notin TasksOf(p)
    <3>1. Spares(u)
      BY <1>1, <2>2 DEF StartInstall, Spares, DlInv, Held
    <3> QED BY <1>1, <3>1, SparedKept
  <2> QED BY <2>1, <2>2
<1>5. DlInv'
  BY <1>3, <1>4 DEF DlInv
<1>6. ipc' \in [Process -> InstallStep] /\ ipc'[p] = "download" /\ \A q \in Process \ {p} : ipc'[q] = ipc[q]
  BY <1>1 DEF StartInstall, InstallGoto, CacheTypes, InstallStep
<1>7. rounds' \in [Process -> Nat]
  BY <1>1 DEF StartInstall, CacheTypes
<1>8. CacheTypes'
  BY <1>1, <1>6, <1>7 DEF StartInstall, CacheTypes
<1>9. ASSUME NEW q \in Process \ {p} PROVE Batch(q)'
  <2>1. \A t \in TasksOf(q) : t \in Task /\ t \notin TasksOf(p)
    BY DEF TasksOf
  <2>2. \A t \in TasksOf(q) : pc'[t] = pc[t]
    BY <2>1 DEF StartInstall
  <2> QED BY <1>1, <1>6, <2>2, BatchSame DEF Batches, StartInstall
<1>10. Batch(p)'
  BY <1>6 DEF Batch
<1>11. Batches'
  BY <1>9, <1>10 DEF Batches
<1>12. Scanned'
  BY <1>1, ScannedSame DEF StartInstall
<1> QED BY <1>5, <1>8, <1>11, <1>12, InvMade

\* A step of a task moves no other task, and only a task that runs takes one.
LEMMA TaskMoves ==
    ASSUME DlTypeOK, NEW t \in Task, Begin(t) \/ TaskStep(t)
    PROVE  /\ \A u \in Task \ {t} : pc'[u] = pc[u]
           /\ TaskStep(t) => pc[t] \notin Ended \cup {"idle"}
<1>1. \A step : Goto(t, step) => \A u \in Task \ {t} : pc'[u] = pc[u]
  BY DEF Goto, DlTypeOK
<1>2. \A outcome : Return(t, outcome) => \A u \in Task \ {t} : pc'[u] = pc[u]
  BY <1>1 DEF Return
<1>3. \A fault : FailAttempt(t, fault) => \A u \in Task \ {t} : pc'[u] = pc[u]
  BY <1>1, <1>2 DEF FailAttempt
<1>4. \A u \in Task \ {t} : pc'[u] = pc[u]
  BY <1>1, <1>2, <1>3 DEF Begin, TaskStep, Acquire, Busy, Probe, RecoverLocal, Refuse, Attempt, RequestFails,
       RangeNotSatisfiable, Respond, WriteChunk, StreamBreaks, StreamEnds, VerifyPart, Publish
<1>5. TaskStep(t) => pc[t] \in {"lock"} \cup Holding
  BY DEF TaskStep, Acquire, Busy, Probe, RecoverLocal, Refuse, Attempt, RequestFails, Holding,
       RangeNotSatisfiable, Respond, WriteChunk, StreamBreaks, StreamEnds, VerifyPart, Publish
<1> QED BY <1>4, <1>5 DEF Holding, Ended

LEMMA TaskActionKeeps ==
    ASSUME IInv, NEW p \in Process, StartTask(p) \/ TaskProgress(p)
    PROVE  IInv'
<1>1. DlInv /\ CacheTypes /\ Batches /\ Scanned /\ DlTypeOK
  BY InvParts DEF DlInv
<1>2. PICK t \in TasksOf(p) : (Begin(t) /\ ipc[p] = "download") \/ TaskStep(t)
  BY DEF StartTask, TaskProgress
<1>3. t \in Task /\ ProcessOf[t] = p
  BY DEF TasksOf
<1>4. DlInv'
  BY <1>1, <1>2, <1>3, BeginKeeps, TaskKeeps
<1>5. UNCHANGED cacheVars
  BY DEF StartTask, TaskProgress
<1>6. CacheTypes' /\ Scanned'
  BY <1>1, <1>5, ScannedSame DEF cacheVars, CacheTypes
<1>7. \A u \in Task \ {t} : pc'[u] = pc[u]
  BY <1>1, <1>2, <1>3, TaskMoves
<1>8. ipc[p] = "download"
  BY <1>1, <1>2, <1>3, TaskMoves DEF Batches, Batch
<1>9. ASSUME NEW q \in Process PROVE Batch(q)'
  <2>1. CASE q = p
    BY <1>5, <1>8, <2>1 DEF Batch, cacheVars
  <2>2. CASE q # p
    <3>1. \A u \in TasksOf(q) : u \in Task \ {t}
      BY <1>3, <2>2 DEF TasksOf
    <3> QED BY <1>1, <1>5, <1>7, <3>1, BatchSame DEF Batches, cacheVars
  <2> QED BY <2>1, <2>2
<1> QED BY <1>4, <1>6, <1>9, InvMade DEF Batches

LEMMA InstallKeeps ==
    ASSUME IInv, NEW p \in Process, EndBatch(p) \/ Snapshot(p) \/ Register(p)
    PROVE  IInv'
<1>1. DlInv /\ CacheTypes /\ Batches /\ Scanned
  BY InvParts
<1>2. DlInv' /\ pc' = pc
  BY <1>1, DlSame DEF EndBatch, Snapshot, Register
<1>3. \A t \in TasksOf(p) : pc[t] \in Ended \cup {"idle"}
  <2>1. CASE EndBatch(p)
    BY <2>1 DEF EndBatch
  <2>2. CASE Snapshot(p) \/ Register(p)
    <3>1. ipc[p] # "download"
      BY <2>2 DEF Snapshot, Register
    <3> QED BY <1>1, <3>1 DEF Batches, Batch
  <2> QED BY <2>1, <2>2
<1>4. /\ UNCHANGED <<rounds, prune, stable>> /\ refs' = refs /\ budget' \in [Event -> Nat]
  BY <1>1 DEF EndBatch, Snapshot, Register, CacheTypes
<1>5. PICK step \in InstallStep \ {"managed_gone", "download"} : InstallGoto(p, step)
  BY DEF EndBatch, Snapshot, Register, InstallStep
<1>6. index' \in Listing /\ tmp' \in [Writer -> Listing] /\ idxLock' \in Writer \cup {None}
  <2>1. p \in Writer /\ NoFile \in Listing
    BY DEF Writer, Listing
  <2>2. EntriesWith(p) \in Listing
    <3>1. LoadIndex \in SUBSET Object /\ Listed(refs[p]) \in SUBSET Object
      BY <1>1, ListedType DEF CacheTypes, LoadIndex
    <3> QED BY <3>1 DEF EntriesWith, Listing
  <2>3. CASE EndBatch(p) \/ Snapshot(p)
    BY <1>1, <2>3 DEF EndBatch, Snapshot, CacheTypes
  <2>4. CASE WriteIndexTemporary(p, EntriesWith(p))
    BY <1>1, <2>1, <2>2, <2>4 DEF WriteIndexTemporary, CacheTypes
  <2>5. CASE RemoveIndex(p)
    BY <1>1, <2>1, <2>5 DEF RemoveIndex, CacheTypes
  <2>6. CASE RenameIndex(p)
    BY <1>1, <2>1, <2>6 DEF RenameIndex, CacheTypes
  <2>7. CASE IndexBusy
    BY <1>1, <2>7 DEF IndexBusy, CacheTypes
  <2> QED BY <2>3, <2>4, <2>5, <2>6, <2>7 DEF Register
<1> QED BY <1>1, <1>2, <1>3, <1>4, <1>5, <1>6, InstallMoves

\* The managed index is removed: its references are no longer stable ones.
LEMMA RemoveManagedKeeps ==
    ASSUME IInv, NEW p \in Process, RemoveManaged(p)
    PROVE  IInv'
<1>1. DlInv /\ CacheTypes /\ Batches /\ Scanned
  BY InvParts
<1>2. DlInv' /\ pc' = pc
  BY <1>1, DlSame DEF RemoveManaged
<1>3. /\ ipc' \in [Process -> InstallStep] /\ ipc'[p] = "managed_gone"
      /\ \A q \in Process \ {p} : ipc'[q] = ipc[q]
  BY <1>1 DEF RemoveManaged, InstallGoto, CacheTypes, InstallStep
<1>4. refs' \in [Process -> Listing] /\ refs'[p] = NoFile /\ \A q \in Process \ {p} : refs'[q] = refs[q]
  BY <1>1 DEF RemoveManaged, CacheTypes, Listing
<1>5. CacheTypes'
  BY <1>1, <1>3, <1>4 DEF RemoveManaged, CacheTypes
<1>6. Batch(p)'
  <2>1. \A t \in TasksOf(p) : pc[t] \in Ended \cup {"idle"}
    BY <1>1 DEF RemoveManaged, Batches, Batch
  <2> QED BY <1>2, <1>3, <1>4, <2>1 DEF Batch, TasksOf
<1>7. Batches'
  BY <1>1, <1>2, <1>3, <1>4, <1>6, BatchSame DEF Batches
<1>8. Scanned'
  <2>1. ASSUME NEW r \in stable' PROVE r \in stable /\ r[1] \in Process \ {p}
    BY <1>1 DEF RemoveManaged, CacheTypes
  <2>2. prune' = prune
    BY DEF RemoveManaged
  <2> QED BY <1>1, <1>4, <2>1, <2>2 DEF Scanned
<1> QED BY <1>2, <1>5, <1>7, <1>8, InvMade

LEMMA RenameManagedKeeps ==
    ASSUME IInv, NEW p \in Process, RenameManaged(p)
    PROVE  IInv'
<1>1. DlInv /\ CacheTypes /\ Batches /\ Scanned
  BY InvParts
<1>2. DlInv' /\ pc' = pc
  BY <1>1, DlSame DEF RenameManaged
<1>3. /\ ipc' \in [Process -> InstallStep] /\ ipc'[p] = "register"
      /\ \A q \in Process \ {p} : ipc'[q] = ipc[q]
  BY <1>1 DEF RenameManaged, InstallGoto, CacheTypes, InstallStep
<1>4. refs' \in [Process -> Listing] /\ \A q \in Process \ {p} : refs'[q] = refs[q]
  BY <1>1, PlanType DEF RenameManaged, CacheTypes
<1>5. CacheTypes'
  BY <1>1, <1>3, <1>4 DEF RenameManaged, CacheTypes
<1>6. refs[p] = NoFile /\ \A t \in TasksOf(p) : pc[t] \in Ended \cup {"idle"}
  BY <1>1 DEF RenameManaged, Batches, Batch
<1>7. Batch(p)'
  BY <1>2, <1>3, <1>6 DEF Batch, TasksOf
<1>8. Batches'
  BY <1>1, <1>2, <1>3, <1>4, <1>7, BatchSame DEF Batches
<1>9. Scanned'
  <2>1. ASSUME NEW r \in stable PROVE r[1] \in Process \ {p}
    BY <1>1, <1>6 DEF CacheTypes, Scanned, Listed
  <2>2. prune' = prune /\ stable' = stable
    BY DEF RenameManaged
  <2> QED BY <1>1, <1>4, <2>1, <2>2 DEF Scanned
<1> QED BY <1>2, <1>5, <1>8, <1>9, InvMade

-----------------------------------------------------------------------------
(***************************************************************************)
(* The prune.                                                              *)
(***************************************************************************)
\* A step of the prune: no installation moves.
LEMMA PruneMoves ==
    ASSUME IInv, DlInv', pc' = pc, UNCHANGED <<ipc, rounds, refs>>, budget' \in [Event -> Nat],
           index' \in Listing, tmp' \in [Writer -> Listing], idxLock' \in Writer \cup {None},
           prune' \in Prunes, stable' \subseteq Process \X Object, Scanned'
    PROVE  IInv'
<1>1. CacheTypes /\ Batches
  BY InvParts
<1>2. CacheTypes'
  BY <1>1 DEF CacheTypes
<1>3. Batches'
  BY <1>1, BatchSame DEF Batches
<1> QED BY <1>2, <1>3, InvMade

LEMMA PruneLoadKeeps ==
    ASSUME IInv, PruneLoad
    PROVE  IInv'
<1>1. DlInv /\ CacheTypes /\ Batches /\ Scanned
  BY InvParts
<1>2. DlInv' /\ pc' = pc
  BY <1>1, DlSame DEF PruneLoad
<1>3. LoadIndex \in SUBSET Object
  BY <1>1, ListedType DEF CacheTypes, LoadIndex
<1>4. prune' \in Prunes /\ prune'.step = "scan" /\ prune'.toScan = Process
  BY <1>3, NoPruneType DEF PruneLoad, Prunes, PruneStep
<1>5. /\ stable' \subseteq Process \X Object
      /\ \A r \in stable' : r[1] \in Process /\ r[2] \in Listed(refs[r[1]])
  BY DEF PruneLoad
<1>6. budget' \in [Event -> Nat]
  BY <1>1, SpendType DEF PruneLoad, Event
<1>7. Scanned'
  BY <1>4, <1>5 DEF Scanned, PruneLoad
<1> QED BY <1>1, <1>2, <1>4, <1>5, <1>6, <1>7, PruneMoves DEF PruneLoad, CacheTypes

LEMMA PruneScanKeeps ==
    ASSUME IInv, NEW p \in Process, PruneScan(p)
    PROVE  IInv'
<1>1. DlInv /\ CacheTypes /\ Batches /\ Scanned
  BY InvParts
<1>2. DlInv' /\ pc' = pc
  BY <1>1, DlSame DEF PruneScan
<1>3. Listed(refs[p]) \in SUBSET Object /\ prune \in Prunes /\ prune.step = "scan"
  BY <1>1, ListedType DEF CacheTypes, PruneScan
<1>4. /\ prune' \in Prunes /\ prune'.step = "scan" /\ prune'.toScan = prune.toScan \ {p}
      /\ prune'.referenced = prune.referenced \cup Listed(refs[p])
  BY <1>3 DEF PruneScan, Prunes
<1>5. refs' = refs /\ stable' = stable
  BY DEF PruneScan
<1>6. Scanned'
  BY <1>1, <1>3, <1>4, <1>5 DEF Scanned
<1> QED BY <1>1, <1>2, <1>4, <1>6, PruneMoves DEF PruneScan, CacheTypes

\* Every instance is scanned: a stable reference is not among the candidates.
LEMMA PruneCandidatesKeeps ==
    ASSUME IInv, PruneCandidates
    PROVE  IInv'
<1>1. DlInv /\ CacheTypes /\ Batches /\ Scanned
  BY InvParts
<1>2. DlInv' /\ pc' = pc
  BY <1>1, DlSame DEF PruneCandidates
<1>3. prune \in Prunes /\ prune.step = "scan" /\ prune.toScan = {}
  BY <1>1 DEF CacheTypes, PruneCandidates
<1>4. CASE prune' = NoPrune /\ stable' = {}
  <2>1. Scanned' /\ prune' \in Prunes
    BY <1>4, NoPruneType DEF Scanned
  <2> QED BY <1>1, <1>2, <1>4, <2>1, PruneMoves DEF PruneCandidates, CacheTypes
<1>5. CASE ~ (prune' = NoPrune /\ stable' = {})
  <2>1. PICK evicted \in SUBSET {o \in prune.indexed \ prune.referenced : dest[o] # NoFile} :
          prune' = [prune EXCEPT !.step = "remove", !.objects = evicted,
                                 !.parts = {o \in Object : part[o] # NoFile},
                                 !.tmps = {w \in Writer : tmp[w] # NoFile}]
    BY <1>5 DEF PruneCandidates
  <2>2. evicted \in SUBSET Object /\ evicted \cap prune.referenced = {}
    BY <1>3 DEF Prunes
  <2>3. prune' \in Prunes /\ prune'.step = "remove" /\ prune'.objects = evicted
    BY <1>3, <2>1, <2>2 DEF Prunes, PruneStep
  <2>4. stable' = stable /\ refs' = refs
    BY <1>5 DEF PruneCandidates
  <2>5. Scanned'
    BY <1>1, <1>3, <2>2, <2>3, <2>4 DEF Scanned
  <2> QED BY <1>1, <1>2, <2>3, <2>4, <2>5, PruneMoves DEF PruneCandidates, CacheTypes
<1> QED BY <1>4, <1>5

\* The removal of an object leaves the tasks alone.
LEMMA PruneObjectKeeps ==
    ASSUME IInv, NEW o \in Object, PruneObject(o)
    PROVE  IInv'
<1>1. DlInv /\ CacheTypes /\ Batches /\ Scanned
  BY InvParts
<1>2. dest' \in [Object -> File]
  BY <1>1 DEF PruneObject, DlInv, DlTypeOK, File
<1>3. DlTypeOK' /\ pc' = pc
  BY <1>1, <1>2 DEF PruneObject, DlInv, DlTypeOK
<1>4. \A u \in Task : Spares(u)
  BY <1>1 DEF PruneObject, Spares, DlInv, Held
<1>5. DlInv'
  BY <1>1, <1>3, <1>4, DlSpared
<1>6. prune \in Prunes /\ prune.step = "remove"
  BY <1>1 DEF CacheTypes, PruneObject
<1>7. prune' \in Prunes /\ prune'.step = "remove" /\ prune'.objects \subseteq prune.objects
  <2>1. CASE prune' = [prune EXCEPT !.objects = @ \ {o}]
    BY <1>6, <2>1 DEF Prunes
  <2>2. CASE prune' = [prune EXCEPT !.objects = @ \ {o},
                                    !.removed = IF dest[o] = NoFile THEN @ ELSE @ \cup {o}]
    BY <1>6, <2>2 DEF Prunes
  <2> QED BY <2>1, <2>2 DEF PruneObject
<1>8. Scanned'
  BY <1>1, <1>6, <1>7 DEF Scanned, PruneObject
<1> QED BY <1>1, <1>3, <1>5, <1>7, <1>8, PruneMoves DEF PruneObject, CacheTypes

\* A part file is removed only under the lock of its destination.
LEMMA PrunePartKeeps ==
    ASSUME IInv, NEW o \in Object, PrunePart(o)
    PROVE  IInv'
<1>1. DlInv /\ CacheTypes /\ Batches /\ Scanned
  BY InvParts
<1>2. /\ part' \in [Object -> File]
      /\ lock[o] # None => part'[o] = part[o]
      /\ \A q \in Object \ {o} : part'[q] = part[q]
  BY <1>1 DEF PrunePart, PartLocked, DlInv, DlTypeOK, File
<1>3. DlTypeOK' /\ pc' = pc
  BY <1>1, <1>2 DEF PrunePart, DlInv, DlTypeOK
<1>4. ASSUME NEW u \in Task PROVE Spares(u)
  <2>1. pc[u] \in Holding => lock[ObjectOf[u]] = u /\ u # None /\ ObjectOf[u] \in Object
    BY <1>1, DownloadAssumption DEF DlInv, Held
  <2>2. pc[u] \in Holding => part'[ObjectOf[u]] = part[ObjectOf[u]]
    BY <1>2, <2>1
  <2> QED BY <2>1, <2>2 DEF Spares, PrunePart
<1>5. DlInv'
  BY <1>1, <1>3, <1>4, DlSpared
<1>6. prune \in Prunes /\ prune.step = "remove"
  BY <1>1 DEF CacheTypes, PrunePart
<1>7. prune' \in Prunes /\ prune'.step = "remove" /\ prune'.objects = prune.objects
  BY <1>6 DEF PrunePart, Prunes
<1>8. Scanned'
  BY <1>1, <1>6, <1>7 DEF Scanned, PrunePart
<1> QED BY <1>1, <1>3, <1>5, <1>7, <1>8, PruneMoves DEF PrunePart, CacheTypes

LEMMA PruneTemporaryKeeps ==
    ASSUME IInv, NEW w \in Writer, PruneTemporary(w)
    PROVE  IInv'
<1>1. DlInv /\ CacheTypes /\ Batches /\ Scanned
  BY InvParts
<1>2. DlInv' /\ pc' = pc
  BY <1>1, DlSame DEF PruneTemporary
<1>3. prune \in Prunes /\ prune.step = "remove" /\ tmp' \in [Writer -> Listing]
  BY <1>1 DEF CacheTypes, PruneTemporary, Listing
<1>4. prune' \in Prunes /\ prune'.step = "remove" /\ prune'.objects = prune.objects
  BY <1>3 DEF PruneTemporary, Prunes
<1>5. Scanned'
  BY <1>1, <1>3, <1>4 DEF Scanned, PruneTemporary
<1> QED BY <1>1, <1>2, <1>3, <1>4, <1>5, PruneMoves DEF PruneTemporary, CacheTypes

LEMMA PruneIndexKeeps ==
    ASSUME IInv, PruneIndex
    PROVE  IInv'
<1>1. DlInv /\ CacheTypes /\ Batches /\ Scanned /\ prune \in Prunes
  BY InvParts DEF CacheTypes
<1>2. DlInv' /\ pc' = pc
  BY <1>1, DlSame DEF PruneIndex
<1>3. Pruner \in Writer /\ NoFile \in Listing
  BY DEF Writer, Listing
<1>4. LoadIndex \ prune.removed \in Listing
  <2>1. LoadIndex \in SUBSET Object
    BY <1>1, ListedType DEF CacheTypes, LoadIndex
  <2> QED BY <2>1 DEF Listing
<1>5. index' \in Listing /\ tmp' \in [Writer -> Listing] /\ idxLock' \in Writer \cup {None}
  <2>1. CASE UNCHANGED <<index, tmp, idxLock>>
    BY <1>1, <2>1 DEF CacheTypes
  <2>2. CASE WriteIndexTemporary(Pruner, LoadIndex \ prune.removed)
    BY <1>1, <1>3, <1>4, <2>2 DEF WriteIndexTemporary, CacheTypes
  <2>3. CASE RemoveIndex(Pruner)
    BY <1>1, <1>3, <2>3 DEF RemoveIndex, CacheTypes
  <2>4. CASE RenameIndex(Pruner)
    BY <1>1, <1>3, <2>4 DEF RenameIndex, CacheTypes
  <2> QED BY <2>1, <2>2, <2>3, <2>4 DEF PruneIndex, IndexBusy
<1>6. prune' \in Prunes /\ prune'.step \in {"idle", "index", "written", "removed"}
  <2>1. CASE prune' = NoPrune
    BY <2>1, NoPruneType
  <2>2. ASSUME NEW step \in {"index", "written", "removed"}, prune' = [prune EXCEPT !.step = step]
        PROVE  prune' \in Prunes /\ prune'.step = step
    BY <1>1, <2>2 DEF Prunes, PruneStep
  <2> QED BY <2>1, <2>2 DEF PruneIndex
<1>7. stable' \subseteq stable /\ refs' = refs
  BY DEF PruneIndex
<1>8. Scanned'
  BY <1>1, <1>6, <1>7 DEF Scanned
<1>9. stable' \subseteq Process \X Object
  BY <1>1, <1>7 DEF CacheTypes
<1> QED BY <1>1, <1>2, <1>5, <1>6, <1>8, <1>9, PruneMoves DEF PruneIndex, CacheTypes

LEMMA PruneCrashKeeps ==
    ASSUME IInv, PruneCrash
    PROVE  IInv'
<1>1. DlInv /\ CacheTypes /\ Batches /\ Scanned
  BY InvParts
<1>2. DlInv' /\ pc' = pc
  BY <1>1, DlSame DEF PruneCrash
<1>3. prune' \in Prunes /\ stable' = {}
  BY NoPruneType DEF PruneCrash
<1>4. budget' \in [Event -> Nat]
  BY <1>1, SpendType DEF PruneCrash, Event
<1>5. idxLock' \in Writer \cup {None}
  BY <1>1 DEF PruneCrash, CacheTypes
<1>6. Scanned'
  BY <1>3, NoPruneType DEF Scanned, PruneCrash
<1> QED BY <1>1, <1>2, <1>3, <1>4, <1>5, <1>6, PruneMoves DEF PruneCrash, CacheTypes

-----------------------------------------------------------------------------
(***************************************************************************)
(* Cancellations, uploads and kills.                                       *)
(***************************************************************************)
LEMMA CancelKeeps ==
    ASSUME IInv, NEW p \in Process, CancelInstall(p)
    PROVE  IInv'
<1>1. DlInv /\ CacheTypes /\ Batches /\ Scanned
  BY InvParts
<1>2. DlTypeOK' /\ pc' = pc
  BY <1>1 DEF CancelInstall, Cancel, DlInv, DlTypeOK
<1>3. \A u \in Task : Spares(u)
  BY <1>1 DEF CancelInstall, Cancel, Spares, DlInv, Held
<1>4. DlInv'
  BY <1>1, <1>2, <1>3, DlSpared
<1>5. budget' \in [Event -> Nat]
  BY <1>1, SpendType DEF CancelInstall, Event
<1>6. CacheTypes' /\ Scanned'
  BY <1>1, <1>5, ScannedSame DEF CancelInstall, CacheTypes
<1>7. Batches'
  BY <1>1, <1>2, BatchSame DEF Batches, CancelInstall
<1> QED BY <1>4, <1>6, <1>7, InvMade

LEMMA UploadKeeps ==
    ASSUME IInv, UploadVersion
    PROVE  IInv'
<1>1. DlInv /\ CacheTypes /\ Batches /\ Scanned
  BY InvParts
<1>2. server' \in [Object -> Version]
  BY <1>1 DEF UploadVersion, Upload, DlInv, DlTypeOK
<1>3. DlTypeOK' /\ pc' = pc
  BY <1>1, <1>2 DEF UploadVersion, Upload, DlInv, DlTypeOK
<1>4. \A u \in Task : Spares(u)
  BY <1>1 DEF UploadVersion, Upload, Spares, DlInv, Held
<1>5. DlInv'
  BY <1>1, <1>3, <1>4, DlSpared
<1>6. budget' \in [Event -> Nat]
  BY <1>1, SpendType DEF UploadVersion, Event
<1>7. CacheTypes' /\ Scanned'
  BY <1>1, <1>6, ScannedSame DEF UploadVersion, CacheTypes
<1>8. Batches'
  BY <1>1, <1>3, BatchSame DEF Batches, UploadVersion
<1> QED BY <1>5, <1>7, <1>8, InvMade

LEMMA CrashKeeps ==
    ASSUME IInv, NEW p \in Process, Crash(p)
    PROVE  IInv'
<1>1. DlInv /\ CacheTypes /\ Batches /\ Scanned /\ DlTypeOK
  BY InvParts DEF DlInv
<1> DEFINE dead == {t \in Task : ProcessOf[t] = p}
<1>2. DlCrash(p)
  BY DEF Crash
<1>3. DlTypeOK'
  <2>1. /\ pc' \in [Task -> Step] /\ attempt' \in [Task -> 0 .. Retries]
        /\ existing' \in [Task -> Nat] /\ faults' \in [Task -> 0 .. Retries + 1]
    BY <1>1, <1>2, DownloadAssumption DEF DlCrash, DlTypeOK, Step, Waiting
  <2>2. stream' \in [Task -> Chunk] /\ lock' \in [Object -> Task \cup {None}]
    BY <1>1, <1>2 DEF DlCrash, DlTypeOK, Chunk
  <2>3. cancelled' \subseteq Task /\ spoiled' \subseteq Task
    BY <1>1, <1>2 DEF DlCrash, DlTypeOK
  <2> QED BY <1>1, <1>2, <2>1, <2>2, <2>3 DEF DlCrash, DlTypeOK
<1>4. ASSUME NEW u \in Task PROVE Held(u)' /\ Parts(u)' /\ Retry(u)'
  <2>1. CASE u \in dead
    <3>1. pc'[u] = "idle" /\ attempt'[u] = 0 /\ faults'[u] = 0
      BY <1>2, <2>1 DEF DlCrash
    <3> QED BY <3>1 DEF Held, Parts, Retry, Holding, Running, Waiting
  <2>2. CASE u \notin dead
    <3>1. pc[u] \in Holding => lock'[ObjectOf[u]] = u
      BY <1>1, <1>2, <2>2, DownloadAssumption DEF DlCrash, DlInv, Held
    <3>2. Spares(u)
      BY <1>2, <2>2, <3>1 DEF DlCrash, Spares
    <3> QED BY <1>1, <3>2, SparedKept
  <2> QED BY <2>1, <2>2
<1>5. DlInv'
  BY <1>3, <1>4 DEF DlInv
<1>6. ipc' \in [Process -> InstallStep] /\ ipc'[p] = "idle" /\ \A q \in Process \ {p} : ipc'[q] = ipc[q]
  BY <1>1 DEF Crash, InstallGoto, CacheTypes, InstallStep
<1>7. budget' \in [Event -> Nat]
  BY <1>1, SpendType DEF Crash, Event
<1>8. idxLock' \in Writer \cup {None}
  BY <1>1 DEF Crash, CacheTypes
<1>9. CacheTypes' /\ Scanned'
  BY <1>1, <1>6, <1>7, <1>8, ScannedSame DEF Crash, CacheTypes
<1>10. Batch(p)'
  <2>1. \A t \in TasksOf(p) : pc'[t] = "idle"
    BY <1>2 DEF DlCrash, TasksOf
  <2> QED BY <1>6, <2>1 DEF Batch, TasksOf
<1>11. ASSUME NEW q \in Process \ {p} PROVE Batch(q)'
  <2>1. \A t \in TasksOf(q) : t \in Task /\ t \notin dead
    BY DEF TasksOf
  <2>2. \A t \in TasksOf(q) : pc'[t] = pc[t]
    BY <1>2, <2>1 DEF DlCrash
  <2> QED BY <1>1, <1>6, <2>2, BatchSame DEF Batches, Crash
<1> QED BY <1>5, <1>9, <1>10, <1>11, InvMade DEF Batches

-----------------------------------------------------------------------------
LEMMA CacheStarts == Init => IInv
<1> SUFFICES ASSUME Init PROVE IInv
  OBVIOUS
<1>1. DlTypeOK
  <2>1. dest \in [Object -> File]
    <3>1. Body(Wanted) \in Chunk
      BY Bodies, DownloadAssumption
    <3>2. \A v \in Version : <<v>> \in Chunk
      BY DEF Chunk
    <3> QED BY <3>1, <3>2 DEF Init, DlInit, File
  <2>2. part \in [Object -> File]
    BY Leftovers DEF Init, DlInit, File
  <2>3. <<>> \in Chunk
    BY DEF Chunk
  <2>4. attempt \in [Task -> 0 .. Retries] /\ faults \in [Task -> 0 .. Retries + 1]
    BY DownloadAssumption DEF Init, DlInit
  <2> QED BY <2>1, <2>2, <2>3, <2>4 DEF Init, DlInit, DlTypeOK, Step, Waiting
<1>2. \A t \in Task : pc[t] = "idle" /\ attempt[t] = 0 /\ faults[t] = 0
  BY DEF Init, DlInit
<1>3. \A t \in Task : Held(t) /\ Parts(t) /\ Retry(t)
  BY <1>2 DEF Held, Parts, Retry, Holding, Running, Waiting
<1>4. index \in Listing /\ budget \in [Event -> Nat]
  BY CacheAssumption DEF Init, CacheInit, Listing
<1>5. rounds \in [Process -> Nat]
  BY <1>4 DEF Init, CacheInit, Event
<1>6. /\ ipc \in [Process -> InstallStep] /\ refs \in [Process -> Listing]
      /\ tmp \in [Writer -> Listing] /\ idxLock = None /\ prune \in Prunes /\ stable = {}
  BY NoPruneType DEF Init, CacheInit, InstallStep, Listing
<1>7. \A p \in Process : Batch(p)
  BY <1>2 DEF Init, CacheInit, Batch, TasksOf
<1>8. Scanned
  BY <1>6 DEF Scanned
<1> QED BY <1>1, <1>3, <1>4, <1>5, <1>6, <1>7, <1>8 DEF IInv, TypeOK, Prunes

LEMMA NextKeeps == IInv /\ [Next]_vars => IInv'
<1> SUFFICES ASSUME IInv, [Next]_vars PROVE IInv'
  OBVIOUS
<1>1. ASSUME NEW p \in Process, InstallNext(p) PROVE IInv'
  BY <1>1, StartInstallKeeps, TaskActionKeeps, InstallKeeps, RemoveManagedKeeps, RenameManagedKeeps
     DEF InstallNext
<1>2. CASE PruneNext
  BY <1>2, PruneLoadKeeps, PruneCandidatesKeeps, PruneIndexKeeps, PruneCrashKeeps, PruneScanKeeps,
     PruneObjectKeeps, PrunePartKeeps, PruneTemporaryKeeps DEF PruneNext
<1>3. CASE UNCHANGED vars
  <2>1. DlInv /\ CacheTypes /\ Batches /\ Scanned
    BY InvParts
  <2>2. DlInv' /\ pc' = pc
    BY <1>3, <2>1, DlSame DEF vars
  <2>3. CacheTypes' /\ Scanned'
    BY <1>3, <2>1, ScannedSame DEF vars, cacheVars, CacheTypes
  <2>4. Batches'
    BY <1>3, <2>1, <2>2, BatchSame DEF Batches, vars, cacheVars
  <2> QED BY <2>2, <2>3, <2>4, InvMade
<1> QED BY <1>1, <1>2, <1>3, CancelKeeps, CrashKeeps, UploadKeeps DEF Next

\* The inductive invariant holds in every behaviour.
THEOREM CacheInductive == Spec => []IInv
BY CacheStarts, NextKeeps, PTL DEF Spec

\* The types hold, and the part file a download streams into or is about to rename is
\* there, whatever prunes, kills and other downloads do (download_file, prune).
THEOREM PartFilesKept == Spec => []CacheInv
<1>1. IInv => CacheInv
  BY DEF IInv, CacheInv, PartInUseKept, Parts
<1> QED BY <1>1, CacheInductive, PTL

\* A download that nobody cancelled gives up only when at least half of its retries met a
\* fault of the server or the network: what it finds of an earlier part file costs it one
\* attempt (the retry loop of download, for every number of retries).
THEOREM RetriesHeal == Spec => []RetryHeals
<1>1. IInv => RetryHeals
  BY DEF IInv, RetryHeals, Retry
<1> QED BY <1>1, CacheInductive, PTL

-----------------------------------------------------------------------------
(***************************************************************************)
(* What a step may never do.                                               *)
(***************************************************************************)
\* A step of a download makes nothing visible but a file that verifies.
LEMMA TaskPublishes ==
    ASSUME DlInv, NEW t \in Task, TaskStep(t), NEW o \in Object, dest'[o] # dest[o]
    PROVE  dest'[o] = NoFile \/ Verified(o, dest'[o])
<1>0. dest \in [Object -> File] /\ ObjectOf[t] \in Object /\ Parts(t)
  BY DownloadAssumption DEF DlInv, DlTypeOK
<1>1. CASE Probe(t) \/ RecoverLocal(t)
  BY <1>0, <1>1 DEF Probe, RecoverLocal
<1>2. CASE Publish(t)
  <2>1. o = ObjectOf[t] /\ dest'[o] = part[o]
    BY <1>0, <1>2 DEF Publish
  <2>2. Verified(o, part[o])
    BY <1>0, <1>2, <2>1 DEF Publish, Parts
  <2> QED BY <2>1, <2>2
<1>3. CASE ~ (Probe(t) \/ RecoverLocal(t) \/ Publish(t))
  <2>1. dest' = dest
    BY <1>3 DEF TaskStep, Acquire, Busy, Refuse, Attempt, RequestFails, RangeNotSatisfiable, Respond,
         WriteChunk, StreamBreaks, StreamEnds, VerifyPart
  <2> QED BY <2>1
<1> QED BY <1>1, <1>2, <1>3

\* "No final object is exposed before validation" (docs/cache.md): a destination only ever
\* changes to a file that verifies, or disappears.
THEOREM PublishesOnlyValidated == Spec => OnlyValidatedPublished
<1>1. ASSUME IInv, Next, NEW o \in Object, dest'[o] # dest[o]
      PROVE  dest'[o] = NoFile \/ Verified(o, dest'[o])
  <2>0. DlInv /\ dest \in [Object -> File]
    BY <1>1, InvParts DEF DlInv, DlTypeOK
  <2>1. CASE \E p \in Process : TaskProgress(p)
    <3>1. PICK t \in Task : TaskStep(t)
      BY <2>1 DEF TaskProgress, TasksOf
    <3> QED BY <1>1, <2>0, <3>1, TaskPublishes
  <2>2. CASE \E q \in Object : PruneObject(q)
    BY <1>1, <2>0, <2>2 DEF PruneObject
  <2>3. CASE ~ (\E p \in Process : TaskProgress(p)) /\ ~ (\E q \in Object : PruneObject(q))
    <3>1. dest' = dest
      BY <1>1, <2>3 DEF Next, InstallNext, PruneNext, CancelInstall, Cancel, Crash, DlCrash,
           UploadVersion, Upload, StartInstall, StartTask, Begin, EndBatch, Snapshot, RemoveManaged,
           RenameManaged, Register, PruneLoad, PruneScan, PruneCandidates, PrunePart,
           PruneTemporary, PruneIndex, PruneCrash, dlVars
    <3> QED BY <1>1, <3>1
  <2> QED BY <2>1, <2>2, <2>3
<1>2. IInv /\ [Next]_vars =>
        [\A o \in Object : dest'[o] # dest[o] => dest'[o] = NoFile \/ Verified(o, dest'[o])]_vars
  BY <1>1
<1> QED BY <1>2, CacheInductive, PTL DEF Spec, OnlyValidatedPublished

\* A prune that reads the managed indexes one after another, without a lock, never removes an
\* object that one of them listed all along (referenced_cache_paths).
THEOREM StableReferencesKept == Spec => StableReferenceKept
<1>1. ASSUME IInv, NEW r \in stable, PruneObject(r[2])
      PROVE  FALSE
  BY <1>1 DEF IInv, Scanned, PruneObject
<1>2. IInv /\ [Next]_vars =>
        [\A r \in stable : PruneObject(r[2]) => dest'[r[2]] = dest[r[2]]]_vars
  BY <1>1
<1> QED BY <1>2, CacheInductive, PTL DEF Spec, StableReferenceKept
=============================================================================
