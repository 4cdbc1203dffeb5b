------------------------------ MODULE Downloads ------------------------------
(***************************************************************************)
(* The resumable downloads of the shared cache (download/mod.rs).  A task  *)
(* is one DownloadManager::download of one destination by one process; it  *)
(* holds the resource lock `cache:<destination>`, streams the response     *)
(* into the `.part` file next to the destination, verifies the part file   *)
(* and renames it.  The server may change the object, break a stream,      *)
(* answer an error, ignore a range request or refuse it; the process may   *)
(* be killed between any two steps and leaves its `.part` file behind.     *)
(*                                                                         *)
(* A file is the sequence of its chunks, a chunk is the version of the     *)
(* object it came from: a resumed download that joins chunks of two        *)
(* versions shows as a sequence of two versions.  A digest is injective on *)
(* these sequences.                                                        *)
(***************************************************************************)
EXTENDS Integers, Sequences, FiniteSets

CONSTANTS
    Task,        \* downloads that may be asked for
    Object,      \* destinations below the cache root
    Process,     \* operating-system processes
    ObjectOf,    \* the destination of a task
    ProcessOf,   \* the process a task runs in
    Hashed,      \* destinations whose request carries a digest and a size
    Version,     \* versions of an object the server may serve
    Chunks,      \* number of chunks of each version
    Wanted,      \* the version the digests of the requests describe
    Retries,     \* DownloadConfig.retries
    MaxFileSize, \* DownloadConfig.max_file_size, in chunks
    NoFile,      \* no file at a path
    None         \* no holder of a lock

ASSUME DownloadAssumption ==
    /\ ObjectOf \in [Task -> Object]
    /\ ProcessOf \in [Task -> Process]
    /\ Hashed \subseteq Object
    /\ Wanted \in Version
    /\ Chunks \in [Version -> Nat \ {0}]
    /\ Retries \in 0 .. 20
    /\ MaxFileSize \in Nat \ {0}
    /\ Chunks[Wanted] <= MaxFileSize
    /\ NoFile \notin Seq(Version)
    /\ None \notin Task

VARIABLES
    server,     \* [Object -> Version]: what the server has now
    dest,       \* [Object -> File]: the destination
    part,       \* [Object -> File]: the `.part` file
    lock,       \* [Object -> Task or None]: holder of cache:<destination>
    pc,         \* [Task -> step]
    attempt,    \* [Task -> Nat]: the loop counter of download
    existing,   \* [Task -> Nat]: length of the part file when the request was sent
    stream,     \* [Task -> chunks of the response not yet written]
    cancelled,  \* tasks whose CancellationToken is set
    spoiled,    \* history: tasks whose running attempt met a fault outside the code
    faults      \* history: [Task -> Nat], failed attempts that met such a fault

dlVars == <<server, dest, part, lock, pc, attempt, existing, stream, cancelled,
            spoiled, faults>>

Chunk == Seq(Version)
File == Chunk \cup {NoFile}
Body(v) == [i \in 1 .. Chunks[v] |-> v]

Waiting == {"idle", "lock"}
Holding == {"probe", "attempt", "sent", "stream", "verify", "publish"}
Ended == {"reused", "done", "failed", "cancelled", "unrecovered", "refused", "busy"}
Step == Waiting \cup Holding \cup Ended

DlTypeOK ==
    /\ server \in [Object -> Version]
    /\ dest \in [Object -> File]
    /\ part \in [Object -> File]
    /\ lock \in [Object -> Task \cup {None}]
    /\ pc \in [Task -> Step]
    /\ attempt \in [Task -> 0 .. Retries]
    /\ existing \in [Task -> Nat]
    /\ stream \in [Task -> Chunk]
    /\ cancelled \subseteq Task
    /\ spoiled \subseteq Task
    /\ faults \in [Task -> 0 .. Retries + 1]

\* verify_file: a request without digest and size accepts any file that opens.
Verified(o, f) == f # NoFile /\ (o \in Hashed => f = Body(Wanted))

\* What an earlier, killed download may have left of version v.
Leftover(v) == {SubSeq(Body(v), 1, n) : n \in 0 .. Chunks[v]}

DlInit ==
    /\ server \in [Object -> Version]
    /\ dest \in [Object -> {NoFile, Body(Wanted)} \cup {<<v>> : v \in Version}]
    /\ part \in [Object -> {NoFile} \cup UNION {Leftover(v) : v \in Version}]
    /\ lock = [o \in Object |-> None]
    /\ pc = [t \in Task |-> "idle"]
    /\ attempt = [t \in Task |-> 0]
    /\ existing = [t \in Task |-> 0]
    /\ stream = [t \in Task |-> <<>>]
    /\ cancelled = {}
    /\ spoiled = {}
    /\ faults = [t \in Task |-> 0]

-----------------------------------------------------------------------------
Goto(t, step) == pc' = [pc EXCEPT ![t] = step]

\* The guard of the resource lock is dropped when download returns.
Return(t, outcome) ==
    /\ Goto(t, outcome)
    /\ lock' = [lock EXCEPT ![ObjectOf[t]] = None]
    /\ stream' = [stream EXCEPT ![t] = <<>>]

\* One task of a batch starts: download up to its wait for the lock.
Begin(t) ==
    /\ pc[t] = "idle"
    /\ Goto(t, "lock")
    /\ UNCHANGED <<server, dest, part, lock, attempt, existing, stream, cancelled,
                   spoiled, faults>>

Acquire(t) ==
    /\ pc[t] = "lock"
    /\ lock[ObjectOf[t]] = None
    /\ lock' = [lock EXCEPT ![ObjectOf[t]] = t]
    /\ Goto(t, "probe")
    /\ UNCHANGED <<server, dest, part, attempt, existing, stream, cancelled,
                   spoiled, faults>>

\* acquire_exclusive gives up 30 seconds after it found the lock taken.
Busy(t) ==
    /\ pc[t] = "lock"
    /\ lock[ObjectOf[t]] # None
    /\ Goto(t, "busy")
    /\ UNCHANGED <<server, dest, part, lock, attempt, existing, stream, cancelled,
                   spoiled, faults>>

\* A valid destination is reused; another one is removed before the first attempt.
Probe(t) ==
    LET o == ObjectOf[t] IN
    /\ pc[t] = "probe"
    /\ \/ /\ Verified(o, dest[o])
          /\ Return(t, "reused")
          /\ UNCHANGED dest
       \/ /\ ~Verified(o, dest[o])
          /\ dest' = [dest EXCEPT ![o] = NoFile]
          /\ Goto(t, "attempt")
          /\ UNCHANGED <<lock, stream>>
    /\ UNCHANGED <<server, part, attempt, existing, cancelled, spoiled, faults>>

\* recover_local: finalize a complete `.part` file without the network.  It
\* runs under the same lock, and answers false when the part does not verify.
RecoverLocal(t) ==
    LET o == ObjectOf[t] IN
    /\ pc[t] = "probe"
    /\ ~Verified(o, dest[o])
    /\ \/ /\ Verified(o, part[o])
          /\ dest' = [dest EXCEPT ![o] = NoFile]
          /\ Goto(t, "publish")
          /\ UNCHANGED <<lock, stream>>
       \/ /\ ~Verified(o, part[o])
          /\ Return(t, "unrecovered")
          /\ UNCHANGED dest
    /\ UNCHANGED <<server, part, attempt, existing, cancelled, spoiled, faults>>

\* The error exits: a parent of the destination is no real directory, the
\* destination or the part file is no regular file, or the rename fails.
Refuse(t) ==
    /\ pc[t] \in {"probe", "publish"}
    /\ Return(t, "refused")
    /\ UNCHANGED <<server, dest, part, attempt, existing, cancelled, spoiled, faults>>

\* The head of the retry loop, and the request that asks for the rest of the part.
Attempt(t) ==
    LET o == ObjectOf[t] IN
    /\ pc[t] = "attempt"
    /\ \/ /\ t \in cancelled
          /\ Return(t, "cancelled")
          /\ UNCHANGED existing
       \/ /\ t \notin cancelled
          /\ existing' = [existing EXCEPT ![t] = IF part[o] = NoFile THEN 0 ELSE Len(part[o])]
          /\ Goto(t, "sent")
          /\ UNCHANGED <<lock, stream>>
    /\ UNCHANGED <<server, dest, part, attempt, cancelled, spoiled, faults>>

\* The history of a failed attempt.
CountFault(t, fault) ==
    /\ spoiled' = spoiled \ {t}
    /\ faults' = IF fault \/ t \in spoiled THEN [faults EXCEPT ![t] = @ + 1] ELSE faults

\* The end of an attempt that failed: another one after the delay, or give up.
FailAttempt(t, fault) ==
    /\ CountFault(t, fault)
    /\ \/ /\ attempt[t] < Retries
          /\ attempt' = [attempt EXCEPT ![t] = @ + 1]
          /\ Goto(t, "attempt")
          /\ stream' = [stream EXCEPT ![t] = <<>>]
          /\ UNCHANGED lock
       \/ /\ attempt[t] = Retries
          /\ Return(t, "failed")
          /\ UNCHANGED attempt

\* The connection fails, the status is an error, or the Content-Range of a
\* partial response does not start where the part file ends.
RequestFails(t) ==
    /\ pc[t] = "sent"
    /\ FailAttempt(t, TRUE)
    /\ UNCHANGED <<server, dest, part, existing, cancelled>>

\* History: the server answers this attempt with another object than the wanted one.
Answered(t) ==
    /\ spoiled' = IF server[ObjectOf[t]] = Wanted THEN spoiled ELSE spoiled \cup {t}
    /\ UNCHANGED faults

\* 416: there is nothing after the part file; it is verified as it stands.
RangeNotSatisfiable(t) ==
    /\ pc[t] = "sent"
    /\ existing[t] > 0
    /\ existing[t] >= Chunks[server[ObjectOf[t]]]
    /\ Goto(t, "verify")
    /\ Answered(t)
    /\ UNCHANGED <<server, dest, part, lock, attempt, existing, stream, cancelled>>

\* 206 appends to the part file; 200, also where the server ignores the range,
\* truncates it.  The body is the object the server has at this moment.
Respond(t) ==
    LET o == ObjectOf[t]
        body == Body(server[o]) IN
    /\ pc[t] = "sent"
    /\ \/ /\ existing[t] > 0
          /\ existing[t] < Len(body)
          /\ stream' = [stream EXCEPT ![t] = SubSeq(body, existing[t] + 1, Len(body))]
          /\ UNCHANGED part
       \/ /\ stream' = [stream EXCEPT ![t] = body]
          /\ part' = [part EXCEPT ![o] = <<>>]
    /\ Goto(t, "stream")
    /\ Answered(t)
    /\ UNCHANGED <<server, dest, lock, attempt, existing, cancelled>>

\* One chunk: the token and the size limit are looked at before it is written.
\* The part file keeps what was written when the attempt fails.
WriteChunk(t) ==
    LET o == ObjectOf[t] IN
    /\ pc[t] = "stream"
    /\ stream[t] # <<>>
    /\ \/ /\ t \notin cancelled
          /\ Len(part[o]) < MaxFileSize
          /\ part' = [part EXCEPT ![o] = Append(@, Head(stream[t]))]
          /\ stream' = [stream EXCEPT ![t] = Tail(@)]
          /\ UNCHANGED <<pc, lock, attempt, spoiled, faults>>
       \/ /\ t \in cancelled \/ Len(part[o]) >= MaxFileSize
          /\ FailAttempt(t, FALSE)
          /\ UNCHANGED part
    /\ UNCHANGED <<server, dest, existing, cancelled>>

\* The body breaks off before its end (reqwest reports it as an error).
StreamBreaks(t) ==
    /\ pc[t] = "stream"
    /\ stream[t] # <<>>
    /\ FailAttempt(t, TRUE)
    /\ UNCHANGED <<server, dest, part, existing, cancelled>>

\* mutant: what arrived is renamed without being verified
StreamEndsUnverified(t) ==
    /\ pc[t] = "stream"
    /\ stream[t] = <<>>
    /\ Goto(t, "publish")
    /\ UNCHANGED <<server, dest, part, lock, attempt, existing, stream, cancelled,
                   spoiled, faults>>

\* The end of the body: the file is flushed and download verifies it.
StreamEnds(t) ==
    /\ pc[t] = "stream"
    /\ stream[t] = <<>>
    /\ Goto(t, "verify")
    /\ UNCHANGED <<server, dest, part, lock, attempt, existing, stream, cancelled,
                   spoiled, faults>>

\* mutant: a part file that does not verify is kept and resumed
VerifyPartKeeps(t) ==
    LET o == ObjectOf[t] IN
    /\ pc[t] = "verify"
    /\ \/ /\ Verified(o, part[o])
          /\ Goto(t, "publish")
          /\ UNCHANGED <<lock, attempt, stream, spoiled, faults>>
       \/ /\ ~Verified(o, part[o])
          /\ FailAttempt(t, FALSE)
    /\ UNCHANGED <<server, dest, part, existing, cancelled>>

\* A part file that does not verify is removed, so that the next attempt
\* starts from nothing.
VerifyPart(t) ==
    LET o == ObjectOf[t] IN
    /\ pc[t] = "verify"
    /\ \/ /\ Verified(o, part[o])
          /\ Goto(t, "publish")
          /\ UNCHANGED <<part, lock, attempt, stream, spoiled, faults>>
       \/ /\ ~Verified(o, part[o])
          /\ part' = [part EXCEPT ![o] = NoFile]
          /\ FailAttempt(t, FALSE)
    /\ UNCHANGED <<server, dest, existing, cancelled>>

\* The rename that makes the object visible.
Publish(t) ==
    LET o == ObjectOf[t] IN
    /\ pc[t] = "publish"
    /\ dest' = [dest EXCEPT ![o] = part[o]]
    /\ part' = [part EXCEPT ![o] = NoFile]
    /\ Return(t, "done")
    /\ UNCHANGED <<server, attempt, existing, cancelled, spoiled, faults>>

\* CancellationToken::cancel, by the owner of the operation.
Cancel(p) ==
    /\ cancelled' = cancelled \cup {t \in Task : ProcessOf[t] = p}
    /\ UNCHANGED <<server, dest, part, lock, pc, attempt, existing, stream, spoiled, faults>>

\* A process is killed: its tasks are gone and the system frees its locks.
DlCrash(p) ==
    LET dead == {t \in Task : ProcessOf[t] = p} IN
    /\ pc' = [t \in Task |-> IF t \in dead THEN "idle" ELSE pc[t]]
    /\ lock' = [o \in Object |-> IF lock[o] \in dead THEN None ELSE lock[o]]
    /\ attempt' = [t \in Task |-> IF t \in dead THEN 0 ELSE attempt[t]]
    /\ existing' = [t \in Task |-> IF t \in dead THEN 0 ELSE existing[t]]
    /\ stream' = [t \in Task |-> IF t \in dead THEN <<>> ELSE stream[t]]
    /\ cancelled' = cancelled \ dead
    /\ spoiled' = spoiled \ dead
    /\ faults' = [t \in Task |-> IF t \in dead THEN 0 ELSE faults[t]]
    /\ UNCHANGED <<server, dest, part>>

\* Another version of the object is uploaded.
Upload(o) ==
    /\ \E v \in Version : server' = [server EXCEPT ![o] = v]
    /\ UNCHANGED <<dest, part, lock, pc, attempt, existing, stream, cancelled, spoiled, faults>>

TaskStep(t) ==
    \/ Acquire(t) \/ Busy(t) \/ Probe(t) \/ RecoverLocal(t) \/ Refuse(t)
    \/ Attempt(t) \/ RequestFails(t) \/ RangeNotSatisfiable(t) \/ Respond(t)
    \/ WriteChunk(t) \/ StreamBreaks(t) \/ StreamEnds(t)
    \/ VerifyPart(t) \/ Publish(t)

DlNext ==
    \/ \E t \in Task : Begin(t) \/ TaskStep(t)
    \/ \E p \in Process : Cancel(p) \/ DlCrash(p)
    \/ \E o \in Object : Upload(o)

DlSpec == DlInit /\ [][DlNext]_dlVars
==============================================================================
